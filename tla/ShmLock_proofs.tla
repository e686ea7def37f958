--------------------------- MODULE ShmLock_proofs ---------------------------
(***************************************************************************)
(* Proofs about ShmLock, for any number of CGI processes and of semaphore  *)
(* objects, with or without kills.                                         *)
(***************************************************************************)
EXTENDS ShmLock, TLAPS

LEMMA ProcIsProc == ASSUME NEW a \in Actors PROVE Proc(a) \in Procs
BY DEF Actors, Procs, Proc, Threads

LEMMA EndTypeOK ==
  ASSUME TypeOK, NEW S \in SUBSET Actors, NEW P \in SUBSET Procs,
         NEW place \in Places, End(S, P, place), shm' \in BOOLEAN
  PROVE  TypeOK'
<1> USE DEF TypeOK, End
<1>1. /\ at' \in [Actors -> Places]
      /\ handle' \in [Procs -> Objects \cup {None}]
      /\ held' \in [Actors -> Objects \cup {None}]
  OBVIOUS
<1>2. abandoned' \subseteq Objects
  OBVIOUS
<1> QED
  BY <1>1, <1>2

LEMMA InitTypeOK == Init => TypeOK
BY DEF Init, TypeOK, Places

LEMMA ActorStepTypeOK ==
  ASSUME TypeOK, NEW a \in Actors, ActorStep(a)
  PROVE  TypeOK'
<1> USE DEF TypeOK, Places
<1>1. Proc(a) \in Procs
  BY ProcIsProc
<1>2. CASE Open(a)
  BY <1>1, <1>2 DEF Open
<1>3. CASE Enter(a)
  BY <1>1, <1>3 DEF Enter
<1>4. CASE Leave(a)
  <2>1. at' \in [Actors -> Places]
    BY <1>4 DEF Leave, AfterSection
  <2>2. value' \in [Objects -> {0, 1}] /\ abandoned' \subseteq Objects
    BY <1>1, <1>4 DEF Leave
  <2> QED
    BY <1>4, <2>1, <2>2 DEF Leave
<1>5. CASE Close(a)
  BY <1>1, <1>5 DEF Close
<1>6. CASE Unlink(a)
  BY <1>6 DEF Unlink
<1> QED
  BY <1>2, <1>3, <1>4, <1>5, <1>6 DEF ActorStep

LEMMA StepTypeOK == TypeOK /\ [Next]_vars => TypeOK'
<1> SUFFICES ASSUME TypeOK, [Next]_vars PROVE TypeOK'
  OBVIOUS
<1>1. CASE UNCHANGED vars
  BY <1>1 DEF vars, TypeOK
<1>2. ASSUME NEW c \in Cgis, CgiStep(c) PROVE TypeOK'
  <2>1. {c} \in SUBSET Actors /\ {c} \in SUBSET Procs /\ "idle" \in Places
    BY DEF Actors, Procs, Places
  <2>2. CASE Map(c)
    BY <2>2 DEF Map, TypeOK, Places
  <2>3. CASE TableFull(c) \/ Crash(c)
    <3>1. End({c}, {c}, "idle") /\ UNCHANGED shm
      BY <2>3 DEF TableFull, Crash
    <3>2. shm' \in BOOLEAN
      BY <3>1 DEF TypeOK
    <3> QED
      BY <2>1, <3>1, <3>2, EndTypeOK
  <2> QED
    BY <1>2, <2>2, <2>3 DEF CgiStep
<1>3. ASSUME NEW a \in Actors, ActorStep(a) PROVE TypeOK'
  BY <1>3, ActorStepTypeOK
<1>4. CASE DaemonStep
  <2>1. Threads \in SUBSET Actors /\ {"daemon"} \in SUBSET Procs /\ "gone" \in Places
    BY DEF Actors, Procs, Places
  <2>2. CASE Spawn \/ EnterUnlocked \/ Unmap
    BY <2>2 DEF Spawn, EnterUnlocked, Unmap, TypeOK, Places
  <2>3. CASE Exit \/ Fault \/ Kill
    <3>1. End(Threads, {"daemon"}, "gone") /\ shm' \in BOOLEAN
      BY <2>3 DEF Exit, Fault, Kill, TypeOK
    <3> QED
      BY <2>1, <3>1, EndTypeOK
  <2> QED
    BY <1>4, <2>2, <2>3 DEF DaemonStep
<1> QED
  BY <1>1, <1>2, <1>3, <1>4 DEF Next

\* The variables of ShmLock keep their types: no step is undefined.
THEOREM TypeCorrect == Spec => []TypeOK
BY InitTypeOK, StepTypeOK, PTL DEF Spec

-----------------------------------------------------------------------------
\* A semaphore that is held is at zero, and its holder is in a section.
HeldIsTaken ==
  \A a \in Actors : held[a] # None => value[held[a]] = 0 /\ Inside(a)

\* Who is in a section and will post will post what it waited for.
PostsWhatItHolds ==
  \A a \in Actors : Inside(a) /\ handle[Proc(a)] # None => held[a] = handle[Proc(a)]

\* The daemon opens its semaphore before its second thread exists.
OpensAlone == /\ at["sync"] # "mapped"
              /\ at["main"] = "mapped" => at["sync"] = "none"

LockInv == /\ HeldIsTaken /\ PostsWhatItHolds /\ OpensAlone
           /\ OneHolder /\ TakenHasHolder

LEMMA InitLockInv == Init => LockInv
<1> SUFFICES ASSUME Init PROVE LockInv
  OBVIOUS
<1> USE DEF Init
<1>1. \A a \in Actors : held[a] = None /\ ~Inside(a)
  BY DEF Inside
<1>2. at["main"] = "mapped" /\ at["sync"] = "none"
  BY DEF Actors, Threads
<1>3. HeldIsTaken /\ PostsWhatItHolds /\ OneHolder
  BY <1>1 DEF HeldIsTaken, PostsWhatItHolds, OneHolder
<1>4. OpensAlone
  BY <1>2 DEF OpensAlone
<1>5. TakenHasHolder
  BY DEF TakenHasHolder
<1> QED
  BY <1>3, <1>4, <1>5 DEF LockInv

\* Actors with the same handle are the two threads of the daemon.
LEMMA SameProc ==
  ASSUME NEW a \in Actors, NEW b \in Actors, Proc(a) = Proc(b)
  PROVE  a = b \/ (a \in Threads /\ b \in Threads)
BY LockAssumption DEF Actors, Proc, Threads

LEMMA EndLockInv ==
  ASSUME TypeOK, LockInv, NEW S \in SUBSET Actors, NEW P \in SUBSET Procs,
         NEW place \in {"idle", "gone"}, End(S, P, place),
         Threads \subseteq S \/ S \cap Threads = {},
         \A a \in Actors \ S : Proc(a) \notin P
  PROVE  LockInv'
<1> USE DEF TypeOK, LockInv, End, Inside
<1>1. /\ \A a \in Actors : held'[a] = IF a \in S THEN None ELSE held[a]
      /\ \A a \in Actors : at'[a] = IF a \in S THEN place ELSE at[a]
      /\ \A a \in Actors \ S : handle'[Proc(a)] = handle[Proc(a)]
  BY ProcIsProc
<1>2. HeldIsTaken'
  BY <1>1 DEF HeldIsTaken
<1>3. PostsWhatItHolds'
  BY <1>1 DEF PostsWhatItHolds
<1>4. OpensAlone'
  BY <1>1 DEF OpensAlone, Actors, Threads
<1>5. OneHolder'
  BY <1>1 DEF OneHolder
<1>6. TakenHasHolder'
  <2> SUFFICES ASSUME NEW o \in Objects, value[o] = 0, o \notin abandoned'
               PROVE  \E a \in Actors : held'[a] = o
    BY DEF TakenHasHolder
  <2>1. PICK a \in Actors : held[a] = o
    BY DEF TakenHasHolder
  <2>2. a \notin S
    BY <2>1, LockAssumption
  <2> QED
    BY <1>1, <2>1, <2>2
<1> QED
  BY <1>2, <1>3, <1>4, <1>5, <1>6

LEMMA OpenLockInv ==
  ASSUME TypeOK, LockInv, NEW a \in Actors, Open(a)
  PROVE  LockInv'
<1> USE DEF TypeOK, LockInv, Inside
<1>1. Proc(a) \in Procs /\ Open(a) /\ at[a] = "mapped"
  BY ProcIsProc DEF Open
<1>2. ASSUME NEW b \in Actors, Inside(b) PROVE Proc(b) # Proc(a)
  <2> SUFFICES ASSUME Proc(b) = Proc(a) PROVE FALSE
    OBVIOUS
  <2>1. a # b /\ a \in Threads /\ b \in Threads
    BY <1>1, <1>2, SameProc
  <2> QED
    BY <1>1, <1>2, <2>1 DEF Threads, OpensAlone
<1>3. /\ \A b \in Actors : at'[b] = IF b = a THEN "ready" ELSE at[b]
      /\ UNCHANGED held
      /\ \A b \in Actors : held[b] # None => value'[held[b]] = value[held[b]]
  <2>1. \A b \in Actors : held[b] \in Reachable
    BY DEF Reachable
  <2> QED
    BY <2>1 DEF Open
<1>4. \A b \in Actors : Inside(b)' => Inside(b) /\ handle'[Proc(b)] = handle[Proc(b)]
  BY <1>1, <1>2, <1>3, ProcIsProc DEF Open
<1>5. HeldIsTaken'
  BY <1>1, <1>3 DEF HeldIsTaken
<1>6. PostsWhatItHolds'
  BY <1>3, <1>4 DEF PostsWhatItHolds
<1>7. OpensAlone'
  BY <1>1, <1>3 DEF OpensAlone, Actors, Threads
<1>8. OneHolder'
  BY <1>3 DEF OneHolder
<1>9. TakenHasHolder'
  BY DEF TakenHasHolder, Open
<1> QED
  BY <1>5, <1>6, <1>7, <1>8, <1>9

LEMMA EnterLockInv ==
  ASSUME TypeOK, LockInv, NEW a \in Actors, Enter(a)
  PROVE  LockInv'
<1> USE DEF TypeOK, LockInv, Inside
<1> DEFINE o == handle[Proc(a)]
<1>1. /\ o \in Objects /\ value[o] = 1 /\ at[a] = "ready"
      /\ UNCHANGED <<handle, abandoned>>
  BY ProcIsProc DEF Enter
<1>2. /\ \A b \in Actors : held'[b] = IF b = a THEN o ELSE held[b]
      /\ \A b \in Actors : at'[b] = IF b = a THEN "inside" ELSE at[b]
      /\ \A x \in Objects : value'[x] = IF x = o THEN 0 ELSE value[x]
  BY DEF Enter
<1>3. \A b \in Actors : held[b] # o /\ (b = a => held[b] = None)
  BY <1>1, LockAssumption DEF HeldIsTaken
<1> HIDE DEF o
<1>4. HeldIsTaken'
  BY <1>1, <1>2, <1>3 DEF HeldIsTaken
<1>5. PostsWhatItHolds'
  BY <1>1, <1>2 DEF PostsWhatItHolds, o
<1>6. OpensAlone'
  BY <1>1, <1>2 DEF OpensAlone, Actors, Threads
<1>7. OneHolder'
  BY <1>1, <1>2, <1>3 DEF OneHolder
<1>8. TakenHasHolder'
  <2> SUFFICES ASSUME NEW x \in Objects, value'[x] = 0, x \notin abandoned
               PROVE  \E b \in Actors : held'[b] = x
    BY <1>1 DEF TakenHasHolder
  <2>1. CASE x = o
    BY <1>2, <2>1
  <2>2. CASE x # o
    <3>1. PICK b \in Actors : held[b] = x
      BY <1>2, <2>2 DEF TakenHasHolder
    <3> QED
      BY <1>2, <1>3, <3>1, LockAssumption
  <2> QED
    BY <2>1, <2>2
<1> QED
  BY <1>4, <1>5, <1>6, <1>7, <1>8

LEMMA LeaveLockInv ==
  ASSUME TypeOK, LockInv, NEW a \in Actors, Leave(a)
  PROVE  LockInv'
<1> USE DEF TypeOK, LockInv, Inside
<1> DEFINE o == handle[Proc(a)]
<1>1. at[a] = "inside" /\ UNCHANGED handle /\ (o # None => held[a] = o /\ o \in Objects)
  BY ProcIsProc DEF Leave, PostsWhatItHolds
<1>2. /\ \A b \in Actors : held'[b] = IF b = a THEN None ELSE held[b]
      /\ \A b \in Actors : at'[b] = IF b = a THEN "ready"
                                    ELSE IF b = "sync" THEN AfterSection(a, at[b])
                                    ELSE at[b]
  BY DEF Leave, AfterSection
<1>3. \A b \in Actors : Inside(b)' <=> Inside(b) /\ b # a
  BY <1>2 DEF AfterSection
<1>4. \/ /\ o # None
         /\ \A x \in Objects : value'[x] = IF x = o THEN 1 ELSE value[x]
         /\ abandoned' = abandoned
      \/ /\ o = None
         /\ value' = value
         /\ abandoned' = abandoned \cup ({held[a]} \ {None})
  BY <1>1 DEF Leave
<1> HIDE DEF o
<1>5. HeldIsTaken'
  BY <1>1, <1>2, <1>3, <1>4 DEF HeldIsTaken, OneHolder
<1>6. PostsWhatItHolds'
  BY <1>1, <1>2, <1>3 DEF PostsWhatItHolds
<1>7. OpensAlone'
  BY <1>1, <1>2 DEF OpensAlone, Actors, Threads, AfterSection
<1>8. OneHolder'
  BY <1>2 DEF OneHolder
<1>9. TakenHasHolder'
  <2> SUFFICES ASSUME NEW x \in Objects, value'[x] = 0, x \notin abandoned'
               PROVE  \E b \in Actors : held'[b] = x
    BY DEF TakenHasHolder
  <2>1. value[x] = 0 /\ x \notin abandoned /\ held[a] # x
    BY <1>1, <1>4, LockAssumption
  <2>2. PICK b \in Actors : held[b] = x
    BY <2>1 DEF TakenHasHolder
  <2> QED
    BY <1>2, <2>1, <2>2
<1> QED
  BY <1>5, <1>6, <1>7, <1>8, <1>9

\* Steps that touch neither the values nor what is held.
LEMMA OtherLockInv ==
  ASSUME TypeOK, LockInv,
         \/ \E c \in Cgis : Map(c)
         \/ \E a \in Actors : Close(a) \/ Unlink(a)
         \/ Spawn \/ Unmap
  PROVE  LockInv'
<1> USE DEF TypeOK, LockInv, Inside
<1>1. /\ UNCHANGED <<held, value, abandoned>>
      /\ \A b \in Actors : at'[b] = "inside" <=> at[b] = "inside"
      /\ \A p \in Procs : handle'[p] # None => handle'[p] = handle[p]
  BY DEF Map, Close, Unlink, Spawn, Unmap, Actors, Threads
<1>2. OpensAlone'
  BY LockAssumption DEF Map, Close, Unlink, Spawn, Unmap, OpensAlone, Actors, Threads
<1> QED
  BY <1>1, <1>2, ProcIsProc DEF HeldIsTaken, PostsWhatItHolds, OneHolder, TakenHasHolder

LEMMA EnterUnlockedLockInv ==
  ASSUME TypeOK, LockInv, EnterUnlocked
  PROVE  LockInv'
<1> USE DEF TypeOK, LockInv, Inside
<1>1. /\ UNCHANGED <<held, value, abandoned, handle>>
      /\ \A b \in Actors : at'[b] = IF b = "sync" THEN "inside" ELSE at[b]
      /\ handle["daemon"] = None /\ at["sync"] = "ready"
  BY DEF EnterUnlocked
<1>2. Proc("sync") = "daemon"
  BY DEF Proc, Threads
<1> QED
  BY <1>1, <1>2 DEF HeldIsTaken, PostsWhatItHolds, OneHolder, TakenHasHolder,
                    OpensAlone, Actors, Threads

LEMMA StepLockInv == TypeOK /\ LockInv /\ [Next]_vars => LockInv'
<1> SUFFICES ASSUME TypeOK, LockInv, [Next]_vars PROVE LockInv'
  OBVIOUS
<1>1. CASE UNCHANGED vars
  BY <1>1 DEF vars, LockInv, HeldIsTaken, PostsWhatItHolds, OpensAlone, OneHolder,
              TakenHasHolder, Inside
<1>2. ASSUME NEW c \in Cgis, TableFull(c) \/ Crash(c) PROVE LockInv'
  <2>1. /\ {c} \in SUBSET Actors /\ {c} \in SUBSET Procs
        /\ "idle" \in {"idle", "gone"}
        /\ {c} \cap Threads = {}
        /\ \A a \in Actors \ {c} : Proc(a) \notin {c}
    BY LockAssumption DEF Actors, Procs, Proc, Threads
  <2>2. End({c}, {c}, "idle")
    BY <1>2 DEF TableFull, Crash
  <2> QED
    BY <2>1, <2>2, EndLockInv
<1>3. CASE Exit \/ Fault \/ Kill
  <2>1. /\ Threads \in SUBSET Actors /\ {"daemon"} \in SUBSET Procs
        /\ "gone" \in {"idle", "gone"}
        /\ \A a \in Actors \ Threads : Proc(a) \notin {"daemon"}
    BY LockAssumption DEF Actors, Procs, Proc
  <2>2. End(Threads, {"daemon"}, "gone")
    BY <1>3 DEF Exit, Fault, Kill
  <2> QED
    BY <2>1, <2>2, EndLockInv
<1>4. ASSUME NEW a \in Actors, Open(a) \/ Enter(a) \/ Leave(a) PROVE LockInv'
  BY <1>4, OpenLockInv, EnterLockInv, LeaveLockInv
<1>5. CASE \/ \E c \in Cgis : Map(c)
           \/ \E a \in Actors : Close(a) \/ Unlink(a)
           \/ Spawn \/ Unmap
  BY <1>5, OtherLockInv
<1>6. CASE EnterUnlocked
  BY <1>6, EnterUnlockedLockInv
<1> QED
  BY <1>1, <1>2, <1>3, <1>4, <1>5, <1>6 DEF Next, CgiStep, ActorStep, DaemonStep

LEMMA LockInvHolds == Spec => []LockInv
BY InitTypeOK, StepTypeOK, InitLockInv, StepLockInv, PTL DEF Spec

\* sem_memory_wait: however many semaphore objects come to exist under the one
\* name, no object ever admits two.
THEOREM ObjectAdmitsOne == Spec => []OneHolder
<1>1. LockInv => OneHolder
  BY DEF LockInv
<1> QED
  BY <1>1, LockInvHolds, PTL

\* sem_memory_post: only a kill, or the end of the daemon in the middle of a
\* section, leaves a semaphore taken with nobody to post it.
THEOREM TakenHasItsHolder == Spec => []TakenHasHolder
<1>1. LockInv => TakenHasHolder
  BY DEF LockInv
<1> QED
  BY <1>1, LockInvHolds, PTL

-----------------------------------------------------------------------------
\* Nobody has detached yet: every handle is the named object, and whoever has
\* come past sem_open has one.
OneObject ==
  ~closed => /\ \A p \in Procs : handle[p] \in {None, name}
             /\ \A a \in Actors : at[a] \in {"ready", "inside"} => handle[Proc(a)] # None
             /\ \A a \in Actors : at[a] \notin {"closed", "unlinked", "unmapped"}

LEMMA InitOneObject == Init => OneObject
<1> SUFFICES ASSUME Init PROVE OneObject
  OBVIOUS
<1>1. /\ \A p \in Procs : handle[p] = None
      /\ \A a \in Actors : at[a] \in {"mapped", "none", "idle"}
  BY DEF Init
<1> QED
  BY <1>1 DEF OneObject

LEMMA EndOneObject ==
  ASSUME TypeOK, OneObject, NEW S \in SUBSET Actors, NEW P \in SUBSET Procs,
         NEW place \in {"idle", "gone"}, End(S, P, place),
         \A a \in Actors \ S : Proc(a) \notin P
  PROVE  OneObject'
<1> USE DEF TypeOK, End
<1>1. /\ \A a \in Actors : at'[a] = IF a \in S THEN place ELSE at[a]
      /\ \A p \in Procs : handle'[p] = IF p \in P THEN None ELSE handle[p]
      /\ UNCHANGED <<name, closed>>
  OBVIOUS
<1> QED
  BY <1>1, ProcIsProc DEF OneObject

LEMMA StepOneObject == TypeOK /\ OneObject /\ [Next]_vars => OneObject'
<1> SUFFICES ASSUME TypeOK, OneObject, [Next]_vars PROVE OneObject'
  OBVIOUS
<1> USE DEF TypeOK
<1>1. CASE UNCHANGED vars
  BY <1>1 DEF vars, OneObject
<1>2. ASSUME NEW c \in Cgis, TableFull(c) \/ Crash(c) PROVE OneObject'
  <2>1. /\ {c} \in SUBSET Actors /\ {c} \in SUBSET Procs
        /\ "idle" \in {"idle", "gone"}
        /\ \A a \in Actors \ {c} : Proc(a) \notin {c}
    BY LockAssumption DEF Actors, Procs, Proc, Threads
  <2>2. End({c}, {c}, "idle")
    BY <1>2 DEF TableFull, Crash
  <2> QED
    BY <2>1, <2>2, EndOneObject
<1>3. CASE Exit \/ Fault \/ Kill
  <2>1. /\ Threads \in SUBSET Actors /\ {"daemon"} \in SUBSET Procs
        /\ "gone" \in {"idle", "gone"}
        /\ \A a \in Actors \ Threads : Proc(a) \notin {"daemon"}
    BY LockAssumption DEF Actors, Procs, Proc
  <2>2. End(Threads, {"daemon"}, "gone")
    BY <1>3 DEF Exit, Fault, Kill
  <2> QED
    BY <2>1, <2>2, EndOneObject
<1>4. ASSUME NEW a \in Actors, Open(a) PROVE OneObject'
  <2>1. Proc(a) \in Procs
    BY ProcIsProc
  <2>2. /\ \A b \in Actors : at'[b] = IF b = a THEN "ready" ELSE at[b]
        /\ \A p \in Procs : handle'[p] = IF p = Proc(a) THEN name' ELSE handle[p]
        /\ name' # None /\ (name # None => name' = name)
        /\ UNCHANGED closed
    BY <1>4, <2>1, LockAssumption DEF Open
  <2> QED
    BY <2>1, <2>2, ProcIsProc DEF OneObject
<1>5. ASSUME NEW a \in Actors, Enter(a) \/ Leave(a) PROVE OneObject'
  <2>1. /\ \A b \in Actors : at'[b] \in {"ready", "inside"}
                             => at[b] \in {"ready", "inside"}
        /\ \A b \in Actors : at'[b] \notin {"closed", "unlinked", "unmapped"}
                             \/ at'[b] = at[b]
        /\ UNCHANGED <<handle, name, closed>>
    BY <1>5 DEF Enter, Leave, AfterSection, Inside
  <2> QED
    BY <2>1 DEF OneObject
<1>6. ASSUME NEW a \in Actors, Close(a) \/ Unlink(a) PROVE OneObject'
  BY <1>6 DEF OneObject, Close, Unlink
<1>7. ASSUME NEW c \in Cgis, Map(c) PROVE OneObject'
  BY <1>7 DEF OneObject, Map
<1>8. CASE Spawn
  <2>1. "main" \in Actors /\ Proc("main") = Proc("sync") /\ at["main"] = "ready"
    BY <1>8 DEF Spawn, Actors, Proc, Threads
  <2>2. /\ \A b \in Actors : at'[b] = IF b = "sync" THEN "ready" ELSE at[b]
        /\ UNCHANGED <<handle, name, closed>>
    BY <1>8 DEF Spawn
  <2> QED
    BY <2>1, <2>2 DEF OneObject
<1>9. CASE EnterUnlocked
  <2>1. "sync" \in Actors /\ Proc("sync") = "daemon"
    BY DEF Actors, Proc, Threads
  <2> QED
    BY <1>9, <2>1 DEF EnterUnlocked, OneObject
<1>10. CASE Unmap
  <2>1. "main" \in Actors
    BY DEF Actors, Threads
  <2> QED
    BY <1>10, <2>1 DEF Unmap, OneObject
<1> QED
  BY <1>1, <1>2, <1>3, <1>4, <1>5, <1>6, <1>7, <1>8, <1>9, <1>10
  DEF Next, CgiStep, ActorStep, DaemonStep

\* sem_memory_close: until some process calls it, nobody is in a section beside
\* somebody else, for any number of CGI processes.
THEOREM ExclusionHolds == Spec => []ExclusionUntilClosed
<1>1. LockInv /\ OneObject => ExclusionUntilClosed
  <2> SUFFICES ASSUME LockInv, OneObject, ~closed,
                      NEW a \in Actors, NEW b \in Actors, Inside(a), Inside(b)
               PROVE  a = b
    BY DEF ExclusionUntilClosed
  <2>1. /\ handle[Proc(a)] = name /\ handle[Proc(b)] = name
        /\ handle[Proc(a)] # None
    BY ProcIsProc DEF OneObject, Inside
  <2>2. held[a] = held[b] /\ held[a] # None
    BY <2>1 DEF LockInv, PostsWhatItHolds
  <2> QED
    BY <2>2 DEF LockInv, OneHolder
<1> QED
  BY <1>1, LockInvHolds, InitTypeOK, StepTypeOK, InitOneObject, StepOneObject, PTL
  DEF Spec
=============================================================================
