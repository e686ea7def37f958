------------------------------- MODULE ShmLock -------------------------------
(***************************************************************************)
(* The named semaphore that guards the shared memory (utils.c), and its    *)
(* life: every CGI process opens it with the memory and, when it detaches, *)
(* closes it and unlinks its name, as the daemon does when it stops.       *)
(*                                                                         *)
(* A name stands for an object only until it is unlinked; whoever holds    *)
(* the object keeps using it, and the next sem_open makes a new one.  One  *)
(* step is one system call.  The two threads of the daemon share one       *)
(* handle, the static variable sem_memory_lock of the process.  The model  *)
(* begins when the daemon has created the memory and covers the life of    *)
(* that memory.                                                            *)
(***************************************************************************)
CONSTANTS
  Cgis,       \* the CGI processes that may run at the same time
  Objects,    \* semaphore objects; one that nobody can reach is used again
  None,       \* no object: SEM_FAILED, or a name that does not exist
  MayFail     \* whether processes may crash

Threads == {"main", "sync"}
Actors  == Cgis \cup Threads
Procs   == Cgis \cup {"daemon"}

ASSUME LockAssumption ==
  /\ None \notin Objects
  /\ Cgis \cap (Threads \cup {"daemon"}) = {}
  /\ MayFail \in BOOLEAN

VARIABLES
  name,       \* what MEM_LOCK_FILE names
  value,      \* the value of each semaphore object
  handle,     \* sem_memory_lock of each process
  held,       \* the object on which an actor's sem_wait has succeeded
  at,         \* where each actor is
  shm,        \* SHMOBJ_PATH exists
  mapped,     \* the memory is still mapped in the daemon
  closed,     \* history: some process has called sem_memory_close
  abandoned   \* history: objects taken by someone who will never post them

vars == <<name, value, handle, held, at, shm, mapped, closed, abandoned>>

Places == {"none", "idle", "mapped", "ready", "inside", "closed", "unlinked",
           "unmapped", "gone"}

Proc(a) == IF a \in Threads THEN "daemon" ELSE a

Inside(a) == at[a] = "inside"

TypeOK == /\ name \in Objects \cup {None}
          /\ value \in [Objects -> {0, 1}]
          /\ handle \in [Procs -> Objects \cup {None}]
          /\ held \in [Actors -> Objects \cup {None}]
          /\ at \in [Actors -> Places]
          /\ shm \in BOOLEAN /\ mapped \in BOOLEAN /\ closed \in BOOLEAN
          /\ abandoned \subseteq Objects

Init == /\ name = None
        /\ value = [o \in Objects |-> 1]
        /\ handle = [p \in Procs |-> None]
        /\ held = [a \in Actors |-> None]
        /\ at = [a \in Actors |-> CASE a = "main" -> "mapped"
                                    [] a = "sync" -> "none"
                                    [] OTHER -> "idle"]
        /\ shm = TRUE
        /\ mapped = TRUE
        /\ closed = FALSE
        /\ abandoned = {}

-----------------------------------------------------------------------------
(* create_shared_memory *)

\* shm_open without O_CREAT succeeds, and the memory is mapped
Map(c) == /\ at[c] = "idle"
          /\ shm
          /\ at' = [at EXCEPT ![c] = "mapped"]
          /\ UNCHANGED <<name, value, handle, held, shm, mapped, closed, abandoned>>

Reachable == {name} \cup {handle[p] : p \in Procs} \cup {held[a] : a \in Actors}

\* mutant: the value that sem_open is given is 2
OpenTwo(a) ==
  /\ at[a] = "mapped"
  /\ at' = [at EXCEPT ![a] = "ready"]
  /\ \/ /\ name # None
        /\ handle' = [handle EXCEPT ![Proc(a)] = name]
        /\ UNCHANGED <<name, value, abandoned>>
     \/ /\ name = None
        /\ \E o \in Objects \ Reachable :
             /\ name' = o
             /\ value' = [value EXCEPT ![o] = 2]
             /\ handle' = [handle EXCEPT ![Proc(a)] = o]
             /\ abandoned' = abandoned \ {o}
  /\ UNCHANGED <<held, shm, mapped, closed>>

\* mutant: a semaphore that exists is set to 1 again
OpenResets(a) ==
  /\ at[a] = "mapped"
  /\ at' = [at EXCEPT ![a] = "ready"]
  /\ \E o \in IF name = None THEN Objects \ Reachable ELSE {name} :
       /\ name' = o
       /\ value' = [value EXCEPT ![o] = 1]
       /\ handle' = [handle EXCEPT ![Proc(a)] = o]
       /\ abandoned' = abandoned \ {o}
  /\ UNCHANGED <<held, shm, mapped, closed>>

\* mutant: the name is unlinked before sem_open, as if it were always stale
OpenUnlinks(a) ==
  /\ at[a] = "mapped"
  /\ at' = [at EXCEPT ![a] = "ready"]
  /\ \E o \in Objects \ Reachable :
       /\ name' = o
       /\ value' = [value EXCEPT ![o] = 1]
       /\ handle' = [handle EXCEPT ![Proc(a)] = o]
       /\ abandoned' = abandoned \ {o}
  /\ UNCHANGED <<held, shm, mapped, closed>>

\* sem_open with O_CREAT and the value 1: the named object, or a new one
Open(a) ==
  /\ at[a] = "mapped"
  /\ at' = [at EXCEPT ![a] = "ready"]
  /\ \/ /\ name # None
        /\ handle' = [handle EXCEPT ![Proc(a)] = name]
        /\ UNCHANGED <<name, value, abandoned>>
     \/ /\ name = None
        /\ \E o \in Objects \ Reachable :
             /\ name' = o
             /\ value' = [value EXCEPT ![o] = 1]
             /\ handle' = [handle EXCEPT ![Proc(a)] = o]
             /\ abandoned' = abandoned \ {o}
  /\ UNCHANGED <<held, shm, mapped, closed>>

\* the daemon has cleared the memory and starts sync_events_thread
Spawn == /\ at["main"] = "ready" /\ at["sync"] = "idle"
         /\ at' = [at EXCEPT !["sync"] = "ready"]
         /\ UNCHANGED <<name, value, handle, held, shm, mapped, closed, abandoned>>

-----------------------------------------------------------------------------
(* sem_memory_wait and sem_memory_post; no caller looks at what they return. *)

Enter(a) == /\ at[a] = "ready"
            /\ handle[Proc(a)] # None
            /\ value[handle[Proc(a)]] = 1
            /\ value' = [value EXCEPT ![handle[Proc(a)]] = 0]
            /\ held' = [held EXCEPT ![a] = handle[Proc(a)]]
            /\ at' = [at EXCEPT ![a] = "inside"]
            /\ UNCHANGED <<name, handle, shm, mapped, closed, abandoned>>

\* "Semaphore not initialized": main has closed it, the other thread goes on
EnterUnlocked == /\ at["sync"] = "ready"
                 /\ handle["daemon"] = None
                 /\ at' = [at EXCEPT !["sync"] = "inside"]
                 /\ UNCHANGED <<name, value, handle, held, shm, mapped, closed,
                                abandoned>>

\* the first section of main is the one that clears the memory
AfterSection(a, place) == IF a = "main" /\ place = "none" THEN "idle" ELSE place

\* mutant: a return from the section without the post
LeaveNoPost(a) == /\ Inside(a)
                  /\ held' = [held EXCEPT ![a] = None]
                  /\ at' = [at EXCEPT ![a] = "ready", !["sync"] = AfterSection(a, @)]
                  /\ UNCHANGED <<name, value, handle, shm, mapped, closed, abandoned>>

Leave(a) == /\ Inside(a)
            /\ IF handle[Proc(a)] # None
               THEN /\ value' = [value EXCEPT ![handle[Proc(a)]] = 1]
                    /\ UNCHANGED abandoned
               ELSE /\ abandoned' = abandoned \cup ({held[a]} \ {None})
                    /\ UNCHANGED value
            /\ held' = [held EXCEPT ![a] = None]
            /\ at' = [at EXCEPT ![a] = "ready", !["sync"] = AfterSection(a, @)]
            /\ UNCHANGED <<name, handle, shm, mapped, closed>>

-----------------------------------------------------------------------------
(* destroy_shared_memory, and the ways to end without it. *)

\* sem_close, by a CGI process or by the main thread once exit_main is set
Close(a) == /\ a \in Cgis \cup {"main"}
            /\ at[a] = "ready"
            /\ a = "main" => at["sync"] # "none"
            /\ handle' = [handle EXCEPT ![Proc(a)] = None]
            /\ closed' = TRUE
            /\ at' = [at EXCEPT ![a] = "closed"]
            /\ UNCHANGED <<name, value, held, shm, mapped, abandoned>>

\* sem_unlink, whatever the name stands for by now; the CGI process then ends
Unlink(a) == /\ at[a] = "closed"
             /\ name' = None
             /\ at' = [at EXCEPT ![a] = IF a = "main" THEN "unlinked" ELSE "idle"]
             /\ UNCHANGED <<value, handle, held, shm, mapped, closed, abandoned>>

Unmap == /\ at["main"] = "unlinked"
         /\ mapped' = FALSE
         /\ at' = [at EXCEPT !["main"] = "unmapped"]
         /\ UNCHANGED <<name, value, handle, held, shm, closed, abandoned>>

\* the end of the actors in S, processes P, with what they hold
End(S, P, place) ==
  /\ at' = [a \in Actors |-> IF a \in S THEN place ELSE at[a]]
  /\ held' = [a \in Actors |-> IF a \in S THEN None ELSE held[a]]
  /\ handle' = [p \in Procs |-> IF p \in P THEN None ELSE handle[p]]
  /\ abandoned' = abandoned \cup ({held[a] : a \in S} \ {None})
  /\ UNCHANGED <<name, value, mapped, closed>>

\* shm_unlink, and main returns, which ends the other thread wherever it is
Exit == /\ at["main"] = "unmapped"
        /\ shm' = FALSE
        /\ End(Threads, {"daemon"}, "gone")

\* the other thread touches the memory that main has unmapped
Fault == /\ ~mapped /\ Inside("sync")
         /\ End(Threads, {"daemon"}, "gone")
         /\ UNCHANGED shm

\* the return from a creation that found no free slot
TableFull(c) == /\ at[c] = "ready"
                /\ End({c}, {c}, "idle")
                /\ UNCHANGED shm

\* a CGI process, or the daemon, is killed
Crash(c) == /\ MayFail
            /\ at[c] # "idle"
            /\ End({c}, {c}, "idle")
            /\ UNCHANGED shm

Kill == /\ MayFail
        /\ at["main"] # "gone"
        /\ End(Threads, {"daemon"}, "gone")
        /\ UNCHANGED shm

-----------------------------------------------------------------------------
CgiStep(c) == Map(c) \/ TableFull(c) \/ Crash(c)

ActorStep(a) == Open(a) \/ Enter(a) \/ Leave(a) \/ Close(a) \/ Unlink(a)

DaemonStep == Spawn \/ EnterUnlocked \/ Unmap \/ Exit \/ Fault \/ Kill

Next == \/ \E c \in Cgis : CgiStep(c)
        \/ \E a \in Actors : ActorStep(a)
        \/ DaemonStep

Spec == Init /\ [][Next]_vars

\* whoever is in a section finishes it
FairSpec == Spec /\ \A a \in Actors : WF_vars(Leave(a))

-----------------------------------------------------------------------------
\* A semaphore object admits one actor at a time, for all the names unlinked,
\* objects made anew and processes killed around it (sem_memory_wait, _post).
OneHolder == \A a, b \in Actors : held[a] # None /\ held[a] = held[b] => a = b

\* A semaphore at zero will be posted by an actor inside a section, unless that
\* actor was killed there, or the main thread took the handle away from it: no
\* handler leaves a section without its post.
TakenHasHolder ==
  \A o \in Objects : value[o] = 0 => o \in abandoned \/ \E a \in Actors : held[a] = o

\* Until the first process detaches, the sections of all actors exclude each
\* other: sem_memory_close, which unlinks the name, is the only cause of two
\* objects.
ExclusionUntilClosed ==
  ~closed => \A a, b \in Actors : Inside(a) /\ Inside(b) => a = b

\* A semaphore that was taken is posted, or was taken by someone who died.
TakenIsReleased ==
  \A o \in Objects : value[o] = 0 ~> value[o] = 1 \/ o \in abandoned
=============================================================================
