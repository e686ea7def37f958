-------------------------- MODULE Delivery_proofs --------------------------
(***************************************************************************)
(* Proofs about Delivery and Leases: what subscribers are told, and how    *)
(* long their subscriptions live, for every number of slots, events and    *)
(* clients, every filter and either source of changes.                     *)
(***************************************************************************)
EXTENDS Delivery, Leases, Subscriptions_proofs

\* The history variables watch and do not interfere.
LEMMA DInitInit == DInit => Init
BY DEF DInit

LEMMA DNextNext == [DNext]_<<vars, hist>> => [Next]_vars
<1> SUFFICES ASSUME [DNext]_<<vars, hist>> PROVE [Next]_vars
  OBVIOUS
<1>1. CASE DRecord
  BY <1>1 DEF DRecord, Next, DaemonStep
<1>2. CASE DSync
  BY <1>2 DEF DSync, Next, DaemonStep
<1>3. ASSUME NEW c \in Clients, DEmit(c) PROVE Next
  BY <1>3 DEF DEmit, Next, ClientStep
<1>4. ASSUME NEW c \in Clients, NEW s \in Slots, DAlloc(c, s) PROVE Next
  BY <1>4 DEF DAlloc, Next, ClientStep
<1>5. ASSUME NEW c \in Clients, Quiet(c) PROVE Next
  <2>1. ClientRequest(c) \/ ClientStep(c)
    BY <1>5, Zenon DEF Quiet, ClientStep
  <2> QED
    BY <2>1 DEF Next
<1>6. ASSUME \/ Tick \/ MotionStep \/ InotifyRead \/ CleanStep
             \/ \E e \in Events : PollRead(e)
      PROVE  Next
  BY <1>6 DEF Next, DaemonStep
<1>7. CASE UNCHANGED <<vars, hist>>
  BY <1>7
<1> QED
  BY <1>1, <1>2, <1>3, <1>4, <1>5, <1>6, <1>7 DEF DNext

LEMMA DSpecSpec == DSpec => Spec
BY DInitInit, DNextNext, PTL DEF DSpec, Spec

\* A step of the table that the history lets pass.
Passes == \/ Tick \/ MotionStep \/ InotifyRead \/ CleanStep
          \/ \E e \in Events : PollRead(e)
          \/ \E c \in Clients : Quiet(c)

\* The cases of a step, as the proofs take them.
LEMMA DNextCases ==
  ASSUME [DNext]_<<vars, hist>>,
         NEW P,
         DRecord => P,
         DSync => P,
         \A c \in Clients : DEmit(c) => P,
         \A c \in Clients, s \in Slots : DAlloc(c, s) => P,
         (Passes \/ UNCHANGED vars) /\ UNCHANGED hist => P
  PROVE  P
BY Zenon DEF DNext, Passes

-----------------------------------------------------------------------------
(* Type correctness of the history. *)

HistoryTypeOK ==
  /\ heard \in [Slots -> [Events -> {"nothing", "true", "false"}]]
  /\ excused \in [Slots -> SUBSET Events]
  /\ inherited \in [Slots -> SUBSET Events]

LEMMA StepHistoryTypeOK ==
  ASSUME TypeOK, HistoryTypeOK, [DNext]_<<vars, hist>>
  PROVE  HistoryTypeOK'
<1> USE DEF HistoryTypeOK
<1>0. \A on : Value(on) \in {"true", "false"}
  BY DEF Value
<1>1. \A s \in Slots : \A E, v : (\A e \in Events : v[e] \in {"true", "false"}) =>
        Told(s, E, v) \in [Slots -> [Events -> {"nothing", "true", "false"}]]
  BY DEF Told
<1>2. ASSUME DRecord PROVE HistoryTypeOK'
  <2>1. change.event \in Events
    BY DEF TypeOK, DaemonTypeOK, Change
  <2> QED
    BY <1>0, <1>2, <2>1 DEF DRecord
<1>3. ASSUME DSync PROVE HistoryTypeOK'
  <2>1. sync_i \in Slots
    BY <1>3, TableAssumption DEF DSync, SyncStep, TypeOK, DaemonTypeOK, Slots
  <2>2. \A e \in Events : FileState[e] \in {"true", "false"}
    BY <1>0 DEF FileState
  <2> QED
    BY <1>1, <1>3, <2>1, <2>2 DEF DSync
<1>4. ASSUME NEW c \in Clients, DEmit(c) PROVE HistoryTypeOK'
  <2>1. req[c].sub_index \in Slots /\ Emitted(c) \subseteq Events
    BY DEF TypeOK, RequestTypeOK, Request, Emitted
  <2>2. \A e \in Events : Recorded[e] \in {"true", "false"}
    BY <1>0 DEF Recorded
  <2> QED
    BY <1>1, <1>4, <2>1, <2>2 DEF DEmit
<1>5. ASSUME NEW c \in Clients, NEW s \in Slots, DAlloc(c, s) PROVE HistoryTypeOK'
  BY <1>5 DEF DAlloc, Silence
<1>6. UNCHANGED hist => HistoryTypeOK'
  BY DEF hist
<1> QED
  BY <1>2, <1>3, <1>4, <1>5, <1>6, DNextCases

LEMMA HistoryTypeCorrect == DSpec => []HistoryTypeOK
<1>1. DInit => HistoryTypeOK
  BY DEF DInit, HistoryTypeOK, Silence
<1>2. TypeOK /\ HistoryTypeOK /\ [DNext]_<<vars, hist>> => HistoryTypeOK'
  BY StepHistoryTypeOK
<1> QED
  BY <1>1, <1>2, DSpecSpec, TypeCorrect, PTL DEF DSpec

-----------------------------------------------------------------------------
(* What the steps that send nothing do to the bits of the slots. *)

\* The pending events of the slots only grow, by Marked, while the slots stay;
\* or slots are cleared and no bit moves.
BitsKept == /\ SameIds \/ \E S : Clears(S)
            /\ pull_notify' = pull_notify

BitsMarked == /\ SameIds
              /\ \E r \in Slots : pull_notify' = Marked(pull_notify, r)

LEMMA PassesShape ==
  ASSUME TypeOK, Passes \/ UNCHANGED vars
  PROVE  is_on' = is_on /\ (BitsKept \/ BitsMarked)
<1>1. CASE Tick \/ MotionStep \/ UNCHANGED vars
  <2>1. is_on' = is_on /\ pull_notify' = pull_notify
    BY <1>1 DEF Tick, MotionStep, FileCreated, FileDeleted, FileModified, vars, shm
  <2> QED
    BY <1>1, <2>1, QuietStepShape DEF BitsKept
<1>2. CASE InotifyRead \/ CleanStep \/ \E e \in Events : PollRead(e)
  <2>1. is_on' = is_on /\ pull_notify' = pull_notify
    BY <1>2 DEF InotifyRead, CleanStep, PollRead, shm
  <2>2. SameIds \/ \E S : Clears(S)
    BY <1>2, CleanStepShape, OtherDaemonStepShape
  <2> QED
    BY <2>1, <2>2 DEF BitsKept
<1>3. ASSUME NEW c \in Clients, ClientRequest(c)
      PROVE  is_on' = is_on /\ (BitsKept \/ BitsMarked)
  <2>1. ASSUME NEW id \in Ids \ {0}, NEW s \in Slots, SetSynchronizationPoint(c, id, s)
        PROVE  is_on' = is_on /\ BitsMarked
    <3>1. SameIds
      BY <2>1 DEF SetSynchronizationPoint, SameIds, TypeOK, TableTypeOK, Subscription
    <3> QED
      BY <2>1, <3>1 DEF SetSynchronizationPoint, BitsMarked
  <2>2. ASSUME NEW id \in Ids \ {0}, NEW s \in Slots, Unsubscribe(c, id, s)
        PROVE  is_on' = is_on /\ pull_notify' = pull_notify
    BY <2>2 DEF Unsubscribe
  <2>3. ASSUME \/ \E used \in {"PULL", "PUSH"}, x \in Expiries, f \in Filters :
                    CreateRequest(c, used, x, f)
               \/ \E id \in Ids \ {0}, t \in Timeouts, l \in Limits : PullRequest(c, id, t, l)
               \/ \E id \in Ids \ {0}, x \in Expiries : RenewRequest(c, id, x)
        PROVE  is_on' = is_on /\ pull_notify' = pull_notify
    BY <2>3 DEF CreateRequest, PullRequest, RenewRequest, shm
  <2>4. SameIds \/ \E S : Clears(S)
    BY <1>3, ClientRequestShape
  <2> QED
    BY <1>3, <2>1, <2>2, <2>3, <2>4, Zenon DEF ClientRequest, BitsKept
<1>4. ASSUME NEW c \in Clients,
             \/ \E s \in Slots : PullFind(c, s) \/ Renew(c, s)
             \/ AllocFull(c) \/ MarkPull(c) \/ MarkPush(c)
             \/ PullFault(c) \/ PullWake(c) \/ PullRestore(c) \/ RenewFault(c)
      PROVE  is_on' = is_on /\ (BitsKept \/ BitsMarked)
  <2>1. SameIds
    BY <1>4, OtherClientStepShape
  <2>2. req[c].sub_index \in Slots
    BY DEF TypeOK, RequestTypeOK, Request
  <2>3. ASSUME MarkPull(c) PROVE is_on' = is_on /\ BitsMarked
    BY <2>1, <2>2, <2>3 DEF MarkPull, BitsMarked
  <2>4. ASSUME \/ \E s \in Slots : PullFind(c, s) \/ Renew(c, s)
               \/ AllocFull(c) \/ MarkPush(c)
               \/ PullFault(c) \/ PullWake(c) \/ PullRestore(c) \/ RenewFault(c)
        PROVE  is_on' = is_on /\ pull_notify' = pull_notify
    BY <2>4 DEF PullFind, Renew, AllocFull, MarkPush, PullFault, PullWake,
                PullRestore, RenewFault, shm
  <2> QED
    BY <1>4, <2>1, <2>3, <2>4, Zenon DEF BitsKept
<1> QED
  BY <1>1, <1>2, <1>3, <1>4, Zenon DEF Passes, Quiet

-----------------------------------------------------------------------------
(* The filters. *)

\* s may have, or have been told, events of its filter and inherited ones.
WithinFilter(s, e) ==
  /\ subscriptions[s].used = "PULL"
  /\ s \in pull_notify[e] \/ heard[s][e] # "nothing"
  => e \in Selects[subscriptions[s].topic_expression] \/ e \in inherited[s]

LEMMA StepWithinFilter ==
  ASSUME TypeOK, HistoryTypeOK, FilterBreaksByInheritance, [DNext]_<<vars, hist>>
  PROVE  FilterBreaksByInheritance'
<1> SUFFICES ASSUME NEW s \in Slots, NEW e \in Events PROVE WithinFilter(s, e)'
  BY DEF FilterBreaksByInheritance, WithinFilter
<1>0. WithinFilter(s, e)
  BY DEF FilterBreaksByInheritance, WithinFilter
<1>a. pull_notify \in [Events -> SUBSET Slots] /\ subscriptions \in [Slots -> Subscription]
  BY DEF TypeOK, EventTypeOK, TableTypeOK
<1> DEFINE P == WithinFilter(s, e)'
<1>1. ASSUME DRecord PROVE P
  <2>1. /\ subscriptions' = subscriptions /\ inherited' = inherited
        /\ pull_notify'[e] \subseteq pull_notify[e] \cup (IF e = change.event THEN PullTargets ELSE {})
        /\ heard'[s] # heard[s] => s \in PushTargets
    BY <1>1, <1>a DEF DRecord, Record, HistoryTypeOK
  <2>2. s \in PushTargets => subscriptions[s].used # "PULL"
    BY DEF PushTargets
  <2>3. s \in PullTargets => change.event \in Selects[subscriptions[s].topic_expression]
    BY DEF PullTargets
  <2> QED
    BY <1>0, <2>1, <2>2, <2>3 DEF WithinFilter
<1>2. ASSUME DSync PROVE P
  <2>1. SameIds /\ pull_notify' = pull_notify /\ inherited' = inherited
    BY <1>2, OtherDaemonStepShape DEF DSync, SyncStep
  <2>2. heard'[s] # heard[s] => s = sync_i
    BY <1>2 DEF DSync, Told, HistoryTypeOK
  <2>3. subscriptions[s].used = "PULL" /\ s = sync_i => heard'[s][e] = heard[s][e]
    BY <1>2 DEF DSync, Told, SyncTargets, HistoryTypeOK
  <2> QED
    BY <1>0, <2>1, <2>2, <2>3 DEF WithinFilter, SameIds
<1>3. ASSUME NEW c \in Clients, DEmit(c) PROVE P
  <2>1. subscriptions' = subscriptions /\ inherited' = inherited
    BY <1>3 DEF DEmit, PullEmit
  <2>2. pull_notify'[e] \subseteq pull_notify[e]
    BY <1>3 DEF DEmit, PullEmit, Cleared
  <2>3. heard'[s][e] # heard[s][e] => s \in pull_notify[e]
    <3>1. req[c].sub_index = s /\ e \in Emitted(c) => s \in pull_notify[e]
      BY DEF Emitted
    <3>2. heard'[s][e] # heard[s][e] => req[c].sub_index = s /\ e \in Emitted(c)
      BY <1>3 DEF DEmit, Told, HistoryTypeOK
    <3> QED
      BY <3>1, <3>2
  <2> QED
    BY <1>0, <2>1, <2>2, <2>3 DEF WithinFilter
<1>4. ASSUME NEW c \in Clients, NEW r \in Slots, DAlloc(c, r) PROVE P
  <2>1. /\ \A q \in Slots \ {r} : subscriptions'[q] = subscriptions[q]
        /\ pull_notify' = pull_notify
    BY <1>4, <1>a DEF DAlloc, Alloc, Occupied
  <2>2. /\ heard'[r][e] = "nothing"
        /\ inherited'[r] = {f \in Events : r \in pull_notify[f]}
        /\ s # r => heard'[s] = heard[s] /\ inherited'[s] = inherited[s]
    BY <1>4 DEF DAlloc, HistoryTypeOK, Silence
  <2> QED
    BY <1>0, <2>1, <2>2 DEF WithinFilter
<1>5. ASSUME Passes \/ UNCHANGED vars, UNCHANGED hist PROVE P
  <2>1. heard' = heard /\ inherited' = inherited
    BY <1>5 DEF hist
  <2>2. CASE BitsKept
    <3>1. Blank.used # "PULL"
      BY DEF Blank
    <3> QED
      BY <1>0, <2>1, <2>2, <3>1 DEF BitsKept, SameIds, Clears, WithinFilter
  <2>3. CASE BitsMarked
    <3>1. PICK r \in Slots : pull_notify' = Marked(pull_notify, r)
      BY <2>3 DEF BitsMarked
    <3>2. s \in pull_notify'[e] => \/ s \in pull_notify[e]
                                   \/ e \in Selects[subscriptions[s].topic_expression]
      BY <1>a, <3>1 DEF Marked
    <3> QED
      BY <1>0, <2>1, <2>3, <3>2 DEF BitsMarked, SameIds, WithinFilter
  <2> QED
    BY <1>5, <2>2, <2>3, PassesShape
<1> HIDE DEF P
<1>6. P
  BY <1>1, <1>2, <1>3, <1>4, <1>5, DNextCases
<1> QED
  BY <1>6 DEF P

\* A pull subscriber is told no event outside its filter but those whose bit the
\* former holder of its slot left, whatever the filters, limits and interleaving.
THEOREM FiltersBreakByInheritance == DSpec => []FilterBreaksByInheritance
<1>1. DInit => FilterBreaksByInheritance
  BY DEF DInit, Init, FilterBreaksByInheritance, Blank
<1>2. /\ TypeOK /\ HistoryTypeOK /\ FilterBreaksByInheritance /\ [DNext]_<<vars, hist>>
      => FilterBreaksByInheritance'
  BY StepWithinFilter
<1> QED
  BY <1>1, <1>2, DSpecSpec, TypeCorrect, HistoryTypeCorrect, PTL DEF DSpec

-----------------------------------------------------------------------------
(* The losses. *)

\* a creation between its two sections, whose slot is still its own
Creating(c) == req[c].step = "mark" /\ req[c].mine

\* The slot of a creation that owns it has the kind that was asked for.
OwnedKind ==
  \A c \in Clients : Creating(c) =>
    /\ subscriptions[req[c].sub_index].used = req[c].used
    /\ req[c].used # "UNUSED"

\* How the steps other than the first section of a creation treat the records:
\* one handler moves on, or the slots of S are cleared under those that kept them.
HandlerMoves ==
  \E c \in Clients : /\ req[c].step = "mark" => MarkPull(c) \/ MarkPush(c)
                     /\ \E r : req' = [req EXCEPT ![c] = r] /\ r.step # "mark"

RecordShape == \/ SameIds /\ (req' = req \/ HandlerMoves)
               \/ \E S : Clears(S) /\ req' = Disowned(S)

LEMMA RequestRecordShape ==
  ASSUME TypeOK, NEW c \in Clients, ClientRequest(c)
  PROVE  RecordShape
<1>1. ASSUME NEW m, NEW r, Receive(c, m), req' = [req EXCEPT ![c] = r], r.step # "mark"
      PROVE  HandlerMoves
  BY <1>1 DEF Receive, HandlerMoves
<1>2. Idle.step = "idle" /\ Idle \in Request
  BY IdleType DEF Idle
<1>3. ASSUME NEW used \in {"PULL", "PUSH"}, NEW x \in Expiries, NEW f \in Filters,
             CreateRequest(c, used, x, f)
      PROVE  RecordShape
  <2> DEFINE r == [Idle EXCEPT !.step = "alloc", !.used = used, !.expire = x, !.filter = f]
             m == IF used = "PULL" THEN "CreatePullPoint" ELSE "Subscribe"
  <2>1. r.step # "mark"
    BY <1>2 DEF Request
  <2>2. Receive(c, m) /\ req' = [req EXCEPT ![c] = r] /\ SameIds
    BY <1>3 DEF CreateRequest, SameIds, shm
  <2> HIDE DEF r, m
  <2> QED
    BY <1>1, <2>1, <2>2 DEF RecordShape
<1>4. ASSUME NEW id \in Ids \ {0}, NEW t \in Timeouts, NEW l \in Limits,
             PullRequest(c, id, t, l)
      PROVE  RecordShape
  <2> DEFINE r == [Idle EXCEPT !.step = "find", !.sub_id = id, !.timeout = t, !.limit = l]
  <2>1. r.step # "mark"
    BY <1>2 DEF Request
  <2>2. Receive(c, "PullMessages") /\ req' = [req EXCEPT ![c] = r] /\ SameIds
    BY <1>4 DEF PullRequest, SameIds, shm
  <2> HIDE DEF r
  <2> QED
    BY <1>1, <2>1, <2>2 DEF RecordShape
<1>5. ASSUME NEW id \in Ids \ {0}, NEW x \in Expiries, RenewRequest(c, id, x)
      PROVE  RecordShape
  <2> DEFINE r == [Idle EXCEPT !.step = "renew", !.sub_id = id, !.expire = x]
  <2>1. r.step # "mark"
    BY <1>2 DEF Request
  <2>2. Receive(c, "Renew") /\ req' = [req EXCEPT ![c] = r] /\ SameIds
    BY <1>5 DEF RenewRequest, SameIds, shm
  <2> HIDE DEF r
  <2> QED
    BY <1>1, <2>1, <2>2 DEF RecordShape
<1>6. ASSUME NEW id \in Ids \ {0}, NEW s \in Slots, Unsubscribe(c, id, s)
      PROVE  RecordShape
  <2>1. Clears({s}) /\ req' = Disowned({s})
    BY <1>6 DEF Unsubscribe, Clears, TypeOK, TableTypeOK
  <2> QED
    BY <2>1 DEF RecordShape
<1>7. ASSUME NEW id \in Ids \ {0}, NEW s \in Slots, SetSynchronizationPoint(c, id, s)
      PROVE  RecordShape
  <2>1. SameIds /\ req' = req
    BY <1>7 DEF SetSynchronizationPoint, SameIds, TypeOK, TableTypeOK, Subscription
  <2> QED
    BY <2>1 DEF RecordShape
<1> QED
  BY <1>3, <1>4, <1>5, <1>6, <1>7 DEF ClientRequest

LEMMA HandlerRecordShape ==
  ASSUME TypeOK, NEW c \in Clients,
         \/ \E s \in Slots : PullFind(c, s) \/ Renew(c, s)
         \/ AllocFull(c) \/ MarkPull(c) \/ MarkPush(c)
         \/ PullFault(c) \/ PullWake(c) \/ PullRestore(c) \/ PullEmit(c)
         \/ RenewFault(c)
  PROVE  RecordShape
<1>0. SameIds
  BY OtherClientStepShape
<1>1. req[c] \in Request /\ Idle.step = "idle"
  BY DEF TypeOK, RequestTypeOK, Idle
<1>2. ASSUME NEW r, req' = [req EXCEPT ![c] = r], r.step # "mark",
             req[c].step # "mark" \/ MarkPull(c) \/ MarkPush(c)
      PROVE  RecordShape
  BY <1>0, <1>2 DEF RecordShape, HandlerMoves
<1>3. ASSUME NEW s \in Slots, PullFind(c, s) PROVE RecordShape
  <2> DEFINE r == [req[c] EXCEPT !.step = "wait", !.sub_index = s, !.mine = TRUE,
                                 !.expire = subscriptions[s].expire,
                                 !.deadline = now + req[c].timeout]
  <2>1. r.step # "mark" /\ req[c].step # "mark"
    BY <1>1, <1>3 DEF Request, PullFind
  <2>2. req' = [req EXCEPT ![c] = r]
    BY <1>3 DEF PullFind, TypeOK, RequestTypeOK
  <2> HIDE DEF r
  <2> QED
    BY <1>2, <2>1, <2>2
<1>4. ASSUME PullWake(c) PROVE RecordShape
  <2> DEFINE r == [req[c] EXCEPT !.step = "restore", !.at = now]
  <2>1. r.step # "mark" /\ req[c].step # "mark" /\ req' = [req EXCEPT ![c] = r]
    BY <1>1, <1>4 DEF Request, PullWake, TypeOK, RequestTypeOK
  <2> HIDE DEF r
  <2> QED
    BY <1>2, <2>1
<1>5. ASSUME PullRestore(c) PROVE RecordShape
  <2> DEFINE r == [req[c] EXCEPT !.step = "emit"]
  <2>1. r.step # "mark" /\ req[c].step # "mark" /\ req' = [req EXCEPT ![c] = r]
    BY <1>1, <1>5 DEF Request, PullRestore, TypeOK, RequestTypeOK
  <2> HIDE DEF r
  <2> QED
    BY <1>2, <2>1
<1>6. ASSUME \/ \E s \in Slots : Renew(c, s)
             \/ AllocFull(c) \/ MarkPull(c) \/ MarkPush(c)
             \/ PullFault(c) \/ PullEmit(c) \/ RenewFault(c)
      PROVE  RecordShape
  <2>1. req' = [req EXCEPT ![c] = Idle]
    BY <1>6 DEF Renew, AllocFull, MarkPull, MarkPush, PullFault, PullEmit, RenewFault
  <2>2. req[c].step # "mark" \/ MarkPull(c) \/ MarkPush(c)
    BY <1>6 DEF Renew, AllocFull, PullFault, PullEmit, RenewFault
  <2> QED
    BY <1>1, <1>2, <2>1, <2>2
<1> QED
  BY <1>3, <1>4, <1>5, <1>6

LEMMA PassesRecordShape ==
  ASSUME TypeOK, Passes \/ UNCHANGED vars
  PROVE  RecordShape
<1>1. CASE Tick \/ MotionStep \/ UNCHANGED vars
  <2>1. req' = req
    BY <1>1 DEF Tick, MotionStep, FileCreated, FileDeleted, FileModified, vars
  <2> QED
    BY <1>1, <2>1, QuietStepShape DEF RecordShape
<1>2. CASE InotifyRead \/ \E e \in Events : PollRead(e)
  <2>1. req' = req
    BY <1>2 DEF InotifyRead, PollRead
  <2> QED
    BY <1>2, <2>1, OtherDaemonStepShape DEF RecordShape
<1>3. CASE CleanStep
  <2>1. req' = Disowned(Reapable(subscriptions, now))
    BY <1>3 DEF CleanStep
  <2> QED
    BY <1>3, <2>1, CleanStepShape DEF RecordShape
<1>4. ASSUME NEW c \in Clients, Quiet(c) PROVE RecordShape
  BY <1>4, RequestRecordShape, HandlerRecordShape, Zenon DEF Quiet
<1> QED
  BY <1>1, <1>2, <1>3, <1>4, Zenon DEF Passes

LEMMA DStepRecordShape ==
  ASSUME TypeOK, [DNext]_<<vars, hist>>,
         ~ \E c \in Clients, s \in Slots : DAlloc(c, s)
  PROVE  RecordShape
<1>1. CASE DRecord \/ DSync
  <2>1. Record \/ SyncStep
    BY <1>1 DEF DRecord, DSync
  <2>2. req' = req
    BY <2>1 DEF Record, SyncStep
  <2> QED
    BY <2>1, <2>2, OtherDaemonStepShape DEF RecordShape
<1>2. CASE \E c \in Clients : DEmit(c)
  BY <1>2, HandlerRecordShape DEF DEmit
<1>3. CASE Passes \/ UNCHANGED vars
  BY <1>3, PassesRecordShape
<1> QED
  BY <1>1, <1>2, <1>3, Zenon DEF DNext, Passes

LEMMA StepOwnedKind ==
  ASSUME TypeOK, IdInv, OwnedKind, [DNext]_<<vars, hist>>
  PROVE  OwnedKind'
<1> SUFFICES ASSUME NEW d \in Clients, Creating(d)'
             PROVE  /\ subscriptions'[req'[d].sub_index].used = req'[d].used
                    /\ req'[d].used # "UNUSED"
  BY DEF OwnedKind
<1> DEFINE i == req'[d].sub_index
<1>0. /\ req \in [Clients -> Request] /\ req[d] \in Request
      /\ subscriptions \in [Slots -> Subscription]
  BY DEF TypeOK, RequestTypeOK, TableTypeOK
<1>1. req[d].sub_index \in Slots
  BY <1>0 DEF Request
<1>2. CASE \E c \in Clients, s \in Slots : DAlloc(c, s)
  <2>1. PICK c \in Clients, s \in Slots : Alloc(c, s)
    BY <1>2 DEF DAlloc
  <2>2. /\ subscriptions'[s].used = req[c].used
        /\ \A q \in Slots \ {s} : subscriptions'[q] = subscriptions[q]
        /\ subscriptions[s].used = "UNUSED" /\ req[c].used # "UNUSED"
    BY <1>0, <2>1 DEF Alloc, Occupied, FreeSlot, First, IdInv, CreationsHaveKind
  <2>3. req'[c].used = req[c].used /\ req'[c].sub_index = s
    BY <1>0, <2>1, IdleType DEF Alloc, Request
  <2>4. CASE d = c
    BY <2>2, <2>3, <2>4
  <2>5. CASE d # c
    <3>1. req'[d] = req[d]
      BY <1>0, <2>1, <2>5 DEF Alloc
    <3>2. /\ subscriptions[req[d].sub_index].used = req[d].used
          /\ req[d].used # "UNUSED"
      BY <3>1 DEF OwnedKind, Creating
    <3> QED
      BY <1>1, <2>2, <3>1, <3>2
  <2> QED
    BY <2>4, <2>5
<1>3. CASE ~ \E c \in Clients, s \in Slots : DAlloc(c, s)
  <2>1. RecordShape
    BY <1>3, DStepRecordShape
  <2>2. ASSUME SameIds, req' = req \/ HandlerMoves
        PROVE  req'[d] = req[d] /\ subscriptions'[req[d].sub_index].used = subscriptions[req[d].sub_index].used
    <3>1. req'[d] = req[d]
      BY <1>0, <2>2 DEF HandlerMoves, Creating
    <3> QED
      BY <1>1, <2>2, <3>1 DEF SameIds
  <2>3. ASSUME NEW S, Clears(S), req' = Disowned(S)
        PROVE  req'[d] = req[d] /\ subscriptions'[req[d].sub_index].used = subscriptions[req[d].sub_index].used
    <3>1. req[d].sub_index \in S => req'[d].mine = FALSE
      BY <1>0, <2>3 DEF Disowned, Request
    <3>2. req[d].sub_index \notin S
      BY <3>1 DEF Creating
    <3> QED
      BY <1>0, <1>1, <2>3, <3>2 DEF Disowned, Clears
  <2>4. req'[d] = req[d] /\ subscriptions'[req[d].sub_index].used = subscriptions[req[d].sub_index].used
    BY <2>1, <2>2, <2>3, Zenon DEF RecordShape
  <2> QED
    BY <2>4 DEF OwnedKind, Creating
<1> QED
  BY <1>2, <1>3

LEMMA OwnedKindHolds == DSpec => []OwnedKind
<1>1. DInit => OwnedKind
  BY DEF DInit, Init, OwnedKind, Creating, Idle
<1>2. TypeOK /\ IdInv /\ OwnedKind /\ [DNext]_<<vars, hist>> => OwnedKind'
  BY StepOwnedKind
<1> QED
  BY <1>1, <1>2, DSpecSpec, TypeCorrect, IdInvHolds, PTL DEF DSpec

\* A slot stays under creation, or its creation has run its second section, or
\* it is cleared.
LEMMA CreationGoesOn ==
  ASSUME TypeOK, OwnedKind, RecordShape, NEW s \in Slots, BeingCreated(s),
         subscriptions'[s].used = "PULL"
  PROVE  \/ BeingCreated(s)'
         \/ pull_notify' = Marked(pull_notify, s)
<1>0. req \in [Clients -> Request]
  BY DEF TypeOK, RequestTypeOK
<1>1. PICK d \in Clients : Creating(d) /\ req[d].sub_index = s
  BY DEF BeingCreated, Creating
<1>2. req'[d] = req[d] => BeingCreated(s)'
  BY <1>1 DEF BeingCreated, Creating
<1>3. ASSUME NEW S, Clears(S), req' = Disowned(S) PROVE req'[d] = req[d]
  <2>1. s \notin S
    BY <1>3 DEF Clears, Blank
  <2> QED
    BY <1>0, <1>1, <1>3, <2>1 DEF Disowned
<1>4. ASSUME SameIds, HandlerMoves
      PROVE  req'[d] = req[d] \/ pull_notify' = Marked(pull_notify, s)
  <2>1. PICK c \in Clients : /\ req[c].step = "mark" => MarkPull(c) \/ MarkPush(c)
                             /\ \E r : req' = [req EXCEPT ![c] = r]
    BY <1>4 DEF HandlerMoves
  <2>2. CASE c # d
    BY <1>0, <2>1, <2>2
  <2>3. CASE c = d
    <3>1. subscriptions[s].used = req[d].used /\ subscriptions[s].used = "PULL"
      BY <1>1, <1>4 DEF OwnedKind, SameIds
    <3>2. MarkPull(d)
      BY <1>1, <2>1, <2>3, <3>1 DEF Creating, MarkPush
    <3> QED
      BY <1>1, <3>2 DEF MarkPull
  <2> QED
    BY <2>2, <2>3
<1> QED
  BY <1>2, <1>3, <1>4 DEF RecordShape

\* NoOtherLoss for one slot and event.
Accounted(s, e) == UpToDate(s, e) \/ e \in excused[s] \/ BeingCreated(s)

LEMMA StepNoOtherLoss ==
  ASSUME TypeOK, HistoryTypeOK, OwnedKind, NoOtherLoss, [DNext]_<<vars, hist>>
  PROVE  NoOtherLoss'
<1> SUFFICES ASSUME NEW s \in Slots, NEW e \in Events PROVE Accounted(s, e)'
  BY DEF NoOtherLoss, Accounted
<1>0. UpToDate(s, e) \/ e \in excused[s] \/ BeingCreated(s)
  BY DEF NoOtherLoss
<1>a. /\ pull_notify \in [Events -> SUBSET Slots] /\ is_on \in [Events -> BOOLEAN]
      /\ subscriptions \in [Slots -> Subscription] /\ req \in [Clients -> Request]
  BY DEF TypeOK, EventTypeOK, TableTypeOK, RequestTypeOK
<1> DEFINE P == Accounted(s, e)'
<1>1. ASSUME DRecord PROVE P
  <2>1. /\ subscriptions' = subscriptions /\ req' = req
        /\ is_on' = [is_on EXCEPT ![change.event] = StateAfter]
        /\ pull_notify' = IF Allowed
                          THEN [pull_notify EXCEPT ![change.event] = @ \cup PullTargets]
                          ELSE pull_notify
        /\ heard'[s] # heard[s] => s \in PushTargets
    BY <1>1 DEF DRecord, Record, HistoryTypeOK
  <2>2. excused[s] \subseteq excused'[s]
    BY <1>1 DEF DRecord, HistoryTypeOK
  <2>3. CASE BeingCreated(s)
    BY <2>1, <2>3 DEF BeingCreated, Accounted
  <2>4. CASE e \in excused[s]
    BY <2>2, <2>4 DEF Accounted
  <2>5. CASE UpToDate(s, e)
    <3> SUFFICES ASSUME subscriptions[s].used = "PULL",
                        e \in Selects[subscriptions[s].topic_expression],
                        s \notin pull_notify'[e]
                 PROVE  heard'[s][e] = Value(is_on'[e]) \/ e \in excused'[s]
      BY <2>1 DEF Accounted, UpToDate
    <3>1. s \notin pull_notify[e]
      BY <1>a, <2>1
    <3>2. heard'[s][e] = Value(is_on[e])
      BY <2>1, <2>5, <3>1 DEF UpToDate, PushTargets
    <3>3. CASE is_on'[e] = is_on[e]
      BY <3>2, <3>3
    <3>4. CASE is_on'[e] # is_on[e]
      <4>1. e = change.event /\ StateAfter # is_on[e]
        BY <1>a, <2>1, <3>4
      <4>2. ~Allowed \/ Expired(subscriptions, s, change.at)
        BY <1>a, <2>1, <4>1 DEF PullTargets
      <4>3. s \in Missed
        BY <4>2 DEF Missed
      <4> QED
        BY <1>1, <4>1, <4>3 DEF DRecord, HistoryTypeOK
    <3> QED
      BY <3>3, <3>4
  <2> QED
    BY <1>0, <2>3, <2>4, <2>5
<1>2. ASSUME DSync PROVE P
  <2>1. SameIds /\ pull_notify' = pull_notify /\ excused' = excused /\ is_on' = is_on /\ req' = req
    BY <1>2, OtherDaemonStepShape DEF DSync, SyncStep
  <2>2. subscriptions[s].used = "PULL" => heard'[s][e] = heard[s][e]
    BY <1>2 DEF DSync, Told, SyncTargets, HistoryTypeOK
  <2> QED
    BY <1>0, <2>1, <2>2 DEF Accounted, UpToDate, SameIds, BeingCreated
<1>3. ASSUME NEW c \in Clients, DEmit(c) PROVE P
  <2>1. /\ subscriptions' = subscriptions /\ is_on' = is_on
        /\ req' = [req EXCEPT ![c] = Idle] /\ req[c].step = "emit"
        /\ pull_notify'[e] = IF e \in Emitted(c) THEN pull_notify[e] \ {req[c].sub_index}
                                                 ELSE pull_notify[e]
    BY <1>3 DEF DEmit, PullEmit, Cleared
  <2>2. BeingCreated(s) => BeingCreated(s)'
    BY <1>a, <2>1 DEF BeingCreated
  <2>3. CASE req[c].sub_index = s /\ e \in Emitted(c)
    <3>1. CASE req[c].mine
      <4>1. heard'[s][e] = Value(is_on[e])
        BY <1>3, <2>3, <3>1 DEF DEmit, Told, Recorded, HistoryTypeOK
      <4> QED
        BY <2>1, <4>1 DEF Accounted, UpToDate
    <3>2. CASE ~req[c].mine
      <4>1. e \in excused'[s]
        BY <1>3, <2>3, <3>2 DEF DEmit, HistoryTypeOK
      <4> QED
        BY <4>1 DEF Accounted
    <3> QED
      BY <3>1, <3>2
  <2>4. CASE ~(req[c].sub_index = s /\ e \in Emitted(c))
    <3>1. /\ heard'[s][e] = heard[s][e]
          /\ e \in excused[s] => e \in excused'[s]
          /\ s \in pull_notify[e] => s \in pull_notify'[e]
      BY <1>3, <2>1, <2>4 DEF DEmit, Told, HistoryTypeOK
    <3> QED
      BY <1>0, <2>1, <2>2, <3>1 DEF Accounted, UpToDate
  <2> QED
    BY <2>3, <2>4
<1>4. ASSUME NEW c \in Clients, NEW r \in Slots, DAlloc(c, r) PROVE P
  <2>1. /\ \A q \in Slots \ {r} : subscriptions'[q] = subscriptions[q]
        /\ pull_notify' = pull_notify /\ is_on' = is_on
        /\ req[c].step = "alloc"
        /\ \A d \in Clients \ {c} : req'[d] = req[d]
    BY <1>4, <1>a DEF DAlloc, Alloc, Occupied
  <2>2. req'[c].step = "mark" /\ req'[c].mine /\ req'[c].sub_index = r
    BY <1>4, <1>a, IdleType DEF DAlloc, Alloc, Request
  <2>3. s # r => heard'[s] = heard[s] /\ excused'[s] = excused[s]
    BY <1>4 DEF DAlloc, HistoryTypeOK
  <2>4. BeingCreated(s) => BeingCreated(s)'
    BY <2>1 DEF BeingCreated
  <2>5. CASE s = r
    BY <2>2, <2>5 DEF Accounted, BeingCreated
  <2>6. CASE s # r
    BY <1>0, <2>1, <2>3, <2>4, <2>6 DEF Accounted, UpToDate
  <2> QED
    BY <2>5, <2>6
<1>5. ASSUME Passes \/ UNCHANGED vars, UNCHANGED hist PROVE P
  <2> SUFFICES ASSUME subscriptions'[s].used = "PULL",
                      e \in Selects[subscriptions'[s].topic_expression],
                      s \notin pull_notify'[e]
               PROVE  heard'[s][e] = Value(is_on'[e]) \/ e \in excused'[s] \/ BeingCreated(s)'
    BY DEF Accounted, UpToDate
  <2>1. heard' = heard /\ excused' = excused /\ is_on' = is_on
    BY <1>5, PassesShape DEF hist
  <2>2. /\ subscriptions[s].used = "PULL"
        /\ e \in Selects[subscriptions[s].topic_expression]
        /\ s \notin pull_notify[e]
    <3>1. Blank.used # "PULL"
      BY DEF Blank
    <3>2. SameIds \/ \E S : Clears(S)
      BY <1>5, PassesShape DEF BitsKept, BitsMarked
    <3>3. pull_notify[e] \subseteq pull_notify'[e]
      BY <1>5, <1>a, PassesShape DEF BitsKept, BitsMarked, Marked
    <3> QED
      BY <3>1, <3>2, <3>3 DEF SameIds, Clears
  <2>3. CASE BeingCreated(s)
    <3>1. RecordShape
      BY <1>5, PassesRecordShape
    <3>2. pull_notify' # Marked(pull_notify, s)
      BY <1>a, <2>2 DEF Marked
    <3> QED
      BY <2>3, <3>1, <3>2, CreationGoesOn
  <2>4. CASE ~BeingCreated(s)
    BY <1>0, <2>1, <2>2, <2>4 DEF UpToDate
  <2> QED
    BY <2>3, <2>4
<1> HIDE DEF P
<1>6. P
  BY <1>1, <1>2, <1>3, <1>4, <1>5, DNextCases
<1> QED
  BY <1>6 DEF P

\* For every table size, filter, limit and interleaving of handlers, clean-up and
\* daemon: a pull subscriber with nothing pending knows the recorded state of what
\* it selects, or one of the named reasons took a change from it.
THEOREM NothingElseIsLost == DSpec => []NoOtherLoss
<1>1. DInit => NoOtherLoss
  <2>1. Blank.used # "PULL"
    BY DEF Blank
  <2> QED
    BY <2>1 DEF DInit, Init, NoOtherLoss, UpToDate
<1>2. /\ TypeOK /\ HistoryTypeOK /\ OwnedKind /\ NoOtherLoss /\ [DNext]_<<vars, hist>>
      => NoOtherLoss'
  BY StepNoOtherLoss
<1> QED
  BY <1>1, <1>2, DSpecSpec, TypeCorrect, HistoryTypeCorrect, OwnedKindHolds, PTL DEF DSpec

-----------------------------------------------------------------------------
(* The recorded state and the input files.                                 *)

\* the k-th unread report starts or ends event e
Switches(k, e) == queue[k].event = e /\ queue[k].mask # "MODIFY"

\* is_on[e] once the change that main holds is recorded
AfterChange(e) == IF change.mask # "NONE" /\ change.event = e
                  THEN StateAfter ELSE is_on[e]

\* The last unread report that starts or ends an event says whether its file is
\* there; without one the daemon has recorded it, or is about to.
FollowsFiles(e) ==
  /\ (\A k \in 1 .. Len(queue) : ~ Switches(k, e)) => AfterChange(e) = (e \in files)
  /\ \A k \in 1 .. Len(queue) :
       Switches(k, e) /\ (\A j \in k + 1 .. Len(queue) : ~ Switches(j, e))
         => (queue[k].mask = "CREATE") = (e \in files)

CurrentInv == inotify /\ \A e \in Events : FollowsFiles(e)

\* Nobody but the motion pipeline and main touches a file, a report or is_on.
LEMMA OthersLeaveState ==
  ASSUME [Next]_vars
  PROVE  MotionStep \/ InotifyRead \/ (\E e \in Events : PollRead(e)) \/ Record
         \/ UNCHANGED <<is_on, inotify, files, queue, change>>
<1>1. CASE Tick
  BY <1>1 DEF Tick, shm, dmn
<1>2. ASSUME NEW c \in Clients, ClientRequest(c)
      PROVE  UNCHANGED <<is_on, inotify, files, queue, change>>
  BY <1>2 DEF ClientRequest, CreateRequest, PullRequest, RenewRequest, Unsubscribe,
              SetSynchronizationPoint, shm, env, dmn
<1>3. ASSUME NEW c \in Clients, ClientStep(c)
      PROVE  UNCHANGED <<is_on, inotify, files, queue, change>>
  BY <1>3 DEF ClientStep, Alloc, PullFind, Renew, AllocFull, MarkPull, MarkPush,
              PullFault, PullWake, PullRestore, PullEmit, RenewFault, shm, env, dmn
<1>4. CASE SyncStep \/ CleanStep
  BY <1>4 DEF SyncStep, CleanStep, env
<1>5. CASE UNCHANGED vars
  BY <1>5 DEF vars, shm, env, dmn
<1> QED
  BY <1>1, <1>2, <1>3, <1>4, <1>5 DEF Next, DaemonStep

\* A report goes behind the others.
LEMMA ReportFollows ==
  ASSUME TypeOK, CurrentInv, MotionStep
  PROVE  CurrentInv'
<1>1. PICK e \in Events : FileCreated(e) \/ FileDeleted(e) \/ FileModified(e)
  BY DEF MotionStep
<1>2. PICK mask \in {"CREATE", "DELETE", "MODIFY"} :
        /\ queue' = Append(queue, [event |-> e, mask |-> mask])
        /\ files' = CASE mask = "CREATE" -> files \cup {e}
                      [] mask = "DELETE" -> files \ {e}
                      [] mask = "MODIFY" -> files
  BY <1>1 DEF FileCreated, FileDeleted, FileModified, Report, CurrentInv
<1>3. UNCHANGED <<inotify, is_on, change>>
  BY <1>1 DEF FileCreated, FileDeleted, FileModified, shm
<1>4. PICK n \in Nat :
        /\ n = Len(queue) /\ Len(queue') = n + 1
        /\ \A k \in 1 .. n : queue'[k] = queue[k]
        /\ queue'[n + 1] = [event |-> e, mask |-> mask]
  BY <1>2 DEF TypeOK, DaemonTypeOK
<1>5. ASSUME NEW d \in Events
      PROVE  FollowsFiles(d)'
  <2>1. AfterChange(d)' = AfterChange(d)
    BY <1>3 DEF AfterChange, StateAfter
  <2>2. \A k \in 1 .. n : Switches(k, d)' <=> Switches(k, d)
    BY <1>4 DEF Switches
  <2>3. Switches(n + 1, d)' <=> d = e /\ mask # "MODIFY"
    BY <1>4 DEF Switches
  <2>4. CASE d = e /\ mask # "MODIFY"
    <3>1. (mask = "CREATE") = (d \in files')
      BY <1>2, <2>4
    <3>2. ASSUME NEW k \in 1 .. Len(queue'),
                 \A j \in k + 1 .. Len(queue') : ~ Switches(j, d)'
          PROVE  k = n + 1
      BY <1>4, <2>3, <2>4, <3>2
    <3> QED
      BY <1>4, <2>3, <2>4, <3>1, <3>2 DEF FollowsFiles
  <2>5. CASE ~ (d = e /\ mask # "MODIFY")
    <3>1. (d \in files') = (d \in files)
      BY <1>2, <2>5
    <3>2. ASSUME \A k \in 1 .. Len(queue') : ~ Switches(k, d)'
          PROVE  AfterChange(d)' = (d \in files')
      BY <1>4, <1>5, <2>1, <2>2, <3>1, <3>2 DEF FollowsFiles, CurrentInv
    <3>3. ASSUME NEW k \in 1 .. Len(queue'), Switches(k, d)',
                 \A j \in k + 1 .. Len(queue') : ~ Switches(j, d)'
          PROVE  (queue'[k].mask = "CREATE") = (d \in files')
      <4>1. k \in 1 .. n
        BY <1>4, <2>3, <2>5, <3>3
      <4>2. \A j \in k + 1 .. n : ~ Switches(j, d)
        BY <1>4, <2>2, <3>3, <4>1
      <4> QED
        BY <1>4, <1>5, <2>2, <3>1, <3>3, <4>1, <4>2 DEF FollowsFiles, CurrentInv
    <3> QED
      BY <3>2, <3>3 DEF FollowsFiles
  <2> QED
    BY <2>4, <2>5
<1> QED
  BY <1>3, <1>5 DEF CurrentInv

\* The first report becomes the change that main holds.
LEMMA ReadFollows ==
  ASSUME TypeOK, CurrentInv, InotifyRead
  PROVE  CurrentInv'
<1>1. /\ change.mask = "NONE" /\ queue # << >>
      /\ queue' = Tail(queue)
      /\ change'.event = queue[1].event /\ change'.mask = queue[1].mask
      /\ UNCHANGED <<inotify, is_on, files>>
  BY DEF InotifyRead, shm, env
<1>2. /\ queue \in Seq(InotifyEvent) /\ Len(queue) \in Nat \ {0}
      /\ Len(queue') = Len(queue) - 1
      /\ \A k \in 1 .. Len(queue') : queue'[k] = queue[k + 1]
      /\ queue[1].mask \in {"CREATE", "DELETE", "MODIFY"}
  <2>1. queue \in Seq(InotifyEvent) /\ queue # << >>
    BY <1>1 DEF TypeOK, DaemonTypeOK
  <2>2. Len(queue) \in Nat \ {0} /\ queue[1] \in InotifyEvent
    BY <2>1
  <2>3. /\ Len(Tail(queue)) = Len(queue) - 1
        /\ \A k \in 1 .. Len(Tail(queue)) : Tail(queue)[k] = queue[k + 1]
    BY <2>1
  <2> QED
    BY <1>1, <2>1, <2>2, <2>3 DEF InotifyEvent
<1>3. ASSUME NEW e \in Events
      PROVE  FollowsFiles(e)'
  <2>1. \A k \in 1 .. Len(queue') : Switches(k, e)' <=> Switches(k + 1, e)
    BY <1>2 DEF Switches
  <2>2. ASSUME \A k \in 1 .. Len(queue') : ~ Switches(k, e)'
        PROVE  AfterChange(e)' = (e \in files')
    <3>1. \A k \in 2 .. Len(queue) : ~ Switches(k, e)
      <4> SUFFICES ASSUME NEW k \in 2 .. Len(queue)
                   PROVE  ~ Switches(k, e)
        OBVIOUS
      <4>1. k - 1 \in 1 .. Len(queue') /\ (k - 1) + 1 = k
        BY <1>2
      <4> QED
        BY <2>1, <2>2, <4>1
    <3>2. CASE Switches(1, e)
      <4>1. (queue[1].mask = "CREATE") = (e \in files)
        BY <1>2, <1>3, <3>1, <3>2 DEF CurrentInv, FollowsFiles
      <4> QED
        BY <1>1, <1>2, <3>2, <4>1 DEF Switches, AfterChange, StateAfter
    <3>3. CASE ~ Switches(1, e)
      <4>1. is_on[e] = (e \in files)
        BY <1>1, <1>2, <1>3, <3>1, <3>3 DEF CurrentInv, FollowsFiles, AfterChange
      <4> QED
        BY <1>1, <1>2, <3>3, <4>1 DEF Switches, AfterChange, StateAfter
    <3> QED
      BY <3>2, <3>3
  <2>3. ASSUME NEW k \in 1 .. Len(queue'), Switches(k, e)',
               \A j \in k + 1 .. Len(queue') : ~ Switches(j, e)'
        PROVE  (queue'[k].mask = "CREATE") = (e \in files')
    <3>1. k + 1 \in 1 .. Len(queue) /\ Switches(k + 1, e)
      BY <1>2, <2>1, <2>3
    <3>2. ASSUME NEW j \in (k + 1) + 1 .. Len(queue)
          PROVE  ~ Switches(j, e)
      <4>1. j - 1 \in k + 1 .. Len(queue') /\ (j - 1) + 1 = j
        BY <1>2
      <4>2. j - 1 \in 1 .. Len(queue')
        BY <4>1
      <4> QED
        BY <2>1, <2>3, <4>1, <4>2
    <3> QED
      BY <1>1, <1>2, <1>3, <3>1, <3>2 DEF CurrentInv, FollowsFiles
  <2> QED
    BY <2>2, <2>3 DEF FollowsFiles
<1> QED
  BY <1>1, <1>3 DEF CurrentInv

LEMMA StepCurrent ==
  ASSUME TypeOK, CurrentInv, [Next]_vars
  PROVE  CurrentInv'
<1>1. CASE MotionStep
  BY <1>1, ReportFollows
<1>2. CASE InotifyRead
  BY <1>2, ReadFollows
<1>3. CASE \E e \in Events : PollRead(e)
  BY <1>3 DEF PollRead, CurrentInv
<1>4. CASE Record
  <2>1. /\ UNCHANGED <<inotify, files, queue>>
        /\ change.mask # "NONE" /\ change'.mask = "NONE"
        /\ \A e \in Events : is_on'[e] = IF e = change.event THEN StateAfter ELSE is_on[e]
    BY <1>4 DEF Record, NoChange, env, TypeOK, EventTypeOK
  <2>2. \A e \in Events : AfterChange(e)' = AfterChange(e)
    BY <2>1 DEF AfterChange
  <2>3. \A k, e : Switches(k, e)' <=> Switches(k, e)
    BY <2>1 DEF Switches
  <2> QED
    BY <2>1, <2>2, <2>3 DEF CurrentInv, FollowsFiles
<1>5. CASE UNCHANGED <<is_on, inotify, files, queue, change>>
  BY <1>5 DEF CurrentInv, FollowsFiles, Switches, AfterChange, StateAfter
<1> QED
  BY <1>1, <1>2, <1>3, <1>4, <1>5, OthersLeaveState

\* With inotify, and files that appear only once the daemon watches, the daemon
\* that has recorded every report about an event knows the state of its file,
\* in whatever order reports, their reading and the sections of others come
\* (handle_inotify_events).
THEOREM RecordedStateIsCurrent == DSpec /\ inotify /\ files = {} => []StateIsCurrent
<1>1. DInit /\ inotify /\ files = {} => CurrentInv
  <2> SUFFICES ASSUME DInit, inotify, files = {}
               PROVE  CurrentInv
    OBVIOUS
  <2>1. \A e \in Events : AfterChange(e) = FALSE
    <3>1. change.mask = "NONE"
      BY DEF DInit, Init, NoChange
    <3>2. \A e \in Events : is_on[e] = FALSE
      BY DEF DInit, Init
    <3> QED
      BY <3>1, <3>2 DEF AfterChange
  <2>2. \A k \in 1 .. Len(queue) : FALSE
    BY DEF DInit, Init
  <2>3. ASSUME NEW e \in Events
        PROVE  FollowsFiles(e)
    <3>1. AfterChange(e) = (e \in files)
      <4>1. (e \in files) = FALSE
        OBVIOUS
      <4> QED
        BY <2>1, <4>1, Zenon
    <3> QED
      BY <2>2, <3>1, Zenon DEF FollowsFiles
  <2> QED
    BY <2>3, Zenon DEF CurrentInv
<1>2. TypeOK /\ CurrentInv /\ [Next]_vars => CurrentInv'
  BY StepCurrent
<1>3. CurrentInv => StateIsCurrent
  BY DEF CurrentInv, FollowsFiles, AfterChange, Switches, StateIsCurrent
<1>4. Spec => [][Next]_vars
  BY PTL DEF Spec
<1> QED
  BY <1>1, <1>2, <1>3, <1>4, DSpecSpec, TypeCorrect, PTL DEF DSpec

-----------------------------------------------------------------------------
(* The termination times that clients are told.                            *)

LEMMA LNextNext == [LNext]_<<vars, promised>> => [Next]_vars
<1> SUFFICES ASSUME [LNext]_<<vars, promised>> PROVE [Next]_vars
  OBVIOUS
<1>1. ASSUME NEW c \in Clients,
             LRestore(c) \/ Silent(c) \/ \E s \in Slots : LAlloc(c, s) \/ LRenew(c, s)
      PROVE  Next
  <2>1. ClientRequest(c) \/ ClientStep(c)
    BY <1>1, Zenon DEF LRestore, LAlloc, LRenew, Silent, ClientStep
  <2> QED
    BY <2>1 DEF Next
<1>2. CASE Tick \/ MotionStep \/ DaemonStep
  BY <1>2 DEF Next
<1>3. CASE UNCHANGED <<vars, promised>>
  BY <1>3
<1> QED
  BY <1>1, <1>2, <1>3, Zenon DEF LNext

LEMMA LSpecSpec == LSpec => Spec
BY LNextNext, PTL DEF LSpec, Spec, LInit

\* The table keeps the promise of a slot, but for one whose expiry a PullMessages
\* has moved: that one is out of the way, and the promise is kept by the expiry
\* which the handler holds in its local variables.
LeaseAt(s) ==
  s \in Used(subscriptions) =>
    /\ (\A c \in Clients : ~ Pulling(c, s)) => subscriptions[s].expire >= promised[s]
    /\ \A c \in Clients : Pulling(c, s) =>
         /\ req[c].mine
         /\ req[c].expire >= promised[s]
         /\ subscriptions[s].expire = req[c].deadline + Margin
         /\ \A d \in Clients : Pulling(d, s) => d = c
LeaseInv == \A s \in Slots : LeaseAt(s)

PromiseTypeOK == promised \in [Slots -> Int]

\* Renewals and pulls that are in progress leave the promise to others.
LEMMA StepPromiseTypeOK ==
  ASSUME TypeOK, TypeOK', PromiseTypeOK, [LNext]_<<vars, promised>>
  PROVE  PromiseTypeOK'
<1>1. ASSUME NEW c \in Clients
      PROVE  req[c].expire \in Int /\ req[c].sub_index \in Slots
  BY DEF TypeOK, RequestTypeOK, Request
<1>2. ASSUME NEW c \in Clients, NEW s \in Slots, LAlloc(c, s) \/ LRenew(c, s)
      PROVE  PromiseTypeOK'
  BY <1>1, <1>2 DEF LAlloc, LRenew, PromiseTypeOK
<1>3. ASSUME NEW c \in Clients, LRestore(c)
      PROVE  PromiseTypeOK'
  <2>1. \A s \in Slots : subscriptions'[s].expire \in Int
    BY DEF TypeOK, TableTypeOK, Subscription
  <2> QED
    BY <1>1, <1>3, <2>1 DEF LRestore, PromiseTypeOK
<1>4. CASE UNCHANGED promised
  BY <1>4 DEF PromiseTypeOK
<1> QED
  BY <1>2, <1>3, <1>4, Zenon DEF LNext

\* A step that leaves the slot, if it is in use afterwards, its expiry and the
\* work of every handler on it as they are.
SameLease(s) ==
  s \in Used(subscriptions') =>
    /\ s \in Used(subscriptions)
    /\ subscriptions'[s].expire = subscriptions[s].expire
    /\ promised'[s] = promised[s]
    /\ \A c \in Clients :
         /\ Pulling(c, s)' <=> Pulling(c, s)
         /\ Pulling(c, s) => /\ req'[c].mine = req[c].mine
                             /\ req'[c].expire = req[c].expire
                             /\ req'[c].deadline = req[c].deadline

LEMMA SameLeaseSafe ==
  ASSUME NEW s \in Slots, LeaseAt(s), SameLease(s)
  PROVE  LeaseAt(s)'
BY DEF LeaseAt, SameLease

LEMMA SameLeasesSafe ==
  ASSUME LeaseInv, \A s \in Slots : SameLease(s)
  PROVE  LeaseInv'
BY SameLeaseSafe DEF LeaseInv

\* A handler that works on no slot leaves the slots that it does not write to.
LEMMA IdleHandlerKeeps ==
  ASSUME NEW c \in Clients, \A d \in Clients : d # c => req'[d] = req[d],
         ~ (req[c].step \in {"wait", "restore"}),
         ~ (req'[c].step \in {"wait", "restore"}),
         NEW s \in Slots,
         subscriptions'[s].used = subscriptions[s].used,
         subscriptions'[s].expire = subscriptions[s].expire,
         promised'[s] = promised[s]
  PROVE  SameLease(s)
BY DEF SameLease, Pulling, Used

LEMMA OthersKeepLeases ==
  ASSUME TypeOK, UNCHANGED promised,
         Tick \/ MotionStep \/ DaemonStep \/ UNCHANGED vars \/ \E c \in Clients : ClientRequest(c)
  PROVE  \A s \in Slots : SameLease(s)
<1>0. \A s \in Slots : subscriptions[s] \in Subscription
  BY DEF TypeOK, TableTypeOK
<1>1. CASE UNCHANGED <<subscriptions, req>>
  BY <1>1 DEF SameLease, Pulling
<1>2. CASE SyncStep
  <2>1. UNCHANGED req
    BY <1>2 DEF SyncStep
  <2>2. \A s \in Slots : /\ subscriptions'[s].used = subscriptions[s].used
                         /\ subscriptions'[s].expire = subscriptions[s].expire
    BY <1>0, <1>2 DEF SyncStep, TypeOK, TableTypeOK, Subscription
  <2> QED
    BY <2>1, <2>2 DEF SameLease, Pulling, Used
<1>3. ASSUME NEW S, Clears(S),
             \A c \in Clients : IF req[c].sub_index \in S
                                THEN req'[c].step = req[c].step /\ req'[c].sub_index = req[c].sub_index
                                ELSE req'[c] = req[c]
      PROVE  \A s \in Slots : SameLease(s)
  BY <1>3 DEF Clears, SameLease, Pulling, Used, Blank
<1>4. ASSUME NEW S, req' = Disowned(S)
      PROVE  \A c \in Clients : IF req[c].sub_index \in S
                                THEN req'[c].step = req[c].step /\ req'[c].sub_index = req[c].sub_index
                                ELSE req'[c] = req[c]
  BY <1>4 DEF Disowned, TypeOK, RequestTypeOK, Request
<1>5. CASE CleanStep
  BY <1>3, <1>4, <1>5, CleanStepShape DEF CleanStep
<1>6. ASSUME NEW c \in Clients, ClientRequest(c)
      PROVE  \A s \in Slots : SameLease(s)
  <2>1. ASSUME NEW id \in Ids \ {0}, NEW s \in Slots, Unsubscribe(c, id, s)
        PROVE  \A r \in Slots : SameLease(r)
    <3>1. Clears({s})
      BY <2>1 DEF Unsubscribe, Clears, TypeOK, TableTypeOK
    <3> QED
      BY <1>3, <1>4, <2>1, <3>1 DEF Unsubscribe
  <2>2. ASSUME NEW id \in Ids \ {0}, NEW s \in Slots, SetSynchronizationPoint(c, id, s)
        PROVE  \A r \in Slots : SameLease(r)
    <3>1. UNCHANGED req
      BY <2>2 DEF SetSynchronizationPoint
    <3>2. \A r \in Slots : /\ subscriptions'[r].used = subscriptions[r].used
                           /\ subscriptions'[r].expire = subscriptions[r].expire
      BY <1>0, <2>2 DEF SetSynchronizationPoint, TypeOK, TableTypeOK, Subscription
    <3> QED
      BY <3>1, <3>2 DEF SameLease, Pulling, Used
  <2>3. ASSUME \/ \E used \in {"PULL", "PUSH"}, x \in Expiries, f \in Filters :
                    CreateRequest(c, used, x, f)
               \/ \E id \in Ids \ {0}, t \in Timeouts, l \in Limits : PullRequest(c, id, t, l)
               \/ \E id \in Ids \ {0}, x \in Expiries : RenewRequest(c, id, x)
        PROVE  \A s \in Slots : SameLease(s)
    <3>1. UNCHANGED subscriptions
      BY <2>3 DEF CreateRequest, PullRequest, RenewRequest, shm
    <3>2. /\ req[c].step = "idle"
          /\ req'[c].step \in {"alloc", "find", "renew"}
          /\ \A d \in Clients : d # c => req'[d] = req[d]
      <4>1. ASSUME NEW used, NEW x, NEW f, CreateRequest(c, used, x, f)
            PROVE  /\ req[c].step = "idle" /\ req'[c].step = "alloc"
                   /\ \A d \in Clients : d # c => req'[d] = req[d]
        BY <4>1 DEF CreateRequest, Receive, TypeOK, RequestTypeOK, Idle
      <4>2. ASSUME NEW id, NEW t, NEW l, PullRequest(c, id, t, l)
            PROVE  /\ req[c].step = "idle" /\ req'[c].step = "find"
                   /\ \A d \in Clients : d # c => req'[d] = req[d]
        BY <4>2 DEF PullRequest, Receive, TypeOK, RequestTypeOK, Idle
      <4>3. ASSUME NEW id, NEW x, RenewRequest(c, id, x)
            PROVE  /\ req[c].step = "idle" /\ req'[c].step = "renew"
                   /\ \A d \in Clients : d # c => req'[d] = req[d]
        BY <4>3 DEF RenewRequest, Receive, TypeOK, RequestTypeOK, Idle
      <4> QED
        BY <2>3, <4>1, <4>2, <4>3
    <3> QED
      BY <3>1, <3>2, IdleHandlerKeeps
  <2> QED
    BY <1>6, <2>1, <2>2, <2>3, Zenon DEF ClientRequest
<1>7. CASE Tick \/ MotionStep \/ UNCHANGED vars
  BY <1>1, <1>7 DEF Tick, MotionStep, FileCreated, FileDeleted, FileModified, vars, shm
<1>8. CASE InotifyRead \/ Record \/ \E e \in Events : PollRead(e)
  BY <1>1, <1>8 DEF InotifyRead, Record, PollRead, shm
<1> QED
  BY <1>2, <1>5, <1>6, <1>7, <1>8 DEF DaemonStep

\* A handler moves an expiry, puts it back, or makes a new promise; no other one
\* works on the slot meanwhile.
LEMMA HandlerKeepsLeases ==
  ASSUME TypeOK, PromiseTypeOK, LeaseInv, UndisturbedPulls, NEW c \in Clients,
         \/ LRestore(c)
         \/ \E s \in Slots : LAlloc(c, s) \/ LRenew(c, s)
         \/ ClientStep(c) /\ Silent(c) /\ UNCHANGED promised
  PROVE  LeaseInv'
<1>0. /\ req[c] \in Request
      /\ \A s \in Slots : subscriptions[s] \in Subscription /\ promised[s] \in Int
      /\ now \in Int /\ Margin \in Int
  BY CoreAssumption DEF TypeOK, TableTypeOK, RequestTypeOK, PromiseTypeOK, EnvTypeOK
<1>2. ASSUME NEW s \in Slots, LeaseAt(s)', \A r \in Slots : r # s => SameLease(r)
      PROVE  LeaseInv'
  BY <1>2, SameLeaseSafe DEF LeaseInv
<1>3. CASE LRestore(c)
  <2> DEFINE s == req[c].sub_index
             x == IF req[c].expire > req[c].at + req[c].timeout
                  THEN req[c].expire ELSE req[c].at + req[c].timeout
  <2>1. /\ req[c].step = "restore" /\ req'[c].step = "emit"
        /\ req'[c].sub_index = s
        /\ s \in Slots
        /\ subscriptions'[s].expire = x /\ subscriptions'[s].used = subscriptions[s].used
        /\ \A r \in Slots \ {s} : subscriptions'[r] = subscriptions[r]
        /\ \A d \in Clients : d # c => req'[d] = req[d]
    BY <1>0, <1>3 DEF LRestore, PullRestore, TypeOK, TableTypeOK, RequestTypeOK, Request, Subscription
  <2>2. /\ \A r \in Slots \ {s} : promised'[r] = promised[r]
        /\ promised'[s] = IF req[c].mine /\ subscriptions'[s].expire > promised[s]
                          THEN subscriptions'[s].expire ELSE promised[s]
    BY <1>3, <2>1 DEF LRestore, PromiseTypeOK
  <2>3. x \in Int /\ x >= req[c].expire /\ req[c].expire \in Int
    BY <1>0 DEF Request
  <2> HIDE DEF x
  <2>4. LeaseAt(s)'
    <3> SUFFICES ASSUME s \in Used(subscriptions')
                 PROVE  /\ subscriptions'[s].expire >= promised'[s]
                        /\ \A d \in Clients : ~ Pulling(d, s)'
      BY <2>1, Zenon DEF LeaseAt, Pulling
    <3>1. s \in Used(subscriptions) /\ Pulling(c, s)
      BY <2>1 DEF Used, Pulling
    <3>2. /\ req[c].expire >= promised[s] /\ req[c].mine
          /\ \A d \in Clients : Pulling(d, s) => d = c
      BY <2>1, <3>1 DEF LeaseInv, LeaseAt
    <3>3. subscriptions'[s].expire >= promised'[s]
      BY <1>0, <2>1, <2>2, <2>3, <3>2
    <3>4. \A d \in Clients : ~ Pulling(d, s)'
      BY <2>1, <3>2 DEF Pulling
    <3> QED
      BY <3>3, <3>4
  <2>5. \A r \in Slots : r # s => SameLease(r)
    BY <2>1, <2>2 DEF SameLease, Pulling, Used
  <2> QED
    BY <1>2, <2>1, <2>4, <2>5
\* nobody else pulls the slot that a handler is given, renews or finds
<1>4. ASSUME NEW s \in Slots, LAlloc(c, s) \/ LRenew(c, s) \/ PullFind(c, s)
      PROVE  \A d \in Clients : d # c => ~ Pulling(d, s)
  BY <1>4, Zenon DEF UndisturbedPulls
<1>5. ASSUME NEW s \in Slots, LAlloc(c, s) \/ LRenew(c, s)
      PROVE  LeaseInv'
  <2>1. /\ req[c].step \in {"alloc", "renew"} /\ req'[c].step \in {"mark", "idle"}
        /\ subscriptions'[s].expire = req[c].expire
        /\ \A r \in Slots \ {s} : subscriptions'[r] = subscriptions[r]
        /\ \A d \in Clients : d # c => req'[d] = req[d]
    <3>1. CASE LAlloc(c, s)
      BY <3>1 DEF LAlloc, Alloc, Occupied, TypeOK, TableTypeOK, RequestTypeOK, Idle
    <3>2. CASE LRenew(c, s)
      BY <1>0, <3>2 DEF LRenew, Renew, Idle, TypeOK, TableTypeOK, RequestTypeOK, Request, Subscription
    <3> QED
      BY <1>5, <3>1, <3>2
  <2>2. /\ promised'[s] = req[c].expire /\ req[c].expire \in Int
        /\ \A r \in Slots \ {s} : promised'[r] = promised[r]
    BY <1>0, <1>5 DEF LAlloc, LRenew, PromiseTypeOK, Request
  <2>3. \A d \in Clients : ~ Pulling(d, s)'
    BY <1>4, <1>5, <2>1 DEF Pulling
  <2>4. LeaseAt(s)'
    BY <2>1, <2>2, <2>3 DEF LeaseAt
  <2>5. \A r \in Slots : r # s => SameLease(r)
    BY <2>1, <2>2, IdleHandlerKeeps
  <2> QED
    BY <1>2, <2>4, <2>5
<1>6. ASSUME NEW s \in Slots, PullFind(c, s), UNCHANGED promised
      PROVE  LeaseInv'
  <2>1. /\ req[c].step = "find" /\ req'[c].step = "wait"
        /\ req'[c].sub_index = s /\ req'[c].mine
        /\ req'[c].expire = subscriptions[s].expire
        /\ req'[c].deadline = now + req[c].timeout
        /\ subscriptions'[s].expire = now + req[c].timeout + Margin
        /\ subscriptions'[s].used = subscriptions[s].used
        /\ \A r \in Slots \ {s} : subscriptions'[r] = subscriptions[r]
        /\ \A d \in Clients : d # c => req'[d] = req[d]
    BY <1>0, <1>6 DEF PullFind, TypeOK, TableTypeOK, RequestTypeOK, Request, Subscription
  <2>2. \A d \in Clients : ~ Pulling(d, s)
    BY <1>4, <1>6, <2>1 DEF Pulling
  <2>3. s \in Used(subscriptions') => subscriptions[s].expire >= promised[s]
    BY <2>1, <2>2 DEF LeaseInv, LeaseAt, Used
  <2>4. \A d \in Clients : Pulling(d, s)' => d = c
    BY <2>1, <2>2 DEF Pulling
  <2>5. Pulling(c, s)'
    BY <2>1 DEF Pulling
  <2>6. subscriptions'[s].expire = req'[c].deadline + Margin
    BY <1>0, <2>1 DEF Request
  <2>7. LeaseAt(s)'
    BY <1>6, <2>1, <2>3, <2>4, <2>5, <2>6 DEF LeaseAt
  <2>8. \A r \in Slots : r # s => SameLease(r)
    BY <1>6, <2>1 DEF SameLease, Pulling, Used
  <2> QED
    BY <1>2, <2>7, <2>8
<1>7. ASSUME PullWake(c), UNCHANGED promised
      PROVE  \A s \in Slots : SameLease(s)
  <2>1. UNCHANGED subscriptions
    BY <1>7 DEF PullWake, shm
  <2>2. /\ req[c].step = "wait" /\ req'[c].step = "restore"
        /\ req'[c].sub_index = req[c].sub_index /\ req'[c].mine = req[c].mine
        /\ req'[c].expire = req[c].expire /\ req'[c].deadline = req[c].deadline
        /\ \A d \in Clients : d # c => req'[d] = req[d]
    BY <1>0, <1>7 DEF PullWake, TypeOK, RequestTypeOK, Request
  <2> QED
    BY <1>7, <2>1, <2>2 DEF SameLease, Pulling
<1>8. ASSUME AllocFull(c) \/ MarkPull(c) \/ MarkPush(c) \/ PullFault(c) \/ PullEmit(c) \/ RenewFault(c),
             UNCHANGED promised
      PROVE  \A s \in Slots : SameLease(s)
  <2>1. /\ ~ (req[c].step \in {"wait", "restore"})
        /\ req'[c].step = "idle"
        /\ \A d \in Clients : d # c => req'[d] = req[d]
    BY <1>8 DEF AllocFull, MarkPull, MarkPush, PullFault, PullEmit, RenewFault, Idle, TypeOK, RequestTypeOK
  <2>2. \A s \in Slots : /\ subscriptions'[s].used = subscriptions[s].used
                         /\ subscriptions'[s].expire = subscriptions[s].expire
    <3>1. CASE MarkPush(c)
      BY <1>0, <3>1 DEF MarkPush, TypeOK, TableTypeOK, Subscription, Request
    <3>2. CASE UNCHANGED subscriptions
      BY <3>2
    <3> QED
      BY <1>8, <3>1, <3>2 DEF AllocFull, MarkPull, PullFault, PullEmit, RenewFault, shm
  <2> QED
    BY <1>8, <2>1, <2>2, IdleHandlerKeeps
<1>9. ASSUME ClientStep(c), Silent(c), UNCHANGED promised
      PROVE  LeaseInv'
  <2>1. \/ \E s \in Slots : PullFind(c, s)
        \/ PullWake(c)
        \/ AllocFull(c) \/ MarkPull(c) \/ MarkPush(c) \/ PullFault(c) \/ PullEmit(c) \/ RenewFault(c)
        \/ ClientRequest(c)
    BY <1>9, Zenon DEF Silent
  <2>2. ASSUME ClientRequest(c)
        PROVE  \A s \in Slots : SameLease(s)
    BY <1>9, <2>2, OthersKeepLeases
  <2> QED
    BY <1>6, <1>7, <1>8, <1>9, <2>1, <2>2, SameLeasesSafe, Zenon
<1> QED
  BY <1>3, <1>5, <1>9

LEMMA StepLeaseInv ==
  ASSUME TypeOK, PromiseTypeOK, LeaseInv,
         [LNext]_<<vars, promised>>, [UndisturbedPulls]_<<vars, promised>>
  PROVE  LeaseInv'
<1>1. CASE UNCHANGED <<vars, promised>>
  BY <1>1, OthersKeepLeases, SameLeasesSafe
<1> SUFFICES ASSUME UndisturbedPulls, LNext PROVE LeaseInv'
  BY <1>1, Zenon
<1>2. CASE \E c \in Clients : LRestore(c) \/ \E s \in Slots : LAlloc(c, s) \/ LRenew(c, s)
  BY <1>2, HandlerKeepsLeases
<1>3. CASE (\E c \in Clients : Silent(c)) /\ UNCHANGED promised
  <2>1. PICK c \in Clients : Silent(c)
    BY <1>3
  <2>2. ClientStep(c) \/ ClientRequest(c)
    BY <2>1, Zenon DEF Silent, ClientStep
  <2> QED
    BY <1>3, <2>1, <2>2, HandlerKeepsLeases, OthersKeepLeases, SameLeasesSafe
<1>4. CASE (Tick \/ MotionStep \/ DaemonStep) /\ UNCHANGED promised
  BY <1>4, OthersKeepLeases, SameLeasesSafe
<1> QED
  BY <1>2, <1>3, <1>4, Zenon DEF LNext

\* What the clean-up removes has expired.
LEMMA ReapedExpired ==
  ASSUME TypeOK, NEW s \in Slots, ReapedNow(s)
  PROVE  s \in Used(subscriptions) /\ now > subscriptions[s].expire
BY DEF ReapedNow, CleanStep, Reaped, Reapable, Expired, Used

LEMMA LeaseInvHolds ==
  LSpec /\ [][UndisturbedPulls]_<<vars, promised>> => [](TypeOK /\ PromiseTypeOK /\ LeaseInv)
<1>1. LInit => PromiseTypeOK /\ LeaseInv
  BY DEF LInit, Init, PromiseTypeOK, LeaseInv, LeaseAt, Used, Blank
<1>2. TypeOK /\ TypeOK' /\ PromiseTypeOK /\ [LNext]_<<vars, promised>> => PromiseTypeOK'
  BY StepPromiseTypeOK
<1>3. /\ TypeOK /\ PromiseTypeOK /\ LeaseInv
      /\ [LNext]_<<vars, promised>> /\ [UndisturbedPulls]_<<vars, promised>>
      => LeaseInv'
  BY StepLeaseInv
<1> QED
  BY <1>1, <1>2, <1>3, LSpecSpec, TypeCorrect, PTL DEF LSpec

(* A subscription lives as long as its client was told, with any number of *)
(* clients, as long as nobody renews, pulls or is given the slot on which  *)
(* a PullMessages works: no clean-up falls between the sections in which   *)
(* the table holds less than the promise (events_pull_messages).           *)
THEOREM PromisesAreKept ==
  LSpec /\ [][UndisturbedPulls]_<<vars, promised>> /\ []Punctual => PromiseKept
<1>1. ASSUME TypeOK, PromiseTypeOK, LeaseInv, Punctual
      PROVE  \A s \in Slots : ReapedNow(s) => now > promised[s]
  <2> SUFFICES ASSUME NEW s \in Slots, ReapedNow(s)
               PROVE  now > promised[s]
    OBVIOUS
  <2>1. s \in Used(subscriptions) /\ now > subscriptions[s].expire
    BY <1>1, ReapedExpired
  <2>2. /\ now \in Int /\ promised[s] \in Int /\ subscriptions[s].expire \in Int
        /\ \A c \in Clients : req[c].deadline + Margin \in Int
    BY <1>1, CoreAssumption DEF TypeOK, EnvTypeOK, TableTypeOK, Subscription, PromiseTypeOK,
       RequestTypeOK, Request
  <2>3. \A c \in Clients : ~ Pulling(c, s)
    BY <1>1, <2>1, <2>2 DEF LeaseInv, LeaseAt, Punctual, Pulling
  <2> QED
    BY <1>1, <2>1, <2>2, <2>3 DEF LeaseInv, LeaseAt
<1> QED
  BY <1>1, LeaseInvHolds, PTL DEF PromiseKept

\* Under the same conditions no clean-up removes the subscription that a
\* PullMessages waits on: the margin moves the expiry out of its way.
THEOREM NotReapedDuringPull ==
  LSpec /\ [][UndisturbedPulls]_<<vars, promised>> /\ []Punctual => NoReapDuringPull
<1>1. ASSUME TypeOK, PromiseTypeOK, LeaseInv, Punctual
      PROVE  \A s \in Slots : ReapedNow(s) =>
               ~ \E c \in Clients : /\ req[c].step \in {"wait", "restore"}
                                    /\ req[c].mine /\ req[c].sub_index = s
  <2> SUFFICES ASSUME NEW s \in Slots, ReapedNow(s), NEW c \in Clients, Pulling(c, s)
               PROVE  FALSE
    BY Zenon DEF Pulling
  <2>1. s \in Used(subscriptions) /\ now > subscriptions[s].expire
    BY <1>1, ReapedExpired
  <2>2. now \in Int /\ req[c].deadline + Margin \in Int
    BY <1>1, CoreAssumption DEF TypeOK, EnvTypeOK, RequestTypeOK, Request
  <2> QED
    BY <1>1, <2>1, <2>2 DEF LeaseInv, LeaseAt, Punctual, Pulling
<1> QED
  BY <1>1, LeaseInvHolds, PTL DEF NoReapDuringPull
=============================================================================
