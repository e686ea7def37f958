------------------------ MODULE Subscriptions_proofs ------------------------
(***************************************************************************)
(* Proofs about Subscriptions, for every number of slots, events and       *)
(* clients, every id range and every choice of the inputs.                 *)
(***************************************************************************)
EXTENDS Subscriptions, TLAPS, WellFoundedInduction, FiniteSetTheorems, FunctionTheorems

\* Every table has a greatest id: the scan of the creation handlers finds it.
LEMMA GreatestIdExists ==
  ASSUME NEW t \in [Slots -> Subscription]
  PROVE  /\ GreatestId(t) \in Ids
         /\ \E s \in Slots : t[s].id = GreatestId(t)
         /\ \A s \in Slots : t[s].id <= GreatestId(t)
<1> DEFINE Gaps == {MaxId - t[s].id : s \in Slots}
<1>1. \A s \in Slots : t[s].id \in Ids
  BY DEF Subscription
<1>2. Gaps \subseteq Nat /\ Gaps # {}
  BY <1>1, TableAssumption DEF Ids, Slots
<1>3. PICK g \in Gaps : \A h \in Gaps : ~(<<h, g>> \in OpToRel(<, Nat))
  BY <1>2, NatLessThanWellFounded, WFMin
<1>4. \A h \in Gaps : ~(h < g)
  BY <1>2, <1>3, Zenon DEF OpToRel
<1>5. PICK s \in Slots : g = MaxId - t[s].id
  OBVIOUS
<1>6. \A r \in Slots : t[r].id <= t[s].id
  <2> SUFFICES ASSUME NEW r \in Slots PROVE t[r].id <= t[s].id
    OBVIOUS
  <2>1. MaxId - t[r].id \in Gaps
    OBVIOUS
  <2>2. ~(MaxId - t[r].id < MaxId - t[s].id)
    BY <2>1, <1>4, <1>5
  <2> QED
    BY <2>2, <1>1, TableAssumption DEF Ids
<1> QED
  BY <1>1, <1>6 DEF GreatestId

LEMMA FreshIdType ==
  ASSUME NEW t \in [Slots -> Subscription]
  PROVE  FreshId(t) \in Ids /\ FreshId(t) # 0
BY GreatestIdExists, TableAssumption DEF FreshId, Ids

LEMMA BlankType == Blank \in Subscription
BY TableAssumption DEF Blank, Subscription, Ids, Kinds

LEMMA IdleType == Idle \in Request
BY TableAssumption DEF Idle, Request, Steps, Ids, Kinds, Slots

-----------------------------------------------------------------------------
(* Type correctness. *)

LEMMA InitTypeOK == Init => TypeOK
<1> SUFFICES ASSUME Init PROVE TypeOK
  OBVIOUS
<1> USE TableAssumption, CoreAssumption DEF Init
<1>1. TableTypeOK
  BY BlankType DEF TableTypeOK
<1>2. EventTypeOK
  BY DEF EventTypeOK
<1>3. EnvTypeOK /\ requests \in Nat /\ wrapped \in BOOLEAN
  BY DEF EnvTypeOK
<1>4. DaemonTypeOK
  <2>1. NoChange \in Change
    BY DEF NoChange, Change, Events
  <2> QED
    BY <2>1 DEF DaemonTypeOK
<1>5. RequestTypeOK
  BY IdleType DEF RequestTypeOK
<1> QED
  BY <1>1, <1>2, <1>3, <1>4, <1>5 DEF TypeOK

\* Each part of TypeOK survives a step that leaves its variables alone.
LEMMA TableUnchanged == TableTypeOK /\ UNCHANGED subscriptions => TableTypeOK'
BY DEF TableTypeOK

LEMMA EventUnchanged ==
  EventTypeOK /\ UNCHANGED <<is_on, pull_send_initialized, pull_notify>> => EventTypeOK'
BY DEF EventTypeOK

LEMMA EnvUnchanged == EnvTypeOK /\ UNCHANGED env => EnvTypeOK'
BY DEF EnvTypeOK, env

LEMMA DaemonUnchanged == DaemonTypeOK /\ UNCHANGED dmn => DaemonTypeOK'
BY DEF DaemonTypeOK, dmn

LEMMA RequestUnchanged == RequestTypeOK /\ UNCHANGED req => RequestTypeOK'
BY DEF RequestTypeOK

LEMMA MotionTypeOK ==
  ASSUME TypeOK, MotionStep
  PROVE  TypeOK'
<1>1. PICK e \in Events : FileCreated(e) \/ FileDeleted(e) \/ FileModified(e)
  BY DEF MotionStep
<1>2. ASSUME NEW m \in {"CREATE", "DELETE", "MODIFY"}, Report(e, m)
      PROVE  queue' \in Seq(InotifyEvent)
  <2> DEFINE i == [event |-> e, mask |-> m]
  <2>1. i \in InotifyEvent
    BY DEF InotifyEvent
  <2>2. queue \in Seq(InotifyEvent)
    BY DEF TypeOK, DaemonTypeOK
  <2>3. queue' = Append(queue, i) \/ queue' = queue
    BY <1>2 DEF Report
  <2> HIDE DEF i
  <2> QED
    BY <2>1, <2>2, <2>3
<1>3. DaemonTypeOK'
  BY <1>1, <1>2 DEF FileCreated, FileDeleted, FileModified, TypeOK, DaemonTypeOK
<1>4. EnvTypeOK'
  BY <1>1 DEF FileCreated, FileDeleted, FileModified, TypeOK, EnvTypeOK
<1>5. UNCHANGED <<subscriptions, is_on, pull_send_initialized, pull_notify, req, bkp>>
  BY <1>1 DEF FileCreated, FileDeleted, FileModified, shm
<1> QED
  BY <1>3, <1>4, <1>5, TableUnchanged, EventUnchanged, RequestUnchanged DEF TypeOK, bkp

LEMMA ReceiveType ==
  ASSUME TypeOK, NEW c, NEW m, Receive(c, m)
  PROVE  requests' \in Nat /\ wrapped' \in BOOLEAN
BY DEF Receive, TypeOK

\* A request fills the record of an idle process.
LEMMA ArrivalTypeOK ==
  ASSUME TypeOK, NEW c \in Clients, NEW m, Receive(c, m), NEW r \in Request,
         req' = [req EXCEPT ![c] = r], UNCHANGED <<shm, env, dmn>>
  PROVE  TypeOK'
<1>1. RequestTypeOK'
  BY DEF TypeOK, RequestTypeOK
<1>2. UNCHANGED <<subscriptions, is_on, pull_send_initialized, pull_notify>>
  BY DEF shm
<1> QED
  BY <1>1, <1>2, ReceiveType, TableUnchanged, EventUnchanged, EnvUnchanged,
     DaemonUnchanged DEF TypeOK

LEMMA MarkedType ==
  ASSUME NEW bits \in [Events -> SUBSET Slots], NEW s \in Slots
  PROVE  Marked(bits, s) \in [Events -> SUBSET Slots]
BY DEF Marked

LEMMA DisownedType ==
  ASSUME RequestTypeOK, NEW S
  PROVE  Disowned(S) \in [Clients -> Request]
BY DEF RequestTypeOK, Disowned, Request

LEMMA ClientRequestTypeOK ==
  ASSUME TypeOK, NEW c \in Clients, ClientRequest(c)
  PROVE  TypeOK'
<1>0. Expiries \subseteq Int
  <2>1. \A d \in Ttls : now + d \in Int
    BY CoreAssumption DEF TypeOK, EnvTypeOK
  <2> QED
    BY <2>1, CoreAssumption DEF Expiries
<1>1. ASSUME NEW used \in {"PULL", "PUSH"}, NEW x \in Expiries, NEW f \in Filters,
             CreateRequest(c, used, x, f)
      PROVE  TypeOK'
  <2>1. [Idle EXCEPT !.step = "alloc", !.used = used, !.expire = x, !.filter = f] \in Request
    BY <1>0, IdleType DEF Request, Steps, Kinds
  <2> QED
    BY <2>1, <1>1, ArrivalTypeOK DEF CreateRequest
<1>2. ASSUME NEW id \in Ids \ {0}, NEW t \in Timeouts, NEW l \in Limits,
             PullRequest(c, id, t, l)
      PROVE  TypeOK'
  <2>1. [Idle EXCEPT !.step = "find", !.sub_id = id, !.timeout = t, !.limit = l] \in Request
    BY IdleType, CoreAssumption DEF Request, Steps
  <2> QED
    BY <2>1, <1>2, ArrivalTypeOK DEF PullRequest
<1>3. ASSUME NEW id \in Ids \ {0}, NEW x \in Expiries, RenewRequest(c, id, x)
      PROVE  TypeOK'
  <2>1. [Idle EXCEPT !.step = "renew", !.sub_id = id, !.expire = x] \in Request
    BY <1>0, IdleType DEF Request, Steps
  <2> QED
    BY <2>1, <1>3, ArrivalTypeOK DEF RenewRequest
<1>4. ASSUME NEW id \in Ids \ {0}, NEW s \in Slots, Unsubscribe(c, id, s)
      PROVE  TypeOK'
  <2>1. TableTypeOK'
    BY <1>4, BlankType DEF Unsubscribe, TypeOK, TableTypeOK
  <2>2. RequestTypeOK'
    BY <1>4, DisownedType DEF Unsubscribe, TypeOK, RequestTypeOK
  <2> QED
    BY <2>1, <2>2, <1>4, ReceiveType, EventUnchanged, EnvUnchanged, DaemonUnchanged
    DEF Unsubscribe, TypeOK
<1>5. ASSUME NEW id \in Ids \ {0}, NEW s \in Slots, SetSynchronizationPoint(c, id, s)
      PROVE  TypeOK'
  <2>1. TableTypeOK'
    BY <1>5 DEF SetSynchronizationPoint, TypeOK, TableTypeOK, Subscription
  <2>2. EventTypeOK'
    BY <1>5, MarkedType DEF SetSynchronizationPoint, TypeOK, EventTypeOK
  <2> QED
    BY <2>1, <2>2, <1>5, ReceiveType, RequestUnchanged, EnvUnchanged, DaemonUnchanged
    DEF SetSynchronizationPoint, TypeOK
<1> QED
  BY <1>1, <1>2, <1>3, <1>4, <1>5 DEF ClientRequest

\* A handler's step that only replaces its own record.
LEMMA RecordTypeOK ==
  ASSUME TypeOK, NEW c \in Clients, NEW r \in Request, req' = [req EXCEPT ![c] = r],
         UNCHANGED <<shm, env, dmn, bkp>>
  PROVE  TypeOK'
<1>1. RequestTypeOK'
  BY DEF TypeOK, RequestTypeOK
<1>2. UNCHANGED <<subscriptions, is_on, pull_send_initialized, pull_notify,
                  requests, wrapped>>
  BY DEF shm, bkp
<1> QED
  BY <1>1, <1>2, TableUnchanged, EventUnchanged, EnvUnchanged, DaemonUnchanged DEF TypeOK

\* A handler's step that replaces its own record and one slot of the table.
LEMMA SlotTypeOK ==
  ASSUME TypeOK, NEW c \in Clients, NEW r \in Request, req' = [req EXCEPT ![c] = r],
         NEW s \in Slots, NEW u \in Subscription,
         subscriptions' = [subscriptions EXCEPT ![s] = u],
         UNCHANGED <<is_on, pull_send_initialized, pull_notify, env, dmn, requests>>,
         wrapped' \in BOOLEAN
  PROVE  TypeOK'
<1>1. RequestTypeOK' /\ TableTypeOK'
  BY DEF TypeOK, RequestTypeOK, TableTypeOK
<1> QED
  BY <1>1, EventUnchanged, EnvUnchanged, DaemonUnchanged DEF TypeOK

LEMMA ClientStepTypeOK ==
  ASSUME TypeOK, NEW c \in Clients, ClientStep(c)
  PROVE  TypeOK'
<1>0. req[c] \in Request /\ \A s \in Slots : subscriptions[s] \in Subscription
  BY DEF TypeOK, RequestTypeOK, TableTypeOK
<1>1. ASSUME NEW s \in Slots, Alloc(c, s) PROVE TypeOK'
  <2> DEFINE u == [used |-> req[c].used, topic_expression |-> req[c].filter,
                   push_need_sync |-> subscriptions[s].push_need_sync,
                   expire |-> req[c].expire, id |-> FreshId(subscriptions)]
             r == [Idle EXCEPT !.step = "mark", !.used = req[c].used,
                               !.sub_index = s, !.mine = TRUE]
  <2>1. u \in Subscription
    BY <1>0, FreshIdType DEF Subscription, Request, TypeOK, TableTypeOK
  <2>2. r \in Request
    BY <1>0, IdleType DEF Request, Steps
  <2>3. subscriptions' = [subscriptions EXCEPT ![s] = u]
    BY <1>1 DEF Alloc, Occupied
  <2>4. req' = [req EXCEPT ![c] = r]
    BY <1>1 DEF Alloc
  <2>5. wrapped' \in BOOLEAN
    BY <1>1 DEF Alloc, TypeOK
  <2>6. UNCHANGED <<is_on, pull_send_initialized, pull_notify, env, dmn, requests>>
    BY <1>1 DEF Alloc
  <2> HIDE DEF u, r
  <2> QED
    BY <2>1, <2>2, <2>3, <2>4, <2>5, <2>6, SlotTypeOK
<1>2. ASSUME NEW s \in Slots, PullFind(c, s) PROVE TypeOK'
  <2> DEFINE u == [subscriptions[s] EXCEPT !.expire = now + req[c].timeout + Margin]
             r == [req[c] EXCEPT !.step = "wait", !.sub_index = s, !.mine = TRUE,
                                 !.expire = subscriptions[s].expire,
                                 !.deadline = now + req[c].timeout]
  <2>1. u \in Subscription
    BY <1>0, CoreAssumption DEF Subscription, Request, TypeOK, EnvTypeOK
  <2>2. r \in Request
    <3>1. subscriptions[s].expire \in Int
      BY <1>0 DEF Subscription
    <3>2. now + req[c].timeout \in Int
      BY <1>0 DEF Request, TypeOK, EnvTypeOK
    <3> QED
      BY <1>0, <3>1, <3>2 DEF Request, Steps
  <2>3. subscriptions' = [subscriptions EXCEPT ![s] = u]
    BY <1>2 DEF PullFind, TypeOK, TableTypeOK
  <2>4. req' = [req EXCEPT ![c] = r]
    BY <1>2 DEF PullFind, TypeOK, RequestTypeOK
  <2>5. wrapped' \in BOOLEAN
    BY <1>2 DEF PullFind, bkp, TypeOK
  <2>6. UNCHANGED <<is_on, pull_send_initialized, pull_notify, env, dmn, requests>>
    BY <1>2 DEF PullFind, bkp
  <2> HIDE DEF u, r
  <2> QED
    BY <2>1, <2>2, <2>3, <2>4, <2>5, <2>6, SlotTypeOK
<1>3. ASSUME NEW s \in Slots, Renew(c, s) PROVE TypeOK'
  <2> DEFINE u == [subscriptions[s] EXCEPT !.expire = req[c].expire]
  <2>1. u \in Subscription
    BY <1>0 DEF Subscription, Request
  <2>2. subscriptions' = [subscriptions EXCEPT ![s] = u]
    BY <1>3 DEF Renew, TypeOK, TableTypeOK
  <2>3. /\ req' = [req EXCEPT ![c] = Idle]
        /\ wrapped' \in BOOLEAN
        /\ UNCHANGED <<is_on, pull_send_initialized, pull_notify, env, dmn, requests>>
    BY <1>3 DEF Renew, bkp, TypeOK
  <2> HIDE DEF u
  <2> QED
    BY <2>1, <2>2, <2>3, IdleType, SlotTypeOK
<1>4. CASE AllocFull(c) \/ PullFault(c) \/ RenewFault(c)
  BY <1>4, IdleType, RecordTypeOK DEF AllocFull, PullFault, RenewFault
<1>5. CASE MarkPull(c)
  <2>1. RequestTypeOK'
    BY <1>5, IdleType DEF MarkPull, TypeOK, RequestTypeOK
  <2>2. EventTypeOK'
    BY <1>0, <1>5, MarkedType DEF MarkPull, TypeOK, EventTypeOK, Request
  <2> QED
    BY <2>1, <2>2, <1>5, TableUnchanged, EnvUnchanged, DaemonUnchanged DEF MarkPull, TypeOK, bkp
<1>6. CASE MarkPush(c)
  <2> DEFINE s == req[c].sub_index
             u == [subscriptions[s] EXCEPT !.push_need_sync = TRUE]
  <2>0. s \in Slots
    BY <1>0 DEF Request
  <2>1. u \in Subscription
    BY <1>0, <2>0 DEF Subscription
  <2>2. subscriptions' = [subscriptions EXCEPT ![s] = u]
    BY <1>6 DEF MarkPush, TypeOK, TableTypeOK
  <2>3. /\ req' = [req EXCEPT ![c] = Idle]
        /\ wrapped' \in BOOLEAN
        /\ UNCHANGED <<is_on, pull_send_initialized, pull_notify, env, dmn, requests>>
    BY <1>6 DEF MarkPush, bkp, TypeOK
  <2> HIDE DEF u, s
  <2> QED
    BY <2>0, <2>1, <2>2, <2>3, IdleType, SlotTypeOK
<1>7. CASE PullWake(c)
  <2> DEFINE r == [req[c] EXCEPT !.step = "restore", !.at = now]
  <2>1. r \in Request
    BY <1>0 DEF Request, Steps, TypeOK, EnvTypeOK
  <2>2. req' = [req EXCEPT ![c] = r] /\ UNCHANGED <<shm, env, dmn, bkp>>
    BY <1>7 DEF PullWake, TypeOK, RequestTypeOK
  <2> HIDE DEF r
  <2> QED
    BY <2>1, <2>2, RecordTypeOK
<1>8. CASE PullRestore(c)
  <2> DEFINE s == req[c].sub_index
             x == IF req[c].expire > req[c].at + req[c].timeout
                  THEN req[c].expire ELSE req[c].at + req[c].timeout
             u == [subscriptions[s] EXCEPT !.expire = x]
             r == [req[c] EXCEPT !.step = "emit"]
  <2>0. s \in Slots /\ r \in Request
    BY <1>0 DEF Request, Steps
  <2>1. u \in Subscription
    BY <1>0, <2>0 DEF Subscription, Request, TypeOK, EnvTypeOK
  <2>2. subscriptions' = [subscriptions EXCEPT ![s] = u]
    BY <1>8 DEF PullRestore, TypeOK, TableTypeOK
  <2>3. req' = [req EXCEPT ![c] = r]
    BY <1>8 DEF PullRestore, TypeOK, RequestTypeOK
  <2>4. /\ wrapped' \in BOOLEAN
        /\ UNCHANGED <<is_on, pull_send_initialized, pull_notify, env, dmn, requests>>
    BY <1>8 DEF PullRestore, bkp, TypeOK
  <2> HIDE DEF u, s, r
  <2> QED
    BY <2>0, <2>1, <2>2, <2>3, <2>4, SlotTypeOK
<1>9. CASE PullEmit(c)
  <2>1. RequestTypeOK'
    BY <1>9, IdleType DEF PullEmit, TypeOK, RequestTypeOK
  <2>2. EventTypeOK'
    BY <1>9 DEF PullEmit, Cleared, TypeOK, EventTypeOK
  <2> QED
    BY <2>1, <2>2, <1>9, TableUnchanged, EnvUnchanged, DaemonUnchanged DEF PullEmit, TypeOK, bkp
<1> QED
  BY <1>1, <1>2, <1>3, <1>4, <1>5, <1>6, <1>7, <1>8, <1>9 DEF ClientStep

\* The section that both event sources run for one change of an event.
LEMMA RecordChangeTypeOK ==
  ASSUME TypeOK, Record
  PROVE  TypeOK'
<1>1. /\ change.event \in Events /\ change.at \in Nat
      /\ StateAfter \in BOOLEAN /\ PullTargets \subseteq Slots
  BY DEF TypeOK, DaemonTypeOK, Change, StateAfter, EventTypeOK, PullTargets
<1>2. EventTypeOK'
  BY <1>1 DEF Record, TypeOK, EventTypeOK
<1>3. last_emit_time' \in [Events -> Nat]
  BY <1>1 DEF Record, TypeOK, DaemonTypeOK
<1>4. DaemonTypeOK'
  <2>1. NoChange \in Change
    BY TableAssumption DEF NoChange, Change, Events
  <2> QED
    BY <1>3, <2>1 DEF Record, TypeOK, DaemonTypeOK
<1> QED
  BY <1>2, <1>4, TableUnchanged, EnvUnchanged, RequestUnchanged DEF Record, TypeOK, bkp

LEMMA DaemonStepTypeOK ==
  ASSUME TypeOK, DaemonStep
  PROVE  TypeOK'
<1>1. CASE InotifyRead
  <2> DEFINE i == Head(queue)
             x == \/ i.mask = "CREATE"
                  \/ i.mask = "MODIFY" /\ i.event \in files
             d == [at |-> now, event |-> i.event, exists |-> x, mask |-> i.mask]
  <2>1. i \in InotifyEvent /\ Tail(queue) \in Seq(InotifyEvent)
    BY <1>1 DEF InotifyRead, TypeOK, DaemonTypeOK
  <2>2. x \in BOOLEAN
    OBVIOUS
  <2>3. change' = d /\ queue' = Tail(queue)
    BY <1>1 DEF InotifyRead
  <2> HIDE DEF x, i
  <2>4. d \in Change
    BY <2>1, <2>2 DEF Change, InotifyEvent, TypeOK, EnvTypeOK
  <2> HIDE DEF d
  <2>5. DaemonTypeOK'
    BY <1>1, <2>1, <2>3, <2>4 DEF InotifyRead, i, TypeOK, DaemonTypeOK
  <2> QED
    BY <1>1, <2>5, TableUnchanged, EventUnchanged, EnvUnchanged, RequestUnchanged
    DEF InotifyRead, TypeOK, shm, bkp
<1>2. ASSUME NEW e \in Events, PollRead(e) PROVE TypeOK'
  <2> DEFINE x == e \in files
             d == [at |-> now, event |-> e, exists |-> x,
                   mask |-> IF x THEN "CREATE" ELSE "DELETE"]
  <2>1. x \in BOOLEAN
    OBVIOUS
  <2>2. change' = d
    BY <1>2 DEF PollRead
  <2> HIDE DEF x
  <2>3. d \in Change
    BY <2>1 DEF Change, TypeOK, EnvTypeOK
  <2> HIDE DEF d
  <2>4. DaemonTypeOK'
    BY <1>2, <2>2, <2>3 DEF PollRead, TypeOK, DaemonTypeOK
  <2> QED
    BY <1>2, <2>4, TableUnchanged, EventUnchanged, EnvUnchanged, RequestUnchanged
    DEF PollRead, TypeOK, shm, bkp
<1>3. CASE SyncStep
  <2>1. sync_i \in Slots /\ sync_i' \in 0 .. MaxSubs
    BY <1>3, TableAssumption DEF SyncStep, TypeOK, DaemonTypeOK, Slots
  <2>2. TableTypeOK'
    BY <1>3, <2>1 DEF SyncStep, TypeOK, TableTypeOK, Subscription
  <2>3. DaemonTypeOK'
    BY <1>3, <2>1 DEF SyncStep, TypeOK, DaemonTypeOK
  <2> QED
    BY <1>3, <2>2, <2>3, EventUnchanged, EnvUnchanged, RequestUnchanged
    DEF SyncStep, TypeOK, bkp
<1>4. CASE CleanStep
  <2>1. TableTypeOK'
    BY <1>4, BlankType DEF CleanStep, Reaped, TypeOK, TableTypeOK
  <2>2. RequestTypeOK'
    BY <1>4, DisownedType DEF CleanStep, TypeOK, RequestTypeOK
  <2>3. DaemonTypeOK'
    BY <1>4, TableAssumption DEF CleanStep, TypeOK, DaemonTypeOK
  <2> QED
    BY <1>4, <2>1, <2>2, <2>3, EventUnchanged, EnvUnchanged DEF CleanStep, TypeOK, bkp
<1> QED
  BY <1>1, <1>2, <1>3, <1>4, RecordChangeTypeOK DEF DaemonStep

LEMMA TickTypeOK ==
  ASSUME TypeOK, Tick
  PROVE  TypeOK'
<1>1. EnvTypeOK'
  BY DEF Tick, TypeOK, EnvTypeOK
<1> QED
  BY <1>1, TableUnchanged, EventUnchanged, DaemonUnchanged, RequestUnchanged
  DEF Tick, TypeOK, shm, bkp

LEMMA StutterTypeOK == TypeOK /\ UNCHANGED vars => TypeOK'
BY TableUnchanged, EventUnchanged, EnvUnchanged, DaemonUnchanged, RequestUnchanged
DEF vars, shm, env, bkp, dmn, TypeOK

LEMMA StepTypeOK == TypeOK /\ [Next]_vars => TypeOK'
BY TickTypeOK, MotionTypeOK, ClientRequestTypeOK, ClientStepTypeOK, DaemonStepTypeOK,
   StutterTypeOK DEF Next

\* The table, the event bits and the locals of every handler keep their types:
\* no handler writes through an index outside the table, and the ids that the
\* creation handlers give stay between 1 and MaxId.
THEOREM TypeCorrect == Spec => []TypeOK
BY InitTypeOK, StepTypeOK, PTL DEF Spec

-----------------------------------------------------------------------------
(* Subscription ids. *)

\* What the steps rely on beside the two properties: a creation knows its kind.
CreationsHaveKind ==
  \A c \in Clients : req[c].step = "alloc" => req[c].used # "UNUSED"

IdInv == UnusedHasNoId /\ UniqueIds /\ CreationsHaveKind

\* The step leaves the id, the kind and the filter of every slot alone.
SameIds ==
  \A s \in Slots :
    /\ subscriptions'[s].id = subscriptions[s].id
    /\ subscriptions'[s].used = subscriptions[s].used
    /\ subscriptions'[s].topic_expression = subscriptions[s].topic_expression

\* The step clears the slots of S and no other.
Clears(S) ==
  \A s \in Slots : IF s \in S THEN subscriptions'[s] = Blank
                             ELSE subscriptions'[s] = subscriptions[s]

LEMMA InitIdInv == Init => IdInv
BY DEF Init, IdInv, UnusedHasNoId, UniqueIds, CreationsHaveKind, Used, Blank, Idle

LEMMA SameIdsSafe ==
  ASSUME IdInv, SameIds, wrapped' = wrapped
  PROVE  UnusedHasNoId' /\ UniqueIds'
<1>1. UnusedHasNoId'
  BY DEF IdInv, UnusedHasNoId, SameIds
<1>2. UniqueIds'
  BY DEF IdInv, UniqueIds, SameIds, Used
<1> QED
  BY <1>1, <1>2

LEMMA ClearsSafe ==
  ASSUME IdInv, NEW S, Clears(S), wrapped' = wrapped
  PROVE  UnusedHasNoId' /\ UniqueIds'
<1>1. Blank.used = "UNUSED" /\ Blank.id = 0
  BY DEF Blank
<1>2. UnusedHasNoId'
  BY <1>1 DEF IdInv, UnusedHasNoId, Clears
<1>3. \A s \in Used(subscriptions)' : s \in Used(subscriptions) /\ subscriptions'[s] = subscriptions[s]
  BY <1>1 DEF Used, Clears
<1>4. UniqueIds'
  BY <1>3 DEF IdInv, UniqueIds
<1> QED
  BY <1>2, <1>4

\* The id that Alloc gives is new, or the history says that it may not be.
LEMMA AllocSafe ==
  ASSUME TypeOK, IdInv, NEW c \in Clients, NEW s \in Slots, Alloc(c, s)
  PROVE  UnusedHasNoId' /\ UniqueIds'
<1> DEFINE new == FreshId(subscriptions)
           top == GreatestId(subscriptions)
<1>1. /\ subscriptions'[s].id = new
      /\ subscriptions'[s].used = req[c].used
      /\ \A r \in Slots \ {s} : subscriptions'[r] = subscriptions[r]
      /\ wrapped' = (wrapped \/ top = MaxId)
  BY DEF Alloc, Occupied, TypeOK, TableTypeOK
<1>2. new \in Ids /\ new # 0 /\ req[c].used # "UNUSED"
  BY FreshIdType DEF TypeOK, TableTypeOK, Alloc, IdInv, CreationsHaveKind
<1>3. top \in Ids /\ \A r \in Slots : subscriptions[r].id \in Ids /\ subscriptions[r].id <= top
  BY GreatestIdExists DEF TypeOK, TableTypeOK, Subscription
<1>4. top # MaxId => new = top + 1
  BY DEF FreshId
<1> HIDE DEF new, top
<1>5. top # MaxId => \A r \in Slots : subscriptions[r].id # new
  BY <1>3, <1>4, TableAssumption DEF Ids
<1>6. UnusedHasNoId'
  BY <1>1, <1>2 DEF IdInv, UnusedHasNoId
<1>7. UniqueIds'
  <2> SUFFICES ASSUME ~wrapped', NEW p \in Used(subscriptions)', NEW q \in Used(subscriptions)',
                      subscriptions'[p].id = subscriptions'[q].id
               PROVE  p = q
    BY DEF UniqueIds
  <2>1. ~wrapped /\ top # MaxId
    BY <1>1
  <2>2. p \in Slots /\ q \in Slots
    BY DEF Used
  <2>3. \A r \in {p, q} : r # s => r \in Used(subscriptions)
    BY <1>1, <2>2 DEF Used
  <2> QED
    BY <1>1, <1>5, <2>1, <2>2, <2>3 DEF IdInv, UniqueIds
<1> QED
  BY <1>6, <1>7

\* The ways in which a step changes the handlers' records.
LEMMA KindUnchanged == CreationsHaveKind /\ UNCHANGED req => CreationsHaveKind'
BY DEF CreationsHaveKind

LEMMA KindReplaced ==
  ASSUME CreationsHaveKind, RequestTypeOK, NEW c \in Clients, NEW r,
         req' = [req EXCEPT ![c] = r], r.step = "alloc" => r.used # "UNUSED"
  PROVE  CreationsHaveKind'
BY DEF CreationsHaveKind, RequestTypeOK

LEMMA KindDisowned ==
  ASSUME CreationsHaveKind, RequestTypeOK, NEW S, req' = Disowned(S)
  PROVE  CreationsHaveKind'
<1>1. \A c \in Clients : req'[c].step = req[c].step /\ req'[c].used = req[c].used
  BY DEF RequestTypeOK, Disowned, Request
<1> QED
  BY <1>1 DEF CreationsHaveKind

LEMMA ClientRequestIdInv ==
  ASSUME TypeOK, IdInv, NEW c \in Clients, ClientRequest(c)
  PROVE  IdInv'
<1>0. CreationsHaveKind /\ RequestTypeOK
  BY DEF IdInv, TypeOK
<1>1. ASSUME NEW used \in {"PULL", "PUSH"}, NEW x \in Expiries, NEW f \in Filters,
             CreateRequest(c, used, x, f)
      PROVE  IdInv'
  <2> DEFINE r == [Idle EXCEPT !.step = "alloc", !.used = used, !.expire = x, !.filter = f]
  <2>1. r.used # "UNUSED"
    BY DEF Idle
  <2>2. req' = [req EXCEPT ![c] = r] /\ UNCHANGED <<subscriptions, wrapped>>
    BY <1>1 DEF CreateRequest, shm, Receive
  <2> HIDE DEF r
  <2>3. CreationsHaveKind'
    BY <1>0, <2>1, <2>2, KindReplaced
  <2> QED
    BY <2>2, <2>3, SameIdsSafe DEF IdInv, SameIds
<1>2. ASSUME NEW id \in Ids \ {0}, NEW t \in Timeouts, NEW l \in Limits,
             PullRequest(c, id, t, l)
      PROVE  IdInv'
  <2> DEFINE r == [Idle EXCEPT !.step = "find", !.sub_id = id, !.timeout = t, !.limit = l]
  <2>1. r.step # "alloc"
    BY DEF Idle
  <2>2. req' = [req EXCEPT ![c] = r] /\ UNCHANGED <<subscriptions, wrapped>>
    BY <1>2 DEF PullRequest, shm, Receive
  <2> HIDE DEF r
  <2>3. CreationsHaveKind'
    BY <1>0, <2>1, <2>2, KindReplaced
  <2> QED
    BY <2>2, <2>3, SameIdsSafe DEF IdInv, SameIds
<1>3. ASSUME NEW id \in Ids \ {0}, NEW x \in Expiries, RenewRequest(c, id, x)
      PROVE  IdInv'
  <2> DEFINE r == [Idle EXCEPT !.step = "renew", !.sub_id = id, !.expire = x]
  <2>1. r.step # "alloc"
    BY DEF Idle
  <2>2. req' = [req EXCEPT ![c] = r] /\ UNCHANGED <<subscriptions, wrapped>>
    BY <1>3 DEF RenewRequest, shm, Receive
  <2> HIDE DEF r
  <2>3. CreationsHaveKind'
    BY <1>0, <2>1, <2>2, KindReplaced
  <2> QED
    BY <2>2, <2>3, SameIdsSafe DEF IdInv, SameIds
<1>4. ASSUME NEW id \in Ids \ {0}, NEW s \in Slots, Unsubscribe(c, id, s)
      PROVE  IdInv'
  <2>1. Clears({s}) /\ wrapped' = wrapped
    BY <1>4 DEF Unsubscribe, Clears, Receive, TypeOK, TableTypeOK
  <2>2. CreationsHaveKind'
    BY <1>0, <1>4, KindDisowned DEF Unsubscribe
  <2> QED
    BY <2>1, <2>2, ClearsSafe DEF IdInv
<1>5. ASSUME NEW id \in Ids \ {0}, NEW s \in Slots, SetSynchronizationPoint(c, id, s)
      PROVE  IdInv'
  <2>1. SameIds /\ wrapped' = wrapped
    BY <1>5 DEF SetSynchronizationPoint, SameIds, Receive, TypeOK, TableTypeOK, Subscription
  <2>2. CreationsHaveKind'
    BY <1>0, <1>5, KindUnchanged DEF SetSynchronizationPoint
  <2> QED
    BY <2>1, <2>2, SameIdsSafe DEF IdInv
<1> QED
  BY <1>1, <1>2, <1>3, <1>4, <1>5 DEF ClientRequest

\* No step of a handler but the creation's first changes an id, kind or filter.
LEMMA OtherClientStepShape ==
  ASSUME TypeOK, NEW c \in Clients,
         \/ \E s \in Slots : PullFind(c, s) \/ Renew(c, s)
         \/ AllocFull(c) \/ MarkPull(c) \/ MarkPush(c)
         \/ PullFault(c) \/ PullWake(c) \/ PullRestore(c) \/ PullEmit(c)
         \/ RenewFault(c)
  PROVE  SameIds /\ wrapped' = wrapped
<1>1. \A s \in Slots : subscriptions[s] \in Subscription
  BY DEF TypeOK, TableTypeOK
<1>2. ASSUME NEW i, NEW x, subscriptions' = [subscriptions EXCEPT ![i].expire = x]
      PROVE  SameIds
  BY <1>1, <1>2 DEF SameIds, TypeOK, TableTypeOK, Subscription
<1>3. ASSUME \E s \in Slots : PullFind(c, s) \/ Renew(c, s) PROVE SameIds
  BY <1>2, <1>3, Zenon DEF PullFind, Renew
<1>4. ASSUME PullRestore(c) PROVE SameIds
  BY <1>2, <1>4, Zenon DEF PullRestore
<1>5. ASSUME MarkPush(c) PROVE SameIds
  BY <1>1, <1>5 DEF SameIds, MarkPush, TypeOK, TableTypeOK, Subscription
<1>6. ASSUME \/ AllocFull(c) \/ MarkPull(c) \/ PullFault(c) \/ PullWake(c)
             \/ PullEmit(c) \/ RenewFault(c)
      PROVE  SameIds
  BY <1>6 DEF SameIds, AllocFull, MarkPull, PullFault, PullWake, PullEmit, RenewFault, shm
<1>7. wrapped' = wrapped
  BY DEF PullFind, Renew, AllocFull, MarkPull, MarkPush, PullFault,
         PullWake, PullRestore, PullEmit, RenewFault, bkp
<1>8. SameIds
  BY <1>3, <1>4, <1>5, <1>6
<1> QED
  BY <1>7, <1>8

LEMMA ClientStepIdInv ==
  ASSUME TypeOK, IdInv, NEW c \in Clients, ClientStep(c)
  PROVE  IdInv'
<1>0. CreationsHaveKind /\ RequestTypeOK /\ req[c] \in Request /\ Idle.step # "alloc"
  BY DEF IdInv, TypeOK, RequestTypeOK, Idle
<1>1. ASSUME NEW s \in Slots, Alloc(c, s) PROVE IdInv'
  <2> DEFINE r == [Idle EXCEPT !.step = "mark", !.used = req[c].used,
                               !.sub_index = s, !.mine = TRUE]
  <2>1. r.step # "alloc"
    BY DEF Idle
  <2>2. req' = [req EXCEPT ![c] = r]
    BY <1>1 DEF Alloc
  <2> HIDE DEF r
  <2>3. CreationsHaveKind'
    BY <1>0, <2>1, <2>2, KindReplaced
  <2> QED
    BY <1>1, <2>3, AllocSafe DEF IdInv
<1>2. \A s \in Slots : subscriptions[s] \in Subscription
  BY DEF TypeOK, TableTypeOK
<1>3. /\ \/ \E s \in Slots : PullFind(c, s) \/ Renew(c, s)
         \/ AllocFull(c) \/ MarkPull(c) \/ MarkPush(c)
         \/ PullFault(c) \/ PullWake(c) \/ PullRestore(c) \/ PullEmit(c)
         \/ RenewFault(c)
      => IdInv'
  <2> SUFFICES ASSUME \/ \E s \in Slots : PullFind(c, s) \/ Renew(c, s)
                      \/ AllocFull(c) \/ MarkPull(c) \/ MarkPush(c)
                      \/ PullFault(c) \/ PullWake(c) \/ PullRestore(c) \/ PullEmit(c)
                      \/ RenewFault(c)
               PROVE  IdInv'
    OBVIOUS
  <2>1. SameIds /\ wrapped' = wrapped
    BY OtherClientStepShape
  <2>3. PICK r : req' = [req EXCEPT ![c] = r] /\ r.step # "alloc"
    <3>1. CASE \E s \in Slots : PullFind(c, s)
      <4>1. PICK s \in Slots : PullFind(c, s)
        BY <3>1
      <4> DEFINE r == [req[c] EXCEPT !.step = "wait", !.sub_index = s, !.mine = TRUE,
                                     !.expire = subscriptions[s].expire,
                                     !.deadline = now + req[c].timeout]
      <4>2. r.step # "alloc"
        BY <1>0 DEF Request
      <4>3. req' = [req EXCEPT ![c] = r]
        BY <4>1 DEF PullFind, TypeOK, RequestTypeOK
      <4> HIDE DEF r
      <4> QED
        BY <4>2, <4>3
    <3>2. CASE PullWake(c)
      <4> DEFINE r == [req[c] EXCEPT !.step = "restore", !.at = now]
      <4>1. r.step # "alloc" /\ req' = [req EXCEPT ![c] = r]
        BY <1>0, <3>2 DEF PullWake, Request, RequestTypeOK
      <4> HIDE DEF r
      <4> QED
        BY <4>1
    <3>3. CASE PullRestore(c)
      <4> DEFINE r == [req[c] EXCEPT !.step = "emit"]
      <4>1. r.step # "alloc" /\ req' = [req EXCEPT ![c] = r]
        BY <1>0, <3>3 DEF PullRestore, Request, RequestTypeOK
      <4> HIDE DEF r
      <4> QED
        BY <4>1
    <3>4. CASE \/ \E s \in Slots : Renew(c, s)
               \/ AllocFull(c) \/ MarkPull(c) \/ MarkPush(c)
               \/ PullFault(c) \/ PullEmit(c) \/ RenewFault(c)
      <4>1. req' = [req EXCEPT ![c] = Idle]
        BY <3>4 DEF Renew, AllocFull, MarkPull, MarkPush, PullFault, PullEmit, RenewFault
      <4> QED
        BY <1>0, <4>1
    <3> QED
      BY <3>1, <3>2, <3>3, <3>4
  <2>4. CreationsHaveKind'
    BY <1>0, <2>3, KindReplaced
  <2> QED
    BY <2>1, <2>4, SameIdsSafe DEF IdInv
<1> QED
  BY <1>1, <1>3 DEF ClientStep

LEMMA DaemonStepIdInv ==
  ASSUME TypeOK, IdInv, DaemonStep
  PROVE  IdInv'
<1>0. CreationsHaveKind /\ RequestTypeOK
  BY DEF IdInv, TypeOK
<1>1. CASE CleanStep
  <2>1. Clears(Reapable(subscriptions, now)) /\ wrapped' = wrapped
    BY <1>1 DEF CleanStep, Clears, Reaped, bkp
  <2>2. CreationsHaveKind'
    BY <1>0, <1>1, KindDisowned DEF CleanStep
  <2> QED
    BY <2>1, <2>2, ClearsSafe DEF IdInv
<1>2. CASE SyncStep
  <2>1. SameIds /\ wrapped' = wrapped /\ UNCHANGED req
    BY <1>2 DEF SyncStep, SameIds, bkp, TypeOK, TableTypeOK, Subscription
  <2> QED
    BY <1>0, <2>1, KindUnchanged, SameIdsSafe DEF IdInv
<1>3. CASE InotifyRead \/ Record \/ \E e \in Events : PollRead(e)
  <2>1. UNCHANGED <<subscriptions, req, wrapped>>
    BY <1>3 DEF InotifyRead, PollRead, Record, shm, bkp
  <2> QED
    BY <1>0, <2>1, KindUnchanged, SameIdsSafe DEF IdInv, SameIds
<1> QED
  BY <1>1, <1>2, <1>3 DEF DaemonStep

LEMMA StepIdInv ==
  ASSUME TypeOK, IdInv, [Next]_vars
  PROVE  IdInv'
<1>1. CASE Tick \/ MotionStep \/ UNCHANGED vars
  <2>1. UNCHANGED <<subscriptions, req, wrapped>>
    BY <1>1 DEF Tick, MotionStep, FileCreated, FileDeleted, FileModified, vars, shm, bkp
  <2> QED
    BY <2>1, KindUnchanged, SameIdsSafe DEF IdInv, SameIds
<1> QED
  BY <1>1, ClientRequestIdInv, ClientStepIdInv, DaemonStepIdInv DEF Next

LEMMA IdInvHolds == Spec => []IdInv
<1>1. TypeOK /\ IdInv /\ [Next]_vars => IdInv'
  BY StepIdInv
<1> QED
  BY <1>1, InitIdInv, TypeCorrect, PTL DEF Spec

\* Under every interleaving of the handlers and the clean-up, an unused slot
\* has id 0 and a used one has not: the writes that handlers make through an
\* index they kept never turn a cleared slot into half a subscription.
THEOREM UnusedHaveNoId == Spec => []UnusedHasNoId
<1>1. IdInv => UnusedHasNoId
  BY DEF IdInv
<1> QED
  BY <1>1, IdInvHolds, PTL

\* The id that a creation computes from the table is that of no other
\* subscription, for every size of the table, unless ids have wrapped.
THEOREM IdsAreUnique == Spec => []UniqueIds
<1>1. IdInv => UniqueIds
  BY DEF IdInv
<1> QED
  BY <1>1, IdInvHolds, PTL

-----------------------------------------------------------------------------
(* The table implements the abstract manager. *)

\* Every step keeps what clients know of the slots, clears slots, or creates.
LEMMA QuietStepShape ==
  ASSUME Tick \/ MotionStep \/ UNCHANGED vars
  PROVE  SameIds /\ wrapped' = wrapped
BY DEF Tick, MotionStep, FileCreated, FileDeleted, FileModified, vars, shm, bkp, SameIds

LEMMA ClientRequestShape ==
  ASSUME TypeOK, NEW c \in Clients, ClientRequest(c)
  PROVE  /\ SameIds \/ \E S : Clears(S)
         /\ wrapped' = wrapped
<1>1. wrapped' = wrapped
  BY DEF ClientRequest, CreateRequest, PullRequest, RenewRequest, Unsubscribe,
         SetSynchronizationPoint, Receive
<1>2. ASSUME NEW id \in Ids \ {0}, NEW s \in Slots, Unsubscribe(c, id, s)
      PROVE  Clears({s})
  BY <1>2 DEF Unsubscribe, Clears, TypeOK, TableTypeOK
<1>3. ASSUME NEW id \in Ids \ {0}, NEW s \in Slots, SetSynchronizationPoint(c, id, s)
      PROVE  SameIds
  BY <1>3 DEF SetSynchronizationPoint, SameIds, TypeOK, TableTypeOK, Subscription
<1>4. ASSUME \/ \E used \in {"PULL", "PUSH"}, x \in Expiries, f \in Filters :
                  CreateRequest(c, used, x, f)
             \/ \E id \in Ids \ {0}, t \in Timeouts, l \in Limits : PullRequest(c, id, t, l)
             \/ \E id \in Ids \ {0}, x \in Expiries : RenewRequest(c, id, x)
      PROVE  SameIds
  BY <1>4 DEF CreateRequest, PullRequest, RenewRequest, SameIds, shm
<1> QED
  BY <1>1, <1>2, <1>3, <1>4, Zenon DEF ClientRequest

LEMMA CleanStepShape ==
  ASSUME CleanStep
  PROVE  Clears(Reapable(subscriptions, now)) /\ wrapped' = wrapped
BY DEF CleanStep, Clears, Reaped, bkp

LEMMA OtherDaemonStepShape ==
  ASSUME TypeOK, SyncStep \/ InotifyRead \/ Record \/ \E e \in Events : PollRead(e)
  PROVE  SameIds /\ wrapped' = wrapped
<1>1. CASE SyncStep
  BY <1>1 DEF SyncStep, SameIds, bkp, TypeOK, TableTypeOK, Subscription
<1>2. CASE InotifyRead \/ Record \/ \E e \in Events : PollRead(e)
  BY <1>2 DEF InotifyRead, PollRead, Record, shm, bkp, SameIds
<1> QED
  BY <1>1, <1>2

LEMMA StepShape ==
  ASSUME TypeOK, [Next]_vars
  PROVE  \/ SameIds /\ wrapped' = wrapped
         \/ (\E S : Clears(S)) /\ wrapped' = wrapped
         \/ \E c \in Clients, s \in Slots : Alloc(c, s)
<1>1. CASE Tick \/ MotionStep \/ UNCHANGED vars
  BY <1>1, QuietStepShape
<1>2. ASSUME NEW c \in Clients, ClientStep(c)
      PROVE  \/ SameIds /\ wrapped' = wrapped
             \/ \E s \in Slots : Alloc(c, s)
  BY <1>2, OtherClientStepShape DEF ClientStep
<1>3. CASE \E c \in Clients : ClientRequest(c)
  BY <1>3, ClientRequestShape
<1>4. CASE DaemonStep
  BY <1>4, CleanStepShape, OtherDaemonStepShape DEF DaemonStep
<1> QED
  BY <1>1, <1>2, <1>3, <1>4 DEF Next

\* What each of the three does to the set of subscriptions.
LEMMA SameReferable ==
  ASSUME SameIds
  PROVE  Referable' = Referable
BY DEF SameIds, Referable, Reference, Used

LEMMA ClearedReferable ==
  ASSUME NEW S, Clears(S)
  PROVE  Referable' \subseteq Referable
<1>1. Blank.used = "UNUSED"
  BY DEF Blank
<1>2. \A s \in Used(subscriptions)' : s \in Used(subscriptions) /\ subscriptions'[s] = subscriptions[s]
  BY <1>1 DEF Used, Clears
<1> QED
  BY <1>2 DEF Referable, Reference

\* A table with a free slot has room.
LEMMA RoomLeft ==
  ASSUME NEW s \in Slots, subscriptions[s].used = "UNUSED"
  PROVE  Cardinality(Referable) < MaxSubs
<1>1. IsFiniteSet(Slots) /\ Cardinality(Slots) = MaxSubs
  <2>1. 0 \in Int /\ MaxSubs - 1 \in Int /\ ~(0 > MaxSubs - 1) /\ MaxSubs - 1 - 0 + 1 = MaxSubs
    BY TableAssumption
  <2> QED
    BY <2>1, FS_Interval DEF Slots
<1>2. IsFiniteSet(Slots \ {s}) /\ Cardinality(Slots \ {s}) = MaxSubs - 1
  BY <1>1, FS_RemoveElement
<1>3. Used(subscriptions) \in SUBSET (Slots \ {s})
  BY DEF Used
<1>4. /\ IsFiniteSet(Used(subscriptions))
      /\ Cardinality(Used(subscriptions)) <= MaxSubs - 1
  BY <1>2, <1>3, FS_Subset
<1> DEFINE f == [r \in Used(subscriptions) |-> Reference(r)]
<1>5. f \in Surjection(Used(subscriptions), Referable)
  BY DEF Surjection, Referable
<1>6. /\ IsFiniteSet(Referable)
      /\ Cardinality(Referable) <= Cardinality(Used(subscriptions))
  BY <1>4, <1>5, FS_Surjection
<1>7. Cardinality(Referable) \in Nat /\ Cardinality(Used(subscriptions)) \in Nat
  BY <1>4, <1>6, FS_CardinalityType
<1> QED
  BY <1>4, <1>6, <1>7, TableAssumption

LEMMA AllocImplementsGrant ==
  ASSUME TypeOK, IdInv, NEW c \in Clients, NEW s \in Slots, Alloc(c, s)
  PROVE  \E r \in Manager!Live : Manager!Grant(r) \/ Manager!GrantAgain(r)
<1> DEFINE new == FreshId(subscriptions)
           top == GreatestId(subscriptions)
           r == [used |-> req[c].used, topic_expression |-> req[c].filter, id |-> new]
<1>1. /\ subscriptions[s].used = "UNUSED"
      /\ subscriptions'[s].id = new
      /\ subscriptions'[s].used = req[c].used
      /\ subscriptions'[s].topic_expression = req[c].filter
      /\ \A q \in Slots \ {s} : subscriptions'[q] = subscriptions[q]
      /\ wrapped' = (wrapped \/ top = MaxId)
  BY DEF Alloc, FreeSlot, First, Occupied, TypeOK, TableTypeOK
<1>2. new \in Ids \ {0} /\ req[c].used \in {"PULL", "PUSH"} /\ req[c].filter \in Filters
  BY FreshIdType DEF TypeOK, TableTypeOK, Alloc, IdInv, CreationsHaveKind,
                     RequestTypeOK, Request, Kinds
<1>3. top \in Ids /\ \A q \in Slots : subscriptions[q].id \in Ids /\ subscriptions[q].id <= top
  BY GreatestIdExists DEF TypeOK, TableTypeOK, Subscription
<1>4. top # MaxId => new = top + 1
  BY DEF FreshId
<1> HIDE DEF new, top
<1>5. top # MaxId => \A q \in Slots : subscriptions[q].id # new
  BY <1>3, <1>4, TableAssumption DEF Ids
<1>6. r \in Manager!Live
  BY <1>2 DEF Manager!Live
<1>7. Referable' = Referable \cup {r}
  <2>1. Used(subscriptions)' = Used(subscriptions) \cup {s}
    BY <1>1, <1>2 DEF Used
  <2>2. Reference(s)' = r
    BY <1>1 DEF Reference
  <2>3. \A q \in Used(subscriptions) : Reference(q)' = Reference(q)
    BY <1>1 DEF Reference, Used
  <2> HIDE DEF r
  <2> QED
    BY <2>1, <2>2, <2>3 DEF Referable
<1>8. CASE top = MaxId
  BY <1>1, <1>6, <1>7, <1>8 DEF Manager!GrantAgain
<1>9. CASE top # MaxId
  <2>1. \A q \in Referable : q.id # r.id
    BY <1>5, <1>9 DEF Referable, Reference, Used
  <2>2. Manager!Cardinality(Referable) < MaxSubs
    <3>1. Manager!Cardinality(Referable) = Cardinality(Referable)
      BY DEF Cardinality, Manager!Cardinality
    <3> QED
      BY <1>1, <3>1, RoomLeft
  <2>3. wrapped' = wrapped
    BY <1>1, <1>9 DEF TypeOK
  <2> HIDE DEF r
  <2> QED
    BY <1>6, <1>7, <2>1, <2>2, <2>3 DEF Manager!Grant
<1> QED
  BY <1>8, <1>9

LEMMA StepImplements ==
  ASSUME TypeOK, IdInv, [Next]_vars
  PROVE  [Manager!Next]_<<Referable, wrapped>>
<1>1. CASE SameIds /\ wrapped' = wrapped
  BY <1>1, SameReferable
<1>2. ASSUME NEW S, Clears(S), wrapped' = wrapped
      PROVE  Manager!Next
  <2> DEFINE E == Referable \ Referable'
  <2>1. Referable' = Referable \ E /\ E \in SUBSET Referable
    BY <1>2, ClearedReferable
  <2>2. Manager!End(E)
    BY <1>2, <2>1 DEF Manager!End
  <2> QED
    BY <2>1, <2>2 DEF Manager!Next
<1>3. ASSUME NEW c \in Clients, NEW s \in Slots, Alloc(c, s)
      PROVE  Manager!Next
  BY <1>3, AllocImplementsGrant DEF Manager!Next
<1> QED
  BY <1>1, <1>2, <1>3, StepShape

\* The shared table, under every interleaving of the handlers' sections and the
\* daemon, is to its clients the abstract manager: a subscription is granted once
\* under an id no live one has, and keeps its id, kind and filter until it ends.
THEOREM TableImplementsManager == Spec => KeepsSubscriptionsApart
<1>1. Init => Manager!Init
  BY DEF Init, Manager!Init, Referable, Used, Blank
<1>2. TypeOK /\ IdInv /\ [Next]_vars => [Manager!Next]_<<Referable, wrapped>>
  BY StepImplements
<1> QED
  BY <1>1, <1>2, TypeCorrect, IdInvHolds, PTL DEF Spec, KeepsSubscriptionsApart, Manager!Spec
=============================================================================
