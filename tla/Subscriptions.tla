---------------------------- MODULE Subscriptions ----------------------------
(***************************************************************************)
(* The events subsystem: the CGI handlers of events_service.c and the two  *)
(* threads of onvif_notify_server.c over the shared table.                 *)
(*                                                                         *)
(* One step is one critical section, from sem_memory_wait to the matching  *)
(* sem_memory_post, together with the code up to the next wait.  A handler *)
(* that takes the semaphore several times is several steps, and what it    *)
(* keeps in its own variables between them (the slot it found, the expiry  *)
(* it saved) is in its record req[c].  That the sections exclude each      *)
(* other is what the comments of the code take for granted; module ShmLock *)
(* says when they do.                                                      *)
(***************************************************************************)
EXTENDS SubTable, Sequences, FiniteSets

CONSTANTS
  Clients,      \* the CGI processes that may run at the same time
  Ttls,         \* relative termination times ("PT..."), in seconds
  Dates,        \* absolute termination times; 0 is one that does not parse
  Timeouts,     \* PullMessages timeouts, in seconds
  Limits,       \* PullMessages message limits
  Margin,       \* the 10 seconds PullMessages adds while it waits
  MinGap,       \* events_min_interval_ms, in whole seconds; 0 disables it
  Inotify,      \* what the kernel may have: FALSE makes the daemon poll the files
  FilesAtStart, \* the input files that exist when the daemon starts
  Start,        \* the time at which the daemon starts
  MaxTime,      \* bound on the clock
  MaxQueue,     \* bound on the unread inotify events
  Methods,      \* the requests that clients send
  MaxRequests   \* bound on the number of requests

ASSUME CoreAssumption ==
  /\ Ttls \subseteq Int
  /\ Dates \subseteq Int
  /\ Timeouts \subseteq Int
  /\ Limits \subseteq Int
  /\ Margin \in Nat
  /\ MinGap \in Nat
  /\ Inotify \subseteq BOOLEAN
  /\ FilesAtStart \subseteq Events
  /\ Start \in Nat /\ MaxTime \in Nat /\ MaxQueue \in Nat /\ MaxRequests \in Nat
  /\ Methods \subseteq {"CreatePullPoint", "Subscribe", "PullMessages", "Renew",
                        "Unsubscribe", "SetSynchronizationPoint"}

VARIABLES
  now,                    \* time(NULL)
  subscriptions,          \* shm_t.subscriptions
  is_on,                  \* events[i].is_on
  pull_send_initialized,  \* events[i].pull_send_initialized, as a set of slots
  pull_notify,            \* events[i].pull_notify, as a set of slots
  last_emit_time,         \* last_emit_time[i] of the daemon
  files,                  \* the events whose input file exists
  inotify,                \* inotify_init1 has given main a descriptor
  queue,                  \* inotify events that the daemon has not read
  change,                 \* the change that the main loop is about to record
  sync_i,                 \* the loop index of sync_events_thread
  req,                    \* the local variables of each CGI process
  requests,               \* the number of requests so far, up to MaxRequests
  wrapped                 \* history: an id was given while MaxId was in use

shm  == <<subscriptions, is_on, pull_send_initialized, pull_notify>>
env  == <<now, files, inotify>>
dmn  == <<last_emit_time, queue, change, sync_i>>
bkp  == <<requests, wrapped>>
vars == <<shm, env, dmn, req, bkp>>

Steps == {"idle", "alloc", "mark", "find", "wait", "restore", "emit", "renew"}

InotifyEvent == [event : Events, mask : {"CREATE", "DELETE", "MODIFY"}]

\* what the main loop knows of a change when it waits for the semaphore: the
\* variables now and value of handle_inotify_events, now and acc of main
Change == [event : Events, mask : {"NONE", "CREATE", "DELETE", "MODIFY"},
           exists : BOOLEAN, at : Nat]

NoChange == [at |-> 0, event |-> 0, exists |-> FALSE, mask |-> "NONE"]

\* mine is history: the slot still holds the subscription the handler found
Request == [step : Steps, used : Kinds, sub_id : Ids, sub_index : Slots,
            expire : Int, filter : Filters, timeout : Int, limit : Int,
            deadline : Int, at : Nat, mine : BOOLEAN]

Idle == [used |-> "UNUSED", at |-> 0, sub_index |-> 0, mine |-> FALSE,
         step |-> "idle", sub_id |-> 0, expire |-> 0, filter |-> AnyTopic,
         timeout |-> 0, limit |-> 0, deadline |-> 0]

TableTypeOK == subscriptions \in [Slots -> Subscription]

EventTypeOK == /\ is_on \in [Events -> BOOLEAN]
               /\ pull_send_initialized \in [Events -> SUBSET Slots]
               /\ pull_notify \in [Events -> SUBSET Slots]

EnvTypeOK == /\ now \in Nat
             /\ files \subseteq Events
             /\ inotify \in BOOLEAN

DaemonTypeOK == /\ last_emit_time \in [Events -> Nat]
                /\ queue \in Seq(InotifyEvent)
                /\ change \in Change
                /\ sync_i \in 0 .. MaxSubs

RequestTypeOK == req \in [Clients -> Request]

TypeOK == /\ TableTypeOK /\ EventTypeOK /\ EnvTypeOK
          /\ DaemonTypeOK /\ RequestTypeOK
          /\ requests \in Nat /\ wrapped \in BOOLEAN

\* the daemon has cleared the shared memory and is about to start its threads
Init ==
  /\ now = Start
  /\ subscriptions = [s \in Slots |-> Blank]
  /\ is_on = [e \in Events |-> FALSE]
  /\ pull_send_initialized = [e \in Events |-> {}]
  /\ pull_notify = [e \in Events |-> {}]
  /\ last_emit_time = [e \in Events |-> 0]
  /\ files = FilesAtStart
  /\ inotify \in Inotify
  /\ queue = << >>
  /\ change = NoChange
  /\ sync_i = 0
  /\ req = [c \in Clients |-> Idle]
  /\ requests = 0
  /\ wrapped = FALSE

-----------------------------------------------------------------------------
(* The environment: time, and the motion pipeline under /run/motion. *)

\* MaxTime bounds the clock, which runs past it only for a pull that waits
Tick == /\ \/ now < MaxTime
           \/ \E c \in Clients : req[c].step = "wait" /\ now <= req[c].deadline
        /\ now' = now + 1
        /\ UNCHANGED <<shm, files, inotify, dmn, req, bkp>>

\* IN_CREATE, IN_DELETE and IN_MODIFY are what the daemon watches
Report(e, mask) ==
  IF inotify THEN /\ Len(queue) < MaxQueue
                  /\ queue' = Append(queue, [event |-> e, mask |-> mask])
             ELSE UNCHANGED queue

FileCreated(e) == /\ e \notin files
                  /\ files' = files \cup {e}
                  /\ Report(e, "CREATE")
                  /\ UNCHANGED <<now, inotify, shm, last_emit_time, change, sync_i,
                                 req, bkp>>

FileDeleted(e) == /\ e \in files
                  /\ files' = files \ {e}
                  /\ Report(e, "DELETE")
                  /\ UNCHANGED <<now, inotify, shm, last_emit_time, change, sync_i,
                                 req, bkp>>

FileModified(e) == /\ inotify
                   /\ e \in files
                   /\ Report(e, "MODIFY")
                   /\ UNCHANGED <<now, inotify, shm, files, last_emit_time, change,
                                  sync_i, req, bkp>>

-----------------------------------------------------------------------------
(* CreatePullPointSubscription and Subscribe. *)

\* the next request, of a method clients use; MaxRequests bounds their number
Receive(c, method) == /\ method \in Methods
                      /\ req[c].step = "idle"
                      /\ requests < MaxRequests
                      /\ requests' = requests + 1
                      /\ UNCHANGED wrapped

\* what InitialTerminationTime, or TerminationTime, may come to
Expiries == {now + d : d \in Ttls} \cup Dates

CreateRequest(c, used, expire, filter) ==
  /\ Receive(c, IF used = "PULL" THEN "CreatePullPoint" ELSE "Subscribe")
  /\ req' = [req EXCEPT ![c] = [Idle EXCEPT !.step = "alloc", !.used = used,
                                            !.expire = expire, !.filter = filter]]
  /\ UNCHANGED <<shm, env, dmn>>

\* the first section: give the first unused slot the next id
Alloc(c, s) ==
  /\ req[c].step = "alloc"
  /\ s \in FreeSlot(subscriptions)
  /\ subscriptions' = Occupied(subscriptions, s, FreshId(subscriptions), req[c].used,
                               req[c].expire, req[c].filter)
  /\ req' = [req EXCEPT ![c] = [Idle EXCEPT !.step = "mark", !.used = req[c].used,
                                            !.sub_index = s, !.mine = TRUE]]
  /\ wrapped' = (wrapped \/ GreatestId(subscriptions) = MaxId)
  /\ UNCHANGED <<is_on, pull_send_initialized, pull_notify, env, dmn, requests>>

\* every slot is taken: a fault, after a section that only logs the table
AllocFull(c) ==
  /\ req[c].step = "alloc"
  /\ FreeSlot(subscriptions) = {}
  /\ req' = [req EXCEPT ![c] = Idle]
  /\ UNCHANGED <<shm, env, dmn, bkp>>

\* mutant: the filter is not looked at
MarkedAll(bits, s) == [e \in Events |-> bits[e] \cup {s}]

Marked(bits, s) ==
  [e \in Events |-> IF e \in Selects[subscriptions[s].topic_expression]
                    THEN bits[e] \cup {s} ELSE bits[e]]

\* the second section of CreatePullPointSubscription, on the slot index kept
MarkPull(c) ==
  /\ req[c].step = "mark" /\ req[c].used = "PULL"
  /\ pull_send_initialized' = Marked(pull_send_initialized, req[c].sub_index)
  /\ pull_notify' = Marked(pull_notify, req[c].sub_index)
  /\ req' = [req EXCEPT ![c] = Idle]
  /\ UNCHANGED <<subscriptions, is_on, env, dmn, bkp>>

\* mutant: the second section writes the kind again
MarkPushAgain(c) ==
  /\ req[c].step = "mark" /\ req[c].used = "PUSH"
  /\ subscriptions' = [subscriptions EXCEPT ![req[c].sub_index].push_need_sync = TRUE,
                                            ![req[c].sub_index].used = "PUSH"]
  /\ req' = [req EXCEPT ![c] = Idle]
  /\ UNCHANGED <<is_on, pull_send_initialized, pull_notify, env, dmn, bkp>>

\* the second section of Subscribe
MarkPush(c) ==
  /\ req[c].step = "mark" /\ req[c].used = "PUSH"
  /\ subscriptions' = [subscriptions EXCEPT ![req[c].sub_index].push_need_sync = TRUE]
  /\ req' = [req EXCEPT ![c] = Idle]
  /\ UNCHANGED <<is_on, pull_send_initialized, pull_notify, env, dmn, bkp>>

-----------------------------------------------------------------------------
(* PullMessages. *)

PullRequest(c, id, timeout, limit) ==
  /\ Receive(c, "PullMessages")
  /\ req' = [req EXCEPT ![c] = [Idle EXCEPT !.step = "find", !.sub_id = id,
                                            !.timeout = timeout, !.limit = limit]]
  /\ UNCHANGED <<shm, env, dmn>>

\* mutant: the expiry is moved to the timeout and no further
PullFindNoMargin(c, s) ==
  /\ req[c].step = "find"
  /\ s \in Holding(subscriptions, req[c].sub_id)
  /\ subscriptions[s].used = "PULL"
  /\ req' = [req EXCEPT ![c].step = "wait", ![c].sub_index = s,
                        ![c].mine = TRUE, ![c].expire = subscriptions[s].expire,
                        ![c].deadline = now + req[c].timeout]
  /\ subscriptions' = [subscriptions EXCEPT ![s].expire = now + req[c].timeout]
  /\ UNCHANGED <<is_on, pull_send_initialized, pull_notify, env, dmn, bkp>>

\* the subscription exists and is a pull point: move its expiry out of the way
PullFind(c, s) ==
  /\ req[c].step = "find"
  /\ s \in Holding(subscriptions, req[c].sub_id)
  /\ subscriptions[s].used = "PULL"
  /\ req' = [req EXCEPT ![c].step = "wait", ![c].sub_index = s,
                        ![c].mine = TRUE, ![c].expire = subscriptions[s].expire,
                        ![c].deadline = now + req[c].timeout]
  /\ subscriptions' =
       [subscriptions EXCEPT ![s].expire = now + req[c].timeout + Margin]
  /\ UNCHANGED <<is_on, pull_send_initialized, pull_notify, env, dmn, bkp>>

\* not found, or not a pull point: a fault
PullFault(c) ==
  /\ req[c].step = "find"
  /\ \A s \in Holding(subscriptions, req[c].sub_id) : subscriptions[s].used # "PULL"
  /\ req' = [req EXCEPT ![c] = Idle]
  /\ UNCHANGED <<shm, env, dmn, bkp>>

\* mutant: only a message ends the loop
PullWakeNoTimeout(c) ==
  /\ req[c].step = "wait"
  /\ \E e \in Events : req[c].sub_index \in pull_notify[e]
  /\ req' = [req EXCEPT ![c].step = "restore", ![c].at = now]
  /\ UNCHANGED <<shm, env, dmn, bkp>>

\* the loop ends: a message for the slot is pending, or time is up; the clock is
\* read again before the next wait for the semaphore
PullWake(c) ==
  /\ req[c].step = "wait"
  /\ \/ \E e \in Events : req[c].sub_index \in pull_notify[e]
     \/ now > req[c].deadline
  /\ req' = [req EXCEPT ![c].step = "restore", ![c].at = now]
  /\ UNCHANGED <<shm, env, dmn, bkp>>

\* mutant: the saved expiry is not looked at
PullRestoreShortens(c) ==
  /\ req[c].step = "restore"
  /\ subscriptions' = [subscriptions EXCEPT ![req[c].sub_index].expire =
                                                req[c].at + req[c].timeout]
  /\ req' = [req EXCEPT ![c].step = "emit"]
  /\ UNCHANGED <<is_on, pull_send_initialized, pull_notify, env, dmn, bkp>>

\* put the saved expiry back, or extend it by the timeout
PullRestore(c) ==
  /\ req[c].step = "restore"
  /\ subscriptions' =
       [subscriptions EXCEPT ![req[c].sub_index].expire =
          IF req[c].expire > req[c].at + req[c].timeout
          THEN req[c].expire ELSE req[c].at + req[c].timeout]
  /\ req' = [req EXCEPT ![c].step = "emit"]
  /\ UNCHANGED <<is_on, pull_send_initialized, pull_notify, env, dmn, bkp>>

\* the events in the response: pending ones, in table order, up to the limit
Emitted(c) ==
  LET pending == {e \in Events : req[c].sub_index \in pull_notify[e]}
  IN {e \in pending : Cardinality({f \in pending : f < e}) < req[c].limit}

Cleared(bits, c) ==
  [e \in Events |-> IF e \in Emitted(c) THEN bits[e] \ {req[c].sub_index} ELSE bits[e]]

\* the two passes that size and send the response are one section
PullEmit(c) ==
  /\ req[c].step = "emit"
  /\ pull_send_initialized' = Cleared(pull_send_initialized, c)
  /\ pull_notify' = Cleared(pull_notify, c)
  /\ req' = [req EXCEPT ![c] = Idle]
  /\ UNCHANGED <<subscriptions, is_on, env, dmn, bkp>>

-----------------------------------------------------------------------------
(* Renew, Unsubscribe, SetSynchronizationPoint. *)

RenewRequest(c, id, expire) ==
  /\ Receive(c, "Renew")
  /\ req' = [req EXCEPT ![c] = [Idle EXCEPT !.step = "renew", !.sub_id = id,
                                            !.expire = expire]]
  /\ UNCHANGED <<shm, env, dmn>>

\* the slot that Renew and Unsubscribe accept for an id
Accepted(id) == {s \in Holding(subscriptions, id) : subscriptions[s].used # "UNUSED"}

Renew(c, s) ==
  /\ req[c].step = "renew"
  /\ s \in Accepted(req[c].sub_id)
  /\ subscriptions' = [subscriptions EXCEPT ![s].expire = req[c].expire]
  /\ req' = [req EXCEPT ![c] = Idle]
  /\ UNCHANGED <<is_on, pull_send_initialized, pull_notify, env, dmn, bkp>>

RenewFault(c) ==
  /\ req[c].step = "renew"
  /\ Accepted(req[c].sub_id) = {}
  /\ req' = [req EXCEPT ![c] = Idle]
  /\ UNCHANGED <<shm, env, dmn, bkp>>

\* the handlers that keep an index in S no longer work on what they found
Disowned(S) == [c \in Clients |-> IF req[c].sub_index \in S
                                  THEN [req[c] EXCEPT !.mine = FALSE] ELSE req[c]]

\* a slot is cleared; the bits of its index in the events are not
Unsubscribe(c, id, s) ==
  /\ Receive(c, "Unsubscribe")
  /\ s \in Accepted(id)
  /\ subscriptions' = [subscriptions EXCEPT ![s] = Blank]
  /\ req' = Disowned({s})
  /\ UNCHANGED <<is_on, pull_send_initialized, pull_notify, env, dmn>>

\* ids above MAX_SUBSCRIPTIONS are refused, and the kind is not looked at
SetSynchronizationPoint(c, id, s) ==
  /\ Receive(c, "SetSynchronizationPoint")
  /\ id <= MaxSubs
  /\ s \in Holding(subscriptions, id)
  /\ subscriptions' = [subscriptions EXCEPT ![s].push_need_sync = TRUE]
  /\ pull_send_initialized' = Marked(pull_send_initialized, s)
  /\ pull_notify' = Marked(pull_notify, s)
  /\ UNCHANGED <<is_on, env, dmn, req>>

-----------------------------------------------------------------------------
(* The daemon. *)

\* handle_inotify_events takes one event of its buffer: it reads the clock, and
\* for a modification looks for the file, before it waits for the semaphore
InotifyRead ==
  /\ inotify
  /\ change.mask = "NONE"
  /\ queue # << >>
  /\ LET i == Head(queue)
     IN change' = [at |-> now, event |-> i.event,
                   exists |-> \/ i.mask = "CREATE"
                              \/ i.mask = "MODIFY" /\ i.event \in files,
                   mask |-> i.mask]
  /\ queue' = Tail(queue)
  /\ UNCHANGED <<shm, env, last_emit_time, sync_i, req, bkp>>

\* the poll strategy: the file and the recorded state differ; the loop visits
\* the events in turn, and which it comes to next is left open
PollRead(e) ==
  /\ ~inotify
  /\ change.mask = "NONE"
  /\ is_on[e] # (e \in files)
  /\ change' = [at |-> now, event |-> e, exists |-> e \in files,
                mask |-> IF e \in files THEN "CREATE" ELSE "DELETE"]
  /\ UNCHANGED <<shm, env, last_emit_time, queue, sync_i, req, bkp>>

\* debounce: whole seconds since the last notification of the event
Allowed == MinGap = 0 \/ change.at - last_emit_time[change.event] >= MinGap

\* mutant: the scan stops before the last slot
PullTargetsButLast ==
  {s \in Slots : /\ s < MaxSubs - 1
                 /\ subscriptions[s].used = "PULL"
                 /\ ~ Expired(subscriptions, s, change.at)
                 /\ change.event \in Selects[subscriptions[s].topic_expression]}

\* the pull points that an allowed change is queued for
PullTargets ==
  {s \in Slots : /\ subscriptions[s].used = "PULL"
                 /\ ~ Expired(subscriptions, s, change.at)
                 /\ change.event \in Selects[subscriptions[s].topic_expression]}

\* mutant: the end of an event is not recorded
StateAfterStart == is_on[change.event] \/ change.mask = "CREATE"

\* is_on after the change: a modification leaves it alone
StateAfter == IF change.mask = "MODIFY" THEN is_on[change.event]
                                        ELSE change.mask = "CREATE"

\* the section that both event sources run
Record ==
  /\ change.mask # "NONE"
  /\ is_on' = [is_on EXCEPT ![change.event] = StateAfter]
  /\ last_emit_time' = IF MinGap > 0 /\ Allowed
                       THEN [last_emit_time EXCEPT ![change.event] = change.at]
                       ELSE last_emit_time
  /\ pull_notify' = IF Allowed
                    THEN [pull_notify EXCEPT ![change.event] = @ \cup PullTargets]
                    ELSE pull_notify
  /\ change' = NoChange
  /\ UNCHANGED <<subscriptions, pull_send_initialized, env, queue, sync_i, req, bkp>>

\* one iteration of the loop over the slots in sync_events_thread
SyncStep ==
  /\ sync_i < MaxSubs
  /\ subscriptions' = [subscriptions EXCEPT ![sync_i].push_need_sync = FALSE]
  /\ sync_i' = sync_i + 1
  /\ UNCHANGED <<is_on, pull_send_initialized, pull_notify, env,
                 last_emit_time, queue, change, req, bkp>>

\* the section at the end of the loop
CleanStep ==
  /\ sync_i = MaxSubs
  /\ subscriptions' = Reaped(subscriptions, now)
  /\ req' = Disowned(Reapable(subscriptions, now))
  /\ sync_i' = 0
  /\ UNCHANGED <<is_on, pull_send_initialized, pull_notify, env,
                 last_emit_time, queue, change, bkp>>

-----------------------------------------------------------------------------
ClientStep(c) ==
  \/ \E s \in Slots : Alloc(c, s) \/ PullFind(c, s) \/ Renew(c, s)
  \/ AllocFull(c) \/ MarkPull(c) \/ MarkPush(c)
  \/ PullFault(c) \/ PullWake(c) \/ PullRestore(c) \/ PullEmit(c)
  \/ RenewFault(c)

ClientRequest(c) ==
  \/ \E used \in {"PULL", "PUSH"}, x \in Expiries, f \in Filters :
       CreateRequest(c, used, x, f)
  \/ \E id \in Ids \ {0}, t \in Timeouts, l \in Limits : PullRequest(c, id, t, l)
  \/ \E id \in Ids \ {0}, x \in Expiries : RenewRequest(c, id, x)
  \/ \E id \in Ids \ {0}, s \in Slots : Unsubscribe(c, id, s)
  \/ \E id \in Ids \ {0}, s \in Slots : SetSynchronizationPoint(c, id, s)

MotionStep == \E e \in Events : FileCreated(e) \/ FileDeleted(e) \/ FileModified(e)

DaemonStep == \/ InotifyRead \/ (\E e \in Events : PollRead(e)) \/ Record
              \/ SyncStep \/ CleanStep

Next == \/ Tick
        \/ MotionStep
        \/ \E c \in Clients : ClientRequest(c) \/ ClientStep(c)
        \/ DaemonStep

Spec == Init /\ [][Next]_vars

\* A handler that has started runs on, the daemon's loops run, time passes.
\* No client has to send a request and no file has to change.
FairSpec == /\ Spec
            /\ WF_vars(Tick)
            /\ \A c \in Clients : WF_vars(ClientStep(c))
            /\ WF_vars(InotifyRead)
            /\ WF_vars(\E e \in Events : PollRead(e))
            /\ WF_vars(Record)
            /\ WF_vars(SyncStep) /\ WF_vars(CleanStep)

-----------------------------------------------------------------------------
\* An unused slot has id 0 and a used one has not, whatever stale index a
\* handler still writes through.  A search for an id, which is at least 1, then
\* never ends on a cleared slot: SetSynchronizationPoint may leave out the test
\* of "used" that Renew and Unsubscribe make.
UnusedHasNoId ==
  \A s \in Slots : subscriptions[s].used = "UNUSED" <=> subscriptions[s].id = 0

\* No two subscriptions have the same id, so a request reaches the subscription
\* that its id was given for, as long as no id was given while MaxId was in use.
UniqueIds ==
  ~wrapped => \A s, t \in Used(subscriptions) :
                subscriptions[s].id = subscriptions[t].id => s = t

\* A PullMessages returns, whatever happens to its subscription meanwhile.
PullReturns ==
  \A c \in Clients : req[c].step \in {"find", "wait"} ~> req[c].step = "idle"

\* docs/SUBSCRIPTION_FLOODING_FIX.md: "subscriptions expire after timeout" and
\* "Expired subscriptions are cleaned up every 500ms".  A subscription that has
\* expired is freed, unless it is renewed or pulled.  The exception is an expiry
\* of zero, which from_iso_date returns for a date that it cannot parse: the
\* clean-up takes it for an empty slot.
Overdue(s) == /\ s \in Used(subscriptions)
              /\ Expired(subscriptions, s, now)
              /\ subscriptions[s].expire # 0

ExpiredAreFreed == \A s \in Slots : Overdue(s) ~> ~Overdue(s)

\* what a client may know of the subscription in slot s
Reference(s) == [used |-> subscriptions[s].used,
                 topic_expression |-> subscriptions[s].topic_expression,
                 id |-> subscriptions[s].id]

Referable == {Reference(s) : s \in Used(subscriptions)}

\* Refinement: what the table is to clients is a set of subscriptions, each
\* under an id of its own, that are granted once and do not change until they
\* end.  In particular no handler that writes through a slot index it kept turns
\* a subscription that got the slot meanwhile into another one.
Manager == INSTANCE SubManager WITH
  Capacity <- MaxSubs, GivenIds <- Ids \ {0}, Topics <- Filters,
  live <- Referable, exhausted <- wrapped

KeepsSubscriptionsApart == Manager!Spec
=============================================================================
