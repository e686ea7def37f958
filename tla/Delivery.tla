------------------------------ MODULE Delivery ------------------------------
(***************************************************************************)
(* What the subscribers are told.  History variables beside Subscriptions  *)
(* record, for the subscription that now holds each slot, the last value   *)
(* it was sent for each event, and the reasons for which a change of an    *)
(* event may have passed it by.                                            *)
(***************************************************************************)
EXTENDS Subscriptions

VARIABLES
  heard,      \* heard[s][e] : the value of e last sent to the subscriber of s
  excused,    \* excused[s] : events with a change it was not told, and a reason
  inherited   \* inherited[s] : events that were pending when it got the slot

hist == <<heard, excused, inherited>>

Value(on) == IF on THEN "true" ELSE "false"

Silence == [e \in Events |-> "nothing"]

DInit == /\ Init
         /\ heard = [s \in Slots |-> Silence]
         /\ excused = [s \in Slots |-> {}]
         /\ inherited = [s \in Slots |-> {}]

-----------------------------------------------------------------------------
(* What is sent. *)

\* the consumers that an allowed change is posted to: no filter is looked at
PushTargets ==
  {s \in Slots : /\ subscriptions[s].used = "PUSH"
                 /\ ~ Expired(subscriptions, s, change.at)}

\* the events that sync_events posts to slot s: none unless it is a live push
SyncTargets(s) ==
  {e \in Events : /\ subscriptions[s].used = "PUSH"
                  /\ ~ Expired(subscriptions, s, now)
                  /\ e \in Selects[subscriptions[s].topic_expression]}

\* the subscriber of s is told the values of the events in E
Told(s, E, value) ==
  [heard EXCEPT ![s] = [e \in Events |-> IF e \in E THEN value[e] ELSE @[e]]]

FileState == [e \in Events |-> Value(e \in files)]

Recorded == [e \in Events |-> Value(is_on[e])]

-----------------------------------------------------------------------------
\* a subscriber without a queued notification of the change: suppressed by the
\* debounce, or passed over because the subscription had expired
Missed == {s \in Slots : /\ subscriptions[s].used = "PULL"
                         /\ ~Allowed \/ Expired(subscriptions, s, change.at)}

DRecord ==
  LET e == change.event
  IN /\ Record
     /\ heard' = [s \in Slots |->
                    IF Allowed /\ s \in PushTargets
                    THEN [heard[s] EXCEPT ![e] = Value(change.exists)] ELSE heard[s]]
     /\ excused' = [s \in Slots |-> IF s \in Missed /\ StateAfter # is_on[e]
                                    THEN excused[s] \cup {e} ELSE excused[s]]
     /\ UNCHANGED inherited

DSync == /\ SyncStep
         /\ heard' = IF subscriptions[sync_i].push_need_sync
                     THEN Told(sync_i, SyncTargets(sync_i), FileState)
                     ELSE heard
         /\ UNCHANGED <<excused, inherited>>

DAlloc(c, s) ==
  /\ Alloc(c, s)
  /\ heard' = [heard EXCEPT ![s] = Silence]
  /\ excused' = [excused EXCEPT ![s] = {}]
  /\ inherited' = [inherited EXCEPT ![s] = {e \in Events : s \in pull_notify[e]}]

\* the response goes to the client of c; a slot that changed hands loses its bits
DEmit(c) ==
  LET s == req[c].sub_index
  IN /\ PullEmit(c)
     /\ IF req[c].mine
        THEN /\ heard' = Told(s, Emitted(c), Recorded)
             /\ excused' = [excused EXCEPT ![s] = @ \ Emitted(c)]
        ELSE /\ excused' = [excused EXCEPT ![s] = @ \cup Emitted(c)]
             /\ UNCHANGED heard
     /\ UNCHANGED inherited

\* the other steps send nothing
Quiet(c) == \/ ClientRequest(c)
            \/ \E s \in Slots : PullFind(c, s) \/ Renew(c, s)
            \/ AllocFull(c) \/ MarkPull(c) \/ MarkPush(c)
            \/ PullFault(c) \/ PullWake(c) \/ PullRestore(c) \/ RenewFault(c)

DNext == \/ DRecord
         \/ DSync
         \/ \E c \in Clients : DEmit(c) \/ \E s \in Slots : DAlloc(c, s)
         \/ /\ \/ Tick \/ MotionStep \/ InotifyRead \/ CleanStep
               \/ \E e \in Events : PollRead(e)
               \/ \E c \in Clients : Quiet(c)
            /\ UNCHANGED hist

DSpec == DInit /\ [][DNext]_<<vars, hist>>

-----------------------------------------------------------------------------
\* a creation of the subscription in s that has not reached its second section
BeingCreated(s) == \E c \in Clients : /\ req[c].step = "mark"
                                      /\ req[c].mine /\ req[c].sub_index = s

\* The subscriber of a pull point that has nothing pending knows the state.
UpToDate(s, e) == /\ subscriptions[s].used = "PULL"
                  /\ e \in Selects[subscriptions[s].topic_expression]
                  /\ s \notin pull_notify[e]
                  => heard[s][e] = Value(is_on[e])

\* A pull subscriber with nothing pending has been told the recorded state of
\* every event it selects, unless a change was suppressed by the debounce, or
\* fell after the expiry and before the clean-up, or was emitted to an older
\* request that kept the slot index.  Nothing else loses a change
\* (pull_notify in events_service.c and onvif_notify_server.c).  The exceptions
\* are real: docs/MOTION_DETECTION_EVENTS.md calls pull subscribers
\* "self-healing", and no later step tells them of a suppressed change.
NoOtherLoss ==
  \A s \in Slots, e \in Events : UpToDate(s, e) \/ e \in excused[s] \/ BeingCreated(s)

\* docs/MOTION_DETECTION_EVENTS.md: the first message "reflects the *current*
\* motion state".  Once the daemon has recorded every event of an input file,
\* is_on, which that message carries, is the state of the file.
StateIsCurrent ==
  \A e \in Events : /\ \A k \in 1 .. Len(queue) : queue[k].event # e
                    /\ change.mask = "NONE" \/ change.event # e
                    => is_on[e] = (e \in files)

\* The only events outside its filter that a pull subscriber may be told are
\* those whose bit the former holder of the slot left set.
FilterBreaksByInheritance ==
  \A s \in Slots, e \in Events :
    /\ subscriptions[s].used = "PULL"
    /\ s \in pull_notify[e] \/ heard[s][e] # "nothing"
    => e \in Selects[subscriptions[s].topic_expression] \/ e \in inherited[s]
=============================================================================
