------------------------------- MODULE Leases -------------------------------
(***************************************************************************)
(* The termination times that clients are told.  A history variable beside *)
(* Subscriptions keeps, for the subscription that now holds each slot, the *)
(* time until which its client was told it lives.  The responses to        *)
(* CreatePullPointSubscription, Subscribe and Renew set that time, and the *)
(* response to PullMessages, which carries one too, may move it forward.   *)
(***************************************************************************)
EXTENDS Subscriptions

VARIABLE promised

LInit == Init /\ promised = [s \in Slots |-> 0]

LAlloc(c, s) == /\ Alloc(c, s)
                /\ promised' = [promised EXCEPT ![s] = req[c].expire]

LRenew(c, s) == /\ Renew(c, s)
                /\ promised' = [promised EXCEPT ![s] = req[c].expire]

\* the expiry read back in the section of PullRestore goes into the response
LRestore(c) ==
  LET s == req[c].sub_index
  IN /\ PullRestore(c)
     /\ promised' = IF req[c].mine /\ subscriptions'[s].expire > promised[s]
                    THEN [promised EXCEPT ![s] = subscriptions'[s].expire]
                    ELSE promised

\* no response with a termination time leaves in the other steps
Silent(c) == \/ ClientRequest(c)
             \/ \E s \in Slots : PullFind(c, s)
             \/ AllocFull(c) \/ MarkPull(c) \/ MarkPush(c)
             \/ PullFault(c) \/ PullWake(c) \/ PullEmit(c) \/ RenewFault(c)

LNext == \/ \E c \in Clients : \/ LRestore(c)
                               \/ \E s \in Slots : LAlloc(c, s) \/ LRenew(c, s)
         \/ (Tick \/ MotionStep \/ DaemonStep \/ \E c \in Clients : Silent(c))
            /\ UNCHANGED promised

LSpec == LInit /\ [][LNext]_<<vars, promised>>

-----------------------------------------------------------------------------
(* What the promises rest on.                                              *)

Pulling(c, s) == req[c].step \in {"wait", "restore"} /\ req[c].sub_index = s

\* While a PullMessages works on a slot no other client renews what is there,
\* pulls it, or is given the slot.
UndisturbedPulls ==
  \A c, d \in Clients : \A s \in Slots :
    c # d /\ Pulling(c, s) => ~ (LAlloc(d, s) \/ LRenew(d, s) \/ PullFind(d, s))

\* A PullMessages has put the expiry back before the margin is over.
Punctual == \A c \in Clients : req[c].step \in {"wait", "restore"}
                               => now <= req[c].deadline + Margin

-----------------------------------------------------------------------------
ReapedNow(s) == CleanStep /\ s \in Used(subscriptions) /\ s \notin Used(subscriptions')

\* docs/MOTION_DETECTION_EVENTS.md: "A client must call Renew before the TTL
\* expires to keep the subscription alive", and PullMessages "extends the
\* expiration time" (docs/SUBSCRIPTION_FLOODING_FIX.md).  The clean-up never
\* removes a subscription before the time its client was promised.
PromiseKept == [][\A s \in Slots : ReapedNow(s) => now > promised[s]]_<<vars, promised>>

\* The comment of events_pull_messages: the expiry is moved "to avoid
\* termination during this function".  The clean-up never removes a
\* subscription that a PullMessages is waiting on.
NoReapDuringPull ==
  [][\A s \in Slots : ReapedNow(s) =>
       ~ \E c \in Clients : /\ req[c].step \in {"wait", "restore"}
                            /\ req[c].mine /\ req[c].sub_index = s]_<<vars, promised>>
=============================================================================
