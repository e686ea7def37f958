----------------------------- MODULE SubManager -----------------------------
(***************************************************************************)
(* What the subscription manager promises its clients: a bounded set of    *)
(* live subscriptions, each under an id of its own.  A subscription is     *)
(* granted once, keeps its id, kind and filter, and ends; the table, the   *)
(* semaphore's sections and the indices that handlers keep do not show.    *)
(* Module Subscriptions implements this specification.                     *)
(***************************************************************************)
EXTENDS Integers, FiniteSets

CONSTANTS
  Capacity,   \* the greatest number of live subscriptions
  GivenIds,   \* the ids that clients may be given
  Topics      \* the topic expressions that clients send

VARIABLES
  live,       \* the subscriptions that clients may refer to
  exhausted   \* the greatest id has been in use at a grant

Live == [id : GivenIds, used : {"PULL", "PUSH"}, topic_expression : Topics]

Init == live = {} /\ exhausted = FALSE

\* a new subscription gets an id that no live one has
Grant(r) == /\ Cardinality(live) < Capacity
            /\ \A q \in live : q.id # r.id
            /\ live' = live \cup {r}
            /\ UNCHANGED exhausted

\* once ids start again from 1, all that is promised is a subscription
GrantAgain(r) == /\ exhausted'
                 /\ live' = live \cup {r}

\* a client gives up its subscription, or the clean-up ends those of E
End(E) == /\ live' = live \ E
          /\ UNCHANGED exhausted

Next == \/ \E r \in Live : Grant(r) \/ GrantAgain(r)
        \/ \E E \in SUBSET live : End(E)

Spec == Init /\ [][Next]_<<live, exhausted>>
=============================================================================
