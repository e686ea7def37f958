------------------------------ MODULE SubTable ------------------------------
(***************************************************************************)
(* The subscription half of shm_t, the table that the CGI processes of     *)
(* onvif_simple_server and the daemon onvif_notify_server share through    *)
(* POSIX shared memory (utils.h), and the searches that events_service.c   *)
(* makes in it while it holds the semaphore.                               *)
(*                                                                         *)
(* The searches walk the array from index 0, so the slots are the numbers  *)
(* 0 .. MaxSubs-1 and "the first slot that ..." is the least one.  A topic *)
(* expression is a member of Filters; Selects[f] is the set of configured  *)
(* events that is_topic_in_expression accepts for f, and AnyTopic is the   *)
(* empty expression, which accepts all of them.                            *)
(***************************************************************************)
EXTENDS Integers

CONSTANTS
  MaxSubs,     \* MAX_SUBSCRIPTIONS, 32 in utils.h
  MaxId,       \* 65535, the greatest subscription id
  NEvents,     \* service_ctx.events_num, at most MAX_EVENTS
  Filters,     \* the topic expressions that clients send
  AnyTopic,    \* the empty topic expression
  Selects      \* Selects[f] : the events whose topic is in expression f

ASSUME TableAssumption ==
  /\ MaxSubs \in Nat \ {0}
  /\ MaxId \in Nat \ {0}
  /\ NEvents \in Nat \ {0}
  /\ AnyTopic \in Filters
  /\ Selects \in [Filters -> SUBSET (0 .. NEvents - 1)]
  /\ Selects[AnyTopic] = 0 .. NEvents - 1

Slots  == 0 .. MaxSubs - 1
Events == 0 .. NEvents - 1
Ids    == 0 .. MaxId

\* subscription_type
Kinds == {"UNUSED", "PULL", "PUSH"}

\* subscription_shm_t, without the consumer reference, which no decision reads
Subscription ==
  [id : Ids, used : Kinds, expire : Int, push_need_sync : BOOLEAN,
   topic_expression : Filters]

\* what memset(..., '\0', sizeof(subscription_shm_t)) leaves in a slot
Blank == [used |-> "UNUSED", topic_expression |-> AnyTopic,
          push_need_sync |-> FALSE, expire |-> 0, id |-> 0]

Used(t) == {s \in Slots : t[s].used # "UNUSED"}

\* mutant: the scan skips the first slot
GreatestIdFromOne(t) == CHOOSE m \in Ids : /\ \E s \in Slots \ {0} : t[s].id = m
                                           /\ \A s \in Slots \ {0} : t[s].id <= m

\* the scan for the greatest id, which starts from 0
GreatestId(t) == CHOOSE m \in Ids : /\ \E s \in Slots : t[s].id = m
                                    /\ \A s \in Slots : t[s].id <= m

\* mutant: no return to 1 after the greatest id
FreshIdNoWrap(t) == GreatestId(t) + 1

FreshId(t) == IF GreatestId(t) = MaxId THEN 1 ELSE GreatestId(t) + 1

\* the search loops stop at the least index: no slot, or exactly one
First(S) == {s \in S : \A r \in S : s <= r}

FreeSlot(t) == First({s \in Slots : t[s].used = "UNUSED"})

Holding(t, id) == First({s \in Slots : t[s].id = id})

Occupied(t, s, id, used, expire, filter) ==
  [t EXCEPT ![s] = [used |-> used, topic_expression |-> filter,
                    push_need_sync |-> t[s].push_need_sync,
                    expire |-> expire, id |-> id]]

Expired(t, s, now) == now > t[s].expire

\* mutant: the scan stops before the last slot
ReapableButLast(t, now) ==
  {s \in Slots : s < MaxSubs - 1 /\ t[s].expire # 0 /\ Expired(t, s, now)}

\* clean_expired_subscriptions: an expiry of zero is never reached
Reapable(t, now) == {s \in Slots : t[s].expire # 0 /\ Expired(t, s, now)}

\* mutant: the slot is marked unused and not cleared
ReapedKeepsId(t, now) ==
  [s \in Slots |-> IF s \in Reapable(t, now) THEN [t[s] EXCEPT !.used = "UNUSED"]
                                             ELSE t[s]]

Reaped(t, now) == [s \in Slots |-> IF s \in Reapable(t, now) THEN Blank ELSE t[s]]
=============================================================================
