------------------------------- MODULE Events ------------------------------
(***************************************************************************)
(* events_service.c: what the handlers of the Events service answer.  What *)
(* they do to the table of subscriptions is in Subscriptions and Delivery; *)
(* here the table is memory that is found as it is (c.junk.table).  The    *)
(* words of a request say what it brought: the number of a subscription in *)
(* the query string ("sub", "high" if it is above MAX_SUBSCRIPTIONS), the  *)
(* elements of the body that the method needs, and a MessageID ("id").     *)
(***************************************************************************)
EXTENDS MediaConf

ActionFailed == Fault("ActionFailed")
ResourceUnknown == Fault("ResourceUnknown")
CreationFailed == Fault("SubscribeCreationFailed")
Subscription == Ok({Entry(Token("subscription", "*"), 0)})

EventIds(c) == DOMAIN c.events
Topical(c) == {i \in EventIds(c) : c.events[i] # Null}

GetServiceCapabilities(c, ask) ==
  Ok({Count("pullpoint", OneIf(c.events_enable \in {"pull", "both"})),
      Count("basesubscription", OneIf(c.events_enable \in {"base", "both"}))})

-----------------------------------------------------------------------------
(* The topics.  The levels of each are cut apart, three of them; a topic   *)
(* without any is a NULL pointer.                                          *)

Topic(what) == Entry(Token("topic", what), 0)
Unfit(c) == {i \in Topical(c) : c.events[i] \in {"deep", "empty"}}
FirstUnfit(c, what) ==
  \E i \in Unfit(c) : c.events[i] = what /\ \A j \in Unfit(c) : i <= j

GetEventProperties(c, ask) ==
  IF FirstUnfit(c, "empty") THEN Crashed
  ELSE IF FirstUnfit(c, "deep") THEN ActionFailed
  ELSE Ok((IF Topical(c) = {} THEN {Topic("motion")}
           ELSE {Topic(c.events[i]) : i \in Topical(c)})
          \cup IF c.ptz THEN {Topic("ptz")} ELSE {})

-----------------------------------------------------------------------------
(* Subscriptions.                                                          *)

CreatePullPointSubscription(c, ask) ==
  CASE c.junk.table = "absent" -> Fault("UnableToCreatePullPoint")
    [] c.junk.table = "other" -> CreationFailed
    [] OTHER -> Subscription

\* the MessageID is looked for after the subscription was made
Subscribe(c, ask) ==
  IF "body" \notin ask.words THEN ResourceUnknown
  ELSE CASE c.junk.table = "absent" -> ActionFailed
         [] c.junk.table = "other" -> CreationFailed
         [] OTHER -> IF "id" \in ask.words THEN Subscription ELSE ActionFailed

\* what the handlers of one subscription have in common
OfSubscription(c, ask, answer) ==
  IF "sub" \notin ask.words THEN ResourceUnknown
  ELSE CASE c.junk.table = "absent" -> ActionFailed
         [] c.junk.table = "other" -> ResourceUnknown
         [] OTHER -> answer

(* A message has the topic and the state of an event, and the source that  *)
(* belongs to it: for the event of a relay, the relay's default token.     *)
Pending(c) == {i \in Topical(c) : i \in c.junk.pending}
Own(c) == Len(c.events) - Len(c.relays)
Messages(c) ==
  {Entry(Token("state", c.events[i]), 0) : i \in Pending(c)}
  \cup {Entry(Token("relay", DefaultRelay(i)), i) :
          i \in {j \in 1 .. Len(c.relays) : Own(c) + j \in Pending(c)}}
PullMessages(c, ask) ==
  IF "sub" \in ask.words /\ "body" \notin ask.words THEN ActionFailed
  ELSE OfSubscription(c, ask, Ok(Messages(c)))

Renew(c, ask) ==
  IF "sub" \in ask.words /\ "body" \notin ask.words
  THEN Fault("UnacceptableTerminationTime")
  ELSE OfSubscription(c, ask, Done)

Unsubscribe(c, ask) == OfSubscription(c, ask, Done)

\* the number of a subscription is taken for that of a place in the table
SetSynchronizationPoint(c, ask) ==
  IF "high" \in ask.words THEN ResourceUnknown
  ELSE OfSubscription(c, ask, Done)

Unsupported(c, ask) ==
  IF c.fault_if_unknown THEN Fault("ActionFailed") ELSE Done

Methods == {"GetServiceCapabilities", "GetEventProperties",
            "CreatePullPointSubscription", "Subscribe", "PullMessages", "Renew",
            "Unsubscribe", "SetSynchronizationPoint"}
Handle(c, method, ask) ==
  CASE method = "GetServiceCapabilities" -> GetServiceCapabilities(c, ask)
    [] method = "GetEventProperties" -> GetEventProperties(c, ask)
    [] method = "CreatePullPointSubscription" ->
         CreatePullPointSubscription(c, ask)
    [] method = "Subscribe" -> Subscribe(c, ask)
    [] method = "PullMessages" -> PullMessages(c, ask)
    [] method = "Renew" -> Renew(c, ask)
    [] method = "Unsubscribe" -> Unsubscribe(c, ask)
    [] method = "SetSynchronizationPoint" -> SetSynchronizationPoint(c, ask)
    [] OTHER -> Unsupported(c, ask)
=============================================================================
