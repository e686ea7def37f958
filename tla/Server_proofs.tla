---------------------------- MODULE Server_proofs ---------------------------
(***************************************************************************)
(* Proofs about Server, for every configuration: what a login protects,    *)
(* that requests are answered and answers show what there is, that the     *)
(* services agree, and that the tokens of an answer are accepted.          *)
(***************************************************************************)
EXTENDS Server, WellFoundedInduction, SequenceTheorems, FiniteSetTheorems, TLAPS

-----------------------------------------------------------------------------
(* The configuration that a file becomes.                                  *)

(* The relays of the configuration are the first ones of the file.         *)
LEMMA RelaysOfFile ==
  ASSUME NEW f \in Files
  PROVE  /\ Relays(f.relays) \in Seq(Relay)
         /\ \A i \in 1 .. Len(Relays(f.relays)) : Relays(f.relays)[i] = f.relays[i]
<1> DEFINE n == IF Len(f.relays) < MaxRelays THEN Len(f.relays) ELSE MaxRelays - 1
<1>1. f.relays \in Seq(Relay) /\ n \in Nat /\ n <= Len(f.relays)
  BY FilesAssumption
<1>2. Relays(f.relays) = SubSeq(f.relays, 1, n)
  BY DEF Relays
<1>3. /\ SubSeq(f.relays, 1, n) \in Seq(Relay)
      /\ Len(SubSeq(f.relays, 1, n)) = n
      /\ \A i \in 1 .. n : SubSeq(f.relays, 1, n)[i] = f.relays[i]
  BY <1>1
<1> QED
  BY <1>2, <1>3

(* The events are topics, or none, and those of the relays.                *)
LEMMA EventsOfFile ==
  ASSUME NEW f \in Files
  PROVE  Events(f) \in Seq(Topics \cup {"relay", Null})
<1> DEFINE n == EventsOf(Len(f.topics))
           own == SubSeq(f.topics, 1, n)
           added == [i \in DOMAIN Relays(f.relays) |-> "relay"]
<1>1. f.topics \in Seq(Topics \cup {Null}) /\ n \in Nat /\ n <= Len(f.topics)
  BY FilesAssumption DEF EventsOf
<1>2. own \in Seq(Topics \cup {"relay", Null})
  <2>1. own \in Seq(Topics \cup {Null})
    BY <1>1
  <2> QED
    BY <2>1
<1>3. added \in Seq(Topics \cup {"relay", Null})
  BY RelaysOfFile
<1>4. Events(f) = own \o added
  BY DEF Events
<1> HIDE DEF own, added
<1> QED
  BY <1>2, <1>3, <1>4

-----------------------------------------------------------------------------
(* What is told to strangers.                                              *)

Publishes(service, reply) == \A e \in reply.entries : Public(service, e)

LEMMA FaultsPublish ==
  ASSUME NEW service
  PROVE  /\ \A fault : /\ Publishes(service, Fault(fault))
                       /\ Publishes(service, D!Fault(fault))
                       /\ Publishes(service, V!Fault(fault))
         /\ Publishes(service, Done) /\ Publishes(service, D!Done)
         /\ Publishes(service, V!Done)
BY DEF Publishes, Fault, Done, Ok, D!Fault, D!Done, D!Ok, V!Fault, V!Done, V!Ok

LEMMA TokensAreSet ==
  ASSUME NEW kind \in Kinds, NEW of \in Texts
  PROVE  Token(kind, of) \in Tokens /\ Token(kind, of) # Null
BY NullAssumption DEF Token, Tokens

LEMMA ServicesPublish ==
  ASSUME NEW service,
         NEW name \in D!Always \cup {"ptz_service", "imaging_service", "media2_service"}
  PROVE  Public(service, D!Service(name))
<1>1. Token("service", name) # Null
  BY TokensAreSet DEF D!Always, Kinds, Texts
<1> QED
  BY <1>1 DEF Public, D!Service, D!Entry, D!Token, Token

LEMMA CountsPublish ==
  ASSUME NEW service, NEW n,
         NEW name \in {"pullpoint", "basesubscription", "audio_sources",
                       "audio_outputs", "relay_outputs"}
  PROVE  Public(service, D!Count(name, n)) /\ Public(service, V!Count(name, n))
<1>1. Token("count", name) # Null
  BY TokensAreSet DEF Kinds, Texts
<1> QED
  BY <1>1 DEF Public, D!Count, D!Entry, D!Token, V!Count, V!Entry, V!Token, Token

LEMMA InfosPublish ==
  ASSUME NEW service, NEW what \in {"hostname", "address", "time", "ptz", "imaging"}
  PROVE  /\ Publishes(service, Ok({Info(what)}))
         /\ Publishes(service, D!Ok({D!Info(what)}))
<1>1. Token("info", what) # Null
  BY TokensAreSet DEF Kinds, Texts
<1> QED
  BY <1>1 DEF Publishes, Public, Ok, Info, Entry, Token, D!Ok, D!Info, D!Entry, D!Token

LEMMA GetServicesPublishes ==
  ASSUME NEW service, NEW c, NEW ask
  PROVE  Publishes(service, D!GetServices(c, ask))
<1>1. \A e \in D!EventFlags(c) \cup D!IoCounts(c) : Public(service, e)
  BY CountsPublish DEF D!EventFlags, D!IoCounts
<1>2. \A s \in D!Listed(c) \cup {"media2_service"} : Public(service, D!Service(s))
  BY ServicesPublish DEF D!Listed
<1> QED
  BY <1>1, <1>2, FaultsPublish
     DEF D!GetServices, D!NeedsFirst, D!Crashed, D!Ok, Publishes

LEMMA GetCapabilitiesPublishes ==
  ASSUME NEW service, NEW c, NEW ask
  PROVE  Publishes(service, D!GetCapabilities(c, ask))
<1>1. \A e \in D!EventFlags(c) \cup D!IoCounts(c) : Public(service, e)
  BY CountsPublish DEF D!EventFlags, D!IoCounts
<1>2. \A s \in D!Listed(c) \cup D!Always \cup {"ptz_service", "imaging_service"} :
        Public(service, D!Service(s))
  BY ServicesPublish DEF D!Listed
<1>3. \A fault : /\ Publishes(service, D!NeedsFirst(c, D!Fault(fault)))
                 /\ Publishes(service, D!Fault(fault))
  BY FaultsPublish DEF D!NeedsFirst, D!Crashed
<1>4. \A s \in D!Always \cup {"ptz_service", "imaging_service"} :
        Publishes(service, D!NeedsFirst(c, D!Ok({D!Service(s)})))
  BY <1>2, FaultsPublish DEF D!NeedsFirst, D!Crashed, D!Ok, Publishes
<1>5. Publishes(service, D!NeedsFirst(c, D!Ok({D!Service("events_service")}
                                              \cup D!EventFlags(c))))
  BY <1>1, <1>2, FaultsPublish DEF D!NeedsFirst, D!Crashed, D!Ok, Publishes, D!Always
<1>6. Publishes(service, D!NeedsFirst(c, D!Ok({D!Service(s) : s \in D!Listed(c)}
                                     \cup D!EventFlags(c) \cup D!IoCounts(c))))
  BY <1>1, <1>2, FaultsPublish DEF D!NeedsFirst, D!Crashed, D!Ok, Publishes
<1> QED
  BY <1>3, <1>4, <1>5, <1>6 DEF D!GetCapabilities, D!Always, D!Categories

(* The Events service tells everybody all that it knows.                   *)
EventsTyped(c) == c.events \in Seq(Topics \cup {"relay", Null})

LEMMA EventEntriesPublish ==
  ASSUME NEW kind \in {"topic", "state", "relay", "subscription"}, NEW of \in Texts
  PROVE  \A n : Public("events_service", V!Entry(V!Token(kind, of), n))
<1>1. Token(kind, of) # Null
  BY TokensAreSet DEF Kinds
<1> QED
  BY <1>1 DEF Public, V!Entry, V!Token, Token

LEMMA TopicsAreTexts ==
  ASSUME NEW c, EventsTyped(c), NEW i \in V!Topical(c)
  PROVE  c.events[i] \in Texts
<1>1. c.events[i] \in Topics \cup {"relay"}
  BY DEF V!Topical, V!EventIds, EventsTyped
<1> QED
  BY <1>1 DEF Texts

LEMMA EventsPublish ==
  ASSUME NEW c, EventsTyped(c), NEW ask, NEW method \in V!Methods
  PROVE  Publishes("events_service", V!Handle(c, method, ask))
<1>1. /\ \A fault : Publishes("events_service", V!Fault(fault))
      /\ Publishes("events_service", V!Done)
      /\ Publishes("events_service", V!Crashed)
  BY FaultsPublish DEF V!Crashed
<1>2. Publishes("events_service", V!GetServiceCapabilities(c, ask))
  BY CountsPublish DEF Publishes, V!GetServiceCapabilities, V!Ok
<1>3. Publishes("events_service", V!GetEventProperties(c, ask))
  <2>1. \A t \in Texts : Public("events_service", V!Topic(t))
    BY EventEntriesPublish DEF V!Topic
  <2>2. Public("events_service", V!Topic("motion")) /\ Public("events_service", V!Topic("ptz"))
    <3>1. "motion" \in Texts /\ "ptz" \in Texts
      BY DEF Texts, Topics
    <3> QED
      BY <2>1, <3>1
  <2>3. \A i \in V!Topical(c) : Public("events_service", V!Topic(c.events[i]))
    BY <2>1, TopicsAreTexts
  <2> QED
    BY <1>1, <2>2, <2>3 DEF Publishes, V!GetEventProperties, V!Ok, V!ActionFailed
<1>4. Publishes("events_service", V!Subscription)
  <2>1. "*" \in Texts
    BY DEF Texts
  <2> QED
    BY <2>1, EventEntriesPublish DEF Publishes, V!Subscription, V!Ok
<1>5. Publishes("events_service", V!Ok(V!Messages(c)))
  <2>1. \A i \in V!Pending(c) : c.events[i] \in Texts
    BY TopicsAreTexts DEF V!Pending
  <2>2. \A i : V!DefaultRelay(i) \in Texts
    BY DEF V!DefaultRelay, Texts
  <2> QED
    BY <2>1, <2>2, EventEntriesPublish DEF Publishes, V!Ok, V!Messages
<1>6. \A reply \in {V!Done, V!Ok(V!Messages(c))} :
        Publishes("events_service", V!OfSubscription(c, ask, reply))
  BY <1>1, <1>5 DEF V!OfSubscription, V!ActionFailed, V!ResourceUnknown
<1>7. /\ Publishes("events_service", V!PullMessages(c, ask))
      /\ Publishes("events_service", V!Renew(c, ask))
      /\ Publishes("events_service", V!Unsubscribe(c, ask))
      /\ Publishes("events_service", V!SetSynchronizationPoint(c, ask))
  BY <1>1, <1>6 DEF V!PullMessages, V!Renew, V!Unsubscribe,
                    V!SetSynchronizationPoint, V!ActionFailed, V!ResourceUnknown
<1>8. /\ Publishes("events_service", V!CreatePullPointSubscription(c, ask))
      /\ Publishes("events_service", V!Subscribe(c, ask))
  BY <1>1, <1>4 DEF V!CreatePullPointSubscription, V!Subscribe, V!ActionFailed,
                    V!ResourceUnknown, V!CreationFailed
<1> QED
  BY <1>2, <1>3, <1>7, <1>8 DEF V!Handle, V!Methods

(* The methods that are open to everybody tell only what is public.        *)
LEMMA OpenMethodsPublish ==
  ASSUME NEW c, EventsTyped(c), NEW r, PreAuth(r.service, r.method)
  PROVE  Publishes(r.service, Handled(c, r))
<1>1. CASE r.service = "device_service"
  <2>1. Handled(c, r) = D!Handle(c, r.method, r.ask)
    BY <1>1 DEF Handled, PreAuth
  <2>2. \A what \in {"time", "hostname"} :
          /\ D!Tell(c, "GetSystemDateAndTime") = D!Ok({D!Info("time")})
          /\ D!Tell(c, "GetHostname") = D!Ok({D!Info("hostname")})
    BY DEF D!Tell, D!Told
  <2>3. Publishes(r.service, D!Handle(c, r.method, r.ask))
    BY <1>1, <2>2, FaultsPublish, InfosPublish, GetServicesPublishes,
       GetCapabilitiesPublishes
       DEF PreAuth, D!Handle, D!Plain, D!PlainMethods, D!Told,
           D!GetEndpointReference, D!TellsAddress
  <2> QED
    BY <2>1, <2>3
<1>2. CASE r.service = "events_service"
  BY <1>2, EventsPublish DEF PreAuth, Handled, V!Methods
<1>3. CASE r.service \notin {"device_service", "events_service"}
  BY <1>3, FaultsPublish, InfosPublish DEF PreAuth, Handled, Capabilities
<1> QED
  BY <1>1, <1>2, <1>3

LEMMA StrangersHearWhatIsPublic ==
  ASSUME NEW c, EventsTyped(c), NEW r, r.login # "right" \/ c.user # "both"
  PROVE  Publishes(r.service, Reply(c, r))
<1>1. Publishes(r.service, Silent) /\ Publishes(r.service, Crashed)
  BY FaultsPublish DEF Silent, Crashed
<1>2. Admitted(c, r) => Publishes(r.service, Handled(c, r))
  BY OpenMethodsPublish DEF Admitted
<1> QED
  BY <1>1, <1>2, FaultsPublish DEF Reply

Heard == /\ file \in Files
         /\ DOMAIN answer = {"to", "fault", "entries"}
         /\ TellsStrangersLittle

LEMMA ServeTellsNoSecret ==
  ASSUME Heard, NEW r, Serve(r)
  PROVE  Heard'
<1>1. PICK junk \in Junk :
        answer' = [to |-> r, fault |-> Reply(Load(file, junk), r).fault,
                   entries |-> Reply(Load(file, junk), r).entries]
  BY DEF Serve
<1>2. file' = file
  BY DEF Serve
<1>3. Load(file, junk).user = file.user
  BY DEF Load
<1>4. EventsTyped(Load(file, junk))
  BY EventsOfFile DEF EventsTyped, Load, Heard
<1>5. Anonymous' => Publishes(r.service, Reply(Load(file, junk), r))
  BY <1>1, <1>2, <1>3, <1>4, StrangersHearWhatIsPublic DEF Anonymous
<1> QED
  BY <1>1, <1>2, <1>5 DEF Heard, TellsStrangersLittle, Publishes

(* Who does not log in, or cannot, hears of the services, of numbers, of   *)
(* the host's name, address and time, and of what the Events service       *)
(* knows, and of nothing else (main and the lists of methods that it lets  *)
(* pass).                                                                  *)
THEOREM StrangersLearnLittle == Spec => []TellsStrangersLittle
<1>1. Init => Heard
  BY DEF Init, Heard, TellsStrangersLittle
<1>2. Heard /\ [Next]_vars => Heard'
  <2> SUFFICES ASSUME Heard, [Next]_vars
               PROVE  Heard'
    OBVIOUS
  <2>1. ASSUME NEW r, Serve(r)
        PROVE  Heard'
    BY <2>1, ServeTellsNoSecret
  <2>2. CASE ServeSoap \/ ServeLogin \/ ServeOther
    BY <2>1, <2>2 DEF ServeSoap, ServeLogin, ServeOther
  <2>3. CASE Read
    <3>1. answer'.to = NoRequest /\ DOMAIN answer' = DOMAIN answer
      BY <2>3 DEF Read, Heard
    <3> QED
      BY <2>3, <3>1 DEF Read, Heard, TellsStrangersLittle, Idle
  <2>4. CASE Edit
    BY <2>4 DEF Edit, Heard, TellsStrangersLittle, Idle
  <2>5. CASE UNCHANGED vars
    BY <2>5 DEF vars, Heard, TellsStrangersLittle, Idle, Anonymous
  <2> QED
    BY <2>2, <2>3, <2>4, <2>5 DEF Next
<1>3. Heard => TellsStrangersLittle
  BY DEF Heard
<1> QED
  BY <1>1, <1>2, <1>3, PTL DEF Spec

-----------------------------------------------------------------------------
(* The contacts of the relays.                                             *)

\* there is a contact for each relay, in whichever way the file is edited
ContactInv ==
  /\ file \in Files
  /\ DOMAIN contact = 1 .. Len(Relays(file.relays))

LEMMA LeastElement ==
  ASSUME NEW S, S \subseteq Nat, S # {}
  PROVE  /\ Min(S) \in S /\ \A j \in S : Min(S) <= j
         /\ Min(S) = CHOOSE i \in S : \A j \in S : i <= j
<1>1. PICK k \in S : \A j \in S : <<j, k>> \notin OpToRel(<, Nat)
  BY NatLessThanWellFounded, WFMin
<1>2. \A j \in S : ~ (j < k)
  <2>1. \A j \in S : j \in Nat /\ k \in Nat
    OBVIOUS
  <2> QED
    BY <1>1, <2>1, Zenon DEF OpToRel
<1>3. \A j \in S : k <= j
  BY <1>2
<1> QED
  BY <1>3 DEF Min

\* the first of the relays that a token names
LEMMA FirstRelay ==
  ASSUME NEW c, Len(c.relays) \in Nat, NEW token, IO!ByToken(c, token) # {}
  PROVE  \E i \in IO!ByToken(c, token) :
           /\ i = CHOOSE k \in IO!ByToken(c, token) :
                    \A j \in IO!ByToken(c, token) : k <= j
           /\ i \in 1 .. Len(c.relays)
<1> DEFINE S == IO!ByToken(c, token)
<1>1. S \subseteq 1 .. Len(c.relays)
  BY DEF IO!ByToken, IO!RelayIds
<1>2. S \subseteq Nat /\ S # {}
  BY <1>1
<1> HIDE DEF S
<1>3. Min(S) \in S /\ Min(S) = CHOOSE k \in S : \A j \in S : k <= j
  BY <1>2, LeastElement
<1> QED
  BY <1>1, <1>3 DEF S

(* A request that moves a contact is one that is admitted.                 *)
LEMMA OnlyAdmittedDrive ==
  ASSUME ContactInv, NEW r, Serve(r), contact' # contact
  PROVE  \E junk \in Junk :
           LET c == Load(file, junk)
           IN /\ contact' = IO!Driven(c, r.ask, contact)
              /\ r.login = "right" /\ c.user = "both"
              /\ DrivesRelay(r) /\ Reply(c, r) = Done
              /\ answer'.to = r
<1>1. PICK junk \in Junk :
        LET c == Load(file, junk)
        IN /\ answer' = [to |-> r, fault |-> Reply(c, r).fault,
                         entries |-> Reply(c, r).entries]
           /\ contact' = IF DrivesRelay(r) /\ Admitted(c, r) /\ Reply(c, r) = Done
                         THEN IO!Driven(c, r.ask, contact) ELSE contact
  BY DEF Serve
<1> DEFINE c == Load(file, junk)
<1>2. DrivesRelay(r) /\ Admitted(c, r) /\ Reply(c, r) = Done
  BY <1>1
<1>3. ~ PreAuth(r.service, r.method)
  BY <1>2 DEF DrivesRelay, PreAuth
<1> QED
  BY <1>1, <1>2, <1>3 DEF Admitted

LEMMA RefusalsDriveNothing ==
  ASSUME NEW c, NEW r, DrivesRelay(r), r.form = "soap", Reply(c, r) = Done
  PROVE  /\ IO!ByToken(c, r.ask.config) # {}
         /\ IO!SetRelayOutputState(c, r.ask) = Done
<1>1. /\ Fault("Unauthorized") # Done /\ Silent # Done /\ Crashed # Done
      /\ IO!RelayFault # Done
  BY DEF Fault, Done, Ok, Silent, Crashed, IO!RelayFault, IO!Fault
<1>2. Handled(c, r) = Done
  BY <1>1 DEF Reply
<1>3. Handled(c, r) = IO!SetRelayOutputState(c, r.ask)
  BY DEF Handled, DrivesRelay, IO!Handle
<1> QED
  BY <1>1, <1>2, <1>3 DEF IO!SetRelayOutputState

(* What a request that is admitted does is what RelayFollows says of it.   *)
LEMMA DrivenFollows ==
  ASSUME ContactInv, NEW r, Serve(r), contact' # contact, r.form = "soap",
         r.ask.config # Null => r.ask.config.kind \notin OfProfile \ {"profile"}
  PROVE  /\ r.login = "right" /\ file.user = "both"
         /\ \E e \in IO!GetRelayOutputs(Load(file, CHOOSE j \in Junk : TRUE),
                                        None).entries :
              /\ e.token.of = r.ask.config.of
              /\ \A i \in DOMAIN contact : i # e.shows => contact'[i] = contact[i]
              /\ (contact'[e.shows] # file.relays[e.shows].idle)
                   <=> ("active" \in r.ask.words)
<1>1. PICK junk \in Junk :
        LET c == Load(file, junk)
        IN /\ contact' = IO!Driven(c, r.ask, contact)
           /\ r.login = "right" /\ c.user = "both"
           /\ DrivesRelay(r) /\ Reply(c, r) = Done
  BY OnlyAdmittedDrive
<1> DEFINE c == Load(file, junk)
           any == Load(file, CHOOSE j \in Junk : TRUE)
<1>2. IO!ByToken(c, r.ask.config) # {}
  BY <1>1, RefusalsDriveNothing
<1>3. /\ c.relays = Relays(file.relays) /\ any.relays = Relays(file.relays)
      /\ c.user = file.user
  BY DEF Load
<1>4. /\ Len(c.relays) \in Nat
      /\ \A i \in 1 .. Len(c.relays) : c.relays[i] = file.relays[i]
  BY <1>3, RelaysOfFile DEF ContactInv
<1>5. PICK i \in IO!ByToken(c, r.ask.config) :
        /\ i = CHOOSE k \in IO!ByToken(c, r.ask.config) :
                 \A j \in IO!ByToken(c, r.ask.config) : k <= j
        /\ i \in 1 .. Len(c.relays)
  BY <1>2, <1>4, FirstRelay
<1> DEFINE other == IF c.relays[i].idle = "open" THEN "closed" ELSE "open"
           e == IO!Entry(IO!RelayToken(any, i), i)
<1>6. contact' = [contact EXCEPT ![i] = IF "active" \in r.ask.words THEN other
                                        ELSE c.relays[i].idle]
  <2>1. IO!FirstAsked(c, r.ask) = i
    BY <1>5 DEF IO!FirstAsked
  <2>2. IO!Wanted(c.relays[i], r.ask) = IF "active" \in r.ask.words THEN other
                                        ELSE c.relays[i].idle
    BY DEF IO!Wanted, IO!OtherThan
  <2> QED
    BY <1>1, <2>1, <2>2 DEF IO!Driven
<1>7. e \in IO!GetRelayOutputs(any, None).entries
  <2>1. i \in IO!RelayIds(any)
    BY <1>3, <1>5 DEF IO!RelayIds
  <2>2. IO!GetRelayOutputs(any, None).entries
          = {IO!Entry(IO!RelayToken(any, j), j) : j \in IO!RelayIds(any)}
    BY DEF IO!GetRelayOutputs, IO!Ok
  <2> HIDE DEF any
  <2> QED
    BY <2>1, <2>2
<1>8. e.shows = i /\ e.token = IO!RelayToken(any, i)
  BY DEF IO!Entry
<1>9. e.token.of = r.ask.config.of
  <2>1. r.ask.config # Null /\ IO!Whole(r.ask.config) = IO!RelayToken(c, i).of
    BY <1>5 DEF IO!ByToken, IO!Says
  <2>2. IO!Whole(r.ask.config) = r.ask.config.of
    BY <2>1 DEF IO!Whole, OfProfile, IO!OfProfile
  <2>3. IO!RelayToken(c, i) = IO!RelayToken(any, i)
    BY <1>3 DEF IO!RelayToken
  <2> QED
    BY <1>8, <2>1, <2>2, <2>3
<1>10. \A j \in DOMAIN contact : j # e.shows => contact'[j] = contact[j]
  BY <1>6, <1>8
<1>11. (contact'[e.shows] # file.relays[e.shows].idle) <=> ("active" \in r.ask.words)
  <2>1. i \in DOMAIN contact
    BY <1>3, <1>5 DEF ContactInv
  <2>2. contact'[i] = IF "active" \in r.ask.words THEN other ELSE c.relays[i].idle
    BY <1>6, <2>1
  <2>3. c.relays[i].idle = file.relays[i].idle /\ other # c.relays[i].idle
    BY <1>4, <1>5
  <2> QED
    BY <1>8, <2>2, <2>3
<1> QED
  BY <1>1, <1>3, <1>7, <1>9, <1>10, <1>11

LEMMA ContactStays ==
  ASSUME ContactInv, [Next]_vars
  PROVE  ContactInv'
<1>1. ASSUME NEW r, Serve(r)
      PROVE  ContactInv'
  <2>1. file' = file
    BY <1>1 DEF Serve
  <2>2. DOMAIN contact' = DOMAIN contact
    BY <1>1 DEF Serve, IO!Driven
  <2> QED
    BY <2>1, <2>2 DEF ContactInv
<1>2. CASE ServeSoap \/ ServeLogin \/ ServeOther
  BY <1>1, <1>2 DEF ServeSoap, ServeLogin, ServeOther
<1>3. CASE Read
  BY <1>3 DEF Read, ContactInv
<1>4. CASE Edit
  BY <1>4 DEF Edit, ContactInv
<1>5. CASE UNCHANGED vars
  BY <1>5 DEF vars, ContactInv
<1> QED
  BY <1>2, <1>3, <1>4, <1>5 DEF Next

(* A client names a relay by the token of a relay, or by none that there   *)
(* is.                                                                     *)
LEMMA SoapNamesRelays ==
  ASSUME NEW service, NEW k \in ConfigTokens(service, "SetRelayOutputState"),
         service \in {"device_service", "deviceio_service"}, k # Null
  PROVE  k.kind \notin OfProfile \ {"profile"}
<1>1. Kind(service, "SetRelayOutputState") = "relay"
  BY DEF Kind, Takes
<1>2. k \in TokensOf("relay") \/ k = Stranger
  BY <1>1 DEF ConfigTokens
<1>3. CASE k \in TokensOf("relay")
  <2>1. k.kind = "relay"
    BY <1>3 DEF TokensOf
  <2> QED
    BY <2>1 DEF OfProfile
<1>4. CASE k = Stranger
  BY <1>4 DEF Stranger, Token
<1> QED
  BY <1>2, <1>3, <1>4

(* For every configuration a contact changes only by an authenticated      *)
(* request for its relay, and to the state that was asked for              *)
(* (deviceio_set_relay_output_state and the login in main).                *)
THEOREM RelaysFollowRequests == Spec => RelayFollows
<1>1. Init => ContactInv
  BY DEF Init, ContactInv
<1>2. ContactInv /\ [Next]_vars => ContactInv'
  BY ContactStays
<1> DEFINE Follows ==
      contact' # contact =>
        /\ answer'.to.login = "right" /\ file.user = "both"
        /\ \E e \in IO!GetRelayOutputs(Load(file, CHOOSE j \in Junk : TRUE),
                                       None).entries :
             /\ e.token.of = answer'.to.ask.config.of
             /\ \A i \in DOMAIN contact : i # e.shows => contact'[i] = contact[i]
             /\ (contact'[e.shows] # file.relays[e.shows].idle)
                  <=> ("active" \in answer'.to.ask.words)
<1>3. ContactInv /\ [Next]_vars => [Follows]_contact
  <2> SUFFICES ASSUME ContactInv, [Next]_vars, contact' # contact
               PROVE  Follows
    OBVIOUS
  <2>1. ASSUME NEW r, Serve(r), r.form = "soap",
               DrivesRelay(r) /\ r.ask.config # Null
                 => r.ask.config.kind \notin OfProfile \ {"profile"}
        PROVE  Follows
    <3>1. DrivesRelay(r) /\ answer'.to = r
      BY <2>1, OnlyAdmittedDrive
    <3> HIDE DEF Follows
    <3>2. /\ r.login = "right" /\ file.user = "both"
          /\ \E e \in IO!GetRelayOutputs(Load(file, CHOOSE j \in Junk : TRUE),
                                         None).entries :
               /\ e.token.of = r.ask.config.of
               /\ \A i \in DOMAIN contact : i # e.shows => contact'[i] = contact[i]
               /\ (contact'[e.shows] # file.relays[e.shows].idle)
                    <=> ("active" \in r.ask.words)
      BY <2>1, <3>1, DrivenFollows
    <3> QED
      BY <3>1, <3>2 DEF Follows
  <2>2. CASE ServeSoap
    <3>1. PICK service \in Services :
            \E method \in Known(service) :
              \E p \in ProfileTokens(service, method), k \in ConfigTokens(service, method),
                 w \in Words(service, method) :
                Serve(Soap(service, method, "right", Asked(p, k, w)))
      BY <2>2 DEF ServeSoap
    <3>2. PICK method \in Known(service) :
            \E p \in ProfileTokens(service, method), k \in ConfigTokens(service, method),
               w \in Words(service, method) :
              Serve(Soap(service, method, "right", Asked(p, k, w)))
      BY <3>1
    <3>3. PICK p \in ProfileTokens(service, method), k \in ConfigTokens(service, method),
               w \in Words(service, method) :
            Serve(Soap(service, method, "right", Asked(p, k, w)))
      BY <3>2
    <3> DEFINE r == Soap(service, method, "right", Asked(p, k, w))
    <3>4. /\ r.form = "soap" /\ r.service = service /\ r.method = method
          /\ r.ask.config = k
      BY DEF Soap, Asked
    <3>5. DrivesRelay(r) /\ k # Null => k.kind \notin OfProfile \ {"profile"}
      BY <3>4, SoapNamesRelays DEF DrivesRelay
    <3> HIDE DEF Follows, r
    <3> QED
      BY <2>1, <3>3, <3>4, <3>5 DEF r
  <2>3. CASE ServeLogin
    <3>1. PICK r : Serve(r) /\ r.login # "right"
      <4>1. \A service, method, login, w :
              Soap(service, method, login, Asked(Null, Null, w)).login = login
        BY DEF Soap
      <4> QED
        BY <2>3, <4>1 DEF ServeLogin
    <3> QED
      BY <3>1, OnlyAdmittedDrive
  <2>4. CASE ServeOther
    <3>1. PICK form : Serve(Other(form))
      BY <2>4 DEF ServeOther
    <3>2. ~ DrivesRelay(Other(form))
      BY DEF DrivesRelay, Other
    <3> QED
      BY <3>1, <3>2, OnlyAdmittedDrive
  <2>5. CASE Read \/ Edit \/ UNCHANGED vars
    BY <2>5 DEF Read, Edit, vars
  <2> QED
    BY <2>2, <2>3, <2>4, <2>5 DEF Next
<1> QED
  BY <1>1, <1>2, <1>3, PTL DEF Spec, RelayFollows
-----------------------------------------------------------------------------
(* The configuration as the handlers find it.                              *)

IsConf(c) ==
  /\ Len(c.profiles) \in Nat /\ c.num \in 0 .. 2 /\ c.num <= Len(c.profiles)
  /\ c.num = 0 => NameAt(c, 1) = Null
  /\ (c.profiles = <<>>) <=> (Len(c.profiles) = 0)
  /\ \A i \in 1 .. Len(c.profiles) : c.profiles[i] \in Stream
  /\ Len(c.relays) \in Nat
  /\ \A i \in 1 .. Len(c.relays) : c.relays[i] \in Relay
  /\ c.aoc \in Texts /\ c.junk.codec \in Codecs /\ EventsTyped(c)

\* the part of WellConfigured that the handlers depend on
Named(c) == Present(c) # {} /\ \A i \in Present(c) : NameAt(c, i) # Null
Sound(c) ==
  Named(c) /\ Wired(c) /\ \A i \in DOMAIN c.events : c.events[i] # "empty"

LEMMA EmptiedIsStream ==
  ASSUME NEW s \in Stream
  PROVE  Emptied(s) \in Stream /\ Emptied(s).name = Null
BY DEF Emptied, Stream

LEMMA SortedStreams ==
  ASSUME NEW ps \in Seq(Stream)
  PROVE  Sorted(ps) \in Seq(Stream) /\ Len(Sorted(ps)) = Len(ps)
<1>1. CASE Len(ps) = 2 /\ ps[2].size > ps[1].size
  <2>1. Len(ps) = 2
    BY <1>1
  <2>2. ps[1] \in Stream /\ ps[2] \in Stream
    BY <2>1
  <2>3. Sorted(ps) = <<ps[2], ps[1]>>
    BY <1>1 DEF Sorted
  <2> QED
    BY <2>1, <2>2, <2>3
<1>2. CASE ~ (Len(ps) = 2 /\ ps[2].size > ps[1].size)
  BY <1>2 DEF Sorted
<1> QED
  BY <1>1, <1>2

LEMMA KeptStreams ==
  ASSUME NEW streams \in Seq(Stream)
  PROVE  /\ Kept(streams) \in Seq(Stream)
         /\ Len(Kept(streams)) \in 0 .. 2
         /\ Sorted(Kept(streams)) \in Seq(Stream)
         /\ Len(Sorted(Kept(streams))) = Len(Kept(streams))
<1> DEFINE urls == WithUrl(streams)
           rest == urls \ {Min(urls)}
           kept == Kept(streams)
<1>1. DOMAIN streams \subseteq Nat /\ \A i \in DOMAIN streams : streams[i] \in Stream
  OBVIOUS
<1>2. urls \subseteq DOMAIN streams /\ urls \subseteq Nat
  BY <1>1 DEF WithUrl
<1>3. urls # {} => Min(urls) \in urls
  BY <1>2, LeastElement
<1>4. rest # {} => Min(rest) \in urls
  BY <1>2, LeastElement
<1>5. kept = IF urls = {} THEN <<>>
             ELSE IF rest = {} THEN <<streams[Min(urls)]>>
             ELSE <<streams[Min(urls)], streams[Min(rest)]>>
  BY DEF Kept
<1> HIDE DEF kept, rest, urls
<1>6. kept \in Seq(Stream) /\ Len(kept) \in 0 .. 2
  BY <1>1, <1>2, <1>3, <1>4, <1>5
<1>7. Sorted(kept) \in Seq(Stream) /\ Len(Sorted(kept)) = Len(kept)
  BY <1>6, SortedStreams
<1> QED
  BY <1>6, <1>7 DEF kept

(* The count never passes the end of the array; when it is zero the array  *)
(* is NULL or its first element was emptied.                               *)
LEMMA ProfilesOfStreams ==
  ASSUME NEW streams \in Seq(Stream)
  PROVE  /\ Profiles(streams) \in Seq(Stream)
         /\ Len(Kept(streams)) <= Len(Profiles(streams))
         /\ Len(Kept(streams)) = 0 /\ Profiles(streams) # <<>>
              => Profiles(streams)[1].name = Null
<1> DEFINE kept == Kept(streams)
           skipped == /\ streams # <<>>
                      /\ ~ Last(streams).rtsp \/ Cardinality(WithUrl(streams)) > 2
           rest == IF skipped THEN <<Emptied(Last(streams))>> ELSE <<>>
<1>1. /\ Sorted(kept) \in Seq(Stream) /\ Len(Sorted(kept)) = Len(kept)
      /\ Len(kept) \in Nat
  BY KeptStreams
<1>2. Profiles(streams) = Sorted(kept) \o rest
  BY DEF Profiles
<1>3. rest \in Seq(Stream) /\ Len(rest) \in Nat
      /\ (Len(rest) # 0 => Len(rest) = 1 /\ rest[1].name = Null)
  <2>1. CASE skipped
    <3>1. Last(streams) \in Stream
      BY <2>1 DEF Last
    <3>2. Emptied(Last(streams)) \in Stream /\ Emptied(Last(streams)).name = Null
      BY <3>1, EmptiedIsStream
    <3>3. rest = <<Emptied(Last(streams))>>
      BY <2>1
    <3> QED
      BY <3>2, <3>3
  <2>2. CASE ~ skipped
    <3>1. rest = <<>>
      BY <2>2
    <3> HIDE DEF rest
    <3> QED
      BY <3>1
  <2> QED
    BY <2>1, <2>2
<1> HIDE DEF kept, rest, skipped
<1>4. /\ Sorted(kept) \o rest \in Seq(Stream)
      /\ Len(Sorted(kept) \o rest) = Len(kept) + Len(rest)
  BY <1>1, <1>3
<1>5. ASSUME Len(kept) = 0, Sorted(kept) \o rest # <<>>
      PROVE  (Sorted(kept) \o rest)[1].name = Null
  <2>1. Sorted(kept) = <<>>
    BY <1>1, <1>5
  <2>2. Sorted(kept) \o rest = rest
    BY <1>3, <2>1
  <2>3. rest # <<>>
    BY <1>5, <2>2
  <2>4. Len(rest) # 0
    BY <1>3, <2>3
  <2> QED
    BY <1>3, <2>2, <2>4
<1> QED
  BY <1>1, <1>2, <1>3, <1>4, <1>5 DEF kept

LEMMA ConfsAreConfs ==
  ASSUME NEW f \in Files, NEW junk \in Junk
  PROVE  IsConf(Load(f, junk))
<1> DEFINE c == Load(f, junk)
           ps == Profiles(f.streams)
<1>1. f.streams \in Seq(Stream)
  BY FilesAssumption
<1>2. /\ c.profiles = ps /\ c.num = Len(Kept(f.streams))
      /\ c.relays = Relays(f.relays)
      /\ c.aoc = IF f.aoc = Null THEN "AudioOutputConfigToken" ELSE f.aoc
      /\ c.junk = junk
  BY DEF Load
<1>3. /\ ps \in Seq(Stream)
      /\ c.num \in 0 .. 2 /\ c.num <= Len(ps)
      /\ c.num = 0 /\ ps # <<>> => ps[1].name = Null
  BY <1>1, <1>2, ProfilesOfStreams, KeptStreams
<1>4. c.relays \in Seq(Relay)
  BY <1>2, RelaysOfFile
<1>5. c.aoc \in Texts
  <2>1. f.aoc \in Texts \cup {Null}
    BY FilesAssumption
  <2>2. CASE f.aoc = Null
    BY <2>2 DEF Load, Texts
  <2>3. CASE f.aoc # Null
    BY <2>1, <2>3 DEF Load
  <2> QED
    BY <2>2, <2>3
<1>10. EventsTyped(c)
  BY EventsOfFile DEF EventsTyped, Load
<1> HIDE DEF c, ps
<1>6. /\ Len(ps) \in Nat /\ (ps = <<>> <=> Len(ps) = 0)
      /\ \A i \in 1 .. Len(ps) : ps[i] \in Stream
  BY <1>3
<1>7. c.num = 0 => NameAt(c, 1) = Null
  <2>1. CASE ps = <<>>
    <3>1. ~ (1 <= Len(ps))
      BY <1>6, <2>1
    <3> QED
      BY <1>2, <2>1, <3>1 DEF NameAt
  <2>2. CASE ps # <<>>
    <3>1. 1 <= Len(ps)
      BY <1>6, <2>2
    <3> QED
      BY <1>2, <1>3, <2>2, <3>1 DEF NameAt
  <2> QED
    BY <2>1, <2>2
<1>8. Len(c.relays) \in Nat /\ \A i \in 1 .. Len(c.relays) : c.relays[i] \in Relay
  BY <1>4
<1>9. c.junk.codec \in Codecs
  BY <1>2, JunkAssumption
<1> QED
  BY <1>2, <1>3, <1>5, <1>6, <1>7, <1>8, <1>9, <1>10 DEF IsConf, c
-----------------------------------------------------------------------------
(* The look-up of a profile.                                               *)

LEMMA NullIsApart ==
  /\ \A i \in Nat : i # Null
  /\ \A text \in Texts : text # Null
  /\ \A t \in Tokens : t # Null
BY NullAssumption

(* The name found is the one that was looked for.  A comparison with a     *)
(* name that is NULL is only made where a profile was emptied, where none  *)
(* was read, or behind the array.                                          *)
LEMMA FindOutcome ==
  ASSUME NEW c, IsConf(c), NEW n \in {c.num, Bold(c), 2}, NEW text \in Texts
  PROVE  LET i == Find(c, n, text)
         IN /\ \/ i = Null
               \/ i = 0 /\ \A j \in 1 .. n : NameAt(c, j) # text
               \/ i \in 1 .. n /\ NameAt(c, i) = text
            /\ n # 2 \/ c.num = 2 => i = Null \/ i = 0 \/ i \in Present(c)
            /\ Named(c) /\ (n # 2 \/ c.num = 2) => i # Null
<1> DEFINE hits == {i \in 1 .. n : NameAt(c, i) \in {text, Null}}
           least == CHOOSE i \in hits : \A j \in hits : i <= j
<1>1. c.num \in 0 .. 2 /\ n \in 0 .. 2 /\ (c.num = 0 => NameAt(c, 1) = Null)
  BY DEF IsConf, Bold
<1>2. n # 2 \/ c.num = 2 => n = c.num \/ (c.num = 0 /\ n = 1)
  BY <1>1 DEF Bold
<1>3. text # Null /\ 0 # Null /\ \A i \in 1 .. n : i # Null
  BY <1>1, NullIsApart
<1>4. Find(c, n, text) = IF hits = {} THEN 0
                         ELSE IF NameAt(c, least) = Null THEN Null ELSE least
  BY <1>3 DEF Find
<1>5. hits # {} => least \in hits
  <2>1. hits \subseteq Nat
    BY <1>1
  <2> QED
    BY <2>1, LeastElement
<1>6. CASE hits = {}
  BY <1>3, <1>4, <1>6
<1>7. CASE hits # {} /\ NameAt(c, least) = Null
  <2>1. Find(c, n, text) = Null
    BY <1>4, <1>7
  <2>2. least \in 1 .. n
    BY <1>5, <1>7
  <2>3. Named(c) => c.num # 0
    BY <1>1 DEF Named, Present
  <2>4. Named(c) /\ (n # 2 \/ c.num = 2) => FALSE
    BY <1>1, <1>2, <1>7, <2>2, <2>3 DEF Named, Present
  <2> QED
    BY <2>1, <2>4
<1>8. CASE hits # {} /\ NameAt(c, least) # Null
  <2>1. Find(c, n, text) = least
    BY <1>4, <1>8
  <2>2. least \in 1 .. n /\ NameAt(c, least) = text
    BY <1>5, <1>8
  <2>3. n # 2 \/ c.num = 2 => least \in Present(c)
    BY <1>1, <1>2, <1>8, <2>2 DEF Present
  <2> HIDE DEF least
  <2> QED
    BY <1>3, <2>1, <2>2, <2>3
<1> QED
  BY <1>6, <1>7, <1>8

LEMMA PickOutcome ==
  ASSUME NEW c, IsConf(c), NEW n \in {Guarded(c), Bold(c)},
         NEW text \in Texts \cup {Null}, Named(c) => text # Null,
         NEW found, NEW missing
  PROVE  LET reply == Pick(c, n, text, found, missing)
         IN \/ ~ Named(c) /\ reply = Crashed
            \/ reply = missing
            \/ \E i \in Present(c) : NameAt(c, i) = text /\ reply = found[i]
<1>0. c.num \in 0 .. 2 /\ n \in {c.num, Bold(c)} /\ (n # 2 \/ c.num = 2)
  BY DEF Guarded, Bold, IsConf
<1>1. CASE text = Null
  BY <1>1 DEF Pick, Find
<1>2. CASE text # Null
  <2> DEFINE i == Find(c, n, text)
  <2>1. /\ i = Null \/ i = 0 \/ (i \in Present(c) /\ NameAt(c, i) = text)
        /\ Named(c) => i # Null
    BY <1>0, <1>2, FindOutcome, NullIsApart DEF Present
  <2>2. Pick(c, n, text, found, missing)
          = IF i = Null THEN Crashed ELSE IF i = 0 THEN missing ELSE found[i]
    BY DEF Pick
  <2> HIDE DEF i
  <2> QED
    BY <2>1, <2>2
<1> QED
  BY <1>1, <1>2

\* the first two names, whatever there is behind the array
LEMMA PickTwoOutcome ==
  ASSUME NEW c, IsConf(c), NEW text \in Texts \cup {Null},
         Named(c) => text # Null, NEW found, NEW missing
  PROVE  LET reply == Pick(c, 2, text, found, missing)
         IN \/ ~ (Named(c) /\ c.num = 2) /\ reply = Crashed
            \/ reply = missing
            \/ \E i \in 1 .. 2 : reply = found[i]
<1>1. CASE text = Null
  BY <1>1 DEF Pick, Find
<1>2. CASE text # Null
  <2> DEFINE i == Find(c, 2, text)
  <2>1. /\ i = Null \/ i = 0 \/ i \in 1 .. 2
        /\ Named(c) /\ c.num = 2 => i # Null
    BY <1>2, FindOutcome
  <2>2. Pick(c, 2, text, found, missing)
          = IF i = Null THEN Crashed ELSE IF i = 0 THEN missing ELSE found[i]
    BY DEF Pick
  <2> HIDE DEF i
  <2> QED
    BY <2>1, <2>2
<1> QED
  BY <1>1, <1>2

-----------------------------------------------------------------------------
(* The texts that are looked for.                                          *)

IsAsk(ask) == /\ ask.profile = Null
                 \/ (ask.profile \in Tokens /\ ask.profile.kind = "profile")
              /\ ask.config = Null \/ ask.config \in Tokens

LEMMA TokenTexts ==
  ASSUME NEW t \in Tokens
  PROVE  Whole(t) \in Texts /\ Cut(t) \in Texts /\ t.of \in Texts
<1>1. t.of \in Texts /\ "*" \in Texts
  BY DEF Tokens, Texts
<1> QED
  BY <1>1 DEF Whole, Cut

LEMMA NameTexts ==
  ASSUME NEW c, IsConf(c), NEW i \in 1 .. Len(c.profiles)
  PROVE  /\ NameAt(c, i) \in Texts \cup {Null}
         /\ CutName(NameAt(c, i)) \in Texts \cup {Null}
         /\ NameAt(c, i) # Null => CutName(NameAt(c, i)) # Null
<1>1. c.profiles[i] \in Stream /\ Len(c.profiles) \in Nat
  BY DEF IsConf
<1>2. NameAt(c, i) = c.profiles[i].name
  BY <1>1 DEF NameAt
<1>3. c.profiles[i].name \in Names \cup {Null}
  BY <1>1 DEF Stream
<1>4. "*" \in Texts /\ "*" # Null /\ Names \subseteq Texts
  BY NullIsApart DEF Texts
<1> QED
  BY <1>2, <1>3, <1>4 DEF CutName

LEMMA FirstNameTexts ==
  ASSUME NEW c, IsConf(c)
  PROVE  /\ FirstName(c) \in Texts \cup {Null} /\ (Named(c) => FirstName(c) # Null)
         /\ FirstNameIfAny(c) \in Texts \cup {Null}
         /\ Named(c) => FirstNameIfAny(c) # Null
<1>1. Len(c.profiles) \in Nat /\ c.num \in 0 .. 2 /\ c.num <= Len(c.profiles)
      /\ (c.num = 0 => NameAt(c, 1) = Null)
  BY DEF IsConf
<1>2. "*" \in Texts /\ "*" # Null
  BY NullIsApart DEF Texts
<1>3. CASE c.num = 0
  <2>1. ~ Named(c)
    BY <1>3 DEF Named, Present
  <2>2. FirstName(c) \in {"*", Null}
    BY <1>1, <1>3 DEF FirstName, CutName
  <2> QED
    BY <1>2, <1>3, <2>1, <2>2 DEF FirstNameIfAny
<1>4. CASE c.num # 0
  <2>1. 1 \in 1 .. Len(c.profiles) /\ 1 \in Present(c)
    BY <1>1, <1>4 DEF Present
  <2> QED
    BY <1>1, <1>2, <1>4, <2>1, NameTexts DEF FirstName, FirstNameIfAny, Named
<1> QED
  BY <1>3, <1>4

LEMMA AskedTexts ==
  ASSUME NEW ask, IsAsk(ask), NEW default
  PROVE  \A text \in {ProfileFirst(ask, default), ConfigFirst(ask, default)} :
           \/ text = default /\ ask.profile = Null /\ ask.config = Null
           \/ text \in Texts /\ text # Null
BY TokenTexts, NullIsApart DEF IsAsk, ProfileFirst, ConfigFirst
-----------------------------------------------------------------------------
(* Answers that are as they should be: their entries are of the type, show *)
(* something that there is, the codec it has and the name it has; and      *)
(* where the configuration is sound, the process neither dies nor ends in  *)
(* silence.                                                                *)

Fits(c, e) ==
  /\ e.token = Null \/ e.token \in Tokens
  /\ e.shows \in Nat /\ e.codec \in Codecs
  /\ IF e.token # Null /\ e.token.kind = "count" THEN TRUE
     ELSE IF e.token # Null /\ e.token.kind = "relay"
     THEN e.shows \in 1 .. Len(c.relays)
     ELSE c.num > 0 => e.shows \in 0 .. c.num
TrueCodec(c, e) ==
  e.shows \in 1 .. c.num /\ e.codec # "NONE"
    => e.codec \in {EncoderAt(c, e.shows), DecoderAt(c, e.shows)}
WellNamed(c, e) ==
  c.num > 0 /\ e.token # Null /\ e.token.kind \in OfProfile => UnderItsName(c, e)

FitsAll(c, entries) ==
  \A e \in entries : Fits(c, e) /\ TrueCodec(c, e) /\ WellNamed(c, e)
Responds(c, reply) == Sound(c) => reply.fault \notin {"silent", "crashed"}
Proper(c, reply) == /\ reply.fault \in Faults
                    /\ FitsAll(c, reply.entries)
                    /\ Responds(c, reply)

LEMMA FitsUnion ==
  ASSUME NEW c
  PROVE  /\ FitsAll(c, {})
         /\ \A S, T : FitsAll(c, S) /\ FitsAll(c, T) => FitsAll(c, S \cup T)
         /\ \A S : (\A T \in S : FitsAll(c, T)) => FitsAll(c, UNION S)
         /\ \A S : (\A e \in S : FitsAll(c, {e})) => FitsAll(c, S)
BY DEF FitsAll

LEMMA ReplyProper ==
  ASSUME NEW c
  PROVE  /\ \A fault \in Faults \ {"silent", "crashed"} : Proper(c, Fault(fault))
         /\ ~ Named(c) \/ ~ Sound(c) => Proper(c, Crashed) /\ Proper(c, Silent)
         /\ Proper(c, Done)
         /\ \A S : FitsAll(c, S) => Proper(c, Ok(S))
BY DEF Proper, Responds, Sound, FitsAll, Fault, Crashed, Silent, Done, Ok, Faults

LEMMA RefusalsProper ==
  ASSUME NEW c
  PROVE  \A refusal \in {NoProfile, NoConfig, NoAudio, NoDecoding, NoOutputs,
                         ConfigModify, Incomplete, Fault("NoVideoSource"),
                         Fault("ActionFailed"), Fault("MaxNVTProfiles"),
                         Fault("DeletionOfFixedProfile"),
                         Fault("InvalidMulticastSettings"), Done} :
           Proper(c, refusal)
BY ReplyProper DEF NoProfile, NoConfig, NoAudio, NoDecoding, NoOutputs,
   ConfigModify, Incomplete, Faults

LEMMA CodecTypes ==
  ASSUME NEW c, IsConf(c), NEW i \in Present(c)
  PROVE  EncoderAt(c, i) \in Codecs /\ DecoderAt(c, i) \in Codecs /\ i \in Nat
<1>1. i \in 1 .. Len(c.profiles) /\ i \in Nat
  BY DEF IsConf, Present
<1>2. c.profiles[i] \in Stream
  BY <1>1 DEF IsConf
<1> QED
  BY <1>1, <1>2 DEF Stream, EncoderAt, DecoderAt

\* an entry without a codec, of the device or of a profile
LEMMA EntryFits ==
  ASSUME NEW c, IsConf(c), NEW i \in {0, 1} \cup Present(c),
         NEW t,
         t = Null \/ (t \in Tokens /\ t.kind # "relay"
                     /\ (t.kind \in OfProfile => t.of \in {Fixed(i), NameAt(c, i)}))
  PROVE  FitsAll(c, {Entry(t, i)})
<1>2. i \in Nat /\ (c.num > 0 => i \in 0 .. c.num)
  BY DEF IsConf, Present
<1>3. "NONE" \in Codecs
  BY DEF Codecs
<1> QED
  BY <1>2, <1>3 DEF FitsAll, Fits, TrueCodec, WellNamed, UnderItsName, Entry

LEMMA TokenFits ==
  ASSUME NEW c, IsConf(c), NEW i \in {0, 1} \cup Present(c),
         NEW kind \in Kinds \ {"relay"}, NEW of \in Texts,
         kind \in OfProfile => of \in {Fixed(i), NameAt(c, i)}
  PROVE  FitsAll(c, {Entry(Token(kind, of), i)})
<1>1. /\ Token(kind, of) \in Tokens
      /\ Token(kind, of).kind = kind /\ Token(kind, of).of = of
  BY TokensAreSet DEF Token
<1> QED
  BY <1>1, EntryFits

\* one with the codec of a profile
LEMMA CodedFits ==
  ASSUME NEW c, IsConf(c), NEW i \in Present(c),
         NEW codec \in {EncoderAt(c, i), DecoderAt(c, i)},
         NEW t,
         t = Null \/ (t \in Tokens /\ t.kind \notin {"relay", "count"}
                     /\ t.of \in {Fixed(i), NameAt(c, i)})
  PROVE  FitsAll(c, {Coded(t, i, codec)})
<1>1. codec \in Codecs /\ i \in Nat /\ i \in 0 .. c.num
  BY CodecTypes DEF IsConf, Present
<1> QED
  BY <1>1 DEF FitsAll, Fits, TrueCodec, WellNamed, UnderItsName, Coded

LEMMA DeviceEntriesFit ==
  ASSUME NEW c, IsConf(c)
  PROVE  /\ FitsAll(c, VideoSourceEntries) /\ FitsAll(c, AudioSourceEntries)
         /\ FitsAll(c, OutputEntries(c))
         /\ \A i \in {0, 1} : \A t \in {VideoSource, AudioSource, AudioOutput, PtzConfig} :
              FitsAll(c, {Entry(t, i)})
         /\ FitsAll(c, {Shown(1)})
<1>1. \A i \in {0, 1} :
        \A t \in {VideoSource, AudioSource, AudioOutput, PtzConfig, VideoSourceConfig,
                  AudioSourceConfig, AudioOutputConfig(c)} : FitsAll(c, {Entry(t, i)})
  <2>1. c.aoc \in Texts
    BY DEF IsConf
  <2> QED
    BY <2>1, TokenFits DEF VideoSource, AudioSource, AudioOutput, PtzConfig,
       VideoSourceConfig, AudioSourceConfig, AudioOutputConfig, Kinds, Texts, OfProfile
<1>2. FitsAll(c, {Shown(1)})
  BY EntryFits DEF Shown
<1>3. \A a, b : FitsAll(c, {a}) /\ FitsAll(c, {b}) => FitsAll(c, {a, b})
  BY DEF FitsAll
<1>4. /\ FitsAll(c, VideoSourceEntries) /\ FitsAll(c, AudioSourceEntries)
      /\ FitsAll(c, OutputEntries(c))
  BY <1>1, <1>3 DEF VideoSourceEntries, AudioSourceEntries, OutputEntries
<1> QED
  BY <1>1, <1>2, <1>4

LEMMA ProfileEntriesFit ==
  ASSUME NEW c, IsConf(c), NEW i \in Present(c), NEW name \in Texts,
         name \in {Fixed(i), NameAt(c, i)}
  PROVE  /\ FitsAll(c, {Profile(i, name)}) /\ FitsAll(c, {Vec(i, name)})
         /\ FitsAll(c, {Aec(c, i, name)}) /\ FitsAll(c, {Adec(i, name)})
         /\ FitsAll(c, {Shown(i)})
         /\ FitsAll(c, {Coded(Null, i, EncoderAt(c, i))})
         /\ FitsAll(c, {Coded(Null, i, DecoderAt(c, i))})
<1>1. \A kind \in {"profile", "vec", "adec"} : FitsAll(c, {Entry(Token(kind, name), i)})
  BY TokenFits DEF Kinds, OfProfile
<1>2. FitsAll(c, {Coded(Token("aec", name), i, EncoderAt(c, i))})
  <2>1. /\ Token("aec", name) \in Tokens /\ Token("aec", name).of = name
        /\ Token("aec", name).kind \notin {"relay", "count"}
    BY TokensAreSet DEF Kinds, OfProfile, Token
  <2> QED
    BY <2>1, CodedFits
<1>3. FitsAll(c, {Entry(Null, i)})
  BY EntryFits
<1> QED
  BY <1>1, <1>2, <1>3, CodedFits DEF Profile, Vec, Aec, Adec, Shown

LEMMA PickProper ==
  ASSUME NEW c, IsConf(c), NEW n \in {Guarded(c), Bold(c)},
         NEW text \in Texts \cup {Null}, Named(c) => text # Null,
         NEW found,
         \A i \in Present(c) : NameAt(c, i) = text => Proper(c, found[i]),
         NEW missing, Proper(c, missing)
  PROVE  Proper(c, Pick(c, n, text, found, missing))
BY PickOutcome, ReplyProper

LEMMA NeedsFirstProper ==
  ASSUME NEW c, IsConf(c), NEW reply, Proper(c, reply)
  PROVE  Proper(c, NeedsFirst(c, reply))
<1>1. c.profiles = <<>> => ~ Named(c)
  BY DEF IsConf, Named, Present
<1> QED
  BY <1>1, ReplyProper DEF NeedsFirst

LEMMA FixedTexts == \A i : Fixed(i) \in Texts
BY DEF Fixed, Texts, Names, FixedNames
LEMMA MediaSame ==
  /\ \A c, n, text, found, missing :
       M!Pick(c, n, text, found, missing) = Pick(c, n, text, found, missing)
  /\ \A c, n, text : M!Find(c, n, text) = Find(c, n, text)
  /\ \A c, i : M!NameAt(c, i) = NameAt(c, i)
  /\ \A c, reply : M!NeedsFirst(c, reply) = NeedsFirst(c, reply)
  /\ \A c : /\ M!FirstName(c) = FirstName(c)
            /\ M!FirstNameIfAny(c) = FirstNameIfAny(c)
            /\ M!Guarded(c) = Guarded(c) /\ M!Bold(c) = Bold(c)
            /\ M!Present(c) = Present(c)
            /\ M!Encoding(c) = Encoding(c) /\ M!Decoding(c) = Decoding(c)
            /\ M!OutputEntries(c) = OutputEntries(c)
  /\ \A ask, default :
       /\ M!ProfileFirst(ask, default) = ProfileFirst(ask, default)
       /\ M!ConfigFirst(ask, default) = ConfigFirst(ask, default)
  /\ \A t : M!Whole(t) = Whole(t) /\ M!Cut(t) = Cut(t)
  /\ \A name : M!CutName(name) = CutName(name)
  /\ \A t, text : M!Says(t, text) = Says(t, text)
  /\ M!VideoSourceEntries = VideoSourceEntries
  /\ M!AudioSourceEntries = AudioSourceEntries
  /\ M!VideoSource = VideoSource /\ M!AudioSource = AudioSource
  /\ M!AudioOutput = AudioOutput /\ M!PtzConfig = PtzConfig
  /\ \A i : M!Fixed(i) = Fixed(i) /\ M!Shown(i) = Shown(i)
  /\ \A c, i : M!EncoderAt(c, i) = EncoderAt(c, i) /\ M!DecoderAt(c, i) = DecoderAt(c, i)
  /\ \A kind, of : M!Token(kind, of) = Token(kind, of)
  /\ \A t, i : M!Entry(t, i) = Entry(t, i)
  /\ \A t, i, codec : M!Coded(t, i, codec) = Coded(t, i, codec)
  /\ \A i, name : /\ M!Profile(i, name) = Profile(i, name)
                  /\ M!Vec(i, name) = Vec(i, name) /\ M!Adec(i, name) = Adec(i, name)
  /\ \A c, i, name : M!Aec(c, i, name) = Aec(c, i, name)
  /\ \A S : M!Ok(S) = Ok(S)
  /\ \A fault : M!Fault(fault) = Fault(fault)
  /\ M!Done = Done /\ M!Crashed = Crashed /\ M!Silent = Silent
  /\ M!NoProfile = NoProfile /\ M!NoConfig = NoConfig /\ M!NoAudio = NoAudio
  /\ M!NoDecoding = NoDecoding /\ M!NoOutputs = NoOutputs
  /\ M!ConfigModify = ConfigModify /\ M!Incomplete = Incomplete
BY DEF Pick, M!Pick, Find, M!Find, NameAt, M!NameAt, NeedsFirst,
   M!NeedsFirst, FirstName, M!FirstName, FirstNameIfAny,
   M!FirstNameIfAny, Guarded, M!Guarded, Bold, M!Bold, Present,
   M!Present, Encoding, M!Encoding, Decoding, M!Decoding, OutputEntries,
   M!OutputEntries, ProfileFirst, M!ProfileFirst, ConfigFirst,
   M!ConfigFirst, Whole, M!Whole, Cut, M!Cut, CutName, M!CutName, Says,
   M!Says, VideoSourceEntries, M!VideoSourceEntries, AudioSourceEntries,
   M!AudioSourceEntries, VideoSource, M!VideoSource, AudioSource,
   M!AudioSource, AudioOutput, M!AudioOutput, PtzConfig, M!PtzConfig,
   Fixed, M!Fixed, Shown, M!Shown, EncoderAt, M!EncoderAt, DecoderAt,
   M!DecoderAt, Token, M!Token, Entry, M!Entry, Coded, M!Coded, Profile,
   M!Profile, Vec, M!Vec, Adec, M!Adec, Aec, M!Aec, Ok, M!Ok, Fault,
   M!Fault, Done, M!Done, Crashed, M!Crashed, Silent, M!Silent,
   NoProfile, M!NoProfile, NoConfig, M!NoConfig, NoAudio, M!NoAudio,
   NoDecoding, M!NoDecoding, NoOutputs, M!NoOutputs, ConfigModify,
   M!ConfigModify, Incomplete, M!Incomplete, AudioOutputConfig,
   M!AudioOutputConfig, VideoSourceConfig, M!VideoSourceConfig,
   AudioSourceConfig, M!AudioSourceConfig, OfProfile, M!OfProfile,
   FixedNames, M!FixedNames
-----------------------------------------------------------------------------
(* The methods of Media, but for one that reads a token unchecked.         *)

\* texts of the tokens, and the name that a handler takes without one
LEMMA AskTexts ==
  ASSUME NEW c, IsConf(c), NEW ask, IsAsk(ask)
  PROVE  /\ ask.profile # Null =>
              /\ Whole(ask.profile) \in Texts /\ Whole(ask.profile) # Null
              /\ Whole(ask.profile) = ask.profile.of
         /\ ask.config # Null => Cut(ask.config) \in Texts /\ Cut(ask.config) # Null
         /\ \A text \in {ProfileFirst(ask, FirstName(c)), ConfigFirst(ask, FirstName(c)),
                         ProfileFirst(ask, FirstNameIfAny(c)),
                         ConfigFirst(ask, FirstNameIfAny(c)), ConfigFirst(ask, "*")} :
              text \in Texts \cup {Null} /\ (Named(c) => text # Null)
<1>1. "*" \in Texts /\ "*" # Null
  BY NullIsApart DEF Texts
<1> QED
  BY <1>1, TokenTexts, NullIsApart, FirstNameTexts, AskedTexts DEF IsAsk, Whole

LEMMA MediaSourcesProper ==
  ASSUME NEW c, IsConf(c), NEW ask, IsAsk(ask)
  PROVE  /\ Proper(c, M!GetVideoSources(c, ask))
         /\ Proper(c, M!GetVideoSourceConfigurations(c, ask))
         /\ Proper(c, M!GetCompatibleVideoSourceConfigurations(c, ask))
         /\ Proper(c, M!GetVideoSourceConfiguration(c, ask))
         /\ Proper(c, M!GetVideoSourceConfigurationOptions(c, ask))
         /\ Proper(c, M!GetAudioSources(c, ask))
         /\ Proper(c, M!GetAudioSourceConfigurations(c, ask))
         /\ Proper(c, M!GetAudioSourceConfiguration(c, ask))
         /\ Proper(c, M!GetAudioSourceConfigurationOptions(c, ask))
         /\ Proper(c, M!GetCompatibleAudioSourceConfigurations(c, ask))
<1>1. /\ Proper(c, M!GetVideoSources(c, ask))
      /\ Proper(c, M!GetVideoSourceConfigurations(c, ask))
      /\ Proper(c, M!GetCompatibleVideoSourceConfigurations(c, ask))
      /\ Proper(c, M!GetVideoSourceConfiguration(c, ask))
  BY NeedsFirstProper, ReplyProper, RefusalsProper, DeviceEntriesFit, MediaSame
     DEF M!GetVideoSources, M!GetVideoSourceConfigurations,
         M!GetCompatibleVideoSourceConfigurations, M!GetVideoSourceConfiguration
<1>2. Proper(c, M!GetVideoSourceConfigurationOptions(c, ask))
  <2> DEFINE text == ProfileFirst(ask, FirstName(c))
             options == Ok({Entry(VideoSource, 1)})
             missing == IF text = "VideoSourceConfigToken" THEN options ELSE NoConfig
  <2>1. Proper(c, options) /\ Proper(c, missing)
    BY ReplyProper, RefusalsProper, DeviceEntriesFit
  <2>2. \A i \in Present(c) : <<options, options>>[i] = options
    BY DEF IsConf, Present
  <2>3. M!GetVideoSourceConfigurationOptions(c, ask)
          = NeedsFirst(c, Pick(c, Bold(c), text, <<options, options>>, missing))
    BY MediaSame DEF M!GetVideoSourceConfigurationOptions
  <2>4. text \in Texts \cup {Null} /\ (Named(c) => text # Null)
    BY AskTexts
  <2> HIDE DEF text, options, missing
  <2>5. Proper(c, Pick(c, Bold(c), text, <<options, options>>, missing))
    BY <2>1, <2>2, <2>4, PickProper
  <2> QED
    BY <2>3, <2>5, NeedsFirstProper
<1>3. /\ Proper(c, M!GetAudioSources(c, ask))
      /\ Proper(c, M!GetAudioSourceConfigurations(c, ask))
      /\ Proper(c, M!GetAudioSourceConfiguration(c, ask))
  BY ReplyProper, RefusalsProper, DeviceEntriesFit, MediaSame
     DEF M!GetAudioSources, M!GetAudioSourceConfigurations,
         M!GetAudioSourceConfiguration
<1>4. Proper(c, M!GetAudioSourceConfigurationOptions(c, ask))
  <2> DEFINE text == ProfileFirst(ask, FirstName(c))
             missing == IF text = "AudioSourceConfigToken" THEN Done ELSE NoConfig
  <2>1. Proper(c, Done) /\ Proper(c, missing) /\ Proper(c, NoAudio)
    BY ReplyProper, RefusalsProper
  <2>2. \A i \in Present(c) : <<Done, Done>>[i] = Done
    BY DEF IsConf, Present
  <2>3. M!GetAudioSourceConfigurationOptions(c, ask)
          = IF text = Null THEN Crashed
            ELSE IF Encoding(c) = {} THEN NoAudio
            ELSE IF ask.profile = Null /\ ask.config = Null THEN Done
            ELSE Pick(c, Bold(c), text, <<Done, Done>>, missing)
    BY MediaSame DEF M!GetAudioSourceConfigurationOptions
  <2>4. text \in Texts \cup {Null} /\ (Named(c) => text # Null)
    BY AskTexts
  <2> HIDE DEF text, missing
  <2>5. Proper(c, Pick(c, Bold(c), text, <<Done, Done>>, missing))
    BY <2>1, <2>2, <2>4, PickProper
  <2> QED
    BY <2>1, <2>3, <2>4, <2>5, ReplyProper
<1>5. Proper(c, M!GetCompatibleAudioSourceConfigurations(c, ask))
  <2> DEFINE text == Whole(ask.profile)
             i == Find(c, Bold(c), text)
             source == \E j \in 1 .. Bold(c) :
                         NameAt(c, j) = text /\ EncoderAt(c, j) # "NONE"
  <2>1. M!GetCompatibleAudioSourceConfigurations(c, ask)
          = IF ask.profile = Null THEN NoProfile
            ELSE IF i = Null THEN Crashed
            ELSE IF i # 0 /\ source THEN Ok(AudioSourceEntries) ELSE NoAudio
    BY MediaSame DEF M!GetCompatibleAudioSourceConfigurations
  <2>2. ask.profile # Null => text \in Texts
    BY AskTexts
  <2>3. Bold(c) # 2 \/ c.num = 2
    BY DEF Bold
  <2>4. ask.profile # Null /\ i = Null => ~ Named(c)
    BY <2>2, <2>3, FindOutcome
  <2> HIDE DEF i, source
  <2> QED
    BY <2>1, <2>4, ReplyProper, RefusalsProper, DeviceEntriesFit
<1> QED
  BY <1>1, <1>2, <1>3, <1>4, <1>5

LEMMA MediaBlockFits ==
  ASSUME NEW c, IsConf(c), NEW i \in Present(c), NEW name \in Texts,
         name \in {Fixed(i), NameAt(c, i)}
  PROVE  FitsAll(c, M!Block(c, i, name))
<1> DEFINE audio == IF EncoderAt(c, i) = "NONE" THEN {}
                    ELSE AudioSourceEntries \cup {Aec(c, i, Fixed(i))}
           ptz == IF c.ptz THEN {Entry(PtzConfig, 0)} ELSE {}
           outputs == IF M!AudioOutputAvailable(c) THEN OutputEntries(c) ELSE {}
<1>1. FitsAll(c, {Profile(i, name), Vec(i, name)})
  BY ProfileEntriesFit DEF FitsAll
<1>2. FitsAll(c, audio)
  BY ProfileEntriesFit, DeviceEntriesFit, FitsUnion, FixedTexts
<1>3. FitsAll(c, ptz) /\ FitsAll(c, outputs)
  BY DeviceEntriesFit, FitsUnion
<1>4. M!Block(c, i, name)
        = {Profile(i, name), Vec(i, name)} \cup VideoSourceEntries \cup audio
          \cup ptz \cup outputs
  BY MediaSame DEF M!Block
<1>5. FitsAll(c, VideoSourceEntries)
  BY DeviceEntriesFit
<1> HIDE DEF audio, ptz, outputs
<1> QED
  BY <1>1, <1>2, <1>3, <1>4, <1>5 DEF FitsAll

LEMMA MediaProfilesProper ==
  ASSUME NEW c, IsConf(c), NEW ask, IsAsk(ask)
  PROVE  /\ Proper(c, M!GetProfiles(c, ask)) /\ Proper(c, M!GetProfile(c, ask))
         /\ Proper(c, M!CreateProfile(c, ask)) /\ Proper(c, M!DeleteProfile(c, ask))
         /\ Proper(c, M!GetSnapshotUri(c, ask)) /\ Proper(c, M!GetStreamUri(c, ask))
<1>1. Proper(c, M!GetProfiles(c, ask))
  <2>1. M!GetProfiles(c, ask) = Ok(UNION {M!Block(c, i, Fixed(i)) : i \in Present(c)})
    BY MediaSame DEF M!GetProfiles
  <2>2. \A T \in {M!Block(c, i, Fixed(i)) : i \in Present(c)} : FitsAll(c, T)
    BY MediaBlockFits, FixedTexts
  <2> QED
    BY <2>1, <2>2, FitsUnion, ReplyProper
<1>2. Proper(c, M!GetProfile(c, ask))
  <2> DEFINE found == [i \in Present(c) |-> Ok(M!Block(c, i, ask.profile.of))]
  <2>1. ask.profile # Null =>
          \A i \in Present(c) : NameAt(c, i) = Whole(ask.profile) => Proper(c, found[i])
    BY AskTexts, MediaBlockFits, ReplyProper
  <2>2. M!GetProfile(c, ask)
          = IF ask.profile = Null THEN NoProfile
            ELSE Pick(c, Guarded(c), Whole(ask.profile), found, NoProfile)
    BY MediaSame DEF M!GetProfile
  <2> HIDE DEF found
  <2> QED
    BY <2>1, <2>2, AskTexts, PickProper, RefusalsProper
<1>3. Proper(c, M!CreateProfile(c, ask)) /\ Proper(c, M!DeleteProfile(c, ask))
  BY RefusalsProper, MediaSame DEF M!CreateProfile, M!DeleteProfile
<1>4. Proper(c, M!GetSnapshotUri(c, ask))
  BY AskTexts, PickProper, RefusalsProper, ReplyProper, ProfileEntriesFit, FixedTexts,
     MediaSame DEF M!GetSnapshotUri
<1>5. Proper(c, M!GetStreamUri(c, ask))
  BY AskTexts, PickProper, RefusalsProper, ReplyProper, ProfileEntriesFit, FixedTexts,
     MediaSame DEF M!GetStreamUri
<1> QED
  BY <1>1, <1>2, <1>3, <1>4, <1>5
LEMMA MediaEncodersProper ==
  ASSUME NEW c, IsConf(c), NEW ask, IsAsk(ask)
  PROVE  /\ Proper(c, M!GetVideoEncoderConfigurations(c, ask))
         /\ Proper(c, M!GetVideoEncoderConfiguration(c, ask))
         /\ Proper(c, M!GetCompatibleVideoEncoderConfigurations(c, ask))
         /\ Proper(c, M!GetVideoEncoderConfigurationOptions(c, ask))
         /\ ask.config # Null
              => Proper(c, M!GetGuaranteedNumberOfVideoEncoderInstances(c, ask))
         /\ Proper(c, M!GetAudioEncoderConfigurations(c, ask))
         /\ Proper(c, M!GetAudioEncoderConfiguration(c, ask))
         /\ Proper(c, M!GetCompatibleAudioEncoderConfigurations(c, ask))
         /\ Proper(c, M!GetAudioEncoderConfigurationOptions(c, ask))
<1>1. Proper(c, M!GetVideoEncoderConfigurations(c, ask))
  <2>1. \A e \in {Vec(i, Fixed(i)) : i \in Present(c)} : FitsAll(c, {e})
    BY ProfileEntriesFit, FixedTexts
  <2>2. Proper(c, Ok({Vec(i, Fixed(i)) : i \in Present(c)}))
    BY <2>1, FitsUnion, ReplyProper
  <2> QED
    BY <2>2, RefusalsProper, MediaSame DEF M!GetVideoEncoderConfigurations
<1>2. Proper(c, M!GetVideoEncoderConfiguration(c, ask))
  BY AskTexts, PickProper, RefusalsProper, ReplyProper, ProfileEntriesFit, MediaSame
     DEF M!GetVideoEncoderConfiguration
<1>3. Proper(c, M!GetCompatibleVideoEncoderConfigurations(c, ask))
  BY AskTexts, PickProper, RefusalsProper, ReplyProper, ProfileEntriesFit, MediaSame
     DEF M!GetCompatibleVideoEncoderConfigurations
<1>4. Proper(c, M!GetVideoEncoderConfigurationOptions(c, ask))
  BY AskTexts, PickProper, RefusalsProper, ReplyProper, ProfileEntriesFit, FixedTexts,
     MediaSame DEF M!GetVideoEncoderConfigurationOptions
<1>5. ask.config # Null
        => Proper(c, M!GetGuaranteedNumberOfVideoEncoderInstances(c, ask))
  BY RefusalsProper, MediaSame DEF M!GetGuaranteedNumberOfVideoEncoderInstances
<1>6. Proper(c, M!GetAudioEncoderConfigurations(c, ask))
  <2>1. \A e \in {Aec(c, i, Fixed(i)) : i \in Encoding(c)} : FitsAll(c, {e})
    BY ProfileEntriesFit, FixedTexts DEF Encoding, Present
  <2>2. Proper(c, Ok({Aec(c, i, Fixed(i)) : i \in Encoding(c)}))
    BY <2>1, FitsUnion, ReplyProper
  <2> QED
    BY <2>2, RefusalsProper, MediaSame DEF M!GetAudioEncoderConfigurations
<1>7. Proper(c, M!GetAudioEncoderConfiguration(c, ask))
  BY AskTexts, PickProper, RefusalsProper, ReplyProper, ProfileEntriesFit, MediaSame
     DEF M!GetAudioEncoderConfiguration
<1>8. Proper(c, M!GetCompatibleAudioEncoderConfigurations(c, ask))
  BY AskTexts, PickProper, RefusalsProper, ReplyProper, ProfileEntriesFit, MediaSame
     DEF M!GetCompatibleAudioEncoderConfigurations
<1>9. Proper(c, M!GetAudioEncoderConfigurationOptions(c, ask))
  <2> DEFINE first == CHOOSE i \in Encoding(c) : \A j \in Encoding(c) : i <= j
             text == ConfigFirst(ask, CutName(NameAt(c, first)))
             nothing == ask.profile = Null /\ ask.config = Null
             found == [i \in Present(c) |->
                         IF M!Offered(EncoderAt(c, i))
                         THEN Ok({Coded(Null, i, EncoderAt(c, i))}) ELSE NoAudio]
  <2>1. M!GetAudioEncoderConfigurationOptions(c, ask)
          = IF nothing /\ Encoding(c) = {} THEN NoAudio
            ELSE Pick(c, Guarded(c), text, found, NoProfile)
    <3>1. M!EncodingOptions(c) = found
      BY MediaSame DEF M!EncodingOptions
    <3>2. /\ M!Encoding(c) = Encoding(c)
          /\ M!CutName(M!NameAt(c, first)) = CutName(NameAt(c, first))
      BY MediaSame
    <3>3. M!ConfigFirst(ask, CutName(NameAt(c, first))) = text
      BY MediaSame
    <3> HIDE DEF found
    <3>4. M!Pick(c, M!Guarded(c), text, found, M!NoProfile)
            = Pick(c, Guarded(c), text, found, NoProfile)
      BY MediaSame
    <3>5. M!NoAudio = NoAudio
      BY MediaSame
    <3> QED
      BY <3>1, <3>2, <3>3, <3>4, <3>5 DEF M!GetAudioEncoderConfigurationOptions
  <2>2. \A i \in Present(c) : Proper(c, found[i])
    BY ReplyProper, RefusalsProper, ProfileEntriesFit, FixedTexts
  <2>3. Encoding(c) # {} => first \in Present(c)
    <3>1. Encoding(c) \subseteq Nat /\ Encoding(c) \subseteq Present(c)
      BY DEF Encoding, Present, IsConf
    <3> QED
      BY <3>1, LeastElement
  <2>4. ~ (nothing /\ Encoding(c) = {})
          => text \in Texts \cup {Null} /\ (Named(c) => text # Null)
    <3>1. Encoding(c) # {} => first \in 1 .. Len(c.profiles)
      BY <2>3 DEF Present, IsConf
    <3> HIDE DEF first
    <3>2. Encoding(c) # {} => /\ CutName(NameAt(c, first)) \in Texts \cup {Null}
                              /\ Named(c) => CutName(NameAt(c, first)) # Null
      BY <2>3, <3>1, NameTexts DEF Named
    <3> QED
      BY <3>2, AskedTexts
  <2> HIDE DEF text, found
  <2> QED
    BY <2>1, <2>2, <2>4, PickProper, RefusalsProper
<1> QED
  BY <1>1, <1>2, <1>3, <1>4, <1>5, <1>6, <1>7, <1>8, <1>9

LEMMA MediaDecodersProper ==
  ASSUME NEW c, IsConf(c), NEW ask, IsAsk(ask)
  PROVE  /\ Proper(c, M!GetAudioDecoderConfigurations(c, ask))
         /\ Proper(c, M!GetAudioDecoderConfiguration(c, ask))
         /\ Proper(c, M!GetCompatibleAudioDecoderConfigurations(c, ask))
         /\ Proper(c, M!GetAudioDecoderConfigurationOptions(c, ask))
         /\ Proper(c, M!GetAudioOutputs(c, ask))
         /\ Proper(c, M!GetAudioOutputConfiguration(c, ask))
         /\ Proper(c, M!GetAudioOutputConfigurations(c, ask))
         /\ Proper(c, M!GetCompatibleAudioOutputConfigurations(c, ask))
         /\ Proper(c, M!GetAudioOutputConfigurationOptions(c, ask))
<1>1. Proper(c, M!GetAudioDecoderConfigurations(c, ask))
  <2>1. \A e \in {Adec(i, Fixed(i)) : i \in Decoding(c)} : FitsAll(c, {e})
    BY ProfileEntriesFit, FixedTexts DEF Decoding, Present
  <2>2. Proper(c, Ok({Adec(i, Fixed(i)) : i \in Decoding(c)}))
    BY <2>1, FitsUnion, ReplyProper
  <2>3. c.num = 0 => Proper(c, Silent)
    BY ReplyProper DEF Named, Present
  <2> QED
    BY <2>2, <2>3, RefusalsProper, MediaSame DEF M!GetAudioDecoderConfigurations
<1>2. Proper(c, M!GetAudioDecoderConfiguration(c, ask))
  BY AskTexts, PickProper, RefusalsProper, ReplyProper, ProfileEntriesFit, MediaSame
     DEF M!GetAudioDecoderConfiguration
<1>3. Proper(c, M!GetCompatibleAudioDecoderConfigurations(c, ask))
  BY AskTexts, PickProper, RefusalsProper, ReplyProper, ProfileEntriesFit, MediaSame
     DEF M!GetCompatibleAudioDecoderConfigurations
<1>4. Proper(c, M!GetAudioDecoderConfigurationOptions(c, ask))
  <2> DEFINE found == [i \in Present(c) |-> M!DecodingOptions(DecoderAt(c, i), i)]
             missing == M!DecodingOptions(c.junk.codec, 0)
  <2>1. M!GetAudioDecoderConfigurationOptions(c, ask)
          = Pick(c, Bold(c), ConfigFirst(ask, FirstName(c)), found, missing)
    BY MediaSame DEF M!GetAudioDecoderConfigurationOptions
  <2>2. \A i \in Present(c) : Proper(c, found[i])
    BY ReplyProper, RefusalsProper, ProfileEntriesFit, FixedTexts, MediaSame
       DEF M!DecodingOptions
  <2>3. FitsAll(c, {Coded(Null, 0, c.junk.codec)})
    BY DEF FitsAll, Fits, TrueCodec, WellNamed, Coded, IsConf
  <2>4. Proper(c, missing)
    BY <2>3, ReplyProper, RefusalsProper, MediaSame DEF M!DecodingOptions
  <2> HIDE DEF found, missing
  <2> QED
    BY <2>1, <2>2, <2>4, AskTexts, PickProper
<1>5. /\ Proper(c, M!GetAudioOutputs(c, ask))
      /\ Proper(c, M!GetAudioOutputConfiguration(c, ask))
      /\ Proper(c, M!GetAudioOutputConfigurations(c, ask))
      /\ Proper(c, M!GetCompatibleAudioOutputConfigurations(c, ask))
      /\ Proper(c, M!GetAudioOutputConfigurationOptions(c, ask))
  <2>1. Proper(c, Ok({Entry(AudioOutput, 0)})) /\ Proper(c, Ok(OutputEntries(c)))
    BY ReplyProper, DeviceEntriesFit
  <2> QED
    BY <2>1, RefusalsProper, MediaSame
       DEF M!IfOutputs, M!GetAudioOutputs, M!GetAudioOutputConfiguration,
           M!GetAudioOutputConfigurations, M!GetCompatibleAudioOutputConfigurations,
           M!GetAudioOutputConfigurationOptions
<1> QED
  BY <1>1, <1>2, <1>3, <1>4, <1>5

LEMMA MediaSettersProper ==
  ASSUME NEW c, NEW ask
  PROVE  /\ Proper(c, M!SetVideoSourceConfiguration(c, ask))
         /\ Proper(c, M!SetAudioSourceConfiguration(c, ask))
         /\ Proper(c, M!SetAudioOutputConfiguration(c, ask))
         /\ Proper(c, M!SetVideoEncoderConfiguration(c, ask))
         /\ Proper(c, M!SetAudioEncoderConfiguration(c, ask))
         /\ Proper(c, M!SetMetadataConfiguration(c, ask))
         /\ Proper(c, M!GetMetadata(c, ask)) /\ Proper(c, M!AddOrRemove(c, ask))
         /\ Proper(c, M!GetMetadataConfiguration(c, ask))
         /\ Proper(c, M!StartMulticastStreaming(c, ask))
         /\ Proper(c, M!StopMulticastStreaming(c, ask))
         /\ Proper(c, M!SetSynchronizationPoint(c, ask))
         /\ Proper(c, M!GetServiceCapabilities(c, ask))
         /\ Proper(c, M!Unsupported(c, ask))
BY RefusalsProper, MediaSame
   DEF M!SetVideoSourceConfiguration, M!SetAudioSourceConfiguration,
       M!SetAudioOutputConfiguration, M!SetVideoEncoderConfiguration,
       M!SetAudioEncoderConfiguration, M!SetMetadataConfiguration, M!Fixedly,
       M!GetMetadata, M!AddOrRemove, M!GetMetadataConfiguration,
       M!StartMulticastStreaming, M!StopMulticastStreaming, M!SetSynchronizationPoint,
       M!GetServiceCapabilities, M!Unsupported

LEMMA MediaProper ==
  ASSUME NEW c, IsConf(c), NEW ask, IsAsk(ask), NEW method,
         method = "GetGuaranteedNumberOfVideoEncoderInstances" => ask.config # Null
  PROVE  Proper(c, M!Handle(c, method, ask))
BY MediaSourcesProper, MediaProfilesProper, MediaEncodersProper,
   MediaDecodersProper, MediaSettersProper DEF M!Handle
LEMMA Media2Same ==
  /\ \A c, n, text, found, missing :
       M2!Pick(c, n, text, found, missing) = Pick(c, n, text, found, missing)
  /\ \A c, n, text : M2!Find(c, n, text) = Find(c, n, text)
  /\ \A c, i : M2!NameAt(c, i) = NameAt(c, i)
  /\ \A c, reply : M2!NeedsFirst(c, reply) = NeedsFirst(c, reply)
  /\ \A c : /\ M2!FirstName(c) = FirstName(c)
            /\ M2!FirstNameIfAny(c) = FirstNameIfAny(c)
            /\ M2!Guarded(c) = Guarded(c) /\ M2!Bold(c) = Bold(c)
            /\ M2!Present(c) = Present(c)
            /\ M2!Encoding(c) = Encoding(c) /\ M2!Decoding(c) = Decoding(c)
            /\ M2!OutputEntries(c) = OutputEntries(c)
  /\ \A ask, default :
       /\ M2!ProfileFirst(ask, default) = ProfileFirst(ask, default)
       /\ M2!ConfigFirst(ask, default) = ConfigFirst(ask, default)
  /\ \A t : M2!Whole(t) = Whole(t) /\ M2!Cut(t) = Cut(t)
  /\ \A name : M2!CutName(name) = CutName(name)
  /\ \A t, text : M2!Says(t, text) = Says(t, text)
  /\ M2!VideoSourceEntries = VideoSourceEntries
  /\ M2!AudioSourceEntries = AudioSourceEntries
  /\ M2!VideoSource = VideoSource /\ M2!AudioSource = AudioSource
  /\ M2!AudioOutput = AudioOutput /\ M2!PtzConfig = PtzConfig
  /\ \A i : M2!Fixed(i) = Fixed(i) /\ M2!Shown(i) = Shown(i)
  /\ \A c, i : M2!EncoderAt(c, i) = EncoderAt(c, i) /\ M2!DecoderAt(c, i) = DecoderAt(c, i)
  /\ \A kind, of : M2!Token(kind, of) = Token(kind, of)
  /\ \A t, i : M2!Entry(t, i) = Entry(t, i)
  /\ \A t, i, codec : M2!Coded(t, i, codec) = Coded(t, i, codec)
  /\ \A i, name : /\ M2!Profile(i, name) = Profile(i, name)
                  /\ M2!Vec(i, name) = Vec(i, name) /\ M2!Adec(i, name) = Adec(i, name)
  /\ \A c, i, name : M2!Aec(c, i, name) = Aec(c, i, name)
  /\ \A S : M2!Ok(S) = Ok(S)
  /\ \A fault : M2!Fault(fault) = Fault(fault)
  /\ M2!Done = Done /\ M2!Crashed = Crashed /\ M2!Silent = Silent
  /\ M2!NoProfile = NoProfile /\ M2!NoConfig = NoConfig /\ M2!NoAudio = NoAudio
  /\ M2!NoDecoding = NoDecoding /\ M2!NoOutputs = NoOutputs
  /\ M2!ConfigModify = ConfigModify /\ M2!Incomplete = Incomplete
BY DEF Pick, M2!Pick, Find, M2!Find, NameAt, M2!NameAt, NeedsFirst,
   M2!NeedsFirst, FirstName, M2!FirstName, FirstNameIfAny,
   M2!FirstNameIfAny, Guarded, M2!Guarded, Bold, M2!Bold, Present,
   M2!Present, Encoding, M2!Encoding, Decoding, M2!Decoding,
   OutputEntries, M2!OutputEntries, ProfileFirst, M2!ProfileFirst,
   ConfigFirst, M2!ConfigFirst, Whole, M2!Whole, Cut, M2!Cut, CutName,
   M2!CutName, Says, M2!Says, VideoSourceEntries, M2!VideoSourceEntries,
   AudioSourceEntries, M2!AudioSourceEntries, VideoSource,
   M2!VideoSource, AudioSource, M2!AudioSource, AudioOutput,
   M2!AudioOutput, PtzConfig, M2!PtzConfig, Fixed, M2!Fixed, Shown,
   M2!Shown, EncoderAt, M2!EncoderAt, DecoderAt, M2!DecoderAt, Token,
   M2!Token, Entry, M2!Entry, Coded, M2!Coded, Profile, M2!Profile, Vec,
   M2!Vec, Adec, M2!Adec, Aec, M2!Aec, Ok, M2!Ok, Fault, M2!Fault, Done,
   M2!Done, Crashed, M2!Crashed, Silent, M2!Silent, NoProfile,
   M2!NoProfile, NoConfig, M2!NoConfig, NoAudio, M2!NoAudio, NoDecoding,
   M2!NoDecoding, NoOutputs, M2!NoOutputs, ConfigModify, M2!ConfigModify,
   Incomplete, M2!Incomplete, AudioOutputConfig, M2!AudioOutputConfig,
   VideoSourceConfig, M2!VideoSourceConfig, AudioSourceConfig,
   M2!AudioSourceConfig, OfProfile, M2!OfProfile, FixedNames,
   M2!FixedNames

-----------------------------------------------------------------------------
(* The methods of Media2.                                                  *)

\* GetProfiles may show the values of another profile
Shapely(c, reply) ==
  reply.fault \in Faults /\ \A e \in reply.entries : Fits(c, e) /\ TrueCodec(c, e)
Lent(e, i) ==
  e.token # Null /\ e.token.kind \in {"vec", "aec"} /\ e.token.of = Fixed(i)

\* a handler that compares two names is safe where there are two
ProperForTwo(c, reply) ==
  /\ reply.fault \in Faults
  /\ FitsAll(c, reply.entries)
  /\ c.num = 2 => Responds(c, reply)

LEMMA Media2BlockFits ==
  ASSUME NEW c, IsConf(c), NEW i \in Present(c), NEW valuesOf \in Present(c), NEW types
  PROVE  /\ \A e \in M2!Block(c, i, types, valuesOf) :
              Fits(c, e) /\ TrueCodec(c, e) /\ (WellNamed(c, e) \/ Lent(e, i))
         /\ valuesOf = i => FitsAll(c, M2!Block(c, i, types, valuesOf))
<1> DEFINE lent == {Vec(valuesOf, Fixed(i)), Aec(c, valuesOf, Fixed(i))}
           rest == {Profile(i, Fixed(i)), Adec(i, Fixed(i)), Entry(PtzConfig, 0)}
                   \cup VideoSourceEntries \cup AudioSourceEntries \cup OutputEntries(c)
<1>1. M2!Block(c, i, types, valuesOf) \subseteq lent \cup rest
  BY Media2Same DEF M2!Block, M2!If
<1>2. FitsAll(c, rest)
  <2>1. FitsAll(c, {Profile(i, Fixed(i))}) /\ FitsAll(c, {Adec(i, Fixed(i))})
    BY ProfileEntriesFit, FixedTexts
  <2>2. FitsAll(c, {Entry(PtzConfig, 0)}) /\ FitsAll(c, VideoSourceEntries)
        /\ FitsAll(c, AudioSourceEntries) /\ FitsAll(c, OutputEntries(c))
    BY DeviceEntriesFit
  <2> QED
    BY <2>1, <2>2 DEF FitsAll
<1>3. \A e \in lent : Fits(c, e) /\ TrueCodec(c, e) /\ Lent(e, i)
  <2>1. \A kind \in {"vec", "aec"} :
          /\ Token(kind, Fixed(i)) \in Tokens /\ Token(kind, Fixed(i)) # Null
          /\ Token(kind, Fixed(i)).kind = kind /\ Token(kind, Fixed(i)).of = Fixed(i)
    BY TokensAreSet, FixedTexts DEF Kinds, OfProfile, Token
  <2>2. /\ EncoderAt(c, valuesOf) \in Codecs /\ "NONE" \in Codecs
        /\ valuesOf \in Nat /\ valuesOf \in 0 .. c.num
    BY CodecTypes DEF IsConf, Present, Codecs
  <2> QED
    BY <2>1, <2>2 DEF Fits, TrueCodec, Lent, Vec, Aec, Entry, Coded
<1>4. valuesOf = i => FitsAll(c, lent)
  BY ProfileEntriesFit, FixedTexts DEF FitsAll
<1> HIDE DEF lent, rest
<1> QED
  BY <1>1, <1>2, <1>3, <1>4 DEF FitsAll

LEMMA Media2GetProfiles ==
  ASSUME NEW c, IsConf(c), NEW ask, IsAsk(ask)
  PROVE  LET reply == M2!GetProfiles(c, ask)
         IN /\ Shapely(c, reply) /\ Responds(c, reply)
            /\ ask.profile = Null => Proper(c, reply)
            /\ \A e \in reply.entries : WellNamed(c, e) \/ Lent(e, 2)
<1> DEFINE Fine(reply) == /\ Shapely(c, reply) /\ Responds(c, reply)
                          /\ \A e \in reply.entries : WellNamed(c, e) \/ Lent(e, 2)
<1>0. ASSUME NEW reply, Proper(c, reply)
      PROVE  Fine(reply)
  BY <1>0 DEF Proper, Shapely, FitsAll
<1>1. CASE c.num = 0
  <2>1. M2!GetProfiles(c, ask) = Ok({})
    BY <1>1, Media2Same DEF M2!GetProfiles
  <2> QED
    BY <1>0, <2>1, ReplyProper, FitsUnion
<1>2. CASE c.num # 0 /\ ask.profile = Null
  <2> DEFINE blocks == {M2!Block(c, i, ask.words, i) : i \in Present(c)}
  <2>1. M2!GetProfiles(c, ask) = Ok(UNION blocks)
    BY <1>2, Media2Same DEF M2!GetProfiles
  <2>2. \A T \in blocks : FitsAll(c, T)
    BY Media2BlockFits
  <2> HIDE DEF blocks
  <2> QED
    BY <1>0, <2>1, <2>2, ReplyProper, FitsUnion
<1>3. CASE c.num # 0 /\ ask.profile # Null
  <2> DEFINE found == [i \in Present(c) |-> Ok(M2!Block(c, i, ask.words, 1))]
  <2>1. M2!GetProfiles(c, ask) = Pick(c, Guarded(c), Whole(ask.profile), found, NoProfile)
    BY <1>3, Media2Same DEF M2!GetProfiles
  <2>2. ASSUME NEW i \in Present(c)
        PROVE  Fine(found[i])
    <3>1. 1 \in Present(c)
      BY <1>3 DEF IsConf, Present
    <3>2. found[i] = Ok(M2!Block(c, i, ask.words, 1))
      OBVIOUS
    <3> HIDE DEF found
    <3>3. \A e \in M2!Block(c, i, ask.words, 1) :
            Fits(c, e) /\ TrueCodec(c, e) /\ (WellNamed(c, e) \/ Lent(e, i))
      BY <3>1, Media2BlockFits
    <3>4. i = 1 => FitsAll(c, M2!Block(c, i, ask.words, 1))
      BY <3>1, Media2BlockFits
    <3>5. i = 1 \/ i = 2
      BY DEF Present, IsConf
    <3> QED
      BY <3>2, <3>3, <3>4, <3>5 DEF Shapely, Responds, FitsAll, Ok, Faults
  <2>3. Fine(NoProfile)
    BY <1>0, RefusalsProper
  <2>4. ~ Named(c) => Fine(Crashed)
    BY <1>0, ReplyProper
  <2> HIDE DEF found
  <2> QED
    BY <1>3, <2>1, <2>2, <2>3, <2>4, AskTexts, PickOutcome
<1> QED
  BY <1>1, <1>2, <1>3

\* the codec, the name and the like of the first profile that has one
LEMMA FirstNameOfSome ==
  ASSUME NEW c, IsConf(c), NEW some, some \subseteq Present(c), some # {}
  PROVE  /\ M2!FirstNameOf(c, some) \in Texts \cup {Null}
         /\ Named(c) => M2!FirstNameOf(c, some) # Null
<1> DEFINE i == CHOOSE i \in some : \A j \in some : i <= j
<1>1. i \in some
  <2>1. some \subseteq Nat
    BY DEF Present
  <2> QED
    BY <2>1, LeastElement
<1>2. M2!FirstNameOf(c, some) = CutName(NameAt(c, i))
  BY Media2Same DEF M2!FirstNameOf
<1> HIDE DEF i
<1>3. i \in Present(c) /\ i \in 1 .. Len(c.profiles)
  BY <1>1 DEF Present, IsConf
<1> QED
  BY <1>2, <1>3, NameTexts DEF Named
LEMMA EitherProper ==
  ASSUME NEW c, IsConf(c), NEW text \in Texts \cup {Null},
         Named(c) => text # Null, NEW fixed, NEW reply, Proper(c, reply)
  PROVE  /\ Proper(c, M2!Either(c, Guarded(c), text, fixed, reply))
         /\ ProperForTwo(c, NeedsFirst(c, M2!Either(c, 2, text, fixed, reply)))
<1> DEFINE missing == IF text = fixed THEN reply ELSE NoConfig
           both == <<reply, reply>>
<1>1. Proper(c, missing)
  BY RefusalsProper
<1>2. /\ \A i \in 1 .. 2 : both[i] = reply
      /\ Present(c) \subseteq 1 .. 2
  BY DEF IsConf, Present
<1>3. \A n : M2!Either(c, n, text, fixed, reply) = Pick(c, n, text, both, missing)
  BY Media2Same DEF M2!Either
<1> HIDE DEF missing, both
<1>4. Proper(c, M2!Either(c, Guarded(c), text, fixed, reply))
  BY <1>1, <1>2, <1>3, PickProper
<1>5. Proper(c, M2!Either(c, 2, text, fixed, reply))
      \/ /\ ~ (Named(c) /\ c.num = 2)
         /\ M2!Either(c, 2, text, fixed, reply) = Crashed
  BY <1>1, <1>2, <1>3, PickTwoOutcome
<1>6. \A x : Proper(c, x) => ProperForTwo(c, x)
  BY DEF Proper, ProperForTwo
<1>7. ~ (Named(c) /\ c.num = 2) => ProperForTwo(c, Crashed)
  BY DEF ProperForTwo, Crashed, Fault, FitsAll, Responds, Sound, Faults
<1> QED
  BY <1>4, <1>5, <1>6, <1>7, NeedsFirstProper DEF NeedsFirst

LEMMA Media2TwoProper ==
  ASSUME NEW c, IsConf(c), NEW ask, IsAsk(ask)
  PROVE  /\ ProperForTwo(c, M2!GetVideoSourceConfigurations(c, ask))
         /\ ProperForTwo(c, M2!GetVideoSourceConfigurationOptions(c, ask))
         /\ ProperForTwo(c, M2!GetAudioSourceConfigurations(c, ask))
         /\ ProperForTwo(c, M2!GetAudioOutputConfigurations(c, ask))
<1> DEFINE text == ProfileFirst(ask, FirstNameIfAny(c))
<1>1. text \in Texts \cup {Null} /\ (Named(c) => text # Null)
  BY AskTexts
<1>2. M2!ProfileFirst(ask, M2!FirstNameIfAny(c)) = text
  BY Media2Same
<1> HIDE DEF text
<1>3. ProperForTwo(c, M2!GetVideoSourceConfigurations(c, ask))
  <2>1. Proper(c, Ok(VideoSourceEntries))
    BY ReplyProper, DeviceEntriesFit
  <2>2. M2!GetVideoSourceConfigurations(c, ask)
          = NeedsFirst(c, M2!Either(c, 2, text, "VideoSourceConfigToken",
                                    Ok(VideoSourceEntries)))
    BY <1>2, Media2Same DEF M2!GetVideoSourceConfigurations, M2!FirstTwo
  <2> QED
    BY <1>1, <2>1, <2>2, EitherProper
<1>4. ProperForTwo(c, M2!GetVideoSourceConfigurationOptions(c, ask))
  <2>1. Proper(c, Ok({Entry(VideoSource, 1)}))
    BY ReplyProper, DeviceEntriesFit
  <2>2. M2!GetVideoSourceConfigurationOptions(c, ask)
          = NeedsFirst(c, M2!Either(c, 2, text, "VideoSourceConfigToken",
                                    Ok({Entry(VideoSource, 1)})))
    BY <1>2, Media2Same DEF M2!GetVideoSourceConfigurationOptions, M2!FirstTwo
  <2> QED
    BY <1>1, <2>1, <2>2, EitherProper
<1>5. ProperForTwo(c, M2!GetAudioSourceConfigurations(c, ask))
  <2> DEFINE reply == IF Encoding(c) = {} THEN NoAudio ELSE Ok(AudioSourceEntries)
  <2>1. Proper(c, reply)
    BY ReplyProper, RefusalsProper, DeviceEntriesFit
  <2>2. M2!GetAudioSourceConfigurations(c, ask)
          = NeedsFirst(c, M2!Either(c, 2, text, "AudioSourceConfigToken", reply))
    BY <1>2, Media2Same DEF M2!GetAudioSourceConfigurations, M2!FirstTwo
  <2> HIDE DEF reply
  <2> QED
    BY <1>1, <2>1, <2>2, EitherProper
<1>6. ProperForTwo(c, M2!GetAudioOutputConfigurations(c, ask))
  <2> DEFINE reply == IF M2!AudioOutputSupported(c) THEN Ok(OutputEntries(c)) ELSE NoOutputs
  <2>1. Proper(c, reply)
    BY ReplyProper, RefusalsProper, DeviceEntriesFit
  <2>2. M2!GetAudioOutputConfigurations(c, ask)
          = NeedsFirst(c, M2!Either(c, 2, text, "AudioOutputConfigToken", reply))
    BY <1>2, Media2Same DEF M2!GetAudioOutputConfigurations, M2!FirstTwo
  <2> HIDE DEF reply
  <2> QED
    BY <1>1, <2>1, <2>2, EitherProper
<1> QED
  BY <1>3, <1>4, <1>5, <1>6

LEMMA Media2SourcesProper ==
  ASSUME NEW c, IsConf(c), NEW ask, IsAsk(ask)
  PROVE  /\ Proper(c, M2!GetServiceCapabilities(c, ask))
         /\ Proper(c, M2!GetSnapshotUri(c, ask)) /\ Proper(c, M2!GetStreamUri(c, ask))
         /\ ask.config # Null => Proper(c, M2!GetVideoSourceModes(c, ask))
         /\ Proper(c, M2!GetVideoEncoderConfigurations(c, ask))
         /\ Proper(c, M2!GetVideoEncoderConfigurationOptions(c, ask))
         /\ Proper(c, M2!GetAudioSourceConfigurationOptions(c, ask))
<1>1. Proper(c, M2!GetServiceCapabilities(c, ask))
  BY NeedsFirstProper, RefusalsProper, Media2Same DEF M2!GetServiceCapabilities
<1>2. Proper(c, M2!GetSnapshotUri(c, ask))
  BY AskTexts, PickProper, RefusalsProper, ReplyProper, ProfileEntriesFit, FixedTexts,
     Media2Same DEF M2!GetSnapshotUri
<1>3. Proper(c, M2!GetStreamUri(c, ask))
  BY AskTexts, PickProper, RefusalsProper, ReplyProper, ProfileEntriesFit, FixedTexts,
     Media2Same DEF M2!GetStreamUri
<1>4. ask.config # Null => Proper(c, M2!GetVideoSourceModes(c, ask))
  <2>1. Proper(c, Ok({Shown(1)}))
    BY ReplyProper, DeviceEntriesFit
  <2> QED
    BY <2>1, NeedsFirstProper, RefusalsProper, Media2Same DEF M2!GetVideoSourceModes
<1>5. Proper(c, M2!GetVideoEncoderConfigurations(c, ask))
  <2>1. \A e \in {Vec(i, Fixed(i)) : i \in Present(c)} : FitsAll(c, {e})
    BY ProfileEntriesFit, FixedTexts
  <2>2. Proper(c, Ok({Vec(i, Fixed(i)) : i \in Present(c)}))
    BY <2>1, FitsUnion, ReplyProper
  <2>3. c.num = 0 => Proper(c, Silent)
    BY ReplyProper DEF Named, Present
  <2> DEFINE found == [i \in Present(c) |-> Ok({Vec(i, Fixed(i))})]
  <2>4. \A i \in Present(c) : Proper(c, found[i])
    BY ReplyProper, ProfileEntriesFit, FixedTexts
  <2>5. M2!GetVideoEncoderConfigurations(c, ask)
          = IF M2!NothingAsked(ask)
            THEN IF c.num = 0 THEN Silent ELSE Ok({Vec(i, Fixed(i)) : i \in Present(c)})
            ELSE Pick(c, Guarded(c), ConfigFirst(ask, "*"), found, NoProfile)
    BY Media2Same DEF M2!GetVideoEncoderConfigurations
  <2> HIDE DEF found
  <2> QED
    BY <2>2, <2>3, <2>4, <2>5, AskTexts, PickProper, RefusalsProper
<1>6. Proper(c, M2!GetVideoEncoderConfigurationOptions(c, ask))
  BY AskTexts, PickProper, RefusalsProper, ReplyProper, ProfileEntriesFit, FixedTexts,
     Media2Same DEF M2!GetVideoEncoderConfigurationOptions
<1>7. Proper(c, M2!GetAudioSourceConfigurationOptions(c, ask))
  <2> DEFINE text == ProfileFirst(ask, M2!FirstNameOf(c, Encoding(c)))
  <2>1. Encoding(c) \subseteq Present(c)
    BY DEF Encoding, Present
  <2>2. Encoding(c) # {} => text \in Texts \cup {Null} /\ (Named(c) => text # Null)
    BY <2>1, FirstNameOfSome, AskedTexts
  <2>3. M2!GetAudioSourceConfigurationOptions(c, ask)
          = IF Encoding(c) = {} THEN NoAudio
            ELSE M2!Either(c, Guarded(c), text, "AudioSourceConfigToken", Done)
    BY Media2Same DEF M2!GetAudioSourceConfigurationOptions
  <2> HIDE DEF text
  <2> QED
    BY <2>2, <2>3, EitherProper, RefusalsProper
<1> QED
  BY <1>1, <1>2, <1>3, <1>4, <1>5, <1>6, <1>7
LEMMA Media2AudioProper ==
  ASSUME NEW c, IsConf(c), NEW ask, IsAsk(ask)
  PROVE  /\ Proper(c, M2!GetAudioEncoderConfigurations(c, ask))
         /\ Proper(c, M2!GetAudioEncoderConfigurationOptions(c, ask))
         /\ Proper(c, M2!GetAudioOutputConfigurationOptions(c, ask))
         /\ Proper(c, M2!GetAudioDecoderConfigurations(c, ask))
         /\ Proper(c, M2!GetAudioDecoderConfigurationOptions(c, ask))
<1>0. /\ Encoding(c) \subseteq Present(c) /\ Decoding(c) \subseteq Present(c)
      /\ c.num = 0 \/ c.profiles = <<>> => ~ Named(c)
  BY DEF Encoding, Decoding, Present, Named, IsConf
<1>a. M2!NothingAsked(ask) <=> (ask.profile = Null /\ ask.config = Null)
  BY DEF M2!NothingAsked
<1>1. Proper(c, M2!GetAudioEncoderConfigurations(c, ask))
  <2> DEFINE found == [i \in Present(c) |-> IF i \notin Encoding(c) THEN NoAudio
                                            ELSE Ok({Aec(c, i, Fixed(i))})]
             list == Ok({Aec(c, i, Fixed(i)) : i \in Encoding(c)})
  <2>1. \A e \in {Aec(c, i, Fixed(i)) : i \in Encoding(c)} : FitsAll(c, {e})
    BY <1>0, ProfileEntriesFit, FixedTexts
  <2>2. Proper(c, list)
    BY <2>1, FitsUnion, ReplyProper
  <2>3. \A i \in Present(c) : Proper(c, found[i])
    BY ReplyProper, RefusalsProper, ProfileEntriesFit, FixedTexts
  <2>4. M2!GetAudioEncoderConfigurations(c, ask)
          = IF c.profiles = <<>> THEN Crashed
            ELSE IF c.num # 1 /\ Encoding(c) = {}
                    /\ (c.num = 0 => EncoderAt(c, 1) = "NONE") THEN NoAudio
            ELSE IF M2!NothingAsked(ask)
            THEN IF c.num = 0 THEN Silent
                 ELSE IF Encoding(c) = {} THEN NoAudio ELSE list
            ELSE Pick(c, Guarded(c), ConfigFirst(ask, "*"), found, NoProfile)
    BY Media2Same DEF M2!GetAudioEncoderConfigurations
  <2> HIDE DEF found, list
  <2>5. Proper(c, Pick(c, Guarded(c), ConfigFirst(ask, "*"), found, NoProfile))
    BY <2>3, AskTexts, PickProper, RefusalsProper
  <2> QED
    BY <1>0, <2>2, <2>4, <2>5, ReplyProper, RefusalsProper
<1>2. Proper(c, M2!GetAudioEncoderConfigurationOptions(c, ask))
  <2> DEFINE text == ConfigFirst(ask, M2!FirstNameOf(c, Encoding(c)))
             found == [i \in Present(c) |->
                         IF M2!Offered(EncoderAt(c, i))
                         THEN Ok({Coded(Null, i, EncoderAt(c, i))}) ELSE NoAudio]
  <2>1. \A i \in Present(c) : Proper(c, found[i])
    BY ReplyProper, RefusalsProper, ProfileEntriesFit, FixedTexts
  <2>2. ~ (M2!NothingAsked(ask) /\ Encoding(c) = {})
          => text \in Texts \cup {Null} /\ (Named(c) => text # Null)
    BY <1>0, <1>a, FirstNameOfSome, AskedTexts
  <2>3. M2!GetAudioEncoderConfigurationOptions(c, ask)
          = IF M2!NothingAsked(ask) /\ Encoding(c) = {} THEN NoAudio
            ELSE Pick(c, Guarded(c), text, found, NoProfile)
    BY Media2Same DEF M2!GetAudioEncoderConfigurationOptions
  <2> HIDE DEF text, found
  <2> QED
    BY <2>1, <2>2, <2>3, PickProper, RefusalsProper
<1>3. Proper(c, M2!GetAudioOutputConfigurationOptions(c, ask))
  <2> DEFINE text == ProfileFirst(ask, M2!FirstNameOf(c, Decoding(c)))
  <2>1. M2!AudioOutputSupported(c) => text \in Texts \cup {Null} /\ (Named(c) => text # Null)
    BY <1>0, FirstNameOfSome, AskedTexts, Media2Same DEF M2!AudioOutputSupported
  <2>2. Proper(c, Ok({Entry(AudioOutput, 0)}))
    BY ReplyProper, DeviceEntriesFit
  <2>3. M2!GetAudioOutputConfigurationOptions(c, ask)
          = IF ~ M2!AudioOutputSupported(c) THEN NoOutputs
            ELSE M2!Either(c, Guarded(c), text, "AudioOutputConfigToken",
                           Ok({Entry(AudioOutput, 0)}))
    BY Media2Same DEF M2!GetAudioOutputConfigurationOptions
  <2> HIDE DEF text
  <2> QED
    BY <2>1, <2>2, <2>3, EitherProper, RefusalsProper
<1>4. Proper(c, M2!GetAudioDecoderConfigurations(c, ask))
  <2> DEFINE found == [i \in Present(c) |-> IF i \notin Decoding(c) THEN NoDecoding
                                            ELSE Ok({Adec(i, Fixed(i))})]
             list == Ok({Adec(i, Fixed(i)) : i \in Decoding(c)})
  <2>1. \A e \in {Adec(i, Fixed(i)) : i \in Decoding(c)} : FitsAll(c, {e})
    BY <1>0, ProfileEntriesFit, FixedTexts
  <2>2. Proper(c, list)
    BY <2>1, FitsUnion, ReplyProper
  <2>3. \A i \in Present(c) : Proper(c, found[i])
    BY ReplyProper, RefusalsProper, ProfileEntriesFit, FixedTexts
  <2>4. M2!GetAudioDecoderConfigurations(c, ask)
          = IF M2!NothingAsked(ask)
            THEN IF c.num = 0 THEN Silent
                 ELSE IF Decoding(c) = {} THEN NoDecoding ELSE list
            ELSE Pick(c, Guarded(c), ConfigFirst(ask, "*"), found, NoConfig)
    BY Media2Same DEF M2!GetAudioDecoderConfigurations
  <2> HIDE DEF found, list
  <2>5. Proper(c, Pick(c, Guarded(c), ConfigFirst(ask, "*"), found, NoConfig))
    BY <2>3, AskTexts, PickProper, RefusalsProper
  <2> QED
    BY <1>0, <2>2, <2>4, <2>5, ReplyProper, RefusalsProper
<1>5. Proper(c, M2!GetAudioDecoderConfigurationOptions(c, ask))
  <2> DEFINE text == ConfigFirst(ask, M2!FirstNameOf(c, Decoding(c)))
             found == [i \in Present(c) |->
                         IF M2!Offered(DecoderAt(c, i))
                         THEN Ok({Coded(Null, i, DecoderAt(c, i))}) ELSE NoDecoding]
  <2>1. \A i \in Present(c) : Proper(c, found[i])
    BY ReplyProper, RefusalsProper, ProfileEntriesFit, FixedTexts
  <2>2. ~ (M2!NothingAsked(ask) /\ Decoding(c) = {})
          => text \in Texts \cup {Null} /\ (Named(c) => text # Null)
    BY <1>0, <1>a, FirstNameOfSome, AskedTexts
  <2>3. M2!GetAudioDecoderConfigurationOptions(c, ask)
          = IF M2!NothingAsked(ask) /\ Decoding(c) = {} THEN NoDecoding
            ELSE Pick(c, Guarded(c), text, found, NoDecoding)
    BY Media2Same DEF M2!GetAudioDecoderConfigurationOptions
  <2> HIDE DEF text, found
  <2> QED
    BY <2>1, <2>2, <2>3, PickProper, RefusalsProper
<1> QED
  BY <1>1, <1>2, <1>3, <1>4, <1>5

LEMMA Media2SettersProper ==
  ASSUME NEW c, NEW ask
  PROVE  /\ Proper(c, M2!CreateProfile(c, ask)) /\ Proper(c, M2!DeleteProfile(c, ask))
         /\ Proper(c, M2!AddOrRemoveConfiguration(c, ask))
         /\ Proper(c, M2!SetSynchronizationPoint(c, ask))
         /\ Proper(c, M2!GetVideoEncoderInstances(c, ask))
         /\ Proper(c, M2!SetVideoSourceConfiguration(c, ask))
         /\ Proper(c, M2!SetAudioSourceConfiguration(c, ask))
         /\ Proper(c, M2!SetAudioOutputConfiguration(c, ask))
         /\ Proper(c, M2!SetVideoEncoderConfiguration(c, ask))
         /\ Proper(c, M2!SetAudioEncoderConfiguration(c, ask))
         /\ Proper(c, M2!Unsupported(c, ask))
BY RefusalsProper, Media2Same
   DEF M2!CreateProfile, M2!DeleteProfile, M2!AddOrRemoveConfiguration,
       M2!SetSynchronizationPoint, M2!GetVideoEncoderInstances,
       M2!SetVideoSourceConfiguration, M2!SetAudioSourceConfiguration,
       M2!SetAudioOutputConfiguration, M2!SetVideoEncoderConfiguration,
       M2!SetAudioEncoderConfiguration, M2!Fixedly, M2!Unsupported

LEMMA Media2Handles ==
  ASSUME NEW c, IsConf(c), NEW ask, IsAsk(ask), NEW method,
         method = "GetVideoSourceModes" => ask.config # Null
  PROVE  LET reply == M2!Handle(c, method, ask)
         IN IF method = "GetProfiles"
            THEN /\ Shapely(c, reply) /\ Responds(c, reply)
                 /\ ask.profile = Null => Proper(c, reply)
                 /\ \A e \in reply.entries : WellNamed(c, e) \/ Lent(e, 2)
            ELSE IF method \in {"GetVideoSourceConfigurations",
                                "GetVideoSourceConfigurationOptions",
                                "GetAudioSourceConfigurations",
                                "GetAudioOutputConfigurations"}
            THEN ProperForTwo(c, reply)
            ELSE Proper(c, reply)
<1>1. \A x : Proper(c, x) => /\ Shapely(c, x) /\ Responds(c, x) /\ ProperForTwo(c, x)
                             /\ \A e \in x.entries : WellNamed(c, e)
  BY DEF Proper, Shapely, ProperForTwo, FitsAll
<1> QED
  BY <1>1, Media2GetProfiles, Media2TwoProper, Media2SourcesProper,
     Media2AudioProper, Media2SettersProper DEF M2!Handle, M2!SetMethods, M2!ProfileMethods
-----------------------------------------------------------------------------
(* The methods of the Device service, of DeviceIO and of Events.           *)

LEMMA DeviceSame ==
  /\ \A c, reply : D!NeedsFirst(c, reply) = NeedsFirst(c, reply)
  /\ \A t, i : D!Entry(t, i) = Entry(t, i)
  /\ \A kind, of : D!Token(kind, of) = Token(kind, of)
  /\ \A S : D!Ok(S) = Ok(S)
  /\ \A fault : D!Fault(fault) = Fault(fault)
  /\ D!Done = Done
  /\ \A what : D!Info(what) = Info(what)
  /\ \A what, n : D!Count(what, n) = Count(what, n)
BY DEF NeedsFirst, D!NeedsFirst, Entry, D!Entry, Token, D!Token, Ok, D!Ok, Fault,
   D!Fault, Done, D!Done, Crashed, D!Crashed, Info, D!Info, Count, D!Count

LEMMA CountFits ==
  ASSUME NEW c, NEW what \in Texts, NEW n \in Nat
  PROVE  FitsAll(c, {Entry(Token("count", what), n)})
<1>1. Token("count", what) \in Tokens /\ Token("count", what) # Null
      /\ Token("count", what).kind = "count"
  BY TokensAreSet DEF Kinds, Token
<1> QED
  BY <1>1 DEF FitsAll, Fits, TrueCodec, WellNamed, Entry, Codecs, OfProfile

LEMMA InfoProper ==
  ASSUME NEW c, IsConf(c), NEW what \in Texts
  PROVE  Proper(c, Ok({Info(what)}))
BY TokenFits, ReplyProper DEF Info, Kinds, OfProfile

LEMMA DeviceEntriesShown ==
  ASSUME NEW c, IsConf(c)
  PROVE  /\ \A s \in D!Listed(c) \cup {"media2_service"} : FitsAll(c, {D!Service(s)})
         /\ D!Listed(c) \subseteq Texts
         /\ FitsAll(c, D!EventFlags(c)) /\ FitsAll(c, D!IoCounts(c))
         /\ FitsAll(c, {D!Service("device_service")})
         /\ FitsAll(c, {D!Service("media_service")})
         /\ FitsAll(c, {D!Service("events_service")})
         /\ FitsAll(c, {D!Service("ptz_service")})
         /\ FitsAll(c, {D!Service("imaging_service")})
<1>1. /\ D!Listed(c) \cup {"media2_service", "device_service", "media_service",
                           "events_service", "ptz_service", "imaging_service"}
           \subseteq Texts
  BY DEF D!Listed, D!Always, Texts
<1>2. \A s \in Texts : FitsAll(c, {D!Service(s)})
  <2>1. \A s \in Texts : D!Service(s) = Entry(Token("service", s), 0)
    BY DeviceSame DEF D!Service
  <2> QED
    BY <2>1, TokenFits DEF Kinds, OfProfile
<1>3. \A what \in {"pullpoint", "basesubscription", "audio_sources", "audio_outputs",
                   "relay_outputs"} : \A n \in Nat : FitsAll(c, {D!Count(what, n)})
  BY CountFits, DeviceSame DEF Count, Texts
<1>4. Len(c.relays) \in Nat /\ \A condition : D!OneIf(condition) \in Nat
  BY DEF IsConf, D!OneIf
<1>5. FitsAll(c, D!EventFlags(c))
  BY <1>3, <1>4 DEF D!EventFlags, FitsAll
<1>6. FitsAll(c, D!IoCounts(c))
  BY <1>3, <1>4 DEF D!IoCounts, FitsAll
<1> QED
  BY <1>1, <1>2, <1>5, <1>6

LEMMA DeviceProper ==
  ASSUME NEW c, IsConf(c), NEW ask, NEW method
  PROVE  Proper(c, D!Handle(c, method, ask))
<1>0. \A fault \in {"ActionFailed", "NoSuchService", "TooManyUsers", "UsernameMissing"} :
        Proper(c, Fault(fault))
  BY ReplyProper DEF Faults
<1>a. \A reply : Proper(c, reply) => Proper(c, NeedsFirst(c, reply))
  BY NeedsFirstProper
<1> DEFINE listed == {D!Service(s) : s \in D!Listed(c)}
<1>1. FitsAll(c, listed)
  <2>1. \A e \in listed : FitsAll(c, {e})
    BY DeviceEntriesShown
  <2> HIDE DEF listed
  <2> QED
    BY <2>1, FitsUnion
<1>2. Proper(c, D!GetServices(c, ask))
  <2> DEFINE services == {D!Service(s) : s \in D!Listed(c) \cup
                            IF c.media2 THEN {"media2_service"} ELSE {}}
             counts == IF "capabilities" \in ask.words
                       THEN D!EventFlags(c) \cup D!IoCounts(c) ELSE {}
  <2>1. FitsAll(c, services)
    <3>1. \A e \in services : FitsAll(c, {e})
      BY DeviceEntriesShown
    <3> HIDE DEF services
    <3> QED
      BY <3>1, FitsUnion
  <2>2. FitsAll(c, counts)
    BY DeviceEntriesShown DEF FitsAll
  <2>3. D!GetServices(c, ask) = IF ~ c.address THEN Fault("ActionFailed")
                                ELSE NeedsFirst(c, Ok(services \cup counts))
    BY DeviceSame DEF D!GetServices
  <2> HIDE DEF services, counts
  <2>4. FitsAll(c, services \cup counts)
    BY <2>1, <2>2 DEF FitsAll
  <2> QED
    BY <1>0, <1>a, <2>3, <2>4, ReplyProper
<1>3. Proper(c, D!GetCapabilities(c, ask))
  <2>1. \A s \in {"device_service", "media_service", "ptz_service", "imaging_service"} :
          Proper(c, NeedsFirst(c, Ok({D!Service(s)})))
    BY <1>a, DeviceEntriesShown, ReplyProper
  <2>2. Proper(c, NeedsFirst(c, Ok({D!Service("events_service")} \cup D!EventFlags(c))))
    <3>1. FitsAll(c, {D!Service("events_service")} \cup D!EventFlags(c))
      BY DeviceEntriesShown DEF FitsAll
    <3> QED
      BY <1>a, <3>1, ReplyProper
  <2>3. Proper(c, NeedsFirst(c, Ok(listed \cup D!EventFlags(c) \cup D!IoCounts(c))))
    <3> HIDE DEF listed
    <3>1. FitsAll(c, listed \cup D!EventFlags(c) \cup D!IoCounts(c))
      BY <1>1, DeviceEntriesShown DEF FitsAll
    <3> QED
      BY <1>a, <3>1, ReplyProper
  <2> QED
    BY <1>0, <1>a, <2>1, <2>2, <2>3, DeviceSame DEF D!GetCapabilities
<1>4. /\ Proper(c, D!Plain(c, ask)) /\ Proper(c, D!CreateUsers(c, ask))
      /\ Proper(c, D!DeleteUsers(c, ask)) /\ Proper(c, D!Unsupported(c, ask))
  BY <1>0, ReplyProper, DeviceSame
     DEF D!Plain, D!CreateUsers, D!DeleteUsers, D!Unsupported
<1>5. /\ Proper(c, D!GetEndpointReference(c, ask))
      /\ Proper(c, D!GetNetworkInterfaces(c, ask))
  <2>1. "address" \in Texts /\ "network" \in Texts
    BY DEF Texts
  <2> QED
    BY <1>0, <2>1, InfoProper, DeviceSame
       DEF D!GetEndpointReference, D!GetNetworkInterfaces, D!TellsAddress
<1>6. method \in DOMAIN D!Told => Proper(c, D!Tell(c, method))
  <2>1. method \in DOMAIN D!Told => D!Told[method] \in Texts
    BY DEF D!Told, Texts
  <2> QED
    BY <2>1, InfoProper, DeviceSame DEF D!Tell
<1> QED
  BY <1>2, <1>3, <1>4, <1>5, <1>6 DEF D!Handle

LEMMA DeviceIoSame ==
  /\ \A c, reply : IO!NeedsFirst(c, reply) = NeedsFirst(c, reply)
  /\ \A t, i : IO!Entry(t, i) = Entry(t, i)
  /\ \A kind, of : IO!Token(kind, of) = Token(kind, of)
  /\ \A i : IO!DefaultRelay(i) = DefaultRelay(i)
  /\ \A c, i : IO!RelayToken(c, i) = RelayToken(c, i)
  /\ \A S : IO!Ok(S) = Ok(S)
  /\ \A fault : IO!Fault(fault) = Fault(fault)
  /\ IO!Done = Done /\ IO!Crashed = Crashed /\ IO!NoOutputs = NoOutputs
  /\ IO!VideoSource = VideoSource /\ IO!AudioSource = AudioSource
  /\ IO!AudioOutput = AudioOutput
BY DEF NeedsFirst, IO!NeedsFirst, Entry, IO!Entry, Token, IO!Token, Ok, IO!Ok, Fault,
   IO!Fault, Done, IO!Done, Crashed, IO!Crashed, DefaultRelay, IO!DefaultRelay,
   RelayToken, IO!RelayToken, NoOutputs, IO!NoOutputs, VideoSource, IO!VideoSource,
   AudioSource, IO!AudioSource, AudioOutput, IO!AudioOutput

LEMMA RelayFits ==
  ASSUME NEW c, IsConf(c), NEW i \in 1 .. Len(c.relays)
  PROVE  /\ FitsAll(c, {Entry(RelayToken(c, i), i)})
         /\ FitsAll(c, {Entry(Token("relay", DefaultRelay(i)), i)})
<1>1. DefaultRelay(i) \in Texts /\ c.relays[i] \in Relay /\ i \in Nat
  BY DEF DefaultRelay, Texts, IsConf
<1>2. c.relays[i].token = Null \/ c.relays[i].token \in Texts
  BY <1>1 DEF Relay, Texts
<1>3. ASSUME NEW of \in Texts
      PROVE  FitsAll(c, {Entry(Token("relay", of), i)})
  <2>1. Token("relay", of) \in Tokens /\ Token("relay", of) # Null
        /\ Token("relay", of).kind = "relay"
    BY TokensAreSet DEF Kinds, Token
  <2> QED
    BY <1>1, <2>1 DEF FitsAll, Fits, TrueCodec, WellNamed, Entry, Codecs, OfProfile
<1> QED
  BY <1>1, <1>2, <1>3 DEF RelayToken

LEMMA DeviceIoProper ==
  ASSUME NEW c, IsConf(c), NEW ask, NEW method,
         method = "SetRelayOutputState" => ask.words # {},
         method # "SetRelayOutputSettings"
  PROVE  Proper(c, IO!Handle(c, method, ask))
<1>0. /\ Proper(c, Fault("RelayToken")) /\ Proper(c, Fault("ActionFailed"))
      /\ Proper(c, Done) /\ Proper(c, NoOutputs)
  BY ReplyProper, RefusalsProper DEF Faults
<1>1. Proper(c, IO!GetVideoSources(c, ask)) /\ Proper(c, IO!GetAudioOutputs(c, ask))
  BY <1>0, ReplyProper, DeviceEntriesFit, DeviceIoSame
     DEF IO!GetVideoSources, IO!GetAudioOutputs
<1>2. Proper(c, IO!GetAudioSources(c, ask))
  <2>1. Proper(c, Ok({Entry(AudioSource, 0)})) /\ Proper(c, Ok({}))
    BY ReplyProper, DeviceEntriesFit, FitsUnion
  <2> QED
    BY <2>1, NeedsFirstProper, DeviceIoSame DEF IO!GetAudioSources
<1>3. Proper(c, IO!GetServiceCapabilities(c, ask))
  <2> DEFINE sources == Entry(Token("count", "audio_sources"),
                              IF IO!Encodes(c) THEN 1 ELSE 0)
             outputs == Entry(Token("count", "audio_outputs"),
                              IF c.output_enabled THEN 1 ELSE 0)
             relays == Entry(Token("count", "relay_outputs"), Len(c.relays))
  <2>1. FitsAll(c, {sources}) /\ FitsAll(c, {outputs}) /\ FitsAll(c, {relays})
    BY CountFits DEF IsConf, Texts
  <2>2. IO!GetServiceCapabilities(c, ask) = NeedsFirst(c, Ok({sources, outputs, relays}))
    BY DeviceIoSame DEF IO!GetServiceCapabilities
  <2> HIDE DEF sources, outputs, relays
  <2>3. FitsAll(c, {sources, outputs, relays})
    BY <2>1 DEF FitsAll
  <2> QED
    BY <2>2, <2>3, ReplyProper, NeedsFirstProper
<1>4. Proper(c, IO!GetRelayOutputs(c, ask))
  <2> DEFINE shown == {Entry(RelayToken(c, i), i) : i \in IO!RelayIds(c)}
  <2>1. \A e \in shown : FitsAll(c, {e})
    BY RelayFits DEF IO!RelayIds
  <2>2. IO!GetRelayOutputs(c, ask) = Ok(shown)
    BY DeviceIoSame DEF IO!GetRelayOutputs
  <2> HIDE DEF shown
  <2>3. FitsAll(c, shown)
    BY <2>1 DEF FitsAll
  <2> QED
    BY <2>2, <2>3, ReplyProper
<1>5. Proper(c, IO!GetRelayOutputOptions(c, ask))
  <2> DEFINE asked == IF ask.config = Null THEN IO!RelayIds(c)
                      ELSE IO!ByDefault(c, ask.config)
             shown == {Entry(Token("relay", DefaultRelay(i)), i) : i \in asked}
  <2>1. asked \subseteq 1 .. Len(c.relays)
    BY DEF IO!RelayIds, IO!ByDefault
  <2>2. IO!GetRelayOutputOptions(c, ask) = Ok(shown)
    BY DeviceIoSame DEF IO!GetRelayOutputOptions
  <2> HIDE DEF asked
  <2>3. \A e \in shown : FitsAll(c, {e})
    BY <2>1, RelayFits
  <2> HIDE DEF shown
  <2>4. FitsAll(c, shown)
    BY <2>3 DEF FitsAll
  <2> QED
    BY <2>2, <2>4, ReplyProper
<1>6. ask.words # {} => Proper(c, IO!SetRelayOutputState(c, ask))
  <2>1. CASE IO!ByToken(c, ask.config) = {}
    BY <1>0, <2>1, DeviceIoSame DEF IO!SetRelayOutputState, IO!RelayFault
  <2>2. CASE IO!ByToken(c, ask.config) # {} /\ ask.words # {}
    <3> DEFINE command == IO!Command(c.relays[IO!FirstAsked(c, ask)], ask)
    <3>1. IO!FirstAsked(c, ask) \in 1 .. Len(c.relays)
      BY <2>2, FirstRelay DEF IsConf, IO!FirstAsked
    <3>2. Wired(c) => command # Null
      BY <3>1 DEF Wired, IO!Command
    <3>3. IO!SetRelayOutputState(c, ask) = IF command = Null THEN Crashed ELSE Done
      BY <2>2, DeviceIoSame DEF IO!SetRelayOutputState
    <3> HIDE DEF command
    <3> QED
      BY <1>0, <3>2, <3>3, ReplyProper DEF Sound
  <2> QED
    BY <2>1, <2>2
<1>7. Proper(c, IO!Unsupported(c, ask))
  BY <1>0, DeviceIoSame DEF IO!Unsupported
<1> QED
  BY <1>1, <1>2, <1>3, <1>4, <1>5, <1>6, <1>7 DEF IO!Handle

LEMMA EventsSame ==
  /\ \A t, i : V!Entry(t, i) = Entry(t, i)
  /\ \A kind, of : V!Token(kind, of) = Token(kind, of)
  /\ \A what, n : V!Count(what, n) = Count(what, n)
  /\ \A i : V!DefaultRelay(i) = DefaultRelay(i)
  /\ \A S : V!Ok(S) = Ok(S)
  /\ \A fault : V!Fault(fault) = Fault(fault)
  /\ V!Done = Done /\ V!Crashed = Crashed
BY DEF Entry, V!Entry, Token, V!Token, Count, V!Count, DefaultRelay, V!DefaultRelay,
   Ok, V!Ok, Fault, V!Fault, Done, V!Done, Crashed, V!Crashed

LEMMA MessagesFit ==
  ASSUME NEW c, IsConf(c)
  PROVE  FitsAll(c, V!Messages(c))
<1> DEFINE states == {Entry(Token("state", c.events[i]), 0) : i \in V!Pending(c)}
           on == {j \in 1 .. Len(c.relays) : V!Own(c) + j \in V!Pending(c)}
           relays == {Entry(Token("relay", DefaultRelay(i)), i) : i \in on}
<1>1. V!Messages(c) = states \cup relays
  BY EventsSame DEF V!Messages
<1>2. \A e \in states : FitsAll(c, {e})
  BY TopicsAreTexts, TokenFits DEF V!Pending, Kinds, OfProfile, IsConf
<1>3. \A e \in relays : FitsAll(c, {e})
  BY RelayFits
<1> HIDE DEF states, relays
<1> QED
  BY <1>1, <1>2, <1>3, FitsUnion

LEMMA EventsProper ==
  ASSUME NEW c, IsConf(c), NEW ask, NEW method
  PROVE  Proper(c, V!Handle(c, method, ask))
<1>1. /\ Proper(c, Done) /\ Proper(c, V!ActionFailed)
      /\ Proper(c, V!ResourceUnknown) /\ Proper(c, V!CreationFailed)
      /\ Proper(c, Fault("UnableToCreatePullPoint"))
      /\ Proper(c, Fault("UnacceptableTerminationTime"))
  BY ReplyProper, RefusalsProper, EventsSame
     DEF V!ActionFailed, V!ResourceUnknown, V!CreationFailed, Faults
<1>2. Proper(c, V!GetServiceCapabilities(c, ask))
  <2>1. \A what \in {"pullpoint", "basesubscription"} : \A condition :
          FitsAll(c, {Count(what, V!OneIf(condition))})
    BY CountFits DEF Count, V!OneIf, Texts
  <2> DEFINE pull == Count("pullpoint", V!OneIf(c.events_enable \in {"pull", "both"}))
             base == Count("basesubscription",
                           V!OneIf(c.events_enable \in {"base", "both"}))
  <2>2. V!GetServiceCapabilities(c, ask) = Ok({pull, base})
    BY EventsSame DEF V!GetServiceCapabilities
  <2>3. FitsAll(c, {pull}) /\ FitsAll(c, {base})
    BY <2>1
  <2> HIDE DEF pull, base
  <2>4. FitsAll(c, {pull, base})
    BY <2>3 DEF FitsAll
  <2> QED
    BY <2>2, <2>4, ReplyProper
<1>3. Proper(c, V!GetEventProperties(c, ask))
  <2>1. \A what \in Texts : FitsAll(c, {V!Topic(what)})
    BY TokenFits, EventsSame DEF V!Topic, Kinds, OfProfile
  <2> DEFINE some == {V!Topic(c.events[i]) : i \in V!Topical(c)}
             own == IF V!Topical(c) = {} THEN {V!Topic("motion")} ELSE some
             ptz == IF c.ptz THEN {V!Topic("ptz")} ELSE {}
  <2>2. FitsAll(c, some)
    <3>1. \A e \in some : FitsAll(c, {e})
      BY <2>1, TopicsAreTexts DEF IsConf
    <3> QED
      BY <3>1 DEF FitsAll
  <2>3. "motion" \in Texts /\ "ptz" \in Texts
    BY DEF Texts, Topics
  <2> HIDE DEF some
  <2>4. FitsAll(c, own) /\ FitsAll(c, ptz)
    BY <2>1, <2>2, <2>3, FitsUnion
  <2>5. V!GetEventProperties(c, ask)
          = IF V!FirstUnfit(c, "empty") THEN Crashed
            ELSE IF V!FirstUnfit(c, "deep") THEN V!ActionFailed ELSE Ok(own \cup ptz)
    BY EventsSame DEF V!GetEventProperties, some
  <2>6. Sound(c) => ~ V!FirstUnfit(c, "empty")
    BY DEF Sound, V!FirstUnfit, V!Unfit, V!Topical, V!EventIds
  <2> HIDE DEF own, ptz
  <2>7. Proper(c, Ok(own \cup ptz))
    BY <2>4, FitsUnion, ReplyProper
  <2> QED
    BY <1>1, <2>5, <2>6, <2>7, ReplyProper
<1>4. Proper(c, V!Subscription)
  <2>1. "*" \in Texts
    BY DEF Texts
  <2> QED
    BY <2>1, TokenFits, ReplyProper, EventsSame DEF V!Subscription, Kinds, OfProfile
<1>5. Proper(c, Ok(V!Messages(c)))
  BY MessagesFit, ReplyProper
<1>6. \A reply : Proper(c, reply) => Proper(c, V!OfSubscription(c, ask, reply))
  BY <1>1 DEF V!OfSubscription
<1>7. /\ Proper(c, V!PullMessages(c, ask)) /\ Proper(c, V!Renew(c, ask))
      /\ Proper(c, V!Unsubscribe(c, ask)) /\ Proper(c, V!SetSynchronizationPoint(c, ask))
  BY <1>1, <1>5, <1>6, EventsSame
     DEF V!PullMessages, V!Renew, V!Unsubscribe, V!SetSynchronizationPoint
<1>8. /\ Proper(c, V!CreatePullPointSubscription(c, ask))
      /\ Proper(c, V!Subscribe(c, ask)) /\ Proper(c, V!Unsupported(c, ask))
  BY <1>1, <1>4, EventsSame
     DEF V!CreatePullPointSubscription, V!Subscribe, V!Unsupported, V!ActionFailed
<1> QED
  BY <1>2, <1>3, <1>7, <1>8 DEF V!Handle
-----------------------------------------------------------------------------
(* Every method.                                                           *)

\* handlers that die of a request: what they answer is still of the type
LEMMA UncheckedTruthful ==
  ASSUME NEW c, IsConf(c), NEW ask, IsAsk(ask)
  PROVE  \A reply \in {M!GetGuaranteedNumberOfVideoEncoderInstances(c, ask),
                       M2!GetVideoSourceModes(c, ask),
                       IO!SetRelayOutputState(c, ask),
                       IO!SetRelayOutputSettings(c, ask)} :
           Shapely(c, reply) /\ FitsAll(c, reply.entries)
<1> DEFINE Truthful(reply) == Shapely(c, reply) /\ FitsAll(c, reply.entries)
<1>0. \A reply : Proper(c, reply) => Truthful(reply)
  BY DEF Proper, Shapely, FitsAll
<1>1. Truthful(Crashed)
  BY DEF Shapely, FitsAll, Crashed, Fault, Faults
<1>2. Truthful(Fault("RelayToken")) /\ Truthful(Done)
  BY DEF Shapely, FitsAll, Fault, Faults, Done, Ok
<1> HIDE DEF Truthful
<1>3. Truthful(M!GetGuaranteedNumberOfVideoEncoderInstances(c, ask))
  <2>1. ask.config = Null
          => M!GetGuaranteedNumberOfVideoEncoderInstances(c, ask) = Crashed
    BY MediaSame DEF M!GetGuaranteedNumberOfVideoEncoderInstances
  <2> QED
    BY <1>0, <1>1, <2>1, MediaEncodersProper
<1>4. Truthful(M2!GetVideoSourceModes(c, ask))
  <2>1. ask.config = Null => M2!GetVideoSourceModes(c, ask) = Crashed
    BY Media2Same DEF M2!GetVideoSourceModes
  <2> QED
    BY <1>0, <1>1, <2>1, Media2SourcesProper
<1>5. Truthful(IO!SetRelayOutputState(c, ask))
  BY <1>1, <1>2, DeviceIoSame DEF IO!SetRelayOutputState, IO!RelayFault
<1>6. Truthful(IO!SetRelayOutputSettings(c, ask))
  BY <1>1, <1>2, DeviceIoSame DEF IO!SetRelayOutputSettings, IO!RelayFault
<1> QED
  BY <1>3, <1>4, <1>5, <1>6 DEF Truthful

LEMMA HandledOutcome ==
  ASSUME NEW c, IsConf(c), NEW r, IsAsk(r.ask)
  PROVE  LET reply == Handled(c, r)
         IN /\ Shapely(c, reply)
            /\ \A e \in reply.entries : WellNamed(c, e) \/ Borrowed(r, e)
            /\ \/ Unchecked(r)
               \/ ReadsTwo(r.service, r.method) /\ c.num # 2
               \/ Responds(c, reply)
<1> DEFINE reply == Handled(c, r)
<1>0. \A x : /\ Proper(c, x) => Shapely(c, x) /\ FitsAll(c, x.entries) /\ Responds(c, x)
             /\ FitsAll(c, x.entries) => \A e \in x.entries : WellNamed(c, e)
  BY DEF Proper, Shapely, FitsAll
<1>1. CASE r.service = "media_service"
  <2>1. reply = M!Handle(c, r.method, r.ask)
    BY <1>1 DEF Handled
  <2>2. CASE r.method = "GetGuaranteedNumberOfVideoEncoderInstances" /\ r.ask.config = Null
    <3>1. M!Handle(c, r.method, r.ask)
            = M!GetGuaranteedNumberOfVideoEncoderInstances(c, r.ask)
      BY <2>2 DEF M!Handle, M!SetMethods, M!GetMetadataMethods, M!ProfileMethods
    <3> QED
      BY <1>0, <2>1, <2>2, <3>1, UncheckedTruthful DEF Unchecked
  <2>3. CASE ~ (r.method = "GetGuaranteedNumberOfVideoEncoderInstances"
                /\ r.ask.config = Null)
    BY <1>0, <2>1, <2>3, MediaProper
  <2> QED
    BY <2>2, <2>3
<1>2. CASE r.service = "media2_service"
  <2>1. reply = M2!Handle(c, r.method, r.ask)
    BY <1>2 DEF Handled
  <2>2. CASE r.method = "GetVideoSourceModes" /\ r.ask.config = Null
    <3>0. M2!Unsupported(c, r.ask) = Fault("ActionFailed") \/ M2!Unsupported(c, r.ask) = Done
      BY Media2Same DEF M2!Unsupported
    <3>1. \/ M2!Handle(c, r.method, r.ask) = M2!GetVideoSourceModes(c, r.ask)
          \/ M2!Handle(c, r.method, r.ask) = M2!Unsupported(c, r.ask)
      BY <2>2 DEF M2!Handle, M2!SetMethods, M2!ProfileMethods
    <3> QED
      BY <1>0, <2>1, <2>2, <3>0, <3>1, UncheckedTruthful, RefusalsProper DEF Unchecked
  <2>3. CASE ~ (r.method = "GetVideoSourceModes" /\ r.ask.config = Null)
    <3>1. \A x : ProperForTwo(c, x) => /\ Shapely(c, x) /\ FitsAll(c, x.entries)
                                       /\ c.num = 2 => Responds(c, x)
      BY DEF ProperForTwo, Shapely, FitsAll
    <3> DEFINE handled == M2!Handle(c, r.method, r.ask)
    <3>2. \/ r.method = "GetProfiles" /\ Shapely(c, handled) /\ Responds(c, handled)
             /\ (r.ask.profile = Null => FitsAll(c, handled.entries))
             /\ \A e \in handled.entries : WellNamed(c, e) \/ Lent(e, 2)
          \/ ReadsTwo(r.service, r.method) /\ ProperForTwo(c, handled)
          \/ Proper(c, handled)
      BY <1>0, <1>2, <2>3, Media2Handles DEF ReadsTwo
    <3> HIDE DEF handled
    <3>3. \A e \in handled.entries : WellNamed(c, e) \/ Borrowed(r, e)
      BY <1>0, <1>2, <3>1, <3>2 DEF Borrowed, Lent
    <3> QED
      BY <1>0, <1>2, <2>1, <3>1, <3>2, <3>3 DEF handled
  <2> QED
    BY <2>2, <2>3
<1>3. CASE r.service = "deviceio_service"
           \/ (r.service = "device_service" /\ r.method = "SetRelayOutputState")
  <2>1. \/ reply = IO!SetRelayOutputState(c, r.ask) /\ r.method = "SetRelayOutputState"
        \/ reply = IO!Handle(c, r.method, r.ask)
    BY <1>3 DEF Handled
  <2>2. /\ r.method = "SetRelayOutputState"
             => IO!Handle(c, r.method, r.ask) = IO!SetRelayOutputState(c, r.ask)
        /\ r.method = "SetRelayOutputSettings"
             => IO!Handle(c, r.method, r.ask) = IO!SetRelayOutputSettings(c, r.ask)
    BY DEF IO!Handle
  <2>3. CASE \/ r.method = "SetRelayOutputState" /\ r.ask.words = {}
             \/ r.method = "SetRelayOutputSettings"
    BY <1>0, <2>1, <2>2, <2>3, UncheckedTruthful DEF Unchecked
  <2>4. CASE ~ (\/ r.method = "SetRelayOutputState" /\ r.ask.words = {}
                \/ r.method = "SetRelayOutputSettings")
    BY <1>0, <2>1, <2>2, <2>4, DeviceIoProper
  <2> QED
    BY <2>3, <2>4
<1>4. CASE r.service = "device_service" /\ r.method # "SetRelayOutputState"
  <2>1. reply = D!Handle(c, r.method, r.ask)
    BY <1>4 DEF Handled
  <2> QED
    BY <1>0, <2>1, DeviceProper
<1>5. CASE r.service = "events_service"
  <2>1. reply = V!Handle(c, r.method, r.ask)
    BY <1>5 DEF Handled
  <2> QED
    BY <1>0, <2>1, EventsProper
<1>6. CASE r.service \notin {"device_service", "media_service", "media2_service",
                             "deviceio_service", "events_service"}
  <2>1. reply \in {D!Unsupported(c, r.ask), Fault("NoImagingForSource"),
                   Ok({Info("ptz")}), Ok({Info("imaging")})}
    BY <1>6 DEF Handled, Capabilities
  <2>2. D!Unsupported(c, r.ask) \in {Fault("ActionFailed"), Done}
    BY DeviceSame DEF D!Unsupported
  <2>3. Proper(c, Fault("NoImagingForSource"))
    BY ReplyProper DEF Faults
  <2>4. "ptz" \in Texts /\ "imaging" \in Texts
    BY DEF Texts
  <2> QED
    BY <1>0, <2>1, <2>2, <2>3, <2>4, InfoProper, RefusalsProper
<1> QED
  BY <1>1, <1>2, <1>3, <1>4, <1>5, <1>6
-----------------------------------------------------------------------------
(* What every answer is like.                                              *)

LEMMA ReplyOutcome ==
  ASSUME NEW c, IsConf(c), NEW r, IsAsk(r.ask)
  PROVE  LET reply == Reply(c, r)
         IN /\ Shapely(c, reply)
            /\ \A e \in reply.entries : WellNamed(c, e) \/ Borrowed(r, e)
            /\ \/ ~ Accepted(file) \/ c.user = "name"
               \/ Unchecked(r)
               \/ ReadsTwo(r.service, r.method) /\ c.num # 2
               \/ Responds(c, reply)
<1>1. \A fault \in Faults : Shapely(c, Fault(fault)) /\ Fault(fault).entries = {}
  BY DEF Shapely, Fault
<1>2. {"silent", "crashed", "HttpMethod", "Challenge", "Malformed", "Unauthorized"}
        \subseteq Faults
  BY DEF Faults
<1>3. \A fault \in {"HttpMethod", "Challenge", "Malformed", "Unauthorized"} :
        Responds(c, Fault(fault))
  BY DEF Responds, Fault
<1>4. DigestFails(c, r) => c.user = "name"
  BY DEF DigestFails
<1>5. \/ Reply(c, r) = Fault("silent") /\ ~ Accepted(file)
      \/ Reply(c, r) = Fault("crashed") /\ DigestFails(c, r)
      \/ \E fault \in {"HttpMethod", "Challenge", "Malformed", "Unauthorized"} :
           Reply(c, r) = Fault(fault)
      \/ Reply(c, r) = Handled(c, r)
  BY DEF Reply, Silent, Crashed
<1>6. CASE Reply(c, r) = Handled(c, r)
  BY <1>6, HandledOutcome
<1>7. CASE Reply(c, r) # Handled(c, r)
  BY <1>1, <1>2, <1>3, <1>4, <1>5, <1>7
<1> QED
  BY <1>6, <1>7

AnswerInv ==
  /\ DOMAIN answer = {"to", "fault", "entries"}
  /\ TypeOK
  /\ ShowsWhatThereIs
  /\ Answered

LEMMA EXCEPTSeq ==
  ASSUME NEW S, NEW s \in Seq(S), NEW i, NEW v, i \in DOMAIN s => v \in S
  PROVE  [s EXCEPT ![i] = v] \in Seq(S) /\ Len([s EXCEPT ![i] = v]) = Len(s)
<1> DEFINE n == Len(s)
           t == [s EXCEPT ![i] = v]
<1>1. n \in Nat /\ DOMAIN s = 1 .. n /\ \A j \in 1 .. n : s[j] \in S
  OBVIOUS
<1>2. t = [j \in 1 .. n |-> IF j = i THEN v ELSE s[j]]
  BY <1>1
<1>3. t \in [1 .. n -> S]
  BY <1>1, <1>2
<1>4. t \in Seq(S) /\ Len(t) = n
  BY <1>1, <1>2, <1>3
<1> QED
  BY <1>4

\* the contacts stay contacts
LEMMA ContactTyped ==
  ASSUME TypeOK, NEW r, Serve(r)
  PROVE  contact' \in Seq({"open", "closed"}) /\ Len(contact') = Len(contact)
<1> DEFINE States == {"open", "closed"}
<1>1. PICK junk \in Junk :
        contact' = contact \/ contact' = IO!Driven(Load(file, junk), r.ask, contact)
  BY DEF Serve
<1> DEFINE c == Load(file, junk)
<1>2. contact \in Seq(States) /\ Len(contact) = Len(c.relays) /\ IsConf(c)
  BY ConfsAreConfs DEF TypeOK, Load
<1>3. CASE contact' = IO!Driven(c, r.ask, contact)
  <2> DEFINE i == IO!FirstAsked(c, r.ask)
             v == IO!Wanted(c.relays[i], r.ask)
  <2>1. contact' = contact \/ contact' = [contact EXCEPT ![i] = v]
    BY <1>3 DEF IO!Driven
  <2> HIDE DEF i, c
  <2>2. i \in DOMAIN contact => v \in States
    <3>1. DOMAIN contact = 1 .. Len(c.relays)
      BY <1>2
    <3>2. i \in DOMAIN contact => c.relays[i] \in Relay
      BY <1>2, <3>1 DEF IsConf
    <3> QED
      BY <3>2 DEF Relay, IO!Wanted, IO!OtherThan
  <2> HIDE DEF v, States
  <2>3. contact \in Seq(States)
    BY <1>2
  <2>4. [contact EXCEPT ![i] = v] \in Seq(States)
        /\ Len([contact EXCEPT ![i] = v]) = Len(contact)
    BY <2>2, <2>3, EXCEPTSeq
  <2> QED
    BY <1>2, <2>1, <2>4 DEF States
<1>4. CASE contact' = contact
  BY <1>2, <1>4
<1> QED
  BY <1>1, <1>3, <1>4

\* whatever is behind the array, the configuration is the same
LEMMA SameConf ==
  ASSUME NEW f, NEW junk, NEW other
  PROVE  LET c == Load(f, junk)
             d == Load(f, other)
         IN /\ c.num = d.num /\ c.relays = d.relays /\ c.profiles = d.profiles
            /\ c.user = d.user /\ Present(c) = Present(d) /\ c.events = d.events
            /\ \A i : EncoderAt(c, i) = EncoderAt(d, i) /\ DecoderAt(c, i) = DecoderAt(d, i)
BY DEF Load, Present, EncoderAt, DecoderAt

LEMMA SameNames ==
  ASSUME NEW f \in Files, NEW junk \in Junk, NEW other \in Junk,
         NEW i \in 0 .. Load(f, junk).num
  PROVE  NameAt(Load(f, junk), i) = NameAt(Load(f, other), i)
<1> DEFINE c == Load(f, junk)
           d == Load(f, other)
<1>1. IsConf(c) /\ c.num = d.num /\ c.profiles = d.profiles
  BY ConfsAreConfs, SameConf
<1> HIDE DEF c, d
<1>2. i <= Len(c.profiles)
  <2>1. i \in 0 .. c.num
    BY DEF c
  <2> QED
    BY <1>1, <2>1 DEF IsConf
<1>3. NameAt(c, i) = NameAt(d, i)
  BY <1>1, <1>2 DEF NameAt
<1> QED
  BY <1>3 DEF c, d

LEMMA ServeAnswers ==
  ASSUME AnswerInv, NEW r, Serve(r), IsAsk(r.ask)
  PROVE  AnswerInv'
<1>1. PICK junk \in Junk :
        answer' = [to |-> r, fault |-> Reply(Load(file, junk), r).fault,
                   entries |-> Reply(Load(file, junk), r).entries]
  BY DEF Serve
<1> DEFINE c == Load(file, junk)
           reply == Reply(c, r)
<1>2. file' = file /\ file \in Files /\ IsConf(c)
  BY ConfsAreConfs DEF Serve, AnswerInv, TypeOK
<1>3. /\ DOMAIN answer' = {"to", "fault", "entries"}
      /\ answer'.to = r /\ answer'.fault = reply.fault /\ answer'.entries = reply.entries
  BY <1>1
<1>4. /\ Shapely(c, reply)
      /\ \A e \in reply.entries : WellNamed(c, e) \/ Borrowed(r, e)
      /\ \/ ~ Accepted(file) \/ c.user = "name"
         \/ Unchecked(r)
         \/ ReadsTwo(r.service, r.method) /\ c.num # 2
         \/ Responds(c, reply)
  BY <1>2, ReplyOutcome
<1>5. /\ \A d \in Confs : /\ d.num = c.num /\ d.relays = c.relays /\ d.user = c.user
                          /\ d.events = c.events
                          /\ Present(d) = Present(c)
                          /\ \A i : /\ EncoderAt(d, i) = EncoderAt(c, i)
                                    /\ DecoderAt(d, i) = DecoderAt(c, i)
                          /\ \A i \in 0 .. c.num : NameAt(d, i) = NameAt(c, i)
      /\ Confs' = Confs
  BY <1>2, SameConf, SameNames DEF Confs
<1> HIDE DEF reply, c
<1>6. TypeOK'
  <2>1. contact' \in Seq({"open", "closed"}) /\ Len(contact') = Len(contact)
    BY ContactTyped DEF AnswerInv
  <2>2. /\ answer'.fault \in Faults
        /\ \A e \in answer'.entries : /\ e.token = Null \/ e.token \in Tokens
                                      /\ e.shows \in Nat /\ e.codec \in Codecs
    BY <1>3, <1>4 DEF Shapely, Fits
  <2> QED
    BY <1>2, <2>1, <2>2 DEF TypeOK, AnswerInv
<1>7. ShowsWhatThereIs'
  <2> SUFFICES ASSUME NEW d \in Confs, NEW e \in reply.entries
               PROVE  IF e.token # Null /\ e.token.kind = "count" THEN TRUE
                      ELSE IF e.token # Null /\ e.token.kind = "relay"
                      THEN e.shows \in 1 .. Len(d.relays)
                      ELSE /\ d.num > 0 => e.shows \in 0 .. d.num
                           /\ e.shows \in 1 .. d.num /\ e.codec # "NONE"
                                => e.codec \in {EncoderAt(d, e.shows), DecoderAt(d, e.shows)}
                           /\ d.num > 0 /\ e.token # Null /\ e.token.kind \in OfProfile
                                => UnderItsName(d, e) \/ Borrowed(r, e)
    BY <1>3, <1>5 DEF ShowsWhatThereIs
  <2>1. Fits(c, e) /\ TrueCodec(c, e) /\ (WellNamed(c, e) \/ Borrowed(r, e))
    BY <1>4 DEF Shapely
  <2>2. d.num = c.num /\ \A i \in 0 .. c.num : NameAt(d, i) = NameAt(c, i)
    BY <1>5
  <2>3. ASSUME d.num > 0, e.token # Null, e.token.kind \in OfProfile
        PROVE  UnderItsName(d, e) \/ Borrowed(r, e)
    <3>1. e.shows \in 0 .. c.num
      BY <2>1, <2>2, <2>3 DEF Fits, OfProfile
    <3> QED
      BY <2>1, <2>2, <2>3, <3>1 DEF WellNamed, UnderItsName
  <2> QED
    BY <1>5, <2>1, <2>3 DEF Fits, TrueCodec
<1>8. Answered'
  <2> SUFFICES ASSUME NEW d \in Confs, WellConfigured(d)',
                      reply.fault \in {"silent", "crashed"}, ~ Unchecked(r)
               PROVE  Cardinality(Present(d)) < 2 /\ ReadsTwo(r.service, r.method)
    BY <1>3, <1>5 DEF Answered
  <2>1. /\ Accepted(file) /\ d.user # "name"
        /\ Wired(d) /\ \A i \in DOMAIN d.events : d.events[i] # "empty"
        /\ Present(d) # {} /\ \A i \in Present(d) : NameAt(d, i) # Null
    BY <1>2 DEF WellConfigured
  <2>2. Sound(c) /\ c.user # "name"
    <3>1. Present(c) \subseteq 0 .. c.num
      BY DEF Present
    <3> QED
      BY <1>5, <2>1, <3>1 DEF Named, Sound, Wired
  <2>3. ReadsTwo(r.service, r.method) /\ c.num # 2
    BY <1>4, <2>1, <2>2 DEF Responds
  <2>4. Present(d) = {1}
    BY <1>2, <1>5, <2>1, <2>3 DEF IsConf, Present
  <2> QED
    BY <2>3, <2>4, FS_Singleton
<1> QED
  BY <1>3, <1>6, <1>7, <1>8 DEF AnswerInv

\* the tokens of a request are of the type
LEMMA AskedTokens ==
  ASSUME TypeOK, NEW service, NEW method,
         NEW p \in ProfileTokens(service, method), NEW k \in ConfigTokens(service, method),
         NEW w
  PROVE  IsAsk(Asked(p, k, w))
<1>1. Stranger \in Tokens
  BY TokensAreSet DEF Stranger, Kinds, OfProfile, Texts
<1>2. \A kind : TokensOf(kind) \subseteq Tokens
  BY DEF TokensOf, TypeOK
<1>3. /\ p = Null \/ (p \in Tokens /\ p.kind = "profile")
      /\ k = Null \/ k \in Tokens
  <2>1. Stranger.kind = "profile" /\ \A t \in TokensOf("profile") : t.kind = "profile"
    BY DEF Stranger, Token, TokensOf
  <2> QED
    BY <1>1, <1>2, <2>1 DEF ProfileTokens, ConfigTokens
<1> QED
  BY <1>3 DEF IsAsk, Asked

LEMMA AnswerInvHolds == Spec => []AnswerInv
<1>1. Init => AnswerInv
  <2> SUFFICES ASSUME Init
               PROVE  AnswerInv
    OBVIOUS
  <2> DEFINE n == Len(Relays(file.relays))
  <2>1. /\ n \in Nat /\ \A i \in 1 .. n : file.relays[i] \in Relay
    <3>1. /\ Relays(file.relays) \in Seq(Relay)
          /\ \A i \in 1 .. n : Relays(file.relays)[i] = file.relays[i]
      BY RelaysOfFile DEF Init
    <3> QED
      BY <3>1
  <2>2. contact = [i \in 1 .. n |-> file.relays[i].idle]
    BY DEF Init
  <2> HIDE DEF n
  <2>3. contact \in [1 .. n -> {"open", "closed"}]
    BY <2>1, <2>2 DEF Relay
  <2>4. contact \in Seq({"open", "closed"}) /\ Len(contact) = n
    BY <2>1, <2>2, <2>3
  <2>5. Idle /\ DOMAIN answer = {"to", "fault", "entries"}
    BY DEF Init, Idle
  <2>6. TypeOK
    BY <2>4 DEF Init, TypeOK, Faults, n
  <2> QED
    BY <2>5, <2>6 DEF AnswerInv, ShowsWhatThereIs, Answered
<1>2. AnswerInv /\ [Next]_vars => AnswerInv'
  <2> SUFFICES ASSUME AnswerInv, [Next]_vars
               PROVE  AnswerInv'
    OBVIOUS
  <2>0. TypeOK
    BY DEF AnswerInv
  <2>1. CASE ServeSoap
    <3>1. \A service, method, ask : Soap(service, method, "right", ask).ask = ask
      BY DEF Soap
    <3>2. PICK service \in Services : \E method \in Known(service) :
            \E p \in ProfileTokens(service, method), k \in ConfigTokens(service, method),
               w \in Words(service, method) :
              Serve(Soap(service, method, "right", Asked(p, k, w)))
      BY <2>1 DEF ServeSoap
    <3>3. PICK method \in Known(service) :
            \E p \in ProfileTokens(service, method), k \in ConfigTokens(service, method),
               w \in Words(service, method) :
              Serve(Soap(service, method, "right", Asked(p, k, w)))
      BY <3>2
    <3>4. PICK p \in ProfileTokens(service, method), k \in ConfigTokens(service, method),
               w \in Words(service, method) :
            Serve(Soap(service, method, "right", Asked(p, k, w)))
      BY <3>3
    <3>5. IsAsk(Asked(p, k, w))
      BY <2>0, AskedTokens
    <3> QED
      BY <3>1, <3>4, <3>5, ServeAnswers
  <2>2. \A w : IsAsk(Asked(Null, Null, w))
    BY DEF IsAsk, Asked
  <2>3. CASE ServeLogin
    <3>1. \A service, method, login, ask : Soap(service, method, login, ask).ask = ask
      BY DEF Soap
    <3>2. PICK service, method, login, w :
            Serve(Soap(service, method, login, Asked(Null, Null, w)))
      BY <2>3 DEF ServeLogin
    <3> QED
      BY <2>2, <3>1, <3>2, ServeAnswers
  <2>4. CASE ServeOther
    <3>1. PICK form : Serve(Other(form))
      BY <2>4 DEF ServeOther
    <3>2. Other(form).ask = Asked(Null, Null, {})
      BY DEF Other
    <3> QED
      BY <2>2, <3>1, <3>2, ServeAnswers
  <2>5. CASE Read
    <3>1. /\ answer'.to = NoRequest /\ answer'.fault = "none"
          /\ answer'.entries = answer.entries
          /\ DOMAIN answer' = {"to", "fault", "entries"}
          /\ UNCHANGED <<file, contact>>
      BY <2>5 DEF Read, AnswerInv
    <3> QED
      BY <2>0, <3>1 DEF AnswerInv, TypeOK, ShowsWhatThereIs, Answered, Idle, Faults
  <2>6. CASE Edit
    BY <2>0, <2>6 DEF Edit, AnswerInv, TypeOK, ShowsWhatThereIs, Answered, Idle
  <2>7. CASE UNCHANGED vars
    BY <2>7 DEF vars, AnswerInv, TypeOK, ShowsWhatThereIs, Answered, Idle, Confs,
                WellConfigured
  <2> QED
    BY <2>1, <2>3, <2>4, <2>5, <2>6, <2>7 DEF Next
<1> QED
  BY <1>1, <1>2, PTL DEF Spec

(* Every fault and every entry of an answer is one that the protocol has,  *)
(* and there is a contact for each relay, for every configuration.         *)
THEOREM TypeCorrect == Spec => []TypeOK
<1>1. AnswerInv => TypeOK
  BY DEF AnswerInv
<1> QED
  BY <1>1, AnswerInvHolds, PTL

(* For every configuration, what an answer shows is there: a profile below *)
(* the number of profiles with the codec and under the name that this      *)
(* profile has (but for GetProfiles of Media2 asked for the second one), a *)
(* relay below the number of relays (the handlers of the five services).   *)
THEOREM AnswersShowWhatThereIs == Spec => []ShowsWhatThereIs
<1>1. AnswerInv => ShowsWhatThereIs
  BY DEF AnswerInv
<1> QED
  BY <1>1, AnswerInvHolds, PTL

(* For every configuration whose profiles have names, whose relays have    *)
(* their commands and whose topics are not empty, whatever is behind the   *)
(* array of profiles and whatever tokens the client made up: no request    *)
(* kills the process or ends in silence, but for those that Answered names *)
(* (the reads of strings that may be NULL, in every handler).              *)
THEOREM RequestsAreAnswered == Spec => []Answered
<1>1. AnswerInv => Answered
  BY DEF AnswerInv
<1> QED
  BY <1>1, AnswerInvHolds, PTL
-----------------------------------------------------------------------------
(* One device, whichever service is asked.                                 *)

\* the device and the DeviceIO service look for a codec in the first profile
\* and in the second one, if there is one; the others in all there are
LEMMA SomeProfileEncodes ==
  ASSUME NEW c, IsConf(c), c.num # 0
  PROVE  /\ D!Encodes(c) <=> Encoding(c) # {}
         /\ IO!Encodes(c) <=> Encoding(c) # {}
<1>1. c.num = 1 \/ c.num = 2
  BY DEF IsConf
<1>2. 1 .. 1 = {1} /\ 1 .. 2 = {1, 2}
  OBVIOUS
<1>3. Encoding(c) # {} <=> \/ EncoderAt(c, 1) # "NONE"
                           \/ c.num = 2 /\ EncoderAt(c, 2) # "NONE"
  BY <1>1, <1>2 DEF Encoding
<1> QED
  BY <1>3 DEF D!Encodes, D!EncoderAt, IO!Encodes, IO!EncoderAt, EncoderAt

(* What the profiles of the two services are made of.                      *)
AllVecs(c) == {Vec(i, Fixed(i)) : i \in Present(c)}
AllAecs(c) == {Aec(c, i, Fixed(i)) : i \in Encoding(c)}
AllAdecs(c) == {Adec(i, Fixed(i)) : i \in Decoding(c)}
Common(c) ==
  {Profile(i, Fixed(i)) : i \in Present(c)} \cup AllVecs(c) \cup AllAecs(c)
  \cup VideoSourceEntries
  \cup (IF Encoding(c) = {} THEN {} ELSE AudioSourceEntries)
  \cup (IF c.ptz THEN {Entry(PtzConfig, 0)} ELSE {})
  \cup (IF c.output_enabled /\ Decoding(c) # {} THEN OutputEntries(c) ELSE {})

LEMMA MediaHasCommon ==
  ASSUME NEW c, Present(c) # {}
  PROVE  M!GetProfiles(c, None) = Ok(Common(c))
<1> DEFINE Part(i) == M!Block(c, i, Fixed(i))
<1>1. M!GetProfiles(c, None) = Ok(UNION {Part(i) : i \in Present(c)})
  BY MediaSame DEF M!GetProfiles
<1>2. \A i \in Present(c) : Part(i) =
        {Profile(i, Fixed(i)), Vec(i, Fixed(i))} \cup VideoSourceEntries
        \cup (IF EncoderAt(c, i) = "NONE" THEN {}
              ELSE AudioSourceEntries \cup {Aec(c, i, Fixed(i))})
        \cup (IF c.ptz THEN {Entry(PtzConfig, 0)} ELSE {})
        \cup (IF c.output_enabled /\ Decoding(c) # {} THEN OutputEntries(c) ELSE {})
  BY MediaSame DEF M!Block, M!AudioOutputAvailable
<1> HIDE DEF Part
<1>3. Encoding(c) = {i \in Present(c) : EncoderAt(c, i) # "NONE"}
  BY DEF Encoding, Present
<1>4. \A e : e \in UNION {Part(i) : i \in Present(c)} => e \in Common(c)
  BY <1>2, <1>3 DEF Common, AllVecs, AllAecs
<1>5. \A e : e \in Common(c) => e \in UNION {Part(i) : i \in Present(c)}
  BY <1>2, <1>3 DEF Common, AllVecs, AllAecs
<1>6. UNION {Part(i) : i \in Present(c)} = Common(c)
  BY <1>4, <1>5
<1> QED
  BY <1>1, <1>6

LEMMA Media2HasCommon ==
  ASSUME NEW c, IsConf(c), Present(c) # {}
  PROVE  M2!GetProfiles(c, Asked(Null, Null, M2!Types)) = Ok(Common(c) \cup AllAdecs(c))
<1> DEFINE Part(i) == M2!Block(c, i, M2!Types, i)
<1>0. c.num # 0
  BY DEF Present
<1>1. M2!GetProfiles(c, Asked(Null, Null, M2!Types))
        = Ok(UNION {Part(i) : i \in Present(c)})
  BY <1>0, Media2Same DEF M2!GetProfiles, Asked
<1>2. \A i \in Present(c) : Part(i) =
        {Profile(i, Fixed(i))} \cup VideoSourceEntries
        \cup (IF Encoding(c) # {} THEN AudioSourceEntries ELSE {})
        \cup {Vec(i, Fixed(i))}
        \cup (IF i \in Encoding(c) THEN {Aec(c, i, Fixed(i))} ELSE {})
        \cup (IF c.ptz THEN {Entry(PtzConfig, 0)} ELSE {})
        \cup (IF i \in Decoding(c) /\ c.output_enabled THEN OutputEntries(c) ELSE {})
        \cup (IF i \in Decoding(c) THEN {Adec(i, Fixed(i))} ELSE {})
  <2> SUFFICES ASSUME NEW i \in Present(c)
               PROVE  Part(i) =
        {Profile(i, Fixed(i))} \cup VideoSourceEntries
        \cup (IF Encoding(c) # {} THEN AudioSourceEntries ELSE {})
        \cup {Vec(i, Fixed(i))}
        \cup (IF i \in Encoding(c) THEN {Aec(c, i, Fixed(i))} ELSE {})
        \cup (IF c.ptz THEN {Entry(PtzConfig, 0)} ELSE {})
        \cup (IF i \in Decoding(c) /\ c.output_enabled THEN OutputEntries(c) ELSE {})
        \cup (IF i \in Decoding(c) THEN {Adec(i, Fixed(i))} ELSE {})
    OBVIOUS
  <2>1. Coded(Token("aec", Fixed(i)), i, EncoderAt(c, i)) = Aec(c, i, Fixed(i))
    BY DEF Aec
  <2>2. /\ "VideoSource" \in M2!Types /\ "AudioSource" \in M2!Types
        /\ "VideoEncoder" \in M2!Types /\ "AudioEncoder" \in M2!Types
        /\ "PTZ" \in M2!Types /\ "AudioOutput" \in M2!Types
        /\ "AudioDecoder" \in M2!Types
    BY DEF M2!Types
  <2> QED
    BY <2>1, <2>2, Media2Same DEF M2!Block, M2!If
<1> HIDE DEF Part
<1>3. Encoding(c) \subseteq Present(c) /\ Decoding(c) \subseteq Present(c)
  BY DEF Encoding, Decoding, Present
<1>4. \A e : e \in UNION {Part(i) : i \in Present(c)} => e \in Common(c) \cup AllAdecs(c)
  BY <1>2, <1>3 DEF Common, AllVecs, AllAecs, AllAdecs
<1>5. \A e : e \in Common(c) \cup AllAdecs(c) => e \in UNION {Part(i) : i \in Present(c)}
  BY <1>2, <1>3 DEF Common, AllVecs, AllAecs, AllAdecs
<1>6. UNION {Part(i) : i \in Present(c)} = Common(c) \cup AllAdecs(c)
  BY <1>4, <1>5
<1> QED
  BY <1>1, <1>6
\* the kind of an entry of a profile
LEMMA KindsOfEntries ==
  /\ \A i : /\ Profile(i, Fixed(i)).token # Null /\ Profile(i, Fixed(i)).token.kind = "profile"
            /\ Vec(i, Fixed(i)).token # Null /\ Vec(i, Fixed(i)).token.kind = "vec"
            /\ Adec(i, Fixed(i)).token # Null /\ Adec(i, Fixed(i)).token.kind = "adec"
  /\ \A c, i : Aec(c, i, Fixed(i)).token # Null /\ Aec(c, i, Fixed(i)).token.kind = "aec"
  /\ \A e \in VideoSourceEntries : e.token.kind \in {"vs", "vsc"}
  /\ \A e \in AudioSourceEntries : e.token.kind \in {"as", "asc"}
  /\ \A c : \A e \in OutputEntries(c) : e.token.kind \in {"ao", "aoc"}
  /\ Entry(PtzConfig, 0).token.kind = "ptz"
<1>1. \A kind \in {"profile", "vec", "aec", "adec"} : \A i :
        Token(kind, Fixed(i)) # Null /\ Token(kind, Fixed(i)).kind = kind
  <2>1. \A kind \in {"profile", "vec", "aec", "adec"} : \A of \in Texts :
          Token(kind, of) \in Tokens /\ Token(kind, of).kind = kind
    BY TokensAreSet DEF Token, Kinds, OfProfile
  <2> QED
    BY <2>1, FixedTexts, NullIsApart
<1>2. \A kind, of : Token(kind, of).kind = kind
  BY DEF Token
<1>3. /\ \A t, i : Entry(t, i).token = t
      /\ \A t, i, codec : Coded(t, i, codec).token = t
  BY DEF Entry, Coded
<1> QED
  BY <1>1, <1>2, <1>3
     DEF Profile, Vec, Adec, Aec, VideoSourceEntries, AudioSourceEntries, OutputEntries,
         VideoSource, VideoSourceConfig, AudioSource, AudioSourceConfig, AudioOutput,
         AudioOutputConfig, PtzConfig

\* the encoders and decoders that the answers to GetProfiles name
LEMMA PartsByKind ==
  ASSUME NEW c
  PROVE  /\ Of({"vec"}, Ok(Common(c))) = AllVecs(c)
         /\ Of({"aec"}, Ok(Common(c))) = AllAecs(c)
         /\ Of({"adec"}, Ok(Common(c) \cup AllAdecs(c))) = AllAdecs(c)
         /\ Of({"profile", "vec", "aec", "asc", "aoc"}, Ok(Common(c) \cup AllAdecs(c)))
              = Of({"profile", "vec", "aec", "asc", "aoc"}, Ok(Common(c)))
         /\ Of({"vec"}, Ok(AllVecs(c))) = AllVecs(c)
         /\ Of({"aec"}, Ok(AllAecs(c))) = AllAecs(c)
         /\ Of({"adec"}, Ok(AllAdecs(c))) = AllAdecs(c)
<1> DEFINE all == {Profile(i, Fixed(i)) : i \in Present(c)}
           sources == IF Encoding(c) = {} THEN {} ELSE AudioSourceEntries
           ptz == IF c.ptz THEN {Entry(PtzConfig, 0)} ELSE {}
           outputs == IF c.output_enabled /\ Decoding(c) # {} THEN OutputEntries(c) ELSE {}
           Is(e, kind) == e.token # Null /\ e.token.kind = kind
<1>1. \A S : Ok(S).entries = S
  BY DEF Ok
<1>2. \A e : /\ e \in all => Is(e, "profile")
             /\ e \in AllVecs(c) => Is(e, "vec")
             /\ e \in AllAecs(c) => Is(e, "aec")
             /\ e \in AllAdecs(c) => Is(e, "adec")
  BY KindsOfEntries DEF AllVecs, AllAecs, AllAdecs
<1>3. \A e : /\ e \in VideoSourceEntries => e.token.kind \in {"vs", "vsc"}
             /\ e \in sources => e.token.kind \in {"as", "asc"}
             /\ e \in ptz => e.token.kind = "ptz"
             /\ e \in outputs => e.token.kind \in {"ao", "aoc"}
  BY KindsOfEntries
<1>4. Common(c) = all \cup AllVecs(c) \cup AllAecs(c) \cup VideoSourceEntries \cup sources
                  \cup ptz \cup outputs
  BY DEF Common
<1> HIDE DEF all, sources, ptz, outputs
<1>5. \A kinds, S : \A e : e \in Of(kinds, Ok(S))
                             <=> e \in S /\ e.token # Null /\ e.token.kind \in kinds
  BY <1>1 DEF Of
<1>6. \A e : e \in Of({"vec"}, Ok(Common(c))) <=> e \in AllVecs(c)
  BY <1>2, <1>3, <1>4, <1>5
<1>7. \A e : e \in Of({"aec"}, Ok(Common(c))) <=> e \in AllAecs(c)
  BY <1>2, <1>3, <1>4, <1>5
<1>8. \A e : e \in Of({"adec"}, Ok(Common(c) \cup AllAdecs(c))) <=> e \in AllAdecs(c)
  BY <1>2, <1>3, <1>4, <1>5
<1>9. \A e : e \in Of({"profile", "vec", "aec", "asc", "aoc"}, Ok(Common(c) \cup AllAdecs(c)))
               <=> e \in Of({"profile", "vec", "aec", "asc", "aoc"}, Ok(Common(c)))
  BY <1>2, <1>5
<1>10. \A e : /\ e \in Of({"vec"}, Ok(AllVecs(c))) <=> e \in AllVecs(c)
              /\ e \in Of({"aec"}, Ok(AllAecs(c))) <=> e \in AllAecs(c)
              /\ e \in Of({"adec"}, Ok(AllAdecs(c))) <=> e \in AllAdecs(c)
  BY <1>2, <1>5
<1> QED
  BY <1>6, <1>7, <1>8, <1>9, <1>10
(* The lists of encoders and decoders.                                     *)
LEMMA ListsOfCodecs ==
  ASSUME NEW c, IsConf(c), Named(c), c.media2
  PROVE  /\ Of({"vec"}, M!Handle(c, "GetVideoEncoderConfigurations", None)) = AllVecs(c)
         /\ Of({"vec"}, M2!Handle(c, "GetVideoEncoderConfigurations", None)) = AllVecs(c)
         /\ Of({"aec"}, M!Handle(c, "GetAudioEncoderConfigurations", None)) = AllAecs(c)
         /\ Of({"aec"}, M2!Handle(c, "GetAudioEncoderConfigurations", None)) = AllAecs(c)
         /\ Of({"adec"}, M!GetAudioDecoderConfigurations(c, None)) = AllAdecs(c)
<1>0. c.num # 0 /\ c.profiles # <<>>
  BY DEF Named, Present, IsConf
<1>1. None.profile = Null /\ None.config = Null
  BY DEF None, Asked
<1>2. /\ M!Handle(c, "GetVideoEncoderConfigurations", None)
           = M!GetVideoEncoderConfigurations(c, None)
      /\ M!Handle(c, "GetAudioEncoderConfigurations", None)
           = M!GetAudioEncoderConfigurations(c, None)
  BY DEF M!Handle, M!SetMethods, M!GetMetadataMethods, M!ProfileMethods
<1>3. /\ M2!Handle(c, "GetVideoEncoderConfigurations", None)
           = M2!GetVideoEncoderConfigurations(c, None)
      /\ M2!Handle(c, "GetAudioEncoderConfigurations", None)
           = M2!GetAudioEncoderConfigurations(c, None)
  BY DEF M2!Handle, M2!SetMethods, M2!ProfileMethods
<1>4. \A kinds, refusal : Of(kinds, Fault(refusal)) = {}
  BY DEF Of, Fault
<1>5. /\ Encoding(c) = {} => AllAecs(c) = {}
      /\ Decoding(c) = {} => AllAdecs(c) = {}
  BY DEF AllAecs, AllAdecs
<1>6. /\ M!GetVideoEncoderConfigurations(c, None) = Ok(AllVecs(c))
      /\ M!GetAudioEncoderConfigurations(c, None)
           = IF Encoding(c) = {} THEN NoAudio ELSE Ok(AllAecs(c))
      /\ M!GetAudioDecoderConfigurations(c, None)
           = IF Decoding(c) = {} THEN NoDecoding ELSE Ok(AllAdecs(c))
  BY <1>0, MediaSame DEF M!GetVideoEncoderConfigurations,
     M!GetAudioEncoderConfigurations, M!GetAudioDecoderConfigurations, AllVecs, AllAecs,
     AllAdecs
<1>7. M2!GetVideoEncoderConfigurations(c, None) = Ok(AllVecs(c))
  BY <1>0, <1>1, Media2Same DEF M2!GetVideoEncoderConfigurations, M2!NothingAsked, AllVecs
<1>8. M2!GetAudioEncoderConfigurations(c, None)
        = IF Encoding(c) = {} THEN NoAudio ELSE Ok(AllAecs(c))
  BY <1>0, <1>1, Media2Same DEF M2!GetAudioEncoderConfigurations, M2!NothingAsked, AllAecs
<1> QED
  BY <1>2, <1>3, <1>4, <1>5, <1>6, <1>7, <1>8, PartsByKind DEF NoAudio, NoDecoding

(* A service that is listed says what it can do.                           *)
LEMMA ListedServicesAnswer ==
  ASSUME NEW c, IsConf(c), Named(c), c.media2,
         NEW s \in Of({"service"}, D!GetServices(c, Asked(Null, Null, {"capabilities"})))
  PROVE  Handled(c, Soap(s.token.of, "GetServiceCapabilities", "right", None)).fault = "none"
<1> DEFINE services == D!GetServices(c, Asked(Null, Null, {"capabilities"}))
           all == {D!Service(x) : x \in D!Listed(c) \cup {"media2_service"}}
           counts == D!EventFlags(c) \cup D!IoCounts(c)
           r(of) == Soap(of, "GetServiceCapabilities", "right", None)
<1>0. c.profiles # <<>>
  BY DEF Named, Present, IsConf
<1>1. services = Fault("ActionFailed") \/ services = Ok(all \cup counts)
  BY <1>0, DeviceSame DEF D!GetServices, D!NeedsFirst, Asked
<1>2. s \in all \cup counts
  BY <1>1 DEF Of, Fault, Ok
<1>3. \A e \in counts : e.token.kind = "count"
  BY DEF D!EventFlags, D!IoCounts, D!Count, D!Entry, D!Token
<1>4. s.token.kind = "service"
  BY DEF Of
<1> HIDE DEF counts, all
<1>5. s \in all
  BY <1>2, <1>3, <1>4
<1>6. s.token.of \in D!Listed(c) \cup {"media2_service"}
  BY <1>5 DEF all, D!Service, D!Entry, D!Token
<1>7. /\ s.token.of \in {"device_service", "media_service", "events_service",
                         "deviceio_service", "ptz_service", "imaging_service",
                         "media2_service"}
      /\ s.token.of = "imaging_service" => c.imaging
  BY <1>6 DEF D!Listed, D!Always
<1>8. Done.fault = "none" /\ D!Done = Done
  BY DEF Done, Ok, D!Done, D!Ok
<1>9. /\ D!Handle(c, "GetServiceCapabilities", None).fault = "none"
      /\ M!Handle(c, "GetServiceCapabilities", None).fault = "none"
      /\ M2!Handle(c, "GetServiceCapabilities", None).fault = "none"
      /\ IO!Handle(c, "GetServiceCapabilities", None).fault = "none"
  <2>1. D!Handle(c, "GetServiceCapabilities", None) = Done
    BY <1>8 DEF D!Handle, D!PlainMethods, D!Plain, D!Told
  <2>2. M!Handle(c, "GetServiceCapabilities", None) = Done
    BY MediaSame DEF M!Handle, M!SetMethods, M!GetMetadataMethods, M!ProfileMethods,
       M!GetServiceCapabilities
  <2>3. M2!Handle(c, "GetServiceCapabilities", None) = Done
    BY <1>0, Media2Same DEF M2!Handle, M2!SetMethods, M2!ProfileMethods,
       M2!GetServiceCapabilities, NeedsFirst
  <2>4. IO!Handle(c, "GetServiceCapabilities", None)
          = IO!GetServiceCapabilities(c, None)
    BY DEF IO!Handle
  <2>5. IO!GetServiceCapabilities(c, None).fault = "none"
    BY <1>0 DEF IO!GetServiceCapabilities, IO!NeedsFirst, IO!Ok
  <2> QED
    BY <1>8, <2>1, <2>2, <2>3, <2>4, <2>5
<1>10. V!Handle(c, "GetServiceCapabilities", None).fault = "none"
  BY EventsSame DEF V!Handle, V!GetServiceCapabilities, Ok
<1>11. \A of : /\ r(of).service = of /\ r(of).method = "GetServiceCapabilities"
               /\ r(of).ask = None
  BY DEF Soap
<1> QED
  BY <1>7, <1>9, <1>10, <1>11 DEF Handled, Capabilities, Ok
(* The Events service is described as it describes itself.                 *)
LEMMA EventFlagsListed ==
  ASSUME NEW c, IsConf(c), Named(c)
  PROVE  LET services == D!GetServices(c, Asked(Null, Null, {"capabilities"}))
         IN services.fault = "none" =>
              V!GetServiceCapabilities(c, None).entries \subseteq services.entries
<1>1. c.profiles # <<>>
  BY DEF Named, Present, IsConf
<1> DEFINE services == D!GetServices(c, Asked(Null, Null, {"capabilities"}))
           listed == {D!Service(s) : s \in D!Listed(c) \cup
                        IF c.media2 THEN {"media2_service"} ELSE {}}
<1>2. services = IF ~ c.address THEN Fault("ActionFailed")
                 ELSE Ok(listed \cup (D!EventFlags(c) \cup D!IoCounts(c)))
  BY <1>1, DeviceSame DEF D!GetServices, NeedsFirst, Asked
<1>3. V!GetServiceCapabilities(c, None).entries = D!EventFlags(c)
  BY DeviceSame, EventsSame DEF V!GetServiceCapabilities, D!EventFlags, D!OneIf, V!OneIf, Ok
<1> HIDE DEF listed
<1> QED
  BY <1>2, <1>3 DEF Fault, Ok

(* The numbers of the capabilities are those of the lists.                 *)
LEMMA NumbersOfLists ==
  ASSUME NEW c, IsConf(c), Named(c)
  PROVE  /\ Cardinality(IO!GetRelayOutputs(c, None).entries) = Len(c.relays)
         /\ Cardinality(M!GetAudioSources(c, None).entries)
              = IF Encoding(c) = {} THEN 0 ELSE 1
         /\ Cardinality(IO!GetAudioOutputs(c, None).entries)
              = IF c.output_enabled THEN 1 ELSE 0
<1>1. Cardinality(IO!GetRelayOutputs(c, None).entries) = Len(c.relays)
  <2> DEFINE n == Len(c.relays)
             S == {Entry(RelayToken(c, i), i) : i \in 1 .. n}
             f == [i \in 1 .. n |-> Entry(RelayToken(c, i), i)]
  <2>1. IO!GetRelayOutputs(c, None).entries = S
    BY DeviceIoSame DEF IO!GetRelayOutputs, IO!RelayIds, Ok
  <2>2. n \in Nat
    BY DEF IsConf
  <2>3. \A i, j \in 1 .. n : f[i] = f[j] => i = j
    BY DEF Entry
  <2>4. f \in Bijection(1 .. n, S)
    BY <2>3 DEF Bijection, Injection, Surjection, IsInjective
  <2> HIDE DEF f, S, n
  <2>5. ExistsBijection(1 .. n, S)
    BY <2>4 DEF ExistsBijection
  <2>6. Cardinality(S) = n
    BY <2>2, <2>5, FS_CountingElements
  <2> QED
    BY <2>1, <2>6 DEF n
<1>2. \A e : Cardinality({e}) = 1
  BY FS_Singleton
<1>3. Cardinality({}) = 0
  BY FS_EmptySet
<1>4. M!GetAudioSources(c, None).entries
        = IF Encoding(c) = {} THEN {} ELSE {Entry(AudioSource, 0)}
  BY MediaSame DEF M!GetAudioSources, NoAudio, Fault, Ok
<1>5. IO!GetAudioOutputs(c, None).entries
        = IF c.output_enabled THEN {Entry(AudioOutput, 0)} ELSE {}
  BY DeviceIoSame DEF IO!GetAudioOutputs, IO!NoOutputs, Fault, Ok
<1> QED
  BY <1>1, <1>2, <1>3, <1>4, <1>5

LEMMA CountsAgree ==
  ASSUME NEW c, IsConf(c), Named(c),
         NEW capabilities \in {D!GetServices(c, Asked(Null, Null, {"capabilities"})),
                               IO!GetServiceCapabilities(c, None)}
  PROVE  /\ CountOf("relay_outputs", Len(c.relays), capabilities)
         /\ CountOf("audio_sources", IF Encoding(c) = {} THEN 0 ELSE 1, capabilities)
         /\ CountOf("audio_outputs", IF c.output_enabled THEN 1 ELSE 0, capabilities)
<1> DEFINE Is(what, n) == Entry(Token("count", what), n)
           sources == IF Encoding(c) = {} THEN 0 ELSE 1
           outputs == IF c.output_enabled THEN 1 ELSE 0
           counts == {Is("audio_sources", sources), Is("audio_outputs", outputs),
                      Is("relay_outputs", Len(c.relays))}
           rest == D!EventFlags(c) \cup
                   {D!Service(s) : s \in D!Listed(c) \cup IF c.media2 THEN {"media2_service"}
                                                          ELSE {}}
<1>1. c.num # 0 /\ c.profiles # <<>>
  BY DEF Named, Present, IsConf
<1>2. IO!GetServiceCapabilities(c, None).entries = counts
  BY <1>1, SomeProfileEncodes, DeviceIoSame DEF IO!GetServiceCapabilities, NeedsFirst, Ok
<1>3. D!GetServices(c, Asked(Null, Null, {"capabilities"})).entries \subseteq rest \cup counts
  <2>1. D!IoCounts(c) = counts
    BY <1>1, SomeProfileEncodes, DeviceSame DEF D!IoCounts, Count, D!OneIf
  <2> HIDE DEF counts
  <2>2. \/ D!GetServices(c, Asked(Null, Null, {"capabilities"})) = Fault("ActionFailed")
        \/ D!GetServices(c, Asked(Null, Null, {"capabilities"})) = Ok(rest \cup counts)
    BY <1>1, <2>1, DeviceSame DEF D!GetServices, NeedsFirst, Asked
  <2> HIDE DEF rest
  <2> QED
    BY <2>2 DEF Fault, Ok
<1>4. \A e \in rest : \A what \in {"relay_outputs", "audio_sources", "audio_outputs"} :
        e.token # Token("count", what)
  BY DEF D!EventFlags, D!Count, D!Service, D!Entry, D!Token, Token
<1>5. \A e \in counts :
        /\ e.token = Token("count", "relay_outputs") => e.shows = Len(c.relays)
        /\ e.token = Token("count", "audio_sources") => e.shows = sources
        /\ e.token = Token("count", "audio_outputs") => e.shows = outputs
  BY DEF Entry, Token
<1> HIDE DEF counts, rest
<1>6. capabilities.entries \subseteq rest \cup counts
  BY <1>2, <1>3
<1> QED
  BY <1>4, <1>5, <1>6 DEF CountOf

(* For every configuration without a gap the services describe one device: *)
(* Media and Media2 show the same profiles, with the encoders and decoders *)
(* that their lists have, the capabilities count what the lists show, the  *)
(* Events service says of itself what GetServices says of it, and each     *)
(* service that GetServices names answers.                                 *)
THEOREM ServicesAlwaysAgree == Spec => []ServicesAgree
<1>1. TypeOK => ServicesAgree
  <2> SUFFICES ASSUME TypeOK, NEW c \in Confs, WellConfigured(c), c.media2
               PROVE  LET profiles == M!GetProfiles(c, None)
                          profiles2 == M2!GetProfiles(c, Asked(Null, Null, M2!Types))
                          services == D!GetServices(c, Asked(Null, Null, {"capabilities"}))
                      IN /\ Of({"profile", "vec", "aec", "asc", "aoc"}, profiles)
                            = Of({"profile", "vec", "aec", "asc", "aoc"}, profiles2)
                         /\ \A list \in {"GetVideoEncoderConfigurations",
                                        "GetAudioEncoderConfigurations"} :
                              LET kind == {Takes2(list)}
                              IN /\ Of(kind, M!Handle(c, list, None)) = Of(kind, profiles)
                                 /\ Of(kind, M2!Handle(c, list, None)) = Of(kind, profiles)
                         /\ Of({"adec"}, M!GetAudioDecoderConfigurations(c, None))
                            = Of({"adec"}, profiles2)
                         /\ \A s \in Of({"service"}, services) :
                              Handled(c, Soap(s.token.of, "GetServiceCapabilities", "right",
                                              None)).fault = "none"
                         /\ services.fault = "none" =>
                              V!GetServiceCapabilities(c, None).entries
                                \subseteq services.entries
                         /\ \A capabilities \in {services, IO!GetServiceCapabilities(c, None)} :
                              /\ CountOf("relay_outputs",
                                         Cardinality(IO!GetRelayOutputs(c, None).entries),
                                         capabilities)
                              /\ CountOf("audio_sources",
                                         Cardinality(M!GetAudioSources(c, None).entries),
                                         capabilities)
                              /\ CountOf("audio_outputs",
                                         Cardinality(IO!GetAudioOutputs(c, None).entries),
                                         capabilities)
    BY DEF ServicesAgree
  <2>1. IsConf(c) /\ Named(c) /\ Present(c) # {}
    BY ConfsAreConfs DEF TypeOK, Confs, WellConfigured, Named
  <2>2. Takes2("GetVideoEncoderConfigurations") = "vec"
        /\ Takes2("GetAudioEncoderConfigurations") = "aec"
    BY DEF Takes2
  <2>3. /\ M!GetProfiles(c, None) = Ok(Common(c))
        /\ M2!GetProfiles(c, Asked(Null, Null, M2!Types)) = Ok(Common(c) \cup AllAdecs(c))
    BY <2>1, MediaHasCommon, Media2HasCommon
  <2>4. \A list \in {"GetVideoEncoderConfigurations", "GetAudioEncoderConfigurations"} :
          LET kind == {Takes2(list)}
          IN /\ Of(kind, M!Handle(c, list, None)) = Of(kind, M!GetProfiles(c, None))
             /\ Of(kind, M2!Handle(c, list, None)) = Of(kind, M!GetProfiles(c, None))
    <3>1. /\ Of({"vec"}, M!Handle(c, "GetVideoEncoderConfigurations", None)) = AllVecs(c)
          /\ Of({"vec"}, M2!Handle(c, "GetVideoEncoderConfigurations", None)) = AllVecs(c)
          /\ Of({"aec"}, M!Handle(c, "GetAudioEncoderConfigurations", None)) = AllAecs(c)
          /\ Of({"aec"}, M2!Handle(c, "GetAudioEncoderConfigurations", None)) = AllAecs(c)
      BY <2>1, ListsOfCodecs
    <3>2. /\ Of({"vec"}, M!GetProfiles(c, None)) = AllVecs(c)
          /\ Of({"aec"}, M!GetProfiles(c, None)) = AllAecs(c)
      BY <2>3, PartsByKind
    <3> QED
      BY <2>2, <3>1, <3>2
  <2>5. /\ Of({"profile", "vec", "aec", "asc", "aoc"}, M!GetProfiles(c, None))
           = Of({"profile", "vec", "aec", "asc", "aoc"},
                M2!GetProfiles(c, Asked(Null, Null, M2!Types)))
        /\ Of({"adec"}, M!GetAudioDecoderConfigurations(c, None))
           = Of({"adec"}, M2!GetProfiles(c, Asked(Null, Null, M2!Types)))
    BY <2>1, <2>3, PartsByKind, ListsOfCodecs
  <2>6. \A s \in Of({"service"}, D!GetServices(c, Asked(Null, Null, {"capabilities"}))) :
          Handled(c, Soap(s.token.of, "GetServiceCapabilities", "right", None)).fault = "none"
    BY <2>1, ListedServicesAnswer
  <2>7. \A capabilities \in {D!GetServices(c, Asked(Null, Null, {"capabilities"})),
                             IO!GetServiceCapabilities(c, None)} :
          /\ CountOf("relay_outputs", Cardinality(IO!GetRelayOutputs(c, None).entries),
                     capabilities)
          /\ CountOf("audio_sources", Cardinality(M!GetAudioSources(c, None).entries),
                     capabilities)
          /\ CountOf("audio_outputs", Cardinality(IO!GetAudioOutputs(c, None).entries),
                     capabilities)
    BY <2>1, NumbersOfLists, CountsAgree
  <2>8. LET services == D!GetServices(c, Asked(Null, Null, {"capabilities"}))
        IN services.fault = "none" =>
             V!GetServiceCapabilities(c, None).entries \subseteq services.entries
    BY <2>1, EventFlagsListed
  <2> QED
    BY <2>4, <2>5, <2>6, <2>7, <2>8
<1> QED
  BY <1>1, TypeCorrect, PTL
-----------------------------------------------------------------------------
(* Tokens of answers, where the configuration has the names and tokens     *)
(* that are printed.                                                       *)

Printed(c) == IsConf(c) /\ AsPrinted(c) /\ Present(c) # {}

\* a token that stands for what the entry shows
Genuine(c, e) ==
  e.token # Null =>
    /\ e.token.kind \in OfProfile => e.shows \in Present(c) /\ e.token.of = Fixed(e.shows)
    /\ e.token.kind = "vs" => e.token = VideoSource
    /\ e.token.kind = "vsc" => e.token = VideoSourceConfig
    /\ e.token.kind = "asc" => e.token = AudioSourceConfig
    /\ e.token.kind = "aoc" => e.token = AudioOutputConfig(c)
    /\ e.token.kind = "relay" => \E i \in 1 .. Len(c.relays) : e.token = RelayToken(c, i)
GenuineAll(c, reply) == \A e \in reply.entries : Genuine(c, e)

LEMMA FixedNamesDiffer ==
  /\ Fixed(1) # Fixed(2)
  /\ \A i : /\ Fixed(i) # Null /\ Fixed(i) \in Texts /\ Fixed(i) \in FixedNames
            /\ Fixed(i) \notin {"*", "VideoSourceConfigToken", "AudioSourceConfigToken",
                                "AudioOutputConfigToken"}
BY NullIsApart, FixedTexts DEF Fixed, FixedNames

\* a handler finds a profile by the name that is printed, and no other
LEMMA PickByName ==
  ASSUME NEW c, Printed(c)
  PROVE  /\ c.num \in 1 .. 2 /\ Guarded(c) = c.num /\ Bold(c) = c.num
         /\ Present(c) \subseteq 1 .. 2
         /\ c.profiles # <<>>
         /\ \A text \in Texts : \A i \in Present(c) :
              text = Fixed(i) => Find(c, c.num, text) = i
         /\ \A text \in Texts :
              (\A i \in Present(c) : text # Fixed(i)) => Find(c, c.num, text) = 0
<1>1. /\ c.num \in 1 .. 2 /\ Guarded(c) = c.num /\ Bold(c) = c.num
      /\ Present(c) = 1 .. c.num /\ c.profiles # <<>>
  BY DEF Printed, Present, IsConf, Guarded, Bold
<1>2. \A i \in 1 .. c.num : NameAt(c, i) = Fixed(i) /\ Fixed(i) # Null
  BY <1>1, FixedNamesDiffer DEF Printed, AsPrinted
<1>3. ASSUME NEW text \in Texts
      PROVE  /\ \A i \in Present(c) : text = Fixed(i) => Find(c, c.num, text) = i
             /\ (\A i \in Present(c) : text # Fixed(i)) => Find(c, c.num, text) = 0
  <2> DEFINE found == Find(c, c.num, text)
  <2>1. /\ \/ found = Null
           \/ found = 0 /\ \A j \in 1 .. c.num : NameAt(c, j) # text
           \/ found \in 1 .. c.num /\ NameAt(c, found) = text
        /\ Named(c) => found # Null
    BY <1>1, FindOutcome DEF Printed
  <2>2. Named(c)
    BY <1>1, <1>2 DEF Named, Printed
  <2> HIDE DEF found
  <2>3. \A i, j \in 1 .. c.num : Fixed(i) = Fixed(j) => i = j
    BY <1>1, FixedNamesDiffer
  <2> QED
    BY <1>1, <1>2, <2>1, <2>2, <2>3 DEF found
<1> QED
  BY <1>1, <1>3

LEMMA PickAsNamed ==
  ASSUME NEW c, Printed(c), NEW n \in {Guarded(c), Bold(c)}, NEW text \in Texts,
         NEW found, NEW missing
  PROVE  /\ \A i \in Present(c) :
              text = Fixed(i) => Pick(c, n, text, found, missing) = found[i]
         /\ (\A i \in Present(c) : text # Fixed(i))
              => Pick(c, n, text, found, missing) = missing
<1>1. n = c.num /\ 0 # Null /\ \A i \in Present(c) : i # Null /\ i # 0
  BY PickByName, NullIsApart
<1>2. /\ \A i \in Present(c) : text = Fixed(i) => Find(c, n, text) = i
      /\ (\A i \in Present(c) : text # Fixed(i)) => Find(c, n, text) = 0
  BY <1>1, PickByName
<1> QED
  BY <1>1, <1>2 DEF Pick

\* the texts of a token
LEMMA TokenNames ==
  ASSUME NEW c, NEW t \in Tokens, NEW i \in Present(c)
  PROVE  /\ Whole(t) = Fixed(i) => t.of = Fixed(i)
         /\ t.kind \in OfProfile /\ t.of = Fixed(i) => Cut(t) = Fixed(i)
         /\ t.kind = "profile" /\ t.of = Fixed(i) => Whole(t) = Fixed(i)
         /\ t.kind \notin OfProfile => Whole(t) = t.of
         /\ t # Null /\ Whole(t) \in Texts /\ Cut(t) \in Texts
BY TokenTexts, FixedNamesDiffer, NullIsApart DEF Whole, Cut

LEMMA RefusalsGenuine ==
  ASSUME NEW c
  PROVE  /\ \A fault : GenuineAll(c, Fault(fault))
         /\ GenuineAll(c, Done) /\ GenuineAll(c, Crashed) /\ GenuineAll(c, Silent)
         /\ GenuineAll(c, NoProfile) /\ GenuineAll(c, NoConfig) /\ GenuineAll(c, NoAudio)
         /\ GenuineAll(c, NoDecoding) /\ GenuineAll(c, NoOutputs)
         /\ GenuineAll(c, ConfigModify) /\ GenuineAll(c, Incomplete)
BY DEF GenuineAll, Fault, Done, Ok, Crashed, Silent, NoProfile, NoConfig, NoAudio,
   NoDecoding, NoOutputs, ConfigModify, Incomplete

LEMMA PickGenuine ==
  ASSUME NEW c, Printed(c), NEW n \in {Guarded(c), Bold(c)},
         NEW text \in Texts \cup {Null}, NEW found,
         \A i \in Present(c) : text = Fixed(i) => GenuineAll(c, found[i]),
         NEW missing, GenuineAll(c, missing)
  PROVE  GenuineAll(c, Pick(c, n, text, found, missing))
<1>1. CASE text = Null
  BY <1>1, RefusalsGenuine DEF Pick, Find
<1>2. CASE text # Null
  BY <1>2, PickAsNamed
<1> QED
  BY <1>1, <1>2
\* what the handlers show beside the names of profiles
Plainly == {"service", "count", "ptz", "as", "ao", "info", "topic", "state",
            "subscription"}
LEMMA DeviceGenuine ==
  ASSUME NEW c
  PROVE  /\ \A e \in VideoSourceEntries \cup AudioSourceEntries \cup OutputEntries(c) :
              Genuine(c, e)
         /\ \A i : /\ Genuine(c, Entry(VideoSource, i)) /\ Genuine(c, Entry(AudioSource, i))
                   /\ Genuine(c, Entry(AudioOutput, i)) /\ Genuine(c, Entry(PtzConfig, i))
                   /\ Genuine(c, Shown(i))
                   /\ \A codec : Genuine(c, Coded(Null, i, codec))
         /\ \A kind \in Plainly : \A of, i : Genuine(c, Entry(Token(kind, of), i))
<1>1. \A i : /\ Genuine(c, Entry(VideoSource, i)) /\ Genuine(c, Entry(AudioSource, i))
             /\ Genuine(c, Entry(AudioOutput, i)) /\ Genuine(c, Entry(PtzConfig, i))
             /\ Genuine(c, Entry(VideoSourceConfig, i))
             /\ Genuine(c, Entry(AudioSourceConfig, i))
             /\ Genuine(c, Entry(AudioOutputConfig(c), i))
             /\ Genuine(c, Shown(i))
             /\ \A codec : Genuine(c, Coded(Null, i, codec))
  BY DEF Genuine, Entry, Shown, Coded, VideoSource, VideoSourceConfig, AudioSource,
     AudioSourceConfig, AudioOutput, AudioOutputConfig, PtzConfig, Token, OfProfile
<1>2. \A kind \in Plainly : \A of, i : Genuine(c, Entry(Token(kind, of), i))
  BY DEF Genuine, Entry, Token, OfProfile, Plainly
<1> QED
  BY <1>1, <1>2 DEF VideoSourceEntries, AudioSourceEntries, OutputEntries

\* and with the name of one
LEMMA ProfileGenuine ==
  ASSUME NEW c, NEW i \in Present(c), NEW name, name = Fixed(i)
  PROVE  /\ Genuine(c, Profile(i, name)) /\ Genuine(c, Vec(i, name))
         /\ Genuine(c, Aec(c, i, name)) /\ Genuine(c, Adec(i, name))
         /\ Genuine(c, Coded(Token("aec", name), i, EncoderAt(c, i)))
BY DEF Genuine, Profile, Vec, Aec, Adec, Entry, Coded, Token, OfProfile

LEMMA AskNames ==
  ASSUME NEW c, NEW ask, IsAsk(ask), NEW i \in Present(c)
  PROVE  /\ ask.profile # Null /\ Whole(ask.profile) = Fixed(i) => ask.profile.of = Fixed(i)
BY TokenNames DEF IsAsk

LEMMA OkGenuine ==
  ASSUME NEW c
  PROVE  /\ \A S : GenuineAll(c, Ok(S)) <=> \A e \in S : Genuine(c, e)
         /\ \A e : GenuineAll(c, Ok({e})) <=> Genuine(c, e)
         /\ \A i : /\ GenuineAll(c, Ok({Entry(VideoSource, i)}))
                   /\ GenuineAll(c, Ok({Entry(AudioSource, i)}))
                   /\ GenuineAll(c, Ok({Entry(AudioOutput, i)}))
                   /\ GenuineAll(c, Ok({Shown(i)}))
                   /\ \A codec : GenuineAll(c, Ok({Coded(Null, i, codec)}))
         /\ GenuineAll(c, Ok(VideoSourceEntries)) /\ GenuineAll(c, Ok(AudioSourceEntries))
         /\ GenuineAll(c, Ok(OutputEntries(c)))
         /\ \A reply : GenuineAll(c, reply) => GenuineAll(c, NeedsFirst(c, reply))
<1>1. /\ \A S : GenuineAll(c, Ok(S)) <=> \A e \in S : Genuine(c, e)
      /\ \A e : GenuineAll(c, Ok({e})) <=> Genuine(c, e)
  BY DEF GenuineAll, Ok
<1>2. \A reply : GenuineAll(c, reply) => GenuineAll(c, NeedsFirst(c, reply))
  BY RefusalsGenuine DEF NeedsFirst
<1> QED
  BY <1>1, <1>2, DeviceGenuine

LEMMA MediaSourcesGenuine ==
  ASSUME NEW c, Printed(c), NEW ask, IsAsk(ask)
  PROVE  /\ GenuineAll(c, M!GetVideoSources(c, ask))
         /\ GenuineAll(c, M!GetVideoSourceConfigurations(c, ask))
         /\ GenuineAll(c, M!GetCompatibleVideoSourceConfigurations(c, ask))
         /\ GenuineAll(c, M!GetVideoSourceConfiguration(c, ask))
         /\ GenuineAll(c, M!GetVideoSourceConfigurationOptions(c, ask))
         /\ GenuineAll(c, M!GetAudioSources(c, ask))
         /\ GenuineAll(c, M!GetAudioSourceConfigurations(c, ask))
         /\ GenuineAll(c, M!GetAudioSourceConfiguration(c, ask))
         /\ GenuineAll(c, M!GetAudioSourceConfigurationOptions(c, ask))
         /\ GenuineAll(c, M!GetCompatibleAudioSourceConfigurations(c, ask))
<1>1. /\ GenuineAll(c, M!GetVideoSources(c, ask))
      /\ GenuineAll(c, M!GetVideoSourceConfigurations(c, ask))
      /\ GenuineAll(c, M!GetCompatibleVideoSourceConfigurations(c, ask))
      /\ GenuineAll(c, M!GetVideoSourceConfiguration(c, ask))
  BY OkGenuine, RefusalsGenuine, MediaSame
     DEF M!GetVideoSources, M!GetVideoSourceConfigurations,
         M!GetCompatibleVideoSourceConfigurations, M!GetVideoSourceConfiguration
<1>2. GenuineAll(c, M!GetVideoSourceConfigurationOptions(c, ask))
  <2> DEFINE text == ProfileFirst(ask, FirstName(c))
             options == Ok({Entry(VideoSource, 1)})
             missing == IF text = "VideoSourceConfigToken" THEN options ELSE NoConfig
  <2>1. GenuineAll(c, options) /\ GenuineAll(c, missing)
    BY OkGenuine, RefusalsGenuine
  <2>2. \A i \in Present(c) : <<options, options>>[i] = options
    BY PickByName
  <2>3. M!GetVideoSourceConfigurationOptions(c, ask)
          = NeedsFirst(c, Pick(c, Bold(c), text, <<options, options>>, missing))
    BY MediaSame DEF M!GetVideoSourceConfigurationOptions
  <2>4. text \in Texts \cup {Null}
    BY AskTexts DEF Printed
  <2> HIDE DEF text, options, missing
  <2>5. GenuineAll(c, Pick(c, Bold(c), text, <<options, options>>, missing))
    BY <2>1, <2>2, <2>4, PickGenuine
  <2> QED
    BY <2>3, <2>5, OkGenuine
<1>3. /\ GenuineAll(c, M!GetAudioSources(c, ask))
      /\ GenuineAll(c, M!GetAudioSourceConfigurations(c, ask))
      /\ GenuineAll(c, M!GetAudioSourceConfiguration(c, ask))
  BY OkGenuine, RefusalsGenuine, MediaSame
     DEF M!GetAudioSources, M!GetAudioSourceConfigurations, M!GetAudioSourceConfiguration
<1>4. GenuineAll(c, M!GetAudioSourceConfigurationOptions(c, ask))
  <2> DEFINE text == ProfileFirst(ask, FirstName(c))
             missing == IF text = "AudioSourceConfigToken" THEN Done ELSE NoConfig
  <2>1. GenuineAll(c, Done) /\ GenuineAll(c, missing)
    BY RefusalsGenuine
  <2>2. \A i \in Present(c) : <<Done, Done>>[i] = Done
    BY PickByName
  <2>3. M!GetAudioSourceConfigurationOptions(c, ask)
          \in {Crashed, NoAudio, Done, Pick(c, Bold(c), text, <<Done, Done>>, missing)}
    BY MediaSame DEF M!GetAudioSourceConfigurationOptions
  <2>4. text \in Texts \cup {Null}
    BY AskTexts DEF Printed
  <2> HIDE DEF text, missing
  <2>5. GenuineAll(c, Pick(c, Bold(c), text, <<Done, Done>>, missing))
    BY <2>1, <2>2, <2>4, PickGenuine
  <2> QED
    BY <2>3, <2>5, RefusalsGenuine
<1>5. GenuineAll(c, M!GetCompatibleAudioSourceConfigurations(c, ask))
  <2>1. M!GetCompatibleAudioSourceConfigurations(c, ask)
          \in {NoProfile, Crashed, Ok(AudioSourceEntries), NoAudio}
    BY MediaSame DEF M!GetCompatibleAudioSourceConfigurations
  <2> QED
    BY <2>1, OkGenuine, RefusalsGenuine
<1> QED
  BY <1>1, <1>2, <1>3, <1>4, <1>5

LEMMA MediaBlockGenuine ==
  ASSUME NEW c, NEW i \in Present(c), NEW name, name = Fixed(i)
  PROVE  GenuineAll(c, Ok(M!Block(c, i, name)))
<1>1. \A e \in M!Block(c, i, name) :
        \/ e \in {Profile(i, name), Vec(i, name), Aec(c, i, Fixed(i)), Entry(PtzConfig, 0)}
        \/ e \in VideoSourceEntries \cup AudioSourceEntries \cup OutputEntries(c)
  BY MediaSame DEF M!Block
<1> QED
  BY <1>1, OkGenuine, DeviceGenuine, ProfileGenuine

LEMMA MediaProfilesGenuine ==
  ASSUME NEW c, Printed(c), NEW ask, IsAsk(ask)
  PROVE  /\ GenuineAll(c, M!GetProfiles(c, ask)) /\ GenuineAll(c, M!GetProfile(c, ask))
         /\ GenuineAll(c, M!CreateProfile(c, ask)) /\ GenuineAll(c, M!DeleteProfile(c, ask))
         /\ GenuineAll(c, M!GetSnapshotUri(c, ask)) /\ GenuineAll(c, M!GetStreamUri(c, ask))
<1>1. GenuineAll(c, M!GetProfiles(c, ask))
  <2>1. M!GetProfiles(c, ask) = Ok(UNION {M!Block(c, i, Fixed(i)) : i \in Present(c)})
    BY MediaSame DEF M!GetProfiles
  <2>2. \A i \in Present(c) : \A e \in M!Block(c, i, Fixed(i)) : Genuine(c, e)
    BY MediaBlockGenuine, OkGenuine
  <2> QED
    BY <2>1, <2>2, OkGenuine
<1>2. GenuineAll(c, M!GetProfile(c, ask))
  <2> DEFINE found == [i \in Present(c) |-> Ok(M!Block(c, i, ask.profile.of))]
  <2>1. ask.profile # Null =>
          \A i \in Present(c) : Whole(ask.profile) = Fixed(i) => GenuineAll(c, found[i])
    BY AskNames, MediaBlockGenuine
  <2>2. M!GetProfile(c, ask)
          = IF ask.profile = Null THEN NoProfile
            ELSE Pick(c, Guarded(c), Whole(ask.profile), found, NoProfile)
    BY MediaSame DEF M!GetProfile
  <2>3. ask.profile # Null => Whole(ask.profile) \in Texts
    BY AskTexts DEF Printed
  <2> HIDE DEF found
  <2> QED
    BY <2>1, <2>2, <2>3, PickGenuine, RefusalsGenuine
<1>3. GenuineAll(c, M!CreateProfile(c, ask)) /\ GenuineAll(c, M!DeleteProfile(c, ask))
  BY RefusalsGenuine, MediaSame DEF M!CreateProfile, M!DeleteProfile
<1>4. ask.profile # Null => Whole(ask.profile) \in Texts
  BY AskTexts DEF Printed
<1>5. GenuineAll(c, M!GetSnapshotUri(c, ask))
  BY <1>4, PickGenuine, RefusalsGenuine, OkGenuine, MediaSame DEF M!GetSnapshotUri
<1>6. GenuineAll(c, M!GetStreamUri(c, ask))
  BY <1>4, PickGenuine, RefusalsGenuine, OkGenuine, MediaSame DEF M!GetStreamUri
<1> QED
  BY <1>1, <1>2, <1>3, <1>5, <1>6
LEMMA ListsGenuine ==
  ASSUME NEW c
  PROVE  /\ GenuineAll(c, Ok(AllVecs(c)))
         /\ GenuineAll(c, Ok(AllAecs(c)))
         /\ GenuineAll(c, Ok(AllAdecs(c)))
<1>1. Encoding(c) \subseteq Present(c) /\ Decoding(c) \subseteq Present(c)
  BY DEF Encoding, Decoding, Present
<1>2. /\ \A e \in AllVecs(c) : Genuine(c, e)
      /\ \A e \in AllAecs(c) : Genuine(c, e)
      /\ \A e \in AllAdecs(c) : Genuine(c, e)
  BY <1>1, ProfileGenuine DEF AllVecs, AllAecs, AllAdecs
<1> QED
  BY <1>2, OkGenuine

\* whatever the text is, when all that can be found is as it should be
LEMMA PickAnyGenuine ==
  ASSUME NEW c, Printed(c), NEW n \in {Guarded(c), Bold(c)}, NEW text, NEW found,
         \A i \in Present(c) : GenuineAll(c, found[i]), NEW missing, GenuineAll(c, missing)
  PROVE  GenuineAll(c, Pick(c, n, text, found, missing))
<1> DEFINE hits == {i \in 1 .. n : NameAt(c, i) \in {text, Null}}
           least == CHOOSE i \in hits : \A j \in hits : i <= j
<1>1. n = c.num /\ n \in 1 .. 2
  BY PickByName
<1>2. hits # {} => least \in Present(c)
  <2>1. hits \subseteq Nat
    BY <1>1
  <2>2. hits # {} => least \in hits
    BY <2>1, LeastElement
  <2> QED
    BY <1>1, <2>2 DEF Present
<1>3. Find(c, n, text) \in {Null, 0, least} /\ (hits = {} => Find(c, n, text) \in {Null, 0})
  BY DEF Find
<1> HIDE DEF hits, least
<1> QED
  BY <1>2, <1>3, RefusalsGenuine DEF Pick

LEMMA MediaEncodersGenuine ==
  ASSUME NEW c, Printed(c), NEW ask, IsAsk(ask)
  PROVE  /\ GenuineAll(c, M!GetVideoEncoderConfigurations(c, ask))
         /\ GenuineAll(c, M!GetVideoEncoderConfiguration(c, ask))
         /\ GenuineAll(c, M!GetCompatibleVideoEncoderConfigurations(c, ask))
         /\ GenuineAll(c, M!GetVideoEncoderConfigurationOptions(c, ask))
         /\ GenuineAll(c, M!GetGuaranteedNumberOfVideoEncoderInstances(c, ask))
         /\ GenuineAll(c, M!GetAudioEncoderConfigurations(c, ask))
         /\ GenuineAll(c, M!GetAudioEncoderConfiguration(c, ask))
         /\ GenuineAll(c, M!GetCompatibleAudioEncoderConfigurations(c, ask))
         /\ GenuineAll(c, M!GetAudioEncoderConfigurationOptions(c, ask))
<1>0. /\ ask.profile # Null => Whole(ask.profile) \in Texts
      /\ ask.config # Null => Cut(ask.config) \in Texts
      /\ ConfigFirst(ask, FirstName(c)) \in Texts \cup {Null}
  BY AskTexts DEF Printed
<1>1. GenuineAll(c, M!GetVideoEncoderConfigurations(c, ask))
  BY ListsGenuine, RefusalsGenuine, MediaSame
     DEF M!GetVideoEncoderConfigurations, AllVecs
<1>2. GenuineAll(c, M!GetVideoEncoderConfiguration(c, ask))
  <2> DEFINE found == [i \in Present(c) |-> Ok({Vec(i, Cut(ask.config))})]
  <2>1. \A i \in Present(c) : Cut(ask.config) = Fixed(i) => GenuineAll(c, found[i])
    BY OkGenuine, ProfileGenuine
  <2>2. M!GetVideoEncoderConfiguration(c, ask)
          = IF ask.config = Null THEN NoConfig
            ELSE Pick(c, Bold(c), Cut(ask.config), found, NoConfig)
    BY MediaSame DEF M!GetVideoEncoderConfiguration
  <2> HIDE DEF found
  <2> QED
    BY <1>0, <2>1, <2>2, PickGenuine, RefusalsGenuine
<1>3. GenuineAll(c, M!GetCompatibleVideoEncoderConfigurations(c, ask))
  <2> DEFINE found == [i \in Present(c) |-> Ok({Vec(i, ask.profile.of)})]
  <2>1. ask.profile # Null => \A i \in Present(c) :
          Whole(ask.profile) = Fixed(i) => GenuineAll(c, found[i])
    BY AskNames, OkGenuine, ProfileGenuine
  <2>2. M!GetCompatibleVideoEncoderConfigurations(c, ask)
          = IF ask.profile = Null THEN NoProfile
            ELSE Pick(c, Bold(c), Whole(ask.profile), found, NoProfile)
    BY MediaSame DEF M!GetCompatibleVideoEncoderConfigurations
  <2> HIDE DEF found
  <2> QED
    BY <1>0, <2>1, <2>2, PickGenuine, RefusalsGenuine
<1>4. GenuineAll(c, M!GetVideoEncoderConfigurationOptions(c, ask))
  BY <1>0, PickGenuine, RefusalsGenuine, OkGenuine, MediaSame
     DEF M!GetVideoEncoderConfigurationOptions
<1>5. GenuineAll(c, M!GetGuaranteedNumberOfVideoEncoderInstances(c, ask))
  BY RefusalsGenuine, MediaSame DEF M!GetGuaranteedNumberOfVideoEncoderInstances
<1>6. GenuineAll(c, M!GetAudioEncoderConfigurations(c, ask))
  BY ListsGenuine, RefusalsGenuine, MediaSame
     DEF M!GetAudioEncoderConfigurations, AllAecs
<1>7. GenuineAll(c, M!GetAudioEncoderConfiguration(c, ask))
  <2> DEFINE found == [i \in Present(c) |->
                         IF EncoderAt(c, i) = "NONE" THEN NoAudio
                         ELSE Ok({Aec(c, i, Cut(ask.config))})]
  <2>1. \A i \in Present(c) : Cut(ask.config) = Fixed(i) => GenuineAll(c, found[i])
    BY OkGenuine, ProfileGenuine, RefusalsGenuine
  <2>2. M!GetAudioEncoderConfiguration(c, ask)
          = IF ask.config = Null THEN NoConfig
            ELSE Pick(c, Bold(c), Cut(ask.config), found, NoConfig)
    BY MediaSame DEF M!GetAudioEncoderConfiguration
  <2> HIDE DEF found
  <2> QED
    BY <1>0, <2>1, <2>2, PickGenuine, RefusalsGenuine
<1>8. GenuineAll(c, M!GetCompatibleAudioEncoderConfigurations(c, ask))
  <2> DEFINE found == [i \in Present(c) |->
                         IF EncoderAt(c, i) = "NONE" THEN NoAudio
                         ELSE Ok({Aec(c, i, ask.profile.of)})]
  <2>1. ask.profile # Null => \A i \in Present(c) :
          Whole(ask.profile) = Fixed(i) => GenuineAll(c, found[i])
    BY AskNames, OkGenuine, ProfileGenuine, RefusalsGenuine
  <2>2. M!GetCompatibleAudioEncoderConfigurations(c, ask)
          = IF ask.profile = Null THEN NoProfile
            ELSE Pick(c, Bold(c), Whole(ask.profile), found, NoProfile)
    BY MediaSame DEF M!GetCompatibleAudioEncoderConfigurations
  <2> HIDE DEF found
  <2> QED
    BY <1>0, <2>1, <2>2, PickGenuine, RefusalsGenuine
<1>9. GenuineAll(c, M!GetAudioEncoderConfigurationOptions(c, ask))
  <2> DEFINE found == [i \in Present(c) |->
                         IF M!Offered(EncoderAt(c, i))
                         THEN Ok({Coded(Null, i, EncoderAt(c, i))}) ELSE NoAudio]
  <2>1. M!EncodingOptions(c) = found
    BY MediaSame DEF M!EncodingOptions
  <2>2. \A i \in Present(c) : GenuineAll(c, found[i])
    BY OkGenuine, RefusalsGenuine
  <2> HIDE DEF found
  <2>3. \/ M!GetAudioEncoderConfigurationOptions(c, ask) = NoAudio
        \/ \E text : M!GetAudioEncoderConfigurationOptions(c, ask)
                       = Pick(c, Guarded(c), text, found, NoProfile)
    BY <2>1, MediaSame DEF M!GetAudioEncoderConfigurationOptions
  <2> QED
    BY <2>2, <2>3, PickAnyGenuine, RefusalsGenuine
<1> QED
  BY <1>1, <1>2, <1>3, <1>4, <1>5, <1>6, <1>7, <1>8, <1>9

LEMMA MediaDecodersGenuine ==
  ASSUME NEW c, Printed(c), NEW ask, IsAsk(ask)
  PROVE  /\ GenuineAll(c, M!GetAudioDecoderConfigurations(c, ask))
         /\ GenuineAll(c, M!GetAudioDecoderConfiguration(c, ask))
         /\ GenuineAll(c, M!GetCompatibleAudioDecoderConfigurations(c, ask))
         /\ GenuineAll(c, M!GetAudioDecoderConfigurationOptions(c, ask))
         /\ GenuineAll(c, M!GetAudioOutputs(c, ask))
         /\ GenuineAll(c, M!GetAudioOutputConfiguration(c, ask))
         /\ GenuineAll(c, M!GetAudioOutputConfigurations(c, ask))
         /\ GenuineAll(c, M!GetCompatibleAudioOutputConfigurations(c, ask))
         /\ GenuineAll(c, M!GetAudioOutputConfigurationOptions(c, ask))
<1>0. /\ ask.profile # Null => Whole(ask.profile) \in Texts
      /\ ask.config # Null => Cut(ask.config) \in Texts
  BY AskTexts DEF Printed
<1>1. GenuineAll(c, M!GetAudioDecoderConfigurations(c, ask))
  BY ListsGenuine, RefusalsGenuine, MediaSame
     DEF M!GetAudioDecoderConfigurations, AllAdecs
<1>2. GenuineAll(c, M!GetAudioDecoderConfiguration(c, ask))
  <2> DEFINE found == [i \in Present(c) |->
                         IF DecoderAt(c, i) = "NONE" THEN NoDecoding
                         ELSE Ok({Adec(i, Cut(ask.config))})]
  <2>1. \A i \in Present(c) : Cut(ask.config) = Fixed(i) => GenuineAll(c, found[i])
    BY OkGenuine, ProfileGenuine, RefusalsGenuine
  <2>2. M!GetAudioDecoderConfiguration(c, ask)
          = IF ask.config = Null THEN NoConfig
            ELSE Pick(c, Bold(c), Cut(ask.config), found, NoConfig)
    BY MediaSame DEF M!GetAudioDecoderConfiguration
  <2> HIDE DEF found
  <2> QED
    BY <1>0, <2>1, <2>2, PickGenuine, RefusalsGenuine
<1>3. GenuineAll(c, M!GetCompatibleAudioDecoderConfigurations(c, ask))
  <2> DEFINE found == [i \in Present(c) |->
                         IF DecoderAt(c, i) = "NONE" THEN NoDecoding
                         ELSE Ok({Adec(i, ask.profile.of)})]
  <2>1. ask.profile # Null => \A i \in Present(c) :
          Whole(ask.profile) = Fixed(i) => GenuineAll(c, found[i])
    BY AskNames, OkGenuine, ProfileGenuine, RefusalsGenuine
  <2>2. M!GetCompatibleAudioDecoderConfigurations(c, ask)
          = IF ask.profile = Null THEN NoProfile
            ELSE Pick(c, Bold(c), Whole(ask.profile), found, NoProfile)
    BY MediaSame DEF M!GetCompatibleAudioDecoderConfigurations
  <2> HIDE DEF found
  <2> QED
    BY <1>0, <2>1, <2>2, PickGenuine, RefusalsGenuine
<1>4. GenuineAll(c, M!GetAudioDecoderConfigurationOptions(c, ask))
  <2> DEFINE found == [i \in Present(c) |-> M!DecodingOptions(DecoderAt(c, i), i)]
             missing == M!DecodingOptions(c.junk.codec, 0)
  <2>1. M!GetAudioDecoderConfigurationOptions(c, ask)
          = Pick(c, Bold(c), ConfigFirst(ask, FirstName(c)), found, missing)
    BY MediaSame DEF M!GetAudioDecoderConfigurationOptions
  <2>2. \A codec, i : GenuineAll(c, M!DecodingOptions(codec, i))
    BY OkGenuine, RefusalsGenuine, MediaSame DEF M!DecodingOptions
  <2>3. (\A i \in Present(c) : GenuineAll(c, found[i])) /\ GenuineAll(c, missing)
    BY <2>2
  <2> HIDE DEF found, missing
  <2> QED
    BY <2>1, <2>3, PickAnyGenuine
<1>5. /\ GenuineAll(c, M!GetAudioOutputs(c, ask))
      /\ GenuineAll(c, M!GetAudioOutputConfiguration(c, ask))
      /\ GenuineAll(c, M!GetAudioOutputConfigurations(c, ask))
      /\ GenuineAll(c, M!GetCompatibleAudioOutputConfigurations(c, ask))
      /\ GenuineAll(c, M!GetAudioOutputConfigurationOptions(c, ask))
  BY OkGenuine, RefusalsGenuine, MediaSame
     DEF M!IfOutputs, M!GetAudioOutputs, M!GetAudioOutputConfiguration,
         M!GetAudioOutputConfigurations, M!GetCompatibleAudioOutputConfigurations,
         M!GetAudioOutputConfigurationOptions
<1> QED
  BY <1>1, <1>2, <1>3, <1>4, <1>5

LEMMA MediaSettersGenuine ==
  ASSUME NEW c, NEW ask
  PROVE  /\ GenuineAll(c, M!SetVideoSourceConfiguration(c, ask))
         /\ GenuineAll(c, M!SetAudioSourceConfiguration(c, ask))
         /\ GenuineAll(c, M!SetAudioOutputConfiguration(c, ask))
         /\ GenuineAll(c, M!SetVideoEncoderConfiguration(c, ask))
         /\ GenuineAll(c, M!SetAudioEncoderConfiguration(c, ask))
         /\ GenuineAll(c, M!SetMetadataConfiguration(c, ask))
         /\ GenuineAll(c, M!GetMetadata(c, ask)) /\ GenuineAll(c, M!AddOrRemove(c, ask))
         /\ GenuineAll(c, M!GetMetadataConfiguration(c, ask))
         /\ GenuineAll(c, M!StartMulticastStreaming(c, ask))
         /\ GenuineAll(c, M!StopMulticastStreaming(c, ask))
         /\ GenuineAll(c, M!SetSynchronizationPoint(c, ask))
         /\ GenuineAll(c, M!GetServiceCapabilities(c, ask))
         /\ GenuineAll(c, M!Unsupported(c, ask))
BY RefusalsGenuine, MediaSame
   DEF M!SetVideoSourceConfiguration, M!SetAudioSourceConfiguration,
       M!SetAudioOutputConfiguration, M!SetVideoEncoderConfiguration,
       M!SetAudioEncoderConfiguration, M!SetMetadataConfiguration, M!Fixedly,
       M!GetMetadata, M!AddOrRemove, M!GetMetadataConfiguration,
       M!StartMulticastStreaming, M!StopMulticastStreaming, M!SetSynchronizationPoint,
       M!GetServiceCapabilities, M!Unsupported

LEMMA MediaGenuine ==
  ASSUME NEW c, Printed(c), NEW ask, IsAsk(ask), NEW method
  PROVE  GenuineAll(c, M!Handle(c, method, ask))
BY MediaSourcesGenuine, MediaProfilesGenuine, MediaEncodersGenuine, MediaDecodersGenuine,
   MediaSettersGenuine DEF M!Handle
\* Either answers one way or refuses, whatever the names are
LEMMA EitherOutcome ==
  ASSUME NEW c, NEW n \in 1 .. 2, NEW text, NEW fixed, NEW reply
  PROVE  M2!Either(c, n, text, fixed, reply) \in {Crashed, NoConfig, reply}
<1> DEFINE hits == {i \in 1 .. n : NameAt(c, i) \in {text, Null}}
           least == CHOOSE i \in hits : \A j \in hits : i <= j
           missing == IF text = fixed THEN reply ELSE NoConfig
           both == <<reply, reply>>
<1>1. hits # {} => least \in 1 .. 2
  <2>1. hits \subseteq Nat
    OBVIOUS
  <2>2. hits # {} => least \in hits
    BY <2>1, LeastElement
  <2> QED
    BY <2>2
<1>2. Find(c, n, text) \in {Null, 0, least} /\ (hits = {} => Find(c, n, text) \in {Null, 0})
  BY DEF Find
<1>3. M2!Either(c, n, text, fixed, reply) = Pick(c, n, text, both, missing)
  BY Media2Same DEF M2!Either
<1>4. \A i \in 1 .. 2 : both[i] = reply
  OBVIOUS
<1>5. missing \in {NoConfig, reply}
  OBVIOUS
<1> HIDE DEF hits, least, missing, both
<1> QED
  BY <1>1, <1>2, <1>3, <1>4, <1>5 DEF Pick

\* a token that stands for the second profile, with the values of another one
Loaned(c, e) == Lent(e, 2) /\ 2 \in Present(c)
GenuineOrLoaned(c, reply) == \A e \in reply.entries : Genuine(c, e) \/ Loaned(c, e)

LEMMA Media2BlockGenuine ==
  ASSUME NEW c, Printed(c), NEW i \in Present(c), NEW types
  PROVE  /\ GenuineAll(c, Ok(M2!Block(c, i, types, i)))
         /\ GenuineOrLoaned(c, Ok(M2!Block(c, i, types, 1)))
<1>1. \A k : \A e \in M2!Block(c, i, types, k) :
        \/ e \in {Profile(i, Fixed(i)), Vec(k, Fixed(i)), Adec(i, Fixed(i)),
                  Aec(c, k, Fixed(i)), Entry(PtzConfig, 0)}
        \/ e \in VideoSourceEntries \cup AudioSourceEntries \cup OutputEntries(c)
  BY Media2Same DEF M2!Block, M2!If
<1>2. i \in 1 .. 2
  BY PickByName
<1>3. i = 2 => Loaned(c, Vec(1, Fixed(i))) /\ Loaned(c, Aec(c, 1, Fixed(i)))
  <2>1. Token("vec", Fixed(2)) # Null /\ Token("aec", Fixed(2)) # Null
    BY TokensAreSet, FixedTexts DEF Kinds, OfProfile
  <2> QED
    BY <2>1 DEF Loaned, Lent, Vec, Aec, Entry, Coded, Token
<1>4. GenuineAll(c, Ok(M2!Block(c, i, types, i)))
  BY <1>1, OkGenuine, DeviceGenuine, ProfileGenuine
<1>5. \A e \in M2!Block(c, i, types, 1) : Genuine(c, e) \/ Loaned(c, e)
  BY <1>1, <1>2, <1>3, DeviceGenuine, ProfileGenuine
<1> QED
  BY <1>4, <1>5 DEF GenuineOrLoaned, Ok

LEMMA Media2ProfilesGenuine ==
  ASSUME NEW c, Printed(c), NEW ask, IsAsk(ask)
  PROVE  /\ ask.profile = Null => GenuineAll(c, M2!GetProfiles(c, ask))
         /\ ask.profile # Null => GenuineOrLoaned(c, M2!GetProfiles(c, ask))
         /\ GenuineAll(c, M2!GetServiceCapabilities(c, ask))
         /\ GenuineAll(c, M2!GetSnapshotUri(c, ask)) /\ GenuineAll(c, M2!GetStreamUri(c, ask))
         /\ GenuineAll(c, M2!GetVideoSourceModes(c, ask))
         /\ GenuineAll(c, M2!GetVideoEncoderConfigurations(c, ask))
         /\ GenuineAll(c, M2!GetVideoEncoderConfigurationOptions(c, ask))
<1>1. /\ ask.profile = Null => GenuineAll(c, M2!GetProfiles(c, ask))
      /\ ask.profile # Null => GenuineOrLoaned(c, M2!GetProfiles(c, ask))
  <2> DEFINE found == [i \in Present(c) |-> Ok(M2!Block(c, i, ask.words, 1))]
             all == UNION {M2!Block(c, i, ask.words, i) : i \in Present(c)}
             one == Pick(c, Guarded(c), Whole(ask.profile), found, NoProfile)
  <2>1. \A i \in Present(c) : GenuineOrLoaned(c, found[i])
    BY Media2BlockGenuine
  <2>2. GenuineAll(c, Ok(all))
    <3>1. \A i \in Present(c) : \A e \in M2!Block(c, i, ask.words, i) : Genuine(c, e)
      BY Media2BlockGenuine, OkGenuine
    <3> QED
      BY <3>1, OkGenuine
  <2>3. GenuineAll(c, Ok({})) /\ GenuineOrLoaned(c, Ok({}))
    BY OkGenuine DEF GenuineOrLoaned, Ok
  <2>4. M2!GetProfiles(c, ask)
          = IF c.num = 0 THEN Ok({}) ELSE IF ask.profile = Null THEN Ok(all) ELSE one
    BY Media2Same DEF M2!GetProfiles
  <2>5. ask.profile # Null => Whole(ask.profile) \in Texts
    BY AskTexts DEF Printed
  <2>6. GenuineOrLoaned(c, NoProfile)
    BY DEF GenuineOrLoaned, NoProfile, Fault
  <2> HIDE DEF found
  <2>7. ask.profile # Null => GenuineOrLoaned(c, one)
    BY <2>1, <2>5, <2>6, PickAsNamed
  <2> HIDE DEF all, one
  <2> QED
    BY <2>2, <2>3, <2>4, <2>7
<1>2. GenuineAll(c, M2!GetServiceCapabilities(c, ask))
      /\ GenuineAll(c, M2!GetVideoSourceModes(c, ask))
  BY OkGenuine, RefusalsGenuine, Media2Same
     DEF M2!GetServiceCapabilities, M2!GetVideoSourceModes
<1>3. GenuineAll(c, M2!GetSnapshotUri(c, ask))
  BY PickAnyGenuine, RefusalsGenuine, OkGenuine, Media2Same DEF M2!GetSnapshotUri
<1>4. GenuineAll(c, M2!GetStreamUri(c, ask))
  BY PickAnyGenuine, RefusalsGenuine, OkGenuine, Media2Same DEF M2!GetStreamUri
<1>5. GenuineAll(c, M2!GetVideoEncoderConfigurations(c, ask))
  <2> DEFINE found == [i \in Present(c) |-> Ok({Vec(i, Fixed(i))})]
  <2>1. \A i \in Present(c) : GenuineAll(c, found[i])
    BY OkGenuine, ProfileGenuine
  <2>2. M2!GetVideoEncoderConfigurations(c, ask)
          \in {Silent, Ok(AllVecs(c)),
               Pick(c, Guarded(c), ConfigFirst(ask, "*"), found, NoProfile)}
    BY Media2Same DEF M2!GetVideoEncoderConfigurations, AllVecs
  <2> HIDE DEF found
  <2> QED
    BY <2>1, <2>2, ListsGenuine, PickAnyGenuine, RefusalsGenuine
<1>6. GenuineAll(c, M2!GetVideoEncoderConfigurationOptions(c, ask))
  BY PickAnyGenuine, RefusalsGenuine, OkGenuine, Media2Same
     DEF M2!GetVideoEncoderConfigurationOptions
<1> QED
  BY <1>1, <1>2, <1>3, <1>4, <1>5, <1>6

LEMMA Media2EitherGenuine ==
  ASSUME NEW c, Printed(c), NEW ask
  PROVE  /\ GenuineAll(c, M2!GetVideoSourceConfigurations(c, ask))
         /\ GenuineAll(c, M2!GetVideoSourceConfigurationOptions(c, ask))
         /\ GenuineAll(c, M2!GetAudioSourceConfigurations(c, ask))
         /\ GenuineAll(c, M2!GetAudioSourceConfigurationOptions(c, ask))
         /\ GenuineAll(c, M2!GetAudioOutputConfigurations(c, ask))
         /\ GenuineAll(c, M2!GetAudioOutputConfigurationOptions(c, ask))
<1>1. ASSUME NEW n \in {2, Guarded(c)}, NEW text, NEW fixed, NEW reply, GenuineAll(c, reply)
      PROVE  GenuineAll(c, M2!Either(c, n, text, fixed, reply))
             /\ GenuineAll(c, NeedsFirst(c, M2!Either(c, n, text, fixed, reply)))
  <2>1. n \in 1 .. 2
    BY PickByName
  <2> QED
    BY <1>1, <2>1, EitherOutcome, RefusalsGenuine, OkGenuine
<1>2. /\ GenuineAll(c, IF Encoding(c) = {} THEN NoAudio ELSE Ok(AudioSourceEntries))
      /\ GenuineAll(c, IF M2!AudioOutputSupported(c) THEN Ok(OutputEntries(c)) ELSE NoOutputs)
  BY OkGenuine, RefusalsGenuine
<1>3. GenuineAll(c, M2!GetVideoSourceConfigurations(c, ask))
  BY <1>1, OkGenuine, Media2Same DEF M2!GetVideoSourceConfigurations, M2!FirstTwo
<1>4. GenuineAll(c, M2!GetVideoSourceConfigurationOptions(c, ask))
  BY <1>1, OkGenuine, Media2Same DEF M2!GetVideoSourceConfigurationOptions, M2!FirstTwo
<1>5. GenuineAll(c, M2!GetAudioSourceConfigurations(c, ask))
  BY <1>1, <1>2, Media2Same DEF M2!GetAudioSourceConfigurations, M2!FirstTwo
<1>6. GenuineAll(c, M2!GetAudioSourceConfigurationOptions(c, ask))
  BY <1>1, RefusalsGenuine, Media2Same DEF M2!GetAudioSourceConfigurationOptions
<1>7. GenuineAll(c, M2!GetAudioOutputConfigurations(c, ask))
  BY <1>1, <1>2, Media2Same DEF M2!GetAudioOutputConfigurations, M2!FirstTwo
<1>8. GenuineAll(c, M2!GetAudioOutputConfigurationOptions(c, ask))
  BY <1>1, OkGenuine, RefusalsGenuine, Media2Same DEF M2!GetAudioOutputConfigurationOptions
<1> QED
  BY <1>3, <1>4, <1>5, <1>6, <1>7, <1>8
LEMMA Media2AudioGenuine ==
  ASSUME NEW c, Printed(c), NEW ask
  PROVE  /\ GenuineAll(c, M2!GetAudioEncoderConfigurations(c, ask))
         /\ GenuineAll(c, M2!GetAudioEncoderConfigurationOptions(c, ask))
         /\ GenuineAll(c, M2!GetAudioDecoderConfigurations(c, ask))
         /\ GenuineAll(c, M2!GetAudioDecoderConfigurationOptions(c, ask))
<1>1. GenuineAll(c, M2!GetAudioEncoderConfigurations(c, ask))
  <2> DEFINE found == [i \in Present(c) |-> IF i \notin Encoding(c) THEN NoAudio
                                            ELSE Ok({Aec(c, i, Fixed(i))})]
  <2>1. \A i \in Present(c) : GenuineAll(c, found[i])
    BY OkGenuine, ProfileGenuine, RefusalsGenuine
  <2>2. M2!GetAudioEncoderConfigurations(c, ask)
          \in {Crashed, NoAudio, Silent, Ok(AllAecs(c)),
               Pick(c, Guarded(c), ConfigFirst(ask, "*"), found, NoProfile)}
    BY Media2Same DEF M2!GetAudioEncoderConfigurations, AllAecs
  <2> HIDE DEF found
  <2> QED
    BY <2>1, <2>2, ListsGenuine, PickAnyGenuine, RefusalsGenuine
<1>2. GenuineAll(c, M2!GetAudioEncoderConfigurationOptions(c, ask))
  <2> DEFINE found == [i \in Present(c) |->
                         IF M2!Offered(EncoderAt(c, i))
                         THEN Ok({Coded(Null, i, EncoderAt(c, i))}) ELSE NoAudio]
             text == ConfigFirst(ask, M2!FirstNameOf(c, Encoding(c)))
  <2>1. \A i \in Present(c) : GenuineAll(c, found[i])
    BY OkGenuine, RefusalsGenuine
  <2>2. M2!GetAudioEncoderConfigurationOptions(c, ask)
          \in {NoAudio, Pick(c, Guarded(c), text, found, NoProfile)}
    BY Media2Same DEF M2!GetAudioEncoderConfigurationOptions
  <2> HIDE DEF found, text
  <2> QED
    BY <2>1, <2>2, PickAnyGenuine, RefusalsGenuine
<1>3. GenuineAll(c, M2!GetAudioDecoderConfigurations(c, ask))
  <2> DEFINE found == [i \in Present(c) |-> IF i \notin Decoding(c) THEN NoDecoding
                                            ELSE Ok({Adec(i, Fixed(i))})]
  <2>1. \A i \in Present(c) : GenuineAll(c, found[i])
    BY OkGenuine, ProfileGenuine, RefusalsGenuine
  <2>2. M2!GetAudioDecoderConfigurations(c, ask)
          \in {Silent, NoDecoding, Ok(AllAdecs(c)),
               Pick(c, Guarded(c), ConfigFirst(ask, "*"), found, NoConfig)}
    BY Media2Same DEF M2!GetAudioDecoderConfigurations, AllAdecs
  <2> HIDE DEF found
  <2> QED
    BY <2>1, <2>2, ListsGenuine, PickAnyGenuine, RefusalsGenuine
<1>4. GenuineAll(c, M2!GetAudioDecoderConfigurationOptions(c, ask))
  <2> DEFINE found == [i \in Present(c) |->
                         IF M2!Offered(DecoderAt(c, i))
                         THEN Ok({Coded(Null, i, DecoderAt(c, i))}) ELSE NoDecoding]
             text == ConfigFirst(ask, M2!FirstNameOf(c, Decoding(c)))
  <2>1. \A i \in Present(c) : GenuineAll(c, found[i])
    BY OkGenuine, RefusalsGenuine
  <2>2. M2!GetAudioDecoderConfigurationOptions(c, ask)
          \in {NoDecoding, Pick(c, Guarded(c), text, found, NoDecoding)}
    BY Media2Same DEF M2!GetAudioDecoderConfigurationOptions
  <2> HIDE DEF found, text
  <2> QED
    BY <2>1, <2>2, PickAnyGenuine, RefusalsGenuine
<1> QED
  BY <1>1, <1>2, <1>3, <1>4

LEMMA Media2SettersGenuine ==
  ASSUME NEW c, NEW ask
  PROVE  /\ GenuineAll(c, M2!CreateProfile(c, ask)) /\ GenuineAll(c, M2!DeleteProfile(c, ask))
         /\ GenuineAll(c, M2!AddOrRemoveConfiguration(c, ask))
         /\ GenuineAll(c, M2!SetSynchronizationPoint(c, ask))
         /\ GenuineAll(c, M2!GetVideoEncoderInstances(c, ask))
         /\ GenuineAll(c, M2!SetVideoSourceConfiguration(c, ask))
         /\ GenuineAll(c, M2!SetAudioSourceConfiguration(c, ask))
         /\ GenuineAll(c, M2!SetAudioOutputConfiguration(c, ask))
         /\ GenuineAll(c, M2!SetVideoEncoderConfiguration(c, ask))
         /\ GenuineAll(c, M2!SetAudioEncoderConfiguration(c, ask))
         /\ GenuineAll(c, M2!Unsupported(c, ask))
BY RefusalsGenuine, Media2Same
   DEF M2!CreateProfile, M2!DeleteProfile, M2!AddOrRemoveConfiguration,
       M2!SetSynchronizationPoint, M2!GetVideoEncoderInstances,
       M2!SetVideoSourceConfiguration, M2!SetAudioSourceConfiguration,
       M2!SetAudioOutputConfiguration, M2!SetVideoEncoderConfiguration,
       M2!SetAudioEncoderConfiguration, M2!Fixedly, M2!Unsupported

LEMMA Media2Genuine ==
  ASSUME NEW c, Printed(c), NEW ask, IsAsk(ask), NEW method
  PROVE  /\ ~ (method = "GetProfiles" /\ ask.profile # Null)
              => GenuineAll(c, M2!Handle(c, method, ask))
         /\ method = "GetProfiles" /\ ask.profile # Null
              => GenuineOrLoaned(c, M2!Handle(c, method, ask))
<1>0. /\ GenuineAll(c, M2!Unsupported(c, ask))
      /\ \A reply : GenuineAll(c, reply) => GenuineOrLoaned(c, reply)
  BY Media2SettersGenuine DEF GenuineAll, GenuineOrLoaned
<1>1. CASE method = "GetProfiles"
  <2>1. M2!Handle(c, method, ask) \in {M2!Unsupported(c, ask), M2!GetProfiles(c, ask)}
    BY <1>1 DEF M2!Handle, M2!SetMethods, M2!ProfileMethods
  <2> QED
    BY <1>0, <1>1, <2>1, Media2ProfilesGenuine
<1>2. CASE method # "GetProfiles"
  <2>1. /\ GenuineAll(c, M2!GetServiceCapabilities(c, ask))
        /\ GenuineAll(c, M2!GetSnapshotUri(c, ask)) /\ GenuineAll(c, M2!GetStreamUri(c, ask))
        /\ GenuineAll(c, M2!GetVideoSourceModes(c, ask))
        /\ GenuineAll(c, M2!GetVideoEncoderConfigurations(c, ask))
        /\ GenuineAll(c, M2!GetVideoEncoderConfigurationOptions(c, ask))
    BY Media2ProfilesGenuine
  <2>2. GenuineAll(c, M2!Handle(c, method, ask))
    BY <1>2, <2>1, Media2EitherGenuine, Media2AudioGenuine, Media2SettersGenuine
       DEF M2!Handle
  <2> QED
    BY <1>2, <2>2
<1> QED
  BY <1>1, <1>2

LEMMA DeviceServiceGenuine ==
  ASSUME NEW c, NEW ask, NEW method
  PROVE  GenuineAll(c, D!Handle(c, method, ask))
<1>1. \A kind \in {"service", "count", "info"} : \A of, i :
        Genuine(c, D!Entry(D!Token(kind, of), i))
  BY DeviceGenuine, DeviceSame DEF Plainly
<1>2. \A s : Genuine(c, D!Service(s)) /\ Genuine(c, D!Info(s))
  BY <1>1 DEF D!Service, D!Info
<1>3. \A e \in D!EventFlags(c) \cup D!IoCounts(c) : Genuine(c, e)
  BY <1>1 DEF D!EventFlags, D!IoCounts, D!Count
<1>4. \A S : (\A e \in S : Genuine(c, e)) => GenuineAll(c, D!NeedsFirst(c, D!Ok(S)))
  BY OkGenuine, DeviceSame
<1>5. \A fault : /\ GenuineAll(c, D!Fault(fault))
                 /\ GenuineAll(c, D!NeedsFirst(c, D!Fault(fault)))
  BY RefusalsGenuine, OkGenuine, DeviceSame
<1>6. GenuineAll(c, D!Done)
  BY RefusalsGenuine, DeviceSame
<1>7. GenuineAll(c, D!GetServices(c, ask))
  <2> DEFINE all == {D!Service(s) : s \in D!Listed(c) \cup IF c.media2 THEN {"media2_service"}
                                                           ELSE {}}
             counts == IF "capabilities" \in ask.words
                       THEN D!EventFlags(c) \cup D!IoCounts(c) ELSE {}
  <2>1. \A e \in all \cup counts : Genuine(c, e)
    BY <1>2, <1>3
  <2>2. D!GetServices(c, ask)
          = IF ~ c.address THEN D!Fault("ActionFailed")
            ELSE D!NeedsFirst(c, D!Ok(all \cup counts))
    BY DEF D!GetServices
  <2> HIDE DEF all, counts
  <2> QED
    BY <1>4, <1>5, <2>1, <2>2
<1>8. GenuineAll(c, D!GetCapabilities(c, ask))
  <2> DEFINE listed == {D!Service(s) : s \in D!Listed(c)}
  <2>1. \A e \in listed : Genuine(c, e)
    BY <1>2
  <2>2. /\ \A s : GenuineAll(c, D!NeedsFirst(c, D!Ok({D!Service(s)})))
        /\ GenuineAll(c, D!NeedsFirst(c, D!Ok({D!Service("events_service")}
                                                \cup D!EventFlags(c))))
        /\ GenuineAll(c, D!NeedsFirst(c, D!Ok(listed \cup D!EventFlags(c)
                                                \cup D!IoCounts(c))))
    <3> HIDE DEF listed
    <3> QED
      BY <1>2, <1>3, <1>4, <2>1
  <2> QED
    BY <1>5, <2>2 DEF D!GetCapabilities
<1>9. \A what : GenuineAll(c, D!Ok({D!Info(what)}))
  BY <1>2, OkGenuine, DeviceSame
<1>10. /\ GenuineAll(c, D!GetEndpointReference(c, ask))
       /\ GenuineAll(c, D!GetNetworkInterfaces(c, ask))
       /\ GenuineAll(c, D!Tell(c, method))
  BY <1>5, <1>9
     DEF D!GetEndpointReference, D!GetNetworkInterfaces, D!TellsAddress, D!Tell
<1> QED
  BY <1>5, <1>6, <1>7, <1>8, <1>10
     DEF D!Handle, D!Plain, D!CreateUsers, D!DeleteUsers, D!Unsupported

\* a relay has its default token
LEMMA PrintedRelays ==
  ASSUME NEW c, Printed(c)
  PROVE  \A i \in 1 .. Len(c.relays) :
           /\ Genuine(c, Entry(RelayToken(c, i), i))
           /\ Genuine(c, Entry(Token("relay", DefaultRelay(i)), i))
<1>1. \A i \in 1 .. Len(c.relays) : RelayToken(c, i) = Token("relay", DefaultRelay(i))
  BY DEF Printed, AsPrinted, RelayToken, Token
<1>2. \A i \in 1 .. Len(c.relays) : Genuine(c, Entry(RelayToken(c, i), i))
  BY DEF Genuine, Entry, RelayToken, Token, OfProfile
<1> QED
  BY <1>1, <1>2

LEMMA DeviceIoGenuine ==
  ASSUME NEW c, Printed(c), NEW ask, NEW method
  PROVE  /\ GenuineAll(c, IO!Handle(c, method, ask))
         /\ GenuineAll(c, IO!SetRelayOutputState(c, ask))
<1>0. IO!Crashed = Crashed
  BY DEF IO!Crashed, Crashed, IO!Fault, Fault
<1>1. \A i \in 1 .. Len(c.relays) :
        /\ Genuine(c, Entry(RelayToken(c, i), i))
        /\ Genuine(c, Entry(Token("relay", DefaultRelay(i)), i))
  BY PrintedRelays
<1>2. GenuineAll(c, IO!GetRelayOutputs(c, ask))
  BY <1>1, OkGenuine, DeviceIoSame DEF IO!GetRelayOutputs, IO!RelayIds
<1>3. GenuineAll(c, IO!GetRelayOutputOptions(c, ask))
  <2> DEFINE asked == IF ask.config = Null THEN IO!RelayIds(c)
                      ELSE IO!ByDefault(c, ask.config)
             shown == {Entry(Token("relay", DefaultRelay(i)), i) : i \in asked}
  <2>1. asked \subseteq 1 .. Len(c.relays)
    BY DEF IO!RelayIds, IO!ByDefault
  <2>2. IO!GetRelayOutputOptions(c, ask) = Ok(shown)
    BY DeviceIoSame DEF IO!GetRelayOutputOptions
  <2> HIDE DEF asked
  <2>3. \A e \in shown : Genuine(c, e)
    BY <1>1, <2>1
  <2> HIDE DEF shown
  <2> QED
    BY <2>2, <2>3, OkGenuine
<1>4. GenuineAll(c, IO!GetServiceCapabilities(c, ask))
  <2>1. \A of, i : Genuine(c, Entry(Token("count", of), i))
    BY DeviceGenuine DEF Plainly
  <2>2. \E S : IO!GetServiceCapabilities(c, ask) = NeedsFirst(c, Ok(S))
               /\ \A e \in S : Genuine(c, e)
    BY <2>1, DeviceIoSame DEF IO!GetServiceCapabilities
  <2> QED
    BY <2>2, OkGenuine
<1>5. GenuineAll(c, IO!GetVideoSources(c, ask)) /\ GenuineAll(c, IO!GetAudioOutputs(c, ask))
      /\ GenuineAll(c, IO!GetAudioSources(c, ask))
  <2>1. GenuineAll(c, Ok({}))
    BY OkGenuine
  <2> QED
    BY <2>1, OkGenuine, RefusalsGenuine, DeviceIoSame
       DEF IO!GetVideoSources, IO!GetAudioOutputs, IO!GetAudioSources
<1>6. /\ GenuineAll(c, IO!SetRelayOutputState(c, ask))
      /\ GenuineAll(c, IO!SetRelayOutputSettings(c, ask))
      /\ GenuineAll(c, IO!Unsupported(c, ask))
  BY <1>0, RefusalsGenuine, DeviceIoSame
     DEF IO!SetRelayOutputState, IO!SetRelayOutputSettings, IO!Unsupported, IO!RelayFault
<1> QED
  BY <1>2, <1>3, <1>4, <1>5, <1>6 DEF IO!Handle

LEMMA EventsGenuine ==
  ASSUME NEW c, Printed(c), NEW ask, NEW method
  PROVE  GenuineAll(c, V!Handle(c, method, ask))
<1>1. /\ \A kind \in Plainly : \A of, i : Genuine(c, Entry(Token(kind, of), i))
      /\ \A what, n : Genuine(c, Count(what, n))
  BY DeviceGenuine DEF Count, Plainly
<1>2. GenuineAll(c, V!GetServiceCapabilities(c, ask))
  <2> DEFINE pull == Count("pullpoint", V!OneIf(c.events_enable \in {"pull", "both"}))
             base == Count("basesubscription",
                           V!OneIf(c.events_enable \in {"base", "both"}))
  <2>1. V!GetServiceCapabilities(c, ask) = Ok({pull, base})
    BY EventsSame DEF V!GetServiceCapabilities
  <2>2. Genuine(c, pull) /\ Genuine(c, base)
    BY <1>1
  <2> HIDE DEF pull, base
  <2> QED
    BY <2>1, <2>2, OkGenuine
<1>3. GenuineAll(c, V!GetEventProperties(c, ask))
  <2> DEFINE own == IF V!Topical(c) = {} THEN {V!Topic("motion")}
                    ELSE {V!Topic(c.events[i]) : i \in V!Topical(c)}
             ptz == IF c.ptz THEN {V!Topic("ptz")} ELSE {}
  <2>1. \A what : Genuine(c, V!Topic(what))
    BY <1>1, EventsSame DEF V!Topic, Plainly
  <2>2. \A e \in own \cup ptz : Genuine(c, e)
    BY <2>1
  <2>3. V!GetEventProperties(c, ask) \in {Crashed, V!ActionFailed, Ok(own \cup ptz)}
    BY EventsSame DEF V!GetEventProperties
  <2> HIDE DEF own, ptz
  <2> QED
    BY <2>2, <2>3, OkGenuine, RefusalsGenuine, EventsSame DEF V!ActionFailed
<1>4. GenuineAll(c, Ok(V!Messages(c)))
  <2> DEFINE states == {Entry(Token("state", c.events[i]), 0) : i \in V!Pending(c)}
             on == {j \in 1 .. Len(c.relays) : V!Own(c) + j \in V!Pending(c)}
             relays == {Entry(Token("relay", DefaultRelay(i)), i) : i \in on}
  <2>1. V!Messages(c) = states \cup relays
    BY EventsSame DEF V!Messages
  <2>2. \A e \in states : Genuine(c, e)
    BY <1>1 DEF Plainly
  <2>3. \A i \in 1 .. Len(c.relays) : Genuine(c, Entry(Token("relay", DefaultRelay(i)), i))
    BY PrintedRelays
  <2>4. \A e \in relays : Genuine(c, e)
    BY <2>3
  <2> HIDE DEF states, relays
  <2> QED
    BY <2>1, <2>2, <2>4, OkGenuine
<1>5. GenuineAll(c, V!Subscription)
  <2>1. V!Subscription = Ok({Entry(Token("subscription", "*"), 0)})
    BY EventsSame DEF V!Subscription
  <2>2. Genuine(c, Entry(Token("subscription", "*"), 0))
    BY <1>1 DEF Plainly
  <2> QED
    BY <2>1, <2>2, OkGenuine
<1>6. /\ \A fault : GenuineAll(c, V!Fault(fault))
      /\ GenuineAll(c, V!ActionFailed) /\ GenuineAll(c, V!ResourceUnknown)
      /\ GenuineAll(c, V!CreationFailed) /\ GenuineAll(c, V!Done)
  BY RefusalsGenuine, EventsSame
     DEF V!ActionFailed, V!ResourceUnknown, V!CreationFailed
<1>7. \A reply : GenuineAll(c, reply) => GenuineAll(c, V!OfSubscription(c, ask, reply))
  BY <1>6 DEF V!OfSubscription
<1>8. /\ GenuineAll(c, V!CreatePullPointSubscription(c, ask))
      /\ GenuineAll(c, V!Subscribe(c, ask))
  BY <1>5, <1>6 DEF V!CreatePullPointSubscription, V!Subscribe
<1>9. GenuineAll(c, V!PullMessages(c, ask))
  BY <1>4, <1>6, <1>7, EventsSame DEF V!PullMessages
<1>10. /\ GenuineAll(c, V!Renew(c, ask)) /\ GenuineAll(c, V!Unsubscribe(c, ask))
       /\ GenuineAll(c, V!SetSynchronizationPoint(c, ask))
       /\ GenuineAll(c, V!Unsupported(c, ask))
  BY <1>6, <1>7 DEF V!Renew, V!Unsubscribe, V!SetSynchronizationPoint, V!Unsupported
<1> QED
  BY <1>2, <1>3, <1>8, <1>9, <1>10 DEF V!Handle

(* Every answer gives tokens that stand for what it shows, or borrows the  *)
(* values.                                                                 *)
Lends(c, r, e) == Loaned(c, e) /\ Borrowed(r, e)
LEMMA ReplyGenuine ==
  ASSUME NEW c, Printed(c), NEW r, IsAsk(r.ask)
  PROVE  \A e \in Reply(c, r).entries : Genuine(c, e) \/ Lends(c, r, e)
<1> DEFINE Lending == /\ r.service = "media2_service" /\ r.method = "GetProfiles"
                      /\ r.ask.profile # Null
<1>1. /\ GenuineAll(c, Handled(c, r)) \/ Lending
      /\ Lending => GenuineOrLoaned(c, Handled(c, r))
  <2>1. /\ GenuineAll(c, D!Unsupported(c, r.ask)) /\ GenuineAll(c, Capabilities(c, r))
    <3>1. GenuineAll(c, Ok({Info("ptz")})) /\ GenuineAll(c, Ok({Info("imaging")}))
      BY DeviceGenuine, OkGenuine DEF Info, Plainly
    <3>2. GenuineAll(c, D!Unsupported(c, r.ask))
      BY RefusalsGenuine, DeviceSame DEF D!Unsupported
    <3> QED
      BY <3>1, <3>2, RefusalsGenuine DEF Capabilities
  <2>2. CASE r.service = "media2_service"
    BY <2>2, Media2Genuine DEF Handled
  <2>3. CASE r.service # "media2_service"
    BY <2>1, <2>3, MediaGenuine, DeviceServiceGenuine, DeviceIoGenuine, EventsGenuine
       DEF Handled
  <2> QED
    BY <2>2, <2>3
<1>2. Lending => \A e \in Handled(c, r).entries : Genuine(c, e) \/ Lends(c, r, e)
  BY <1>1 DEF GenuineOrLoaned, Lends, Loaned, Lent, Borrowed
<1>3. \A e \in Handled(c, r).entries : Genuine(c, e) \/ Lends(c, r, e)
  BY <1>1, <1>2 DEF GenuineAll
<1>4. Reply(c, r) = Handled(c, r) \/ GenuineAll(c, Reply(c, r))
  BY RefusalsGenuine DEF Reply
<1> QED
  BY <1>3, <1>4 DEF GenuineAll
-----------------------------------------------------------------------------
(* Tokens of answers, given back: the handler finds what they stand for.   *)

Lost == {"NoProfile", "NoConfig", "NoVideoSource", "RelayToken", "silent", "crashed"}

\* what is shown is profile i, or of the device
Taken(i, reply) ==
  /\ reply.fault \notin Lost
  /\ \A x \in reply.entries : \/ x.token # Null /\ x.token.kind \notin OfProfile
                              \/ x.shows = i
\* or is shown with what the second profile borrowed
TakenOrLent(i, reply) ==
  /\ reply.fault \notin Lost
  /\ \A x \in reply.entries : \/ x.token # Null /\ x.token.kind \notin OfProfile
                              \/ x.shows = i \/ Lent(x, 2)

LEMMA PickTaken ==
  ASSUME NEW c, Printed(c), NEW n \in {Guarded(c), Bold(c)}, NEW i \in Present(c),
         NEW found, NEW missing
  PROVE  Pick(c, n, Fixed(i), found, missing) = found[i]
BY PickAsNamed, FixedNamesDiffer

LEMMA DeviceTokensAreSet ==
  ASSUME NEW c, Printed(c)
  PROVE  \A t \in {VideoSource, VideoSourceConfig, AudioSource, AudioSourceConfig,
                   AudioOutput, AudioOutputConfig(c), PtzConfig} :
           t # Null /\ t.kind \notin OfProfile
<1>1. \A t \in {VideoSource, VideoSourceConfig, AudioSource, AudioSourceConfig,
                AudioOutput, PtzConfig} : t # Null
  BY TokensAreSet DEF VideoSource, VideoSourceConfig, AudioSource, AudioSourceConfig,
     AudioOutput, PtzConfig, Kinds, Texts
<1>2. AudioOutputConfig(c) # Null
  BY TokensAreSet DEF AudioOutputConfig, Kinds, Printed, IsConf
<1>3. \A t \in {VideoSource, VideoSourceConfig, AudioSource, AudioSourceConfig,
                AudioOutput, AudioOutputConfig(c), PtzConfig} : t.kind \notin OfProfile
  BY DEF VideoSource, VideoSourceConfig, AudioSource, AudioSourceConfig,
     AudioOutput, AudioOutputConfig, PtzConfig, Token, OfProfile
<1> QED
  BY <1>1, <1>2, <1>3

LEMMA RepliesTaken ==
  ASSUME NEW c, Printed(c), NEW i
  PROVE  /\ \A S : Taken(i, Ok(S)) <=> \A x \in S : \/ x.token # Null /\ x.token.kind \notin OfProfile
                                                    \/ x.shows = i
         /\ Taken(i, Ok({Shown(i)})) /\ Taken(i, Ok({Entry(VideoSource, 1)}))
         /\ Taken(i, Ok({Entry(AudioSource, 0)})) /\ Taken(i, Ok({Entry(AudioOutput, 0)}))
         /\ Taken(i, Ok(VideoSourceEntries)) /\ Taken(i, Ok(AudioSourceEntries))
         /\ Taken(i, Ok(OutputEntries(c)))
         /\ \A codec : Taken(i, Ok({Coded(Null, i, codec)}))
         /\ \A name : /\ Taken(i, Ok({Vec(i, name)})) /\ Taken(i, Ok({Adec(i, name)}))
                      /\ Taken(i, Ok({Aec(c, i, name)}))
         /\ Taken(i, Done) /\ Taken(i, Incomplete) /\ Taken(i, ConfigModify)
         /\ Taken(i, NoAudio) /\ Taken(i, NoDecoding) /\ Taken(i, NoOutputs)
         /\ Taken(i, Fault("ActionFailed"))
         /\ \A reply : NeedsFirst(c, reply) = reply
<1>1. \A S : Taken(i, Ok(S)) <=> \A x \in S : \/ x.token # Null /\ x.token.kind \notin OfProfile
                                              \/ x.shows = i
  BY DEF Taken, Ok, Lost
<1>2. /\ Taken(i, Ok({Entry(VideoSource, 1)}))
      /\ Taken(i, Ok({Entry(AudioSource, 0)})) /\ Taken(i, Ok({Entry(AudioOutput, 0)}))
      /\ Taken(i, Ok(VideoSourceEntries)) /\ Taken(i, Ok(AudioSourceEntries))
      /\ Taken(i, Ok(OutputEntries(c)))
  BY <1>1, DeviceTokensAreSet DEF Entry, VideoSourceEntries, AudioSourceEntries, OutputEntries
<1>3. /\ Taken(i, Ok({Shown(i)}))
      /\ \A codec : Taken(i, Ok({Coded(Null, i, codec)}))
      /\ \A name : /\ Taken(i, Ok({Vec(i, name)})) /\ Taken(i, Ok({Adec(i, name)}))
                   /\ Taken(i, Ok({Aec(c, i, name)}))
  BY <1>1 DEF Shown, Coded, Vec, Adec, Aec, Entry
<1>4. /\ Taken(i, Done) /\ Taken(i, Incomplete) /\ Taken(i, ConfigModify)
      /\ Taken(i, NoAudio) /\ Taken(i, NoDecoding) /\ Taken(i, NoOutputs)
      /\ Taken(i, Fault("ActionFailed"))
  BY DEF Taken, Lost, Done, Ok, Incomplete, ConfigModify, NoAudio, NoDecoding, NoOutputs, Fault
<1>5. \A reply : NeedsFirst(c, reply) = reply
  BY PickByName DEF NeedsFirst
<1> QED
  BY <1>1, <1>2, <1>3, <1>4, <1>5

\* the parts of profile i
LEMMA BlocksTaken ==
  ASSUME NEW c, Printed(c), NEW i \in Present(c), NEW name, NEW types
  PROVE  /\ Taken(i, Ok(M!Block(c, i, name)))
         /\ TakenOrLent(i, Ok(M2!Block(c, i, types, 1)))
<1>1. \A x \in {Profile(i, name), Vec(i, name), Aec(c, i, Fixed(i)), Profile(i, Fixed(i)),
                Adec(i, Fixed(i))} : x.shows = i
  BY DEF Profile, Vec, Aec, Adec, Entry, Coded
<1>2. \A x \in {Entry(PtzConfig, 0)} \cup VideoSourceEntries \cup AudioSourceEntries
                \cup OutputEntries(c) : x.token # Null /\ x.token.kind \notin OfProfile
  BY DeviceTokensAreSet DEF Entry, VideoSourceEntries, AudioSourceEntries, OutputEntries
<1>3. \A x \in M!Block(c, i, name) :
        \/ x \in {Profile(i, name), Vec(i, name), Aec(c, i, Fixed(i))}
        \/ x \in {Entry(PtzConfig, 0)} \cup VideoSourceEntries \cup AudioSourceEntries
                 \cup OutputEntries(c)
  BY MediaSame DEF M!Block
<1>4. \A x \in M2!Block(c, i, types, 1) :
        \/ x \in {Profile(i, Fixed(i)), Adec(i, Fixed(i))}
        \/ x \in {Vec(1, Fixed(i)), Aec(c, 1, Fixed(i))}
        \/ x \in {Entry(PtzConfig, 0)} \cup VideoSourceEntries \cup AudioSourceEntries
                 \cup OutputEntries(c)
  BY Media2Same DEF M2!Block, M2!If
<1>5. \A x \in {Vec(1, Fixed(i)), Aec(c, 1, Fixed(i))} : x.shows = i \/ Lent(x, 2)
  <2>1. i \in 1 .. 2
    BY PickByName
  <2>2. Token("vec", Fixed(2)) # Null /\ Token("aec", Fixed(2)) # Null
    BY TokensAreSet, FixedTexts DEF Kinds, OfProfile
  <2> QED
    BY <2>1, <2>2 DEF Lent, Vec, Aec, Entry, Coded, Token
<1>6. Taken(i, Ok(M!Block(c, i, name)))
  BY <1>1, <1>2, <1>3, RepliesTaken
<1> QED
  BY <1>1, <1>2, <1>4, <1>5, <1>6 DEF TakenOrLent, Ok, Lost
LEMMA AskedByProfile ==
  ASSUME NEW c, Printed(c), NEW i \in Present(c), NEW t \in Tokens,
         t.kind = "profile", t.of = Fixed(i), NEW ask, ask = Asked(t, Null, M2!Types)
  PROVE  /\ ask.profile = t /\ ask.config = Null /\ t # Null
         /\ Whole(t) = Fixed(i) /\ Cut(t) = Fixed(i)
         /\ \A default : /\ ProfileFirst(ask, default) = Fixed(i)
                         /\ ConfigFirst(ask, default) = Fixed(i)
<1>1. ask.profile = t /\ ask.config = Null
  BY DEF Asked
<1>2. t # Null /\ Whole(t) = Fixed(i) /\ Cut(t) = Fixed(i)
  BY TokenNames DEF OfProfile
<1> QED
  BY <1>1, <1>2 DEF ProfileFirst, ConfigFirst

LEMMA MediaTakesProfiles ==
  ASSUME NEW c, Printed(c), NEW i \in Present(c), NEW t \in Tokens,
         t.kind = "profile", t.of = Fixed(i), NEW method \in M!Methods,
         Profiled("media_service", method)
  PROVE  Taken(i, M!Handle(c, method, Asked(t, Null, M2!Types)))
<1> DEFINE ask == Asked(t, Null, M2!Types)
<1>0. /\ ask.profile = t /\ ask.config = Null /\ t # Null
      /\ Whole(t) = Fixed(i) /\ Cut(t) = Fixed(i) /\ t.of = Fixed(i)
      /\ Fixed(i) # Null
      /\ \A default : /\ ProfileFirst(ask, default) = Fixed(i)
                      /\ ConfigFirst(ask, default) = Fixed(i)
  BY AskedByProfile, FixedNamesDiffer
<1> HIDE DEF ask
<1>1. Taken(i, M!GetSnapshotUri(c, ask))
  <2> DEFINE found == [j \in Present(c) |-> IF c.profiles[j].snapurl THEN Ok({Shown(j)})
                                            ELSE Incomplete]
  <2>1. M!GetSnapshotUri(c, ask) = Pick(c, Bold(c), Fixed(i), found, NoProfile)
    BY <1>0, MediaSame DEF M!GetSnapshotUri
  <2>2. Taken(i, found[i])
    BY RepliesTaken
  <2> HIDE DEF found
  <2> QED
    BY <2>1, <2>2, PickTaken
<1>2. Taken(i, M!GetStreamUri(c, ask))
  <2> DEFINE found == [j \in Present(c) |-> Ok({Shown(j)})]
  <2>1. M!GetStreamUri(c, ask) = Pick(c, Bold(c), Fixed(i), found, NoProfile)
    BY <1>0, MediaSame DEF M!GetStreamUri
  <2>2. Taken(i, found[i])
    BY RepliesTaken
  <2> HIDE DEF found
  <2> QED
    BY <2>1, <2>2, PickTaken
<1>3. Taken(i, M!GetProfile(c, ask))
  <2> DEFINE found == [j \in Present(c) |-> Ok(M!Block(c, j, ask.profile.of))]
  <2>1. M!GetProfile(c, ask) = Pick(c, Guarded(c), Fixed(i), found, NoProfile)
    BY <1>0, MediaSame DEF M!GetProfile
  <2>2. Taken(i, found[i])
    BY BlocksTaken
  <2> HIDE DEF found
  <2> QED
    BY <2>1, <2>2, PickTaken
<1>4. Taken(i, M!GetCompatibleVideoEncoderConfigurations(c, ask))
  <2> DEFINE found == [j \in Present(c) |-> Ok({Vec(j, ask.profile.of)})]
  <2>1. M!GetCompatibleVideoEncoderConfigurations(c, ask)
          = Pick(c, Bold(c), Fixed(i), found, NoProfile)
    BY <1>0, MediaSame DEF M!GetCompatibleVideoEncoderConfigurations
  <2>2. Taken(i, found[i])
    BY RepliesTaken
  <2> HIDE DEF found
  <2> QED
    BY <2>1, <2>2, PickTaken
<1>5. Taken(i, M!GetCompatibleAudioEncoderConfigurations(c, ask))
  <2> DEFINE found == [j \in Present(c) |->
                         IF EncoderAt(c, j) = "NONE" THEN NoAudio
                         ELSE Ok({Aec(c, j, ask.profile.of)})]
  <2>1. M!GetCompatibleAudioEncoderConfigurations(c, ask)
          = Pick(c, Bold(c), Fixed(i), found, NoProfile)
    BY <1>0, MediaSame DEF M!GetCompatibleAudioEncoderConfigurations
  <2>2. Taken(i, found[i])
    BY RepliesTaken
  <2> HIDE DEF found
  <2> QED
    BY <2>1, <2>2, PickTaken
<1>6. Taken(i, M!GetCompatibleAudioDecoderConfigurations(c, ask))
  <2> DEFINE found == [j \in Present(c) |->
                         IF DecoderAt(c, j) = "NONE" THEN NoDecoding
                         ELSE Ok({Adec(j, ask.profile.of)})]
  <2>1. M!GetCompatibleAudioDecoderConfigurations(c, ask)
          = Pick(c, Bold(c), Fixed(i), found, NoProfile)
    BY <1>0, MediaSame DEF M!GetCompatibleAudioDecoderConfigurations
  <2>2. Taken(i, found[i])
    BY RepliesTaken
  <2> HIDE DEF found
  <2> QED
    BY <2>1, <2>2, PickTaken
<1>7. Taken(i, M!GetCompatibleAudioSourceConfigurations(c, ask))
  <2>1. Find(c, Bold(c), Fixed(i)) = i /\ i # Null
    BY PickByName, FixedNamesDiffer, NullIsApart DEF Present
  <2>2. M!GetCompatibleAudioSourceConfigurations(c, ask)
          \in {Ok(AudioSourceEntries), NoAudio}
    BY <1>0, <2>1, MediaSame DEF M!GetCompatibleAudioSourceConfigurations
  <2> QED
    BY <2>2, RepliesTaken
<1>8. Taken(i, M!GetVideoSourceConfigurationOptions(c, ask))
  <2> DEFINE options == Ok({Entry(VideoSource, 1)})
             both == <<options, options>>
             missing == IF Fixed(i) = "VideoSourceConfigToken" THEN options ELSE NoConfig
  <2>1. M!GetVideoSourceConfigurationOptions(c, ask)
          = NeedsFirst(c, Pick(c, Bold(c), Fixed(i), both, missing))
    BY <1>0, MediaSame DEF M!GetVideoSourceConfigurationOptions
  <2>2. both[i] = options
    BY PickByName
  <2>3. Taken(i, options)
    BY RepliesTaken
  <2> HIDE DEF both, missing, options
  <2>4. Pick(c, Bold(c), Fixed(i), both, missing) = both[i]
    BY PickTaken
  <2>5. \A reply : NeedsFirst(c, reply) = reply
    BY RepliesTaken
  <2> QED
    BY <2>1, <2>2, <2>3, <2>4, <2>5
<1>9. Taken(i, M!GetAudioSourceConfigurationOptions(c, ask))
  <2> DEFINE both == <<Done, Done>>
             missing == IF Fixed(i) = "AudioSourceConfigToken" THEN Done ELSE NoConfig
  <2>1. M!GetAudioSourceConfigurationOptions(c, ask)
          \in {NoAudio, Done, Pick(c, Bold(c), Fixed(i), both, missing)}
    BY <1>0, MediaSame DEF M!GetAudioSourceConfigurationOptions
  <2>2. both[i] = Done
    BY PickByName
  <2>3. Taken(i, Done) /\ Taken(i, NoAudio)
    BY RepliesTaken
  <2> HIDE DEF both, missing
  <2>4. Pick(c, Bold(c), Fixed(i), both, missing) = both[i]
    BY PickTaken
  <2> QED
    BY <2>1, <2>2, <2>3, <2>4
<1>10. Taken(i, M!GetVideoEncoderConfigurationOptions(c, ask))
  <2> DEFINE found == [j \in Present(c) |-> Ok({Shown(j)})]
  <2>1. M!GetVideoEncoderConfigurationOptions(c, ask)
          = Pick(c, Guarded(c), Fixed(i), found, NoProfile)
    BY <1>0, MediaSame DEF M!GetVideoEncoderConfigurationOptions
  <2>2. Taken(i, found[i])
    BY RepliesTaken
  <2> HIDE DEF found
  <2> QED
    BY <2>1, <2>2, PickTaken
<1>11. Taken(i, M!GetAudioEncoderConfigurationOptions(c, ask))
  <2> DEFINE found == [j \in Present(c) |->
                         IF M!Offered(EncoderAt(c, j))
                         THEN Ok({Coded(Null, j, EncoderAt(c, j))}) ELSE NoAudio]
  <2>1. M!GetAudioEncoderConfigurationOptions(c, ask)
          = Pick(c, Guarded(c), Fixed(i), found, NoProfile)
    BY <1>0, MediaSame DEF M!GetAudioEncoderConfigurationOptions, M!EncodingOptions
  <2>2. Taken(i, found[i])
    BY RepliesTaken
  <2> HIDE DEF found
  <2> QED
    BY <2>1, <2>2, PickTaken
<1>12. Taken(i, M!GetAudioDecoderConfigurationOptions(c, ask))
  <2> DEFINE found == [j \in Present(c) |-> M!DecodingOptions(DecoderAt(c, j), j)]
             missing == M!DecodingOptions(c.junk.codec, 0)
  <2>1. M!GetAudioDecoderConfigurationOptions(c, ask)
          = Pick(c, Bold(c), Fixed(i), found, missing)
    BY <1>0, MediaSame DEF M!GetAudioDecoderConfigurationOptions
  <2>2. Taken(i, found[i])
    BY RepliesTaken, MediaSame DEF M!DecodingOptions
  <2> HIDE DEF found, missing
  <2> QED
    BY <2>1, <2>2, PickTaken
<1>13. Taken(i, M!GetAudioOutputConfigurationOptions(c, ask))
  BY RepliesTaken, MediaSame DEF M!GetAudioOutputConfigurationOptions, M!IfOutputs
<1>14. method \in {"GetSnapshotUri", "GetStreamUri", "GetProfile",
                   "GetCompatibleVideoEncoderConfigurations",
                   "GetCompatibleAudioSourceConfigurations",
                   "GetCompatibleAudioEncoderConfigurations",
                   "GetCompatibleAudioDecoderConfigurations",
                   "GetVideoSourceConfigurationOptions",
                   "GetAudioSourceConfigurationOptions",
                   "GetVideoEncoderConfigurationOptions",
                   "GetAudioEncoderConfigurationOptions",
                   "GetAudioDecoderConfigurationOptions",
                   "GetAudioOutputConfigurationOptions"}
  BY DEF Profiled
<1> QED
  BY <1>1, <1>2, <1>3, <1>4, <1>5, <1>6, <1>7, <1>8, <1>9, <1>10, <1>11, <1>12, <1>13, <1>14
     DEF M!Handle, M!SetMethods, M!GetMetadataMethods, M!ProfileMethods, ask
LEMMA EitherTaken ==
  ASSUME NEW c, Printed(c), NEW n \in {Guarded(c), Bold(c)}, NEW i \in Present(c),
         NEW fixed, NEW reply
  PROVE  M2!Either(c, n, Fixed(i), fixed, reply) = reply
<1> DEFINE both == <<reply, reply>>
           missing == IF Fixed(i) = fixed THEN reply ELSE NoConfig
<1>1. M2!Either(c, n, Fixed(i), fixed, reply) = Pick(c, n, Fixed(i), both, missing)
  BY Media2Same DEF M2!Either
<1>2. both[i] = reply
  BY PickByName
<1> HIDE DEF both, missing
<1> QED
  BY <1>1, <1>2, PickTaken

\* the first two names are those of all profiles when there are two
LEMMA TwoProfiles ==
  ASSUME NEW c, Printed(c), ~ (Cardinality(Present(c)) < 2)
  PROVE  M2!FirstTwo = Guarded(c)
<1>1. c.num \in 1 .. 2 /\ Guarded(c) = c.num
  BY PickByName
<1>2. c.num # 1
  <2>1. c.num = 1 => Present(c) = {1}
    BY DEF Present
  <2> QED
    BY <2>1, FS_Singleton
<1> QED
  BY <1>1, <1>2 DEF M2!FirstTwo

LEMMA Media2TakesProfiles ==
  ASSUME NEW c, Printed(c), NEW i \in Present(c), NEW t \in Tokens,
         t.kind = "profile", t.of = Fixed(i), NEW method \in M2!Methods,
         Profiled("media2_service", method)
  PROVE  \/ ReadsTwo("media2_service", method) /\ Cardinality(Present(c)) < 2
         \/ Taken(i, M2!Handle(c, method, Asked(t, Null, M2!Types)))
         \/ method = "GetProfiles"
            /\ TakenOrLent(i, M2!Handle(c, method, Asked(t, Null, M2!Types)))
<1> DEFINE ask == Asked(t, Null, M2!Types)
<1>0. /\ ask.profile = t /\ ask.config = Null /\ t # Null
      /\ Whole(t) = Fixed(i) /\ Cut(t) = Fixed(i) /\ t.of = Fixed(i)
      /\ Fixed(i) # Null
      /\ \A default : /\ ProfileFirst(ask, default) = Fixed(i)
                      /\ ConfigFirst(ask, default) = Fixed(i)
  BY AskedByProfile, FixedNamesDiffer
<1>u. Taken(i, M2!Unsupported(c, ask))
  BY RepliesTaken, Media2Same DEF M2!Unsupported
<1>n. ~ M2!NothingAsked(ask) /\ c.num # 0
  BY <1>0, PickByName DEF M2!NothingAsked
<1> HIDE DEF ask
<1>1. TakenOrLent(i, M2!GetProfiles(c, ask))
  <2> DEFINE found == [j \in Present(c) |->
                         Ok(M2!Block(c, j, ask.words, 1))]
  <2>1. M2!GetProfiles(c, ask)
          = Pick(c, Guarded(c), Fixed(i), found, NoProfile)
    BY <1>0, <1>n, Media2Same DEF M2!GetProfiles
  <2>2. TakenOrLent(i, found[i])
    BY BlocksTaken
  <2> HIDE DEF found
  <2> QED
    BY <2>1, <2>2, PickTaken, RepliesTaken
<1>2. Taken(i, M2!GetSnapshotUri(c, ask))
  <2> DEFINE found == [j \in Present(c) |->
                         IF c.profiles[j].snapurl THEN Ok({Shown(j)})
                         ELSE Incomplete]
  <2>1. M2!GetSnapshotUri(c, ask)
          = Pick(c, Guarded(c), Fixed(i), found, NoProfile)
    BY <1>0, <1>n, Media2Same DEF M2!GetSnapshotUri
  <2>2. Taken(i, found[i])
    BY RepliesTaken
  <2> HIDE DEF found
  <2> QED
    BY <2>1, <2>2, PickTaken, RepliesTaken
<1>3. Taken(i, M2!GetStreamUri(c, ask))
  <2> DEFINE found == [j \in Present(c) |->
                         Ok({Shown(j)})]
  <2>1. M2!GetStreamUri(c, ask)
          = Pick(c, Bold(c), Fixed(i), found, NoProfile)
    BY <1>0, <1>n, Media2Same DEF M2!GetStreamUri
  <2>2. Taken(i, found[i])
    BY RepliesTaken
  <2> HIDE DEF found
  <2> QED
    BY <2>1, <2>2, PickTaken, RepliesTaken
<1>4. Taken(i, M2!GetVideoEncoderConfigurations(c, ask))
  <2> DEFINE found == [j \in Present(c) |->
                         Ok({Vec(j, Fixed(j))})]
  <2>1. M2!GetVideoEncoderConfigurations(c, ask)
          = Pick(c, Guarded(c), Fixed(i), found, NoProfile)
    BY <1>0, <1>n, Media2Same DEF M2!GetVideoEncoderConfigurations
  <2>2. Taken(i, found[i])
    BY RepliesTaken
  <2> HIDE DEF found
  <2> QED
    BY <2>1, <2>2, PickTaken, RepliesTaken
<1>5. Taken(i, M2!GetVideoEncoderConfigurationOptions(c, ask))
  <2> DEFINE found == [j \in Present(c) |->
                         Ok({Shown(j)})]
  <2>1. M2!GetVideoEncoderConfigurationOptions(c, ask)
          = Pick(c, Guarded(c), Fixed(i), found, NoProfile)
    BY <1>0, <1>n, Media2Same DEF M2!GetVideoEncoderConfigurationOptions
  <2>2. Taken(i, found[i])
    BY RepliesTaken
  <2> HIDE DEF found
  <2> QED
    BY <2>1, <2>2, PickTaken, RepliesTaken
<1>6. Taken(i, M2!GetAudioEncoderConfigurations(c, ask))
  <2> DEFINE found == [j \in Present(c) |->
                         IF j \notin Encoding(c) THEN NoAudio
                         ELSE Ok({Aec(c, j, Fixed(j))})]
  <2>1. M2!GetAudioEncoderConfigurations(c, ask)
          \in {NoAudio, Pick(c, Guarded(c), Fixed(i), found, NoProfile)}
    BY <1>0, <1>n, PickByName, Media2Same DEF M2!GetAudioEncoderConfigurations
  <2>2. Taken(i, found[i])
    BY RepliesTaken
  <2> HIDE DEF found
  <2>3. Pick(c, Guarded(c), Fixed(i), found, NoProfile) = found[i]
    BY PickTaken
  <2>4. Taken(i, NoAudio)
    BY RepliesTaken
  <2> QED
    BY <2>1, <2>2, <2>3, <2>4
<1>7. Taken(i, M2!GetAudioEncoderConfigurationOptions(c, ask))
  <2> DEFINE found == [j \in Present(c) |->
                         IF M2!Offered(EncoderAt(c, j))
                         THEN Ok({Coded(Null, j, EncoderAt(c, j))}) ELSE NoAudio]
  <2>1. M2!GetAudioEncoderConfigurationOptions(c, ask)
          = Pick(c, Guarded(c), Fixed(i), found, NoProfile)
    BY <1>0, <1>n, Media2Same DEF M2!GetAudioEncoderConfigurationOptions
  <2>2. Taken(i, found[i])
    BY RepliesTaken
  <2> HIDE DEF found
  <2> QED
    BY <2>1, <2>2, PickTaken, RepliesTaken
<1>8. Taken(i, M2!GetAudioDecoderConfigurations(c, ask))
  <2> DEFINE found == [j \in Present(c) |->
                         IF j \notin Decoding(c) THEN NoDecoding
                         ELSE Ok({Adec(j, Fixed(j))})]
  <2>1. M2!GetAudioDecoderConfigurations(c, ask)
          = Pick(c, Guarded(c), Fixed(i), found, NoConfig)
    BY <1>0, <1>n, Media2Same DEF M2!GetAudioDecoderConfigurations
  <2>2. Taken(i, found[i])
    BY RepliesTaken
  <2> HIDE DEF found
  <2> QED
    BY <2>1, <2>2, PickTaken, RepliesTaken
<1>9. Taken(i, M2!GetAudioDecoderConfigurationOptions(c, ask))
  <2> DEFINE found == [j \in Present(c) |->
                         IF M2!Offered(DecoderAt(c, j))
                         THEN Ok({Coded(Null, j, DecoderAt(c, j))}) ELSE NoDecoding]
  <2>1. M2!GetAudioDecoderConfigurationOptions(c, ask)
          = Pick(c, Guarded(c), Fixed(i), found, NoDecoding)
    BY <1>0, <1>n, Media2Same DEF M2!GetAudioDecoderConfigurationOptions
  <2>2. Taken(i, found[i])
    BY RepliesTaken
  <2> HIDE DEF found
  <2> QED
    BY <2>1, <2>2, PickTaken, RepliesTaken
<1>10. ASSUME ~ (Cardinality(Present(c)) < 2)
       PROVE  /\ Taken(i, M2!GetVideoSourceConfigurations(c, ask))
              /\ Taken(i, M2!GetVideoSourceConfigurationOptions(c, ask))
              /\ Taken(i, M2!GetAudioSourceConfigurations(c, ask))
              /\ Taken(i, M2!GetAudioOutputConfigurations(c, ask))
  <2>1. \A fixed, reply : M2!Either(c, M2!FirstTwo, Fixed(i), fixed, reply) = reply
    BY <1>10, TwoProfiles, EitherTaken
  <2>2. \A reply : NeedsFirst(c, reply) = reply
    BY RepliesTaken
  <2>3. /\ M2!GetVideoSourceConfigurations(c, ask) = Ok(VideoSourceEntries)
        /\ M2!GetVideoSourceConfigurationOptions(c, ask) = Ok({Entry(VideoSource, 1)})
    BY <1>0, <2>1, <2>2, Media2Same
       DEF M2!GetVideoSourceConfigurations, M2!GetVideoSourceConfigurationOptions
  <2>4. /\ M2!GetAudioSourceConfigurations(c, ask) \in {NoAudio, Ok(AudioSourceEntries)}
        /\ M2!GetAudioOutputConfigurations(c, ask) \in {NoOutputs, Ok(OutputEntries(c))}
    BY <1>0, <2>1, <2>2, Media2Same
       DEF M2!GetAudioSourceConfigurations, M2!GetAudioOutputConfigurations
  <2> QED
    BY <2>3, <2>4, RepliesTaken
<1>11. Taken(i, M2!GetAudioSourceConfigurationOptions(c, ask))
  <2>1. M2!GetAudioSourceConfigurationOptions(c, ask) \in {NoAudio, Done}
    BY <1>0, EitherTaken, Media2Same DEF M2!GetAudioSourceConfigurationOptions
  <2> QED
    BY <2>1, RepliesTaken
<1>12. Taken(i, M2!GetAudioOutputConfigurationOptions(c, ask))
  <2>1. M2!GetAudioOutputConfigurationOptions(c, ask)
          \in {NoOutputs, Ok({Entry(AudioOutput, 0)})}
    BY <1>0, EitherTaken, Media2Same DEF M2!GetAudioOutputConfigurationOptions
  <2> QED
    BY <2>1, RepliesTaken
<1> DEFINE Two == {"GetVideoSourceConfigurations", "GetVideoSourceConfigurationOptions",
                   "GetAudioSourceConfigurations", "GetAudioOutputConfigurations"}
           Others == {"GetProfiles", "GetSnapshotUri", "GetStreamUri",
                      "GetVideoEncoderConfigurations", "GetVideoEncoderConfigurationOptions",
                      "GetAudioEncoderConfigurations", "GetAudioEncoderConfigurationOptions",
                      "GetAudioDecoderConfigurations", "GetAudioDecoderConfigurationOptions",
                      "GetAudioSourceConfigurationOptions",
                      "GetAudioOutputConfigurationOptions"}
<1>13. method \in Two \cup Others
  <2>1. method \notin {"GetProfile", "GetCompatibleVideoEncoderConfigurations",
                       "GetCompatibleAudioSourceConfigurations",
                       "GetCompatibleAudioEncoderConfigurations",
                       "GetCompatibleAudioDecoderConfigurations"}
    BY DEF M2!Methods, M2!SetMethods, M2!ProfileMethods, M2!GetMethods
  <2> QED
    BY <2>1 DEF Profiled, Takes2
<1>14. CASE method \in Two
  <2>1. ReadsTwo("media2_service", method)
    BY <1>14 DEF ReadsTwo
  <2> QED
    BY <1>10, <1>u, <1>14, <2>1 DEF M2!Handle, M2!SetMethods, M2!ProfileMethods, ask
<1>15. CASE method \in Others
  BY <1>1, <1>2, <1>3, <1>4, <1>5, <1>6, <1>7, <1>8, <1>9, <1>11, <1>12, <1>u, <1>15
     DEF M2!Handle, M2!SetMethods, M2!ProfileMethods, ask
<1> QED
  BY <1>13, <1>14, <1>15
LEMMA AskedByConfig ==
  ASSUME NEW t \in Tokens, NEW ask, ask = Asked(Null, t, {"active"})
  PROVE  /\ ask.profile = Null /\ ask.config = t /\ t # Null /\ ask.words = {"active"}
         /\ \A default : /\ ProfileFirst(ask, default) = Whole(t)
                         /\ ConfigFirst(ask, default) = Cut(t)
BY NullIsApart DEF Asked, ProfileFirst, ConfigFirst

\* the token of an encoder or a decoder
LEMMA MediaTakesCodings ==
  ASSUME NEW c, Printed(c), NEW i \in Present(c), NEW t \in Tokens,
         t.kind \in {"vec", "aec", "adec"}, t.of = Fixed(i), NEW method,
         t.kind = Takes(method)
  PROVE  Taken(i, M!Handle(c, method, Asked(Null, t, {"active"})))
<1> DEFINE ask == Asked(Null, t, {"active"})
<1>0. /\ ask.profile = Null /\ ask.config = t /\ t # Null
      /\ Cut(t) = Fixed(i) /\ Fixed(i) # Null
      /\ \A default : ConfigFirst(ask, default) = Fixed(i)
  BY AskedByConfig, TokenNames, FixedNamesDiffer DEF OfProfile
<1> HIDE DEF ask
<1>1. Taken(i, M!GetVideoEncoderConfiguration(c, ask))
  <2> DEFINE found == [j \in Present(c) |->
                         Ok({Vec(j, Cut(ask.config))})]
  <2>1. M!GetVideoEncoderConfiguration(c, ask)
          = Pick(c, Bold(c), Fixed(i), found, NoConfig)
    BY <1>0, MediaSame DEF M!GetVideoEncoderConfiguration
  <2>2. Taken(i, found[i])
    BY RepliesTaken
  <2>3. Pick(c, Bold(c), Fixed(i), found, NoConfig) = found[i]
    <3> HIDE DEF found
    <3> QED
      BY PickTaken
  <2> QED
    BY <2>1, <2>2, <2>3
<1>2. Taken(i, M!GetVideoEncoderConfigurationOptions(c, ask))
  <2> DEFINE found == [j \in Present(c) |->
                         Ok({Shown(j)})]
  <2>1. M!GetVideoEncoderConfigurationOptions(c, ask)
          = Pick(c, Guarded(c), Fixed(i), found, NoProfile)
    BY <1>0, MediaSame DEF M!GetVideoEncoderConfigurationOptions
  <2>2. Taken(i, found[i])
    BY RepliesTaken
  <2>3. Pick(c, Guarded(c), Fixed(i), found, NoProfile) = found[i]
    <3> HIDE DEF found
    <3> QED
      BY PickTaken
  <2> QED
    BY <2>1, <2>2, <2>3
<1>3. Taken(i, M!GetAudioEncoderConfiguration(c, ask))
  <2> DEFINE found == [j \in Present(c) |->
                         IF EncoderAt(c, j) = "NONE" THEN NoAudio
                         ELSE Ok({Aec(c, j, Cut(ask.config))})]
  <2>1. M!GetAudioEncoderConfiguration(c, ask)
          = Pick(c, Bold(c), Fixed(i), found, NoConfig)
    BY <1>0, MediaSame DEF M!GetAudioEncoderConfiguration
  <2>2. Taken(i, found[i])
    BY RepliesTaken
  <2>3. Pick(c, Bold(c), Fixed(i), found, NoConfig) = found[i]
    <3> HIDE DEF found
    <3> QED
      BY PickTaken
  <2> QED
    BY <2>1, <2>2, <2>3
<1>4. Taken(i, M!GetAudioEncoderConfigurationOptions(c, ask))
  <2> DEFINE found == [j \in Present(c) |->
                         IF M!Offered(EncoderAt(c, j))
                         THEN Ok({Coded(Null, j, EncoderAt(c, j))}) ELSE NoAudio]
  <2>1. M!GetAudioEncoderConfigurationOptions(c, ask)
          = Pick(c, Guarded(c), Fixed(i), found, NoProfile)
    BY <1>0, MediaSame DEF M!GetAudioEncoderConfigurationOptions, M!EncodingOptions
  <2>2. Taken(i, found[i])
    BY RepliesTaken
  <2>3. Pick(c, Guarded(c), Fixed(i), found, NoProfile) = found[i]
    <3> HIDE DEF found
    <3> QED
      BY PickTaken
  <2> QED
    BY <2>1, <2>2, <2>3
<1>5. Taken(i, M!GetAudioDecoderConfiguration(c, ask))
  <2> DEFINE found == [j \in Present(c) |->
                         IF DecoderAt(c, j) = "NONE" THEN NoDecoding
                         ELSE Ok({Adec(j, Cut(ask.config))})]
  <2>1. M!GetAudioDecoderConfiguration(c, ask)
          = Pick(c, Bold(c), Fixed(i), found, NoConfig)
    BY <1>0, MediaSame DEF M!GetAudioDecoderConfiguration
  <2>2. Taken(i, found[i])
    BY RepliesTaken
  <2>3. Pick(c, Bold(c), Fixed(i), found, NoConfig) = found[i]
    <3> HIDE DEF found
    <3> QED
      BY PickTaken
  <2> QED
    BY <2>1, <2>2, <2>3
<1>6. Taken(i, M!GetAudioDecoderConfigurationOptions(c, ask))
  <2> DEFINE found == [j \in Present(c) |-> M!DecodingOptions(DecoderAt(c, j), j)]
             missing == M!DecodingOptions(c.junk.codec, 0)
  <2>1. M!GetAudioDecoderConfigurationOptions(c, ask)
          = Pick(c, Bold(c), Fixed(i), found, missing)
    BY <1>0, MediaSame DEF M!GetAudioDecoderConfigurationOptions
  <2>2. Taken(i, found[i])
    BY RepliesTaken, MediaSame DEF M!DecodingOptions
  <2> HIDE DEF found, missing
  <2> QED
    BY <2>1, <2>2, PickTaken
<1>7. method \in {"GetVideoEncoderConfiguration", "GetVideoEncoderConfigurationOptions",
                  "GetAudioEncoderConfiguration", "GetAudioEncoderConfigurationOptions",
                  "GetAudioDecoderConfiguration", "GetAudioDecoderConfigurationOptions"}
  BY DEF Takes
<1> QED
  BY <1>1, <1>2, <1>3, <1>4, <1>5, <1>6, <1>7
     DEF M!Handle, M!SetMethods, M!GetMetadataMethods, M!ProfileMethods, ask

LEMMA Media2TakesCodings ==
  ASSUME NEW c, Printed(c), NEW i \in Present(c), NEW t \in Tokens,
         t.kind \in {"vec", "aec", "adec"}, t.of = Fixed(i),
         NEW method \in Known("media2_service"), t.kind = Takes2(method)
  PROVE  Taken(i, M2!Handle(c, method, Asked(Null, t, {"active"})))
<1> DEFINE ask == Asked(Null, t, {"active"})
<1>0. /\ ask.profile = Null /\ ask.config = t /\ t # Null
      /\ Cut(t) = Fixed(i) /\ Fixed(i) # Null
      /\ \A default : ConfigFirst(ask, default) = Fixed(i)
  BY AskedByConfig, TokenNames, FixedNamesDiffer DEF OfProfile
<1>u. Taken(i, M2!Unsupported(c, ask))
  BY RepliesTaken, Media2Same DEF M2!Unsupported
<1>n. ~ M2!NothingAsked(ask) /\ c.num # 0 /\ c.profiles # <<>>
  BY <1>0, PickByName DEF M2!NothingAsked
<1> HIDE DEF ask
<1>1. Taken(i, M2!GetVideoEncoderConfigurations(c, ask))
  <2> DEFINE found == [j \in Present(c) |->
                         Ok({Vec(j, Fixed(j))})]
  <2>1. M2!GetVideoEncoderConfigurations(c, ask)
          = Pick(c, Guarded(c), Fixed(i), found, NoProfile)
    BY <1>0, <1>n, Media2Same DEF M2!GetVideoEncoderConfigurations
  <2>2. Taken(i, found[i])
    BY RepliesTaken
  <2>3. Pick(c, Guarded(c), Fixed(i), found, NoProfile) = found[i]
    <3> HIDE DEF found
    <3> QED
      BY PickTaken
  <2> QED
    BY <2>1, <2>2, <2>3
<1>2. Taken(i, M2!GetVideoEncoderConfigurationOptions(c, ask))
  <2> DEFINE found == [j \in Present(c) |->
                         Ok({Shown(j)})]
  <2>1. M2!GetVideoEncoderConfigurationOptions(c, ask)
          = Pick(c, Guarded(c), Fixed(i), found, NoProfile)
    BY <1>0, <1>n, Media2Same DEF M2!GetVideoEncoderConfigurationOptions
  <2>2. Taken(i, found[i])
    BY RepliesTaken
  <2>3. Pick(c, Guarded(c), Fixed(i), found, NoProfile) = found[i]
    <3> HIDE DEF found
    <3> QED
      BY PickTaken
  <2> QED
    BY <2>1, <2>2, <2>3
<1>3. Taken(i, M2!GetAudioEncoderConfigurations(c, ask))
  <2> DEFINE found == [j \in Present(c) |->
                         IF j \notin Encoding(c) THEN NoAudio
                         ELSE Ok({Aec(c, j, Fixed(j))})]
  <2>1. M2!GetAudioEncoderConfigurations(c, ask)
          \in {NoAudio, Pick(c, Guarded(c), Fixed(i), found, NoProfile)}
    BY <1>0, <1>n, Media2Same DEF M2!GetAudioEncoderConfigurations
  <2>2. Taken(i, found[i])
    BY RepliesTaken
  <2> HIDE DEF found
  <2>3. Pick(c, Guarded(c), Fixed(i), found, NoProfile) = found[i]
    BY PickTaken
  <2>4. Taken(i, NoAudio)
    BY RepliesTaken
  <2> QED
    BY <2>1, <2>2, <2>3, <2>4
<1>4. Taken(i, M2!GetAudioEncoderConfigurationOptions(c, ask))
  <2> DEFINE found == [j \in Present(c) |->
                         IF M2!Offered(EncoderAt(c, j))
                         THEN Ok({Coded(Null, j, EncoderAt(c, j))}) ELSE NoAudio]
  <2>1. M2!GetAudioEncoderConfigurationOptions(c, ask)
          = Pick(c, Guarded(c), Fixed(i), found, NoProfile)
    BY <1>0, <1>n, Media2Same DEF M2!GetAudioEncoderConfigurationOptions
  <2>2. Taken(i, found[i])
    BY RepliesTaken
  <2>3. Pick(c, Guarded(c), Fixed(i), found, NoProfile) = found[i]
    <3> HIDE DEF found
    <3> QED
      BY PickTaken
  <2> QED
    BY <2>1, <2>2, <2>3
<1>5. Taken(i, M2!GetAudioDecoderConfigurations(c, ask))
  <2> DEFINE found == [j \in Present(c) |->
                         IF j \notin Decoding(c) THEN NoDecoding
                         ELSE Ok({Adec(j, Fixed(j))})]
  <2>1. M2!GetAudioDecoderConfigurations(c, ask)
          = Pick(c, Guarded(c), Fixed(i), found, NoConfig)
    BY <1>0, <1>n, Media2Same DEF M2!GetAudioDecoderConfigurations
  <2>2. Taken(i, found[i])
    BY RepliesTaken
  <2>3. Pick(c, Guarded(c), Fixed(i), found, NoConfig) = found[i]
    <3> HIDE DEF found
    <3> QED
      BY PickTaken
  <2> QED
    BY <2>1, <2>2, <2>3
<1>6. Taken(i, M2!GetAudioDecoderConfigurationOptions(c, ask))
  <2> DEFINE found == [j \in Present(c) |->
                         IF M2!Offered(DecoderAt(c, j))
                         THEN Ok({Coded(Null, j, DecoderAt(c, j))}) ELSE NoDecoding]
  <2>1. M2!GetAudioDecoderConfigurationOptions(c, ask)
          = Pick(c, Guarded(c), Fixed(i), found, NoDecoding)
    BY <1>0, <1>n, Media2Same DEF M2!GetAudioDecoderConfigurationOptions
  <2>2. Taken(i, found[i])
    BY RepliesTaken
  <2>3. Pick(c, Guarded(c), Fixed(i), found, NoDecoding) = found[i]
    <3> HIDE DEF found
    <3> QED
      BY PickTaken
  <2> QED
    BY <2>1, <2>2, <2>3
<1>7. method \in {"GetVideoEncoderConfigurations", "GetVideoEncoderConfigurationOptions",
                  "GetAudioEncoderConfigurations", "GetAudioEncoderConfigurationOptions",
                  "GetAudioDecoderConfigurations", "GetAudioDecoderConfigurationOptions"}
  <2>1. method \notin {"GetVideoEncoderConfiguration", "GetAudioEncoderConfiguration",
                       "GetAudioDecoderConfiguration"}
    BY DEF Known, MethodsOf, M2!Methods, M2!SetMethods, M2!ProfileMethods, M2!GetMethods
  <2> QED
    BY <2>1 DEF Takes, Takes2
<1> QED
  BY <1>1, <1>2, <1>3, <1>4, <1>5, <1>6, <1>7, <1>u
     DEF M2!Handle, M2!SetMethods, M2!ProfileMethods, ask
\* a fixed text is the name of no profile
LEMMA FixedTokenMissed ==
  ASSUME NEW c, Printed(c), NEW n \in {Guarded(c), Bold(c)},
         NEW text \in {"VideoSourceConfigToken", "AudioSourceConfigToken",
                       "AudioOutputConfigToken"}, NEW found, NEW missing
  PROVE  Pick(c, n, text, found, missing) = missing
<1>1. text \in Texts
  BY DEF Texts
<1>2. \A i \in Present(c) : text # Fixed(i)
  BY FixedNamesDiffer
<1> QED
  BY <1>1, <1>2, PickAsNamed

LEMMA SourceTokens ==
  ASSUME NEW c, Printed(c)
  PROVE  /\ Whole(VideoSourceConfig) = "VideoSourceConfigToken"
         /\ Whole(AudioSourceConfig) = "AudioSourceConfigToken"
         /\ Whole(AudioOutputConfig(c)) = "AudioOutputConfigToken"
         /\ Whole(VideoSource) = "VideoSourceToken"
         /\ \A i : Whole(RelayToken(c, i)) = RelayToken(c, i).of
BY DEF Printed, AsPrinted, Whole, VideoSource, VideoSourceConfig, AudioSourceConfig,
   AudioOutputConfig, RelayToken, Token, OfProfile

LEMMA FaultsAreNotLost ==
  ASSUME NEW c, Printed(c)
  PROVE  /\ \A S : Ok(S).fault \notin Lost
         /\ \A reply \in {Done, Incomplete, ConfigModify, NoAudio, NoDecoding, NoOutputs,
                          Fault("ActionFailed")} : reply.fault \notin Lost
         /\ \A reply : NeedsFirst(c, reply) = reply
BY RepliesTaken DEF Taken, Ok

LEMMA MediaTakesSources ==
  ASSUME NEW c, Printed(c), NEW t \in {VideoSourceConfig, AudioSourceConfig,
                                       AudioOutputConfig(c)},
         NEW method, t.kind = Takes(method)
  PROVE  M!Handle(c, method, Asked(Null, t, {"active"})).fault \notin Lost
<1> DEFINE ask == Asked(Null, t, {"active"})
<1>0. /\ ask.profile = Null /\ ask.config = t /\ t # Null
      /\ \A default : ProfileFirst(ask, default) = Whole(t)
  BY DeviceTokensAreSet DEF Asked, ProfileFirst
<1>u. M!Unsupported(c, ask).fault \notin Lost
  BY FaultsAreNotLost, MediaSame DEF M!Unsupported
<1>k. /\ VideoSourceConfig.kind = "vsc" /\ AudioSourceConfig.kind = "asc"
      /\ AudioOutputConfig(c).kind = "aoc"
  BY DEF VideoSourceConfig, AudioSourceConfig, AudioOutputConfig, Token
<1> HIDE DEF ask
<1>1. CASE t = VideoSourceConfig
  <2>0. Whole(t) = "VideoSourceConfigToken" /\ Says(ask.config, "VideoSourceConfigToken")
    BY <1>0, <1>1, SourceTokens DEF Says
  <2>1. M!GetVideoSourceConfiguration(c, ask).fault \notin Lost
    BY <2>0, FaultsAreNotLost, MediaSame DEF M!GetVideoSourceConfiguration
  <2>2. M!SetVideoSourceConfiguration(c, ask).fault \notin Lost
    BY <2>0, FaultsAreNotLost, MediaSame DEF M!SetVideoSourceConfiguration, M!Fixedly
  <2>3. M!GetVideoSourceConfigurationOptions(c, ask).fault \notin Lost
    <3> DEFINE options == Ok({Entry(VideoSource, 1)})
               both == <<options, options>>
    <3>1. M!GetVideoSourceConfigurationOptions(c, ask)
            = NeedsFirst(c, Pick(c, Bold(c), "VideoSourceConfigToken", both, options))
      BY <1>0, <2>0, MediaSame DEF M!GetVideoSourceConfigurationOptions
    <3>2. options.fault \notin Lost
      BY FaultsAreNotLost
    <3> HIDE DEF both, options
    <3>3. Pick(c, Bold(c), "VideoSourceConfigToken", both, options) = options
      BY FixedTokenMissed
    <3> QED
      BY <3>1, <3>2, <3>3, FaultsAreNotLost
  <2>4. M!GetGuaranteedNumberOfVideoEncoderInstances(c, ask).fault \notin Lost
    BY <1>0, <2>0, FaultsAreNotLost, MediaSame
       DEF M!GetGuaranteedNumberOfVideoEncoderInstances
  <2>5. method \in {"GetVideoSourceConfiguration", "SetVideoSourceConfiguration",
                    "GetVideoSourceConfigurationOptions",
                    "GetGuaranteedNumberOfVideoEncoderInstances"}
    BY <1>1, <1>k DEF Takes
  <2> QED
    BY <1>u, <2>1, <2>2, <2>3, <2>4, <2>5
       DEF M!Handle, M!SetMethods, M!GetMetadataMethods, M!ProfileMethods, ask
<1>2. CASE t = AudioSourceConfig
  <2>0. Whole(t) = "AudioSourceConfigToken" /\ Says(ask.config, "AudioSourceConfigToken")
    BY <1>0, <1>2, SourceTokens DEF Says
  <2>1. M!GetAudioSourceConfiguration(c, ask).fault \notin Lost
    BY <2>0, FaultsAreNotLost, MediaSame
       DEF M!GetAudioSourceConfiguration, M!GetAudioSourceConfigurations
  <2>2. M!SetAudioSourceConfiguration(c, ask).fault \notin Lost
    BY <2>0, FaultsAreNotLost, MediaSame DEF M!SetAudioSourceConfiguration, M!Fixedly
  <2>3. M!GetAudioSourceConfigurationOptions(c, ask).fault \notin Lost
    <3> DEFINE both == <<Done, Done>>
    <3>1. M!GetAudioSourceConfigurationOptions(c, ask)
            \in {NoAudio, Done, Pick(c, Bold(c), "AudioSourceConfigToken", both, Done)}
      BY <1>0, <2>0, NullIsApart, MediaSame DEF M!GetAudioSourceConfigurationOptions, Texts
    <3> HIDE DEF both
    <3>2. Pick(c, Bold(c), "AudioSourceConfigToken", both, Done) = Done
      BY FixedTokenMissed
    <3> QED
      BY <3>1, <3>2, FaultsAreNotLost
  <2>4. method \in {"GetAudioSourceConfiguration", "SetAudioSourceConfiguration",
                    "GetAudioSourceConfigurationOptions"}
    BY <1>2, <1>k DEF Takes
  <2> QED
    BY <1>u, <2>1, <2>2, <2>3, <2>4
       DEF M!Handle, M!SetMethods, M!GetMetadataMethods, M!ProfileMethods, ask
<1>3. CASE t = AudioOutputConfig(c)
  <2>0. Says(ask.config, "AudioOutputConfigToken")
    BY <1>0, <1>3, SourceTokens DEF Says
  <2>1. M!GetAudioOutputConfiguration(c, ask).fault \notin Lost
        /\ M!GetAudioOutputConfigurationOptions(c, ask).fault \notin Lost
    BY FaultsAreNotLost, MediaSame DEF M!GetAudioOutputConfiguration,
       M!GetAudioOutputConfigurationOptions, M!IfOutputs
  <2>2. M!SetAudioOutputConfiguration(c, ask).fault \notin Lost
    BY <2>0, FaultsAreNotLost, MediaSame DEF M!SetAudioOutputConfiguration, M!Fixedly
  <2>3. method \in {"GetAudioOutputConfiguration", "SetAudioOutputConfiguration",
                    "GetAudioOutputConfigurationOptions"}
    BY <1>3, <1>k DEF Takes
  <2> QED
    BY <1>u, <2>1, <2>2, <2>3
       DEF M!Handle, M!SetMethods, M!GetMetadataMethods, M!ProfileMethods, ask
<1> QED
  BY <1>1, <1>2, <1>3

LEMMA Media2TakesSources ==
  ASSUME NEW c, Printed(c), NEW t \in {VideoSource, VideoSourceConfig, AudioSourceConfig,
                                       AudioOutputConfig(c)},
         NEW method \in Known("media2_service"), t.kind = Takes2(method)
  PROVE  \/ ReadsTwo("media2_service", method) /\ Cardinality(Present(c)) < 2
         \/ M2!Handle(c, method, Asked(Null, t, {"active"})).fault \notin Lost
<1> DEFINE ask == Asked(Null, t, {"active"})
<1>0. /\ ask.profile = Null /\ ask.config = t /\ t # Null
      /\ \A default : ProfileFirst(ask, default) = Whole(t)
  BY DeviceTokensAreSet DEF Asked, ProfileFirst
<1>u. M2!Unsupported(c, ask).fault \notin Lost
  BY FaultsAreNotLost, Media2Same DEF M2!Unsupported
<1>k. /\ VideoSourceConfig.kind = "vsc" /\ AudioSourceConfig.kind = "asc"
      /\ AudioOutputConfig(c).kind = "aoc" /\ VideoSource.kind = "vs"
  BY DEF VideoSource, VideoSourceConfig, AudioSourceConfig, AudioOutputConfig, Token
<1>e. ASSUME NEW fixed \in {"VideoSourceConfigToken", "AudioSourceConfigToken",
                            "AudioOutputConfigToken"}, NEW reply
      PROVE  /\ M2!Either(c, Guarded(c), fixed, fixed, reply) = reply
             /\ ~ (Cardinality(Present(c)) < 2)
                  => M2!Either(c, M2!FirstTwo, fixed, fixed, reply) = reply
  <2> DEFINE both == <<reply, reply>>
  <2>1. \A n : M2!Either(c, n, fixed, fixed, reply) = Pick(c, n, fixed, both, reply)
    BY Media2Same DEF M2!Either
  <2> HIDE DEF both
  <2>2. Pick(c, Guarded(c), fixed, both, reply) = reply
    BY FixedTokenMissed
  <2> QED
    BY <2>1, <2>2, TwoProfiles
<1>m. method \notin {"GetVideoSourceConfiguration", "GetAudioSourceConfiguration",
                     "GetAudioOutputConfiguration",
                     "GetGuaranteedNumberOfVideoEncoderInstances"}
  BY DEF Known, MethodsOf, M2!Methods, M2!SetMethods, M2!ProfileMethods, M2!GetMethods
<1> HIDE DEF ask
<1>1. CASE t = VideoSourceConfig
  <2>0. Whole(t) = "VideoSourceConfigToken" /\ Says(ask.config, "VideoSourceConfigToken")
    BY <1>0, <1>1, SourceTokens DEF Says
  <2>1. ~ (Cardinality(Present(c)) < 2)
          => /\ M2!GetVideoSourceConfigurations(c, ask).fault \notin Lost
             /\ M2!GetVideoSourceConfigurationOptions(c, ask).fault \notin Lost
    BY <1>0, <1>e, <2>0, FaultsAreNotLost, Media2Same
       DEF M2!GetVideoSourceConfigurations, M2!GetVideoSourceConfigurationOptions
  <2>2. M2!SetVideoSourceConfiguration(c, ask).fault \notin Lost
    BY <2>0, FaultsAreNotLost, Media2Same DEF M2!SetVideoSourceConfiguration, M2!Fixedly
  <2>3. method \in {"GetVideoSourceConfigurations", "SetVideoSourceConfiguration",
                    "GetVideoSourceConfigurationOptions"}
    BY <1>1, <1>k, <1>m DEF Takes, Takes2
  <2> QED
    BY <1>u, <2>1, <2>2, <2>3
       DEF M2!Handle, M2!SetMethods, M2!ProfileMethods, ReadsTwo, ask
<1>2. CASE t = AudioSourceConfig
  <2>0. Whole(t) = "AudioSourceConfigToken" /\ Says(ask.config, "AudioSourceConfigToken")
    BY <1>0, <1>2, SourceTokens DEF Says
  <2>1. ~ (Cardinality(Present(c)) < 2)
          => M2!GetAudioSourceConfigurations(c, ask).fault \notin Lost
    BY <1>0, <1>e, <2>0, FaultsAreNotLost, Media2Same DEF M2!GetAudioSourceConfigurations
  <2>2. M2!GetAudioSourceConfigurationOptions(c, ask).fault \notin Lost
    BY <1>0, <1>e, <2>0, FaultsAreNotLost, Media2Same
       DEF M2!GetAudioSourceConfigurationOptions
  <2>3. M2!SetAudioSourceConfiguration(c, ask).fault \notin Lost
    BY <2>0, FaultsAreNotLost, Media2Same DEF M2!SetAudioSourceConfiguration, M2!Fixedly
  <2>4. method \in {"GetAudioSourceConfigurations", "SetAudioSourceConfiguration",
                    "GetAudioSourceConfigurationOptions"}
    BY <1>2, <1>k, <1>m DEF Takes, Takes2
  <2> QED
    BY <1>u, <2>1, <2>2, <2>3, <2>4
       DEF M2!Handle, M2!SetMethods, M2!ProfileMethods, ReadsTwo, ask
<1>3. CASE t = AudioOutputConfig(c)
  <2>0. Whole(t) = "AudioOutputConfigToken" /\ Says(ask.config, "AudioOutputConfigToken")
    BY <1>0, <1>3, SourceTokens DEF Says
  <2>1. ~ (Cardinality(Present(c)) < 2)
          => M2!GetAudioOutputConfigurations(c, ask).fault \notin Lost
    BY <1>0, <1>e, <2>0, FaultsAreNotLost, Media2Same DEF M2!GetAudioOutputConfigurations
  <2>2. M2!GetAudioOutputConfigurationOptions(c, ask).fault \notin Lost
    BY <1>0, <1>e, <2>0, FaultsAreNotLost, Media2Same
       DEF M2!GetAudioOutputConfigurationOptions
  <2>3. M2!SetAudioOutputConfiguration(c, ask).fault \notin Lost
    BY <2>0, FaultsAreNotLost, Media2Same DEF M2!SetAudioOutputConfiguration, M2!Fixedly
  <2>4. method \in {"GetAudioOutputConfigurations", "SetAudioOutputConfiguration",
                    "GetAudioOutputConfigurationOptions"}
    BY <1>3, <1>k, <1>m DEF Takes, Takes2
  <2> QED
    BY <1>u, <2>1, <2>2, <2>3, <2>4
       DEF M2!Handle, M2!SetMethods, M2!ProfileMethods, ReadsTwo, ask
<1>4. CASE t = VideoSource
  <2>1. Says(ask.config, "VideoSourceToken")
    BY <1>0, <1>4, SourceTokens DEF Says
  <2>2. M2!GetVideoSourceModes(c, ask).fault \notin Lost
    BY <1>0, <2>1, FaultsAreNotLost, Media2Same DEF M2!GetVideoSourceModes
  <2>3. method = "GetVideoSourceModes"
    BY <1>4, <1>k DEF Takes, Takes2
  <2> QED
    BY <1>u, <2>2, <2>3 DEF M2!Handle, M2!SetMethods, M2!ProfileMethods, ask
<1> QED
  BY <1>1, <1>2, <1>3, <1>4
LEMMA RelaysTaken ==
  ASSUME NEW c, Printed(c), Wired(c), NEW i \in 1 .. Len(c.relays), NEW t,
         t = RelayToken(c, i), t # Null
  PROVE  LET ask == Asked(Null, t, {"active"})
         IN /\ IO!GetRelayOutputOptions(c, ask).fault \notin Lost
            /\ IO!SetRelayOutputState(c, ask).fault \notin Lost
<1> DEFINE ask == Asked(Null, t, {"active"})
<1>1. ask.config = t /\ ask.words = {"active"}
  BY DEF Asked
<1>2. Says(t, RelayToken(c, i).of)
  BY SourceTokens DEF Says
<1> HIDE DEF ask
<1>3. i \in IO!ByToken(c, ask.config)
  <2>1. IO!Says(t, RelayToken(c, i).of)
    BY <1>2 DEF Says, IO!Says, Whole, IO!Whole, OfProfile, IO!OfProfile
  <2> QED
    BY <1>1, <2>1, DeviceIoSame DEF IO!ByToken, IO!RelayIds
<1>4. IO!SetRelayOutputState(c, ask) = Done
  <2> DEFINE command == IO!Command(c.relays[IO!FirstAsked(c, ask)], ask)
  <2>1. IO!FirstAsked(c, ask) \in 1 .. Len(c.relays)
    BY <1>3, FirstRelay DEF IO!FirstAsked, Printed, IsConf
  <2>2. command # Null
    BY <2>1 DEF Wired, IO!Command
  <2>3. ask.words # {}
    BY <1>1
  <2> HIDE DEF command
  <2>4. IO!SetRelayOutputState(c, ask) = IF command = Null THEN Crashed ELSE Done
    BY <1>3, <2>3, DeviceIoSame DEF IO!SetRelayOutputState, command
  <2> QED
    BY <2>2, <2>4
<1>5. \E S : IO!GetRelayOutputOptions(c, ask) = Ok(S)
  BY DeviceIoSame DEF IO!GetRelayOutputOptions
<1> QED
  BY <1>4, <1>5, FaultsAreNotLost DEF ask

\* which handlers take a token of which kind
LEMMA KindsTaken ==
  ASSUME NEW service \in Services, NEW method \in Known(service)
  PROVE  /\ Kind(service, method) \in {"vsc", "asc", "vec", "aec", "adec", "aoc", "vs",
                                       "relay", "none"}
         /\ service = "media_service"
              => /\ Kind(service, method) = Takes(method)
                 /\ Kind(service, method) \notin {"vs", "relay"}
         /\ service = "media2_service"
              => /\ Kind(service, method) = Takes2(method)
                 /\ Kind(service, method) # "relay"
         /\ service \notin {"media_service", "media2_service"}
              => ~ Profiled(service, method)
         /\ service \in {"device_service", "deviceio_service"}
              => Kind(service, method) \in {"relay", "none"}
         /\ service \notin {"media_service", "media2_service", "device_service",
                            "deviceio_service"} => Kind(service, method) = "none"
         /\ Kind(service, method) = "relay" /\ service = "device_service"
              => method = "SetRelayOutputState"
         /\ Kind(service, method) = "relay"
              => method \in {"GetRelayOutputOptions", "SetRelayOutputSettings",
                             "SetRelayOutputState"}
         /\ Profiled(service, method) => method # "unknown"
<1>0. /\ Takes(method) \in {"vsc", "asc", "vec", "aec", "adec", "aoc", "vs", "relay", "none"}
      /\ Takes2(method) \in {"vsc", "asc", "vec", "aec", "adec", "aoc", "vs", "relay", "none"}
  BY DEF Takes, Takes2
<1>1. CASE service = "media_service"
  <2>1. method \notin {"GetVideoSourceModes", "GetRelayOutputOptions",
                       "SetRelayOutputSettings", "SetRelayOutputState"}
    BY <1>1 DEF Known, MethodsOf, M!Methods, M!GetMetadataMethods, M!ProfileMethods,
       M!SetMethods, M!GetMethods
  <2> QED
    BY <1>0, <1>1, <2>1 DEF Kind, Takes, Profiled
<1>2. CASE service = "media2_service"
  <2>1. method \notin {"GetRelayOutputOptions", "SetRelayOutputSettings",
                       "SetRelayOutputState"}
    BY <1>2 DEF Known, MethodsOf, M2!Methods, M2!ProfileMethods, M2!SetMethods, M2!GetMethods
  <2> QED
    BY <1>0, <1>2, <2>1 DEF Kind, Takes, Takes2, Profiled
<1>3. CASE service = "device_service"
  BY <1>3 DEF Known, MethodsOf, D!Methods, D!PlainMethods, D!Told, Kind, Takes, Profiled
<1>4. CASE service = "deviceio_service"
  BY <1>4 DEF Known, MethodsOf, IO!Methods, Kind, Takes, Profiled
<1>5. CASE service \notin {"media_service", "media2_service", "device_service",
                           "deviceio_service"}
  BY <1>5 DEF Known, MethodsOf, V!Methods, Kind, Takes, Profiled
<1> QED
  BY <1>1, <1>2, <1>3, <1>4, <1>5

(* A token that stands for what was shown is understood by the handlers    *)
(* that take one of its kind.                                              *)
LEMMA GenuineTokensWork ==
  ASSUME NEW c, Printed(c), Wired(c), NEW e, Genuine(c, e), e.token # Null,
         e.token \in Tokens, NEW service \in Services, NEW method \in Known(service),
         \/ e.token.kind = Kind(service, method)
         \/ e.token.kind = "profile" /\ Profiled(service, method)
  PROVE  LET r == Soap(service, method, "right", With(e.token))
             reply == Handled(c, r)
         IN \/ method = "SetRelayOutputSettings"
            \/ ReadsTwo(service, method) /\ Cardinality(Present(c)) < 2
            \/ /\ reply.fault \notin Lost
               /\ \A x \in reply.entries : Borrowed(r, x) \/ Same(e, x)
<1> DEFINE t == e.token
           ask == With(t)
           r == Soap(service, method, "right", ask)
           reply == Handled(c, r)
           i == e.shows
<1>1. r.service = service /\ r.method = method /\ r.ask = ask
  BY DEF Soap
<1> HIDE DEF r
<1>2. /\ service = "media_service" => reply = M!Handle(c, method, ask)
      /\ service = "media2_service" => reply = M2!Handle(c, method, ask)
      /\ service = "deviceio_service" => reply = IO!Handle(c, method, ask)
      /\ service = "device_service" /\ method = "SetRelayOutputState"
           => reply = IO!SetRelayOutputState(c, ask)
  BY <1>1 DEF Handled
<1>3. Taken(i, reply) => reply.fault \notin Lost /\ \A x \in reply.entries : Same(e, x)
  BY DEF Taken, Same
<1>4. t.kind \notin OfProfile => \A x : Same(e, x)
  BY DEF Same
<1>5. t.kind # "none"
  BY DEF Tokens, Kinds, OfProfile
<1> DEFINE Works == \/ method = "SetRelayOutputSettings"
                    \/ ReadsTwo(service, method) /\ Cardinality(Present(c)) < 2
                    \/ /\ reply.fault \notin Lost
                       /\ \A x \in reply.entries : Borrowed(r, x) \/ Same(e, x)
<1> HIDE DEF reply
<1> SUFFICES Works
  BY DEF reply, r
<1>6. CASE t.kind = "profile"
  <2>1. Profiled(service, method) /\ service \in {"media_service", "media2_service"}
    BY <1>6, KindsTaken
  <2>2. i \in Present(c) /\ t.of = Fixed(i)
    BY <1>6 DEF Genuine, OfProfile
  <2>3. ask = Asked(t, Null, M2!Types)
    BY <1>6 DEF With
  <2>4. method # "unknown"
    BY <2>1, KindsTaken
  <2>5. CASE service = "media_service"
    <3>1. method \in M!Methods
      BY <2>4, <2>5 DEF Known, MethodsOf
    <3> QED
      BY <1>2, <1>3, <1>6, <2>1, <2>2, <2>3, <2>5, <3>1, MediaTakesProfiles
  <2>6. CASE service = "media2_service"
    <3>1. method \in M2!Methods
      BY <2>4, <2>6 DEF Known, MethodsOf
    <3>2. \/ ReadsTwo(service, method) /\ Cardinality(Present(c)) < 2
          \/ Taken(i, reply)
          \/ method = "GetProfiles" /\ TakenOrLent(i, reply)
      BY <1>2, <1>6, <2>1, <2>2, <2>3, <2>6, <3>1, Media2TakesProfiles
    <3>3. \A x : method = "GetProfiles" /\ Lent(x, 2) => Borrowed(r, x)
      BY <1>1, <2>3, <2>6 DEF Borrowed, Lent, Asked
    <3>4. method = "GetProfiles" /\ TakenOrLent(i, reply) => Works
      BY <3>3 DEF TakenOrLent, Same
    <3> QED
      BY <1>3, <3>2, <3>4
  <2> QED
    BY <2>1, <2>5, <2>6
<1>7. CASE t.kind \in {"vec", "aec", "adec"}
  <2>1. t.kind = Kind(service, method) /\ service \in {"media_service", "media2_service"}
    BY <1>7, KindsTaken
  <2>2. i \in Present(c) /\ t.of = Fixed(i)
    BY <1>7 DEF Genuine, OfProfile
  <2>3. ask = Asked(Null, t, {"active"})
    BY <1>7 DEF With
  <2>4. CASE service = "media_service"
    BY <1>2, <1>3, <1>7, <2>1, <2>2, <2>3, <2>4, KindsTaken, MediaTakesCodings
  <2>5. CASE service = "media2_service"
    BY <1>2, <1>3, <1>7, <2>1, <2>2, <2>3, <2>5, KindsTaken, Media2TakesCodings
  <2> QED
    BY <2>1, <2>4, <2>5
<1>8. CASE t.kind = "relay"
  <2>1. PICK j \in 1 .. Len(c.relays) : t = RelayToken(c, j)
    BY <1>8 DEF Genuine
  <2>2. ask = Asked(Null, t, {"active"}) /\ \A x : Same(e, x)
    BY <1>4, <1>8 DEF With, OfProfile
  <2>3. /\ IO!GetRelayOutputOptions(c, ask).fault \notin Lost
        /\ IO!SetRelayOutputState(c, ask).fault \notin Lost
    BY <2>1, <2>2, RelaysTaken
  <2>4. /\ service \in {"device_service", "deviceio_service"}
        /\ service = "device_service" => method = "SetRelayOutputState"
        /\ method \in {"GetRelayOutputOptions", "SetRelayOutputSettings",
                       "SetRelayOutputState"}
    BY <1>8, KindsTaken
  <2>5. \/ method = "SetRelayOutputSettings"
        \/ reply \in {IO!GetRelayOutputOptions(c, ask), IO!SetRelayOutputState(c, ask)}
    BY <1>2, <2>4 DEF IO!Handle
  <2> QED
    BY <2>2, <2>3, <2>5
<1>9. CASE t.kind \notin {"profile", "vec", "aec", "adec", "relay"}
  <2>1. t.kind = Kind(service, method) /\ t.kind \in {"vsc", "asc", "aoc", "vs"}
        /\ service \in {"media_service", "media2_service"}
        /\ (t.kind = "vs" => service = "media2_service")
    BY <1>5, <1>9, KindsTaken
  <2>2. /\ t.kind = "vs" => t = VideoSource
        /\ t.kind = "vsc" => t = VideoSourceConfig
        /\ t.kind = "asc" => t = AudioSourceConfig
        /\ t.kind = "aoc" => t = AudioOutputConfig(c)
    BY DEF Genuine
  <2>3. ask = Asked(Null, t, {"active"}) /\ \A x : Same(e, x)
    BY <1>4, <1>9 DEF With, OfProfile
  <2>4. CASE service = "media_service"
    BY <1>2, <2>1, <2>2, <2>3, <2>4, KindsTaken, MediaTakesSources
  <2>5. CASE service = "media2_service"
    BY <1>2, <2>1, <2>2, <2>3, <2>5, KindsTaken, Media2TakesSources
  <2> QED
    BY <2>1, <2>4, <2>5
<1> QED
  BY <1>6, <1>7, <1>8, <1>9
\* the tokens of an answer that was not read yet stand for what it shows, or
\* for the second profile, with borrowed values
TokensInv ==
  ~ Idle => \A c \in Confs : AsPrinted(c) /\ Present(c) # {} =>
    \A e \in answer.entries : Genuine(c, e) \/ Lends(c, answer.to, e)

\* whatever is behind the array, the same tokens stand for the same
LEMMA SamePrinted ==
  ASSUME NEW f \in Files, NEW junk \in Junk, NEW other \in Junk,
         AsPrinted(Load(f, other)), Present(Load(f, other)) # {}
  PROVE  LET c == Load(f, junk)
             d == Load(f, other)
         IN /\ Printed(c) /\ Printed(d)
            /\ \A e : Genuine(c, e) => Genuine(d, e)
            /\ \A r, e : Lends(c, r, e) => Lends(d, r, e)
<1> DEFINE c == Load(f, junk)
           d == Load(f, other)
<1>1. /\ IsConf(c) /\ IsConf(d)
      /\ c.relays = d.relays /\ Present(c) = Present(d) /\ c.aoc = d.aoc
  BY ConfsAreConfs, SameConf DEF Load
<1>2. \A i \in Present(c) : NameAt(c, i) = NameAt(d, i)
  <2>1. c.num \in Nat /\ Present(c) = 1 .. c.num
    BY <1>1 DEF IsConf, Present
  <2>2. \A i \in Present(c) : i \in 0 .. c.num
    <3> HIDE DEF c
    <3> QED
      BY <2>1
  <2> QED
    BY <2>2, SameNames
<1> HIDE DEF c, d
<1>3. AsPrinted(d) /\ Present(d) # {}
  BY DEF d
<1>4. /\ AudioOutputConfig(c) = AudioOutputConfig(d)
      /\ \A i : RelayToken(c, i) = RelayToken(d, i)
  BY <1>1 DEF AudioOutputConfig, RelayToken
<1>5. AsPrinted(c)
  BY <1>1, <1>2, <1>3, <1>4 DEF AsPrinted
<1>6. /\ \A e : Genuine(c, e) => Genuine(d, e)
      /\ \A r, e : Lends(c, r, e) => Lends(d, r, e)
  BY <1>1, <1>4 DEF Genuine, Lends, Loaned
<1> QED
  BY <1>1, <1>3, <1>5, <1>6 DEF Printed, c, d

LEMMA ServeGenuine ==
  ASSUME TypeOK, NEW r, Serve(r), IsAsk(r.ask)
  PROVE  TokensInv'
<1>1. PICK junk \in Junk :
        answer' = [to |-> r, fault |-> Reply(Load(file, junk), r).fault,
                   entries |-> Reply(Load(file, junk), r).entries]
  BY DEF Serve
<1>2. file' = file /\ file \in Files
  BY DEF Serve, TypeOK
<1> DEFINE c == Load(file, junk)
<1>3. answer'.entries = Reply(c, r).entries /\ answer'.to = r
  BY <1>1
<1>4. SUFFICES ASSUME NEW other \in Junk, AsPrinted(Load(file, other)),
                      Present(Load(file, other)) # {}, NEW e \in answer'.entries
               PROVE  Genuine(Load(file, other), e) \/ Lends(Load(file, other), r, e)
  BY <1>2, <1>3 DEF TokensInv, Confs
<1>5. /\ Printed(c)
      /\ Genuine(c, e) => Genuine(Load(file, other), e)
      /\ Lends(c, r, e) => Lends(Load(file, other), r, e)
  <2>1. file \in Files /\ junk \in Junk /\ other \in Junk
        /\ AsPrinted(Load(file, other)) /\ Present(Load(file, other)) # {}
    BY <1>1, <1>2, <1>4
  <2> QED
    BY <2>1, SamePrinted, Zenon
<1> HIDE DEF c
<1>6. \A x \in Reply(c, r).entries : Genuine(c, x) \/ Lends(c, r, x)
  BY <1>5, ReplyGenuine
<1> QED
  BY <1>3, <1>4, <1>5, <1>6

LEMMA TokensInvHolds == Spec => []TokensInv
<1>1. Init => TokensInv
  BY DEF Init, TokensInv, Idle
<1>2. AnswerInv /\ TokensInv /\ [Next]_vars => TokensInv'
  <2> SUFFICES ASSUME AnswerInv, TokensInv, [Next]_vars
               PROVE  TokensInv'
    OBVIOUS
  <2>0. TypeOK /\ DOMAIN answer = {"to", "fault", "entries"}
    BY DEF AnswerInv
  <2>1. CASE ServeSoap
    <3>1. \A service, method, ask : Soap(service, method, "right", ask).ask = ask
      BY DEF Soap
    <3>2. PICK service \in Services : \E method \in Known(service) :
            \E p \in ProfileTokens(service, method), k \in ConfigTokens(service, method),
               w \in Words(service, method) :
              Serve(Soap(service, method, "right", Asked(p, k, w)))
      BY <2>1 DEF ServeSoap
    <3>3. PICK method \in Known(service) :
            \E p \in ProfileTokens(service, method), k \in ConfigTokens(service, method),
               w \in Words(service, method) :
              Serve(Soap(service, method, "right", Asked(p, k, w)))
      BY <3>2
    <3>4. PICK p \in ProfileTokens(service, method), k \in ConfigTokens(service, method),
               w \in Words(service, method) :
            Serve(Soap(service, method, "right", Asked(p, k, w)))
      BY <3>3
    <3>5. IsAsk(Asked(p, k, w))
      BY <2>0, AskedTokens
    <3> QED
      BY <2>0, <3>1, <3>4, <3>5, ServeGenuine
  <2>2. \A w : IsAsk(Asked(Null, Null, w))
    BY DEF IsAsk, Asked
  <2>3. CASE ServeLogin
    <3>1. \A service, method, login, ask : Soap(service, method, login, ask).ask = ask
      BY DEF Soap
    <3>2. PICK service, method, login, w :
            Serve(Soap(service, method, login, Asked(Null, Null, w)))
      BY <2>3 DEF ServeLogin
    <3> QED
      BY <2>0, <2>2, <3>1, <3>2, ServeGenuine
  <2>4. CASE ServeOther
    <3>1. PICK form : Serve(Other(form))
      BY <2>4 DEF ServeOther
    <3>2. Other(form).ask = Asked(Null, Null, {})
      BY DEF Other
    <3> QED
      BY <2>0, <2>2, <3>1, <3>2, ServeGenuine
  <2>5. CASE Read
    <3>1. answer'.to = NoRequest
      BY <2>0, <2>5 DEF Read
    <3> QED
      BY <3>1 DEF TokensInv, Idle
  <2>6. CASE Edit
    BY <2>6 DEF Edit, TokensInv, Idle
  <2>7. CASE UNCHANGED vars
    BY <2>7 DEF vars, TokensInv, Idle, Confs
  <2> QED
    BY <2>1, <2>3, <2>4, <2>5, <2>6, <2>7 DEF Next
<1> QED
  BY <1>1, <1>2, AnswerInvHolds, PTL DEF Spec

(* For every configuration with the names and tokens that are printed and  *)
(* with relays that have their commands, and whatever request it was that  *)
(* gave it: a token is understood by every handler of every service that   *)
(* takes one of its kind, and what they show is the profile it was shown   *)
(* with (the look-ups by name and by token in all handlers), but for the   *)
(* values that GetProfiles of Media2 borrows for the second profile        *)
(* (media2_service.c:232-255).                                             *)
THEOREM TokensAlwaysWork == Spec => []TokensWork
<1>1. TypeOK /\ TokensInv => TokensWork
  <2> SUFFICES ASSUME TypeOK, TokensInv, ~ Idle, NEW c \in Confs,
                      NEW e \in answer.entries, AsPrinted(c), Wired(c),
                      Present(c) # {}, e.token # Null, NEW u \in Uses(e.token)
               PROVE  LET request == Soap(u[1], u[2], "right", With(e.token))
                          reply == Handled(c, request)
                      IN \/ u[2] = "SetRelayOutputSettings"
                         \/ ReadsTwo(u[1], u[2]) /\ Cardinality(Present(c)) < 2
                         \/ /\ reply.fault \notin Lost
                            /\ \A x \in reply.entries :
                                 Borrowed(answer.to, e) \/ Borrowed(request, x)
                                 \/ Same(e, x)
    BY DEF TokensWork, Lost
  <2>1. Printed(c) /\ e.token \in Tokens
    BY ConfsAreConfs DEF Confs, TypeOK, Printed
  <2>g. Genuine(c, e) \/ Lends(c, answer.to, e)
    BY DEF TokensInv
  <2>2. /\ u[1] \in Services /\ u[2] \in Known(u[1])
        /\ \/ e.token.kind = Kind(u[1], u[2])
           \/ e.token.kind = "profile" /\ Profiled(u[1], u[2])
    BY DEF Uses
  <2>3. CASE Genuine(c, e)
    BY <2>1, <2>2, <2>3, GenuineTokensWork
  <2>4. CASE Lends(c, answer.to, e)
    <3> DEFINE own == Entry(e.token, 2)
    <3>1. own.token = e.token /\ Genuine(c, own)
      BY <2>4 DEF Entry, Genuine, Lends, Loaned, Lent
    <3>2. Borrowed(answer.to, e)
      BY <2>4 DEF Lends
    <3> HIDE DEF own
    <3>3. LET reply == Handled(c, Soap(u[1], u[2], "right", With(own.token)))
          IN \/ u[2] = "SetRelayOutputSettings"
             \/ ReadsTwo(u[1], u[2]) /\ Cardinality(Present(c)) < 2
             \/ reply.fault \notin Lost
      BY <2>1, <2>2, <3>1, GenuineTokensWork
    <3> QED
      BY <3>1, <3>2, <3>3
  <2> QED
    BY <2>g, <2>3, <2>4
<1> QED
  BY <1>1, TypeCorrect, TokensInvHolds, PTL
=============================================================================
