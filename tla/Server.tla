------------------------------- MODULE Server ------------------------------
(***************************************************************************)
(* onvif_simple_server: a new process for every HTTP request, which reads  *)
(* the configuration, decides whether the request may be served and calls  *)
(* the handler that the dispatch table has for it.  Between two requests   *)
(* the user may edit the configuration; the client keeps the tokens of the *)
(* last answer.                                                            *)
(*                                                                         *)
(* PTZ and imaging, whose requests change what the device stores, have     *)
(* modules of their own: here they only say what they can do.              *)
(***************************************************************************)
EXTENDS MediaConf

CONSTANTS
  Files,        \* configurations the user writes
  Junk          \* what may be in memory that the process did not write

(* Tokens: what they stand for, and their texts.                           *)
Kinds == OfProfile \cup {"vs", "vsc", "as", "asc", "ao", "aoc", "ptz", "relay",
                        "service", "count", "info", "topic", "state",
                        "subscription"}
Texts ==
  Names \cup RelayNames \cup
  {OtherToken, "AudioOutputConfigToken", "AudioOutputToken", "VideoSourceToken",
   "VideoSourceConfigToken", "AudioSourceToken", "AudioSourceConfigToken",
   "PTZCfgToken", "RelayOutputToken_0", "RelayOutputToken_1", "other", "*",
   "device_service", "media_service", "media2_service", "events_service",
   "deviceio_service", "ptz_service", "imaging_service", "pullpoint",
   "basesubscription", "audio_sources", "audio_outputs", "relay_outputs",
   "information", "time", "scopes", "hostname", "protocols", "ntp", "address",
   "network", "ptz", "imaging", "relay"} \cup Topics
Tokens == [kind : Kinds, of : Texts]

ASSUME FilesAssumption ==
  /\ MaxRelays \in Nat \ {0} /\ MaxEvents \in Nat
  /\ \A f \in Files : /\ f.streams \in Seq(Stream)
                      /\ f.relays \in Seq(Relay)
                      /\ f.topics \in Seq(Topics \cup {Null})
                      /\ f.aoc \in Texts \cup {Null}

\* no number, no text and no token is NULL
ASSUME NullAssumption == Null \notin Nat \cup Texts \cup Tokens

ASSUME JunkAssumption ==
  \A junk \in Junk : /\ junk.codec \in Codecs
                     /\ junk.table \in {"absent", "other", "fits"}

M == INSTANCE Media
M2 == INSTANCE Media2
D == INSTANCE Device
IO == INSTANCE DeviceIo
V == INSTANCE Events

VARIABLES
  file,         \* the configuration
  contact,      \* the contacts of the relays, driven by external commands
  answer        \* the last answer, and the request "to" it
vars == <<file, contact, answer>>

Services == {"device_service", "media_service", "media2_service",
             "deviceio_service", "events_service", "ptz_service",
             "imaging_service"}

(* What comes with a request: an HTTP method, a body, a SOAP method with   *)
(* its tokens and words, and a login: without a header, with an incomplete *)
(* one, with a wrong digest or with the right one.                         *)
Logins == {"none", "incomplete", "wrong", "right"}
Asked(p, k, w) == [profile |-> p, config |-> k, words |-> w]
Soap(service, method, login, ask) ==
  [form |-> "soap", service |-> service, method |-> method, login |-> login,
   ask |-> ask]
Other(form) ==
  [form |-> form, service |-> "device_service", method |-> "", login |-> "none",
   ask |-> Asked(Null, Null, {})]
NoRequest == Other("nothing")

-----------------------------------------------------------------------------
(* Who may ask for what.                                                   *)

PreAuth(service, method) ==
  \/ /\ service = "device_service"
     /\ method \in {"GetSystemDateAndTime", "GetWsdlUrl", "GetServices",
                    "GetServiceCapabilities", "GetCapabilities", "GetHostname",
                    "GetEndpointReference"}
  \/ /\ service = "events_service"
     /\ method \in {"GetServiceCapabilities", "GetEventProperties",
                    "CreatePullPointSubscription", "PullMessages", "Renew",
                    "Unsubscribe", "SetSynchronizationPoint"}
  \/ /\ service \in {"ptz_service", "imaging_service"}
     /\ method = "GetServiceCapabilities"

\* mutant: open for all while no user is configured
AdmittedOpen(c, r) == PreAuth(r.service, r.method) \/ c.user = "none"
                      \/ (c.user = "both" /\ r.login = "right")

Admitted(c, r) ==
  \/ PreAuth(r.service, r.method)
  \/ c.user = "both" /\ r.login = "right"

\* the digest is computed with a password that may be missing
DigestFails(c, r) == c.user = "name" /\ r.login \in {"wrong", "right"}

-----------------------------------------------------------------------------
(* dispatch_onvif_method                                                   *)

Capabilities(c, r) ==
  IF r.method # "GetServiceCapabilities" THEN D!Unsupported(c, r.ask)
  ELSE IF r.service = "ptz_service" THEN Ok({Info("ptz")})
  ELSE IF c.imaging THEN Ok({Info("imaging")}) ELSE Fault("NoImagingForSource")

Handled(c, r) ==
  CASE r.service = "device_service" ->
         IF r.method = "SetRelayOutputState" THEN IO!SetRelayOutputState(c, r.ask)
         ELSE D!Handle(c, r.method, r.ask)
    [] r.service = "media_service" -> M!Handle(c, r.method, r.ask)
    [] r.service = "media2_service" -> M2!Handle(c, r.method, r.ask)
    [] r.service = "deviceio_service" -> IO!Handle(c, r.method, r.ask)
    [] r.service = "events_service" -> V!Handle(c, r.method, r.ask)
    [] OTHER -> Capabilities(c, r)

Reply(c, r) ==
  IF ~ Accepted(file) THEN Silent
  ELSE CASE r.form = "get" -> Fault("HttpMethod")
         [] r.form = "empty" -> Fault("Challenge")
         [] r.form = "malformed" -> Fault("Malformed")
         [] OTHER -> IF DigestFails(c, r) THEN Crashed
                     ELSE IF ~ Admitted(c, r) THEN Fault("Unauthorized")
                     ELSE Handled(c, r)

DrivesRelay(r) ==
  /\ r.method = "SetRelayOutputState"
  /\ r.service \in {"device_service", "deviceio_service"}

-----------------------------------------------------------------------------
(* The requests of a client: every method, with the tokens that the last   *)
(* answer gave it or that it made up.                                      *)

TokensOf(kind) ==
  {e.token : e \in {x \in answer.entries : x.token # Null /\ x.token.kind = kind}}

\* the kind of configuration token that a method takes
Takes(method) ==
  CASE method \in {"GetVideoSourceConfiguration", "SetVideoSourceConfiguration",
                   "GetVideoSourceConfigurationOptions",
                   "GetGuaranteedNumberOfVideoEncoderInstances"} -> "vsc"
    [] method \in {"GetAudioSourceConfiguration", "SetAudioSourceConfiguration",
                   "GetAudioSourceConfigurationOptions"} -> "asc"
    [] method \in {"GetVideoEncoderConfiguration",
                   "GetVideoEncoderConfigurationOptions"} -> "vec"
    [] method \in {"GetAudioEncoderConfiguration",
                   "GetAudioEncoderConfigurationOptions"} -> "aec"
    [] method \in {"GetAudioDecoderConfiguration",
                   "GetAudioDecoderConfigurationOptions"} -> "adec"
    [] method \in {"GetAudioOutputConfiguration", "SetAudioOutputConfiguration",
                   "GetAudioOutputConfigurationOptions"} -> "aoc"
    [] method = "GetVideoSourceModes" -> "vs"
    [] method \in {"GetRelayOutputOptions", "SetRelayOutputSettings",
                   "SetRelayOutputState"} -> "relay"
    [] OTHER -> "none"

\* in Media2 the lists take a token too
Takes2(method) ==
  CASE method = "GetVideoSourceConfigurations" -> "vsc"
    [] method = "GetAudioSourceConfigurations" -> "asc"
    [] method = "GetVideoEncoderConfigurations" -> "vec"
    [] method = "GetAudioEncoderConfigurations" -> "aec"
    [] method = "GetAudioDecoderConfigurations" -> "adec"
    [] method = "GetAudioOutputConfigurations" -> "aoc"
    [] OTHER -> Takes(method)
Kind(service, method) ==
  IF service = "media2_service" THEN Takes2(method) ELSE Takes(method)

\* and the methods that take the token of a profile
Profiled(service, method) ==
  \/ method \in {"GetSnapshotUri", "GetStreamUri"}
  \/ method \in {"GetProfile", "GetCompatibleVideoEncoderConfigurations",
                 "GetCompatibleAudioSourceConfigurations",
                 "GetCompatibleAudioEncoderConfigurations",
                 "GetCompatibleAudioDecoderConfigurations",
                 "GetVideoSourceConfigurationOptions",
                 "GetAudioSourceConfigurationOptions",
                 "GetVideoEncoderConfigurationOptions",
                 "GetAudioEncoderConfigurationOptions",
                 "GetAudioDecoderConfigurationOptions",
                 "GetAudioOutputConfigurationOptions"}
  \/ /\ service = "media2_service"
     /\ method = "GetProfiles" \/ Takes2(method) # Takes(method)

ProfileTokens(service, method) ==
  {Null} \cup IF Profiled(service, method)
              THEN TokensOf("profile") \cup {Stranger} ELSE {}
ConfigTokens(service, method) ==
  {Null} \cup IF Kind(service, method) # "none"
              THEN TokensOf(Kind(service, method)) \cup {Stranger} ELSE {}
OnSubscription ==
  {"PullMessages", "Renew", "Unsubscribe", "SetSynchronizationPoint"}
Words(service, method) ==
  CASE service = "media2_service" /\ method = "GetProfiles" ->
         {{}, {"AudioEncoder"}, M2!Types}
    [] method = "GetServices" -> {{}, {"capabilities"}}
    [] method = "GetCapabilities" ->
         {{}} \cup {{w} : w \in D!Categories \cup {"other"}}
    [] method = "SetRelayOutputState" -> {{}, {"active"}, {"inactive"}}
    [] method = "DeleteUsers" -> {{}, {"user"}}
    [] service = "events_service" /\ method = "Subscribe" ->
         {{}, {"body"}, {"body", "id"}}
    [] service = "events_service" /\ method \in OnSubscription ->
         {{}, {"sub"}, {"sub", "body"}, {"sub", "high"}}
    [] OTHER -> {{}}

MethodsOf(service) ==
  CASE service = "device_service" -> D!Methods \cup {"SetRelayOutputState"}
    [] service = "media_service" -> M!Methods
    [] service = "media2_service" -> M2!Methods
    [] service = "deviceio_service" -> IO!Methods
    [] service = "events_service" -> V!Methods
    [] OTHER -> {"GetServiceCapabilities"}

-----------------------------------------------------------------------------
Init ==
  /\ file \in Files
  /\ contact = [i \in 1 .. Len(Relays(file.relays)) |-> file.relays[i].idle]
  /\ answer = [to |-> NoRequest, fault |-> "none", entries |-> {}]

Serve(r) ==
  \E junk \in Junk :
    LET c == Load(file, junk)
        reply == Reply(c, r)
    IN /\ answer' = [to |-> r, fault |-> reply.fault, entries |-> reply.entries]
       /\ contact' = IF DrivesRelay(r) /\ Admitted(c, r) /\ reply = Done
                     THEN IO!Driven(c, r.ask, contact) ELSE contact
       /\ UNCHANGED file

Known(service) == MethodsOf(service) \cup {"unknown"}

Idle == answer.to = NoRequest

ServeSoap ==
  /\ Idle
  /\ \E service \in Services : \E method \in Known(service) :
       \E p \in ProfileTokens(service, method), k \in ConfigTokens(service, method),
          w \in Words(service, method) :
         Serve(Soap(service, method, "right", Asked(p, k, w)))

ServeLogin ==
  /\ Idle
  /\ \E service \in Services : \E method \in Known(service) :
       \E login \in Logins \ {"right"}, w \in Words(service, method) :
         Serve(Soap(service, method, login, Asked(Null, Null, w)))

ServeOther ==
  /\ Idle
  /\ \E form \in {"get", "empty", "malformed"} : Serve(Other(form))

\* the client takes the tokens of the answer
Read ==
  /\ ~ Idle
  /\ answer' = [answer EXCEPT !.to = NoRequest, !.fault = "none"]
  /\ UNCHANGED <<file, contact>>

\* the user edits the streams; the relays are wired, and stay
Edit ==
  /\ Idle
  /\ file' \in {f \in Files : f.relays = file.relays}
  /\ UNCHANGED <<contact, answer>>

Next == ServeSoap \/ ServeLogin \/ ServeOther \/ Read \/ Edit
Spec == Init /\ [][Next]_vars

-----------------------------------------------------------------------------
(* Properties.  An answer that was not read yet belongs to the file.       *)

Faults == {"none", "crashed", "silent", "HttpMethod", "Challenge", "Malformed",
           "Unauthorized", "ActionFailed", "NoSuchService", "NoProfile",
           "NoConfig", "NoVideoSource", "AudioNotSupported", "AudioDecodingNotSupported",
           "AudioOutputNotSupported", "ConfigModify", "IncompleteConfiguration",
           "MaxNVTProfiles", "DeletionOfFixedProfile", "InvalidMulticastSettings",
           "TooManyUsers", "UsernameMissing", "RelayToken", "NoImagingForSource",
           "UnableToCreatePullPoint", "SubscribeCreationFailed", "ResourceUnknown",
           "UnacceptableTerminationTime"}
Confs == {Load(file, junk) : junk \in Junk}

TypeOK ==
  /\ file \in Files
  /\ contact \in Seq({"open", "closed"})
  /\ Len(contact) = Len(Relays(file.relays))
  /\ answer.fault \in Faults
  /\ \A e \in answer.entries :
       /\ e.token = Null \/ e.token \in Tokens
       /\ e.shows \in Nat /\ e.codec \in Codecs

(* What the answers show: a relay that there is; or a profile that there    *)
(* is, under its own name, and for an encoder or a decoder the codec of     *)
(* that profile.  Two exceptions: without a profile the values of an        *)
(* emptied one are shown; and GetProfiles of Media2, asked for the second   *)
(* profile, shows its encoders with the values of the first one.            *)
Borrowed(r, e) ==
  /\ r.service = "media2_service" /\ r.method = "GetProfiles"
  /\ r.ask.profile # Null
  /\ e.token # Null /\ e.token.kind \in {"vec", "aec"} /\ e.token.of = Fixed(2)
UnderItsName(c, e) == e.token.of \in {Fixed(e.shows), NameAt(c, e.shows)}
ShowsWhatThereIs ==
  ~ Idle => \A c \in Confs : \A e \in answer.entries :
    IF e.token # Null /\ e.token.kind = "count" THEN TRUE
    ELSE IF e.token # Null /\ e.token.kind = "relay"
    THEN e.shows \in 1 .. Len(c.relays)
    ELSE /\ c.num > 0 => e.shows \in 0 .. c.num
         /\ e.shows \in 1 .. c.num /\ e.codec # "NONE"
              => e.codec \in {EncoderAt(c, e.shows), DecoderAt(c, e.shows)}
         /\ c.num > 0 /\ e.token # Null /\ e.token.kind \in OfProfile
              => UnderItsName(c, e) \/ Borrowed(answer.to, e)

(* A token that an answer gave is understood by every handler that takes   *)
(* one of its kind, and what they show is the same profile (but for what   *)
(* is borrowed, as above).  This needs the names and tokens of the         *)
(* configuration to be those that are printed and compared, and the relays *)
(* to have their commands; and four handlers of Media2 read two profiles   *)
(* even if there is one.                                                   *)
Wired(c) ==
  \A i \in 1 .. Len(c.relays) : c.relays[i].open # Null /\ c.relays[i].close # Null
AsPrinted(c) ==
  /\ \A i \in Present(c) : NameAt(c, i) = Fixed(i)
  /\ AudioOutputConfig(c).of = "AudioOutputConfigToken"
  /\ \A i \in 1 .. Len(c.relays) : RelayToken(c, i).of = DefaultRelay(i)
ReadsTwo(service, method) ==
  /\ service = "media2_service"
  /\ method \in {"GetVideoSourceConfigurations",
                 "GetVideoSourceConfigurationOptions",
                 "GetAudioSourceConfigurations", "GetAudioOutputConfigurations"}
Uses(t) ==
  {u \in UNION {{s} \X Known(s) : s \in Services} :
     \/ t.kind = Kind(u[1], u[2])
     \/ t.kind = "profile" /\ Profiled(u[1], u[2])}
With(t) ==
  IF t.kind = "profile" THEN Asked(t, Null, M2!Types)
  ELSE Asked(Null, t, {"active"})
Same(e, x) ==
  \/ e.token.kind \notin OfProfile
  \/ x.token # Null /\ x.token.kind \notin OfProfile
  \/ x.shows = e.shows
TokensWork ==
  ~ Idle => \A c \in Confs : \A e \in answer.entries :
    AsPrinted(c) /\ Wired(c) /\ Present(c) # {} /\ e.token # Null =>
      \A u \in Uses(e.token) :
        LET request == Soap(u[1], u[2], "right", With(e.token))
            reply == Handled(c, request)
        IN \/ u[2] = "SetRelayOutputSettings"
           \/ ReadsTwo(u[1], u[2]) /\ Cardinality(Present(c)) < 2
           \/ /\ reply.fault \notin {"NoProfile", "NoConfig", "NoVideoSource",
                                     "RelayToken", "silent", "crashed"}
              /\ \A x \in reply.entries :
                   Borrowed(answer.to, e) \/ Borrowed(request, x) \/ Same(e, x)

(* A request is answered: the process neither dies nor ends in silence,    *)
(* whatever tokens the client made up.  What is excepted: a configuration  *)
(* that is refused, without a profile, with one without a name, with a     *)
(* user without a password, a relay without a command or an empty topic;   *)
(* and requests without the token or the word that a handler reads         *)
(* unchecked.                                                              *)
WellConfigured(c) ==
  /\ Accepted(file) /\ c.user # "name"
  /\ Wired(c) /\ \A i \in DOMAIN c.events : c.events[i] # "empty"
  /\ Present(c) # {} /\ \A i \in Present(c) : NameAt(c, i) # Null
Unchecked(r) ==
  \/ r.method \in {"GetGuaranteedNumberOfVideoEncoderInstances",
                   "GetVideoSourceModes"} /\ r.ask.config = Null
  \/ r.method = "SetRelayOutputState" /\ r.ask.words = {}
  \/ r.method = "SetRelayOutputSettings"
Answered ==
  ~ Idle => \A c \in Confs :
    WellConfigured(c) => \/ answer.fault \notin {"silent", "crashed"}
                         \/ Unchecked(answer.to)
                         \/ /\ Cardinality(Present(c)) < 2
                            /\ ReadsTwo(answer.to.service, answer.to.method)

(* Without a login, or without a user to log in as, an answer tells the    *)
(* services and what they can do, how many sources, outputs and relays     *)
(* there are, the host's name, address and time, and all that the Events   *)
(* service knows: the topics, what happened, to which relay, and           *)
(* subscriptions.  (A comment in main means the Events service to be open  *)
(* only if no user is configured; the code opens it in both cases.)  It    *)
(* tells of no profile, encoder, source, network or scope.                 *)
Anonymous == answer.to.login # "right" \/ file.user # "both"
Public(service, e) ==
  /\ e.token # Null
  /\ \/ e.token.kind \in {"service", "count"}
     \/ /\ e.token.kind = "info"
        /\ e.token.of \in {"hostname", "address", "time", "ptz", "imaging"}
     \/ /\ service = "events_service"
        /\ e.token.kind \in {"topic", "state", "relay", "subscription"}
TellsStrangersLittle ==
  Anonymous /\ ~ Idle => \A e \in answer.entries : Public(answer.to.service, e)

(* The same device, whichever service is asked.  The counts of the         *)
(* capabilities are those of the lists, the profiles of Media are those of *)
(* Media2, and their encoders are those that the lists of both services    *)
(* have; and a service that is listed says what it can do.                 *)
None == Asked(Null, Null, {})
CountOf(what, n, reply) ==
  \A e \in reply.entries : e.token = Token("count", what) => e.shows = n
Of(kinds, reply) ==
  {e \in reply.entries : e.token # Null /\ e.token.kind \in kinds}
ServicesAgree ==
  \A c \in Confs : WellConfigured(c) /\ c.media2 =>
    LET profiles == M!GetProfiles(c, None)
        profiles2 == M2!GetProfiles(c, Asked(Null, Null, M2!Types))
        services == D!GetServices(c, Asked(Null, Null, {"capabilities"}))
    IN /\ Of({"profile", "vec", "aec", "asc", "aoc"}, profiles)
          = Of({"profile", "vec", "aec", "asc", "aoc"}, profiles2)
       /\ \A list \in {"GetVideoEncoderConfigurations",
                      "GetAudioEncoderConfigurations"} :
            LET kind == {Takes2(list)}
            IN /\ Of(kind, M!Handle(c, list, None)) = Of(kind, profiles)
               /\ Of(kind, M2!Handle(c, list, None)) = Of(kind, profiles)
       /\ Of({"adec"}, M!GetAudioDecoderConfigurations(c, None))
          = Of({"adec"}, profiles2)
       /\ \A s \in Of({"service"}, services) :
            Handled(c, Soap(s.token.of, "GetServiceCapabilities", "right", None)).fault
              = "none"
       /\ services.fault = "none" =>
            V!GetServiceCapabilities(c, None).entries \subseteq services.entries
       /\ \A capabilities \in {services, IO!GetServiceCapabilities(c, None)} :
            /\ CountOf("relay_outputs", Cardinality(IO!GetRelayOutputs(c, None).entries),
                       capabilities)
            /\ CountOf("audio_sources", Cardinality(M!GetAudioSources(c, None).entries),
                       capabilities)
            /\ CountOf("audio_outputs", Cardinality(IO!GetAudioOutputs(c, None).entries),
                       capabilities)

(* A contact changes only when the state of a relay is set by somebody who *)
(* may, and then it is the contact of the relay that GetRelayOutputs shows *)
(* under the token, the first one if two relays have the same; and it      *)
(* comes into the state that was asked for.                                *)
RelayFollows ==
  [][contact' # contact =>
       /\ answer'.to.login = "right" /\ file.user = "both"
       /\ \E e \in IO!GetRelayOutputs(Load(file, CHOOSE j \in Junk : TRUE),
                                      None).entries :
            /\ e.token.of = answer'.to.ask.config.of
            /\ \A i \in DOMAIN contact : i # e.shows => contact'[i] = contact[i]
            /\ (contact'[e.shows] # file.relays[e.shows].idle)
                 <=> ("active" \in answer'.to.ask.words)]_contact
=============================================================================
