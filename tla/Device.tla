------------------------------- MODULE Device ------------------------------
(***************************************************************************)
(* device_service.c: the services the device says it has, and what the     *)
(* rest of the Device service tells, which no other service shows.         *)
(***************************************************************************)
EXTENDS MediaConf

Service(name) == Entry(Token("service", name), 0)

Always == {"device_service", "media_service", "events_service",
           "deviceio_service"}
Listed(c) ==
  Always \cup (IF c.ptz THEN {"ptz_service"} ELSE {})
         \cup (IF c.imaging THEN {"imaging_service"} ELSE {})

\* the first profile is read without a look at their number
Encodes(c) ==
  \/ EncoderAt(c, 1) # "NONE"
  \/ c.num = 2 /\ EncoderAt(c, 2) # "NONE"

EventFlags(c) ==
  {Count("pullpoint", OneIf(c.events_enable \in {"pull", "both"})),
   Count("basesubscription", OneIf(c.events_enable \in {"base", "both"}))}
\* mutant: the greatest index instead of the number
IoCountsLast(c) ==
  {Count("audio_sources", OneIf(Encodes(c))),
   Count("audio_outputs", OneIf(c.output_enabled)),
   Count("relay_outputs", Len(c.relays) - 1)}
IoCounts(c) ==
  {Count("audio_sources", OneIf(Encodes(c))),
   Count("audio_outputs", OneIf(c.output_enabled)),
   Count("relay_outputs", Len(c.relays))}

GetServices(c, ask) ==
  IF ~ c.address THEN Fault("ActionFailed")
  ELSE NeedsFirst(c, Ok(
         {Service(s) : s \in Listed(c) \cup IF c.media2 THEN {"media2_service"}
                                            ELSE {}}
         \cup IF "capabilities" \in ask.words THEN EventFlags(c) \cup IoCounts(c)
              ELSE {}))

Categories == {"Device", "Media", "PTZ", "Events", "Imaging", "All"}
GetCapabilities(c, ask) ==
  LET category == IF ask.words = {} THEN "All" ELSE CHOOSE w \in ask.words : TRUE
      one(name) == NeedsFirst(c, Ok({Service(name)}))
      noSuch == NeedsFirst(c, Fault("NoSuchService"))
  IN IF ~ c.address THEN Fault("ActionFailed")
     ELSE CASE category = "Device" -> one("device_service")
            [] category = "Media" -> one("media_service")
            [] category = "PTZ" -> IF c.ptz THEN one("ptz_service") ELSE noSuch
            [] category = "Imaging" ->
                 IF c.imaging THEN one("imaging_service") ELSE noSuch
            [] category = "Events" ->
                 NeedsFirst(c, Ok({Service("events_service")} \cup EventFlags(c)))
            [] category = "All" ->
                 NeedsFirst(c, Ok({Service(s) : s \in Listed(c)}
                                  \cup EventFlags(c) \cup IoCounts(c)))
            [] OTHER -> Fault("NoSuchService")

\* two methods tell the address
TellsAddress(c, what) ==
  IF c.address THEN Ok({Info(what)}) ELSE Fault("ActionFailed")
GetEndpointReference(c, ask) == TellsAddress(c, "address")
GetNetworkInterfaces(c, ask) == TellsAddress(c, "network")

\* the user name is one of the words of the request
CreateUsers(c, ask) == Fault("TooManyUsers")
DeleteUsers(c, ask) ==
  IF ask.words = {} THEN Fault("UsernameMissing") ELSE Done

\* and these what the kernel, the configuration or the system files say
Told == [GetDeviceInformation |-> "information", GetSystemDateAndTime |-> "time",
         GetScopes |-> "scopes", GetHostname |-> "hostname",
         GetNetworkProtocols |-> "protocols", GetNTP |-> "ntp"]
Tell(c, method) == Ok({Info(Told[method])})

\* a fixed text, an empty list, or the word that it was done
Plain(c, ask) == Done

Unsupported(c, ask) ==
  IF c.fault_if_unknown THEN Fault("ActionFailed") ELSE Done

(* The entries of the dispatch table.                                      *)
PlainMethods ==
  {"GetServiceCapabilities", "SetSystemDateAndTime", "SystemReboot", "GetUsers",
   "SetUser", "GetWsdlUrl", "GetDiscoveryMode"}
Methods == PlainMethods \cup DOMAIN Told
           \cup {"GetEndpointReference", "GetNetworkInterfaces", "GetServices",
                 "GetCapabilities", "CreateUsers", "DeleteUsers"}
Handle(c, method, ask) ==
  CASE method \in PlainMethods -> Plain(c, ask)
    [] method \in DOMAIN Told -> Tell(c, method)
    [] method = "GetEndpointReference" -> GetEndpointReference(c, ask)
    [] method = "GetNetworkInterfaces" -> GetNetworkInterfaces(c, ask)
    [] method = "GetServices" -> GetServices(c, ask)
    [] method = "GetCapabilities" -> GetCapabilities(c, ask)
    [] method = "CreateUsers" -> CreateUsers(c, ask)
    [] method = "DeleteUsers" -> DeleteUsers(c, ask)
    [] OTHER -> Unsupported(c, ask)
=============================================================================
