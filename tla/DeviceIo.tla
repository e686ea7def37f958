------------------------------ MODULE DeviceIo -----------------------------
(***************************************************************************)
(* deviceio_service.c: the sources, outputs and relays of the device.      *)
(***************************************************************************)
EXTENDS MediaConf

Encodes(c) ==
  \/ EncoderAt(c, 1) # "NONE"
  \/ c.num = 2 /\ EncoderAt(c, 2) # "NONE"

GetVideoSources(c, ask) == Ok({Entry(VideoSource, 0)})

GetServiceCapabilities(c, ask) ==
  NeedsFirst(c, Ok(
    {Entry(Token("count", "audio_sources"), IF Encodes(c) THEN 1 ELSE 0),
     Entry(Token("count", "audio_outputs"), IF c.output_enabled THEN 1 ELSE 0),
     Entry(Token("count", "relay_outputs"), Len(c.relays))}))

\* unlike the Media service, this one does not ask for a decoder
GetAudioOutputs(c, ask) ==
  IF c.output_enabled THEN Ok({Entry(AudioOutput, 0)}) ELSE NoOutputs

GetAudioSources(c, ask) ==
  NeedsFirst(c, Ok(IF Encodes(c) THEN {Entry(AudioSource, 0)} ELSE {}))

-----------------------------------------------------------------------------
(* Relays: shown and set by the configured token, described and            *)
(* configured by the default one.  The token of a request is ask.config.   *)

RelayIds(c) == 1 .. Len(c.relays)
RelayFault == Fault("RelayToken")

GetRelayOutputs(c, ask) == Ok({Entry(RelayToken(c, i), i) : i \in RelayIds(c)})

ByDefault(c, token) == {i \in RelayIds(c) : Says(token, DefaultRelay(i))}
GetRelayOutputOptions(c, ask) ==
  LET asked == IF ask.config = Null THEN RelayIds(c) ELSE ByDefault(c, ask.config)
  IN Ok({Entry(Token("relay", DefaultRelay(i)), i) : i \in asked})

\* the search starts at a node that was never set: junk.node says whether
\* the variable happens to be NULL, which is the whole request
SetRelayOutputSettings(c, ask) ==
  IF ~ c.junk.node THEN Crashed
  ELSE IF ByDefault(c, ask.config) = {} THEN RelayFault ELSE Done

ByToken(c, token) ==
  {i \in RelayIds(c) : Says(token, RelayToken(c, i).of)}
FirstAsked(c, ask) ==
  CHOOSE i \in ByToken(c, ask.config) : \A j \in ByToken(c, ask.config) : i <= j

\* the contact that the request wants, and the command for it
OtherThan(state) == IF state = "open" THEN "closed" ELSE "open"
\* mutant: idle when it should be active
WantedBack(relay, ask) ==
  IF "active" \in ask.words THEN relay.idle ELSE OtherThan(relay.idle)
Wanted(relay, ask) ==
  IF "active" \in ask.words THEN OtherThan(relay.idle) ELSE relay.idle
Command(relay, ask) ==
  IF Wanted(relay, ask) = "open" THEN relay.open ELSE relay.close

\* without a LogicalState, or with a command that is missing, a NULL pointer
\* is read
SetRelayOutputState(c, ask) ==
  IF ByToken(c, ask.config) = {} THEN RelayFault
  ELSE IF \/ ask.words = {}
          \/ Command(c.relays[FirstAsked(c, ask)], ask) = Null THEN Crashed
  ELSE Done

(* What an accepted request does to the contacts, if there is something to *)
(* run.                                                                    *)
Driven(c, ask, contact) ==
  LET i == FirstAsked(c, ask)
      relay == c.relays[i]
  IN IF Command(relay, ask) = "empty" THEN contact
     ELSE [contact EXCEPT ![i] = Wanted(relay, ask)]

Unsupported(c, ask) ==
  IF c.fault_if_unknown THEN Fault("ActionFailed") ELSE Done

Methods == {"GetVideoSources", "GetServiceCapabilities", "GetAudioOutputs",
            "GetAudioSources", "GetRelayOutputs", "GetRelayOutputOptions",
            "SetRelayOutputSettings", "SetRelayOutputState"}
Handle(c, method, ask) ==
  CASE method = "GetVideoSources" -> GetVideoSources(c, ask)
    [] method = "GetServiceCapabilities" -> GetServiceCapabilities(c, ask)
    [] method = "GetAudioOutputs" -> GetAudioOutputs(c, ask)
    [] method = "GetAudioSources" -> GetAudioSources(c, ask)
    [] method = "GetRelayOutputs" -> GetRelayOutputs(c, ask)
    [] method = "GetRelayOutputOptions" -> GetRelayOutputOptions(c, ask)
    [] method = "SetRelayOutputSettings" -> SetRelayOutputSettings(c, ask)
    [] method = "SetRelayOutputState" -> SetRelayOutputState(c, ask)
    [] OTHER -> Unsupported(c, ask)
=============================================================================
