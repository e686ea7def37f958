------------------------------- MODULE Media2 -----------------------------
(***************************************************************************)
(* media2_service.c: what each handler of the Media2 service answers under *)
(* the configuration c, when it is asked with the tokens of ask.  As in    *)
(* Media, nothing is changed by a request.                                 *)
(***************************************************************************)
EXTENDS MediaConf

AudioOutputSupported(c) == c.output_enabled /\ Decoding(c) # {}

\* the first two names are compared without a look at the number of profiles
FirstTwo == 2

\* a handler that takes either token, and the fixed one as well
Either(c, n, text, fixed, answer) ==
  Pick(c, n, text, <<answer, answer>>, IF text = fixed THEN answer ELSE NoConfig)

\* the name of the first profile of the set
FirstNameOf(c, profiles) ==
  CutName(NameAt(c, CHOOSE i \in profiles : \A j \in profiles : i <= j))

NothingAsked(ask) == ask.profile = Null /\ ask.config = Null

-----------------------------------------------------------------------------
(* Profiles.                                                               *)

GetServiceCapabilities(c, ask) == NeedsFirst(c, Done)

(* The requested types select the parts of a profile.  The size and rates  *)
(* of its video encoder and the codec of its audio encoder are those of    *)
(* profile "valuesOf".                                                     *)
Types == {"VideoSource", "AudioSource", "VideoEncoder", "AudioEncoder", "PTZ",
          "AudioOutput", "AudioDecoder"}
If(condition, entries) == IF condition THEN entries ELSE {}
\* mutant: the encoder of the first profile decides
BlockOfFirst(c, i, types, valuesOf) ==
  {Profile(i, Fixed(i))}
  \cup If("VideoSource" \in types, VideoSourceEntries)
  \cup If("AudioSource" \in types /\ Encoding(c) # {}, AudioSourceEntries)
  \cup If("VideoEncoder" \in types, {Vec(valuesOf, Fixed(i))})
  \cup If("AudioEncoder" \in types /\ 1 \in Encoding(c),
          {Aec(c, valuesOf, Fixed(i))})
  \cup If("PTZ" \in types /\ c.ptz, {Entry(PtzConfig, 0)})
  \cup If("AudioOutput" \in types /\ i \in Decoding(c) /\ c.output_enabled,
          OutputEntries(c))
  \cup If("AudioDecoder" \in types /\ i \in Decoding(c), {Adec(i, Fixed(i))})
Block(c, i, types, valuesOf) ==
  {Profile(i, Fixed(i))}
  \cup If("VideoSource" \in types, VideoSourceEntries)
  \cup If("AudioSource" \in types /\ Encoding(c) # {}, AudioSourceEntries)
  \cup If("VideoEncoder" \in types, {Vec(valuesOf, Fixed(i))})
  \cup If("AudioEncoder" \in types /\ i \in Encoding(c),
          {Aec(c, valuesOf, Fixed(i))})
  \cup If("PTZ" \in types /\ c.ptz, {Entry(PtzConfig, 0)})
  \cup If("AudioOutput" \in types /\ i \in Decoding(c) /\ c.output_enabled,
          OutputEntries(c))
  \cup If("AudioDecoder" \in types /\ i \in Decoding(c), {Adec(i, Fixed(i))})

\* asked for one profile, its encoders have the values of the first one
GetProfiles(c, ask) ==
  IF c.num = 0 THEN Ok({})
  ELSE IF ask.profile = Null
  THEN Ok(UNION {Block(c, i, ask.words, i) : i \in Present(c)})
  ELSE Pick(c, Guarded(c), Whole(ask.profile),
            [i \in Present(c) |-> Ok(Block(c, i, ask.words, 1))], NoProfile)

CreateProfile(c, ask) == Fault("MaxNVTProfiles")
DeleteProfile(c, ask) == Fault("DeletionOfFixedProfile")
AddOrRemoveConfiguration(c, ask) == Done
SetSynchronizationPoint(c, ask) == Done

GetSnapshotUri(c, ask) ==
  IF ask.profile = Null THEN NoProfile
  ELSE Pick(c, Guarded(c), Whole(ask.profile),
            [i \in Present(c) |-> IF c.profiles[i].snapurl THEN Ok({Shown(i)})
                                  ELSE Incomplete], NoProfile)

GetStreamUri(c, ask) ==
  IF ask.profile = Null THEN NoProfile
  ELSE Pick(c, Bold(c), Whole(ask.profile),
            [i \in Present(c) |-> Ok({Shown(i)})], NoProfile)

-----------------------------------------------------------------------------
(* Video.                                                                  *)

\* ask.config is the token of a video source here
GetVideoSourceModes(c, ask) ==
  IF ask.config = Null THEN Crashed
  ELSE IF Says(ask.config, "VideoSourceToken")
  THEN NeedsFirst(c, Ok({Shown(1)})) ELSE Fault("NoVideoSource")

GetVideoSourceConfigurations(c, ask) ==
  NeedsFirst(c, Either(c, FirstTwo, ProfileFirst(ask, FirstNameIfAny(c)),
                       "VideoSourceConfigToken", Ok(VideoSourceEntries)))
GetVideoSourceConfigurationOptions(c, ask) ==
  NeedsFirst(c, Either(c, FirstTwo, ProfileFirst(ask, FirstNameIfAny(c)),
                       "VideoSourceConfigToken", Ok({Entry(VideoSource, 1)})))

GetVideoEncoderConfigurations(c, ask) ==
  IF NothingAsked(ask)
  THEN IF c.num = 0 THEN Silent ELSE Ok({Vec(i, Fixed(i)) : i \in Present(c)})
  ELSE Pick(c, Guarded(c), ConfigFirst(ask, "*"),
            [i \in Present(c) |-> Ok({Vec(i, Fixed(i))})], NoProfile)

GetVideoEncoderConfigurationOptions(c, ask) ==
  Pick(c, Guarded(c), ConfigFirst(ask, FirstNameIfAny(c)),
       [i \in Present(c) |-> Ok({Shown(i)})], NoProfile)

GetVideoEncoderInstances(c, ask) == Done

-----------------------------------------------------------------------------
(* Audio sources and encoders.                                             *)

GetAudioSourceConfigurations(c, ask) ==
  NeedsFirst(c, Either(c, FirstTwo, ProfileFirst(ask, FirstNameIfAny(c)),
                       "AudioSourceConfigToken",
                       IF Encoding(c) = {} THEN NoAudio
                       ELSE Ok(AudioSourceEntries)))

GetAudioSourceConfigurationOptions(c, ask) ==
  IF Encoding(c) = {} THEN NoAudio
  ELSE Either(c, Guarded(c), ProfileFirst(ask, FirstNameOf(c, Encoding(c))),
              "AudioSourceConfigToken", Done)

\* without profiles the first one is read all the same
GetAudioEncoderConfigurations(c, ask) ==
  IF c.profiles = <<>> THEN Crashed
  ELSE IF c.num # 1 /\ Encoding(c) = {}
          /\ (c.num = 0 => EncoderAt(c, 1) = "NONE") THEN NoAudio
  ELSE IF NothingAsked(ask)
  THEN IF c.num = 0 THEN Silent
       ELSE IF Encoding(c) = {} THEN NoAudio
       ELSE Ok({Aec(c, i, Fixed(i)) : i \in Encoding(c)})
  ELSE Pick(c, Guarded(c), ConfigFirst(ask, "*"),
            [i \in Present(c) |-> IF i \notin Encoding(c) THEN NoAudio
                                  ELSE Ok({Aec(c, i, Fixed(i))})], NoProfile)

\* "G726 is not suppoerted"
Offered(codec) == codec \notin {"NONE", "G726"}

GetAudioEncoderConfigurationOptions(c, ask) ==
  IF NothingAsked(ask) /\ Encoding(c) = {} THEN NoAudio
  ELSE Pick(c, Guarded(c), ConfigFirst(ask, FirstNameOf(c, Encoding(c))),
            [i \in Present(c) |->
               IF Offered(EncoderAt(c, i))
               THEN Ok({Coded(Null, i, EncoderAt(c, i))}) ELSE NoAudio],
            NoProfile)

-----------------------------------------------------------------------------
(* Audio outputs and decoders.                                             *)

GetAudioOutputConfigurations(c, ask) ==
  NeedsFirst(c, Either(c, FirstTwo, ProfileFirst(ask, FirstNameIfAny(c)),
                       "AudioOutputConfigToken",
                       IF AudioOutputSupported(c) THEN Ok(OutputEntries(c))
                       ELSE NoOutputs))

GetAudioOutputConfigurationOptions(c, ask) ==
  IF ~ AudioOutputSupported(c) THEN NoOutputs
  ELSE Either(c, Guarded(c), ProfileFirst(ask, FirstNameOf(c, Decoding(c))),
              "AudioOutputConfigToken", Ok({Entry(AudioOutput, 0)}))

GetAudioDecoderConfigurations(c, ask) ==
  IF NothingAsked(ask)
  THEN IF c.num = 0 THEN Silent
       ELSE IF Decoding(c) = {} THEN NoDecoding
       ELSE Ok({Adec(i, Fixed(i)) : i \in Decoding(c)})
  ELSE Pick(c, Guarded(c), ConfigFirst(ask, "*"),
            [i \in Present(c) |-> IF i \notin Decoding(c) THEN NoDecoding
                                  ELSE Ok({Adec(i, Fixed(i))})], NoConfig)

GetAudioDecoderConfigurationOptions(c, ask) ==
  IF NothingAsked(ask) /\ Decoding(c) = {} THEN NoDecoding
  ELSE Pick(c, Guarded(c), ConfigFirst(ask, FirstNameOf(c, Decoding(c))),
            [i \in Present(c) |->
               IF Offered(DecoderAt(c, i))
               THEN Ok({Coded(Null, i, DecoderAt(c, i))}) ELSE NoDecoding],
            NoDecoding)

-----------------------------------------------------------------------------
(* Nothing can be set.                                                     *)

Fixedly(token, text) == IF Says(token, text) THEN ConfigModify ELSE NoConfig

SetVideoSourceConfiguration(c, ask) ==
  Fixedly(ask.config, "VideoSourceConfigToken")
SetAudioSourceConfiguration(c, ask) ==
  Fixedly(ask.config, "AudioSourceConfigToken")
SetAudioOutputConfiguration(c, ask) ==
  Fixedly(ask.config, "AudioOutputConfigToken")
SetVideoEncoderConfiguration(c, ask) == ConfigModify
SetAudioEncoderConfiguration(c, ask) == ConfigModify

Unsupported(c, ask) ==
  IF c.fault_if_unknown THEN Fault("ActionFailed") ELSE Done

(* The entries of the dispatch table.  Each needs the service to be        *)
(* enabled, but for the Set methods, which need the flag for faults.       *)
SetMethods ==
  {"SetVideoSourceConfiguration", "SetAudioSourceConfiguration",
    "SetAudioOutputConfiguration", "SetVideoEncoderConfiguration",
    "SetAudioEncoderConfiguration"}
ProfileMethods == {"AddConfiguration", "RemoveConfiguration"}
GetMethods ==
  {"GetServiceCapabilities", "GetProfiles", "CreateProfile",
    "DeleteProfile", "SetSynchronizationPoint", "GetSnapshotUri",
    "GetStreamUri", "GetVideoSourceModes", "GetVideoSourceConfigurations",
    "GetVideoSourceConfigurationOptions", "GetVideoEncoderConfigurations",
    "GetVideoEncoderConfigurationOptions", "GetVideoEncoderInstances",
    "GetAudioSourceConfigurations", "GetAudioSourceConfigurationOptions",
    "GetAudioEncoderConfigurations", "GetAudioEncoderConfigurationOptions",
    "GetAudioOutputConfigurations", "GetAudioOutputConfigurationOptions",
    "GetAudioDecoderConfigurations", "GetAudioDecoderConfigurationOptions"}
Methods == SetMethods \cup ProfileMethods \cup GetMethods
Handle(c, method, ask) ==
  IF \/ method \in SetMethods /\ ~ c.fault_if_set
     \/ method \notin SetMethods /\ ~ c.media2
  THEN Unsupported(c, ask)
  ELSE CASE method \in ProfileMethods -> AddOrRemoveConfiguration(c, ask)
         [] method = "SetVideoSourceConfiguration" ->
              SetVideoSourceConfiguration(c, ask)
         [] method = "SetAudioSourceConfiguration" ->
              SetAudioSourceConfiguration(c, ask)
         [] method = "SetAudioOutputConfiguration" ->
              SetAudioOutputConfiguration(c, ask)
         [] method = "SetVideoEncoderConfiguration" ->
              SetVideoEncoderConfiguration(c, ask)
         [] method = "SetAudioEncoderConfiguration" ->
              SetAudioEncoderConfiguration(c, ask)
         [] method = "GetServiceCapabilities" -> GetServiceCapabilities(c, ask)
         [] method = "GetProfiles" -> GetProfiles(c, ask)
         [] method = "CreateProfile" -> CreateProfile(c, ask)
         [] method = "DeleteProfile" -> DeleteProfile(c, ask)
         [] method = "SetSynchronizationPoint" -> SetSynchronizationPoint(c, ask)
         [] method = "GetSnapshotUri" -> GetSnapshotUri(c, ask)
         [] method = "GetStreamUri" -> GetStreamUri(c, ask)
         [] method = "GetVideoSourceModes" -> GetVideoSourceModes(c, ask)
         [] method = "GetVideoSourceConfigurations" ->
              GetVideoSourceConfigurations(c, ask)
         [] method = "GetVideoSourceConfigurationOptions" ->
              GetVideoSourceConfigurationOptions(c, ask)
         [] method = "GetVideoEncoderConfigurations" ->
              GetVideoEncoderConfigurations(c, ask)
         [] method = "GetVideoEncoderConfigurationOptions" ->
              GetVideoEncoderConfigurationOptions(c, ask)
         [] method = "GetVideoEncoderInstances" -> GetVideoEncoderInstances(c, ask)
         [] method = "GetAudioSourceConfigurations" ->
              GetAudioSourceConfigurations(c, ask)
         [] method = "GetAudioSourceConfigurationOptions" ->
              GetAudioSourceConfigurationOptions(c, ask)
         [] method = "GetAudioEncoderConfigurations" ->
              GetAudioEncoderConfigurations(c, ask)
         [] method = "GetAudioEncoderConfigurationOptions" ->
              GetAudioEncoderConfigurationOptions(c, ask)
         [] method = "GetAudioOutputConfigurations" ->
              GetAudioOutputConfigurations(c, ask)
         [] method = "GetAudioOutputConfigurationOptions" ->
              GetAudioOutputConfigurationOptions(c, ask)
         [] method = "GetAudioDecoderConfigurations" ->
              GetAudioDecoderConfigurations(c, ask)
         [] method = "GetAudioDecoderConfigurationOptions" ->
              GetAudioDecoderConfigurationOptions(c, ask)
         [] OTHER -> Unsupported(c, ask)
=============================================================================
