------------------------------- MODULE Media -------------------------------
(***************************************************************************)
(* media_service.c: what each handler of the Media service answers under   *)
(* the configuration c, when it is asked with the tokens of ask.  No       *)
(* handler changes anything: every request is served by a new process that *)
(* reads the configuration, answers and ends.                              *)
(***************************************************************************)
EXTENDS MediaConf

AudioOutputAvailable(c) == c.output_enabled /\ Decoding(c) # {}
IfOutputs(c, answer) == IF AudioOutputAvailable(c) THEN answer ELSE NoOutputs

-----------------------------------------------------------------------------
(* Video sources and audio sources.                                        *)

GetServiceCapabilities(c, ask) == Done
GetVideoSources(c, ask) == NeedsFirst(c, Ok({Entry(VideoSource, 1)}))
GetVideoSourceConfigurations(c, ask) == NeedsFirst(c, Ok(VideoSourceEntries))
GetCompatibleVideoSourceConfigurations(c, ask) ==
  NeedsFirst(c, Ok(VideoSourceEntries))

GetVideoSourceConfiguration(c, ask) ==
  IF Says(ask.config, "VideoSourceConfigToken")
  THEN NeedsFirst(c, Ok(VideoSourceEntries)) ELSE NoConfig

GetVideoSourceConfigurationOptions(c, ask) ==
  LET text == ProfileFirst(ask, FirstName(c))
      options == Ok({Entry(VideoSource, 1)})
  IN NeedsFirst(c, Pick(c, Bold(c), text, <<options, options>>,
                        IF text = "VideoSourceConfigToken" THEN options
                        ELSE NoConfig))

GetAudioSources(c, ask) ==
  IF Encoding(c) = {} THEN NoAudio ELSE Ok({Entry(AudioSource, 0)})

GetAudioSourceConfigurations(c, ask) ==
  IF Encoding(c) = {} THEN NoAudio ELSE Ok(AudioSourceEntries)

GetAudioSourceConfiguration(c, ask) ==
  IF Says(ask.config, "AudioSourceConfigToken")
  THEN GetAudioSourceConfigurations(c, ask) ELSE NoConfig

GetAudioSourceConfigurationOptions(c, ask) ==
  LET text == ProfileFirst(ask, FirstName(c))
  IN IF text = Null THEN Crashed
     ELSE IF Encoding(c) = {} THEN NoAudio
     ELSE IF ask.profile = Null /\ ask.config = Null THEN Done
     ELSE Pick(c, Bold(c), text, <<Done, Done>>,
               IF text = "AudioSourceConfigToken" THEN Done ELSE NoConfig)

GetCompatibleAudioSourceConfigurations(c, ask) ==
  LET text == Whole(ask.profile)
      i == Find(c, Bold(c), text)
      source == \E j \in 1 .. Bold(c) :
                   NameAt(c, j) = text /\ EncoderAt(c, j) # "NONE"
  IN IF ask.profile = Null THEN NoProfile
     ELSE IF i = Null THEN Crashed
     ELSE IF i # 0 /\ source THEN Ok(AudioSourceEntries) ELSE NoAudio

-----------------------------------------------------------------------------
(* Profiles.                                                               *)

\* the parts of profile i; name is the text its token and the one of its
\* video encoder start with
Block(c, i, name) ==
  {Profile(i, name), Vec(i, name)} \cup VideoSourceEntries
  \cup (IF EncoderAt(c, i) = "NONE" THEN {}
        ELSE AudioSourceEntries \cup {Aec(c, i, Fixed(i))})
  \cup (IF c.ptz THEN {Entry(PtzConfig, 0)} ELSE {})
  \cup (IF AudioOutputAvailable(c) THEN OutputEntries(c) ELSE {})

\* mutant: the names the other way round
GetProfilesSwapped(c, ask) ==
  Ok(UNION {Block(c, i, Fixed(3 - i)) : i \in Present(c)})
GetProfiles(c, ask) == Ok(UNION {Block(c, i, Fixed(i)) : i \in Present(c)})

GetProfile(c, ask) ==
  IF ask.profile = Null THEN NoProfile
  ELSE Pick(c, Guarded(c), Whole(ask.profile),
            [i \in Present(c) |-> Ok(Block(c, i, ask.profile.of))], NoProfile)

CreateProfile(c, ask) ==
  Fault(IF c.fault_if_unknown THEN "ActionFailed" ELSE "MaxNVTProfiles")
DeleteProfile(c, ask) == Fault("DeletionOfFixedProfile")

GetSnapshotUri(c, ask) ==
  IF ask.profile = Null THEN NoProfile
  ELSE Pick(c, Bold(c), Whole(ask.profile),
            [i \in Present(c) |-> IF c.profiles[i].snapurl THEN Ok({Shown(i)})
                                  ELSE Incomplete], NoProfile)

GetStreamUri(c, ask) ==
  IF ask.profile = Null THEN NoProfile
  ELSE Pick(c, Bold(c), Whole(ask.profile),
            [i \in Present(c) |-> Ok({Shown(i)})], NoProfile)

-----------------------------------------------------------------------------
(* Video encoders.                                                         *)

GetVideoEncoderConfigurations(c, ask) ==
  IF c.num = 0 THEN NoConfig ELSE Ok({Vec(i, Fixed(i)) : i \in Present(c)})

GetVideoEncoderConfiguration(c, ask) ==
  IF ask.config = Null THEN NoConfig
  ELSE Pick(c, Bold(c), Cut(ask.config),
            [i \in Present(c) |-> Ok({Vec(i, Cut(ask.config))})], NoConfig)

GetCompatibleVideoEncoderConfigurations(c, ask) ==
  IF ask.profile = Null THEN NoProfile
  ELSE Pick(c, Bold(c), Whole(ask.profile),
            [i \in Present(c) |-> Ok({Vec(i, ask.profile.of)})], NoProfile)

GetVideoEncoderConfigurationOptions(c, ask) ==
  Pick(c, Guarded(c), ConfigFirst(ask, FirstName(c)),
       [i \in Present(c) |-> Ok({Shown(i)})], NoProfile)

GetGuaranteedNumberOfVideoEncoderInstances(c, ask) ==
  IF ask.config = Null THEN Crashed
  ELSE IF Says(ask.config, "VideoSourceConfigToken") THEN Done ELSE NoConfig

-----------------------------------------------------------------------------
(* Audio encoders and decoders.                                            *)

GetAudioEncoderConfigurations(c, ask) ==
  IF Encoding(c) = {} THEN NoAudio
  ELSE Ok({Aec(c, i, Fixed(i)) : i \in Encoding(c)})

GetAudioEncoderConfiguration(c, ask) ==
  IF ask.config = Null THEN NoConfig
  ELSE Pick(c, Bold(c), Cut(ask.config),
            [i \in Present(c) |->
               IF EncoderAt(c, i) = "NONE" THEN NoAudio
               ELSE Ok({Aec(c, i, Cut(ask.config))})], NoConfig)

GetCompatibleAudioEncoderConfigurations(c, ask) ==
  IF ask.profile = Null THEN NoProfile
  ELSE Pick(c, Bold(c), Whole(ask.profile),
            [i \in Present(c) |->
               IF EncoderAt(c, i) = "NONE" THEN NoAudio
               ELSE Ok({Aec(c, i, ask.profile.of)})], NoProfile)

\* "G726 is not suppoerted"
Offered(codec) == codec \notin {"NONE", "G726"}
EncodingOptions(c) ==
  [i \in Present(c) |->
     IF Offered(EncoderAt(c, i)) THEN Ok({Coded(Null, i, EncoderAt(c, i))})
     ELSE NoAudio]

GetAudioEncoderConfigurationOptions(c, ask) ==
  LET first == CHOOSE i \in Encoding(c) : \A j \in Encoding(c) : i <= j
      default == CutName(NameAt(c, first))
  IN IF ask.profile = Null /\ ask.config = Null /\ Encoding(c) = {}
     THEN NoAudio
     ELSE Pick(c, Guarded(c), ConfigFirst(ask, default), EncodingOptions(c),
               NoProfile)

GetAudioDecoderConfigurations(c, ask) ==
  IF c.num = 0 THEN Silent
  ELSE IF Decoding(c) = {} THEN NoDecoding
  ELSE Ok({Adec(i, Fixed(i)) : i \in Decoding(c)})

GetAudioDecoderConfiguration(c, ask) ==
  IF ask.config = Null THEN NoConfig
  ELSE Pick(c, Bold(c), Cut(ask.config),
            [i \in Present(c) |->
               IF DecoderAt(c, i) = "NONE" THEN NoDecoding
               ELSE Ok({Adec(i, Cut(ask.config))})], NoConfig)

GetCompatibleAudioDecoderConfigurations(c, ask) ==
  IF ask.profile = Null THEN NoProfile
  ELSE Pick(c, Bold(c), Whole(ask.profile),
            [i \in Present(c) |->
               IF DecoderAt(c, i) = "NONE" THEN NoDecoding
               ELSE Ok({Adec(i, ask.profile.of)})], NoProfile)

\* decoder_type is set only when a profile is found
DecodingOptions(codec, i) ==
  IF Offered(codec) THEN Ok({Coded(Null, i, codec)}) ELSE NoDecoding
GetAudioDecoderConfigurationOptions(c, ask) ==
  Pick(c, Bold(c), ConfigFirst(ask, FirstName(c)),
       [i \in Present(c) |-> DecodingOptions(DecoderAt(c, i), i)],
       DecodingOptions(c.junk.codec, 0))

-----------------------------------------------------------------------------
(* Audio outputs: the tokens of the requests are ignored.                  *)

GetAudioOutputs(c, ask) == IfOutputs(c, Ok({Entry(AudioOutput, 0)}))
GetAudioOutputConfiguration(c, ask) == IfOutputs(c, Ok(OutputEntries(c)))
GetAudioOutputConfigurations(c, ask) == IfOutputs(c, Ok(OutputEntries(c)))
GetCompatibleAudioOutputConfigurations(c, ask) ==
  IfOutputs(c, Ok(OutputEntries(c)))
GetAudioOutputConfigurationOptions(c, ask) ==
  IfOutputs(c, Ok({Entry(AudioOutput, 0)}))

-----------------------------------------------------------------------------
(* Nothing can be set.                                                     *)

Fixedly(token, text) == IF Says(token, text) THEN ConfigModify ELSE NoConfig

SetVideoSourceConfiguration(c, ask) ==
  Fixedly(ask.config, "VideoSourceConfigToken")
SetAudioSourceConfiguration(c, ask) ==
  Fixedly(ask.config, "AudioSourceConfigToken")
SetAudioOutputConfiguration(c, ask) ==
  Fixedly(ask.config, "AudioOutputConfigToken")
SetVideoEncoderConfiguration(c, ask) == ConfigModify
SetAudioEncoderConfiguration(c, ask) == ConfigModify
SetMetadataConfiguration(c, ask) ==
  IF c.fault_if_set THEN ConfigModify ELSE Done

\* the lists and options of metadata, and what may be added to a profile or
\* removed from one: an empty answer
GetMetadata(c, ask) == Done
GetMetadataConfiguration(c, ask) == NoConfig
AddOrRemove(c, ask) == Done
StartMulticastStreaming(c, ask) == Fault("InvalidMulticastSettings")
StopMulticastStreaming(c, ask) == Done
SetSynchronizationPoint(c, ask) == Done

Unsupported(c, ask) ==
  IF c.fault_if_unknown THEN Fault("ActionFailed") ELSE Done

(* The entries of the dispatch table.  A Set method is there only when the *)
(* configuration asks for faults; without its entry it is unsupported.     *)
GetMetadataMethods ==
  {"GetMetadataConfigurations", "GetCompatibleMetadataConfigurations",
   "GetMetadataConfigurationOptions"}
ProfileMethods ==
  {"AddVideoEncoderConfiguration", "AddVideoSourceConfiguration",
   "AddAudioEncoderConfiguration", "AddAudioSourceConfiguration",
   "AddPTZConfiguration", "RemoveVideoEncoderConfiguration",
   "RemoveVideoSourceConfiguration", "RemoveAudioEncoderConfiguration",
   "RemoveAudioSourceConfiguration", "RemovePTZConfiguration"}
SetMethods ==
  {"SetVideoSourceConfiguration", "SetAudioSourceConfiguration",
    "SetAudioOutputConfiguration", "SetVideoEncoderConfiguration",
    "SetAudioEncoderConfiguration", "SetMetadataConfiguration"}
GetMethods ==
  {"GetServiceCapabilities", "GetVideoSources",
    "GetVideoSourceConfigurations",
    "GetCompatibleVideoSourceConfigurations", "GetVideoSourceConfiguration",
    "GetVideoSourceConfigurationOptions", "GetAudioSources",
    "GetAudioSourceConfigurations", "GetAudioSourceConfiguration",
    "GetAudioSourceConfigurationOptions",
    "GetCompatibleAudioSourceConfigurations", "GetProfiles", "GetProfile",
    "CreateProfile", "DeleteProfile", "GetSnapshotUri", "GetStreamUri",
    "GetVideoEncoderConfigurations", "GetVideoEncoderConfiguration",
    "GetCompatibleVideoEncoderConfigurations",
    "GetVideoEncoderConfigurationOptions",
    "GetGuaranteedNumberOfVideoEncoderInstances",
    "GetAudioEncoderConfigurations", "GetAudioEncoderConfiguration",
    "GetCompatibleAudioEncoderConfigurations",
    "GetAudioEncoderConfigurationOptions", "GetAudioDecoderConfigurations",
    "GetAudioDecoderConfiguration",
    "GetCompatibleAudioDecoderConfigurations",
    "GetAudioDecoderConfigurationOptions", "GetAudioOutputs",
    "GetAudioOutputConfiguration", "GetAudioOutputConfigurations",
    "GetCompatibleAudioOutputConfigurations",
    "GetAudioOutputConfigurationOptions", "GetMetadataConfiguration",
    "StartMulticastStreaming", "StopMulticastStreaming",
    "SetSynchronizationPoint"}
Methods == GetMetadataMethods \cup ProfileMethods \cup SetMethods
           \cup GetMethods
Handle(c, method, ask) ==
  IF method \in SetMethods /\ ~ c.fault_if_set
  THEN Unsupported(c, ask)
  ELSE CASE method \in GetMetadataMethods -> GetMetadata(c, ask)
         [] method \in ProfileMethods -> AddOrRemove(c, ask)
         [] method = "SetVideoSourceConfiguration" ->
              SetVideoSourceConfiguration(c, ask)
         [] method = "SetAudioSourceConfiguration" ->
              SetAudioSourceConfiguration(c, ask)
         [] method = "SetAudioOutputConfiguration" ->
              SetAudioOutputConfiguration(c, ask)
         [] method = "SetVideoEncoderConfiguration" ->
              SetVideoEncoderConfiguration(c, ask)
         [] method = "SetAudioEncoderConfiguration" ->
              SetAudioEncoderConfiguration(c, ask)
         [] method = "SetMetadataConfiguration" -> SetMetadataConfiguration(c, ask)
         [] method = "GetServiceCapabilities" -> GetServiceCapabilities(c, ask)
         [] method = "GetVideoSources" -> GetVideoSources(c, ask)
         [] method = "GetVideoSourceConfigurations" ->
              GetVideoSourceConfigurations(c, ask)
         [] method = "GetCompatibleVideoSourceConfigurations" ->
              GetCompatibleVideoSourceConfigurations(c, ask)
         [] method = "GetVideoSourceConfiguration" ->
              GetVideoSourceConfiguration(c, ask)
         [] method = "GetVideoSourceConfigurationOptions" ->
              GetVideoSourceConfigurationOptions(c, ask)
         [] method = "GetAudioSources" -> GetAudioSources(c, ask)
         [] method = "GetAudioSourceConfigurations" ->
              GetAudioSourceConfigurations(c, ask)
         [] method = "GetAudioSourceConfiguration" ->
              GetAudioSourceConfiguration(c, ask)
         [] method = "GetAudioSourceConfigurationOptions" ->
              GetAudioSourceConfigurationOptions(c, ask)
         [] method = "GetCompatibleAudioSourceConfigurations" ->
              GetCompatibleAudioSourceConfigurations(c, ask)
         [] method = "GetProfiles" -> GetProfiles(c, ask)
         [] method = "GetProfile" -> GetProfile(c, ask)
         [] method = "CreateProfile" -> CreateProfile(c, ask)
         [] method = "DeleteProfile" -> DeleteProfile(c, ask)
         [] method = "GetSnapshotUri" -> GetSnapshotUri(c, ask)
         [] method = "GetStreamUri" -> GetStreamUri(c, ask)
         [] method = "GetVideoEncoderConfigurations" ->
              GetVideoEncoderConfigurations(c, ask)
         [] method = "GetVideoEncoderConfiguration" ->
              GetVideoEncoderConfiguration(c, ask)
         [] method = "GetCompatibleVideoEncoderConfigurations" ->
              GetCompatibleVideoEncoderConfigurations(c, ask)
         [] method = "GetVideoEncoderConfigurationOptions" ->
              GetVideoEncoderConfigurationOptions(c, ask)
         [] method = "GetGuaranteedNumberOfVideoEncoderInstances" ->
              GetGuaranteedNumberOfVideoEncoderInstances(c, ask)
         [] method = "GetAudioEncoderConfigurations" ->
              GetAudioEncoderConfigurations(c, ask)
         [] method = "GetAudioEncoderConfiguration" ->
              GetAudioEncoderConfiguration(c, ask)
         [] method = "GetCompatibleAudioEncoderConfigurations" ->
              GetCompatibleAudioEncoderConfigurations(c, ask)
         [] method = "GetAudioEncoderConfigurationOptions" ->
              GetAudioEncoderConfigurationOptions(c, ask)
         [] method = "GetAudioDecoderConfigurations" ->
              GetAudioDecoderConfigurations(c, ask)
         [] method = "GetAudioDecoderConfiguration" ->
              GetAudioDecoderConfiguration(c, ask)
         [] method = "GetCompatibleAudioDecoderConfigurations" ->
              GetCompatibleAudioDecoderConfigurations(c, ask)
         [] method = "GetAudioDecoderConfigurationOptions" ->
              GetAudioDecoderConfigurationOptions(c, ask)
         [] method = "GetAudioOutputs" -> GetAudioOutputs(c, ask)
         [] method = "GetAudioOutputConfiguration" ->
              GetAudioOutputConfiguration(c, ask)
         [] method = "GetAudioOutputConfigurations" ->
              GetAudioOutputConfigurations(c, ask)
         [] method = "GetCompatibleAudioOutputConfigurations" ->
              GetCompatibleAudioOutputConfigurations(c, ask)
         [] method = "GetAudioOutputConfigurationOptions" ->
              GetAudioOutputConfigurationOptions(c, ask)
         [] method = "GetMetadataConfiguration" -> GetMetadataConfiguration(c, ask)
         [] method = "StartMulticastStreaming" -> StartMulticastStreaming(c, ask)
         [] method = "StopMulticastStreaming" -> StopMulticastStreaming(c, ask)
         [] method = "SetSynchronizationPoint" -> SetSynchronizationPoint(c, ask)
         [] OTHER -> Unsupported(c, ask)
=============================================================================
