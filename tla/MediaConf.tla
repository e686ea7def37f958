----------------------------- MODULE MediaConf -----------------------------
(***************************************************************************)
(* What the media services know: the part of the configuration that        *)
(* process_json_conf_file loads for them (conf.c), the tokens they print   *)
(* and compare, and the look-up of a profile by its name that every        *)
(* handler repeats.  The memory they look in is part of the model: the     *)
(* array of profiles may be NULL, may have an element that was emptied,    *)
(* and may be shorter than what a handler reads.                           *)
(***************************************************************************)
EXTENDS Integers, Sequences, FiniteSets, SequencesExt

CONSTANTS
  ShortNames,   \* names of streams of less than nine characters
  LongNames,    \* names of streams of more than nine characters
  OtherToken,   \* a token for the audio output that is not the default one
  RelayNames,   \* tokens of relays that the configuration chose
  MaxRelays,    \* MAX_RELAY_OUTPUTS
  MaxEvents,    \* MAX_EVENTS
  Null          \* a pointer without a value: no name, no token

(* The handlers print these two names for the first and the second profile *)
(* in the lists, whatever the names in the configuration are.              *)
Fixed(i) == IF i = 1 THEN "Profile_0" ELSE "Profile_1"
FixedNames == {"Profile_0", "Profile_1"}
Names == FixedNames \cup ShortNames \cup LongNames

Codecs == {"NONE", "G711", "G726", "AAC"}

(* An entry of "profiles" in the file.  The size stands for width times    *)
(* height.                                                                 *)
Stream == [name : Names \cup {Null}, size : Nat, rtsp : BOOLEAN,
           encoder : Codecs, decoder : Codecs, snapurl : BOOLEAN]

-----------------------------------------------------------------------------
(* process_json_conf_file                                                  *)

\* the streams that stay: those with an RTSP url, and at most two of them
WithUrl(streams) == {i \in DOMAIN streams : streams[i].rtsp}
Kept(streams) ==
  LET urls == WithUrl(streams)
      rest == urls \ {Min(urls)}
  IN IF urls = {} THEN <<>>
     ELSE IF rest = {} THEN <<streams[Min(urls)]>>
     ELSE <<streams[Min(urls)], streams[Min(rest)]>>

\* "Ensure the highest resolution profile is Profile_0 (Main Stream)"
Sorted(ps) ==
  IF Len(ps) = 2 /\ ps[2].size > ps[1].size THEN <<ps[2], ps[1]>> ELSE ps

\* free_stream_profile_strings
Emptied(s) == [s EXCEPT !.name = Null, !.snapurl = FALSE]

(* The array grows by one for each stream, and the count goes back for one *)
(* that is skipped.  A stream that is skipped last stays in it, emptied.   *)
Profiles(streams) ==
  LET kept == Kept(streams)
      skipped == /\ streams # <<>>
                 /\ ~ Last(streams).rtsp \/ Cardinality(WithUrl(streams)) > 2
  IN Sorted(kept) \o IF skipped THEN <<Emptied(Last(streams))>> ELSE <<>>

(* Relays.  One element is never used: the check refuses the last one.     *)
(* The commands that open and close a contact may be empty or missing.      *)
Commands == {"runs", "empty", Null}
Relay == [token : RelayNames \cup {Null}, idle : {"open", "closed"},
          open : Commands, close : Commands]
Relays(relays) ==
  SubSeq(relays, 1, IF Len(relays) < MaxRelays THEN Len(relays)
                    ELSE MaxRelays - 1)

(* Events, by their topics: one of three levels at most, one of more       *)
(* ("deep"), the empty text, or none.  Surplus events of the file are left *)
(* out; an event that a relay adds must find room, or the file is refused. *)
Topics == {"motion", "deep", "empty"}
EventsOf(n) == IF n > MaxEvents THEN MaxEvents ELSE n
Accepted(file) ==
  EventsOf(Len(file.topics)) + Len(Relays(file.relays)) <= MaxEvents
Events(file) ==
  SubSeq(file.topics, 1, EventsOf(Len(file.topics)))
    \o [i \in DOMAIN Relays(file.relays) |-> "relay"]

(* service_ctx, and the memory that the process finds as it is (junk):     *)
(* variables it never set, what is behind the array, and the table of      *)
(* subscriptions that other processes write.  The table may be absent, or  *)
(* not fit the request: full for one that needs a place in it, without the *)
(* subscription for one that names it.  Pending are the events that are    *)
(* marked in it for the subscription and that the client has room for.     *)
(* The interface that gives the device its address has a default name, but *)
(* need not be up.                                                         *)
Load(file, junk) ==
  [profiles |-> Profiles(file.streams), num |-> Len(Kept(file.streams)),
   relays |-> Relays(file.relays),
   output_enabled |-> file.output_enabled,
   aoc |-> IF file.aoc = Null THEN "AudioOutputConfigToken" ELSE file.aoc,
   ptz |-> file.ptz, imaging |-> file.imaging, media2 |-> file.media2,
   events |-> Events(file),
   events_enable |-> IF file.events_enable = "none" /\ Relays(file.relays) # <<>>
                     THEN "pull" ELSE file.events_enable,
   user |-> file.user, address |-> file.address,
   fault_if_unknown |-> file.fault_if_unknown, fault_if_set |-> file.fault_if_set,
   junk |-> junk]

-----------------------------------------------------------------------------
(* Tokens.  A token of a profile or of one of its encoders and decoders    *)
(* starts with the profile's name; the others are fixed, but for the one   *)
(* of the audio output configuration.                                      *)

Token(kind, of) == [kind |-> kind, of |-> of]
OfProfile == {"profile", "vec", "aec", "adec"}

VideoSource == Token("vs", "VideoSourceToken")
VideoSourceConfig == Token("vsc", "VideoSourceConfigToken")
AudioSource == Token("as", "AudioSourceToken")
AudioSourceConfig == Token("asc", "AudioSourceConfigToken")
AudioOutput == Token("ao", "AudioOutputToken")
AudioOutputConfig(c) == Token("aoc", c.aoc)
PtzConfig == Token("ptz", "PTZCfgToken")

\* the token of a relay, and the one it has when none is configured
DefaultRelay(i) == IF i = 1 THEN "RelayOutputToken_0" ELSE "RelayOutputToken_1"
RelayToken(c, i) ==
  Token("relay", IF c.relays[i].token = Null THEN DefaultRelay(i)
                 ELSE c.relays[i].token)

Stranger == Token("profile", "other")

(* The text of a token as the handlers compare it with names and fixed     *)
(* tokens: whole, which is also what is left of 22 characters, and nine    *)
(* characters of it.  "*" is a text that equals none of them.              *)
Whole(t) == IF t.kind \in OfProfile \ {"profile"} THEN "*" ELSE t.of
Cut(t) ==
  IF t.kind \in OfProfile /\ t.of \in FixedNames THEN t.of
  ELSE IF t.kind = "profile" /\ t.of \in ShortNames THEN t.of ELSE "*"
CutName(name) == IF name \in LongNames THEN "*" ELSE name

-----------------------------------------------------------------------------
(* Answers.  An entry is something that the answer shows: the token it     *)
(* gives, the profile whose values it shows (0 when they are the device's) *)
(* and the codec, if it shows one.                                         *)

Entry(t, i) == [token |-> t, shows |-> i, codec |-> "NONE"]
Coded(t, i, codec) == [token |-> t, shows |-> i, codec |-> codec]
Shown(i) == Entry(Null, i)
Count(what, n) == Entry(Token("count", what), n)
OneIf(condition) == IF condition THEN 1 ELSE 0
Info(what) == Entry(Token("info", what), 0)   \* something else the device tells

Ok(entries) == [fault |-> "none", entries |-> entries]
Fault(fault) == [fault |-> fault, entries |-> {}]

Done == Ok({})                \* an answer without a token
Crashed == Fault("crashed")   \* the process dies of a NULL pointer
Silent == Fault("silent")     \* the handler returns without an answer

NoProfile == Fault("NoProfile")
NoConfig == Fault("NoConfig")
NoAudio == Fault("AudioNotSupported")
NoDecoding == Fault("AudioDecodingNotSupported")
NoOutputs == Fault("AudioOutputNotSupported")
ConfigModify == Fault("ConfigModify")
Incomplete == Fault("IncompleteConfiguration")

Refusals == {"NoProfile", "NoConfig", "crashed", "silent"}

-----------------------------------------------------------------------------
(* Reading the profiles.                                                   *)

NameAt(c, i) ==
  IF i <= Len(c.profiles) THEN c.profiles[i].name
  ELSE IF c.profiles = <<>> THEN Null ELSE c.junk.name

\* strcasecmp with the first n names, one after the other
Find(c, n, text) ==
  LET hits == {i \in 1 .. n : NameAt(c, i) \in {text, Null}}
      i == CHOOSE i \in hits : \A j \in hits : i <= j
  IN IF text = Null THEN Null
     ELSE IF hits = {} THEN 0
     ELSE IF NameAt(c, i) = Null THEN Null ELSE i

\* the first comparison is made without a look at the number of profiles,
\* or after one
GuardedNot(c) == 2   \* mutant: without a look
Guarded(c) == c.num
Bold(c) == IF c.num = 2 THEN 2 ELSE 1

\* what a handler does with the profile of that name
Pick(c, n, text, found, missing) ==
  LET i == Find(c, n, text)
  IN IF i = Null THEN Crashed ELSE IF i = 0 THEN missing ELSE found[i]

\* a handler that reads the first profile without a look at their number
NeedsFirst(c, answer) == IF c.profiles = <<>> THEN Crashed ELSE answer

(* What the answers show of profile i, named by the text they print.       *)
EncoderAt(c, i) == c.profiles[i].encoder
DecoderAt(c, i) == c.profiles[i].decoder
Profile(i, name) == Entry(Token("profile", name), i)
Vec(i, name) == Entry(Token("vec", name), i)
Aec(c, i, name) == Coded(Token("aec", name), i, EncoderAt(c, i))
Adec(i, name) == Entry(Token("adec", name), i)
VideoSourceEntries == {Entry(VideoSourceConfig, 1), Entry(VideoSource, 1)}
AudioSourceEntries == {Entry(AudioSourceConfig, 0), Entry(AudioSource, 0)}
OutputEntries(c) == {Entry(AudioOutputConfig(c), 0), Entry(AudioOutput, 0)}

Encoding(c) == {i \in 1 .. c.num : EncoderAt(c, i) # "NONE"}
Decoding(c) == {i \in 1 .. c.num : DecoderAt(c, i) # "NONE"}

\* mutant: the whole array
PresentAll(c) == 1 .. Len(c.profiles)

Present(c) == 1 .. c.num

Says(token, text) == token # Null /\ Whole(token) = text

\* the text that a handler looks for: the profile's token first, or the
\* configuration's
ProfileFirst(ask, default) ==
  IF ask.profile # Null THEN Cut(ask.profile)
  ELSE IF ask.config # Null THEN Whole(ask.config) ELSE default
ConfigFirst(ask, default) ==
  IF ask.config # Null THEN Cut(ask.config)
  ELSE IF ask.profile # Null THEN Cut(ask.profile) ELSE default

FirstName(c) == CutName(NameAt(c, 1))
FirstNameIfAny(c) == IF c.num > 0 THEN FirstName(c) ELSE "*"
=============================================================================
