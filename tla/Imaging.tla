------------------------------ MODULE Imaging ------------------------------
(***************************************************************************)
(* imaging_service.c and prudynt_bridge.c: the IR-cut filter, the focus,   *)
(* presets and the values of the image.  Filter, focus and presets are set *)
(* by commands; a process knows of them what the configuration says, and   *)
(* what it changes in its memory ends with it.  The values are set by      *)
(* prudynt, the streamer: a process writes one line to its FIFO and polls  *)
(* the file in which prudynt shows its state until it sees them there.     *)
(*                                                                         *)
(* Numbers stand on a grid: Scale is one, as a fraction of a range, and    *)
(* what differs on the grid differs by more than the tolerance.            *)
(***************************************************************************)
EXTENDS Integers, Sequences, FiniteSets

CONSTANTS
  SourceLists,  \* configurations: sequences of video sources
  Keys,         \* values that prudynt sets
  FieldSets,    \* its first states: for each key a field or Null
  Fallback,     \* fallback_range_for_key: the greatest value of each key
  Scale,        \* one
  Procs,        \* processes of onvif_simple_server
  MaxPolls,     \* how often one looks at the state (timeout_ms / 100 + 1)
  MaxFifo,      \* lines that the pipe can hold
  SetRequests, MoveRequests,   \* contents of requests
  Null

Modes == {"On", "Off", "Auto"}
Kinds == {"absolute", "relative", "continuous"}   \* of a move of the focus

\* parse_field takes a range that is not empty; prudynt shows a value within it
Field == {f \in [value : Int, min : Int, max : Int] :
            f.min < f.max /\ f.value \in f.min .. f.max}

ASSUME ScaleAssumption == Scale \in Nat \ {0}
ASSUME FieldsAssumption ==
  /\ FieldSets \subseteq [Keys -> Field \cup {Null}]
  /\ Null \notin Field
ASSUME GridAssumption ==
  \A shown \in FieldSets : \A k \in Keys : shown[k] # Null =>
    \E q \in 1 .. Scale : Scale = q * (shown[k].max - shown[k].min)
ASSUME BoundsAssumption == MaxPolls \in Nat \ {0} /\ MaxFifo \in Nat
ASSUME RequestsAssumption ==
  \A r \in SetRequests :
    /\ DOMAIN r.values \subseteq Keys
    /\ \A k \in DOMAIN r.values : r.values[k].percent \in BOOLEAN /\ r.values[k].v \in Int
ASSUME ModesAssumption ==
  \A list \in SourceLists : \A i \in 1 .. Len(list) : list[i].modes \subseteq Modes
ASSUME FallbackAssumption ==
  /\ Fallback \in [Keys -> Nat]
  /\ \A k \in Keys : Fallback[k] > 0
ASSUME MovesAssumption ==
  /\ \A m \in MoveRequests : m.kind \in Kinds
  /\ \A list \in SourceLists :
       \A i \in 1 .. Len(list) : DOMAIN list[i].moves = Kinds

VARIABLES
  sources,      \* service_ctx.imaging, as it is loaded by every process
  filter, lens, look,  \* what the last command set: filter, focus and preset
  up, fifo, fields,    \* prudynt: whether it runs, its FIFO, its state file
  proc,         \* the processes
  reply,        \* the last answer that a process gave
  asked         \* history: the mode that was last asked of each source
vars == <<sources, filter, lens, look, up, fifo, fields, proc, reply, asked>>

hardware == <<filter, lens, look>>
prudynt == <<up, fifo, fields>>

-----------------------------------------------------------------------------
(* The configuration ("imaging" in conf.c): without modes, On and Off are  *)
(* supported; without a state the mode is Auto all the same.               *)

Supported(s) == IF s.modes = {} THEN {"On", "Off"} ELSE s.modes
Mode(s) == IF s.state = Null THEN "Auto" ELSE s.state
CurrentPreset(s) ==
  IF s.preset # Null THEN s.preset
  ELSE IF s.presets # <<>> THEN s.presets[1].token ELSE Null

\* find_imaging_entry, 0 if there is none
Find(token) ==
  LET hits == {i \in 1 .. Len(sources) : sources[i].token = token}
  IN IF sources = <<>> THEN 0
     ELSE IF token = Null THEN 1
     ELSE IF hits = {} THEN 0
     ELSE CHOOSE i \in hits : \A j \in hits : i <= j

NoSource == IF sources = <<>> THEN "NoImagingForSource" ELSE "NoSource"

-----------------------------------------------------------------------------
(* Numbers.                                                                *)

Clamp(n) == IF n < 0 THEN 0 ELSE IF n > Scale THEN Scale ELSE n

\* mutant: the range does not start at its minimum
WantedFromZero(k, x, field) ==
  IF x.percent THEN Clamp(x.v)
  ELSE IF x.v \in {0, 1} THEN x.v * Scale
  ELSE IF field # Null
  THEN Clamp((x.v * Scale) \div (field.max - field.min))
  ELSE Clamp((x.v * Scale) \div Fallback[k])

(* parse_imaging_value and normalize_with_state: x is a number as it is    *)
(* written, or a percentage (v of Scale).  A number between 0 and 1 is     *)
(* taken for a fraction; any other is placed in the range that the state   *)
(* shows, or in the fallback range.                                        *)
Wanted(k, x, field) ==
  IF x.percent THEN Clamp(x.v)
  ELSE IF x.v \in {0, 1} THEN x.v * Scale
  ELSE IF field # Null
  THEN Clamp(((x.v - field.min) * Scale) \div (field.max - field.min))
  ELSE Clamp((x.v * Scale) \div Fallback[k])

\* field_normalized_value; -1 without a field
Normalized(field) ==
  IF field = Null THEN 0 - 1
  ELSE ((field.value - field.min) * Scale) \div (field.max - field.min)

\* prudynt keeps whole numbers
Stored(n, field) ==
  IF field = Null THEN Null
  ELSE [field EXCEPT !.value =
          field.min + (n * (field.max - field.min)) \div Scale]

-----------------------------------------------------------------------------
(* SetImagingSettings.  A process is idle, about to write its line to the  *)
(* FIFO, or waiting for the values; "left" is how often it still looks.    *)
(* Only these requests take time; the others are one step each.            *)

Idle == [pc |-> "idle", wants |-> <<>>, left |-> 0]
Answer(fault, shows) == [fault |-> fault, shows |-> shows]
Ends(p, fault) ==
  /\ proc' = [proc EXCEPT ![p] = Idle]
  /\ reply' = Answer(fault, Null)

SetFault(r) ==
  LET i == Find(r.token)
  IN IF i = 0 THEN NoSource
     ELSE IF ~ r.settings THEN "NoSource"
     ELSE IF r.ircut # Null /\ r.ircut \notin Supported(sources[i])
     THEN "ConfigModify"
     ELSE "none"

\* the filter is switched if the mode is not the configured one, and there
\* is a command
SwitchesNever(s, mode) == FALSE   \* mutant
Switches(s, mode) == mode # Null /\ mode # Mode(s) /\ mode \in s.commands

SetImagingSettings(p, r) ==
  LET i == Find(r.token)
      wants == [k \in DOMAIN r.values |-> Wanted(k, r.values[k], fields[k])]
  IN /\ proc[p].pc = "idle"
     /\ IF SetFault(r) # "none"
        THEN /\ Ends(p, SetFault(r))
             /\ UNCHANGED <<sources, hardware, prudynt, asked>>
        ELSE /\ filter' = IF Switches(sources[i], r.ircut)
                          THEN [filter EXCEPT ![i] = r.ircut] ELSE filter
             /\ asked' = IF r.ircut = Null THEN asked
                         ELSE [asked EXCEPT ![i] = r.ircut]
             /\ IF DOMAIN r.values = {} THEN Ends(p, "none")
                ELSE /\ proc' = [proc EXCEPT ![p] =
                                   [pc |-> "write", wants |-> wants,
                                    left |-> MaxPolls]]
                     /\ UNCHANGED reply
             /\ UNCHANGED <<sources, lens, look, prudynt>>

\* write_fifo_command: needs a reader, and room
Write(p) ==
  /\ proc[p].pc = "write"
  /\ IF up /\ Len(fifo) < MaxFifo
     THEN /\ fifo' = Append(fifo, proc[p].wants)
          /\ proc' = [proc EXCEPT ![p].pc = "poll"]
          /\ UNCHANGED reply
     ELSE /\ Ends(p, "Action")
          /\ UNCHANGED fifo
  /\ UNCHANGED <<sources, hardware, up, fields, asked>>

Seen(wants) == \A k \in DOMAIN wants : Normalized(fields[k]) = wants[k]

\* one look at the state; the file may be unreadable while it is written
PollForever(p) ==   \* mutant: the time that passed is not counted
  /\ proc[p].pc = "poll"
  /\ IF Seen(proc[p].wants) THEN Ends(p, "none") ELSE UNCHANGED <<proc, reply>>
  /\ UNCHANGED <<sources, hardware, prudynt, asked>>
Poll(p) ==
  /\ proc[p].pc = "poll"
  /\ \E readable \in BOOLEAN :
       IF readable /\ Seen(proc[p].wants) THEN Ends(p, "none")
       ELSE IF proc[p].left = 1 THEN Ends(p, "Action")
       ELSE proc' = [proc EXCEPT ![p].left = @ - 1] /\ UNCHANGED reply
  /\ UNCHANGED <<sources, hardware, prudynt, asked>>

-----------------------------------------------------------------------------
(* Focus.  A range has a least and a greatest value, each of which may be  *)
(* missing, and a value of its own.                                        *)

Within(range, n) ==
  /\ range.min # Null => n >= range.min
  /\ range.max # Null => n <= range.max

\* resolve_focus_speed
Speed(s, range, speed) ==
  IF speed # Null THEN speed
  ELSE IF range.value # Null THEN range.value
  ELSE IF s.default_speed # Null THEN s.default_speed ELSE 1

\* mutant: a speed that was not asked for is not checked
MoveFaultTrusting(s, m) ==
  LET move == s.moves[m.kind]
  IN IF ~ move.supported THEN "ActionNotSupported"
     ELSE IF m.arg = Null \/ ~ Within(move.range, m.arg) THEN "ConfigModify"
     ELSE IF m.speed # Null /\ ~ Within(move.speed, m.speed) THEN "ConfigModify"
     ELSE IF ~ move.command THEN "ConfigModify" ELSE "none"

\* the speed is the argument of a continuous move
MoveFault(s, m) ==
  LET move == s.moves[m.kind]
  IN IF ~ move.supported THEN "ActionNotSupported"
     ELSE IF m.arg = Null \/ ~ Within(move.range, m.arg) THEN "ConfigModify"
     ELSE IF m.kind # "continuous"
             /\ ~ Within(move.speed, Speed(s, move.speed, m.speed))
     THEN "ConfigModify"
     ELSE IF ~ move.command THEN "ConfigModify" ELSE "none"

CanMove(s) == \E kind \in Kinds : s.moves[kind].supported

\* "kinds" are the elements that the request has; only one may be there
Move(token, kinds, m) ==
  LET i == Find(token)
      fault == IF i = 0 THEN NoSource
               ELSE IF ~ CanMove(sources[i]) THEN "ActionNotSupported"
               ELSE IF Cardinality(kinds) # 1 THEN "ConfigModify"
               ELSE MoveFault(sources[i], m)
  IN /\ lens' = IF fault # "none" THEN lens
                ELSE [lens EXCEPT ![i] =
                  [kind |-> m.kind, arg |-> m.arg,
                   speed |-> IF m.kind = "continuous" THEN 0
                             ELSE Speed(sources[i], sources[i].moves[m.kind].speed,
                                        m.speed)]]
     /\ reply' = Answer(fault, Null)
     /\ UNCHANGED <<sources, filter, look, prudynt, proc, asked>>

Stopped == [kind |-> "stop", arg |-> 0, speed |-> 0]
Stop(token) ==
  LET i == Find(token)
      fault == IF i = 0 THEN NoSource
               ELSE IF ~ sources[i].stop THEN "ActionNotSupported" ELSE "none"
  IN /\ lens' = IF fault # "none" THEN lens
                ELSE [lens EXCEPT ![i] = Stopped]
     /\ reply' = Answer(fault, Null)
     /\ UNCHANGED <<sources, filter, look, prudynt, proc, asked>>

-----------------------------------------------------------------------------
(* Presets: a command of its own, or the one of the source.                *)

PresetAt(s, token) ==
  LET hits == {j \in 1 .. Len(s.presets) : s.presets[j].token = token}
  IN IF hits = {} THEN 0 ELSE CHOOSE j \in hits : \A k \in hits : j <= k

SetCurrentPreset(token, preset) ==
  LET i == Find(token)
      s == sources[i]
      fault ==
        IF i = 0 THEN NoSource
        ELSE IF s.presets = <<>> THEN "ActionNotSupported"
        ELSE IF preset = Null \/ PresetAt(s, preset) = 0 THEN "NoSource"
        ELSE IF ~ (s.presets[PresetAt(s, preset)].command \/ s.apply)
        THEN "ActionNotSupported" ELSE "none"
  IN /\ look' = IF fault = "none" THEN [look EXCEPT ![i] = preset] ELSE look
     /\ reply' = Answer(fault, Null)
     /\ UNCHANGED <<sources, filter, lens, prudynt, proc, asked>>

-----------------------------------------------------------------------------
(* The requests that only read.  GetImagingSettings shows the mode of the  *)
(* configuration and prudynt's values; the values that prudynt does not    *)
(* have come from the configuration and are left out here.                 *)

Shows(s, method) ==
  CASE method = "GetImagingSettings" -> [source |-> s.token, mode |-> Mode(s),
                                         fields |-> fields]
    [] method = "GetOptions" -> [modes |-> Supported(s)]
    [] method = "GetMoveOptions" ->
         [kinds |-> {kind \in Kinds : s.moves[kind].supported}]
    [] method = "GetStatus" -> [status |-> "IDLE"]
    [] method = "GetPresets" -> [presets |-> s.presets]
    [] method = "GetCurrentPreset" ->
         [preset |-> IF PresetAt(s, CurrentPreset(s)) = 0 THEN Null
                     ELSE CurrentPreset(s)]
Reading == {"GetImagingSettings", "GetOptions", "GetMoveOptions", "GetStatus",
            "GetPresets", "GetCurrentPreset"}

Get(method, token) ==
  LET i == Find(token)
      fault == IF i = 0 THEN NoSource
               ELSE IF \/ method = "GetMoveOptions" /\ ~ CanMove(sources[i])
                       \/ method = "GetPresets" /\ sources[i].presets = <<>>
               THEN "ActionNotSupported" ELSE "none"
  IN /\ reply' = Answer(fault, IF fault = "none"
                                        THEN Shows(sources[i], method) ELSE Null)
     /\ UNCHANGED <<sources, hardware, prudynt, proc, asked>>

\* has_presets and has_adaptable
GetServiceCapabilities ==
  LET some == \E i \in 1 .. Len(sources) : sources[i].presets # <<>>
      adaptable ==
        \E i \in 1 .. Len(sources) :
           \/ sources[i].apply
           \/ \E j \in 1 .. Len(sources[i].presets) : sources[i].presets[j].command
  IN /\ reply' = IF sources = <<>>
                 THEN Answer(NoSource, Null)
                 ELSE Answer("none",
                             [presets |-> some, adaptable |-> adaptable])
     /\ UNCHANGED <<sources, hardware, prudynt, proc, asked>>

-----------------------------------------------------------------------------
(* prudynt: takes the lines in order; what is in the pipe is lost when it  *)
(* ends, what it showed last stays in the file.                            *)

Apply ==
  /\ up /\ fifo # <<>>
  /\ fields' = [k \in Keys |-> IF k \in DOMAIN Head(fifo)
                              THEN Stored(Head(fifo)[k], fields[k])
                              ELSE fields[k]]
  /\ fifo' = Tail(fifo)
  /\ UNCHANGED <<sources, hardware, up, proc, reply, asked>>

Die == /\ up
       /\ up' = FALSE /\ fifo' = <<>>
       /\ UNCHANGED <<sources, hardware, fields, proc, reply, asked>>
Start == /\ ~ up
         /\ up' = TRUE
         /\ UNCHANGED <<sources, hardware, fifo, fields, proc, reply, asked>>

-----------------------------------------------------------------------------
TokensAsked == {sources[i].token : i \in 1 .. Len(sources)} \cup {Null, "other"}
PresetsAsked ==
  {Null, "other"} \cup UNION {{sources[i].presets[j].token :
                                 j \in 1 .. Len(sources[i].presets)} :
                              i \in 1 .. Len(sources)}

Init ==
  /\ sources \in SourceLists
  /\ filter \in [1 .. Len(sources) -> Modes]
  /\ lens = [i \in 1 .. Len(sources) |-> Stopped]
  /\ look = [i \in 1 .. Len(sources) |-> CurrentPreset(sources[i])]
  /\ up = TRUE /\ fifo = <<>> /\ fields \in FieldSets
  /\ proc = [p \in Procs |-> Idle]
  /\ reply = Answer("none", Null)
  /\ asked = [i \in 1 .. Len(sources) |-> Null]

\* a request that is answered in one step, by a process of its own
Serve ==
  \/ \E m \in MoveRequests, token \in TokensAsked : Move(token, m.kinds, m)
  \/ \E token \in TokensAsked :
       \/ Stop(token)
       \/ \E preset \in PresetsAsked : SetCurrentPreset(token, preset)
       \/ \E method \in Reading : Get(method, token)
  \/ GetServiceCapabilities

Begin(p) ==
  \E r \in SetRequests, token \in TokensAsked :
    SetImagingSettings(p, [token |-> token, settings |-> r.settings,
                           ircut |-> r.ircut, values |-> r.values])

Next == \/ Serve
        \/ \E p \in Procs : Begin(p) \/ Write(p) \/ Poll(p)
        \/ Apply \/ Die \/ Start

\* a process that runs goes on; nothing is assumed of prudynt
Fairness == \A p \in Procs : WF_vars(Write(p)) /\ WF_vars(Poll(p))
Spec == Init /\ [][Next]_vars /\ Fairness

-----------------------------------------------------------------------------
(* Properties.                                                             *)

Faults == {"none", "NoImagingForSource", "NoSource", "ConfigModify", "Action",
           "ActionNotSupported"}

\* what may be done to the focus: a supported move within its ranges
LensOK(s, l) ==
  \/ l = Stopped
  \/ /\ l.kind \in Kinds /\ s.moves[l.kind].supported
     /\ Within(s.moves[l.kind].range, l.arg)
     /\ l.kind # "continuous" => Within(s.moves[l.kind].speed, l.speed)

FocusInRange ==
  /\ DOMAIN lens = 1 .. Len(sources)
  /\ \A i \in 1 .. Len(sources) : LensOK(sources[i], lens[i])

(* Types, and that no command for the focus leaves the ranges which the    *)
(* configuration gives, wherever the speed comes from.                     *)
TypeOK ==
  /\ sources \in SourceLists
  /\ filter \in [1 .. Len(sources) -> Modes]
  /\ FocusInRange
  /\ DOMAIN look = 1 .. Len(sources)
  /\ up \in BOOLEAN /\ Len(fifo) <= MaxFifo
  /\ \A k \in Keys : Normalized(fields[k]) \in -1 .. Scale
  /\ \A p \in Procs :
       /\ proc[p].pc \in {"idle", "write", "poll"}
       /\ \A k \in DOMAIN proc[p].wants : proc[p].wants[k] \in 0 .. Scale
       /\ proc[p].left \in 0 .. MaxPolls
  /\ reply.fault \in Faults
  /\ asked \in [1 .. Len(sources) -> Modes \cup {Null}]

(* The filter is in the mode that was asked for last, in however many      *)
(* requests of however many processes.  Two exceptions: a mode without a   *)
(* command; and the mode of the configuration, which every process takes   *)
(* for the one the filter is in.                                           *)
FilterFollows ==
  \A i \in 1 .. Len(sources) :
    \/ asked[i] \in {Null, Mode(sources[i]), filter[i]}
    \/ asked[i] \notin sources[i].commands

(* A request is answered, whether prudynt runs, dies or says nothing.      *)
EveryRequestAnswered == \A p \in Procs : proc[p].pc # "idle" ~> proc[p].pc = "idle"

ShowsSettings == reply.shows # Null /\ "fields" \in DOMAIN reply.shows

(* A client that sets back a value that GetImagingSettings reported leaves *)
(* it as it was.  The exceptions are numbers that are taken for fractions: *)
(* 0 where it is not the least value, and 1 where it is not the greatest.  *)
ReportedValueKept ==
  ShowsSettings =>
    \A k \in Keys :
      LET shown == reply.shows.fields[k]
          back == Stored(Wanted(k, [percent |-> FALSE, v |-> shown.value],
                                fields[k]), fields[k])
      IN shown # Null =>
           \/ back.value = shown.value
           \/ shown.value = 0 /\ shown.min # 0
           \/ shown.value = 1 /\ shown.max # 1

(* The mode that GetImagingSettings reports can be set ("SetImagingSettings *)
(* with the currently reported IrCutFilter value (no-op) to verify write   *)
(* support", tools/onvif/README.md).                                       *)
ReportedModeAccepted ==
  ShowsSettings =>
    \A i \in 1 .. Len(sources) : sources[i].token = reply.shows.source =>
      SetFault([token |-> sources[i].token, settings |-> TRUE,
                ircut |-> reply.shows.mode, values |-> <<>>]) = "none"
=============================================================================
