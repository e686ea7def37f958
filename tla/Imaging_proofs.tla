--------------------------- MODULE Imaging_proofs ---------------------------
(***************************************************************************)
(* Proofs about Imaging: the filter follows the requests, the focus stays  *)
(* in its ranges, and a value that was reported can be set back, for every *)
(* configuration and every state of prudynt.                               *)
(***************************************************************************)
EXTENDS Imaging, TLAPS

\* what is known of the filters: one for each source, and one mode asked of each
FilterInv ==
  /\ DOMAIN filter = 1 .. Len(sources)
  /\ DOMAIN asked = 1 .. Len(sources)
  /\ FilterFollows

(* A request that is accepted leaves the filter as FilterFollows says,     *)
(* whichever source it names.                                              *)
LEMMA SetKeepsFilter ==
  ASSUME FilterInv, NEW p, NEW r, SetImagingSettings(p, r)
  PROVE  FilterInv'
<1> DEFINE i == Find(r.token)
<1>1. CASE SetFault(r) # "none"
  <2>1. UNCHANGED <<sources, filter, asked>>
    BY <1>1 DEF SetImagingSettings, hardware
  <2> QED
    BY <2>1 DEF FilterInv, FilterFollows, Mode
<1>2. CASE SetFault(r) = "none"
  <2>1. /\ filter' = IF Switches(sources[i], r.ircut)
                     THEN [filter EXCEPT ![i] = r.ircut] ELSE filter
        /\ asked' = IF r.ircut = Null THEN asked
                    ELSE [asked EXCEPT ![i] = r.ircut]
        /\ sources' = sources
    BY <1>2 DEF SetImagingSettings
  <2>2. /\ DOMAIN filter' = 1 .. Len(sources')
        /\ DOMAIN asked' = 1 .. Len(sources')
    BY <2>1 DEF FilterInv
  <2>3. ASSUME NEW j \in 1 .. Len(sources')
        PROVE  \/ asked'[j] \in {Null, Mode(sources'[j]), filter'[j]}
               \/ asked'[j] \notin sources'[j].commands
    <3>1. j \in DOMAIN filter /\ j \in DOMAIN asked
      BY <2>1, <2>3 DEF FilterInv
    <3>2. \/ asked[j] \in {Null, Mode(sources[j]), filter[j]}
          \/ asked[j] \notin sources[j].commands
      BY <2>1, <2>3 DEF FilterInv, FilterFollows
    <3>3. CASE j # i \/ r.ircut = Null
      <4>1. asked'[j] = asked[j] /\ filter'[j] = filter[j]
        BY <2>1, <3>1, <3>3 DEF Switches
      <4> QED
        BY <2>1, <3>2, <4>1
    <3>4. CASE j = i /\ r.ircut # Null
      <4>1. asked'[j] = r.ircut
        BY <2>1, <3>1, <3>4
      <4>2. CASE Switches(sources[i], r.ircut)
        <5>1. filter'[j] = r.ircut
          BY <2>1, <3>1, <3>4, <4>2
        <5> QED
          BY <4>1, <5>1
      <4>3. CASE ~ Switches(sources[i], r.ircut)
        <5>1. r.ircut = Mode(sources[i]) \/ r.ircut \notin sources[i].commands
          BY <3>4, <4>3 DEF Switches
        <5> QED
          BY <2>1, <3>4, <4>1, <5>1
      <4> QED
        BY <4>2, <4>3
    <3> QED
      BY <3>3, <3>4
  <2> QED
    BY <2>2, <2>3 DEF FilterInv, FilterFollows
<1> QED
  BY <1>1, <1>2

(* No other step writes the filter or asks a mode of it.                   *)
LEMMA OthersKeepFilter ==
  ASSUME [Next]_vars,
         ~ (\E p, r : SetImagingSettings(p, r))
  PROVE  UNCHANGED <<sources, filter, asked>>
<1>1. CASE Serve
  BY <1>1 DEF Serve, Move, Stop, SetCurrentPreset, Get, GetServiceCapabilities,
              hardware
<1>2. ASSUME NEW p \in Procs, Begin(p) \/ Write(p) \/ Poll(p)
      PROVE  UNCHANGED <<sources, filter, asked>>
  <2>1. ~ Begin(p)
    BY DEF Begin
  <2> QED
    BY <1>2, <2>1 DEF Write, Poll, hardware
<1>3. CASE Apply \/ Die \/ Start
  BY <1>3 DEF Apply, Die, Start, hardware
<1>4. CASE UNCHANGED vars
  BY <1>4 DEF vars
<1> QED
  BY <1>1, <1>2, <1>3, <1>4 DEF Next

(* The filter is in the mode that was asked for last, with the exceptions  *)
(* that FilterFollows names (imaging_set_imaging_settings).                *)
THEOREM FilterIsAsAsked == Spec => []FilterFollows
<1>1. Init => FilterInv
  BY DEF Init, FilterInv, FilterFollows
<1>2. FilterInv /\ [Next]_vars => FilterInv'
  <2> SUFFICES ASSUME FilterInv, [Next]_vars
               PROVE  FilterInv'
    OBVIOUS
  <2>1. CASE \E p, r : SetImagingSettings(p, r)
    BY <2>1, SetKeepsFilter
  <2>2. CASE ~ (\E p, r : SetImagingSettings(p, r))
    <3>1. UNCHANGED <<sources, filter, asked>>
      BY <2>2, OthersKeepFilter
    <3> QED
      BY <3>1 DEF FilterInv, FilterFollows, Mode
  <2> QED
    BY <2>1, <2>2
<1>3. FilterInv => FilterFollows
  BY DEF FilterInv
<1> QED
  BY <1>1, <1>2, <1>3, PTL DEF Spec

-----------------------------------------------------------------------------
(* The focus.                                                              *)

FocusInv == sources \in SourceLists /\ FocusInRange

(* A move that is not refused is supported, and within the ranges of       *)
(* imaging_move for its argument and for the speed that is sent.           *)
LEMMA AcceptedMoveInRange ==
  ASSUME NEW s, NEW m, m.kind \in Kinds, MoveFault(s, m) = "none",
         NEW l,
         l = [kind |-> m.kind, arg |-> m.arg,
              speed |-> IF m.kind = "continuous" THEN 0
                        ELSE Speed(s, s.moves[m.kind].speed, m.speed)]
  PROVE  LensOK(s, l)
<1>1. /\ s.moves[m.kind].supported
      /\ Within(s.moves[m.kind].range, m.arg)
      /\ m.kind # "continuous" =>
           Within(s.moves[m.kind].speed, Speed(s, s.moves[m.kind].speed, m.speed))
  BY DEF MoveFault
<1>2. l.kind = m.kind /\ l.arg = m.arg
  OBVIOUS
<1>3. m.kind # "continuous" => l.speed = Speed(s, s.moves[m.kind].speed, m.speed)
  OBVIOUS
<1> QED
  BY <1>1, <1>2, <1>3 DEF LensOK

(* A new state of the focus of one source keeps the others.                *)
LEMMA OneLensMoves ==
  ASSUME FocusInv, NEW i, NEW l,
         lens' = [lens EXCEPT ![i] = l], sources' = sources,
         i \in 1 .. Len(sources) => LensOK(sources[i], l)
  PROVE  FocusInv'
<1>1. DOMAIN lens' = 1 .. Len(sources')
  BY DEF FocusInv, FocusInRange
<1>2. ASSUME NEW j \in 1 .. Len(sources')
      PROVE  LensOK(sources'[j], lens'[j])
  <2>1. lens'[j] = IF j = i THEN l ELSE lens[j]
    BY DEF FocusInv, FocusInRange
  <2>2. LensOK(sources[j], lens[j])
    BY DEF FocusInv, FocusInRange
  <2> QED
    BY <2>1, <2>2
<1> QED
  BY <1>1, <1>2 DEF FocusInv, FocusInRange

LEMMA MoveKeepsRange ==
  ASSUME FocusInv, NEW token, NEW m \in MoveRequests, Move(token, m.kinds, m)
  PROVE  FocusInv'
<1> DEFINE i == Find(token)
           l == [kind |-> m.kind, arg |-> m.arg,
                 speed |-> IF m.kind = "continuous" THEN 0
                           ELSE Speed(sources[i], sources[i].moves[m.kind].speed,
                                      m.speed)]
<1>1. sources' = sources
  BY DEF Move
<1>2. CASE lens' = lens
  BY <1>1, <1>2 DEF FocusInv, FocusInRange
<1>3. CASE lens' # lens
  <2>1. MoveFault(sources[i], m) = "none"
    BY <1>3 DEF Move, NoSource
  <2>2. lens' = [lens EXCEPT ![i] = l]
    BY <1>3 DEF Move
  <2>3. LensOK(sources[i], l)
    BY <2>1, AcceptedMoveInRange, MovesAssumption
  <2> QED
    BY <1>1, <2>2, <2>3, OneLensMoves
<1> QED
  BY <1>2, <1>3

LEMMA StopKeepsRange ==
  ASSUME FocusInv, NEW token, Stop(token)
  PROVE  FocusInv'
<1>1. sources' = sources
  BY DEF Stop
<1>2. CASE lens' = lens
  BY <1>1, <1>2 DEF FocusInv, FocusInRange
<1>3. CASE lens' # lens
  <2>1. lens' = [lens EXCEPT ![Find(token)] = Stopped]
    BY <1>3 DEF Stop
  <2>2. LensOK(sources[Find(token)], Stopped)
    BY DEF LensOK
  <2> QED
    BY <1>1, <2>1, <2>2, OneLensMoves
<1> QED
  BY <1>2, <1>3

(* No command for the focus leaves the ranges of the configuration: part   *)
(* of TypeOK.                                                              *)
THEOREM FocusStaysInRange == Spec => []FocusInRange
<1>1. Init => FocusInv
  BY DEF Init, FocusInv, FocusInRange, LensOK
<1>2. FocusInv /\ [Next]_vars => FocusInv'
  <2> SUFFICES ASSUME FocusInv, [Next]_vars
               PROVE  FocusInv'
    OBVIOUS
  <2>1. ASSUME NEW m \in MoveRequests, NEW token, Move(token, m.kinds, m)
        PROVE  FocusInv'
    BY <2>1, MoveKeepsRange
  <2>2. ASSUME NEW token, Stop(token)
        PROVE  FocusInv'
    BY <2>2, StopKeepsRange
  <2>3. CASE UNCHANGED <<sources, lens>>
    BY <2>3 DEF FocusInv, FocusInRange
  <2>4. CASE Serve
    BY <2>1, <2>2, <2>3, <2>4
       DEF Serve, SetCurrentPreset, Get, GetServiceCapabilities, hardware
  <2>5. ASSUME NEW p \in Procs, Begin(p) \/ Write(p) \/ Poll(p)
        PROVE  UNCHANGED <<sources, lens>>
    <3>1. CASE Begin(p)
      BY <3>1 DEF Begin, SetImagingSettings, hardware
    <3> QED
      BY <2>5, <3>1 DEF Write, Poll, hardware
  <2>6. CASE Apply \/ Die \/ Start
    BY <2>3, <2>6 DEF Apply, Die, Start, hardware
  <2>7. CASE UNCHANGED vars
    BY <2>3, <2>7 DEF vars
  <2> QED
    BY <2>3, <2>4, <2>5, <2>6, <2>7 DEF Next
<1>3. FocusInv => FocusInRange
  BY DEF FocusInv
<1> QED
  BY <1>1, <1>2, <1>3, PTL DEF Spec

-----------------------------------------------------------------------------
(* Numbers on the grid.                                                    *)

LEMMA DivBounds ==
  ASSUME NEW a \in Int, NEW b \in Int, b > 0
  PROVE  /\ a \div b \in Int
         /\ b * (a \div b) <= a
         /\ a < b * (a \div b) + b
OBVIOUS

LEMMA DivOfProduct ==
  ASSUME NEW q \in Int, NEW b \in Int, b > 0
  PROVE  (q * b) \div b = q
OBVIOUS

\* a part of Scale is that part of the range
LEMMA PartOfRange ==
  ASSUME NEW n \in Int, NEW range \in Int, NEW scale \in Int, range > 0, scale > 0,
         0 <= n, n <= scale
  PROVE  (n * range) \div scale \in 0 .. range
<1> DEFINE q == (n * range) \div scale
<1>1. q \in Int /\ scale * q <= n * range /\ n * range < scale * q + scale
  <2>1. n * range \in Int
    OBVIOUS
  <2> QED
    BY <2>1, DivBounds
<1> HIDE DEF q
<1>2. n * range <= scale * range /\ n * range >= 0
  OBVIOUS
<1>3. scale * q <= scale * range
  BY <1>1, <1>2
<1>4. q <= range
  BY <1>1, <1>3
<1>5. scale * (q + 1) > 0
  BY <1>1, <1>2
<1>6. q + 1 > 0
  BY <1>1, <1>5
<1> QED
  BY <1>1, <1>4, <1>6 DEF q

LEMMA NormalizedOnScale ==
  ASSUME NEW field \in Field \cup {Null}
  PROVE  Normalized(field) \in -1 .. Scale
<1>1. CASE field = Null
  BY <1>1, ScaleAssumption DEF Normalized
<1>2. CASE field # Null
  <2> DEFINE n == field.value - field.min
             range == field.max - field.min
  <2>1. n \in Int /\ range \in Int /\ range > 0 /\ 0 <= n /\ n <= range
    BY <1>2 DEF Field
  <2>2. (n * Scale) \div range \in 0 .. Scale
    BY <2>1, ScaleAssumption, PartOfRange
  <2> QED
    BY <1>2, <2>2, ScaleAssumption DEF Normalized
<1> QED
  BY <1>1, <1>2

LEMMA ClampOnScale == \A n \in Int : Clamp(n) \in 0 .. Scale
BY ScaleAssumption DEF Clamp

\* Every number that a request may hold comes to a point of the scale.
LEMMA WantedOnScale ==
  ASSUME NEW k \in Keys, NEW x, x.percent \in BOOLEAN, x.v \in Int,
         NEW field \in Field \cup {Null}
  PROVE  Wanted(k, x, field) \in 0 .. Scale
<1>1. CASE x.percent
  BY <1>1, ClampOnScale DEF Wanted
<1>2. CASE ~ x.percent /\ x.v \in {0, 1}
  <2>1. x.v * Scale \in {0, Scale}
    BY <1>2, ScaleAssumption
  <2> QED
    BY <1>2, <2>1, ScaleAssumption DEF Wanted
<1>3. CASE ~ x.percent /\ x.v \notin {0, 1} /\ field # Null
  <2>1. (x.v - field.min) * Scale \in Int /\ field.max - field.min \in Int
        /\ field.max - field.min > 0
    BY <1>3, ScaleAssumption DEF Field
  <2>2. ((x.v - field.min) * Scale) \div (field.max - field.min) \in Int
    BY <2>1, DivBounds
  <2> QED
    BY <1>3, <2>2, ClampOnScale DEF Wanted
<1>4. CASE ~ x.percent /\ x.v \notin {0, 1} /\ field = Null
  <2>1. x.v * Scale \in Int /\ Fallback[k] \in Int /\ Fallback[k] > 0
    BY ScaleAssumption, FallbackAssumption
  <2>2. (x.v * Scale) \div Fallback[k] \in Int
    BY <2>1, DivBounds
  <2> QED
    BY <1>4, <2>2, ClampOnScale DEF Wanted
<1> QED
  BY <1>1, <1>2, <1>3, <1>4

\* the same range, whatever the value
SameRange(f, g) == /\ f = Null <=> g = Null
                   /\ f # Null => f.min = g.min /\ f.max = g.max

\* prudynt moves a value within its range, which stays.
LEMMA StoredInField ==
  ASSUME NEW n \in 0 .. Scale, NEW field \in Field \cup {Null}
  PROVE  Stored(n, field) \in Field \cup {Null} /\ SameRange(Stored(n, field), field)
<1>1. CASE field = Null
  BY <1>1 DEF Stored, SameRange
<1>2. CASE field # Null
  <2> DEFINE d == (n * (field.max - field.min)) \div Scale
  <2>1. /\ field.min \in Int /\ field.max \in Int /\ field.max - field.min \in Int
        /\ field.max - field.min > 0
    BY <1>2 DEF Field
  <2>2. d \in 0 .. field.max - field.min
    BY <2>1, ScaleAssumption, PartOfRange
  <2> HIDE DEF d
  <2>3. [field EXCEPT !.value = field.min + d] \in Field
    BY <1>2, <2>1, <2>2 DEF Field
  <2>4. Stored(n, field) = [field EXCEPT !.value = field.min + d]
    BY <1>2 DEF Stored, d
  <2>5. /\ Stored(n, field).min = field.min
        /\ Stored(n, field).max = field.max
    BY <1>2, <2>4 DEF Field
  <2> QED
    BY <1>2, <2>3, <2>4, <2>5, FieldsAssumption DEF SameRange
<1> QED
  BY <1>1, <1>2

-----------------------------------------------------------------------------
(* Types.                                                                  *)

\* values on the scale, for some of the keys
Line == UNION {[some -> 0 .. Scale] : some \in SUBSET Keys}

ProcOK(p) ==
  /\ proc[p] \in [pc : {"idle", "write", "poll"}, wants : Line, left : 0 .. MaxPolls]
  /\ proc[p].pc # "idle" => proc[p].left > 0

PrudyntOK ==
  /\ up \in BOOLEAN
  /\ fifo \in Seq(Line) /\ Len(fifo) <= MaxFifo
  /\ fields \in [Keys -> Field \cup {Null}]

SettingsOK ==
  /\ filter \in [1 .. Len(sources) -> Modes]
  /\ asked \in [1 .. Len(sources) -> Modes \cup {Null}]
  /\ DOMAIN look = 1 .. Len(sources)

TypeInv == /\ sources \in SourceLists
           /\ SettingsOK
           /\ PrudyntOK
           /\ DOMAIN proc = Procs /\ \A p \in Procs : ProcOK(p)
           /\ reply.fault \in Faults

LEMMA EmptyLine == <<>> \in Line
<1>1. <<>> \in [{} -> 0 .. Scale]
  OBVIOUS
<1> QED
  BY <1>1 DEF Line

LEMMA TypeInit == Init => TypeInv
<1> SUFFICES ASSUME Init PROVE TypeInv
  OBVIOUS
<1>1. SettingsOK
  BY DEF Init, SettingsOK
<1>2. PrudyntOK
  BY FieldsAssumption, BoundsAssumption DEF Init, PrudyntOK
<1>3. DOMAIN proc = Procs /\ \A p \in Procs : ProcOK(p)
  BY EmptyLine, BoundsAssumption DEF Init, ProcOK, Idle
<1> QED
  BY <1>1, <1>2, <1>3 DEF TypeInv, Init, Answer, Faults

\* A process takes a step, or ends with an answer.
LEMMA ProcStep ==
  ASSUME TypeInv, NEW p \in Procs,
         \/ \E fault \in Faults : Ends(p, fault)
         \/ /\ \E s \in [pc : {"write", "poll"}, wants : Line, left : 1 .. MaxPolls] :
                 proc' = [proc EXCEPT ![p] = s]
            /\ UNCHANGED reply
  PROVE  /\ DOMAIN proc' = Procs /\ \A q \in Procs : ProcOK(q)'
         /\ reply'.fault \in Faults
<1>1. Idle \in [pc : {"idle", "write", "poll"}, wants : Line, left : 0 .. MaxPolls]
  BY EmptyLine, BoundsAssumption DEF Idle
<1>2. PICK s \in [pc : {"idle", "write", "poll"}, wants : Line, left : 0 .. MaxPolls] :
        proc' = [proc EXCEPT ![p] = s] /\ (s.pc # "idle" => s.left > 0)
  <2>1. CASE \E fault \in Faults : Ends(p, fault)
    BY <1>1, <2>1 DEF Ends, Idle
  <2>2. ASSUME NEW s \in [pc : {"write", "poll"}, wants : Line, left : 1 .. MaxPolls],
               proc' = [proc EXCEPT ![p] = s]
        PROVE  /\ s \in [pc : {"idle", "write", "poll"}, wants : Line, left : 0 .. MaxPolls]
               /\ s.left > 0
    BY BoundsAssumption
  <2> QED
    BY <2>1, <2>2
<1>3. reply'.fault \in Faults
  BY DEF Ends, Answer, TypeInv
<1>4. \A q \in Procs : ProcOK(q)'
  BY <1>2 DEF TypeInv, ProcOK
<1> QED
  BY <1>2, <1>3, <1>4 DEF TypeInv

LEMMA SettingsUnchanged ==
  SettingsOK /\ UNCHANGED <<sources, filter, asked, look>> => SettingsOK'
BY DEF SettingsOK

LEMMA PrudyntUnchanged == PrudyntOK /\ UNCHANGED prudynt => PrudyntOK'
BY DEF PrudyntOK, prudynt

LEMMA ProcsUnchanged ==
  TypeInv /\ UNCHANGED proc => DOMAIN proc' = Procs /\ \A p \in Procs : ProcOK(p)'
BY DEF TypeInv, ProcOK

LEMMA SetKeepsTypes ==
  ASSUME TypeInv, NEW p \in Procs, Begin(p)
  PROVE  TypeInv'
<1>1. PICK r \in SetRequests, token \in TokensAsked :
        SetImagingSettings(p, [token |-> token, settings |-> r.settings,
                               ircut |-> r.ircut, values |-> r.values])
  BY DEF Begin
<1> DEFINE ask == [token |-> token, settings |-> r.settings,
                   ircut |-> r.ircut, values |-> r.values]
           i == Find(ask.token)
           wants == [k \in DOMAIN ask.values |-> Wanted(k, ask.values[k], fields[k])]
<1>2. CASE SetFault(ask) # "none"
  <2>1. SetFault(ask) \in Faults
    BY DEF SetFault, NoSource, Faults
  <2>2. Ends(p, SetFault(ask)) /\ UNCHANGED <<sources, hardware, prudynt, asked>>
    BY <1>1, <1>2 DEF SetImagingSettings
  <2> QED
    BY <2>1, <2>2, ProcStep, SettingsUnchanged, PrudyntUnchanged DEF TypeInv, hardware
<1>3. CASE SetFault(ask) = "none"
  <2>1. /\ filter' = IF Switches(sources[i], ask.ircut)
                     THEN [filter EXCEPT ![i] = ask.ircut] ELSE filter
        /\ asked' = IF ask.ircut = Null THEN asked ELSE [asked EXCEPT ![i] = ask.ircut]
        /\ UNCHANGED <<sources, lens, look, prudynt>>
    BY <1>1, <1>3 DEF SetImagingSettings
  <2>2. ASSUME i \in 1 .. Len(sources), ask.ircut # Null
        PROVE  ask.ircut \in Modes
    <3>1. ask.ircut \in Supported(sources[i])
      BY <1>3, <2>2 DEF SetFault, NoSource
    <3> QED
      BY <2>2, <3>1, ModesAssumption DEF Supported, Modes, TypeInv
  <2>3. SettingsOK'
    <3> HIDE DEF ask, i
    <3>1. DOMAIN look' = 1 .. Len(sources) /\ sources' = sources
      BY <2>1 DEF TypeInv, SettingsOK
    <3>2. filter' \in [1 .. Len(sources) -> Modes]
      BY <2>1, <2>2 DEF TypeInv, SettingsOK, Switches
    <3>3. asked' \in [1 .. Len(sources) -> Modes \cup {Null}]
      BY <2>1, <2>2 DEF TypeInv, SettingsOK
    <3> QED
      BY <3>1, <3>2, <3>3 DEF SettingsOK
  <2>4. wants \in Line
    <3>1. DOMAIN r.values \subseteq Keys
      BY RequestsAssumption
    <3>2. \A k \in DOMAIN r.values : Wanted(k, r.values[k], fields[k]) \in 0 .. Scale
      <4> SUFFICES ASSUME NEW k \in DOMAIN r.values
                   PROVE  Wanted(k, r.values[k], fields[k]) \in 0 .. Scale
        OBVIOUS
      <4>1. r.values[k].percent \in BOOLEAN /\ r.values[k].v \in Int
        BY RequestsAssumption
      <4>2. k \in Keys /\ fields[k] \in Field \cup {Null}
        BY <3>1 DEF TypeInv, PrudyntOK
      <4> QED
        BY <4>1, <4>2, WantedOnScale
    <3>3. wants \in [DOMAIN r.values -> 0 .. Scale]
      BY <3>2
    <3> QED
      BY <3>1, <3>3 DEF Line
  <2>5. \/ Ends(p, "none")
        \/ /\ proc' = [proc EXCEPT ![p] = [pc |-> "write", wants |-> wants, left |-> MaxPolls]]
           /\ UNCHANGED reply
    BY <1>1, <1>3 DEF SetImagingSettings
  <2>6. [pc |-> "write", wants |-> wants, left |-> MaxPolls]
          \in [pc : {"write", "poll"}, wants : Line, left : 1 .. MaxPolls]
    <3> HIDE DEF wants
    <3> QED
      BY <2>4, BoundsAssumption
  <2>7. "none" \in Faults
    BY DEF Faults
  <2>8. /\ DOMAIN proc' = Procs /\ \A q \in Procs : ProcOK(q)'
        /\ reply'.fault \in Faults
    <3> HIDE DEF wants
    <3> QED
      BY <2>5, <2>6, <2>7, ProcStep
  <2> QED
    BY <2>1, <2>3, <2>8, PrudyntUnchanged DEF TypeInv
<1> QED
  BY <1>2, <1>3

LEMMA WriteKeepsTypes ==
  ASSUME TypeInv, NEW p \in Procs, Write(p)
  PROVE  TypeInv'
<1>1. UNCHANGED <<sources, hardware, up, fields, asked>> /\ proc[p].pc = "write"
  BY DEF Write
<1>2. proc[p].wants \in Line /\ proc[p].left \in 1 .. MaxPolls
  BY <1>1, BoundsAssumption DEF TypeInv, ProcOK
<1>3. CASE Len(fifo) < MaxFifo /\ fifo' = Append(fifo, proc[p].wants)
           /\ proc' = [proc EXCEPT ![p].pc = "poll"] /\ UNCHANGED reply
  <2>1. fifo' \in Seq(Line) /\ Len(fifo') <= MaxFifo
    BY <1>2, <1>3, BoundsAssumption DEF TypeInv, PrudyntOK
  <2>2. PrudyntOK'
    BY <1>1, <2>1 DEF TypeInv, PrudyntOK
  <2>3. [proc[p] EXCEPT !.pc = "poll"]
          \in [pc : {"write", "poll"}, wants : Line, left : 1 .. MaxPolls]
    BY <1>2 DEF TypeInv, ProcOK
  <2>4. proc' = [proc EXCEPT ![p] = [proc[p] EXCEPT !.pc = "poll"]]
    BY <1>3
  <2> QED
    BY <1>1, <1>3, <2>2, <2>3, <2>4, ProcStep, SettingsUnchanged DEF TypeInv, hardware
<1>4. CASE Ends(p, "Action") /\ UNCHANGED fifo
  <2>1. "Action" \in Faults
    BY DEF Faults
  <2> QED
    BY <1>1, <1>4, <2>1, ProcStep, SettingsUnchanged, PrudyntUnchanged
    DEF TypeInv, hardware, prudynt
<1> QED
  BY <1>3, <1>4 DEF Write

LEMMA PollKeepsTypes ==
  ASSUME TypeInv, NEW p \in Procs, Poll(p)
  PROVE  TypeInv'
<1>1. UNCHANGED <<sources, hardware, prudynt, asked>> /\ proc[p].pc = "poll"
  BY DEF Poll
<1>2. \/ Ends(p, "none") \/ Ends(p, "Action")
      \/ /\ proc[p].left # 1 /\ proc' = [proc EXCEPT ![p].left = proc[p].left - 1]
         /\ UNCHANGED reply
  BY DEF Poll, TypeInv
<1>3. proc[p].wants \in Line /\ proc[p].left \in 1 .. MaxPolls
  BY <1>1, BoundsAssumption DEF TypeInv, ProcOK
<1>4. proc[p].left # 1 => [proc[p] EXCEPT !.left = proc[p].left - 1]
                            \in [pc : {"write", "poll"}, wants : Line, left : 1 .. MaxPolls]
  BY <1>1, <1>3, BoundsAssumption DEF TypeInv, ProcOK
<1>5. {"none", "Action"} \subseteq Faults
  BY DEF Faults
<1>6. /\ DOMAIN proc' = Procs /\ \A q \in Procs : ProcOK(q)'
      /\ reply'.fault \in Faults
  BY <1>2, <1>4, <1>5, ProcStep
<1> QED
  BY <1>1, <1>6, SettingsUnchanged, PrudyntUnchanged DEF TypeInv, hardware

LEMMA ServeKeepsTypes ==
  ASSUME TypeInv, Serve
  PROVE  TypeInv'
<1>1. UNCHANGED <<sources, filter, prudynt, proc, asked>>
  BY DEF Serve, Move, Stop, SetCurrentPreset, Get, GetServiceCapabilities, hardware
<1>2. DOMAIN look' = DOMAIN look
  BY DEF Serve, Move, Stop, SetCurrentPreset, Get, GetServiceCapabilities, hardware
<1>3. reply'.fault \in Faults
  <2>1. NoSource \in Faults
    BY DEF NoSource, Faults
  <2>2. \A s, m : MoveFault(s, m) \in Faults
    BY DEF MoveFault, Faults
  <2>3. ASSUME NEW m \in MoveRequests, NEW token, Move(token, m.kinds, m)
        PROVE  reply'.fault \in Faults
    BY <2>1, <2>2, <2>3 DEF Move, Answer, Faults
  <2>4. ASSUME NEW token, \/ Stop(token)
                          \/ \E preset \in PresetsAsked : SetCurrentPreset(token, preset)
                          \/ \E method \in Reading : Get(method, token)
        PROVE  reply'.fault \in Faults
    BY <2>1, <2>4 DEF Stop, SetCurrentPreset, Get, Answer, Faults
  <2>5. GetServiceCapabilities => reply'.fault \in Faults
    BY <2>1 DEF GetServiceCapabilities, Answer, Faults
  <2> QED
    BY <2>3, <2>4, <2>5 DEF Serve
<1> QED
  BY <1>1, <1>2, <1>3, PrudyntUnchanged, ProcsUnchanged DEF TypeInv, SettingsOK

\* prudynt changes values within their ranges.
LEMMA ApplyKeepsFields ==
  ASSUME TypeInv, Apply
  PROVE  /\ fields' \in [Keys -> Field \cup {Null}]
         /\ \A k \in Keys : SameRange(fields'[k], fields[k])
<1>1. Head(fifo) \in Line
  BY DEF Apply, TypeInv, PrudyntOK
<1> DEFINE line == Head(fifo)
<1>2. \A k \in DOMAIN line : line[k] \in 0 .. Scale
  BY <1>1 DEF Line
<1> HIDE DEF line
<1>3. ASSUME NEW k \in Keys
      PROVE  fields'[k] \in Field \cup {Null} /\ SameRange(fields'[k], fields[k])
  <2>1. fields'[k] = IF k \in DOMAIN line THEN Stored(line[k], fields[k]) ELSE fields[k]
    BY DEF Apply, line
  <2>2. fields[k] \in Field \cup {Null}
    BY DEF TypeInv, PrudyntOK
  <2>3. CASE k \in DOMAIN line
    BY <1>2, <2>1, <2>2, <2>3, StoredInField
  <2>4. CASE k \notin DOMAIN line
    BY <2>1, <2>2, <2>4 DEF SameRange
  <2> QED
    BY <2>3, <2>4
<1>4. fields' = [k \in Keys |-> fields'[k]]
  BY DEF Apply
<1> QED
  BY <1>3, <1>4

LEMMA PrudyntKeepsTypes ==
  ASSUME TypeInv, Apply \/ Die \/ Start
  PROVE  TypeInv'
<1>1. UNCHANGED <<sources, hardware, proc, reply, asked>>
  BY DEF Apply, Die, Start
<1>2. CASE Apply
  <2>1. fifo' \in Seq(Line) /\ Len(fifo') <= MaxFifo /\ up' = up
    <3>1. fifo \in Seq(Line) /\ fifo # <<>> /\ fifo' = Tail(fifo)
      BY <1>2 DEF Apply, TypeInv, PrudyntOK
    <3>2. Tail(fifo) \in Seq(Line)
      BY <3>1
    <3>3. Len(Tail(fifo)) = Len(fifo) - 1 /\ Len(fifo) \in Nat
      BY <3>1
    <3>4. Len(fifo) <= MaxFifo /\ up' = up
      BY <1>2 DEF Apply, TypeInv, PrudyntOK
    <3> QED
      BY <3>1, <3>2, <3>3, <3>4, BoundsAssumption
  <2>2. fields' \in [Keys -> Field \cup {Null}]
    BY <1>2, ApplyKeepsFields
  <2>3. PrudyntOK'
    BY <2>1, <2>2 DEF TypeInv, PrudyntOK
  <2> QED
    BY <1>1, <2>3, ProcsUnchanged, SettingsUnchanged DEF TypeInv, hardware
<1>3. CASE Die \/ Start
  <2>1. fifo' = fifo \/ fifo' = <<>>
    BY <1>3 DEF Die, Start
  <2>2. fifo' \in Seq(Line) /\ Len(fifo') <= MaxFifo
    <3>1. fifo \in Seq(Line) /\ Len(fifo) <= MaxFifo
      BY DEF TypeInv, PrudyntOK
    <3>2. <<>> \in Seq(Line) /\ Len(<<>>) <= MaxFifo
      BY BoundsAssumption
    <3> QED
      BY <2>1, <3>1, <3>2
  <2>3. up' \in BOOLEAN /\ fields' = fields
    BY <1>3 DEF Die, Start
  <2>4. PrudyntOK'
    BY <2>2, <2>3 DEF TypeInv, PrudyntOK
  <2> QED
    BY <1>1, <2>4, ProcsUnchanged, SettingsUnchanged DEF TypeInv, hardware
<1> QED
  BY <1>2, <1>3

LEMMA StepTypeInv == TypeInv /\ [Next]_vars => TypeInv'
<1> SUFFICES ASSUME TypeInv, [Next]_vars PROVE TypeInv'
  OBVIOUS
<1>1. CASE UNCHANGED vars
  BY <1>1, ProcsUnchanged, SettingsUnchanged, PrudyntUnchanged
  DEF vars, TypeInv, prudynt
<1> QED
  BY <1>1, ServeKeepsTypes, SetKeepsTypes, WriteKeepsTypes, PollKeepsTypes,
     PrudyntKeepsTypes DEF Next

LEMMA TypeInvHolds == Spec => []TypeInv
BY TypeInit, StepTypeInv, PTL DEF Spec

(* Types; in particular every number that a client may send comes to a     *)
(* point between the ends of the range, prudynt is told of no other, and   *)
(* a process looks at the state a bounded number of times                  *)
(* (normalize_with_state, prudynt_wait_for_imaging).                       *)
THEOREM TypeCorrect == Spec => []TypeOK
<1>1. TypeInv /\ FocusInRange => TypeOK
  <2> SUFFICES ASSUME TypeInv, FocusInRange PROVE TypeOK
    OBVIOUS
  <2>1. \A k \in Keys : Normalized(fields[k]) \in -1 .. Scale
    BY NormalizedOnScale DEF TypeInv, PrudyntOK
  <2>2. ASSUME NEW p \in Procs
        PROVE  /\ proc[p].pc \in {"idle", "write", "poll"}
               /\ \A k \in DOMAIN proc[p].wants : proc[p].wants[k] \in 0 .. Scale
               /\ proc[p].left \in 0 .. MaxPolls
    BY DEF TypeInv, ProcOK, Line
  <2> QED
    BY <2>1, <2>2 DEF TypeInv, TypeOK, SettingsOK, PrudyntOK
<1> QED
  BY <1>1, TypeInvHolds, FocusStaysInRange, PTL

-----------------------------------------------------------------------------
(* The values that are reported.                                           *)

\* What a client was shown last is a field of prudynt with the range of today.
ShownInv ==
  ShowsSettings => \A k \in Keys :
    /\ reply.shows.fields[k] \in Field \cup {Null}
    /\ SameRange(reply.shows.fields[k], fields[k])

\* The ranges stay those of the first state: on the grid.
OnGrid(f) == f # Null => \E q \in Nat \ {0} : Scale = q * (f.max - f.min)
RangesOnGrid == \A k \in Keys : OnGrid(fields[k])

(* A whole number, placed on the scale and stored, is itself again.        *)
LEMMA GridRoundTrip ==
  ASSUME NEW n \in Int, NEW range \in Int, range > 0, NEW q \in Nat \ {0}, Scale = q * range
  PROVE  (((n * Scale) \div range) * range) \div Scale = n
<1>1. n * Scale = (n * q) * range /\ n * q \in Int
  OBVIOUS
<1>2. (n * Scale) \div range = n * q
  BY <1>1, DivOfProduct
<1>3. (n * q) * range = n * Scale /\ Scale > 0 /\ Scale \in Int
  BY <1>1, ScaleAssumption
<1> QED
  BY <1>2, <1>3, DivOfProduct

(* A reported value that is asked for again is stored again.               *)
LEMMA ValueKept ==
  ASSUME NEW k \in Keys, NEW shown \in Field, NEW field \in Field,
         SameRange(shown, field), OnGrid(field)
  PROVE  LET back == Stored(Wanted(k, [percent |-> FALSE, v |-> shown.value], field), field)
         IN \/ back.value = shown.value
            \/ shown.value = 0 /\ shown.min # 0
            \/ shown.value = 1 /\ shown.max # 1
<1> DEFINE v == shown.value
           n == v - field.min
           range == field.max - field.min
           wanted == Wanted(k, [percent |-> FALSE, v |-> v], field)
           back == Stored(wanted, field)
<1>0. field # Null /\ shown # Null
  BY FieldsAssumption
<1>1. /\ n \in Int /\ range \in Int /\ range > 0 /\ 0 <= n /\ n <= range
      /\ field.min \in Int /\ v \in Int
      /\ shown.min = field.min /\ shown.max = field.max
  BY <1>0 DEF SameRange, Field
<1>2. PICK q \in Nat \ {0} : Scale = q * range
  BY <1>0 DEF OnGrid
<1>3. back.value = field.min + (wanted * range) \div Scale
  <2> HIDE DEF wanted
  <2> QED
    BY <1>0 DEF Stored, Field
<1>4. CASE v \notin {0, 1}
  <2>1. wanted = Clamp((n * Scale) \div range)
    BY <1>0, <1>4 DEF Wanted
  <2>2. (n * Scale) \div range \in 0 .. Scale
    BY <1>1, ScaleAssumption, PartOfRange
  <2>3. wanted = (n * Scale) \div range
    BY <2>1, <2>2, ScaleAssumption DEF Clamp
  <2>4. (wanted * range) \div Scale = n
    BY <1>1, <1>2, <2>3, GridRoundTrip
  <2> QED
    BY <1>1, <1>3, <2>4
<1>5. CASE v = 0 /\ shown.min = 0
  <2>1. wanted = 0
    BY <1>5, ScaleAssumption DEF Wanted
  <2>2. (0 * range) \div Scale = 0
    BY <1>1, ScaleAssumption
  <2> QED
    BY <1>1, <1>3, <1>5, <2>1, <2>2
<1>6. CASE v = 1 /\ shown.max = 1
  <2>1. wanted = Scale
    BY <1>6, ScaleAssumption DEF Wanted
  <2>2. (Scale * range) \div Scale = range
    BY <1>1, ScaleAssumption, DivOfProduct
  <2> QED
    BY <1>1, <1>3, <1>6, <2>1, <2>2
<1> QED
  BY <1>4, <1>5, <1>6

(* Only GetImagingSettings shows the fields, and it shows those of now.    *)
LEMMA ServeShows ==
  ASSUME Serve
  PROVE  UNCHANGED fields /\ (ShowsSettings' => reply'.shows.fields = fields)
<1>1. UNCHANGED fields
  BY DEF Serve, Move, Stop, SetCurrentPreset, Get, GetServiceCapabilities, prudynt
<1>2. ASSUME reply'.shows = Null
      PROVE  ~ ShowsSettings'
  BY <1>2 DEF ShowsSettings
<1>3. ASSUME NEW m \in MoveRequests, NEW token, Move(token, m.kinds, m)
      PROVE  ~ ShowsSettings'
  BY <1>2, <1>3 DEF Move, Answer
<1>4. ASSUME NEW token, Stop(token) \/ \E preset \in PresetsAsked : SetCurrentPreset(token, preset)
      PROVE  ~ ShowsSettings'
  BY <1>2, <1>4 DEF Stop, SetCurrentPreset, Answer
<1>5. ASSUME NEW token, NEW method \in Reading, Get(method, token)
      PROVE  ShowsSettings' => reply'.shows.fields = fields
  <2>1. \/ reply'.shows = Null
        \/ \E s : reply'.shows = Shows(s, method)
    BY <1>5 DEF Get, Answer
  <2>2. ASSUME NEW s, reply'.shows = Shows(s, method), method = "GetImagingSettings"
        PROVE  reply'.shows.fields = fields
    BY <2>2 DEF Shows
  <2>3. ASSUME NEW s, reply'.shows = Shows(s, method), method # "GetImagingSettings"
        PROVE  "fields" \notin DOMAIN reply'.shows
    BY <2>3 DEF Shows, Reading
  <2> QED
    BY <1>2, <2>1, <2>2, <2>3 DEF ShowsSettings
<1>6. ASSUME GetServiceCapabilities
      PROVE  ~ ShowsSettings'
  BY <1>2, <1>6 DEF GetServiceCapabilities, Answer, ShowsSettings
<1> QED
  BY <1>1, <1>3, <1>4, <1>5, <1>6 DEF Serve

LEMMA StepShownInv ==
  ASSUME TypeInv, TypeInv', ShownInv, RangesOnGrid, [Next]_vars
  PROVE  ShownInv' /\ RangesOnGrid'
<1>1. \A k \in Keys : fields[k] \in Field \cup {Null} /\ fields'[k] \in Field \cup {Null}
  BY DEF TypeInv, PrudyntOK
<1>2. CASE Serve
  BY <1>1, <1>2, ServeShows DEF ShownInv, RangesOnGrid, OnGrid, SameRange
<1>3. CASE Apply
  <2>1. \A k \in Keys : SameRange(fields'[k], fields[k])
    BY <1>3, ApplyKeepsFields
  <2>2. reply' = reply
    BY <1>3 DEF Apply
  <2>3. RangesOnGrid'
    BY <2>1 DEF RangesOnGrid, OnGrid, SameRange
  <2>4. ShownInv'
    BY <2>1, <2>2 DEF ShownInv, ShowsSettings, SameRange
  <2> QED
    BY <2>3, <2>4
<1>4. CASE UNCHANGED fields /\ (reply' = reply \/ reply'.shows = Null)
  BY <1>4 DEF ShownInv, ShowsSettings, RangesOnGrid
<1>5. ASSUME NEW p \in Procs, Begin(p) \/ Write(p) \/ Poll(p)
      PROVE  UNCHANGED fields /\ (reply' = reply \/ reply'.shows = Null)
  <2>1. ASSUME NEW fault, Ends(p, fault)
        PROVE  reply'.shows = Null
    BY <2>1 DEF Ends, Answer
  <2>2. CASE Begin(p)
    <3>1. PICK r : SetImagingSettings(p, r)
      BY <2>2 DEF Begin
    <3> QED
      BY <2>1, <3>1 DEF SetImagingSettings, prudynt
  <2>3. CASE Write(p)
    BY <2>1, <2>3 DEF Write
  <2>4. CASE Poll(p)
    BY <2>1, <2>4 DEF Poll, prudynt
  <2> QED
    BY <1>5, <2>2, <2>3, <2>4
<1>6. CASE Die \/ Start \/ UNCHANGED vars
  BY <1>4, <1>6 DEF Die, Start, vars
<1> QED
  BY <1>2, <1>3, <1>4, <1>5, <1>6 DEF Next

(* A client that sets back a value that GetImagingSettings reported leaves *)
(* it as it was, however many requests other clients have made meanwhile;  *)
(* the exceptions are those that ReportedValueKept names                   *)
(* (parse_imaging_value, normalize_with_state).                            *)
THEOREM ReportedValuesAreKept == Spec => []ReportedValueKept
<1>1. Init => ShownInv /\ RangesOnGrid
  <2> SUFFICES ASSUME Init PROVE ShownInv /\ RangesOnGrid
    OBVIOUS
  <2>1. ShownInv
    BY DEF Init, Answer, ShownInv, ShowsSettings
  <2>2. ASSUME NEW k \in Keys, fields[k] # Null
        PROVE  \E q \in Nat \ {0} : Scale = q * (fields[k].max - fields[k].min)
    <3>1. \E q \in 1 .. Scale : Scale = q * (fields[k].max - fields[k].min)
      BY <2>2, GridAssumption DEF Init
    <3> QED
      BY <3>1, ScaleAssumption
  <2> QED
    BY <2>1, <2>2 DEF RangesOnGrid, OnGrid
<1>2. TypeInv /\ TypeInv' /\ ShownInv /\ RangesOnGrid /\ [Next]_vars
      => ShownInv' /\ RangesOnGrid'
  BY StepShownInv
<1>3. TypeInv /\ ShownInv /\ RangesOnGrid => ReportedValueKept
  <2> SUFFICES ASSUME TypeInv, ShownInv, RangesOnGrid, ShowsSettings, NEW k \in Keys,
                      reply.shows.fields[k] # Null
               PROVE  LET shown == reply.shows.fields[k]
                          back == Stored(Wanted(k, [percent |-> FALSE, v |-> shown.value],
                                                fields[k]), fields[k])
                      IN \/ back.value = shown.value
                         \/ shown.value = 0 /\ shown.min # 0
                         \/ shown.value = 1 /\ shown.max # 1
    BY DEF ReportedValueKept
  <2>1. /\ reply.shows.fields[k] \in Field /\ fields[k] \in Field
        /\ SameRange(reply.shows.fields[k], fields[k])
        /\ OnGrid(fields[k])
    BY DEF ShownInv, RangesOnGrid, SameRange, TypeInv, PrudyntOK
  <2> QED
    BY <2>1, ValueKept
<1> QED
  BY <1>1, <1>2, <1>3, TypeInvHolds, PTL DEF Spec
=============================================================================
