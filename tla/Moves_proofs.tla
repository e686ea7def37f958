---------------------------- MODULE Moves_proofs ----------------------------
(***************************************************************************)
(* Proofs about Moves: whatever is asked of however many processes, the    *)
(* camera is only sent to steps of its range, a position that was reported *)
(* can be gone back to, and a move goes where its numbers ask.             *)
(***************************************************************************)
EXTENDS Moves, SequenceTheorems, TLAPS

-----------------------------------------------------------------------------
(* The conversions.                                                        *)

LEMMA ClampedInRange ==
  ASSUME NEW v \in Int, NEW min \in Int, NEW max \in Int, min <= max
  PROVE  Clamped(v, min, max) \in min .. max
BY DEF Clamped

LEMMA ScaledIsWhole ==
  ASSUME NEW v \in Int, NEW n \in Int, NEW d \in Int, d > 0
  PROVE  (v * n) \div d \in Int
<1>1. v * n \in Int
  OBVIOUS
<1>2. \A w \in Int : w \div d \in Int
  OBVIOUS
<1> QED
  BY <1>1, <1>2

\* the ranges of a configuration
LEMMA StepsAreARange ==
  ASSUME node \in Nodes, NEW a \in Axes
  PROVE  /\ node.step[a].min \in Int /\ node.step[a].max \in Int
         /\ node.step[a].min <= node.step[a].max
         /\ Span(node.step[a]) \in Int
BY NodesAssumption DEF Whole, Span

LEMMA ReportedIsARange ==
  ASSUME node \in Nodes, NEW a \in Axes
  PROVE  /\ Reported(a).min \in Int /\ Reported(a).max \in Int
         /\ Span(Reported(a)) \in Int /\ Span(Reported(a)) > 0
<1>1. CASE a = "zoom"
  BY <1>1, OneAssumption DEF Reported, ZoomRange, Span
<1>2. CASE a # "zoom"
  BY <1>2, NodesAssumption DEF Reported, Whole, Span, Axes
<1> QED
  BY <1>1, <1>2

LEMMA GenericIsARange ==
  /\ Generic.min \in Int /\ Generic.max \in Int
  /\ Span(Generic) \in Int /\ Span(Generic) > 0
BY OneAssumption DEF Generic, Span

(* ptz_onvif_to_machine_units ends in the range, whatever the number.      *)
LEMMA StepsInRange ==
  ASSUME node \in Nodes, NEW a \in Axes, NEW v \in Int, NEW range,
         range.min \in Int, range.max \in Int,
         Span(range) \in Int, Span(range) > 0
  PROVE  ToSteps(a, v, range) \in node.step[a].min .. node.step[a].max
<1> DEFINE w == IF Inverted(a) THEN range.max - (v - range.min) ELSE v
           s == node.step[a]
<1>1. w - range.min \in Int
  OBVIOUS
<1>2. s.min \in Int /\ s.max \in Int /\ s.min <= s.max /\ Span(s) \in Int
  BY StepsAreARange
<1>3. ((w - range.min) * Span(s)) \div Span(range) \in Int
  BY <1>1, <1>2, ScaledIsWhole
<1>4. ((w - range.min) * Span(s)) \div Span(range) + s.min \in Int
  BY <1>2, <1>3
<1> QED
  BY <1>2, <1>4, ClampedInRange DEF ToSteps

LEMMA DeltaIsWhole ==
  ASSUME node \in Nodes, NEW a \in Axes, NEW v \in Int, NEW range,
         Span(range) \in Int, Span(range) > 0
  PROVE  ToDelta(a, v, range) \in Int
<1> DEFINE w == IF Inverted(a) THEN 0 - v ELSE v
           s == node.step[a]
<1>1. w \in Int
  OBVIOUS
<1>2. Span(s) \in Int
  BY StepsAreARange
<1>3. (w * Span(s)) \div Span(range) \in Int
  BY <1>1, <1>2, ScaledIsWhole
<1> QED
  BY <1>2, <1>3 DEF ToDelta, Clamped

LEMMA ReversedIsWhole ==
  ASSUME NEW a, NEW v \in Int
  PROVE  Reversed(a, v) \in Int
BY DEF Reversed

-----------------------------------------------------------------------------
(* What a request may make a process run.                                  *)

\* a request of a client
Good(r) ==
  /\ r.method \in Methods
  /\ r.pt # Null => \A a \in PanTilt : Of(a, r.pt) \in Int \cup {Null}
  /\ r.zoom # Null => r.zoom.x \in Int \cup {Null}

\* a command that leaves the camera in its range
Safe(c) ==
  /\ c.op = "go" => \A a \in Axes : a \in DOMAIN c.to =>
                      c.to[a] \in Int /\ Reachable(a, c.to[a])
  /\ c.op = "shift" => \A a \in Axes : a \in DOMAIN c.to => c.to[a] \in Int

\* at most two commands, which are safe
Short(s) ==
  \/ s = <<>>
  \/ s = <<s[1]>> /\ Safe(s[1])
  \/ s = <<s[1], s[2]>> /\ Safe(s[1]) /\ Safe(s[2])

LEMMA ShortLists ==
  /\ Short(<<>>)
  /\ \A c : Safe(c) => Short(<<c>>)
  /\ \A c, d : Safe(c) /\ Safe(d) => Short(<<c, d>>)
BY DEF Short

LEMMA OtherCommandsAreSafe ==
  ASSUME NEW c, c.op \notin {"go", "shift"}
  PROVE  Safe(c)
BY DEF Safe

LEMMA StopIsSafe == ASSUME NEW axes PROVE Safe(Stop(axes))
BY OtherCommandsAreSafe DEF Stop, Halt

LEMMA InRangeIsReachable ==
  ASSUME NEW a \in Axes, NEW n \in node.step[a].min .. node.step[a].max
  PROVE  Reachable(a, n)
BY DEF Reachable

LEMMA DeltaOfRequest ==
  ASSUME node \in Nodes, NEW r, Good(r), NEW a \in Axes
  PROVE  Delta(a, r) \in Int
<1>1. CASE a = "zoom" /\ (r.zoom = Null \/ r.zoom.x = Null)
  BY <1>1 DEF Delta
<1>2. CASE a = "zoom" /\ ~ (r.zoom = Null \/ r.zoom.x = Null)
  <2>1. r.zoom.x \in Int
    BY <1>2 DEF Good
  <2>2. Span(ZoomRange) \in Int /\ Span(ZoomRange) > 0
    BY OneAssumption DEF ZoomRange, Span
  <2> QED
    BY <1>2, <2>1, <2>2, DeltaIsWhole DEF Delta
<1>3. CASE a # "zoom" /\ (r.pt = Null \/ Of(a, r.pt) = Null)
  BY <1>3 DEF Delta
<1>4. CASE a # "zoom" /\ ~ (r.pt = Null \/ Of(a, r.pt) = Null)
  <2>1. Of(a, r.pt) \in Int
    BY <1>4 DEF Good, Axes
  <2>2. Reversed(a, Of(a, r.pt)) \in Int
    BY <2>1, ReversedIsWhole
  <2>3. Span(node.range[a]) \in Int /\ Span(node.range[a]) > 0
    BY <1>4, ReportedIsARange DEF Reported
  <2> QED
    BY <1>4, <2>2, <2>3, DeltaIsWhole DEF Delta
<1> QED
  BY <1>1, <1>2, <1>3, <1>4

(* An absolute move, and the position of MoveAndStartTracking.             *)
LEMMA JumpIsSafe ==
  ASSUME node \in Nodes, NEW r, Good(r)
  PROVE  Safe(JumpTo(r))
<1> SUFFICES ASSUME NEW a \in Axes, a \in node.jumps
             PROVE  Target(a, r) \in Int /\ Reachable(a, Target(a, r))
  BY DEF Safe, JumpTo, Go
<1>1. CASE a \notin Aims(r)
  <2>1. Target(a, r) = 0
    BY <1>1 DEF Target
  <2> QED
    BY <2>1, StepsAreARange DEF Reachable
<1>2. CASE a \in Aims(r) /\ a = "zoom"
  <2>1. r.zoom # Null /\ r.zoom.x # Null
    BY <1>2 DEF Aims, PanTilt
  <2>2. r.zoom.x \in Int
    BY <2>1 DEF Good
  <2>3. /\ ZoomRange.min \in Int /\ ZoomRange.max \in Int
        /\ Span(ZoomRange) \in Int /\ Span(ZoomRange) > 0
    BY OneAssumption DEF ZoomRange, Span
  <2>4. Target(a, r) \in node.step[a].min .. node.step[a].max
    BY <1>2, <2>2, <2>3, StepsInRange DEF Target
  <2> QED
    BY <2>4, StepsAreARange DEF Reachable
<1>3. CASE a \in Aims(r) /\ a # "zoom"
  <2>1. r.pt # Null /\ Of(a, r.pt) # Null
    BY <1>3 DEF Aims
  <2>2. Of(a, r.pt) \in Int
    BY <1>3, <2>1 DEF Good, Axes
  <2>3. Reversed(a, Of(a, r.pt)) \in Int
    BY <2>2, ReversedIsWhole
  <2>4. /\ node.range[a].min \in Int /\ node.range[a].max \in Int
        /\ Span(node.range[a]) \in Int /\ Span(node.range[a]) > 0
    BY <1>3, ReportedIsARange DEF Reported
  <2>5. Target(a, r) \in node.step[a].min .. node.step[a].max
    <3>1. CASE r.pt.space = "spherical"
      BY <1>3, <2>3, <2>4, <3>1, StepsInRange DEF Target
    <3>2. CASE r.pt.space # "spherical"
      BY <1>3, <2>3, <3>2, GenericIsARange, StepsInRange DEF Target
    <3> QED
      BY <3>1, <3>2
  <2> QED
    BY <2>5, StepsAreARange DEF Reachable
<1> QED
  BY <1>1, <1>2, <1>3

\* a command, or none
Brief(s) == s = <<>> \/ (s = <<s[1]>> /\ Safe(s[1]))

LEMMA BriefIsShort == ASSUME NEW s, Brief(s) PROVE Short(s)
BY DEF Brief, Short

LEMMA PairOf ==
  ASSUME NEW c, NEW d
  PROVE  <<c>> \o <<d>> = <<c, d>>
<1> DEFINE S == {c, d}
<1>1. <<c>> \in Seq(S) /\ <<d>> \in Seq(S) /\ <<c, d>> \in Seq(S)
  OBVIOUS
<1>2. Len(<<c>>) = 1 /\ Len(<<d>>) = 1 /\ Len(<<c, d>>) = 2
  OBVIOUS
<1>3. /\ <<c>> \o <<d>> \in Seq(S)
      /\ Len(<<c>> \o <<d>>) = 2
      /\ \A i \in 1 .. 2 : (<<c>> \o <<d>>)[i] = IF i <= 1 THEN <<c>>[i] ELSE <<d>>[i - 1]
  BY <1>1, <1>2, ConcatProperties
<1>4. \A i \in 1 .. 2 : (<<c>> \o <<d>>)[i] = <<c, d>>[i]
  BY <1>3
<1> QED
  BY <1>1, <1>2, <1>3, <1>4, SeqEqual

LEMMA ListsOfTwo ==
  ASSUME NEW c, NEW d
  PROVE  /\ Append(<<c>>, d) = <<c, d>>
         /\ Head(<<c>>) = c /\ Head(<<c, d>>) = c
         /\ Tail(<<c, d>>) = <<d>>
         /\ <<c>> # <<>> /\ Len(<<c>>) = 1
<1>1. Tail(<<c, d>>) = <<d>>
  <2>1. /\ <<c, d>> \in Seq({c, d}) /\ <<c, d>> # <<>> /\ <<d>> \in Seq({c, d})
        /\ Len(<<c, d>>) = 2 /\ Len(<<d>>) = 1
    OBVIOUS
  <2>2. /\ Tail(<<c, d>>) \in Seq({c, d})
        /\ Len(Tail(<<c, d>>)) = 1
        /\ \A i \in 1 .. 1 : Tail(<<c, d>>)[i] = <<c, d>>[i + 1]
    BY <2>1, HeadTailProperties
  <2>3. \A i \in 1 .. 1 : Tail(<<c, d>>)[i] = <<d>>[i]
    BY <2>2
  <2> QED
    BY <2>1, <2>2, <2>3, SeqEqual
<1>2. Append(<<c>>, d) = <<c, d>>
  <2>1. /\ <<c, d>> \in Seq({c, d}) /\ <<c>> \in Seq({c, d})
        /\ Len(<<c, d>>) = 2 /\ Len(<<c>>) = 1
    OBVIOUS
  <2>2. /\ Append(<<c>>, d) \in Seq({c, d})
        /\ Len(Append(<<c>>, d)) = 2
        /\ \A i \in 1 .. 1 : Append(<<c>>, d)[i] = <<c>>[i]
        /\ Append(<<c>>, d)[2] = d
    BY <2>1, AppendProperties
  <2>3. \A i \in 1 .. 2 : Append(<<c>>, d)[i] = <<c, d>>[i]
    BY <2>2
  <2> QED
    BY <2>1, <2>2, <2>3, SeqEqual
<1> QED
  BY <1>1, <1>2

LEMMA EmptyOfShort ==
  ASSUME NEW s, Short(s)
  PROVE  <<>> \o s = s /\ s \o <<>> = s
<1>1. s \in Seq({s[1], s[2]})
  <2>1. <<>> \in Seq({s[1], s[2]})
    OBVIOUS
  <2>2. <<s[1]>> \in Seq({s[1], s[2]})
    OBVIOUS
  <2>3. <<s[1], s[2]>> \in Seq({s[1], s[2]})
    OBVIOUS
  <2> QED
    BY <2>1, <2>2, <2>3 DEF Short
<1> QED
  BY <1>1, ConcatEmptySeq

LEMMA TwoBriefAreShort ==
  ASSUME NEW s, NEW t, Brief(s), Brief(t)
  PROVE  Short(s \o t)
<1>1. CASE s = <<>> \/ t = <<>>
  <2>1. s \o t = s \/ s \o t = t
    BY <1>1, BriefIsShort, EmptyOfShort
  <2> QED
    BY <2>1, BriefIsShort
<1>2. CASE s # <<>> /\ t # <<>>
  <2>1. s = <<s[1]>> /\ Safe(s[1]) /\ t = <<t[1]>> /\ Safe(t[1])
    BY <1>2 DEF Brief
  <2>2. <<s[1]>> \o <<t[1]>> = <<s[1], t[1]>>
    BY PairOf
  <2>3. s \o t = <<s[1], t[1]>>
    BY <2>1, <2>2
  <2> QED
    BY <2>1, <2>3, ShortLists
<1> QED
  BY <1>1, <1>2

\* the first two turn, the others stop, and none of them does what another does
LEMMA FourAreShort ==
  ASSUME NEW turn, NEW drive, NEW level, NEW hold,
         Brief(turn), Brief(drive), Brief(level), Brief(hold),
         turn = <<>> \/ level = <<>>, drive = <<>> \/ hold = <<>>
  PROVE  Short(turn \o drive \o (level \o hold))
<1>1. Brief(<<>>) /\ <<>> \o <<>> = <<>>
  BY DEF Brief
<1>2. CASE turn = <<>> /\ drive = <<>>
  <2>1. Short(level \o hold) /\ turn \o drive = <<>>
    BY <1>1, <1>2, TwoBriefAreShort
  <2> QED
    BY <2>1, EmptyOfShort
<1>3. CASE turn = <<>> /\ hold = <<>>
  <2>1. turn \o drive = drive /\ level \o hold = level
    BY <1>3, BriefIsShort, EmptyOfShort
  <2> QED
    BY <2>1, TwoBriefAreShort
<1>4. CASE level = <<>> /\ drive = <<>>
  <2>1. turn \o drive = turn /\ level \o hold = hold
    BY <1>4, BriefIsShort, EmptyOfShort
  <2> QED
    BY <2>1, TwoBriefAreShort
<1>5. CASE level = <<>> /\ hold = <<>>
  <2>1. level \o hold = <<>> /\ Short(turn \o drive)
    BY <1>1, <1>5, TwoBriefAreShort
  <2> QED
    BY <2>1, EmptyOfShort
<1> QED
  BY <1>2, <1>3, <1>4, <1>5

(* ContinuousMove goes to the end of a range for each axis it turns.       *)
LEMMA ContinuousMoveIsShort ==
  ASSUME node \in Nodes, NEW r, Good(r)
  PROVE  Short(ContinuousMove(r).commands)
<1> DEFINE d == [a \in Axes |-> Delta(a, r)]
           turning == {a \in PanTilt : d[a] # 0}
           turner == CASE turning = PanTilt -> "move_both"
                       [] turning = {"pan"} -> "move_x"
                       [] turning = {"tilt"} -> "move_y"
                       [] turning = {} -> Null
           turn == IF turning # {} /\ Has(turner)
                   THEN <<Go([a \in turning |-> End(a, d[a])])>> ELSE <<>>
           zoomer == IF d["zoom"] > 0 THEN "move_in" ELSE "move_out"
           drive == IF d["zoom"] # 0
                    THEN <<Go([a \in {"zoom"} |-> End(a, d[a])])>> ELSE <<>>
           calm(still, axes) ==
             IF still /\ Has("move_stop") THEN <<Stop(axes)>> ELSE <<>>
           level == calm(r.pt # Null /\ r.pt.x # Null /\ r.pt.y # Null
                         /\ turning = {}, PanTilt)
           hold == calm(r.zoom # Null /\ r.zoom.x # Null /\ d["zoom"] = 0, {"zoom"})
<1>1. \A a \in Axes : Reachable(a, End(a, d[a])) /\ End(a, d[a]) \in Int
  <2> SUFFICES ASSUME NEW a \in Axes
               PROVE  Reachable(a, End(a, d[a])) /\ End(a, d[a]) \in Int
    OBVIOUS
  <2>1. End(a, d[a]) \in node.step[a].min .. node.step[a].max
    BY StepsAreARange DEF End
  <2> QED
    BY <2>1, StepsAreARange, InRangeIsReachable
<1>2. Brief(turn)
  <2>1. Safe(Go([a \in turning |-> End(a, d[a])]))
    BY <1>1 DEF Safe, Go
  <2> QED
    BY <2>1 DEF Brief
<1>3. Brief(drive)
  <2>1. Safe(Go([a \in {"zoom"} |-> End(a, d[a])]))
    BY <1>1 DEF Safe, Go
  <2> QED
    BY <2>1 DEF Brief
<1>4. Brief(level) /\ Brief(hold)
  BY StopIsSafe DEF Brief
<1>5. (turn = <<>> \/ level = <<>>) /\ (drive = <<>> \/ hold = <<>>)
  OBVIOUS
<1>6. Short(turn \o drive \o (level \o hold))
  <2> HIDE DEF turn, drive, level, hold
  <2> QED
    BY <1>2, <1>3, <1>4, <1>5, FourAreShort
<1>7. Short(turn) /\ Short(<<>>)
  BY <1>2, BriefIsShort, ShortLists
<1>8. \/ ContinuousMove(r).commands = <<>>
      \/ ContinuousMove(r).commands = turn
      \/ ContinuousMove(r).commands = turn \o drive \o (level \o hold)
  BY DEF ContinuousMove, Refuse, Plan
<1> QED
  BY <1>6, <1>7, <1>8

(* RelativeMove: whatever the space, the numbers are whole.                *)
LEMMA RelativeMoveIsShort ==
  ASSUME node \in Nodes, NEW r, Good(r)
  PROVE  Short(RelativeMove(r).commands)
<1> DEFINE view == r.pt # Null /\ r.pt.space = "fov"
           wrong == \/ r.pt = Null /\ r.zoom = Null
                    \/ r.zoom # Null /\ r.zoom.x = Null
                    \/ r.pt # Null /\ \E a \in PanTilt :
                         \/ Of(a, r.pt) = Null
                         \/ view /\ Of(a, r.pt) \notin 0 - One .. One
           by == [a \in Axes |-> IF view /\ a # "zoom" THEN ViewDelta(a, Of(a, r.pt))
                                 ELSE Delta(a, r)]
           shift == Shift([a \in node.jumps |-> by[a]])
<1>1. ASSUME ~ wrong, NEW a \in Axes
      PROVE  by[a] \in Int
  <2>1. CASE view /\ a # "zoom"
    <3>1. a \in PanTilt /\ Of(a, r.pt) \in Int
      BY <1>1, <2>1 DEF Good, Axes
    <3>2. node.fov[a] \in Int
      BY <3>1, NodesAssumption
    <3>3. (Of(a, r.pt) * node.fov[a]) \div (2 * One) \in Int
      <4>1. 2 * One \in Int /\ 2 * One > 0
        BY OneAssumption
      <4> QED
        BY <3>1, <3>2, <4>1, ScaledIsWhole
    <3>4. Span(node.range[a]) \in Int /\ Span(node.range[a]) > 0
      BY <2>1, ReportedIsARange DEF Reported
    <3>5. ViewDelta(a, Of(a, r.pt)) \in Int
      BY <3>3, <3>4, DeltaIsWhole, ReversedIsWhole DEF ViewDelta
    <3> QED
      BY <2>1, <3>5
  <2>2. CASE ~ (view /\ a # "zoom")
    BY <2>2, DeltaOfRequest
  <2> QED
    BY <2>1, <2>2
<1>2. ~ wrong => Safe(shift)
  BY <1>1 DEF Safe, Shift
<1>3. \/ RelativeMove(r).commands = <<>>
      \/ ~ wrong /\ RelativeMove(r).commands = <<shift>>
  BY DEF RelativeMove, Refuse, Plan
<1> QED
  BY <1>2, <1>3, ShortLists

LEMMA AbsoluteMoveIsShort ==
  ASSUME node \in Nodes, NEW r, Good(r)
  PROVE  Short(AbsoluteMove(r).commands)
<1>1. \/ AbsoluteMove(r).commands = <<>>
      \/ AbsoluteMove(r).commands = <<JumpTo(r)>>
  BY DEF AbsoluteMove, Refuse, Plan
<1> QED
  BY <1>1, JumpIsSafe, ShortLists

\* a command that goes to a preset or home
LEMMA PlacesAreSafe ==
  ASSUME node \in Nodes,
         NEW place \in {PresetAt[i] : i \in DOMAIN PresetAt} \cup {HomeAt}
  PROVE  Safe(Go(place))
<1> SUFFICES ASSUME NEW a \in Axes, a \in DOMAIN place
             PROVE  place[a] \in Int /\ Reachable(a, place[a])
  BY DEF Safe, Go
<1>1. place[a] \in node.step[a].min .. node.step[a].max
  BY PlacesAssumption
<1> QED
  BY <1>1, StepsAreARange, InRangeIsReachable

LEMMA MoveAndStartTrackingIsShort ==
  ASSUME node \in Nodes, NEW r, Good(r)
  PROVE  Short(MoveAndStartTracking(r).commands)
<1> DEFINE preset == r.target # Null /\ Has("move_preset")
           jump == ~ preset /\ Has("jump_to_abs")
           first == IF preset /\ r.target \in DOMAIN PresetAt
                    THEN <<Go(PresetAt[r.target])>>
                    ELSE IF jump /\ Aims(r) # {} THEN <<JumpTo(r)>> ELSE <<>>
           track == Other("track")
<1>1. Safe(track)
  BY OtherCommandsAreSafe DEF Other
<1>2. Brief(first)
  <2>1. r.target \in DOMAIN PresetAt => Safe(Go(PresetAt[r.target]))
    BY PlacesAreSafe
  <2>2. Safe(JumpTo(r))
    BY JumpIsSafe
  <2> QED
    BY <2>1, <2>2 DEF Brief
<1>3. Short(Append(first, track))
  <2> HIDE DEF first, track
  <2>1. CASE first = <<>>
    <3>1. Append(first, track) = <<track>>
      BY <2>1
    <3> QED
      BY <1>1, <3>1, ShortLists
  <2>2. CASE first = <<first[1]>> /\ Safe(first[1])
    <3>1. Append(<<first[1]>>, track) = <<first[1], track>>
      BY ListsOfTwo
    <3> QED
      BY <1>1, <2>2, <3>1, ShortLists
  <2> QED
    BY <1>2, <2>1, <2>2 DEF Brief
<1>4. \/ MoveAndStartTracking(r).commands = <<>>
      \/ MoveAndStartTracking(r).commands = Append(first, track)
  BY DEF MoveAndStartTracking, Refuse, Plan
<1> QED
  BY <1>3, <1>4, ShortLists

LEMMA SimpleMoveIsShort ==
  ASSUME NEW r, NEW command, NEW does, Safe(does)
  PROVE  Short(SimpleMove(r, command, does).commands)
BY ShortLists DEF SimpleMove, Refuse, Plan

LEMMA StopMoveIsShort ==
  ASSUME NEW r
  PROVE  Short(StopMove(r).commands)
<1>1. \/ StopMove(r).commands = <<>>
      \/ StopMove(r).commands = <<Stop(r.target)>>
  BY DEF StopMove, Refuse, Plan
<1> QED
  BY <1>1, StopIsSafe, ShortLists

LEMMA GetStatusIsShort ==
  ASSUME NEW r
  PROVE  Short(GetStatus(r).commands)
<1> DEFINE run(command) == IF Has(command) THEN <<Other(command)>> ELSE <<>>
           position == run("get_position")
           movement == run("is_moving")
<1>1. Brief(position) /\ Brief(movement)
  BY OtherCommandsAreSafe DEF Brief, Other
<1>2. Short(position \o movement)
  <2> HIDE DEF position, movement
  <2> QED
    BY <1>1, TwoBriefAreShort
<1>3. \/ GetStatus(r).commands = <<>>
      \/ GetStatus(r).commands = position \o movement
  BY DEF GetStatus, Refuse, Plan
<1> QED
  BY <1>2, <1>3, ShortLists

LEMMA PlansAreShort ==
  ASSUME node \in Nodes, NEW r, Good(r)
  PROVE  Short(PlanOf(r).commands)
<1>1. Safe(Go(HomeAt)) /\ Safe(Other("set_home"))
  BY PlacesAreSafe, OtherCommandsAreSafe DEF Other
<1>2. r.method \in Methods
  BY DEF Good
<1> QED
  BY <1>1, <1>2, ContinuousMoveIsShort, RelativeMoveIsShort, AbsoluteMoveIsShort,
     MoveAndStartTrackingIsShort, StopMoveIsShort, SimpleMoveIsShort,
     GetStatusIsShort
  DEF PlanOf, Methods

-----------------------------------------------------------------------------
(* The inductive invariant.                                                *)

ProcessOK(p) ==
  /\ DOMAIN proc[p] = {"pc", "ask", "todo", "fault", "read", "alone"}
  /\ proc[p].pc \in {"idle", "run"}
  /\ proc[p].ask \in Requests[p] \cup {NoAsk}
  /\ Short(proc[p].todo)
  /\ proc[p].pc = "run" => proc[p].todo # <<>>

CameraInv ==
  /\ node \in Nodes
  /\ CameraInRange
  /\ DOMAIN proc = Procs
  /\ \A p \in Procs : ProcessOK(p)
  /\ shown # Null => shown.moving \in BOOLEAN

LEMMA CameraInit == Init => CameraInv
<1> SUFFICES ASSUME Init PROVE CameraInv
  OBVIOUS
<1>1. node \in Nodes /\ shown = Null
  BY DEF Init
<1>2. CameraInRange
  BY <1>1, StepsAreARange, InRangeIsReachable DEF Init, CameraInRange
<1>3. DOMAIN proc = Procs /\ \A p \in Procs : ProcessOK(p)
  BY ShortLists DEF Init, ProcessOK, Idle
<1> QED
  BY <1>1, <1>2, <1>3 DEF CameraInv

LEMMA ShortTail ==
  ASSUME NEW s, Short(s), s # <<>>
  PROVE  /\ Safe(Head(s))
         /\ Len(s) # 1 => Short(Tail(s)) /\ Tail(s) # <<>>
<1>1. CASE s = <<s[1]>> /\ Safe(s[1])
  <2>1. Head(<<s[1]>>) = s[1] /\ Len(<<s[1]>>) = 1
    BY ListsOfTwo
  <2> QED
    BY <1>1, <2>1
<1>2. CASE s = <<s[1], s[2]>> /\ Safe(s[1]) /\ Safe(s[2])
  <2>1. Head(<<s[1], s[2]>>) = s[1] /\ Tail(<<s[1], s[2]>>) = <<s[2]>>
    BY ListsOfTwo
  <2>2. Head(s) = s[1] /\ Tail(s) = <<s[2]>>
    BY <1>2, <2>1
  <2>3. <<s[2]>> # <<>>
    BY ListsOfTwo
  <2> QED
    BY <1>2, <2>2, <2>3, ShortLists
<1> QED
  BY <1>1, <1>2 DEF Short

(* A request that begins knows commands that are safe.                     *)
LEMMA BeginKeepsCamera ==
  ASSUME CameraInv, NEW p \in Procs, NEW r \in Requests[p], Begin(p, r)
  PROVE  CameraInv'
<1>1. UNCHANGED <<node, at, goal>> /\ shown' = Null
  BY DEF Begin, motors
<1>2. Good(r)
  BY RequestsAssumption DEF Good
<1>3. Short(PlanOf(r).commands) /\ PlanOf(r).commands # <<>>
  BY <1>2, PlansAreShort DEF CameraInv, Begin
<1>4. CameraInRange'
  BY <1>1 DEF CameraInv, CameraInRange, Reachable
<1>5. DOMAIN proc' = Procs
  BY DEF Begin
<1>6. ASSUME NEW q \in Procs
      PROVE  ProcessOK(q)'
  <2>1. CASE q = p
    <3>1. /\ proc'[q].pc = "run" /\ proc'[q].ask = r
          /\ proc'[q].todo = PlanOf(r).commands
          /\ DOMAIN proc'[q] = {"pc", "ask", "todo", "fault", "read", "alone"}
      BY <2>1 DEF Begin
    <3>2. Short(proc'[q].todo)
      BY <1>3, <3>1
    <3> QED
      BY <1>1, <1>3, <2>1, <3>1, <3>2 DEF ProcessOK, Short, Safe, Reachable
  <2>2. CASE q # p
    <3>1. proc'[q] = proc[q] \/ proc'[q] = [proc[q] EXCEPT !.alone = FALSE]
      BY <2>2 DEF Begin
    <3>2. ProcessOK(q)
      BY DEF CameraInv
    <3>3. /\ proc'[q].pc = proc[q].pc /\ proc'[q].ask = proc[q].ask
          /\ proc'[q].todo = proc[q].todo /\ DOMAIN proc'[q] = DOMAIN proc[q]
      BY <3>1, <3>2 DEF ProcessOK
    <3> QED
      BY <1>1, <3>2, <3>3 DEF ProcessOK, Short, Safe, Reachable
  <2> QED
    BY <2>1, <2>2
<1> QED
  BY <1>1, <1>4, <1>5, <1>6 DEF CameraInv

(* A safe command leaves the camera in its range.                          *)
LEMMA MoveKeepsRange ==
  ASSUME node \in Nodes, CameraInRange, node' = node,
         NEW c, Safe(c), Move(c) \/ UNCHANGED motors
  PROVE  CameraInRange'
<1>1. CASE UNCHANGED motors
  BY <1>1 DEF motors, CameraInRange, Reachable
<1>2. CASE Move(c)
  <2>1. at' = at
    BY <1>2 DEF Move
  <2>2. ASSUME NEW a \in Axes
        PROVE  goal'[a] \in Int /\ Reachable(a, goal'[a])
    <3>1. goal'[a] =
            CASE c.op = "go" /\ a \in DOMAIN c.to -> c.to[a]
              [] c.op = "shift" /\ a \in DOMAIN c.to ->
                   Clamped(at[a] + c.to[a], node.step[a].min, node.step[a].max)
              [] c.op = "halt" /\ a \in c.to -> at[a]
              [] OTHER -> goal[a]
      BY <1>2 DEF Move
    <3>2. at[a] \in Int /\ goal[a] \in Int /\ Reachable(a, at[a]) /\ Reachable(a, goal[a])
      BY DEF CameraInRange
    <3>3. CASE c.op = "go" /\ a \in DOMAIN c.to
      BY <3>1, <3>3 DEF Safe
    <3>4. CASE c.op = "shift" /\ a \in DOMAIN c.to
      <4>1. goal'[a] = Clamped(at[a] + c.to[a], node.step[a].min, node.step[a].max)
        BY <3>1, <3>4
      <4>2. at[a] + c.to[a] \in Int
        BY <3>2, <3>4 DEF Safe
      <4>3. goal'[a] \in node.step[a].min .. node.step[a].max
        BY <4>1, <4>2, StepsAreARange, ClampedInRange
      <4> QED
        BY <4>3, StepsAreARange, InRangeIsReachable
    <3>5. CASE c.op = "halt" /\ a \in c.to
      BY <3>1, <3>2, <3>5
    <3>6. CASE /\ ~ (c.op = "go" /\ a \in DOMAIN c.to)
               /\ ~ (c.op = "shift" /\ a \in DOMAIN c.to)
               /\ ~ (c.op = "halt" /\ a \in c.to)
      <4>1. goal'[a] = goal[a]
        BY <3>1, <3>6
      <4> QED
        BY <3>2, <4>1
    <3> QED
      BY <3>3, <3>4, <3>5, <3>6
  <2>3. goal' \in [Axes -> Int]
    <3>1. goal' = [a \in Axes |-> goal'[a]]
      BY <1>2 DEF Move
    <3> QED
      BY <2>2, <3>1
  <2> QED
    BY <2>1, <2>2, <2>3 DEF CameraInRange, Reachable
<1> QED
  BY <1>1, <1>2

LEMMA RunKeepsCamera ==
  ASSUME CameraInv, NEW p \in Procs, Run(p)
  PROVE  CameraInv'
<1> DEFINE c == Head(proc[p].todo)
           read == IF c.op = "get_position" THEN Reading ELSE proc[p].read
           last == Len(proc[p].todo) = 1
<1>1. node' = node
  BY DEF Run
<1>2. /\ Safe(c)
      /\ ~ last => Short(Tail(proc[p].todo)) /\ Tail(proc[p].todo) # <<>>
  BY ShortTail DEF CameraInv, ProcessOK, Run
<1>3. CameraInRange'
  <2>1. Move(c) \/ UNCHANGED motors
    BY DEF Run
  <2> QED
    BY <1>1, <1>2, <2>1, MoveKeepsRange DEF CameraInv
<1>4. proc' = [proc EXCEPT ![p] =
         IF last THEN Idle
         ELSE [proc[p] EXCEPT !.todo = Tail(proc[p].todo), !.read = read]]
  BY DEF Run
<1>5. ASSUME NEW q \in Procs
      PROVE  ProcessOK(q)'
  <2>1. ProcessOK(q)
    BY DEF CameraInv
  <2>2. CASE q # p
    <3>1. proc'[q] = proc[q]
      BY <1>4, <2>2
    <3> QED
      BY <1>1, <2>1, <3>1 DEF ProcessOK, Short, Safe, Reachable
  <2>3. CASE q = p /\ last
    <3>1. proc'[q] = Idle
      BY <1>4, <2>3 DEF CameraInv
    <3> QED
      BY <3>1 DEF ProcessOK, Idle, Short
  <2>4. CASE q = p /\ ~ last
    <3>1. proc'[q] = [proc[p] EXCEPT !.todo = Tail(proc[p].todo), !.read = read]
      BY <1>4, <2>4 DEF CameraInv
    <3>2. /\ proc'[q].pc = proc[p].pc /\ proc'[q].ask = proc[p].ask
          /\ DOMAIN proc'[q] = DOMAIN proc[p]
      BY <2>1, <2>4, <3>1 DEF ProcessOK
    <3>3. proc'[q].todo = Tail(proc[p].todo)
      BY <2>1, <2>4, <3>1 DEF ProcessOK
    <3>4. Short(proc'[q].todo) /\ proc'[q].todo # <<>>
      BY <1>2, <2>4, <3>3
    <3> QED
      BY <1>1, <2>1, <2>4, <3>2, <3>4 DEF ProcessOK, Short, Safe, Reachable
  <2> QED
    BY <2>2, <2>3, <2>4
<1>6. shown' # Null => shown'.moving \in BOOLEAN
  BY DEF Run
<1>7. DOMAIN proc' = Procs
  BY <1>4 DEF CameraInv
<1> QED
  BY <1>1, <1>3, <1>5, <1>6, <1>7 DEF CameraInv

LEMMA RunBadlyKeepsCamera ==
  ASSUME CameraInv, NEW p \in Procs, RunBadly(p)
  PROVE  CameraInv'
<1>1. UNCHANGED <<node, at, goal>> /\ shown' = Null
  BY DEF RunBadly, motors
<1>2. proc' = [proc EXCEPT ![p] = Idle]
  BY DEF RunBadly
<1>3. ASSUME NEW q \in Procs
      PROVE  ProcessOK(q)'
  <2>1. ProcessOK(q)
    BY DEF CameraInv
  <2>2. proc'[q] = proc[q] \/ proc'[q] = Idle
    BY <1>2 DEF CameraInv
  <2>3. CASE proc'[q] = proc[q]
    BY <1>1, <2>1, <2>3 DEF ProcessOK, Short, Safe, Reachable
  <2>4. CASE proc'[q] = Idle
    BY <2>4 DEF ProcessOK, Idle, Short
  <2> QED
    BY <2>2, <2>3, <2>4
<1>4. CameraInRange'
  BY <1>1 DEF CameraInv, CameraInRange, Reachable
<1> QED
  BY <1>1, <1>2, <1>3, <1>4 DEF CameraInv

(* The motors pass only through steps between two that are reachable.      *)
LEMMA TurnKeepsCamera ==
  ASSUME CameraInv, NEW a \in Axes, Turn(a)
  PROVE  CameraInv'
<1>1. UNCHANGED <<node, goal, proc>> /\ shown' = Null
  BY DEF Turn
<1>2. /\ at \in [Axes -> Int] /\ goal \in [Axes -> Int] /\ node \in Nodes
      /\ \A b \in Axes : Reachable(b, at[b]) /\ Reachable(b, goal[b])
  BY DEF CameraInv, CameraInRange
<1>3. at' = [at EXCEPT ![a] = IF goal[a] > at[a] THEN at[a] + 1 ELSE at[a] - 1]
  BY DEF Turn
<1>4. at' \in [Axes -> Int]
  BY <1>2, <1>3
<1>5. Reachable(a, at'[a])
  <2>1. \/ at[a] < goal[a] /\ at'[a] = at[a] + 1
        \/ goal[a] < at[a] /\ at'[a] = at[a] - 1
    BY <1>2, <1>3 DEF Turn
  <2> QED
    BY <1>2, <2>1, StepsAreARange DEF Reachable
<1>6. \A b \in Axes : Reachable(b, at'[b])
  BY <1>2, <1>3, <1>5
<1>7. CameraInRange'
  BY <1>1, <1>2, <1>4, <1>6 DEF CameraInRange, Reachable
<1>8. \A p \in Procs : ProcessOK(p)'
  BY <1>1 DEF CameraInv, ProcessOK, Short, Safe, Reachable
<1> QED
  BY <1>1, <1>7, <1>8 DEF CameraInv

LEMMA CameraStutter ==
  ASSUME CameraInv, UNCHANGED vars
  PROVE  CameraInv'
<1>1. CameraInRange'
  BY DEF vars, CameraInv, CameraInRange, Reachable
<1>2. ASSUME NEW p \in Procs
      PROVE  ProcessOK(p)'
  <2>1. ProcessOK(p)
    BY DEF CameraInv
  <2> QED
    BY <2>1 DEF vars, ProcessOK, Short, Safe, Reachable
<1> QED
  BY <1>1, <1>2 DEF vars, CameraInv

LEMMA StepCameraInv ==
  ASSUME CameraInv, [Next]_vars
  PROVE  CameraInv'
<1>1. ASSUME NEW p \in Procs, NEW r \in Requests[p], Begin(p, r)
      PROVE  CameraInv'
  BY <1>1, BeginKeepsCamera
<1>2. ASSUME NEW p \in Procs, Run(p)
      PROVE  CameraInv'
  BY <1>2, RunKeepsCamera
<1>3. ASSUME NEW p \in Procs, RunBadly(p)
      PROVE  CameraInv'
  BY <1>3, RunBadlyKeepsCamera
<1>4. ASSUME NEW a \in Axes, Turn(a)
      PROVE  CameraInv'
  BY <1>4, TurnKeepsCamera
<1>5. CASE UNCHANGED vars
  BY <1>5, CameraStutter
<1> QED
  BY <1>1, <1>2, <1>3, <1>4, <1>5 DEF Next

(* The camera is only sent to steps of its range, or to the step 0 of what *)
(* a position leaves out, whatever is asked of however many processes      *)
(* (ptz_onvif_to_machine_units and the handlers of the moves).             *)
THEOREM CameraStaysInRange == Spec => []TypeOK
<1>1. Init => CameraInv
  BY CameraInit
<1>2. CameraInv /\ [Next]_vars => CameraInv'
  BY StepCameraInv
<1>3. CameraInv => TypeOK
  <2>1. ASSUME NEW s, Short(s)
        PROVE  Len(s) \in 0 .. 2
    BY <2>1 DEF Short
  <2> QED
    BY <2>1 DEF CameraInv, ProcessOK, TypeOK
<1> QED
  BY <1>1, <1>2, <1>3, PTL DEF Spec

-----------------------------------------------------------------------------
(* The way back to a reported position.                                    *)

LEMMA DivOfProduct ==
  ASSUME NEW q \in Int, NEW b \in Int, b > 0
  PROVE  (q * b) \div b = q
OBVIOUS

LEMMA ClampedInside ==
  ASSUME NEW v, NEW min \in Int, NEW max \in Int, v \in min .. max
  PROVE  Clamped(v, min, max) = v
BY DEF Clamped

(* ptz_machine_to_onvif_units and ptz_onvif_to_machine_units are inverse   *)
(* to each other on the steps of the range, whether the axis is inverted.  *)
LEMMA StepsRoundTrip ==
  ASSUME node \in Nodes, NEW a \in Axes, NEW n \in node.step[a].min .. node.step[a].max
  PROVE  FromSteps(a, n) \in Int /\ ToSteps(a, FromSteps(a, n), Reported(a)) = n
<1> DEFINE s == node.step[a]
           r == Reported(a)
           w == Clamped(((n - s.min) * Span(r)) \div Span(s) + r.min, r.min, r.max)
<1>1. /\ s.min \in Int /\ s.max \in Int /\ s.min <= s.max /\ Span(s) = s.max - s.min
      /\ r.min \in Int /\ r.max \in Int /\ Span(r) = r.max - r.min /\ Span(r) > 0
      /\ n \in Int /\ s.min <= n /\ n <= s.max
  BY StepsAreARange, ReportedIsARange DEF Span
<1>2. CASE Span(s) = 0
  <2>1. ~ Inverted(a)
    BY <1>1, <1>2, NodesAssumption DEF Inverted
  <2>2. FromSteps(a, n) = r.min
    BY <1>2 DEF FromSteps
  <2>3. ((r.min - r.min) * Span(s)) \div Span(r) = 0
    BY <1>1, <1>2
  <2>4. ToSteps(a, r.min, r) = Clamped(0 + s.min, s.min, s.max)
    BY <2>1, <2>3 DEF ToSteps
  <2> QED
    BY <1>1, <1>2, <2>2, <2>4, ClampedInside
<1>3. CASE Span(s) # 0
  <2>1. PICK q \in Nat \ {0} : Span(r) = q * Span(s)
    <3>1. \E q \in 1 .. Span(r) : Span(r) = q * Span(s)
      BY <1>3, GridAssumption DEF Reported
    <3> QED
      BY <1>1, <3>1
  <2>2. ((n - s.min) * Span(r)) \div Span(s) = (n - s.min) * q
    <3>1. (n - s.min) * Span(r) = ((n - s.min) * q) * Span(s) /\ (n - s.min) * q \in Int
      BY <1>1, <2>1
    <3>2. Span(s) \in Int /\ Span(s) > 0
      BY <1>1, <1>3
    <3> QED
      BY <3>1, <3>2, DivOfProduct
  <2>3. (n - s.min) * q \in 0 .. Span(r)
    <3>1. n - s.min \in 0 .. Span(s) /\ Span(s) \in Int
      BY <1>1
    <3>2. (n - s.min) * q <= Span(s) * q /\ (n - s.min) * q >= 0 /\ (n - s.min) * q \in Int
      BY <3>1
    <3> QED
      BY <1>1, <2>1, <3>1, <3>2
  <2>4. w = (n - s.min) * q + r.min /\ w \in r.min .. r.max
    <3> DEFINE d == (n - s.min) * q
    <3>1. d \in 0 .. Span(r)
      BY <2>3
    <3> HIDE DEF d
    <3>2. d + r.min \in r.min .. r.max
      BY <1>1, <3>1
    <3>3. w = d + r.min
      BY <1>1, <2>2, <3>2, ClampedInside DEF d
    <3> QED
      BY <3>2, <3>3 DEF d
  <2>5. FromSteps(a, n) = IF Inverted(a) THEN r.max - (w - r.min) ELSE w
    BY <1>3 DEF FromSteps
  <2>6. (IF Inverted(a) THEN r.max - (FromSteps(a, n) - r.min) ELSE FromSteps(a, n)) = w
    BY <1>1, <2>4, <2>5
  <2>7. ((w - r.min) * Span(s)) \div Span(r) = n - s.min
    <3>1. w - r.min = (n - s.min) * q
      BY <1>1, <2>3, <2>4
    <3>2. ((n - s.min) * q) * Span(s) = (n - s.min) * Span(r)
      BY <1>1, <2>1
    <3>3. n - s.min \in Int /\ Span(r) \in Int
      BY <1>1
    <3> QED
      BY <1>1, <3>1, <3>2, <3>3, DivOfProduct
  <2>8. ToSteps(a, FromSteps(a, n), r) = Clamped(n - s.min + s.min, s.min, s.max)
    BY <2>6, <2>7 DEF ToSteps
  <2>9. n - s.min + s.min = n /\ n \in s.min .. s.max
    BY <1>1
  <2>10. FromSteps(a, n) \in Int
    BY <1>1, <2>4, <2>5
  <2> QED
    BY <1>1, <2>8, <2>9, <2>10, ClampedInside
<1> QED
  BY <1>2, <1>3

LEMMA ReversedTwice ==
  ASSUME NEW a, NEW v \in Int
  PROVE  Reversed(a, Reversed(a, v)) = v
BY DEF Reversed

(* A number for every step that a status may read, in the range or not.    *)
LEMMA StatusIsWhole ==
  ASSUME node \in Nodes, NEW a \in Axes, NEW n \in Int
  PROVE  Status(a, n) \in Int
<1> DEFINE s == node.step[a]
           r == Reported(a)
           w == Clamped(((n - s.min) * Span(r)) \div Span(s) + r.min, r.min, r.max)
<1>1. /\ s.min \in Int /\ Span(s) \in Int /\ Span(s) >= 0
      /\ r.min \in Int /\ r.max \in Int /\ Span(r) \in Int
  BY StepsAreARange, ReportedIsARange DEF Span
<1>2. CASE Span(s) = 0
  BY <1>1, <1>2, ReversedIsWhole DEF Status, FromSteps
<1>3. CASE Span(s) # 0
  <2>1. ((n - s.min) * Span(r)) \div Span(s) \in Int
    <3>1. n - s.min \in Int /\ Span(s) > 0
      BY <1>1, <1>3
    <3> QED
      BY <1>1, <3>1, ScaledIsWhole
  <2>2. w \in Int
    BY <1>1, <2>1 DEF Clamped
  <2>3. FromSteps(a, n) \in Int
    BY <1>1, <1>3, <2>2 DEF FromSteps
  <2> QED
    BY <2>3, ReversedIsWhole DEF Status
<1> QED
  BY <1>2, <1>3

\* without an enabled node no process has a command to run
LEMMA CommandsNeedNode ==
  ASSUME NEW r, r.method \in Methods, PlanOf(r).commands # <<>>
  PROVE  node.enable
<1> SUFFICES ASSUME ~ node.enable PROVE FALSE
  OBVIOUS
<1>1. \A command : Gate(r, command) # "none"
  BY DEF Gate
<1>2. \A fault : Refuse(fault).commands = <<>>
  BY DEF Refuse, Plan
<1>3. /\ ContinuousMove(r).commands = <<>> /\ RelativeMove(r).commands = <<>>
      /\ AbsoluteMove(r).commands = <<>> /\ MoveAndStartTracking(r).commands = <<>>
  BY <1>1, <1>2, Zenon DEF ContinuousMove, RelativeMove, AbsoluteMove, MoveAndStartTracking
<1>4. /\ StopMove(r).commands = <<>> /\ GetStatus(r).commands = <<>>
      /\ \A command, does : SimpleMove(r, command, does).commands = <<>>
  BY <1>1, <1>2, Zenon DEF StopMove, GetStatus, SimpleMove
<1> QED
  BY <1>3, <1>4 DEF PlanOf, Methods

\* What a status shows was read from an enabled node; a process keeps the steps
\* it reads until it answers.
StatusInv ==
  /\ \A p \in Procs : /\ proc[p].pc = "run" => node.enable
                      /\ proc[p].read # Null => \A a \in Axes : proc[p].read[a] \in Int
  /\ shown # Null =>
       /\ node.enable
       /\ \A a \in Axes : shown.read[a] \in Int
       /\ shown.position = [a \in ShownAxes |-> Status(a, shown.read[a])]

LEMMA StepStatusInv ==
  ASSUME CameraInv, StatusInv, [Next]_vars
  PROVE  StatusInv'
<1>0. DOMAIN proc = Procs /\ \A a \in Axes : at[a] \in Int
  BY DEF CameraInv, CameraInRange
<1>1. ASSUME NEW p \in Procs, NEW r \in Requests[p], Begin(p, r)
      PROVE  StatusInv'
  <2>1. node.enable /\ node' = node /\ shown' = Null
    BY <1>1, CommandsNeedNode, RequestsAssumption DEF Begin
  <2>2. ASSUME NEW q \in Procs
        PROVE  proc'[q].read # Null => \A a \in Axes : proc'[q].read[a] \in Int
    <3>1. CASE q = p
      <4>1. proc'[q].read = Null
        BY <1>1, <3>1 DEF Begin
      <4> QED
        BY <4>1
    <3>2. CASE q # p
      <4>1. proc'[q] = proc[q] \/ proc'[q] = [proc[q] EXCEPT !.alone = FALSE]
        BY <1>1, <3>2 DEF Begin
      <4>2. DOMAIN proc[q] = {"pc", "ask", "todo", "fault", "read", "alone"}
        BY DEF CameraInv, ProcessOK
      <4>3. proc'[q].read = proc[q].read
        BY <4>1, <4>2
      <4> QED
        BY <4>3 DEF StatusInv
    <3> QED
      BY <3>1, <3>2
  <2> QED
    BY <2>1, <2>2 DEF StatusInv
<1>2. ASSUME NEW p \in Procs, Run(p)
      PROVE  StatusInv'
  <2> DEFINE c == Head(proc[p].todo)
             read == IF c.op = "get_position" THEN Reading ELSE proc[p].read
             last == Len(proc[p].todo) = 1
  <2>1. node' = node /\ node.enable
    BY <1>2 DEF Run, StatusInv
  <2>2. read # Null => \A a \in Axes : read[a] \in Int
    <3>1. \A a \in Axes : Reading[a] \in Int
      BY <1>0 DEF Reading
    <3> QED
      BY <3>1 DEF StatusInv
  <2>3. /\ proc' = [proc EXCEPT ![p] =
             IF last THEN Idle
             ELSE [proc[p] EXCEPT !.todo = Tail(proc[p].todo), !.read = read]]
        /\ shown' = IF last /\ proc[p].ask.method = "GetStatus" /\ read # Null
                    THEN [position |-> [a \in ShownAxes |-> Status(a, read[a])],
                          moving |-> c.op = "is_moving" /\ at # goal, read |-> read]
                    ELSE Null
    BY <1>2 DEF Run
  <2> HIDE DEF read, last, c
  <2>4. ASSUME NEW q \in Procs
        PROVE  proc'[q].read # Null => \A a \in Axes : proc'[q].read[a] \in Int
    <3>1. proc'[q].read \in {proc[q].read, Null} \/ proc'[q].read = read
      <4>1. DOMAIN proc[p] = {"pc", "ask", "todo", "fault", "read", "alone"}
        BY DEF CameraInv, ProcessOK
      <4>2. CASE q # p
        BY <1>0, <2>3, <4>2
      <4>3. CASE q = p /\ last
        BY <1>0, <2>3, <4>3 DEF Idle
      <4>4. CASE q = p /\ ~ last
        BY <1>0, <2>3, <4>1, <4>4
      <4> QED
        BY <4>2, <4>3, <4>4
    <3> QED
      BY <2>2, <3>1 DEF StatusInv
  <2>5. shown' # Null =>
          /\ shown'.read = read /\ read # Null
          /\ shown'.position = [a \in ShownAxes |-> Status(a, read[a])]
    BY <2>3
  <2>6. ShownAxes' = ShownAxes /\ \A a, n : Status(a, n)' = Status(a, n)
    BY <2>1 DEF ShownAxes, SupportsZoom, Has, Status, FromSteps, Reversed, Reported, Inverted
  <2> QED
    BY <2>1, <2>2, <2>4, <2>5, <2>6 DEF StatusInv
<1>3. ASSUME NEW p \in Procs, RunBadly(p)
      PROVE  StatusInv'
  <2>1. node' = node /\ shown' = Null /\ node.enable
    BY <1>3 DEF RunBadly, StatusInv
  <2>2. \A q \in Procs : proc'[q] = proc[q] \/ proc'[q].read = Null
    BY <1>0, <1>3 DEF RunBadly, Idle
  <2> QED
    BY <2>1, <2>2 DEF StatusInv
<1>4. ASSUME NEW a \in Axes, Turn(a)
      PROVE  StatusInv'
  BY <1>4 DEF Turn, StatusInv
<1>5. CASE UNCHANGED vars
  <2>1. ShownAxes' = ShownAxes /\ \A a, n : Status(a, n)' = Status(a, n)
    BY <1>5 DEF vars, ShownAxes, SupportsZoom, Has, Status, FromSteps, Reversed, Reported,
                Inverted
  <2> QED
    BY <1>5, <2>1 DEF vars, StatusInv
<1> QED
  BY <1>1, <1>2, <1>3, <1>4, <1>5 DEF Next

(* The request that goes back to a position asks for the steps that were   *)
(* read.                                                                   *)
LEMMA BackToTheSteps ==
  ASSUME node \in Nodes, node.enable, Has("jump_to_abs"),
         NEW read, \A a \in Axes : read[a] \in Int,
         NEW position, position = [a \in ShownAxes |-> Status(a, read[a])],
         NEW a \in DOMAIN position \cap node.jumps,
         read[a] \in node.step[a].min .. node.step[a].max
  PROVE  AbsoluteMove(Back(position)).commands[1].to[a] = read[a]
<1> DEFINE r == Back(position)
           pt == [x |-> position["pan"], y |-> position["tilt"], space |-> "spherical"]
<1>1. PanTilt \subseteq ShownAxes /\ ShownAxes \subseteq Axes /\ DOMAIN position = ShownAxes
  BY DEF ShownAxes, Axes
<1>2. \A b \in ShownAxes : position[b] = Status(b, read[b]) /\ position[b] \in Int
  BY <1>1, StatusIsWhole
<1>3. r.profile = TRUE /\ r.pt = pt
  BY DEF Back, Ask
<1>4. /\ pt \in [x : Int, y : Int, space : {"spherical"}]
      /\ pt # Null
  BY <1>1, <1>2, NullAssumption DEF PanTilt
<1>5. /\ "zoom" \in ShownAxes => /\ r.zoom = [x |-> position["zoom"], space |-> "generic"]
                                 /\ r.zoom # Null
      /\ "zoom" \notin ShownAxes => r.zoom = Null
  <2>1. r.zoom = IF "zoom" \in ShownAxes
                 THEN [x |-> position["zoom"], space |-> "generic"] ELSE Null
    BY <1>1 DEF Back, Ask
  <2>2. "zoom" \in ShownAxes =>
          [x |-> position["zoom"], space |-> "generic"] \in [x : Int, space : {"generic"}]
    BY <1>2
  <2> QED
    BY <2>1, <2>2, NullAssumption
<1>6. Gate(r, "jump_to_abs") = "none"
  BY <1>3 DEF Gate
<1>7. ~ OddPosition(r)
  BY <1>3, <1>5 DEF OddPosition, OddSpace
<1>8. \A b \in PanTilt : Of(b, pt) = position[b]
  BY DEF Of, PanTilt
<1>9. ShownAxes = Aims(r)
  <2>1. \A b \in PanTilt : Of(b, pt) # Null
    BY <1>1, <1>2, <1>8, NullAssumption
  <2>2. "zoom" \in ShownAxes <=> r.zoom # Null /\ r.zoom.x # Null
    BY <1>2, <1>5, NullAssumption
  <2> QED
    BY <1>1, <1>3, <1>4, <2>1, <2>2 DEF Aims, Axes
<1>10. Target(a, r) = read[a]
  <2>1. a \in Aims(r) /\ a \in Axes
    BY <1>1, <1>9
  <2>2. FromSteps(a, read[a]) \in Int /\ ToSteps(a, FromSteps(a, read[a]), Reported(a)) = read[a]
    BY <2>1, StepsRoundTrip
  <2>3. CASE a = "zoom"
    <3>1. r.zoom.x = Status(a, read[a])
      BY <1>2, <1>5, <1>9, <2>1, <2>3
    <3>2. Status(a, read[a]) = FromSteps(a, read[a])
      BY <2>3 DEF Status, Reversed, PanTilt
    <3> QED
      BY <2>1, <2>2, <2>3, <3>1, <3>2 DEF Target, Reported
  <2>4. CASE a # "zoom"
    <3>1. a \in PanTilt
      BY <2>1, <2>4 DEF Axes
    <3>2. Reversed(a, Of(a, r.pt)) = FromSteps(a, read[a])
      BY <1>1, <1>2, <1>3, <1>8, <2>2, <3>1, ReversedTwice DEF Status
    <3> QED
      BY <1>3, <2>1, <2>2, <2>4, <3>2 DEF Target, Reported
  <2> QED
    BY <2>3, <2>4
<1>11. AbsoluteMove(r).commands = <<JumpTo(r)>>
  <2>1. Aims(r) # {}
    BY <1>1, <1>9 DEF PanTilt
  <2> QED
    BY <1>6, <1>7, <2>1 DEF AbsoluteMove, Plan
<1>12. JumpTo(r).to[a] = Target(a, r)
  BY DEF JumpTo, Go
<1> QED
  BY <1>10, <1>11, <1>12

(* A client that goes back to the position that GetStatus reported sends   *)
(* the camera to the steps at which the motors stood, whatever the ranges  *)
(* and whether the axes are inverted or reversed; the exceptions are those *)
(* that ReportedPositionKept names (ptz_machine_to_onvif_units,            *)
(* ptz_onvif_to_machine_units and ptz_apply_reverse).                      *)
THEOREM ReportedPositionsAreKept == Spec => []ReportedPositionKept
<1>1. Init => CameraInv /\ StatusInv
  <2>1. Init => StatusInv
    BY DEF Init, StatusInv, Idle
  <2> QED
    BY <2>1, CameraInit
<1>2. CameraInv /\ [Next]_vars => CameraInv'
  BY StepCameraInv
<1>3. CameraInv /\ StatusInv /\ [Next]_vars => StatusInv'
  BY StepStatusInv
<1>4. CameraInv /\ StatusInv => ReportedPositionKept
  BY BackToTheSteps DEF CameraInv, StatusInv, ReportedPositionKept
<1> QED
  BY <1>1, <1>2, <1>3, <1>4, PTL DEF Spec

-----------------------------------------------------------------------------
(* The sense in which an axis moves, and what a request asks of it.        *)

\* the axis reports less for a greater step
Down(a) == \/ Inverted(a) /\ ~ node.reverse
           \/ ~ Inverted(a) /\ node.reverse

\* a linear scale: o is what it shows at step 0, q what a step adds or takes
Linear(a, q, o) ==
  /\ Span(node.range[a]) = q * Span(node.step[a])
  /\ \A n \in node.step[a].min .. node.step[a].max :
       Status(a, n) = IF Down(a) THEN o - n * q ELSE o + n * q

LEMMA PanTiltRanges ==
  ASSUME node \in Nodes, NEW a \in PanTilt
  PROVE  /\ a \in Axes /\ a # "zoom" /\ Reported(a) = node.range[a]
         /\ node.step[a].min \in Int /\ node.step[a].max \in Int
         /\ node.step[a].min < node.step[a].max
         /\ Span(node.step[a]) = node.step[a].max - node.step[a].min
         /\ Span(node.step[a]) \in Int /\ Span(node.step[a]) > 0
         /\ node.range[a].min \in Int /\ node.range[a].max \in Int
         /\ Span(node.range[a]) = node.range[a].max - node.range[a].min
         /\ Span(node.range[a]) \in Int /\ Span(node.range[a]) > 0
         /\ node.fov[a] \in Int
<1>1. a \in Axes /\ a # "zoom"
  BY DEF Axes, PanTilt
<1>2. /\ Whole(node.step[a]) /\ Whole(node.range[a]) /\ node.fov[a] \in Int
      /\ node.step[a].min < node.step[a].max /\ node.range[a].min < node.range[a].max
  BY <1>1, NodesAssumption
<1> QED
  BY <1>1, <1>2 DEF Whole, Span, Reported

\* the unit of the scale is a whole number
LEMMA UnitOfScale ==
  ASSUME node \in Nodes, NEW a \in PanTilt
  PROVE  \E q \in Nat \ {0} : /\ Span(node.range[a]) = q * Span(node.step[a])
                              /\ Unit(node, a) = q
<1>1. PICK q \in 1 .. Span(node.range[a]) : Span(node.range[a]) = q * Span(node.step[a])
  BY PanTiltRanges, GridAssumption
<1>2. q \in Nat \ {0} /\ q \in Int
  BY <1>1, PanTiltRanges
<1>3. Unit(node, a) = q
  BY <1>1, <1>2, PanTiltRanges, DivOfProduct DEF Unit
<1> QED
  BY <1>1, <1>2, <1>3

LEMMA StepsOnScale ==
  ASSUME node \in Nodes, NEW a \in PanTilt, NEW q \in Nat \ {0},
         Span(node.range[a]) = q * Span(node.step[a]),
         NEW n \in node.step[a].min .. node.step[a].max
  PROVE  FromSteps(a, n) = IF Inverted(a)
                           THEN node.range[a].max - (n - node.step[a].min) * q
                           ELSE node.range[a].min + (n - node.step[a].min) * q
<1> DEFINE s == node.step[a]
           r == node.range[a]
           d == (n - s.min) * q
<1>1. /\ s.min \in Int /\ s.max \in Int /\ Span(s) = s.max - s.min /\ Span(s) > 0
      /\ r.min \in Int /\ r.max \in Int /\ Span(r) = r.max - r.min
      /\ Reported(a) = r /\ n \in Int /\ s.min <= n /\ n <= s.max /\ Span(s) \in Int
  BY PanTiltRanges
<1>2. d \in Int /\ ((n - s.min) * Span(r)) \div Span(s) = d
  <2>1. (n - s.min) * Span(r) = d * Span(s) /\ d \in Int
    BY <1>1
  <2> QED
    BY <1>1, <2>1, DivOfProduct
<1>3. d >= 0 /\ d <= Span(r)
  <2>1. n - s.min >= 0 /\ n - s.min <= Span(s) /\ n - s.min \in Int
    BY <1>1
  <2> QED
    BY <1>1, <2>1
<1> HIDE DEF d
<1>4. Clamped(d + r.min, r.min, r.max) = d + r.min
  BY <1>1, <1>2, <1>3 DEF Clamped
<1>5. FromSteps(a, n) = IF Inverted(a) THEN r.max - (d + r.min - r.min) ELSE d + r.min
  BY <1>1, <1>2, <1>4 DEF FromSteps
<1>6. d + r.min - r.min = d /\ d + r.min = r.min + d
  BY <1>1, <1>2
<1> QED
  BY <1>5, <1>6 DEF d

LEMMA ScaleIsLinear ==
  ASSUME node \in Nodes, NEW a \in PanTilt, NEW q \in Nat \ {0},
         Span(node.range[a]) = q * Span(node.step[a])
  PROVE  \E o \in Int : Linear(a, q, o)
<1> DEFINE s == node.step[a]
           r == node.range[a]
           o == IF Inverted(a) THEN IF node.reverse THEN 0 - r.max - s.min * q
                                    ELSE r.max + s.min * q
                ELSE IF node.reverse THEN 0 - r.min + s.min * q ELSE r.min - s.min * q
<1>1. s.min \in Int /\ s.max \in Int /\ r.min \in Int /\ r.max \in Int /\ s.min * q \in Int
  BY PanTiltRanges
<1>2. o \in Int
  BY <1>1
<1>3. ASSUME NEW n \in s.min .. s.max
      PROVE  Status(a, n) = IF Down(a) THEN o - n * q ELSE o + n * q
  <2> DEFINE d == (n - s.min) * q
  <2>1. n \in Int /\ d \in Int /\ d = n * q - s.min * q /\ n * q \in Int
    BY <1>1
  <2>2. FromSteps(a, n) = IF Inverted(a) THEN r.max - d ELSE r.min + d
    BY StepsOnScale
  <2>3. Status(a, n) = IF node.reverse THEN 0 - FromSteps(a, n) ELSE FromSteps(a, n)
    BY DEF Status, Reversed
  <2> HIDE DEF d
  <2> DEFINE e == n * q
             f == s.min * q
  <2>4. d = e - f /\ e \in Int /\ f \in Int
    BY <1>1, <2>1
  <2>5. o = IF Inverted(a) THEN IF node.reverse THEN 0 - r.max - f ELSE r.max + f
            ELSE IF node.reverse THEN 0 - r.min + f ELSE r.min - f
    OBVIOUS
  <2> HIDE DEF e, f, o
  <2>6. Status(a, n) = IF Down(a) THEN o - e ELSE o + e
    BY <1>1, <2>2, <2>3, <2>4, <2>5 DEF Down
  <2> QED
    BY <2>6 DEF e
<1> QED
  BY <1>2, <1>3 DEF Linear

\* the same scale, told by which of two steps it shows as the greater
LEMMA ScaleIsMonotone ==
  ASSUME node \in Nodes, NEW a \in PanTilt,
         NEW m \in node.step[a].min .. node.step[a].max,
         NEW n \in node.step[a].min .. node.step[a].max, m < n
  PROVE  /\ Status(a, m) \in Int /\ Status(a, n) \in Int
         /\ Down(a) => Status(a, m) > Status(a, n)
         /\ ~ Down(a) => Status(a, m) < Status(a, n)
<1>1. PICK q \in Nat \ {0} : Span(node.range[a]) = q * Span(node.step[a])
  BY UnitOfScale
<1>2. PICK o \in Int : Linear(a, q, o)
  BY <1>1, ScaleIsLinear
<1>3. m \in Int /\ n \in Int
  BY PanTiltRanges
<1>4. m * q < n * q /\ m * q \in Int /\ n * q \in Int
  <2>1. n * q = m * q + (n - m) * q /\ (n - m) * q \in Int /\ (n - m) * q > 0
    BY <1>3
  <2> QED
    BY <1>3, <2>1
<1>5. /\ Status(a, m) = IF Down(a) THEN o - m * q ELSE o + m * q
      /\ Status(a, n) = IF Down(a) THEN o - n * q ELSE o + n * q
  BY <1>2 DEF Linear
<1> QED
  BY <1>4, <1>5

LEMMA EndsOfScale ==
  ASSUME node \in Nodes, NEW a \in PanTilt
  PROVE  /\ \A v \in Int : v > 0 => Farthest(a, v) = IF Down(a) THEN node.step[a].min
                                                     ELSE node.step[a].max
         /\ \A v \in Int : v < 0 => Farthest(a, v) = IF Down(a) THEN node.step[a].max
                                                     ELSE node.step[a].min
<1> DEFINE min == node.step[a].min
           max == node.step[a].max
<1>1. min \in Int /\ max \in Int /\ min < max
  BY PanTiltRanges
<1>2. /\ Status(a, min) \in Int /\ Status(a, max) \in Int
      /\ Down(a) => Status(a, min) > Status(a, max)
      /\ ~ Down(a) => Status(a, min) < Status(a, max)
  BY <1>1, ScaleIsMonotone
<1> HIDE DEF min, max
<1>3. ASSUME NEW v \in Int, v > 0
      PROVE  Farthest(a, v) = IF Down(a) THEN min ELSE max
  BY <1>1, <1>2, <1>3 DEF Farthest, min, max
<1>4. ASSUME NEW v \in Int, v < 0
      PROVE  Farthest(a, v) = IF Down(a) THEN max ELSE min
  BY <1>1, <1>2, <1>4 DEF Farthest, min, max
<1> QED
  BY <1>3, <1>4 DEF min, max

\* a number of units, converted to a shift, is that number of steps
LEMMA DeltaOfUnits ==
  ASSUME node \in Nodes, NEW a \in PanTilt, NEW k \in Int
  PROVE  ToDelta(a, Unit(node, a) * k, node.range[a])
           = Clamped(IF Inverted(a) THEN 0 - k ELSE k,
                     0 - Span(node.step[a]), Span(node.step[a]))
<1>1. PICK q \in Nat \ {0} : /\ Span(node.range[a]) = q * Span(node.step[a])
                             /\ Unit(node, a) = q
  BY UnitOfScale
<1> DEFINE j == IF Inverted(a) THEN 0 - k ELSE k
           v == q * k
<1>2. j \in Int /\ Span(node.step[a]) \in Int /\ Span(node.range[a]) \in Int
      /\ Span(node.range[a]) > 0
  BY PanTiltRanges
<1>3. (IF Inverted(a) THEN 0 - v ELSE v) = q * j
  OBVIOUS
<1>4. (q * j) * Span(node.step[a]) = j * Span(node.range[a])
  BY <1>1, <1>2
<1>5. ((q * j) * Span(node.step[a])) \div Span(node.range[a]) = j
  BY <1>2, <1>4, DivOfProduct
<1>6. ToDelta(a, v, node.range[a]) = Clamped(j, 0 - Span(node.step[a]), Span(node.step[a]))
  BY <1>3, <1>5 DEF ToDelta
<1> QED
  BY <1>1, <1>6

\* which way a shift of pan or tilt goes: as v asks
Follows(a, v, d) ==
  /\ d \in Int
  /\ v = 0 => d = 0
  /\ v > 0 => IF Down(a) THEN d < 0 ELSE d > 0
  /\ v < 0 => IF Down(a) THEN d > 0 ELSE d < 0

LEMMA UnitsHaveASign ==
  ASSUME NEW q \in Nat \ {0}, NEW k \in Int
  PROVE  /\ q * k \in Int
         /\ q * k > 0 <=> k > 0
         /\ q * k < 0 <=> k < 0
         /\ q * k = 0 <=> k = 0
<1>1. k > 0 => q * k > 0
  OBVIOUS
<1>2. k < 0 => q * k < 0
  OBVIOUS
<1>3. k = 0 => q * k = 0
  OBVIOUS
<1> QED
  BY <1>1, <1>2, <1>3

LEMMA DeltaFollows ==
  ASSUME node \in Nodes, NEW a \in PanTilt, NEW v \in Int, Multiple(v, Unit(node, a))
  PROVE  Follows(a, v, ToDelta(a, Reversed(a, v), node.range[a]))
<1> DEFINE S == Span(node.step[a])
           d == ToDelta(a, Reversed(a, v), node.range[a])
<1>1. PICK q \in Nat \ {0} : Unit(node, a) = q
  BY UnitOfScale
<1>2. PICK k \in Int : v = q * k
  <2>1. v \div q \in Int
    BY <1>1
  <2> QED
    BY <1>1, <2>1 DEF Multiple
<1> DEFINE j == IF node.reverse THEN 0 - k ELSE k
           i == IF Inverted(a) THEN 0 - j ELSE j
<1>3. Reversed(a, v) = q * j /\ j \in Int
  BY <1>2 DEF Reversed
<1>4. d = Clamped(i, 0 - S, S)
  BY <1>1, <1>3, DeltaOfUnits
<1>5. S \in Int /\ S > 0
  BY PanTiltRanges
<1>6. i = IF Down(a) THEN 0 - k ELSE k
  BY DEF Down
<1>7. /\ v > 0 <=> k > 0
      /\ v < 0 <=> k < 0
      /\ v = 0 <=> k = 0
  BY <1>2, UnitsHaveASign
<1> HIDE DEF S, i, d
<1> QED
  BY <1>4, <1>5, <1>6, <1>7 DEF Clamped, Follows, d

LEMMA ViewDeltaFollows ==
  ASSUME node \in Nodes, NEW a \in PanTilt, NEW v \in Int, node.fov[a] > 0,
         Multiple(v * node.fov[a], 2 * One * Unit(node, a))
  PROVE  Follows(a, v, ViewDelta(a, v))
<1> DEFINE S == Span(node.step[a])
           w == v * node.fov[a]
           d == ViewDelta(a, v)
<1>1. PICK q \in Nat \ {0} : Unit(node, a) = q
  BY UnitOfScale
<1>2. 2 * One \in Nat \ {0} /\ 2 * One * q \in Nat \ {0}
  BY OneAssumption, UnitsHaveASign
<1>3. w \in Int
  BY PanTiltRanges
<1>4. PICK k \in Int : w = (2 * One * q) * k
  <2>1. w \div (2 * One * q) \in Int
    BY <1>2, <1>3
  <2> QED
    BY <1>1, <2>1 DEF Multiple
<1>5. w \div (2 * One) = q * k
  <2>1. w = (q * k) * (2 * One) /\ q * k \in Int
    BY <1>2, <1>4, OneAssumption
  <2> QED
    BY <1>2, <2>1, DivOfProduct
<1> DEFINE i == IF Inverted(a) THEN 0 - k ELSE k
<1>6. d = Reversed(a, Clamped(i, 0 - S, S))
  BY <1>1, <1>5, DeltaOfUnits DEF ViewDelta
<1>7. S \in Int /\ S > 0
  BY PanTiltRanges
<1>8. /\ w > 0 <=> k > 0
      /\ w < 0 <=> k < 0
      /\ w = 0 <=> k = 0
  BY <1>2, <1>4, UnitsHaveASign
<1>9. /\ v > 0 <=> w > 0
      /\ v < 0 <=> w < 0
      /\ v = 0 <=> w = 0
  <2>1. node.fov[a] \in Nat \ {0}
    BY PanTiltRanges
  <2>2. w = node.fov[a] * v
    BY <2>1
  <2> QED
    BY <2>1, <2>2, UnitsHaveASign
<1> HIDE DEF S, w, d
<1>10. d = IF node.reverse THEN 0 - Clamped(i, 0 - S, S) ELSE Clamped(i, 0 - S, S)
  BY <1>6 DEF Reversed
<1> QED
  BY <1>7, <1>8, <1>9, <1>10 DEF Clamped, Down, Follows, d

\* the motors cut a shift off at the ends of the range
LEMMA ShiftFollows ==
  ASSUME node \in Nodes, NEW a \in PanTilt, NEW v \in Int, NEW d, Follows(a, v, d),
         NEW n \in node.step[a].min .. node.step[a].max, v # 0, n # Farthest(a, v)
  PROVE  LET m == Clamped(n + d, node.step[a].min, node.step[a].max)
         IN \/ v > 0 /\ Status(a, m) > Status(a, n)
            \/ v < 0 /\ Status(a, m) < Status(a, n)
<1> DEFINE min == node.step[a].min
           max == node.step[a].max
           m == Clamped(n + d, min, max)
<1>1. min \in Int /\ max \in Int /\ min < max /\ n \in Int /\ n \in min .. max
  BY PanTiltRanges
<1> SUFFICES (v > 0 /\ Status(a, m) > Status(a, n)) \/ (v < 0 /\ Status(a, m) < Status(a, n))
  OBVIOUS
<1>2. m \in min .. max
  <2>1. n + d \in Int /\ min <= max
    BY <1>1 DEF Follows
  <2> QED
    BY <1>1, <2>1, ClampedInRange
<1>3. /\ d > 0 /\ n # max => n < m
      /\ d < 0 /\ n # min => m < n
  BY <1>1 DEF Clamped, Follows
<1>4. /\ v > 0 => Farthest(a, v) = IF Down(a) THEN min ELSE max
      /\ v < 0 => Farthest(a, v) = IF Down(a) THEN max ELSE min
  BY EndsOfScale
<1>5. /\ n < m => /\ Status(a, m) \in Int /\ Status(a, n) \in Int
                  /\ Down(a) => Status(a, n) > Status(a, m)
                  /\ ~ Down(a) => Status(a, n) < Status(a, m)
      /\ m < n => /\ Status(a, m) \in Int /\ Status(a, n) \in Int
                  /\ Down(a) => Status(a, m) > Status(a, n)
                  /\ ~ Down(a) => Status(a, m) < Status(a, n)
  BY <1>1, <1>2, ScaleIsMonotone
<1>6. /\ v > 0 => IF Down(a) THEN d < 0 ELSE d > 0
      /\ v < 0 => IF Down(a) THEN d > 0 ELSE d < 0
  BY DEF Follows
<1> HIDE DEF min, max, m
<1>7. CASE v > 0 /\ Down(a)
  BY <1>3, <1>4, <1>5, <1>6, <1>7
<1>8. CASE v > 0 /\ ~ Down(a)
  BY <1>3, <1>4, <1>5, <1>6, <1>8
<1>9. CASE v < 0 /\ Down(a)
  BY <1>3, <1>4, <1>5, <1>6, <1>9
<1>10. CASE v < 0 /\ ~ Down(a)
  BY <1>3, <1>4, <1>5, <1>6, <1>10
<1> QED
  BY <1>7, <1>8, <1>9, <1>10

(* A position of the spherical space is shown again, or the nearest one    *)
(* that there is.                                                          *)
Nearest(a, v) ==
  LET ends == {Status(a, n) : n \in {node.step[a].min, node.step[a].max}}
  IN IF \A e \in ends : v > e THEN Status(a, Farthest(a, 1))
     ELSE IF \A e \in ends : v < e THEN Status(a, Farthest(a, 0 - 1))
     ELSE v

LEMMA PositionFollows ==
  ASSUME node \in Nodes, NEW a \in PanTilt, NEW v \in Int,
         Multiple((IF node.reverse THEN 0 - v ELSE v) - node.range[a].min, Unit(node, a))
  PROVE  Status(a, ToSteps(a, Reversed(a, v), node.range[a])) = Nearest(a, v)
<1> DEFINE s == node.step[a]
           r == node.range[a]
           u == Reversed(a, v)
           S == Span(s)
<1>1. PICK q \in Nat \ {0} : Span(r) = q * S /\ Unit(node, a) = q
  BY UnitOfScale
<1>2. /\ s.min \in Int /\ s.max \in Int /\ s.min < s.max /\ S = s.max - s.min /\ S \in Int
      /\ r.min \in Int /\ r.max \in Int /\ Span(r) = r.max - r.min
      /\ Span(r) \in Int /\ Span(r) > 0
  BY PanTiltRanges
<1>3. u = (IF node.reverse THEN 0 - v ELSE v) /\ u \in Int
  BY DEF Reversed
<1>4. PICK j \in Int : u - r.min = q * j
  <2>1. (u - r.min) \div q \in Int
    BY <1>1, <1>2, <1>3
  <2> QED
    BY <1>1, <1>3, <2>1 DEF Multiple
<1> DEFINE w == IF Inverted(a) THEN r.max - (u - r.min) ELSE u
<1>5. \E k \in Int : w \in Int /\ w - r.min = q * k
  <2>1. q * (S - j) = q * S - q * j /\ q * S \in Int /\ q * j \in Int
    BY <1>2
  <2>2. S - j \in Int
    BY <1>2
  <2> HIDE DEF u, S
  <2>3. CASE Inverted(a)
    <3>1. w \in Int /\ w - r.min = q * (S - j)
      BY <1>1, <1>2, <1>3, <1>4, <2>1, <2>3
    <3> QED
      BY <2>2, <3>1
  <2>4. CASE ~ Inverted(a)
    BY <1>3, <1>4, <2>4
  <2> QED
    BY <2>3, <2>4
<1>17. PICK k \in Int : w \in Int /\ w - r.min = q * k
  BY <1>5
<1>6. ToSteps(a, u, r) = Clamped(k + s.min, s.min, s.max)
  <2>1. (w - r.min) * S = k * Span(r)
    BY <1>1, <1>2, <1>17
  <2>2. ((w - r.min) * S) \div Span(r) = k
    BY <1>2, <1>17, <2>1, DivOfProduct
  <2> QED
    BY <2>2 DEF ToSteps
<1>7. PICK o \in Int : Linear(a, q, o)
  BY <1>1, ScaleIsLinear
\* the scale would show v at step k of the range, were it long enough
<1>8. v = IF Down(a) THEN Status(a, s.min) - q * k ELSE Status(a, s.min) + q * k
  <2>1. s.min \in s.min .. s.max
    BY <1>2
  <2>2. FromSteps(a, s.min) = IF Inverted(a) THEN r.max - 0 * q ELSE r.min + 0 * q
    <3>1. s.min - s.min = 0
      BY <1>2
    <3> QED
      BY <1>1, <2>1, <3>1, StepsOnScale
  <2>3. FromSteps(a, s.min) = IF Inverted(a) THEN r.max ELSE r.min
    <3>1. r.max - 0 * q = r.max /\ r.min + 0 * q = r.min
      BY <1>2
    <3> QED
      BY <2>2, <3>1
  <2>4. Status(a, s.min) = IF node.reverse THEN 0 - FromSteps(a, s.min) ELSE FromSteps(a, s.min)
    BY DEF Status, Reversed
  <2> DEFINE x == q * k
  <2>6. x \in Int /\ (IF Inverted(a) THEN r.max - (u - r.min) ELSE u) = r.min + x
    <3>1. x \in Int /\ w - r.min = x
      BY <1>17
    <3> HIDE DEF x
    <3>2. w = r.min + x
      BY <1>2, <1>17, <3>1
    <3> QED
      BY <3>1, <3>2
  <2> HIDE DEF u, x, w
  <2>7. v = IF Down(a) THEN Status(a, s.min) - x ELSE Status(a, s.min) + x
    BY <1>2, <1>3, <2>3, <2>4, <2>6 DEF Down
  <2> QED
    BY <2>7 DEF x
<1>9. ASSUME NEW n \in s.min .. s.max
      PROVE  /\ Status(a, n) = IF Down(a) THEN Status(a, s.min) - q * (n - s.min)
                               ELSE Status(a, s.min) + q * (n - s.min)
             /\ Status(a, n) \in Int
  <2>1. s.min \in s.min .. s.max /\ n \in Int
    BY <1>2
  <2>2. /\ Status(a, n) = IF Down(a) THEN o - n * q ELSE o + n * q
        /\ Status(a, s.min) = IF Down(a) THEN o - s.min * q ELSE o + s.min * q
    BY <1>7, <2>1 DEF Linear
  <2>3. q * (n - s.min) = n * q - s.min * q /\ n * q \in Int /\ s.min * q \in Int
    BY <1>2, <2>1
  <2> QED
    BY <2>2, <2>3
<1> DEFINE x == q * k
           y == q * S
           low == Status(a, s.min)
           high == Status(a, s.max)
<1>10. /\ x \in Int /\ y \in Int /\ low \in Int /\ y > 0
       /\ v = (IF Down(a) THEN low - x ELSE low + x)
       /\ high = (IF Down(a) THEN low - y ELSE low + y)
       /\ high \in Int
  <2>1. x \in Int /\ y \in Int /\ y > 0
    BY <1>1, <1>2, <1>17
  <2>2. s.min \in s.min .. s.max /\ s.max \in s.min .. s.max
    BY <1>2
  <2> QED
    BY <1>2, <1>8, <1>9, <2>1, <2>2
<1>11. /\ Farthest(a, 1) = IF Down(a) THEN s.min ELSE s.max
       /\ Farthest(a, 0 - 1) = IF Down(a) THEN s.max ELSE s.min
  BY EndsOfScale
<1>12. Nearest(a, v) = IF v > low /\ v > high THEN Status(a, Farthest(a, 1))
                       ELSE IF v < low /\ v < high THEN Status(a, Farthest(a, 0 - 1))
                       ELSE v
  BY DEF Nearest
<1>13. Nearest(a, v) = IF x < 0 THEN low ELSE IF x > y THEN high ELSE v
  <2> HIDE DEF x, y, low, high
  <2>1. /\ Status(a, Farthest(a, 1)) = IF Down(a) THEN low ELSE high
        /\ Status(a, Farthest(a, 0 - 1)) = IF Down(a) THEN high ELSE low
    BY <1>11 DEF low, high
  <2> QED
    BY <1>10, <1>12, <2>1
<1>14. CASE k < 0
  <2>1. ToSteps(a, u, r) = s.min
    BY <1>2, <1>17, <1>6, <1>14 DEF Clamped
  <2>2. x < 0
    BY <1>17, <1>14, UnitsHaveASign
  <2> QED
    BY <1>13, <2>1, <2>2
<1>15. CASE k > S
  <2>1. ToSteps(a, u, r) = s.max
    BY <1>2, <1>17, <1>6, <1>15 DEF Clamped
  <2>2. x = y + q * (k - S) /\ k - S \in Int
    BY <1>2, <1>17
  <2>3. q * (k - S) \in Int /\ q * (k - S) > 0
    BY <1>2, <1>17, <1>15, <2>2, UnitsHaveASign
  <2>4. x > y /\ ~ x < 0
    BY <1>10, <2>2, <2>3
  <2> QED
    BY <1>13, <2>1, <2>4
<1>16. CASE k \in 0 .. S
  <2>1. k + s.min \in s.min .. s.max /\ k + s.min - s.min = k
    BY <1>2, <1>17, <1>16
  <2>2. ToSteps(a, u, r) = k + s.min
    BY <1>2, <1>6, <2>1, ClampedInside
  <2>3. Status(a, k + s.min) = v
    <3> DEFINE n == k + s.min
    <3>1. n \in s.min .. s.max /\ n - s.min = k
      BY <1>2, <1>17, <2>1
    <3> HIDE DEF n
    <3>2. Status(a, n) = IF Down(a) THEN Status(a, s.min) - q * (n - s.min)
                         ELSE Status(a, s.min) + q * (n - s.min)
      BY <1>9, <3>1
    <3>3. Status(a, n) = v
      BY <1>8, <3>1, <3>2
    <3> QED
      BY <3>3 DEF n
  <2>4. y = x + q * (S - k) /\ S - k \in Int /\ S - k >= 0
    BY <1>2, <1>17, <1>16
  <2>5. q * (S - k) >= 0 /\ q * (S - k) \in Int
    BY <2>4
  <2>6. ~ x < 0 /\ ~ x > y
    BY <1>17, <1>10, <1>16, <2>4, <2>5, UnitsHaveASign
  <2> QED
    BY <1>13, <2>2, <2>3, <2>6
<1> QED
  BY <1>2, <1>17, <1>14, <1>15, <1>16

(* The ends of the generic space are the ends of the scale.                *)
LEMMA EndsFollow ==
  ASSUME node \in Nodes, NEW a \in PanTilt, NEW v \in {One, 0 - One}
  PROVE  ToSteps(a, Reversed(a, v), Generic) = Farthest(a, v)
<1> DEFINE s == node.step[a]
           u == Reversed(a, v)
           w == IF Inverted(a) THEN One - (u - (0 - One)) ELSE u
<1>1. One \in Int /\ One > 0 /\ v \in Int
  BY OneAssumption
<1>2. /\ s.min \in Int /\ s.max \in Int /\ s.min < s.max
      /\ Span(s) = s.max - s.min /\ Span(s) \in Int
  BY PanTiltRanges
<1>3. /\ v > 0 => Farthest(a, v) = IF Down(a) THEN s.min ELSE s.max
      /\ v < 0 => Farthest(a, v) = IF Down(a) THEN s.max ELSE s.min
  BY <1>1, EndsOfScale
<1>4. /\ v > 0 => w = IF Down(a) THEN 0 - One ELSE One
      /\ v < 0 => w = IF Down(a) THEN One ELSE 0 - One
  BY <1>1 DEF Reversed, Down
<1>5. Span(Generic) = 2 * One /\ Generic.min = 0 - One /\ Generic.max = One
  BY <1>1 DEF Generic, Span
<1>6. ToSteps(a, u, Generic)
        = Clamped(((w - (0 - One)) * Span(s)) \div (2 * One) + s.min, s.min, s.max)
  BY <1>5 DEF ToSteps
<1>7. CASE w = One
  <2>1. ((w - (0 - One)) * Span(s)) \div (2 * One) = Span(s)
    <3>1. (w - (0 - One)) * Span(s) = Span(s) * (2 * One)
      BY <1>1, <1>2, <1>7
    <3> QED
      BY <1>1, <1>2, <3>1, DivOfProduct
  <2>2. ToSteps(a, u, Generic) = s.max
    BY <1>2, <1>6, <2>1 DEF Clamped
  <2> QED
    BY <1>1, <1>3, <1>4, <1>7, <2>2
<1>8. CASE w = 0 - One
  <2>1. ((w - (0 - One)) * Span(s)) \div (2 * One) = 0
    <3>1. (w - (0 - One)) * Span(s) = 0 * (2 * One)
      BY <1>1, <1>2, <1>8
    <3> QED
      BY <1>1, <3>1, DivOfProduct
  <2>2. ToSteps(a, u, Generic) = s.min
    BY <1>2, <1>6, <2>1 DEF Clamped
  <2> QED
    BY <1>1, <1>3, <1>4, <1>8, <2>2
<1> QED
  BY <1>1, <1>4, <1>7, <1>8

-----------------------------------------------------------------------------
(* The plan of a request does not change, since the node does not.         *)

LEMMA SameConversions ==
  ASSUME node' = node, NEW a, NEW v, NEW range
  PROVE  /\ ToDelta(a, v, range)' = ToDelta(a, v, range)
         /\ ToSteps(a, v, range)' = ToSteps(a, v, range)
         /\ Reversed(a, v)' = Reversed(a, v)
BY DEF ToDelta, ToSteps, Reversed, Inverted, Clamped, Span

LEMMA SameDelta ==
  ASSUME node' = node, NEW a, NEW r
  PROVE  Delta(a, r)' = Delta(a, r)
BY SameConversions DEF Delta

LEMMA SameGate ==
  ASSUME node' = node, NEW r, NEW command
  PROVE  Gate(r, command)' = Gate(r, command) /\ Has(command)' = Has(command)
BY DEF Gate, Has

LEMMA SameContinuousMove ==
  ASSUME node' = node, NEW r
  PROVE  ContinuousMove(r)' = ContinuousMove(r)
<1> DEFINE d == [a \in Axes |-> Delta(a, r)]
           turning == {a \in PanTilt : d[a] # 0}
           turner == CASE turning = PanTilt -> "move_both"
                       [] turning = {"pan"} -> "move_x"
                       [] turning = {"tilt"} -> "move_y"
                       [] turning = {} -> Null
           goes == [a \in turning |-> End(a, d[a])]
           turn == IF turning # {} /\ Has(turner) THEN <<Go(goes)>> ELSE <<>>
           zoomer == IF d["zoom"] > 0 THEN "move_in" ELSE "move_out"
           zooms == [a \in {"zoom"} |-> End(a, d[a])]
           drive == IF d["zoom"] # 0 THEN <<Go(zooms)>> ELSE <<>>
           calm(still, axes) ==
             IF still /\ Has("move_stop") THEN <<Stop(axes)>> ELSE <<>>
           rest == calm(r.pt # Null /\ r.pt.x # Null /\ r.pt.y # Null
                        /\ turning = {}, PanTilt)
                   \o calm(r.zoom # Null /\ r.zoom.x # Null /\ d["zoom"] = 0, {"zoom"})
           odd == \/ OddSpace(r.pt, {"none", "generic"})
                  \/ OddSpace(r.zoom, {"none", "generic"})
           plan == IF Gate(r, Null) # "none" THEN Refuse(Gate(r, Null))
                   ELSE IF odd THEN Refuse("SpaceNotSupported")
                   ELSE IF Len(turn) = 0 /\ turner \in {"move_x", "move_y"}
                   THEN Refuse("ActionFailed")
                   ELSE IF d["zoom"] # 0 /\ ~ Has(zoomer) THEN Plan(turn, "ActionFailed")
                   ELSE Plan(turn \o drive \o rest, "none")
<1>1. ContinuousMove(r) = plan
  BY DEF ContinuousMove
<1>2. ContinuousMove(r)' = plan'
  BY DEF ContinuousMove
<1>3. d' = d
  BY SameDelta
<1> HIDE DEF d
<1>4. turning' = turning
  BY <1>3
<1> HIDE DEF turning
<1>5. turner' = turner /\ zoomer' = zoomer
  BY <1>3, <1>4
<1>6. goes' = goes /\ zooms' = zooms
  <2>1. ASSUME NEW a PROVE End(a, d[a])' = End(a, d[a])
    BY <1>3 DEF End
  <2> QED
    BY <1>3, <1>4, <2>1
<1> HIDE DEF turner, zoomer, goes, zooms
<1>7. turn' = turn
  BY <1>4, <1>5, <1>6, SameGate DEF Go
<1>8. drive' = drive
  BY <1>3, <1>6 DEF Go
<1>9. rest' = rest
  <2>1. /\ Has("move_stop")' = Has("move_stop")
        /\ Stop(PanTilt)' = Stop(PanTilt) /\ Stop({"zoom"})' = Stop({"zoom"})
    BY SameGate DEF Stop
  <2> QED
    BY <1>3, <1>4, <2>1
<1>10. Gate(r, Null)' = Gate(r, Null) /\ Has(zoomer)' = Has(zoomer)
  BY <1>5, SameGate
<1> HIDE DEF turn, drive, rest
<1>11. plan' = plan
  BY <1>3, <1>5, <1>7, <1>8, <1>9, <1>10
<1> QED
  BY <1>1, <1>2, <1>11

LEMMA SameRelativeMove ==
  ASSUME node' = node, NEW r
  PROVE  RelativeMove(r)' = RelativeMove(r)
<1> DEFINE view == r.pt # Null /\ r.pt.space = "fov"
           wrong == \/ r.pt = Null /\ r.zoom = Null
                    \/ r.zoom # Null /\ r.zoom.x = Null
                    \/ r.pt # Null /\ \E a \in PanTilt :
                         \/ Of(a, r.pt) = Null
                         \/ view /\ Of(a, r.pt) \notin 0 - One .. One
           by == [a \in Axes |-> IF view /\ a # "zoom" THEN ViewDelta(a, Of(a, r.pt))
                                 ELSE Delta(a, r)]
           shift == [a \in node.jumps |-> by[a]]
           fault == Gate(r, "jump_to_rel")
           plan == IF fault # "none" THEN Refuse(fault)
                   ELSE IF \/ OddSpace(r.pt, {"none", "generic", "fov"})
                           \/ OddSpace(r.zoom, {"none", "generic"})
                   THEN Refuse("SpaceNotSupported")
                   ELSE IF wrong THEN Refuse("InvalidTranslation")
                   ELSE Plan(<<Shift(shift)>>, "none")
<1>1. RelativeMove(r) = plan
  BY DEF RelativeMove
<1>2. RelativeMove(r)' = plan'
  BY DEF RelativeMove
<1>3. by' = by
  <2>1. ASSUME NEW a, NEW v PROVE ViewDelta(a, v)' = ViewDelta(a, v)
    BY SameConversions DEF ViewDelta
  <2>2. ASSUME NEW a PROVE Delta(a, r)' = Delta(a, r)
    BY SameDelta
  <2> QED
    BY <2>1, <2>2
<1> HIDE DEF by
<1>4. shift' = shift
  BY <1>3
<1>5. fault' = fault
  BY SameGate
<1> HIDE DEF shift, fault
<1>6. plan' = plan
  BY <1>4, <1>5
<1> QED
  BY <1>1, <1>2, <1>6

LEMMA SameAbsoluteMove ==
  ASSUME node' = node, NEW r
  PROVE  AbsoluteMove(r)' = AbsoluteMove(r)
<1> DEFINE jump == [a \in node.jumps |-> Target(a, r)]
           fault == Gate(r, "jump_to_abs")
           plan == IF fault # "none" THEN Refuse(fault)
                   ELSE IF OddPosition(r) THEN Refuse("SpaceNotSupported")
                   ELSE IF Aims(r) = {} THEN Refuse("InvalidPosition")
                   ELSE Plan(<<Go(jump)>>, "none")
<1>1. AbsoluteMove(r) = plan
  BY DEF AbsoluteMove, JumpTo
<1>2. AbsoluteMove(r)' = plan'
  BY DEF AbsoluteMove, JumpTo
<1>3. ASSUME NEW a PROVE Target(a, r)' = Target(a, r)
  BY SameConversions DEF Target
<1>4. jump' = jump
  BY <1>3
<1>5. fault' = fault
  BY SameGate
<1> HIDE DEF jump, fault
<1>6. plan' = plan
  BY <1>4, <1>5
<1> QED
  BY <1>1, <1>2, <1>6

-----------------------------------------------------------------------------
(* What the commands of a plan do with an axis.                            *)

GoesTo(c, a, n) == c.op = "go" /\ a \in DOMAIN c.to /\ c.to[a] = n
Rests(c, a) == c.op = "halt" /\ a \in c.to
Leaves(c, a) == /\ c.op \in {"go", "halt"}
                /\ c.op = "go" => a \notin DOMAIN c.to
                /\ c.op = "halt" => a \notin c.to

\* the commands end with the axis on its way to n, or at rest
Sends(cs, a, n) ==
  \/ cs = <<cs[1]>> /\ GoesTo(cs[1], a, n)
  \/ cs = <<cs[1], cs[2]>> /\ GoesTo(cs[1], a, n) /\ Leaves(cs[2], a)
Calms(cs, a) ==
  \/ cs = <<cs[1]>> /\ Rests(cs[1], a)
  \/ cs = <<cs[1], cs[2]>> /\ Rests(cs[1], a) /\ (Rests(cs[2], a) \/ Leaves(cs[2], a))
  \/ cs = <<cs[1], cs[2]>> /\ Leaves(cs[1], a) /\ Rests(cs[2], a)

LEMMA SendsAndCalms ==
  ASSUME NEW c, NEW d, NEW a, NEW n
  PROVE  /\ GoesTo(c, a, n) => Sends(<<c>>, a, n)
         /\ GoesTo(c, a, n) /\ Leaves(d, a) => Sends(<<c, d>>, a, n)
         /\ Rests(c, a) => Calms(<<c>>, a)
         /\ Rests(c, a) /\ (Rests(d, a) \/ Leaves(d, a)) => Calms(<<c, d>>, a)
         /\ Leaves(c, a) /\ Rests(d, a) => Calms(<<c, d>>, a)
<1>1. <<c>>[1] = c /\ <<c, d>>[1] = c /\ <<c, d>>[2] = d
  OBVIOUS
<1> QED
  BY <1>1 DEF Sends, Calms

LEMMA Joined ==
  ASSUME NEW c
  PROVE  /\ <<c>> \o <<>> = <<c>> /\ <<>> \o <<c>> = <<c>>
         /\ <<>> \o <<>> = <<>>
<1>1. <<c>> \in Seq({c}) /\ <<>> \in Seq({c})
  OBVIOUS
<1> QED
  BY <1>1, ConcatEmptySeq

\* the four parts of a ContinuousMove of an axis that turns, and of none
LEMMA TurningPlan ==
  ASSUME NEW go, NEW drive, NEW hold, NEW a, NEW n, GoesTo(go, a, n),
         drive = <<>> \/ (\E c : drive = <<c>> /\ Leaves(c, a)),
         hold = <<>> \/ (\E c : hold = <<c>> /\ Leaves(c, a)),
         drive = <<>> \/ hold = <<>>
  PROVE  Sends(<<go>> \o drive \o (<<>> \o hold), a, n)
<1>1. CASE drive = <<>> /\ hold = <<>>
  <2>1. <<go>> \o drive \o (<<>> \o hold) = <<go>>
    BY <1>1, Joined
  <2> QED
    BY <2>1, SendsAndCalms
<1>2. CASE \E c : drive = <<c>> /\ Leaves(c, a)
  <2>1. PICK c : drive = <<c>> /\ Leaves(c, a)
    BY <1>2
  <2>2. hold = <<>>
    BY <2>1
  <2>3. <<go>> \o drive = <<go, c>>
    BY <2>1, PairOf
  <2>4. <<go>> \o drive \o (<<>> \o hold) = <<go, c>>
    <3>1. <<go, c>> \in Seq({go, c})
      OBVIOUS
    <3> QED
      BY <2>2, <2>3, <3>1, Joined, ConcatEmptySeq
  <2> QED
    BY <2>1, <2>4, SendsAndCalms
<1>3. CASE drive = <<>> /\ \E c : hold = <<c>> /\ Leaves(c, a)
  <2>1. PICK c : hold = <<c>> /\ Leaves(c, a)
    BY <1>3
  <2>2. <<go>> \o drive = <<go>> /\ <<>> \o hold = <<c>>
    BY <1>3, <2>1, Joined
  <2>3. <<go>> \o drive \o (<<>> \o hold) = <<go, c>>
    BY <2>2, PairOf
  <2> QED
    BY <2>1, <2>3, SendsAndCalms
<1> QED
  BY <1>1, <1>2, <1>3

LEMMA RestingPlan ==
  ASSUME NEW drive, NEW rest, NEW hold, NEW a, Rests(rest, a),
         drive = <<>> \/ (\E c : drive = <<c>> /\ Leaves(c, a)),
         hold = <<>> \/ (\E c : hold = <<c>> /\ (Rests(c, a) \/ Leaves(c, a))),
         drive = <<>> \/ hold = <<>>
  PROVE  Calms(<<>> \o drive \o (<<rest>> \o hold), a)
<1>1. CASE drive = <<>> /\ hold = <<>>
  <2>1. <<>> \o drive \o (<<rest>> \o hold) = <<rest>>
    BY <1>1, Joined
  <2> QED
    BY <2>1, SendsAndCalms
<1>2. CASE \E c : drive = <<c>> /\ Leaves(c, a)
  <2>1. PICK c : drive = <<c>> /\ Leaves(c, a)
    BY <1>2
  <2>2. hold = <<>>
    BY <2>1
  <2>3. <<>> \o drive = <<c>> /\ <<rest>> \o hold = <<rest>>
    BY <2>1, <2>2, Joined
  <2>4. <<>> \o drive \o (<<rest>> \o hold) = <<c, rest>>
    BY <2>3, PairOf
  <2> QED
    BY <2>1, <2>4, SendsAndCalms
<1>3. CASE drive = <<>> /\ \E c : hold = <<c>> /\ (Rests(c, a) \/ Leaves(c, a))
  <2>1. PICK c : hold = <<c>> /\ (Rests(c, a) \/ Leaves(c, a))
    BY <1>3
  <2>2. <<>> \o drive = <<>> /\ <<rest>> \o hold = <<rest, c>>
    BY <1>3, <2>1, Joined, PairOf
  <2>3. <<>> \o drive \o (<<rest>> \o hold) = <<rest, c>>
    <3>1. <<rest, c>> \in Seq({rest, c})
      OBVIOUS
    <3> QED
      BY <2>2, <3>1, ConcatEmptySeq
  <2> QED
    BY <2>1, <2>3, SendsAndCalms
<1> QED
  BY <1>1, <1>2, <1>3

\* the grid of what is asked of pan and tilt
LEMMA NumbersOfRequest ==
  ASSUME node \in Nodes, NEW p \in Procs, NEW r \in Requests[p], r.pt # Null,
         NEW a \in PanTilt, Of(a, r.pt) # Null
  PROVE  /\ Of(a, r.pt) \in Int
         /\ r.method = "ContinuousMove" => Multiple(Of(a, r.pt), Unit(node, a))
         /\ r.method = "RelativeMove" /\ r.pt.space # "fov"
              => Multiple(Of(a, r.pt), Unit(node, a))
         /\ r.method = "RelativeMove" /\ r.pt.space = "fov"
              => Multiple(Of(a, r.pt) * node.fov[a], 2 * One * Unit(node, a))
         /\ r.method = "AbsoluteMove" /\ r.pt.space = "spherical"
              => Multiple((IF node.reverse THEN 0 - Of(a, r.pt) ELSE Of(a, r.pt))
                            - node.range[a].min, Unit(node, a))
<1>1. Of(a, r.pt) \in Int
  BY RequestsAssumption
<1>2. r.method = "ContinuousMove" => Multiple(Of(a, r.pt), Unit(node, a))
  BY StepsAssumption
<1>3. r.method = "RelativeMove" /\ r.pt.space # "fov" => Multiple(Of(a, r.pt), Unit(node, a))
  BY StepsAssumption
<1>4. r.method = "RelativeMove" /\ r.pt.space = "fov"
        => Multiple(Of(a, r.pt) * node.fov[a], 2 * One * Unit(node, a))
  BY StepsAssumption
<1>5. r.method = "AbsoluteMove" /\ r.pt.space = "spherical"
        => Multiple((IF node.reverse THEN 0 - Of(a, r.pt) ELSE Of(a, r.pt))
                      - node.range[a].min, Unit(node, a))
  BY StepsAssumption
<1> QED
  BY <1>1, <1>2, <1>3, <1>4, <1>5

LEMMA DeltaOfAxis ==
  ASSUME node \in Nodes, NEW p \in Procs, NEW r \in Requests[p], r.pt # Null,
         NEW a \in PanTilt, Of(a, r.pt) # Null, Multiple(Of(a, r.pt), Unit(node, a))
  PROVE  Follows(a, Of(a, r.pt), Delta(a, r))
<1>1. Of(a, r.pt) \in Int
  BY NumbersOfRequest
<1>2. a # "zoom"
  BY DEF PanTilt
<1>3. Delta(a, r) = ToDelta(a, Reversed(a, Of(a, r.pt)), node.range[a])
  BY <1>2 DEF Delta
<1> QED
  BY <1>1, <1>3, DeltaFollows

LEMMA TurnsDiffer ==
  /\ PanTilt # {"pan"} /\ PanTilt # {"tilt"} /\ PanTilt # {}
  /\ {"pan"} # {"tilt"} /\ {"pan"} # {} /\ {"tilt"} # {}
<1>1. "pan" \in PanTilt /\ "tilt" \in PanTilt /\ "pan" # "tilt"
  BY DEF PanTilt
<1> QED
  BY <1>1

(* ContinuousMove: pan or tilt goes to the end that is asked for, and two  *)
(* zeros stop them, unless the move is dropped or undone.                  *)
LEMMA ContinuousMoveFollows ==
  ASSUME node \in Nodes, NEW p \in Procs, NEW r \in Requests[p], r.pt # Null,
         r.method = "ContinuousMove", NEW a \in PanTilt, Of(a, r.pt) # Null,
         ContinuousMove(r).fault = "none", ContinuousMove(r).commands # <<>>
  PROVE  LET v == Of(a, r.pt)
             cs == ContinuousMove(r).commands
         IN /\ v # 0 => Dropped(r) \/ Undone(r) \/ Sends(cs, a, Farthest(a, v))
            /\ (\A b \in PanTilt : Of(b, r.pt) = 0) /\ Has("move_stop") => Calms(cs, a)
<1> DEFINE d == [b \in Axes |-> Delta(b, r)]
           turning == {b \in PanTilt : d[b] # 0}
           turner == CASE turning = PanTilt -> "move_both"
                       [] turning = {"pan"} -> "move_x"
                       [] turning = {"tilt"} -> "move_y"
                       [] turning = {} -> Null
           go == Go([b \in turning |-> End(b, d[b])])
           turn == IF turning # {} /\ Has(turner) THEN <<go>> ELSE <<>>
           zoomer == IF d["zoom"] > 0 THEN "move_in" ELSE "move_out"
           drive == IF d["zoom"] # 0
                    THEN <<Go([b \in {"zoom"} |-> End(b, d[b])])>> ELSE <<>>
           calm(still, axes) ==
             IF still /\ Has("move_stop") THEN <<Stop(axes)>> ELSE <<>>
           level == calm(r.pt # Null /\ r.pt.x # Null /\ r.pt.y # Null
                         /\ turning = {}, PanTilt)
           hold == calm(r.zoom # Null /\ r.zoom.x # Null /\ d["zoom"] = 0, {"zoom"})
           v == Of(a, r.pt)
           cs == ContinuousMove(r).commands
<1>1. /\ cs = turn \o drive \o (level \o hold)
      /\ ~ (Len(turn) = 0 /\ turner \in {"move_x", "move_y"})
  BY DEF ContinuousMove, Refuse, Plan, Gate
<1>2. \A b \in PanTilt : b \in Axes /\ b # "zoom"
  BY DEF PanTilt, Axes
<1>3. ASSUME NEW b \in PanTilt
      PROVE  /\ Of(b, r.pt) = Null => d[b] = 0
             /\ Of(b, r.pt) # Null => Follows(b, Of(b, r.pt), d[b]) /\ Of(b, r.pt) \in Int
  <2>1. d[b] = Delta(b, r)
    BY <1>2
  <2>2. CASE Of(b, r.pt) = Null
    BY <1>2, <2>1, <2>2 DEF Delta
  <2>3. CASE Of(b, r.pt) # Null
    BY <2>1, <2>3, NumbersOfRequest, DeltaOfAxis
  <2> QED
    BY <2>2, <2>3
<1>4. v \in Int /\ Follows(a, v, d[a])
  BY <1>3
<1>5. drive = <<>> \/ \E c : drive = <<c>> /\ Leaves(c, a)
  <2>1. Leaves(Go([b \in {"zoom"} |-> End(b, d[b])]), a)
    BY <1>2 DEF Leaves, Go
  <2> QED
    BY <2>1
<1>6. drive = <<>> \/ hold = <<>>
  OBVIOUS
<1>7. ASSUME v # 0, ~ Dropped(r), ~ Undone(r)
      PROVE  Sends(cs, a, Farthest(a, v))
  <2>1. d[a] # 0 /\ a \in turning
    BY <1>4, <1>7 DEF Follows
  <2>2. Has(turner)
    <3>1. CASE turning = PanTilt
      <4>1. \A b \in PanTilt : Of(b, r.pt) \notin {0, Null}
        BY <1>3, <3>1 DEF Follows
      <4>2. Has("move_both")
        BY <1>7, <4>1 DEF Dropped
      <4>3. turner = "move_both"
        BY <3>1, TurnsDiffer
      <4> QED
        BY <4>2, <4>3
    <3>2. CASE turning # PanTilt
      <4>1. turning = {"pan"} \/ turning = {"tilt"}
        BY <2>1, <3>2 DEF PanTilt
      <4>2. turner \in {"move_x", "move_y"}
        <5> HIDE DEF turning
        <5> QED
          BY <4>1, TurnsDiffer
      <4>3. turn # <<>>
        BY <1>1, <4>2
      <4> QED
        BY <4>3
    <3> QED
      BY <3>1, <3>2
  <2>3. turn = <<go>>
    BY <2>1, <2>2
  <2>4. level = <<>>
    BY <2>1
  <2>5. hold = <<>> \/ \E c : hold = <<c>> /\ Leaves(c, a)
    <3>1. ASSUME hold # <<>> PROVE hold = <<Halt({"zoom"})>>
      <4>1. r.zoom # Null /\ d["zoom"] = 0 /\ Has("move_stop") /\ hold = <<Stop({"zoom"})>>
        BY <3>1
      <4>2. Delta("zoom", r) = 0
        BY <4>1 DEF Axes
      <4>3. ~ node.stops_all
        BY <1>7, <4>1, <4>2 DEF Undone
      <4> QED
        BY <4>1, <4>3 DEF Stop
    <3>2. Leaves(Halt({"zoom"}), a)
      BY <1>2 DEF Leaves, Halt
    <3> QED
      BY <3>1, <3>2
  <2>6. GoesTo(go, a, Farthest(a, v))
    <3>1. go.op = "go" /\ a \in DOMAIN go.to /\ go.to[a] = End(a, d[a])
      BY <2>1 DEF Go
    <3>2. End(a, d[a]) = Farthest(a, v)
      BY <1>4, <1>7, EndsOfScale DEF End, Follows
    <3> QED
      BY <3>1, <3>2 DEF GoesTo
  <2> HIDE DEF turn, go, drive, level, hold, cs
  <2>7. cs = <<go>> \o drive \o (<<>> \o hold)
    BY <1>1, <2>3, <2>4
  <2> QED
    BY <1>5, <1>6, <2>5, <2>6, <2>7, TurningPlan
<1>8. ASSUME \A b \in PanTilt : Of(b, r.pt) = 0, Has("move_stop")
      PROVE  Calms(cs, a)
  <2>1. turning = {}
    <3>1. 0 # Null
      BY NullAssumption
    <3> QED
      BY <1>3, <1>8, <3>1 DEF Follows
  <2>2. r.pt.x # Null /\ r.pt.y # Null
    <3>1. 0 # Null
      BY NullAssumption
    <3>2. Of("pan", r.pt) = 0 /\ Of("tilt", r.pt) = 0
      BY <1>8 DEF PanTilt
    <3> QED
      BY <3>1, <3>2 DEF Of
  <2>3. level = <<Stop(PanTilt)>> /\ turn = <<>>
    BY <1>8, <2>1, <2>2
  <2>4. Rests(Stop(PanTilt), a)
    BY <1>2 DEF Rests, Stop, Halt
  <2>5. hold = <<>> \/ \E c : hold = <<c>> /\ (Rests(c, a) \/ Leaves(c, a))
    <3>1. Rests(Stop({"zoom"}), a) \/ Leaves(Stop({"zoom"}), a)
      BY <1>2 DEF Rests, Leaves, Stop, Halt
    <3>2. hold # <<>> => hold = <<Stop({"zoom"})>>
      OBVIOUS
    <3> QED
      BY <3>1, <3>2
  <2> HIDE DEF turn, go, drive, level, hold, cs
  <2>6. cs = <<>> \o drive \o (<<Stop(PanTilt)>> \o hold)
    BY <1>1, <2>3
  <2> QED
    BY <1>5, <1>6, <2>4, <2>5, <2>6, RestingPlan
<1> QED
  BY <1>7, <1>8

(* RelativeMove: one shift, each part of it as its number asks.            *)
LEMMA RelativeMoveFollows ==
  ASSUME node \in Nodes, NEW p \in Procs, NEW r \in Requests[p], r.pt # Null,
         r.method = "RelativeMove", NEW a \in PanTilt, a \in node.jumps,
         Of(a, r.pt) # Null,
         RelativeMove(r).fault = "none", RelativeMove(r).commands # <<>>
  PROVE  \E c : /\ RelativeMove(r).commands = <<c>>
                /\ c.op = "shift" /\ a \in DOMAIN c.to
                /\ Blind(r, a) \/ Follows(a, Of(a, r.pt), c.to[a])
<1> DEFINE view == r.pt # Null /\ r.pt.space = "fov"
           by == [b \in Axes |-> IF view /\ b # "zoom" THEN ViewDelta(b, Of(b, r.pt))
                                 ELSE Delta(b, r)]
           c == Shift([b \in node.jumps |-> by[b]])
<1>1. RelativeMove(r).commands = <<c>>
  BY DEF RelativeMove, Refuse, Plan
<1>2. c.op = "shift" /\ a \in DOMAIN c.to /\ c.to[a] = by[a]
  BY DEF Shift
<1>3. a \in Axes /\ a # "zoom" /\ Of(a, r.pt) \in Int
  BY NumbersOfRequest DEF PanTilt, Axes
<1>4. CASE view
  <2>1. by[a] = ViewDelta(a, Of(a, r.pt))
    BY <1>3, <1>4
  <2>2. Blind(r, a) \/ node.fov[a] > 0
    BY <1>4, PanTiltRanges DEF Blind
  <2>3. node.fov[a] > 0 => Follows(a, Of(a, r.pt), ViewDelta(a, Of(a, r.pt)))
    BY <1>3, <1>4, NumbersOfRequest, ViewDeltaFollows
  <2>4. Blind(r, a) \/ Follows(a, Of(a, r.pt), c.to[a])
    BY <1>2, <2>1, <2>2, <2>3
  <2> HIDE DEF c
  <2> QED
    BY <1>1, <1>2, <2>4
<1>5. CASE ~ view
  <2>1. by[a] = Delta(a, r)
    BY <1>3, <1>5
  <2>2. Follows(a, Of(a, r.pt), c.to[a])
    BY <1>2, <1>5, <2>1, NumbersOfRequest, DeltaOfAxis
  <2> HIDE DEF c
  <2> QED
    BY <1>1, <1>2, <2>2
<1> QED
  BY <1>4, <1>5

(* AbsoluteMove: the nearest step to the position, or an end of the range. *)
LEMMA AbsoluteMoveFollows ==
  ASSUME node \in Nodes, NEW p \in Procs, NEW r \in Requests[p], r.pt # Null,
         r.method = "AbsoluteMove", NEW a \in PanTilt, a \in node.jumps \cap Aims(r),
         Of(a, r.pt) # Null,
         AbsoluteMove(r).fault = "none", AbsoluteMove(r).commands # <<>>
  PROVE  LET v == Of(a, r.pt)
             c == JumpTo(r)
         IN /\ AbsoluteMove(r).commands = <<c>>
            /\ c.op = "go" /\ a \in DOMAIN c.to
            /\ IF r.pt.space = "spherical" THEN Status(a, c.to[a]) = Nearest(a, v)
               ELSE v \in {One, 0 - One} => c.to[a] = Farthest(a, v)
<1>1. AbsoluteMove(r).commands = <<JumpTo(r)>>
  BY DEF AbsoluteMove, Refuse, Plan
<1>2. /\ JumpTo(r).op = "go" /\ a \in DOMAIN JumpTo(r).to
      /\ JumpTo(r).to[a] = Target(a, r)
  BY DEF JumpTo, Go
<1>3. a # "zoom" /\ Of(a, r.pt) \in Int
  BY NumbersOfRequest DEF PanTilt
<1>4. Target(a, r) = ToSteps(a, Reversed(a, Of(a, r.pt)),
                             IF r.pt.space = "spherical" THEN node.range[a] ELSE Generic)
  BY <1>3 DEF Target
<1>5. r.pt.space = "spherical" => Status(a, Target(a, r)) = Nearest(a, Of(a, r.pt))
  BY <1>3, <1>4, NumbersOfRequest, PositionFollows
<1>6. r.pt.space # "spherical" /\ Of(a, r.pt) \in {One, 0 - One}
        => Target(a, r) = Farthest(a, Of(a, r.pt))
  BY <1>4, EndsFollow
<1> QED
  BY <1>1, <1>2, <1>5, <1>6

-----------------------------------------------------------------------------
(* A process that is alone has run what is no longer to do.                *)

Movers == {"ContinuousMove", "RelativeMove", "AbsoluteMove"}

LEMMA PlanOfMover ==
  ASSUME NEW r
  PROVE  /\ r.method = "ContinuousMove" => PlanOf(r) = ContinuousMove(r)
         /\ r.method = "RelativeMove" => PlanOf(r) = RelativeMove(r)
         /\ r.method = "AbsoluteMove" => PlanOf(r) = AbsoluteMove(r)
<1>1. r.method = "ContinuousMove" => PlanOf(r) = ContinuousMove(r)
  BY DEF PlanOf
<1>2. r.method = "RelativeMove" => PlanOf(r) = RelativeMove(r)
  BY DEF PlanOf
<1>3. r.method = "AbsoluteMove" => PlanOf(r) = AbsoluteMove(r)
  BY DEF PlanOf
<1> QED
  BY <1>1, <1>2, <1>3

LEMMA SamePlan ==
  ASSUME node' = node, NEW r, r.method \in Movers
  PROVE  PlanOf(r)' = PlanOf(r)
<1>1. /\ r.method = "ContinuousMove" => PlanOf(r)' = ContinuousMove(r)'
      /\ r.method = "RelativeMove" => PlanOf(r)' = RelativeMove(r)'
      /\ r.method = "AbsoluteMove" => PlanOf(r)' = AbsoluteMove(r)'
  <2>1. r.method = "ContinuousMove" => PlanOf(r)' = ContinuousMove(r)'
    BY DEF PlanOf
  <2>2. r.method = "RelativeMove" => PlanOf(r)' = RelativeMove(r)'
    BY DEF PlanOf
  <2>3. r.method = "AbsoluteMove" => PlanOf(r)' = AbsoluteMove(r)'
    BY DEF PlanOf
  <2> QED
    BY <2>1, <2>2, <2>3
<1> QED
  BY <1>1, PlanOfMover, SameContinuousMove, SameRelativeMove, SameAbsoluteMove DEF Movers

\* the motors still do what the command told them
Done(c) ==
  /\ c.op = "go" => \A a \in Axes : a \in DOMAIN c.to => goal[a] = c.to[a]
  /\ c.op = "halt" => \A a \in Axes : a \in c.to => goal[a] = at[a]

Halfway(p, cs) ==
  cs = <<cs[1], cs[2]>> /\ proc[p].todo = <<cs[2]>> /\ Done(cs[1])

AloneOK(p) ==
  LET r == proc[p].ask
  IN /\ r \in Requests[p]
     /\ \A q \in Procs \ {p} : proc[q].pc # "run"
     /\ r.method \in Movers =>
          /\ proc[p].fault = PlanOf(r).fault
          /\ proc[p].todo = PlanOf(r).commands \/ Halfway(p, PlanOf(r).commands)
AloneInv == \A p \in Procs : proc[p].pc = "run" /\ proc[p].alone => AloneOK(p)

LEMMA MoveDoes ==
  ASSUME NEW c, Move(c), NEW a \in Axes
  PROVE  /\ at' = at
         /\ c.op = "go" /\ a \in DOMAIN c.to => goal'[a] = c.to[a]
         /\ c.op = "shift" /\ a \in DOMAIN c.to =>
              goal'[a] = Clamped(at[a] + c.to[a], node.step[a].min, node.step[a].max)
         /\ Rests(c, a) => goal'[a] = at[a]
         /\ Leaves(c, a) => goal'[a] = goal[a]
<1>1. goal'[a] =
        CASE c.op = "go" /\ a \in DOMAIN c.to -> c.to[a]
          [] c.op = "shift" /\ a \in DOMAIN c.to ->
               Clamped(at[a] + c.to[a], node.step[a].min, node.step[a].max)
          [] c.op = "halt" /\ a \in c.to -> at[a]
          [] OTHER -> goal[a]
  BY DEF Move
<1>2. at' = at
  BY DEF Move
<1> QED
  BY <1>1, <1>2 DEF Rests, Leaves

LEMMA BeginKeepsAlone ==
  ASSUME CameraInv, AloneInv, NEW p \in Procs, NEW r \in Requests[p], Begin(p, r)
  PROVE  AloneInv'
<1> DEFINE others == {q \in Procs \ {p} : proc[q].pc = "run"}
<1>1. node' = node /\ DOMAIN proc = Procs
  BY DEF Begin, CameraInv
<1>2. proc' = [q \in Procs |->
         IF q = p THEN [pc |-> "run", ask |-> r, todo |-> PlanOf(r).commands,
                        fault |-> PlanOf(r).fault, read |-> Null, alone |-> others = {}]
         ELSE IF q \in others THEN [proc[q] EXCEPT !.alone = FALSE] ELSE proc[q]]
  BY DEF Begin
<1> SUFFICES ASSUME NEW q \in Procs, proc'[q].pc = "run", proc'[q].alone
             PROVE  AloneOK(q)'
  BY DEF AloneInv
<1>3. q = p
  <2> SUFFICES ASSUME q # p PROVE FALSE
    OBVIOUS
  <2>1. CASE q \in others
    <3>1. proc'[q] = [proc[q] EXCEPT !.alone = FALSE]
      BY <1>2, <2>1
    <3>2. "alone" \in DOMAIN proc[q]
      BY DEF CameraInv, ProcessOK
    <3> QED
      BY <3>1, <3>2
  <2>2. CASE q \notin others
    BY <1>2, <2>2
  <2> QED
    BY <2>1, <2>2
<1>4. /\ proc'[p].ask = r /\ proc'[p].todo = PlanOf(r).commands
      /\ proc'[p].fault = PlanOf(r).fault
      /\ proc'[p].alone = (others = {})
  BY <1>2
<1>5. \A o \in Procs \ {p} : proc'[o].pc # "run"
  <2>1. others = {}
    BY <1>3, <1>4
  <2> QED
    BY <1>2, <2>1
<1>6. r.method \in Movers => PlanOf(r)' = PlanOf(r)
  BY <1>1, SamePlan
<1> QED
  BY <1>3, <1>4, <1>5, <1>6 DEF AloneOK

\* while a process is alone nobody else runs a command
LEMMA NobodyElse ==
  ASSUME AloneInv, NEW p \in Procs, proc[p].pc = "run",
         NEW q \in Procs, q # p, proc[q].pc = "run"
  PROVE  ~ proc[q].alone
BY DEF AloneInv, AloneOK

LEMMA RunKeepsAlone ==
  ASSUME CameraInv, AloneInv, NEW p \in Procs, Run(p)
  PROVE  AloneInv'
<1> DEFINE c == Head(proc[p].todo)
           read == IF c.op = "get_position" THEN Reading ELSE proc[p].read
           last == Len(proc[p].todo) = 1
<1>1. node' = node /\ DOMAIN proc = Procs /\ proc[p].pc = "run"
  BY DEF Run, CameraInv
<1>2. proc' = [proc EXCEPT ![p] =
         IF last THEN Idle
         ELSE [proc[p] EXCEPT !.todo = Tail(proc[p].todo), !.read = read]]
  BY DEF Run
<1>3. IF c.op \in {"go", "shift", "halt"} THEN Move(c) ELSE UNCHANGED motors
  BY DEF Run
<1> SUFFICES ASSUME NEW q \in Procs, proc'[q].pc = "run", proc'[q].alone
             PROVE  AloneOK(q)'
  BY DEF AloneInv
<1>4. q = p
  <2> SUFFICES ASSUME q # p PROVE FALSE
    OBVIOUS
  <2>1. proc'[q] = proc[q]
    BY <1>1, <1>2
  <2> QED
    BY <1>1, <2>1, NobodyElse
<1>5. ~ last
  <2> SUFFICES ASSUME last PROVE FALSE
    OBVIOUS
  <2>1. proc'[p] = Idle
    BY <1>1, <1>2
  <2> QED
    BY <1>4, <2>1 DEF Idle
<1>6. proc'[p] = [proc[p] EXCEPT !.todo = Tail(proc[p].todo), !.read = read]
  BY <1>1, <1>2, <1>5
<1>7. DOMAIN proc[p] = {"pc", "ask", "todo", "fault", "read", "alone"} /\ Short(proc[p].todo)
      /\ proc[p].todo # <<>>
  BY <1>1 DEF CameraInv, ProcessOK
<1>8. /\ proc'[p].ask = proc[p].ask /\ proc'[p].fault = proc[p].fault
      /\ proc'[p].alone = proc[p].alone /\ proc'[p].todo = Tail(proc[p].todo)
  BY <1>6, <1>7
<1>9. AloneOK(p)
  BY <1>1, <1>4, <1>8 DEF AloneInv
<1>10. PICK r \in Requests[p] : r = proc[p].ask
  BY <1>9 DEF AloneOK
<1>11. \A o \in Procs \ {p} : proc'[o].pc # "run"
  <2>1. \A o \in Procs \ {p} : proc'[o] = proc[o]
    BY <1>1, <1>2
  <2> QED
    BY <1>9, <2>1 DEF AloneOK
<1>12. ASSUME r.method \in Movers
       PROVE  /\ proc'[p].fault = PlanOf(r)'.fault
              /\ Halfway(p, PlanOf(r).commands)'
  <2>1. PlanOf(r)' = PlanOf(r)
    BY <1>1, <1>12, SamePlan
  <2>2. /\ proc[p].fault = PlanOf(r).fault
        /\ proc[p].todo = PlanOf(r).commands \/ Halfway(p, PlanOf(r).commands)
    BY <1>9, <1>10, <1>12 DEF AloneOK
  <2> DEFINE s == proc[p].todo
  <2>3. s = <<s[1], s[2]>>
    <3>1. s # <<s[1]>>
      BY <1>5, ListsOfTwo
    <3> QED
      BY <1>7, <3>1 DEF Short
  <2>4. s = PlanOf(r).commands
    <3>1. ASSUME Halfway(p, PlanOf(r).commands) PROVE FALSE
      <4>1. PICK d : s = <<d>>
        BY <3>1 DEF Halfway
      <4> QED
        BY <1>5, <4>1, ListsOfTwo
    <3> QED
      BY <2>2, <3>1
  <2>5. c = s[1] /\ Tail(s) = <<s[2]>>
    <3>1. Head(<<s[1], s[2]>>) = s[1] /\ Tail(<<s[1], s[2]>>) = <<s[2]>>
      BY ListsOfTwo
    <3> QED
      BY <2>3, <3>1
  <2>6. PICK cs : cs = PlanOf(r).commands
    OBVIOUS
  <2>7. cs = <<cs[1], cs[2]>> /\ c = cs[1] /\ proc'[p].todo = <<cs[2]>>
    BY <1>8, <2>3, <2>4, <2>5, <2>6
  <2>8. Done(cs[1])'
    <3>1. IF cs[1].op \in {"go", "shift", "halt"} THEN Move(cs[1]) ELSE UNCHANGED motors
      BY <1>3, <2>7
    <3> QED
      BY <3>1, MoveDoes DEF Done, Rests
  <2>9. Halfway(p, cs)'
    BY <2>7, <2>8 DEF Halfway
  <2> QED
    BY <1>8, <1>10, <2>1, <2>2, <2>6, <2>9
<1> QED
  BY <1>4, <1>8, <1>10, <1>11, <1>12 DEF AloneOK

\* nothing but the steps of the motors, or what other processes do
LEMMA RestKeepsAlone ==
  ASSUME CameraInv, AloneInv, node' = node, NEW p \in Procs,
         proc[p].pc = "run", proc[p].alone, proc'[p] = proc[p],
         \A q \in Procs \ {p} : proc'[q].pc # "run",
         goal' = goal, \A a \in Axes : at[a] = goal[a] => at'[a] = at[a]
  PROVE  AloneOK(p)'
<1>1. AloneOK(p)
  BY DEF AloneInv
<1>2. PICK r \in Requests[p] : r = proc[p].ask
  BY <1>1 DEF AloneOK
<1>3. ASSUME r.method \in Movers
      PROVE  /\ proc'[p].fault = PlanOf(r)'.fault
             /\ \/ proc'[p].todo = PlanOf(r)'.commands
                \/ Halfway(p, PlanOf(r).commands)'
  <2>1. PlanOf(r)' = PlanOf(r)
    BY <1>3, SamePlan
  <2>2. /\ proc[p].fault = PlanOf(r).fault
        /\ proc[p].todo = PlanOf(r).commands \/ Halfway(p, PlanOf(r).commands)
    BY <1>1, <1>2, <1>3 DEF AloneOK
  <2>3. PICK cs : cs = PlanOf(r).commands
    OBVIOUS
  <2>4. Halfway(p, cs) => Halfway(p, cs)'
    <3>1. Done(cs[1]) => Done(cs[1])'
      BY DEF Done
    <3> QED
      BY <3>1 DEF Halfway
  <2> QED
    BY <2>1, <2>2, <2>3, <2>4
<1> QED
  BY <1>2, <1>3 DEF AloneOK

LEMMA StepAloneInv ==
  ASSUME CameraInv, AloneInv, [Next]_vars
  PROVE  AloneInv'
<1>1. ASSUME NEW p \in Procs, NEW r \in Requests[p], Begin(p, r)
      PROVE  AloneInv'
  BY <1>1, BeginKeepsAlone
<1>2. ASSUME NEW p \in Procs, Run(p)
      PROVE  AloneInv'
  BY <1>2, RunKeepsAlone
<1>3. ASSUME NEW p \in Procs, RunBadly(p)
      PROVE  AloneInv'
  <2> SUFFICES ASSUME NEW q \in Procs, proc'[q].pc = "run", proc'[q].alone
               PROVE  AloneOK(q)'
    BY DEF AloneInv
  <2>1. proc' = [proc EXCEPT ![p] = Idle] /\ DOMAIN proc = Procs /\ proc[p].pc = "run"
    BY <1>3 DEF RunBadly, CameraInv
  <2>2. CASE q = p
    <3>1. proc'[q] = Idle
      BY <2>1, <2>2
    <3> QED
      BY <3>1 DEF Idle
  <2>3. CASE q # p
    <3>1. proc'[q] = proc[q]
      BY <2>1, <2>3
    <3> QED
      BY <2>1, <2>3, <3>1, NobodyElse
  <2> QED
    BY <2>2, <2>3
<1>4. ASSUME NEW a \in Axes, Turn(a)
      PROVE  AloneInv'
  <2> SUFFICES ASSUME NEW q \in Procs, proc'[q].pc = "run", proc'[q].alone
               PROVE  AloneOK(q)'
    BY DEF AloneInv
  <2>1. UNCHANGED <<node, goal, proc>> /\ at[a] # goal[a]
    BY <1>4 DEF Turn
  <2>2. \A b \in Axes : at[b] = goal[b] => at'[b] = at[b]
    BY <1>4, <2>1 DEF Turn, CameraInv, CameraInRange
  <2>3. AloneOK(q)
    BY <2>1 DEF AloneInv
  <2> QED
    BY <2>1, <2>2, <2>3, RestKeepsAlone DEF AloneOK
<1>5. CASE UNCHANGED vars
  <2> SUFFICES ASSUME NEW q \in Procs, proc'[q].pc = "run", proc'[q].alone
               PROVE  AloneOK(q)'
    BY DEF AloneInv
  <2>1. UNCHANGED <<node, at, goal, proc>>
    BY <1>5 DEF vars
  <2>2. AloneOK(q)
    BY <2>1 DEF AloneInv
  <2> QED
    BY <2>1, <2>2, RestKeepsAlone DEF AloneOK
<1> QED
  BY <1>1, <1>2, <1>3, <1>4, <1>5 DEF Next

-----------------------------------------------------------------------------
(* The last command of a process that is alone.                            *)

\* where a goal is when the last command of a plan has been given
LEMMA LastCommand ==
  ASSUME CameraInv, NEW p \in Procs, Run(p), NEW cs, NEW a \in Axes,
         Len(proc[p].todo) = 1, proc[p].todo = cs \/ Halfway(p, cs)
  PROVE  /\ \A n : Sends(cs, a, n) => goal'[a] = n
         /\ Calms(cs, a) => goal'[a] = at[a]
         /\ cs = <<cs[1]>> => proc[p].todo = cs
<1> DEFINE c == Head(proc[p].todo)
<1>1. IF c.op \in {"go", "shift", "halt"} THEN Move(c) ELSE UNCHANGED motors
  BY DEF Run
<1>2. ASSUME NEW x, NEW y PROVE Len(<<x, y>>) # 1 /\ <<x>> # <<x, y>> /\ Len(<<x>>) # Len(<<x, y>>)
  OBVIOUS
<1>3. CASE Halfway(p, cs)
  <2>1. cs = <<cs[1], cs[2]>> /\ proc[p].todo = <<cs[2]>> /\ Done(cs[1])
    BY <1>3 DEF Halfway
  <2>2. c = cs[2]
    <3>1. Head(<<cs[2]>>) = cs[2]
      BY ListsOfTwo
    <3> QED
      BY <2>1, <3>1
  <2>3. cs # <<cs[1]>>
    BY <1>2, <2>1
  <2>4. ASSUME NEW n, Sends(cs, a, n) PROVE goal'[a] = n
    <3>1. GoesTo(cs[1], a, n) /\ Leaves(cs[2], a)
      BY <2>3, <2>4 DEF Sends
    <3>2. goal[a] = n
      BY <2>1, <3>1 DEF Done, GoesTo
    <3>3. Move(cs[2])
      BY <1>1, <2>2, <3>1 DEF Leaves
    <3> QED
      BY <3>1, <3>2, <3>3, MoveDoes
  <2>5. ASSUME Calms(cs, a) PROVE goal'[a] = at[a]
    <3>1. \/ Rests(cs[1], a) /\ (Rests(cs[2], a) \/ Leaves(cs[2], a))
          \/ Leaves(cs[1], a) /\ Rests(cs[2], a)
      BY <2>3, <2>5 DEF Calms
    <3>2. Rests(cs[1], a) => goal[a] = at[a]
      BY <2>1 DEF Done, Rests
    <3>3. Move(cs[2])
      BY <1>1, <2>2, <3>1 DEF Leaves, Rests
    <3> QED
      BY <3>1, <3>2, <3>3, MoveDoes
  <2> QED
    BY <2>3, <2>4, <2>5
<1>4. CASE proc[p].todo = cs
  <2>1. cs # <<cs[1], cs[2]>>
    BY <1>2, <1>4
  <2>2. cs = <<cs[1]>> => c = cs[1]
    <3>1. Head(<<cs[1]>>) = cs[1]
      BY ListsOfTwo
    <3> QED
      BY <1>4, <3>1
  <2>3. ASSUME NEW n, Sends(cs, a, n) PROVE goal'[a] = n
    <3>1. GoesTo(c, a, n)
      BY <2>1, <2>2, <2>3 DEF Sends
    <3>2. Move(c)
      BY <1>1, <3>1 DEF GoesTo
    <3> QED
      BY <3>1, <3>2, MoveDoes DEF GoesTo
  <2>4. ASSUME Calms(cs, a) PROVE goal'[a] = at[a]
    <3>1. Rests(c, a)
      BY <2>1, <2>2, <2>4 DEF Calms
    <3>2. Move(c)
      BY <1>1, <3>1 DEF Rests
    <3> QED
      BY <3>1, <3>2, MoveDoes
  <2> QED
    BY <1>4, <2>3, <2>4
<1> QED
  BY <1>3, <1>4

LEMMA AnswersAsAsked ==
  ASSUME CameraInv, AloneInv, NEW p \in Procs, Run(p), Answers(p), proc[p].alone,
         NEW r, r = proc[p].ask, r.pt # Null, NEW a \in PanTilt, Of(a, r.pt) # Null
  PROVE  Obeys(r, a)
<1> DEFINE v == Of(a, r.pt)
           cs == PlanOf(r).commands
<1>1. proc[p].pc = "run" /\ proc[p].fault = "none" /\ node \in Nodes /\ DOMAIN proc = Procs
  BY DEF Answers, CameraInv
<1>2. r \in Requests[p]
  BY <1>1 DEF AloneInv, AloneOK
<1>3. r.method \in Movers =>
        /\ PlanOf(r).fault = "none"
        /\ proc[p].todo = cs \/ Halfway(p, cs)
  BY <1>1 DEF AloneInv, AloneOK
<1>4. Len(proc[p].todo) = 1
  <2> SUFFICES ASSUME Len(proc[p].todo) # 1 PROVE FALSE
    OBVIOUS
  <2> DEFINE read == IF Head(proc[p].todo).op = "get_position" THEN Reading ELSE proc[p].read
  <2>1. proc'[p] = [proc[p] EXCEPT !.todo = Tail(proc[p].todo), !.read = read]
    BY <1>1 DEF Run
  <2>2. "pc" \in DOMAIN proc[p]
    BY DEF CameraInv, ProcessOK
  <2>3. proc'[p].pc = "run"
    BY <1>1, <2>1, <2>2
  <2> QED
    BY <2>3 DEF Answers
<1>5. r.method \in Movers => cs # <<>>
  <2>1. proc[p].todo # <<>>
    BY <1>1 DEF CameraInv, ProcessOK
  <2>2. Halfway(p, cs) => cs # <<>>
    BY DEF Halfway
  <2> QED
    BY <1>3, <2>1, <2>2
<1>6. a \in Axes /\ v \in Int
  BY <1>1, <1>2, NumbersOfRequest DEF PanTilt, Axes
<1>7. r.method \in Movers =>
        /\ \A n : Sends(cs, a, n) => goal'[a] = n
        /\ Calms(cs, a) => goal'[a] = at[a]
        /\ cs = <<cs[1]>> => proc[p].todo = cs
  BY <1>3, <1>4, <1>6, LastCommand
<1>8. CASE r.method = "ContinuousMove"
  <2>1. cs = ContinuousMove(r).commands /\ PlanOf(r) = ContinuousMove(r)
    BY <1>8, PlanOfMover
  <2>2. /\ v # 0 => Dropped(r) \/ Undone(r) \/ Sends(cs, a, Farthest(a, v))
        /\ (\A b \in PanTilt : Of(b, r.pt) = 0) /\ Has("move_stop") => Calms(cs, a)
    BY <1>1, <1>2, <1>3, <1>5, <1>8, <2>1, ContinuousMoveFollows DEF Movers
  <2>3. /\ v # 0 => Dropped(r) \/ Undone(r) \/ goal'[a] = Farthest(a, v)
        /\ (\A b \in PanTilt : Of(b, r.pt) = 0) /\ Has("move_stop") => goal'[a] = at[a]
    BY <1>7, <1>8, <2>2 DEF Movers
  <2> QED
    BY <1>6, <1>8, <2>3 DEF Obeys
<1>9. CASE r.method = "RelativeMove" /\ v # 0 /\ a \in node.jumps
  <2>1. cs = RelativeMove(r).commands /\ PlanOf(r) = RelativeMove(r)
    BY <1>9, PlanOfMover
  <2>2. PICK c : /\ cs = <<c>> /\ c.op = "shift" /\ a \in DOMAIN c.to
                 /\ Blind(r, a) \/ Follows(a, v, c.to[a])
    BY <1>1, <1>2, <1>3, <1>5, <1>9, <2>1, RelativeMoveFollows DEF Movers
  <2>3. proc[p].todo = <<c>> /\ Head(<<c>>) = c
    <3>1. <<c>>[1] = c
      OBVIOUS
    <3>2. cs = <<cs[1]>>
      BY <2>2, <3>1
    <3> QED
      BY <1>7, <1>9, <2>2, <3>2, ListsOfTwo DEF Movers
  <2>4. Move(c)
    BY <2>2, <2>3 DEF Run
  <2>5. goal'[a] = Clamped(at[a] + c.to[a], node.step[a].min, node.step[a].max)
    BY <1>6, <2>2, <2>4, MoveDoes
  <2>6. \/ Blind(r, a) \/ at[a] = Farthest(a, v)
        \/ at[a] \notin node.step[a].min .. node.step[a].max
        \/ (v > 0 /\ Status(a, goal'[a]) > Status(a, at[a]))
        \/ (v < 0 /\ Status(a, goal'[a]) < Status(a, at[a]))
    BY <1>1, <1>6, <1>9, <2>2, <2>5, ShiftFollows
  <2> QED
    BY <1>9, <2>6 DEF Obeys
<1>10. CASE r.method = "AbsoluteMove" /\ a \in node.jumps \cap Aims(r)
  <2> DEFINE c == JumpTo(r)
  <2>1. cs = AbsoluteMove(r).commands /\ PlanOf(r) = AbsoluteMove(r)
    BY <1>10, PlanOfMover
  <2>2. /\ cs = <<c>> /\ c.op = "go" /\ a \in DOMAIN c.to
        /\ IF r.pt.space = "spherical" THEN Status(a, c.to[a]) = Nearest(a, v)
           ELSE v \in {One, 0 - One} => c.to[a] = Farthest(a, v)
    BY <1>1, <1>2, <1>3, <1>5, <1>10, <2>1, AbsoluteMoveFollows DEF Movers
  <2>3. Sends(cs, a, c.to[a])
    BY <2>2, SendsAndCalms DEF GoesTo
  <2>4. goal'[a] = c.to[a]
    BY <1>7, <1>10, <2>3 DEF Movers
  <2>5. IF r.pt.space = "spherical" THEN Status(a, goal'[a]) = Nearest(a, v)
        ELSE v \in {One, 0 - One} => goal'[a] = Farthest(a, v)
    BY <2>2, <2>4
  <2> HIDE DEF c
  <2> QED
    BY <1>10, <2>5 DEF Obeys, Nearest
<1>11. CASE /\ r.method # "ContinuousMove"
            /\ ~ (r.method = "RelativeMove" /\ v # 0 /\ a \in node.jumps)
            /\ ~ (r.method = "AbsoluteMove" /\ a \in node.jumps \cap Aims(r))
  BY <1>11 DEF Obeys
<1> QED
  BY <1>8, <1>9, <1>10, <1>11

(* Every answered move of pan and tilt does what its numbers ask, in every *)
(* method and space and however the axes are inverted or reversed, but for *)
(* the cases that MovesAsAsked names (the handlers of the moves, and       *)
(* ptz_apply_reverse).                                                     *)
THEOREM MovesGoAsAsked == Spec => MovesAsAsked
<1>1. Init => CameraInv /\ AloneInv
  <2>1. Init => AloneInv
    BY DEF Init, AloneInv, Idle
  <2> QED
    BY <2>1, CameraInit
<1>2. CameraInv /\ AloneInv /\ [Next]_vars => CameraInv' /\ AloneInv'
  BY StepCameraInv, StepAloneInv
<1>3. CameraInv /\ AloneInv /\ [Next]_vars =>
        [\A p \in Procs : Answers(p) /\ proc[p].alone /\ proc[p].ask.pt # Null =>
           \A a \in PanTilt : Of(a, proc[p].ask.pt) # Null => Obeys(proc[p].ask, a)]_vars
  <2> SUFFICES ASSUME CameraInv, AloneInv, [Next]_vars, vars' # vars,
                      NEW p \in Procs, Answers(p), proc[p].alone,
                      NEW r, r = proc[p].ask, r.pt # Null,
                      NEW a \in PanTilt, Of(a, r.pt) # Null
               PROVE  Obeys(r, a)
    OBVIOUS
  <2>1. CASE Run(p)
    BY <2>1, AnswersAsAsked
  <2>2. CASE RunBadly(p)
    BY <2>2 DEF RunBadly, Obeys
  <2>3. Run(p) \/ RunBadly(p)
    <3>1. ASSUME NEW q \in Procs, q # p,
                 (\E s \in Requests[q] : Begin(q, s)) \/ Run(q) \/ RunBadly(q)
          PROVE  FALSE
      <4>1. proc'[p].pc = proc[p].pc
        BY <3>1 DEF Begin, Run, RunBadly, CameraInv, ProcessOK
      <4> QED
        BY <4>1 DEF Answers
    <3>2. ASSUME NEW s \in Requests[p], Begin(p, s) PROVE FALSE
      BY <3>2 DEF Begin, Answers
    <3>3. ASSUME NEW b \in Axes, Turn(b) PROVE FALSE
      BY <3>3 DEF Turn, Answers
    <3> QED
      BY <3>1, <3>2, <3>3 DEF Next
  <2> QED
    BY <2>1, <2>2, <2>3
<1> QED
  BY <1>1, <1>2, <1>3, PTL DEF Spec, MovesAsAsked
=============================================================================
