------------------------------- MODULE Moves -------------------------------
(***************************************************************************)
(* The moves of ptz_service.c.  A request is a CGI process: it converts    *)
(* what was asked for from ONVIF units to steps of the motors, and runs up *)
(* to two of the configured commands, one after the other; GetStatus runs  *)
(* one that prints the position and one that prints whether it changes.    *)
(* The commands return at once and the motors move on by themselves.       *)
(*                                                                         *)
(* Numbers stand on a grid: One is the end of the generic spaces, and the  *)
(* numbers of the requests and the ranges are such that conversions from   *)
(* ONVIF units to steps are exact.  Speeds are left out: they only choose  *)
(* between two commands for the same move.                                 *)
(***************************************************************************)
EXTENDS Integers, Sequences

CONSTANTS
  Nodes,     \* configurations ("ptz" in conf.c)
  One,       \* one
  Requests,  \* what clients ask of each process
  PresetAt,  \* where the presets are: the steps of pan and tilt, by number
  HomeAt,    \* where goto_home_position goes
  Procs,     \* CGI processes
  Null

PanTilt == {"pan", "tilt"}
Axes == PanTilt \cup {"zoom"}

ASSUME OneAssumption == One \in Nat \ {0}
Whole(r) == r.min \in Int /\ r.max \in Int
ASSUME NodesAssumption ==
  \A n \in Nodes :
    /\ \A a \in Axes : Whole(n.step[a]) /\ n.step[a].min <= n.step[a].max
    /\ \A a \in PanTilt : /\ n.step[a].min < n.step[a].max
                          /\ Whole(n.range[a]) /\ n.range[a].min < n.range[a].max
                          /\ n.fov[a] \in Int

\* numbers and records are not Null
ASSUME NullAssumption ==
  Null \notin Int \cup [x : Int, space : {"generic"}]
                  \cup [x : Int, y : Int, space : {"spherical"}]

VARIABLES
  node,   \* service_ctx.ptz_node, as every process loads it
  at,     \* the steps at which the motors stand
  goal,   \* the steps to which they move; where they stand, at rest
  proc,   \* the processes
  shown   \* the status that the last step sent, or Null
vars == <<node, at, goal, proc, shown>>

motors == <<at, goal>>

-----------------------------------------------------------------------------
(* Units.                                                                  *)

ClampedLow(v, min, max) == IF v < min THEN min ELSE v   \* mutant
Clamped(v, min, max) == IF v < min THEN min ELSE IF v > max THEN max ELSE v

Span(r) == r.max - r.min
Generic == [min |-> 0 - One, max |-> One]
ZoomRange == [min |-> 0, max |-> One]
Inverted(a) == a \in PanTilt /\ node.inverted[a]
Reported(a) == IF a = "zoom" THEN ZoomRange ELSE node.range[a]

\* ptz_onvif_to_machine_units
ToSteps(a, v, range) ==
  LET w == IF Inverted(a) THEN range.max - (v - range.min) ELSE v
      s == node.step[a]
  IN Clamped(((w - range.min) * Span(s)) \div Span(range) + s.min, s.min, s.max)
ToDeltaUpright(a, v, range) ==   \* mutant: a relative move is not inverted
  LET s == node.step[a]
  IN Clamped((v * Span(s)) \div Span(range), 0 - Span(s), Span(s))

ToDelta(a, v, range) ==
  LET w == IF Inverted(a) THEN 0 - v ELSE v
      s == node.step[a]
  IN Clamped((w * Span(s)) \div Span(range), 0 - Span(s), Span(s))

\* ptz_machine_to_onvif_units
FromSteps(a, n) ==
  LET s == node.step[a]
      r == Reported(a)
      w == Clamped(((n - s.min) * Span(r)) \div Span(s) + r.min, r.min, r.max)
  IN IF Span(s) = 0 THEN r.min
     ELSE IF Inverted(a) THEN r.max - (w - r.min) ELSE w

\* ptz_apply_reverse
Reversed(a, v) == IF node.reverse /\ a \in PanTilt THEN 0 - v ELSE v

StatusAhead(a, n) == FromSteps(a, n)   \* mutant: the reverse mode is forgotten
Status(a, n) == Reversed(a, FromSteps(a, n))

-----------------------------------------------------------------------------
(* Requests: pt is Null or has x, y and space, zoom is Null or has x and   *)
(* space; any of the numbers may be Null.  A space is "none" if it is not  *)
(* given and "generic" if it is the method's own generic space.  A plan is *)
(* the commands that the process runs and the fault it then sends.         *)

Ask(method, profile, pt, zoom, target) ==
  [method |-> method, profile |-> profile, pt |-> pt, zoom |-> zoom,
   target |-> target]
NoAsk == Ask("GetStatus", FALSE, Null, Null, Null)

Plan(commands, fault) == [fault |-> fault, commands |-> commands]
Refuse(fault) == Plan(<<>>, fault)
Has(command) == command \in node.commands
Of(a, pt) == IF a = "pan" THEN pt.x ELSE pt.y

Go(to) == [op |-> "go", to |-> to]       \* axis -> step, for some axes
Shift(by) == [op |-> "shift", to |-> by]
Halt(axes) == [op |-> "halt", to |-> axes]
Other(op) == [op |-> op, to |-> <<>>]

Gate(r, command) ==
  IF ~ r.profile THEN "NoProfile"
  ELSE IF ~ node.enable THEN "NoPTZProfile"
  ELSE IF command # Null /\ ~ Has(command) THEN "ActionFailed" ELSE "none"

OddSpace(vector, spaces) == vector # Null /\ vector.space \notin spaces

\* a move_stop command without a place for the axes stops all of them
Stop(axes) == Halt(IF node.stops_all THEN Axes ELSE axes)

Delta(a, r) ==
  IF a = "zoom"
  THEN IF r.zoom = Null \/ r.zoom.x = Null THEN 0
       ELSE ToDelta(a, r.zoom.x, ZoomRange)
  ELSE IF r.pt = Null \/ Of(a, r.pt) = Null THEN 0
       ELSE ToDelta(a, Reversed(a, Of(a, r.pt)), node.range[a])

End(a, d) == IF d > 0 THEN node.step[a].max ELSE node.step[a].min

(* ContinuousMove.  A velocity only says which end of the range to go to.  *)
(* Without move_both a move of both axes runs no command.                  *)
ContinuousMove(r) ==
  LET d == [a \in Axes |-> Delta(a, r)]
      turning == {a \in PanTilt : d[a] # 0}
      turner == CASE turning = PanTilt -> "move_both"
                  [] turning = {"pan"} -> "move_x"
                  [] turning = {"tilt"} -> "move_y"
                  [] turning = {} -> Null
      turn == IF turning # {} /\ Has(turner)
              THEN <<Go([a \in turning |-> End(a, d[a])])>> ELSE <<>>
      zoomer == IF d["zoom"] > 0 THEN "move_in" ELSE "move_out"
      drive == IF d["zoom"] # 0
               THEN <<Go([a \in {"zoom"} |-> End(a, d[a])])>> ELSE <<>>
      calm(still, axes) == IF still /\ Has("move_stop") THEN <<Stop(axes)>> ELSE <<>>
      rest == calm(r.pt # Null /\ r.pt.x # Null /\ r.pt.y # Null /\ turning = {}, PanTilt)
              \o calm(r.zoom # Null /\ r.zoom.x # Null /\ d["zoom"] = 0, {"zoom"})
  IN IF Gate(r, Null) # "none" THEN Refuse(Gate(r, Null))
     ELSE IF \/ OddSpace(r.pt, {"none", "generic"})
             \/ OddSpace(r.zoom, {"none", "generic"})
     THEN Refuse("SpaceNotSupported")
     ELSE IF Len(turn) = 0 /\ turner \in {"move_x", "move_y"}
     THEN Refuse("ActionFailed")
     ELSE IF d["zoom"] # 0 /\ ~ Has(zoomer) THEN Plan(turn, "ActionFailed")
     ELSE Plan(turn \o drive \o rest, "none")

(* RelativeMove.  In the space of the field of view a number is a fraction *)
(* of half of what the camera sees, and reversed after its conversion.     *)
ViewDelta(a, v) ==
  Reversed(a, ToDelta(a, (v * node.fov[a]) \div (2 * One), node.range[a]))

RelativeMove(r) ==
  LET view == r.pt # Null /\ r.pt.space = "fov"
      wrong == \/ r.pt = Null /\ r.zoom = Null
               \/ r.zoom # Null /\ r.zoom.x = Null
               \/ r.pt # Null /\ \E a \in PanTilt :
                    \/ Of(a, r.pt) = Null
                    \/ view /\ Of(a, r.pt) \notin 0 - One .. One
      by == [a \in Axes |-> IF view /\ a # "zoom" THEN ViewDelta(a, Of(a, r.pt))
                            ELSE Delta(a, r)]
      fault == Gate(r, "jump_to_rel")
  IN IF fault # "none" THEN Refuse(fault)
     ELSE IF \/ OddSpace(r.pt, {"none", "generic", "fov"})
             \/ OddSpace(r.zoom, {"none", "generic"})
     THEN Refuse("SpaceNotSupported")
     ELSE IF wrong THEN Refuse("InvalidTranslation")
     ELSE Plan(<<Shift([a \in node.jumps |-> by[a]])>>, "none")

(* AbsoluteMove, and the Position of MoveAndStartTracking.  What is not in *)
(* the position is sent as step 0.                                         *)
Aims(r) == (IF r.pt # Null /\ \A a \in PanTilt : Of(a, r.pt) # Null
            THEN PanTilt ELSE {})
           \cup (IF r.zoom # Null /\ r.zoom.x # Null THEN {"zoom"} ELSE {})
OddPosition(r) == \/ OddSpace(r.pt, {"none", "generic", "spherical"})
                  \/ OddSpace(r.zoom, {"none", "generic"})
Target(a, r) ==
  IF a \notin Aims(r) THEN 0
  ELSE IF a = "zoom" THEN ToSteps(a, r.zoom.x, ZoomRange)
  ELSE ToSteps(a, Reversed(a, Of(a, r.pt)),
               IF r.pt.space = "spherical" THEN node.range[a] ELSE Generic)
JumpTo(r) == Go([a \in node.jumps |-> Target(a, r)])

AbsoluteMove(r) ==
  LET fault == Gate(r, "jump_to_abs")
  IN IF fault # "none" THEN Refuse(fault)
     ELSE IF OddPosition(r) THEN Refuse("SpaceNotSupported")
     ELSE IF Aims(r) = {} THEN Refuse("InvalidPosition")
     ELSE Plan(<<JumpTo(r)>>, "none")

\* the target is the number of a preset; 0 is a token without a number
MoveAndStartTracking(r) ==
  LET fault == Gate(r, "start_tracking")
      preset == r.target # Null /\ Has("move_preset")
      jump == ~ preset /\ Has("jump_to_abs")
      first == IF preset /\ r.target \in DOMAIN PresetAt
               THEN <<Go(PresetAt[r.target])>>
               ELSE IF jump /\ Aims(r) # {} THEN <<JumpTo(r)>> ELSE <<>>
  IN IF fault # "none" THEN Refuse(fault)
     ELSE IF jump /\ OddPosition(r) THEN Refuse("SpaceNotSupported")
     ELSE Plan(Append(first, Other("track")), "none")

\* Stop: the target is the set of what is to stop
StopMove(r) ==
  LET fault == Gate(r, "move_stop")
  IN IF fault # "none" THEN Refuse(fault)
     ELSE IF r.target = {} THEN Plan(<<>>, "none")
     ELSE Plan(<<Stop(r.target)>>, "none")

SimpleMove(r, command, does) ==
  LET fault == Gate(r, command)
  IN IF fault # "none" THEN Refuse(fault) ELSE Plan(<<does>>, "none")

GetStatus(r) ==
  LET fault == Gate(r, Null)
      run(command) == IF Has(command) THEN <<Other(command)>> ELSE <<>>
  IN IF fault # "none" THEN Refuse(fault)
     ELSE Plan(run("get_position") \o run("is_moving"),
               IF Has("get_position") THEN "none" ELSE "NoStatus")

Methods == {"ContinuousMove", "RelativeMove", "AbsoluteMove", "MoveAndStartTracking",
            "Stop", "GotoHomePosition", "SetHomePosition", "GetStatus"}
PlanOf(r) ==
  CASE r.method = "ContinuousMove" -> ContinuousMove(r)
    [] r.method = "RelativeMove" -> RelativeMove(r)
    [] r.method = "AbsoluteMove" -> AbsoluteMove(r)
    [] r.method = "MoveAndStartTracking" -> MoveAndStartTracking(r)
    [] r.method = "Stop" -> StopMove(r)
    [] r.method = "GotoHomePosition" ->
         SimpleMove(r, "goto_home_position", Go(HomeAt))
    [] r.method = "SetHomePosition" ->
         SimpleMove(r, "set_home_position", Other("set_home"))
    [] r.method = "GetStatus" -> GetStatus(r)

\* any number may be missing; presets and home are places of the camera
ASSUME RequestsAssumption ==
  \A p \in Procs : \A r \in Requests[p] :
    /\ r.method \in Methods
    /\ r.pt # Null => \A a \in PanTilt : Of(a, r.pt) \in Int \cup {Null}
    /\ r.zoom # Null => r.zoom.x \in Int \cup {Null}
\* the grid: a step is a whole number of the units in which it is reported, and
\* what is asked of pan and tilt is a whole number of steps from where the range
\* begins, or by which to move
ASSUME GridAssumption ==
  \A n \in Nodes : \A a \in Axes :
    LET range == IF a = "zoom" THEN ZoomRange ELSE n.range[a]
    IN Span(n.step[a]) # 0 =>
         \E q \in 1 .. Span(range) : Span(range) = q * Span(n.step[a])
Multiple(v, unit) == v = unit * (v \div unit)
Unit(n, a) == Span(n.range[a]) \div Span(n.step[a])
ASSUME StepsAssumption ==
  \A n \in Nodes : \A p \in Procs : \A r \in Requests[p] : r.pt # Null =>
    \A a \in PanTilt : Of(a, r.pt) # Null =>
      CASE r.method = "ContinuousMove" \/ (r.method = "RelativeMove" /\ r.pt.space # "fov") ->
             Multiple(Of(a, r.pt), Unit(n, a))
        [] r.method = "RelativeMove" /\ r.pt.space = "fov" ->
             Multiple(Of(a, r.pt) * n.fov[a], 2 * One * Unit(n, a))
        [] r.method = "AbsoluteMove" /\ r.pt.space = "spherical" ->
             Multiple((IF n.reverse THEN 0 - Of(a, r.pt) ELSE Of(a, r.pt))
                        - n.range[a].min, Unit(n, a))
        [] OTHER -> TRUE
ASSUME PlacesAssumption ==
  \A n \in Nodes : \A place \in {PresetAt[i] : i \in DOMAIN PresetAt} \cup {HomeAt} :
    \A a \in DOMAIN place : a \in Axes => place[a] \in n.step[a].min .. n.step[a].max

-----------------------------------------------------------------------------
(* The processes.                                                          *)

Idle == [pc |-> "idle", ask |-> NoAsk, todo |-> <<>>, fault |-> "none",
         read |-> Null, alone |-> TRUE]

\* a request without a command is answered without a trace; alone is history:
\* no other request has been served meanwhile
Begin(p, r) ==
  LET plan == PlanOf(r)
      others == {q \in Procs \ {p} : proc[q].pc = "run"}
  IN /\ proc[p].pc = "idle"
     /\ plan.commands # <<>>
     /\ proc' = [q \in Procs |->
          IF q = p THEN [pc |-> "run", ask |-> r, todo |-> plan.commands,
                         fault |-> plan.fault, read |-> Null, alone |-> others = {}]
          ELSE IF q \in others THEN [proc[q] EXCEPT !.alone = FALSE] ELSE proc[q]]
     /\ shown' = Null
     /\ UNCHANGED <<node, motors>>

\* a command that moves the camera
Move(c) ==
  /\ goal' = [a \in Axes |->
       CASE c.op = "go" /\ a \in DOMAIN c.to -> c.to[a]
         [] c.op = "shift" /\ a \in DOMAIN c.to ->
              Clamped(at[a] + c.to[a], node.step[a].min, node.step[a].max)
         [] c.op = "halt" /\ a \in c.to -> at[a]
         [] OTHER -> goal[a]]
  /\ UNCHANGED at

\* ptz_supports_zoom
SupportsZoom ==
  CASE node.zoom_enable = Null ->
         \/ Has("move_in") \/ Has("move_out")
         \/ node.step["zoom"].min # 0 \/ node.step["zoom"].max # 0
    [] OTHER -> node.zoom_enable

\* the position may come without the zoom, which then is taken for step 1
Reading == [a \in Axes |-> IF a \in node.prints THEN at[a] ELSE 1]
ShownAxes == IF SupportsZoom THEN Axes ELSE PanTilt

\* the next command; with the last one the process answers
Run(p) ==
  LET c == Head(proc[p].todo)
      read == IF c.op = "get_position" THEN Reading ELSE proc[p].read
      last == Len(proc[p].todo) = 1
  IN /\ proc[p].pc = "run"
     /\ IF c.op \in {"go", "shift", "halt"} THEN Move(c) ELSE UNCHANGED motors
     /\ proc' = [proc EXCEPT ![p] =
          IF last THEN Idle
          ELSE [proc[p] EXCEPT !.todo = Tail(proc[p].todo), !.read = read]]
     /\ shown' = IF last /\ proc[p].ask.method = "GetStatus" /\ read # Null
                 THEN [position |-> [a \in ShownAxes |-> Status(a, read[a])],
                       moving |-> c.op = "is_moving" /\ at # goal, read |-> read]
                 ELSE Null
     /\ UNCHANGED node

\* a command of GetStatus prints nothing that can be read: NoStatus
RunBadly(p) ==
  /\ proc[p].pc = "run"
  /\ proc[p].ask.method = "GetStatus"
  /\ proc' = [proc EXCEPT ![p] = Idle]
  /\ shown' = Null
  /\ UNCHANGED <<node, motors>>

Turn(a) ==
  /\ at[a] # goal[a]
  /\ at' = [at EXCEPT ![a] = IF goal[a] > @ THEN @ + 1 ELSE @ - 1]
  /\ shown' = Null
  /\ UNCHANGED <<node, goal, proc>>

Init ==
  /\ node \in Nodes
  /\ at = [a \in Axes |-> node.step[a].min] /\ goal = at
  /\ proc = [p \in Procs |-> Idle]
  /\ shown = Null

Next == \/ \E p \in Procs : (\E r \in Requests[p] : Begin(p, r)) \/ Run(p) \/ RunBadly(p)
        \/ \E a \in Axes : Turn(a)
Spec == Init /\ [][Next]_vars

-----------------------------------------------------------------------------
(* Properties.                                                             *)

\* a step of the range, or between it and the step 0 of what a position leaves out
Reachable(a, n) ==
  \/ n \in node.step[a].min .. node.step[a].max
  \/ a \in node.jumps /\ n \in (0 .. node.step[a].min) \cup (node.step[a].max .. 0)
CameraInRange ==
  /\ at \in [Axes -> Int] /\ goal \in [Axes -> Int]
  /\ \A a \in Axes : Reachable(a, at[a]) /\ Reachable(a, goal[a])

(* Types, and that the camera is only ever sent to steps of its range; the *)
(* exception is the step 0 of what a position leaves out.                  *)
TypeOK ==
  /\ node \in Nodes
  /\ CameraInRange
  /\ \A p \in Procs : /\ proc[p].pc \in {"idle", "run"}
                      /\ proc[p].ask \in Requests[p] \cup {NoAsk}
                      /\ Len(proc[p].todo) \in 0 .. 2
  /\ shown # Null => shown.moving \in BOOLEAN

\* the request that goes back to the position of a status
Back(position) ==
  Ask("AbsoluteMove", TRUE,
      [x |-> position["pan"], y |-> position["tilt"], space |-> "spherical"],
      IF "zoom" \in DOMAIN position
      THEN [x |-> position["zoom"], space |-> "generic"] ELSE Null, Null)

(* An AbsoluteMove to the position that GetStatus reported goes to the     *)
(* steps at which the motors stood, inverted or reversed as they may be.   *)
(* The exceptions are a zoom that the position command does not print, and *)
(* steps out of the range, to which a move without the zoom sends it.      *)
ReportedPositionKept ==
  shown # Null /\ Has("jump_to_abs") =>
    \A a \in DOMAIN shown.position \cap node.jumps \cap node.prints :
      LET n == shown.read[a]
      IN n \in node.step[a].min .. node.step[a].max =>
           AbsoluteMove(Back(shown.position)).commands[1].to[a] = n

\* the end of the range that GetStatus reports as the greatest, or the least
Farthest(a, v) ==
  CHOOSE n \in {node.step[a].min, node.step[a].max} :
    \A m \in {node.step[a].min, node.step[a].max} :
      (v > 0 /\ Status(a, n) >= Status(a, m)) \/ (v < 0 /\ Status(a, n) <= Status(a, m))

\* moves of both axes without move_both, which run no command; a zoom at rest,
\* for which a stop command without a place for the axes stops all; and a part
\* of a view whose angle is not configured, which is nothing
Dropped(r) == (\A a \in PanTilt : Of(a, r.pt) \notin {0, Null}) /\ ~ Has("move_both")
Undone(r) == /\ r.zoom # Null /\ Delta("zoom", r) = 0
             /\ node.stops_all /\ Has("move_stop")
Blind(r, a) == r.pt.space = "fov" /\ node.fov[a] <= 0

\* what pan or tilt is asked to do, as a client sees it in later statuses
Obeys(r, a) ==
  LET v == Of(a, r.pt)
      ends == {Status(a, n) : n \in {node.step[a].min, node.step[a].max}}
      nearest == IF \A e \in ends : v > e THEN Status(a, Farthest(a, 1))
                 ELSE IF \A e \in ends : v < e THEN Status(a, Farthest(a, 0 - 1))
                 ELSE v
  IN CASE r.method = "ContinuousMove" /\ v # 0 ->
            Dropped(r) \/ Undone(r) \/ goal'[a] = Farthest(a, v)
       [] r.method = "ContinuousMove" /\ v = 0 ->
            (\A b \in PanTilt : Of(b, r.pt) = 0) /\ Has("move_stop")
              => goal'[a] = at[a]
       [] r.method = "RelativeMove" /\ v # 0 /\ a \in node.jumps ->
            \/ Blind(r, a) \/ at[a] = Farthest(a, v)
            \/ at[a] \notin node.step[a].min .. node.step[a].max
            \/ (v > 0 /\ Status(a, goal'[a]) > Status(a, at[a]))
            \/ (v < 0 /\ Status(a, goal'[a]) < Status(a, at[a]))
       [] r.method = "AbsoluteMove" /\ a \in node.jumps \cap Aims(r) ->
            IF r.pt.space = "spherical" THEN Status(a, goal'[a]) = nearest
            ELSE v \in {One, 0 - One} => goal'[a] = Farthest(a, v)
       [] OTHER -> TRUE

Answers(p) == proc[p].pc = "run" /\ proc'[p].pc = "idle" /\ proc[p].fault = "none"

(* A positive number raises what GetStatus reports and a negative one      *)
(* lowers it, in every method and space, whether the axis is inverted and  *)
(* whether the reverse mode is on; the velocities zero stop the camera; a  *)
(* position is met as nearly as the range allows.                          *)
MovesAsAsked ==
  [][\A p \in Procs : Answers(p) /\ proc[p].alone /\ proc[p].ask.pt # Null =>
       \A a \in PanTilt : Of(a, proc[p].ask.pt) # Null =>
         Obeys(proc[p].ask, a)]_vars
=============================================================================
