------------------------------ MODULE MCMoves ------------------------------
EXTENDS Moves

CONSTANTS p1, p2

R(min, max) == [min |-> min, max |-> max]
P(pan, tilt) == [pan |-> pan, tilt |-> tilt]
Everything == {"get_position", "is_moving", "move_x", "move_y", "move_both",
  "move_in", "move_out", "move_stop", "jump_to_abs", "jump_to_rel", "move_preset",
  "goto_home_position", "set_home_position", "start_tracking"}

\* the shipped configuration: a zoom that has commands and no range
Shipped ==
  [enable |-> TRUE, commands |-> Everything \ {"start_tracking"},
   step |-> [pan |-> R(0, 2), tilt |-> R(0, 2), zoom |-> R(0, 0)],
   range |-> P(R(0 - 1, 1), R(0 - 1, 1)), fov |-> P(2, 2),
   inverted |-> P(FALSE, FALSE), reverse |-> FALSE, zoom_enable |-> Null,
   stops_all |-> TRUE, jumps |-> PanTilt, prints |-> PanTilt]
\* all axes; the range of tilt is not symmetric
Full ==
  [Shipped EXCEPT !.commands = Everything, !.step["zoom"] = R(0, 1),
     !.range["tilt"] = R(0, 2), !.stops_all = FALSE, !.jumps = Axes, !.prints = Axes]
Mirrored == [Full EXCEPT !.step["pan"] = R(0, 4), !.range["pan"] = R(0 - 2, 2),
               !.step["zoom"] = R(0, 0), !.inverted = P(TRUE, FALSE), !.fov["tilt"] = 0,
               !.reverse = TRUE]
Upside == [Full EXCEPT !.inverted = P(TRUE, TRUE), !.step["pan"] = R(1, 3),
             !.step["zoom"] = R(1, 2),
             !.prints = PanTilt, !.commands = Everything \ {"is_moving"}]
\* few commands
Bare ==
  [Full EXCEPT !.reverse = TRUE, !.step["zoom"] = R(0, 0), !.zoom_enable = FALSE,
     !.commands = {"move_x", "move_stop", "is_moving", "move_in", "jump_to_abs",
                   "start_tracking"}]
Off == [Full EXCEPT !.enable = FALSE]
MCNodes == {Shipped, Mirrored, Upside, Bare, Off}

PT(x, y, space) == [x |-> x, y |-> y, space |-> space]
Z(x, space) == [x |-> x, space |-> space]
A(method, pt, zoom) == Ask(method, TRUE, pt, zoom, Null)
N == 0 - 1
All == {
  Ask("GetStatus", TRUE, Null, Null, Null), Ask("GetStatus", FALSE, Null, Null, Null),
  A("ContinuousMove", PT(1, N, "generic"), Null),
  A("ContinuousMove", PT(N, 0, "none"), Z(0, "none")),
  A("ContinuousMove", PT(0, 1, "none"), Z(1, "generic")),
  A("ContinuousMove", PT(0, 0, "none"), Z(N, "generic")),
  A("ContinuousMove", PT(1, Null, "none"), Null),
  A("ContinuousMove", PT(1, 1, "none"), Z(1, "spherical")),
  A("RelativeMove", PT(1, N, "none"), Null),
  A("RelativeMove", PT(N, 1, "fov"), Z(1, "generic")),
  A("RelativeMove", PT(2, 1, "fov"), Null),
  A("RelativeMove", PT(3, 3, "generic"), Z(Null, "none")),
  A("RelativeMove", PT(3, 3, "generic"), Null),
  A("RelativeMove", PT(5, 0 - 5, "generic"), Null),
  A("RelativeMove", Null, Z(N, "none")),
  A("AbsoluteMove", PT(1, N, "generic"), Null),
  A("AbsoluteMove", PT(N, 1, "spherical"), Z(1, "none")),
  A("AbsoluteMove", PT(5, 1, "spherical"), Null),
  A("AbsoluteMove", Null, Z(1, "generic")),
  A("AbsoluteMove", PT(1, Null, "generic"), Null),
  A("AbsoluteMove", PT(1, Null, "generic"), Z(1, "generic")),
  Ask("MoveAndStartTracking", TRUE, PT(1, 0, "generic"), Null, Null),
  Ask("MoveAndStartTracking", TRUE, Null, Null, 1),
  Ask("MoveAndStartTracking", TRUE, PT(1, 0, "fov"), Null, 0),
  Ask("Stop", TRUE, Null, Null, Axes), Ask("Stop", TRUE, Null, Null, PanTilt),
  Ask("Stop", TRUE, Null, Null, {"zoom"}), Ask("Stop", TRUE, Null, Null, {}),
  Ask("GotoHomePosition", TRUE, Null, Null, Null),
  Ask("SetHomePosition", TRUE, Null, Null, Null)
}
\* one process asks for anything, another for few things meanwhile
Few == {A("ContinuousMove", PT(1, 1, "none"), Z(0, "none")),
        Ask("GetStatus", TRUE, Null, Null, Null)}
MCRequests == [p \in Procs |-> IF p = p1 THEN All ELSE Few]
MCPresetAt == [n \in {1} |-> P(2, 0)]
MCHomeAt == P(1, 1)
=============================================================================
