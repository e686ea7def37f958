----------------------------- MODULE MCImaging ------------------------------
EXTENDS Imaging

\* value, least and greatest value of a field
F(value, min, max) == [value |-> value, min |-> min, max |-> max]
MCFieldSets == {[brightness |-> F(0, 0 - 2, 2), backlight |-> Null]}
MCFallback == [brightness |-> 4, backlight |-> 2]

Range(min, max, value) == [min |-> min, max |-> max, value |-> value]
NoMove == [supported |-> FALSE, command |-> FALSE, range |-> Range(0, 0, Null),
           speed |-> Range(Null, Null, Null)]
Moves(absolute, relative, continuous) ==
  [absolute |-> absolute, relative |-> relative, continuous |-> continuous]
Bare ==
  [token |-> "v", modes |-> {}, state |-> Null, commands |-> Modes,
   presets |-> <<>>, preset |-> Null, apply |-> FALSE,
   moves |-> Moves(NoMove, NoMove, NoMove), default_speed |-> Null, stop |-> FALSE]
Filter ==
  [Bare EXCEPT !.token = "w", !.modes = Modes, !.state = "On",
               !.commands = {"On", "Off"}]
Focus ==
  [Bare EXCEPT
     !.modes = {"Off"}, !.state = "Off", !.default_speed = 3, !.stop = TRUE,
     !.moves = Moves([supported |-> TRUE, command |-> TRUE, range |-> Range(0, 4, Null),
                      speed |-> Range(4, 5, Null)],
                     [supported |-> TRUE, command |-> TRUE, range |-> Range(Null, 2, Null),
                      speed |-> Range(Null, Null, Null)],
                     [supported |-> TRUE, command |-> FALSE,
                      range |-> Range(Null, Null, Null),
                      speed |-> Range(Null, Null, Null)])]
Presets ==
  [Bare EXCEPT
     !.modes = {"Off"}, !.state = "Off", !.preset = "night",
     !.presets = <<[token |-> "day", command |-> TRUE],
                   [token |-> "night", command |-> FALSE]>>]
MCSourceLists == {<<>>, <<Filter>>, <<Focus>>, <<Presets>>}
MCBareLists == {<<Bare>>}

V(v) == [percent |-> FALSE, v |-> v]
P(v) == [percent |-> TRUE, v |-> v]
S(ircut, values) == [settings |-> TRUE, ircut |-> ircut, values |-> values]
MCSetRequests == {
  [settings |-> FALSE, ircut |-> Null, values |-> <<>>],
  S("On", <<>>), S("Off", <<>>), S("Auto", <<>>),
  S(Null, [brightness |-> P(1)]),
  S("Off", [brightness |-> V(3), backlight |-> P(5)])
}

M(kind, arg, speed) ==
  [kinds |-> {kind}, kind |-> kind, arg |-> arg, speed |-> speed]
MCMoveRequests == {
  M("absolute", 4, Null), M("absolute", 4, 5), M("absolute", 5, 4),
  M("absolute", 4, 6), M("absolute", Null, 4),
  M("relative", 2, Null), M("relative", 3, Null), M("continuous", 2, Null),
  [M("relative", 2, Null) EXCEPT !.kinds = {"absolute", "relative"}],
  [M("relative", 2, Null) EXCEPT !.kinds = {}]
}
=============================================================================
