------------------------------ MODULE MCServer -----------------------------
EXTENDS Server

S(name, size, encoder, decoder) ==
  [name |-> name, size |-> size, rtsp |-> TRUE, encoder |-> encoder,
   decoder |-> decoder, snapurl |-> TRUE]
NoRtsp(s) == [s EXCEPT !.rtsp = FALSE]
NoSnap(s) == [s EXCEPT !.snapurl = FALSE]
High == S("Profile_0", 2, "AAC", "G711")
Low == S("Profile_1", 1, "G711", "NONE")

MCStreams == {
  <<High, Low>>, <<Low, High>>, <<High>>, <<Low>>, <<>>,
  <<NoRtsp(High)>>,                            \* one element, emptied
  <<Low, NoRtsp(High)>>, <<NoRtsp(Low), High>>,
  <<High, Low, S("short", 3, "G726", "AAC")>>, \* one too many
  <<S("Profile_1", 2, "NONE", "G726"), S("Profile_0", 1, "AAC", "AAC")>>,
  <<S("short", 2, "G726", "NONE"), NoSnap(S("long-profile", 1, "NONE", "G711"))>>,
  <<S("Profile_0", 2, "NONE", "NONE"), S("Profile_1", 1, "NONE", "NONE")>>,
  <<S(Null, 1, "AAC", "NONE")>>
}

Plain(streams) ==
  [streams |-> streams, output_enabled |-> TRUE, aoc |-> Null, ptz |-> TRUE,
   imaging |-> TRUE, media2 |-> TRUE, relays |-> <<>>, topics |-> <<>>,
   events_enable |-> "pull", user |-> "both", address |-> TRUE,
   fault_if_unknown |-> FALSE, fault_if_set |-> TRUE]

R(token, idle) ==
  [token |-> token, idle |-> idle, open |-> "runs", close |-> "runs"]
Base == Plain(<<High, Low>>)
MCFiles ==
  {Plain(streams) : streams \in MCStreams} \cup {
    [Base EXCEPT !.aoc = OtherToken],
    [Base EXCEPT !.output_enabled = FALSE, !.ptz = FALSE, !.media2 = FALSE],
    [Base EXCEPT !.fault_if_set = FALSE, !.imaging = FALSE],
    [Base EXCEPT !.fault_if_set = FALSE, !.fault_if_unknown = TRUE,
                 !.address = FALSE],
    [Base EXCEPT !.user = "none"], [Base EXCEPT !.user = "name"],
    [Base EXCEPT !.relays = <<R(Null, "open"), R(Null, "closed")>>,
                 !.events_enable = "none", !.topics = <<"motion">>],
    [Base EXCEPT !.relays = <<[R(Null, "open") EXCEPT !.close = Null],
                              [R("door", "closed") EXCEPT !.open = "empty"]>>],
    [Base EXCEPT !.topics = <<"motion", Null, "deep">>],
    [Base EXCEPT !.topics = <<"motion", "empty">>, !.events_enable = "both"],
    [Base EXCEPT !.relays = <<R("door", "closed"), R(Null, "open")>>],
    [Base EXCEPT !.relays = <<R("RelayOutputToken_1", "open"), R(Null, "open")>>],
    [Base EXCEPT !.relays = <<R(Null, "open"), R("door", "open"),
                              R("gate", "open")>>, !.topics = <<Null>>],
    [Base EXCEPT !.relays = <<R(Null, "open"), R("door", "open")>>,
                 !.topics = <<"motion", "motion", "motion", "deep">>]
  }

MCJunk == {[name |-> Null, codec |-> "G711", node |-> TRUE,
            table |-> "absent", pending |-> {}],
           [name |-> "*", codec |-> "NONE", node |-> FALSE,
            table |-> "fits", pending |-> {1, 3}],
           [name |-> "*", codec |-> "NONE", node |-> FALSE,
            table |-> "other", pending |-> {}]}
=============================================================================
