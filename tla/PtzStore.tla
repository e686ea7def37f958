------------------------------ MODULE PtzStore ------------------------------
(***************************************************************************)
(* What the PTZ requests of ptz_service.c store: preset tours in the file  *)
(* preset_tours.json, presets in the program behind the get_presets,       *)
(* set_preset and remove_preset commands.  Each request is a CGI process   *)
(* of its own; none of them takes a lock.                                  *)
(*                                                                         *)
(* A request on a tour loads the file, changes its own list, opens the     *)
(* file, which truncates it, and writes the list when it closes it: the    *)
(* text of the tours is shorter than a buffer of stdio.  A request on a    *)
(* preset lists the presets, checks, runs a command and may list again.    *)
(***************************************************************************)
EXTENDS Integers, Sequences, FiniteSets, SequencesExt

CONSTANTS
  Procs,        \* the CGI processes that may run at the same time
  Names,        \* the names that clients give
  NoName,       \* the parameter or the preset is absent, the tour has no name
  TourTokens,   \* the tours that clients ask for: n is PresetTourToken_n
  MaxTours,     \* max_preset_tours; 0 is no limit
  ToursAtStart, \* the tours in the file at first have the tokens 1 to this
  Commands,     \* the preset_tour_* commands that are configured
  Numbers,      \* the places for presets: n is PresetToken_n
  MaxRequests   \* bound on the number of requests

ASSUME StoreAssumption ==
  /\ NoName \notin Names
  /\ TourTokens \subseteq Nat \ {0}
  /\ MaxTours \in Nat
  /\ ToursAtStart \in Nat
  /\ MaxTours > 0 => ToursAtStart <= MaxTours
  /\ Numbers \subseteq Nat \ {0}
  /\ IsFiniteSet(Numbers)
  /\ MaxRequests \in Nat

VARIABLES
  file,     \* the tours that tours_ensure_loaded would find in the file
  presets,  \* the name of each stored preset
  req,      \* the local variables of each process
  requests, \* the number of requests so far, up to MaxRequests
  serial,   \* history: the tours, had the requests run one after the other
  spoiled   \* history: the stores on which requests got in each other's way

vars == <<file, presets, req, requests, serial, spoiled>>

NameOrNone == Names \cup {NoName}
Statuses == {"Idle", "Touring", "Paused"}
Tours == Seq([token : Nat, name : NameOrNone, status : Statuses])

TourMethods == {"CreatePresetTour", "ModifyPresetTour", "OperatePresetTour",
                "RemovePresetTour"}
PresetMethods == {"SetPreset", "GotoPreset"}

Request(method, token, name, op) ==
  [token |-> token, name |-> name, method |-> method, op |-> op]
Requests == [token : Nat, name : NameOrNone,
             method : TourMethods \cup PresetMethods, op : {"Start", "Stop", "Pause"}]
NoRequest == Request("SetPreset", 0, NoName, "Stop")

Idle == [step |-> "idle", ask |-> NoRequest, tours |-> <<>>, listed |-> {},
         fresh |-> TRUE]

(* fresh is history: nobody has changed what the process read. *)
Local == [step : {"idle", "open", "write", "set", "relist", "move"}, ask : Requests,
          tours : Tours, listed : SUBSET Numbers, fresh : BOOLEAN]

TypeOK ==
  /\ file \in Tours /\ serial \in Tours
  /\ presets \in [Numbers -> NameOrNone]
  /\ req \in [Procs -> Local]
  /\ requests \in 0 .. MaxRequests
  /\ spoiled \subseteq {"tours", "mixed", "presets"}

At(step) == {p \in Procs : req[p].step = step}

(* The other processes between their reading of a store and their last use *)
(* of it no longer know its state.                                         *)
Moved(p, steps, to) ==
  [q \in Procs |-> IF q = p THEN to
                   ELSE IF req[q].step \in steps THEN [req[q] EXCEPT !.fresh = FALSE]
                   ELSE req[q]]

TourSteps == {"open", "write"}
PresetSteps == {"set", "relist", "move"}

Asked(p) ==
  /\ req[p].step = "idle"
  /\ requests < MaxRequests
  /\ requests' = requests + 1

-----------------------------------------------------------------------------
(* Preset tours.                                                           *)

Tokens(tours) == {tours[i].token : i \in DOMAIN tours}

\* tour_index_by_token
IndexOf(tours, token) ==
  CHOOSE i \in DOMAIN tours : /\ tours[i].token = token
                              /\ \A j \in 1 .. i - 1 : tours[j].token # token

\* mutant: the number of tours instead of the greatest token
NextByCount(tours) == 1 + Len(tours)

next_tour_number(tours) == 1 + Max({0} \cup Tokens(tours))

\* mutant: the operation itself is stored as the status
StatusIsOp(op) == op

StatusOf(op) ==
  CASE op = "Start" -> "Touring" [] op = "Stop" -> "Idle" [] op = "Pause" -> "Paused"

\* mutant: the comparison with max_preset_tours is off by one
RefusedLate(ask, tours) ==
  CASE ask.method = "CreatePresetTour" -> MaxTours > 0 /\ Len(tours) > MaxTours
    [] OTHER -> ask.token \notin Tokens(tours)

Refused(ask, tours) ==
  CASE ask.method = "CreatePresetTour" -> MaxTours > 0 /\ Len(tours) >= MaxTours
    [] ask.method = "OperatePresetTour" ->
         ask.token \notin Tokens(tours) \/ ask.op \notin Commands
    [] OTHER -> ask.token \notin Tokens(tours)

\* the list of a handler when it calls tours_save
Changed(ask, tours) ==
  LET i == IndexOf(tours, ask.token) IN
  CASE ask.method = "CreatePresetTour" ->
         Append(tours, [token |-> next_tour_number(tours), name |-> ask.name, status |-> "Idle"])
    [] ask.method = "ModifyPresetTour" ->
         IF ask.name = NoName THEN tours ELSE [tours EXCEPT ![i].name = ask.name]
    [] ask.method = "OperatePresetTour" -> [tours EXCEPT ![i].status = StatusOf(ask.op)]
    [] OTHER -> RemoveAt(tours, i)

(* tours_ensure_loaded and the change of the list.  A request that is      *)
(* refused saves nothing.  Who loads while another is about to write reads *)
(* the truncated file.                                                     *)
LoadTours(p, ask) ==
  /\ Asked(p)
  /\ IF Refused(ask, file) THEN UNCHANGED req
     ELSE req' = [req EXCEPT ![p] = [Idle EXCEPT !.step = "open", !.ask = ask,
                                       !.tours = Changed(ask, file),
                                       !.fresh = At("write") = {}]]
  /\ UNCHANGED <<file, presets, serial, spoiled>>

CreatePresetTour(p) ==
  \E name \in NameOrNone : LoadTours(p, Request("CreatePresetTour", 0, name, "Stop"))
ModifyPresetTour(p) ==
  \E token \in TourTokens, name \in NameOrNone :
     LoadTours(p, Request("ModifyPresetTour", token, name, "Stop"))
OperatePresetTour(p) ==
  \E token \in TourTokens, op \in {"Start", "Stop", "Pause"} :
     LoadTours(p, Request("OperatePresetTour", token, NoName, op))
RemovePresetTour(p) ==
  \E token \in TourTokens : LoadTours(p, Request("RemovePresetTour", token, NoName, "Stop"))

\* mutant: the file is opened without being truncated
OpenInPlace(p) ==
  /\ req[p].step = "open"
  /\ req' = Moved(p, TourSteps, [req[p] EXCEPT !.step = "write"])
  /\ UNCHANGED <<file, presets, requests, serial, spoiled>>

\* fopen(..., "w")
OpenTours(p) ==
  /\ req[p].step = "open"
  /\ file' = <<>>
  /\ req' = Moved(p, TourSteps, [req[p] EXCEPT !.step = "write"])
  /\ UNCHANGED <<presets, requests, serial, spoiled>>

(* What a list written at the start of the file leaves of a longer text    *)
(* there: the entries whose "token" is not overwritten, which the search   *)
(* finds although the text ended before them.  An entry has 68 to 136      *)
(* bytes, with a name of up to 63 and a number of up to three digits: one  *)
(* entry covers at most two, and two may fit into one.                     *)
Covered(n) == {k \in 0 .. 2 * n : n <= 2 * k}
Left(tours, old) ==
  {SubSeq(old, k + 1, Len(old)) : k \in Covered(Len(tours))}

(* fclose.  The texts are mixed if another process wrote its own since     *)
(* this one truncated the file.                                            *)
WriteTours(p) ==
  /\ req[p].step = "write"
  /\ \E rest \in Left(req[p].tours, file) : file' = req[p].tours \o rest
  /\ req' = [req EXCEPT ![p] = Idle]
  /\ LET alone == req[p].fresh /\ "tours" \notin spoiled
     IN /\ serial' = IF alone THEN Changed(req[p].ask, serial) ELSE serial
        /\ spoiled' = spoiled \cup (IF alone THEN {} ELSE {"tours"})
                               \cup (IF file = <<>> THEN {} ELSE {"mixed"})
  /\ UNCHANGED <<presets, requests>>

-----------------------------------------------------------------------------
(* Presets.                                                                *)

Stored == {n \in Numbers : presets[n] # NoName}
Named(name) == {n \in Numbers : presets[n] = name}

\* mutant: SetPreset does not look for the name among the other presets
SetPresetBlind(p) ==
  /\ Asked(p)
  /\ \E token \in Numbers \cup {0}, name \in Names :
       IF token # 0 /\ token \notin Stored THEN UNCHANGED req
       ELSE req' = [req EXCEPT ![p] =
                      [Idle EXCEPT !.step = "set", !.listed = Stored,
                                   !.ask = Request("SetPreset", token, name, "Stop")]]
  /\ UNCHANGED <<file, presets, serial, spoiled>>

(* SetPreset up to the command.  A new preset (token 0) has a name, the    *)
(* client's or a generated one; a known preset may keep its own.           *)
SetPreset(p) ==
  /\ Asked(p)
  /\ \E token \in Numbers \cup {0}, given \in NameOrNone :
       LET name == IF token \in Stored /\ given = NoName THEN presets[token] ELSE given
       IN /\ token = 0 => given # NoName
          /\ IF (token # 0 /\ token \notin Stored) \/ Named(name) \ {token} # {}
             THEN UNCHANGED req
             ELSE req' = [req EXCEPT ![p] =
                            [Idle EXCEPT !.step = "set", !.listed = Stored,
                                         !.ask = Request("SetPreset", token, name, "Stop")]]
  /\ UNCHANGED <<file, presets, serial, spoiled>>

(* The set_preset command.  The program stores a new preset at a free      *)
(* place, if it has one.                                                   *)
RunSetPreset(p) ==
  LET ask == req[p].ask
      places == IF ask.token = 0 THEN Numbers \ Stored ELSE {ask.token} IN
  /\ req[p].step = "set"
  /\ IF places = {} THEN presets' = presets
     ELSE \E n \in places : presets' = [presets EXCEPT ![n] = ask.name]
  /\ req' = Moved(p, PresetSteps, [req[p] EXCEPT !.step = "relist"])
  /\ spoiled' = IF req[p].fresh THEN spoiled ELSE spoiled \cup {"presets"}
  /\ UNCHANGED <<file, requests, serial>>

\* mutant: the number of presets is not compared with the one before
NeverTooMany(p) == FALSE

(* The answers of SetPreset after the second listing: a fault, or one of   *)
(* these tokens; 0 is the empty token.                                     *)
TooManyPresets(p) ==
  req[p].ask.token = 0 /\ Cardinality(req[p].listed) = Cardinality(Stored)
Answers(p) == IF Named(req[p].ask.name) = {} THEN {0} ELSE Named(req[p].ask.name)

RelistPresets(p) ==
  /\ req[p].step = "relist"
  /\ req' = [req EXCEPT ![p] = Idle]
  /\ UNCHANGED <<file, presets, requests, serial, spoiled>>

\* RemovePreset runs the command whether or not the preset exists
RemovePreset(p) ==
  /\ Asked(p)
  /\ \E n \in Numbers : presets' = [presets EXCEPT ![n] = NoName]
  /\ req' = Moved(p, PresetSteps, req[p])
  /\ UNCHANGED <<file, serial, spoiled>>

GotoPreset(p) ==
  /\ Asked(p)
  /\ \E n \in Numbers :
       IF n \in Stored
       THEN req' = [req EXCEPT ![p] = [Idle EXCEPT !.step = "move",
                                         !.ask = Request("GotoPreset", n, NoName, "Stop")]]
       ELSE UNCHANGED req
  /\ UNCHANGED <<file, presets, serial, spoiled>>

RunMovePreset(p) ==
  /\ req[p].step = "move"
  /\ req' = [req EXCEPT ![p] = Idle]
  /\ UNCHANGED <<file, presets, requests, serial, spoiled>>

-----------------------------------------------------------------------------
(* The process is killed: its server gives up on it, or the power fails.   *)
Kill(p) ==
  /\ req[p].step # "idle"
  /\ req' = [req EXCEPT ![p] = Idle]
  /\ spoiled' = IF req[p].step = "write" THEN spoiled \cup {"tours"} ELSE spoiled
  /\ UNCHANGED <<file, presets, requests, serial>>

Init ==
  /\ file = [i \in 1 .. ToursAtStart |-> [token |-> i, name |-> NoName, status |-> "Idle"]]
  /\ presets \in [Numbers -> NameOrNone]
  /\ \A m, n \in Stored : presets[m] = presets[n] => m = n
  /\ req = [p \in Procs |-> Idle]
  /\ requests = 0
  /\ serial = file
  /\ spoiled = {}

Next ==
  \E p \in Procs :
     \/ CreatePresetTour(p) \/ ModifyPresetTour(p)
     \/ OperatePresetTour(p) \/ RemovePresetTour(p)
     \/ OpenTours(p) \/ WriteTours(p)
     \/ SetPreset(p) \/ RunSetPreset(p) \/ RelistPresets(p)
     \/ RemovePreset(p)
     \/ GotoPreset(p) \/ RunMovePreset(p)
     \/ Kill(p)

Spec == Init /\ [][Next]_vars

-----------------------------------------------------------------------------
(* Properties.                                                             *)

(* The file never holds more tours than max_preset_tours, although the     *)
(* processes count the tours they loaded and not those in the file, and    *)
(* whichever are killed.  Only two that have it open at once can bring it  *)
(* above the limit, when the one writes over the text of the other.        *)
ToursWithinLimit ==
  MaxTours > 0 /\ "mixed" \notin spoiled => Len(file) <= MaxTours

(* Unless requests got in each other's way, what is in the file when no    *)
(* process is writing it is what the requests would have left one after    *)
(* the other.                                                              *)
ServedInOrder == "tours" \notin spoiled /\ At("write") = {} => file = serial

(* Unless requests got in each other's way, no two tours have one token,   *)
(* so that the first match of tour_index_by_token is the tour meant.       *)
TokensDistinct ==
  "tours" \notin spoiled =>
    \A i, j \in DOMAIN serial : serial[i].token = serial[j].token => i = j

(* Unless another process changed the presets between the look for the     *)
(* name and the set_preset command, no two presets have one name.          *)
NamesDistinct ==
  "presets" \notin spoiled => \A m, n \in Stored : presets[m] = presets[n] => m = n

(* SetPreset answers with the token of the preset it stored, and with      *)
(* TooManyPresets exactly when it stored none, unless another process      *)
(* changed the presets meanwhile.                                          *)
AnswersRight ==
  \A p \in At("relist") :
    req[p].fresh /\ "presets" \notin spoiled =>
      LET new == Named(req[p].ask.name) IN
      IF req[p].ask.token # 0 THEN Answers(p) = {req[p].ask.token}
      ELSE /\ TooManyPresets(p) <=> new = {}
           /\ new \cap req[p].listed = {}
           /\ ~ TooManyPresets(p) => Answers(p) = new /\ Cardinality(new) = 1
=============================================================================
