-------------------------- MODULE PtzStore_proofs --------------------------
(***************************************************************************)
(* Proofs about the preset tours of PtzStore, for every number of          *)
(* processes and requests and every limit.                                 *)
(***************************************************************************)
EXTENDS PtzStore, TLAPS, WellFoundedInduction, SequenceTheorems, FiniteSetTheorems

Tour == [token : Nat, name : NameOrNone, status : Statuses]

\* no tour of the list has a token above b
Below(tours, b) == \A i \in DOMAIN tours : tours[i].token <= b

Distinct(tours) == \A i, j \in DOMAIN tours : tours[i].token = tours[j].token => i = j

-----------------------------------------------------------------------------
(* The operators on lists of tours. *)

LEMMA TourTyped ==
  ASSUME NEW tours \in Tours, NEW i \in DOMAIN tours
  PROVE  tours[i] \in Tour /\ tours[i].token \in Nat
<1>1. tours \in Seq(Tour) /\ i \in 1 .. Len(tours)
  BY DEF Tours, Tour
<1>2. tours[i] \in Tour
  BY <1>1
<1> QED
  BY <1>2 DEF Tour

LEMMA IndexFound ==
  ASSUME NEW tours \in Tours, NEW token \in Tokens(tours)
  PROVE  IndexOf(tours, token) \in DOMAIN tours /\ tours[IndexOf(tours, token)].token = token
<1> DEFINE Hits == {i \in DOMAIN tours : tours[i].token = token}
<1>1. Hits \subseteq Nat /\ Hits # {}
  BY DEF Tokens, Tours
<1>2. PICK i \in Hits : \A j \in Hits : ~(<<j, i>> \in OpToRel(<, Nat))
  BY <1>1, NatLessThanWellFounded, WFMin
<1>3. \A j \in Hits : ~(j < i)
  BY <1>1, <1>2, Zenon DEF OpToRel
<1>4. \A j \in 1 .. i - 1 : tours[j].token # token
  BY <1>3 DEF Tours
<1> QED
  BY <1>4 DEF IndexOf

LEMMA NextNumber ==
  ASSUME NEW tours \in Tours, NEW b \in Nat, Below(tours, b)
  PROVE  /\ next_tour_number(tours) \in 1 .. b + 1
         /\ \A i \in DOMAIN tours : tours[i].token < next_tour_number(tours)
<1> DEFINE All == {0} \cup Tokens(tours)
           Gaps == {b - t : t \in All}
<1>1. \A t \in All : t \in 0 .. b
  <2>1. \A i \in DOMAIN tours : tours[i].token \in Nat /\ tours[i].token <= b
    BY TourTyped DEF Below
  <2>2. \A t \in Tokens(tours) : t \in 0 .. b
    BY <2>1 DEF Tokens
  <2> QED
    BY <2>2
<1>2. Gaps \subseteq Nat /\ Gaps # {}
  BY <1>1
<1>3. PICK g \in Gaps : \A h \in Gaps : ~(<<h, g>> \in OpToRel(<, Nat))
  BY <1>2, NatLessThanWellFounded, WFMin
<1>4. \A h \in Gaps : ~(h < g)
  BY <1>2, <1>3, Zenon DEF OpToRel
<1>5. PICK t \in All : g = b - t
  OBVIOUS
<1>6. \A u \in All : t >= u
  <2> SUFFICES ASSUME NEW u \in All PROVE t >= u
    OBVIOUS
  <2>1. b - u \in Gaps
    OBVIOUS
  <2> QED
    BY <2>1, <1>1, <1>4, <1>5
<1>7. Max(All) \in All /\ \A u \in All : Max(All) >= u
  BY <1>6 DEF Max
<1>8. \A i \in DOMAIN tours : tours[i].token \in All
  BY DEF Tokens
<1> HIDE DEF All
<1>9. next_tour_number(tours) = 1 + Max(All)
  BY DEF next_tour_number, All
<1> QED
  BY <1>1, <1>7, <1>8, <1>9

LEMMA RemoveOne ==
  ASSUME NEW tours \in Tours, NEW i \in DOMAIN tours
  PROVE  /\ RemoveAt(tours, i) \in Tours
         /\ Len(RemoveAt(tours, i)) = Len(tours) - 1
         /\ \A j \in 1 .. Len(tours) - 1 :
              RemoveAt(tours, i)[j] = tours[IF j < i THEN j ELSE j + 1]
<1> DEFINE front == SubSeq(tours, 1, i - 1)
           back == SubSeq(tours, i + 1, Len(tours))
<1>1. tours \in Seq(Tour) /\ i \in 1 .. Len(tours) /\ Len(tours) \in Nat
  BY DEF Tours, Tour
<1>2. front \in Seq(Tour) /\ Len(front) = i - 1 /\ \A j \in 1 .. i - 1 : front[j] = tours[j]
  BY <1>1
<1>3. /\ back \in Seq(Tour)
      /\ Len(back) = Len(tours) - i
      /\ \A j \in 1 .. Len(tours) - i : back[j] = tours[j + i]
  BY <1>1
<1> HIDE DEF front, back
<1>4. /\ front \o back \in Seq(Tour)
      /\ Len(front \o back) = Len(tours) - 1
      /\ \A j \in 1 .. Len(tours) - 1 :
           (front \o back)[j] = IF j < i THEN front[j] ELSE back[j - (i - 1)]
  BY <1>1, <1>2, <1>3
<1>5. RemoveAt(tours, i) = front \o back
  BY DEF RemoveAt, front, back
<1>6. ASSUME NEW j \in 1 .. Len(tours) - 1
      PROVE  (front \o back)[j] = tours[IF j < i THEN j ELSE j + 1]
  <2>1. CASE j < i
    BY <2>1, <1>1, <1>2, <1>4
  <2>2. CASE ~(j < i)
    <3>1. j - (i - 1) \in 1 .. Len(tours) - i /\ (j - (i - 1)) + i = j + 1
      BY <2>2, <1>1
    <3>2. (front \o back)[j] = back[j - (i - 1)]
      BY <2>2, <1>4
    <3> QED
      BY <2>2, <3>1, <3>2, <1>3
  <2> QED
    BY <2>1, <2>2
<1> QED
  BY <1>4, <1>5, <1>6 DEF Tours, Tour

LEMMA ChangedIsRight ==
  ASSUME NEW tours \in Tours, NEW ask \in Requests, ask.method \in TourMethods,
         ~Refused(ask, tours), NEW b \in Nat, Below(tours, b)
  PROVE  /\ Changed(ask, tours) \in Tours
         /\ Below(Changed(ask, tours), b + 1)
         /\ MaxTours > 0 /\ Len(tours) <= MaxTours => Len(Changed(ask, tours)) <= MaxTours
         /\ Distinct(tours) => Distinct(Changed(ask, tours))
<1> DEFINE new == Changed(ask, tours)
           i == IndexOf(tours, ask.token)
<1>1. /\ tours \in Seq(Tour) /\ Len(tours) \in Nat /\ DOMAIN tours = 1 .. Len(tours)
      /\ MaxTours \in Nat
  BY StoreAssumption DEF Tours, Tour
<1>2. ask.name \in NameOrNone /\ ask.op \in {"Start", "Stop", "Pause"}
  BY DEF Requests
<1>3. CASE ask.method = "CreatePresetTour"
  <2> DEFINE tour == [token |-> next_tour_number(tours), name |-> ask.name, status |-> "Idle"]
  <2>1. new = Append(tours, tour)
    BY <1>3 DEF Changed
  <2>2. tour \in Tour /\ tour.token <= b + 1 /\ \A j \in DOMAIN tours : tours[j].token < tour.token
    BY <1>2, NextNumber DEF Tour, Statuses
  <2> HIDE DEF tour, new
  <2>3. /\ new \in Seq(Tour) /\ Len(new) = Len(tours) + 1 /\ new[Len(tours) + 1] = tour
        /\ \A j \in 1 .. Len(tours) : new[j] = tours[j]
    BY <1>1, <2>1, <2>2
  <2>4. Below(new, b + 1)
    <3> SUFFICES ASSUME NEW j \in 1 .. Len(tours) + 1 PROVE new[j].token <= b + 1
      BY <1>1, <2>3 DEF Below
    <3>1. CASE j = Len(tours) + 1
      BY <3>1, <2>2, <2>3
    <3>2. CASE j \in 1 .. Len(tours)
      BY <3>2, <1>1, <2>3, TourTyped DEF Below
    <3> QED
      BY <1>1, <3>1, <3>2
  <2>5. MaxTours > 0 /\ Len(tours) <= MaxTours => Len(new) <= MaxTours
    BY <1>1, <1>3, <2>3 DEF Refused
  <2>6. ASSUME Distinct(tours) PROVE Distinct(new)
    <3> SUFFICES ASSUME NEW j \in 1 .. Len(tours) + 1, NEW k \in 1 .. Len(tours) + 1, j # k
                 PROVE  new[j].token # new[k].token
      BY <1>1, <2>3 DEF Distinct
    <3>1. CASE j \in 1 .. Len(tours) /\ k \in 1 .. Len(tours)
      BY <3>1, <1>1, <2>3, <2>6 DEF Distinct
    <3>2. CASE j = Len(tours) + 1 /\ k \in 1 .. Len(tours)
      BY <3>2, <1>1, <2>2, <2>3, TourTyped
    <3>3. CASE k = Len(tours) + 1 /\ j \in 1 .. Len(tours)
      BY <3>3, <1>1, <2>2, <2>3, TourTyped
    <3> QED
      BY <1>1, <3>1, <3>2, <3>3
  <2> QED
    BY <2>3, <2>4, <2>5, <2>6 DEF new, Tours, Tour
<1>4. ASSUME NEW tour \in Tour, tour.token = tours[i].token, i \in DOMAIN tours,
             new = [tours EXCEPT ![i] = tour]
      PROVE  /\ new \in Tours /\ Len(new) = Len(tours)
             /\ Below(new, b + 1) /\ (Distinct(tours) => Distinct(new))
  <2> HIDE DEF new, i
  <2>1. /\ new \in Seq(Tour) /\ Len(new) = Len(tours) /\ DOMAIN new = DOMAIN tours
        /\ \A j \in DOMAIN tours : new[j].token = tours[j].token
    BY <1>1, <1>4
  <2>2. \A j \in DOMAIN tours : tours[j].token \in Nat /\ tours[j].token <= b
    BY TourTyped DEF Below
  <2>3. Below(new, b + 1)
    BY <2>1, <2>2 DEF Below
  <2>4. Distinct(tours) => Distinct(new)
    BY <2>1 DEF Distinct
  <2> QED
    BY <2>1, <2>3, <2>4 DEF Tours, Tour
<1>5. CASE ask.method # "CreatePresetTour"
  <2>1. ask.token \in Tokens(tours)
    BY <1>5 DEF Refused
  <2>2. i \in DOMAIN tours /\ tours[i] \in Tour
    BY <2>1, IndexFound, TourTyped
  <2>3. CASE ask.method = "ModifyPresetTour" /\ ask.name = NoName
    <3>1. new = tours
      BY <2>3 DEF Changed
    <3>2. Below(tours, b + 1)
      BY TourTyped DEF Below
    <3> QED
      BY <3>1, <3>2
  <2>4. CASE ask.method = "ModifyPresetTour" /\ ask.name # NoName
    <3>1. new = [tours EXCEPT ![i] = [tours[i] EXCEPT !.name = ask.name]]
      BY <2>4 DEF Changed
    <3>2. [tours[i] EXCEPT !.name = ask.name] \in Tour
      BY <1>2, <2>2 DEF Tour
    <3>3. [tours[i] EXCEPT !.name = ask.name].token = tours[i].token
      BY <2>2 DEF Tour
    <3> QED
      BY <3>1, <3>2, <3>3, <2>2, <1>4
  <2>5. CASE ask.method = "OperatePresetTour"
    <3>1. new = [tours EXCEPT ![i] = [tours[i] EXCEPT !.status = StatusOf(ask.op)]]
      BY <2>5 DEF Changed
    <3>2. [tours[i] EXCEPT !.status = StatusOf(ask.op)] \in Tour
      BY <1>2, <2>2 DEF Tour, StatusOf, Statuses
    <3>3. [tours[i] EXCEPT !.status = StatusOf(ask.op)].token = tours[i].token
      BY <2>2 DEF Tour
    <3> QED
      BY <3>1, <3>2, <3>3, <2>2, <1>4
  <2>6. CASE ask.method = "RemovePresetTour"
    <3>1. new = RemoveAt(tours, i)
      BY <2>6 DEF Changed
    <3> HIDE DEF new, i
    <3>2. /\ new \in Seq(Tour) /\ Len(new) = Len(tours) - 1
          /\ \A j \in 1 .. Len(tours) - 1 : new[j] = tours[IF j < i THEN j ELSE j + 1]
      BY <2>2, <3>1, RemoveOne DEF Tours, Tour
    <3>3. \A j \in 1 .. Len(tours) - 1 : (IF j < i THEN j ELSE j + 1) \in DOMAIN tours
      BY <1>1, <2>2
    <3>4. Below(new, b + 1)
      <4> SUFFICES ASSUME NEW j \in 1 .. Len(tours) - 1 PROVE new[j].token <= b + 1
        BY <1>1, <3>2 DEF Below
      <4> DEFINE k == IF j < i THEN j ELSE j + 1
      <4>1. k \in DOMAIN tours /\ new[j] = tours[k]
        BY <3>2, <3>3
      <4> HIDE DEF k
      <4>2. tours[k].token \in Nat /\ tours[k].token <= b
        BY <4>1, TourTyped DEF Below
      <4> QED
        BY <4>1, <4>2
    <3>5. ASSUME Distinct(tours) PROVE Distinct(new)
      <4> SUFFICES ASSUME NEW j \in 1 .. Len(tours) - 1, NEW k \in 1 .. Len(tours) - 1,
                          new[j].token = new[k].token
                   PROVE  j = k
        BY <1>1, <3>2 DEF Distinct
      <4> DEFINE At1 == IF j < i THEN j ELSE j + 1
                 At2 == IF k < i THEN k ELSE k + 1
      <4>1. /\ At1 \in DOMAIN tours /\ new[j] = tours[At1]
            /\ At2 \in DOMAIN tours /\ new[k] = tours[At2]
        BY <3>2, <3>3
      <4>2. At1 = At2 => j = k
        BY <1>1, <2>2
      <4> HIDE DEF At1, At2
      <4> QED
        BY <3>5, <4>1, <4>2 DEF Distinct
    <3> QED
      BY <1>1, <3>2, <3>4, <3>5 DEF new, Tours, Tour
  <2> QED
    BY <1>5, <2>3, <2>4, <2>5, <2>6 DEF TourMethods
<1> QED
  BY <1>3, <1>5

(* What a process writes over what another has written. *)
LEMMA LeftIsRight ==
  ASSUME NEW tours \in Tours, NEW old \in Tours, NEW rest \in Left(tours, old)
  PROVE  /\ tours \o rest \in Tours
         /\ \A b \in Nat : Below(tours, b) /\ Below(old, b) => Below(tours \o rest, b)
         /\ old = <<>> => tours \o rest = tours
<1>1. PICK k \in Nat : rest = SubSeq(old, k + 1, Len(old))
  BY DEF Left, Covered
<1>2. /\ tours \in Seq(Tour) /\ old \in Seq(Tour)
      /\ Len(tours) \in Nat /\ Len(old) \in Nat
  BY DEF Tours, Tour
<1>3. /\ rest \in Seq(Tour)
      /\ Len(rest) = IF k <= Len(old) THEN Len(old) - k ELSE 0
      /\ \A j \in 1 .. Len(rest) : rest[j] = old[k + j]
  BY <1>1, <1>2
<1> HIDE <1>1
<1>4. /\ tours \o rest \in Seq(Tour) /\ Len(tours \o rest) = Len(tours) + Len(rest)
      /\ \A j \in 1 .. Len(tours) + Len(rest) :
           (tours \o rest)[j] = IF j <= Len(tours) THEN tours[j] ELSE rest[j - Len(tours)]
  BY <1>2, <1>3, ConcatProperties
<1>6. ASSUME NEW b \in Nat, Below(tours, b), Below(old, b) PROVE Below(tours \o rest, b)
  <2> SUFFICES ASSUME NEW j \in 1 .. Len(tours) + Len(rest) PROVE (tours \o rest)[j].token <= b
    BY <1>2, <1>4 DEF Below
  <2>1. CASE j <= Len(tours)
    BY <2>1, <1>2, <1>3, <1>4, <1>6 DEF Below
  <2>2. CASE j > Len(tours)
    <3>1. j - Len(tours) \in 1 .. Len(rest) /\ (tours \o rest)[j] = rest[j - Len(tours)]
      BY <2>2, <1>2, <1>3, <1>4
    <3>2. k + (j - Len(tours)) \in 1 .. Len(old)
      BY <3>1, <1>2, <1>3
    <3>3. (tours \o rest)[j] = old[k + (j - Len(tours))]
      BY <3>1, <1>3
    <3> HIDE <3>1
    <3> QED
      BY <3>2, <3>3, <1>2, <1>6 DEF Below
  <2> QED
    BY <1>2, <1>3, <2>1, <2>2
<1>7. ASSUME old = <<>> PROVE tours \o rest = tours
  BY <1>2, <1>3, <1>4, <1>7
<1> QED
  BY <1>4, <1>6, <1>7 DEF Tours, Tour

-----------------------------------------------------------------------------
(* The invariant. *)

Bound == ToursAtStart + requests

\* every creation makes a token that is at most one above those it has seen
Bounded == /\ Below(file, Bound) /\ Below(serial, Bound)
           /\ \A p \in Procs : Below(req[p].tours, Bound)

\* whoever has the file to itself knows what is in it
FreshKnows ==
  \A p \in Procs :
    /\ req[p].step \in TourSteps => req[p].ask.method \in TourMethods
    /\ req[p].step = "open" /\ req[p].fresh => At("write") = {}
    /\ req[p].step = "write" /\ req[p].fresh => At("write") = {p} /\ file = <<>>
    /\ req[p].step \in TourSteps /\ req[p].fresh /\ "tours" \notin spoiled =>
         ~Refused(req[p].ask, serial) /\ req[p].tours = Changed(req[p].ask, serial)

ListsWithinLimit ==
  MaxTours > 0 /\ "mixed" \notin spoiled =>
    Len(file) <= MaxTours /\ \A p \in Procs : Len(req[p].tours) <= MaxTours

ToursInv == /\ TypeOK /\ Bounded /\ FreshKnows /\ ListsWithinLimit
            /\ ServedInOrder /\ TokensDistinct

LEMMA EmptyTours == <<>> \in Tours /\ Len(<<>>) = 0 /\ \A b \in Nat : Below(<<>>, b)
BY DEF Tours, Below

LEMMA RequestTyped ==
  ASSUME NEW method \in TourMethods \cup PresetMethods, NEW token \in Nat,
         NEW name \in NameOrNone, NEW op \in {"Start", "Stop", "Pause"}
  PROVE  Request(method, token, name, op) \in Requests
BY DEF Request, Requests

LEMMA IdleTyped == Idle \in Local
<1>1. NoRequest \in Requests
  BY RequestTyped DEF NoRequest, PresetMethods, NameOrNone
<1> QED
  BY <1>1, EmptyTours DEF Idle, Local

LEMMA BelowMore ==
  ASSUME NEW tours \in Tours, NEW b \in Nat, NEW c \in Nat, b <= c, Below(tours, b)
  PROVE  Below(tours, c)
BY TourTyped DEF Below

LEMMA InitToursInv == Init => ToursInv
<1> SUFFICES ASSUME Init PROVE ToursInv
  OBVIOUS
<1> USE StoreAssumption DEF Init
<1>1. /\ file \in Tours /\ Len(file) = ToursAtStart /\ DOMAIN file = 1 .. ToursAtStart
      /\ \A i \in DOMAIN file : file[i].token = i
  BY DEF Tours, NameOrNone, Statuses
<1>2. TypeOK
  BY <1>1, IdleTyped DEF TypeOK
<1>3. \A p \in Procs : req[p].step = "idle" /\ req[p].tours = <<>>
  BY DEF Idle
<1>4. Bounded
  BY <1>1, <1>3, EmptyTours DEF Bounded, Below, Bound
<1>5. FreshKnows
  BY <1>3 DEF FreshKnows, TourSteps
<1>6. ListsWithinLimit
  BY <1>1, <1>3, EmptyTours DEF ListsWithinLimit
<1>7. ServedInOrder /\ TokensDistinct
  BY <1>1 DEF ServedInOrder, TokensDistinct
<1> QED
  BY <1>2, <1>4, <1>5, <1>6, <1>7 DEF ToursInv

LEMMA SumGrows == \A a, b, c \in Nat : a + b \in Nat /\ (b <= c => a + b <= a + c)
OBVIOUS

LEMMA BoundGrows ==
  ASSUME TypeOK, TypeOK', requests <= requests'
  PROVE  Bound \in Nat /\ Bound' \in Nat /\ Bound <= Bound'
<1>1. requests \in Nat /\ requests' \in Nat /\ ToursAtStart \in Nat
  BY StoreAssumption DEF TypeOK
<1> QED
  BY <1>1, SumGrows DEF Bound

(* A step that touches neither the file nor who works on it. *)
LEMMA OtherSteps ==
  ASSUME ToursInv, TypeOK', UNCHANGED <<file, serial>>, requests <= requests',
         "tours" \in spoiled' <=> "tours" \in spoiled,
         "mixed" \in spoiled' <=> "mixed" \in spoiled,
         At("write")' = At("write"),
         \A p \in Procs : req'[p].step \in TourSteps => req'[p] = req[p],
         \A p \in Procs : req'[p].tours \in {req[p].tours, <<>>}
  PROVE  ToursInv'
<1> USE DEF ToursInv
<1>1. Bound \in Nat /\ Bound' \in Nat /\ Bound <= Bound'
  BY BoundGrows
<1>2. \A p \in Procs : req[p].tours \in Tours
  BY DEF TypeOK, Local
<1>3. Below(file, Bound') /\ Below(serial, Bound')
  BY <1>1, BelowMore DEF Bounded, TypeOK
<1>4. \A p \in Procs : Below(req'[p].tours, Bound')
  BY <1>1, <1>2, BelowMore, EmptyTours DEF Bounded
<1>5. Bounded'
  BY <1>3, <1>4 DEF Bounded
<1>6. FreshKnows'
  BY DEF FreshKnows, TourSteps
<1>7. ListsWithinLimit'
  BY StoreAssumption, EmptyTours DEF ListsWithinLimit
<1>8. ServedInOrder' /\ TokensDistinct'
  BY DEF ServedInOrder, TokensDistinct
<1> QED
  BY <1>5, <1>6, <1>7, <1>8

LEMMA MovedTyped ==
  ASSUME TypeOK, NEW p \in Procs, NEW steps, NEW to \in Local
  PROVE  /\ Moved(p, steps, to) \in [Procs -> Local]
         /\ Moved(p, steps, to)[p] = to
         /\ \A q \in Procs \ {p} :
              /\ Moved(p, steps, to)[q].step = req[q].step
              /\ Moved(p, steps, to)[q].ask = req[q].ask
              /\ Moved(p, steps, to)[q].tours = req[q].tours
              /\ Moved(p, steps, to)[q].fresh => req[q].fresh
              /\ req[q].step \in steps => ~Moved(p, steps, to)[q].fresh
              /\ req[q].step \notin steps => Moved(p, steps, to)[q] = req[q]
<1> DEFINE new == Moved(p, steps, to)
<1>1. /\ new = [q \in Procs |-> new[q]] /\ new[p] = to
      /\ \A q \in Procs \ {p} : new[q] = IF req[q].step \in steps
                                       THEN [req[q] EXCEPT !.fresh = FALSE] ELSE req[q]
  BY DEF Moved
<1> HIDE DEF new
<1>2. \A q \in Procs : req[q] \in Local
  BY DEF TypeOK
<1>3. \A q \in Procs : new[q] \in Local
  <2>1. ASSUME NEW q \in Procs \ {p} PROVE new[q] \in Local
    <3>1. [req[q] EXCEPT !.fresh = FALSE] \in Local
      BY <1>2 DEF Local
    <3> QED
      BY <1>1, <1>2, <3>1
  <2> QED
    BY <1>1, <2>1
<1>4. ASSUME NEW q \in Procs \ {p}
      PROVE  /\ new[q].step = req[q].step /\ new[q].ask = req[q].ask
             /\ new[q].tours = req[q].tours
             /\ new[q].fresh => req[q].fresh
             /\ req[q].step \in steps => ~new[q].fresh
             /\ req[q].step \notin steps => new[q] = req[q]
  BY <1>1, <1>2 DEF Local
<1> QED
  BY <1>1, <1>3, <1>4 DEF new

(* A request on a tour: the load and the change of the list. *)
LEMMA LoadStep ==
  ASSUME ToursInv, NEW p \in Procs, NEW ask \in Requests, ask.method \in TourMethods,
         LoadTours(p, ask)
  PROVE  ToursInv'
<1> USE DEF ToursInv, LoadTours, Asked
<1>1. /\ Bound \in Nat /\ Bound' = Bound + 1 /\ requests' = requests + 1
      /\ requests' \in 0 .. MaxRequests
  <2>1. requests \in Nat /\ requests' \in 0 .. MaxRequests
    BY StoreAssumption DEF TypeOK
  <2> QED
    BY <2>1, StoreAssumption DEF Bound
<1>2. CASE Refused(ask, file)
  <2>1. req' = req /\ TypeOK'
    BY <1>1, <1>2 DEF TypeOK
  <2>2. requests <= requests'
    BY <1>1, StoreAssumption DEF TypeOK
  <2> QED
    BY <2>1, <2>2, OtherSteps DEF At
<1>3. CASE ~Refused(ask, file)
  <2> DEFINE list == Changed(ask, file)
             mine == [Idle EXCEPT !.step = "open", !.ask = ask, !.tours = list,
                                  !.fresh = At("write") = {}]
  <2>1. req' = [req EXCEPT ![p] = mine]
    BY <1>3
  <2>2. /\ list \in Tours /\ Below(list, Bound')
        /\ MaxTours > 0 /\ Len(file) <= MaxTours => Len(list) <= MaxTours
    BY <1>1, <1>3, ChangedIsRight DEF Bounded, TypeOK
  <2>3. /\ mine \in Local /\ mine.step = "open" /\ mine.ask = ask /\ mine.tours = list
        /\ mine.fresh <=> At("write") = {}
    BY <2>2, IdleTyped DEF Local
  <2> HIDE DEF list, mine
  <2>4. TypeOK'
    BY <1>1, <2>1, <2>3 DEF TypeOK
  <2>5. req'[p] = mine /\ \A q \in Procs \ {p} : req'[q] = req[q]
    BY <2>1 DEF TypeOK
  <2>6. At("write")' = At("write")
    BY <2>3, <2>5 DEF At
  <2>7. Bounded'
    <3>1. Below(file, Bound') /\ Below(serial, Bound')
      BY <1>1, BelowMore DEF Bounded, TypeOK
    <3>2. \A q \in Procs : req[q].tours \in Tours
      BY DEF TypeOK, Local
    <3>3. \A q \in Procs \ {p} : Below(req'[q].tours, Bound')
      BY <1>1, <2>5, <3>2, BelowMore DEF Bounded
    <3> QED
      BY <2>2, <2>3, <2>5, <3>1, <3>3 DEF Bounded
  <2>8. FreshKnows'
    <3>1. mine.fresh /\ "tours" \notin spoiled =>
            ~Refused(ask, serial) /\ list = Changed(ask, serial)
      BY <1>3, <2>3 DEF ServedInOrder, list
    <3>2. ASSUME NEW q \in Procs \ {p}
          PROVE  /\ req'[q].step \in TourSteps => req'[q].ask.method \in TourMethods
                 /\ req'[q].step = "open" /\ req'[q].fresh => At("write")' = {}
                 /\ req'[q].step = "write" /\ req'[q].fresh => At("write")' = {q} /\ file' = <<>>
                 /\ req'[q].step \in TourSteps /\ req'[q].fresh /\ "tours" \notin spoiled' =>
                      ~Refused(req'[q].ask, serial') /\ req'[q].tours = Changed(req'[q].ask, serial')
      BY <2>5, <2>6 DEF FreshKnows
    <3> QED
      BY <2>3, <2>5, <2>6, <3>1, <3>2 DEF FreshKnows
  <2>9. ListsWithinLimit'
    BY <2>2, <2>3, <2>5 DEF ListsWithinLimit
  <2>10. ServedInOrder' /\ TokensDistinct'
    BY <2>6 DEF ServedInOrder, TokensDistinct
  <2> QED
    BY <2>4, <2>7, <2>8, <2>9, <2>10
<1> QED
  BY <1>2, <1>3

(* The file is truncated: whoever else has read it is no longer fresh. *)
LEMMA OpenStep ==
  ASSUME ToursInv, NEW p \in Procs, OpenTours(p)
  PROVE  ToursInv'
<1> USE DEF ToursInv
<1> DEFINE mine == [req[p] EXCEPT !.step = "write"]
<1>1. /\ req[p].step = "open" /\ file' = <<>> /\ req' = Moved(p, TourSteps, mine)
      /\ UNCHANGED <<presets, requests, serial, spoiled>>
  BY DEF OpenTours
<1>2. req[p] \in Local
  BY DEF TypeOK
<1>3. /\ mine \in Local /\ mine.step = "write" /\ mine.ask = req[p].ask
      /\ mine.tours = req[p].tours /\ mine.fresh = req[p].fresh
  BY <1>2 DEF Local
<1> HIDE DEF mine
<1>4. /\ req' \in [Procs -> Local] /\ req'[p] = mine
      /\ \A q \in Procs \ {p} :
           /\ req'[q].step = req[q].step /\ req'[q].ask = req[q].ask
           /\ req'[q].tours = req[q].tours
           /\ req[q].step \in TourSteps => ~req'[q].fresh
  BY <1>1, <1>3, MovedTyped
<1>5. TypeOK'
  BY <1>1, <1>4, EmptyTours DEF TypeOK
<1>6. Bounded'
  <2>1. Bound' = Bound /\ Bound \in Nat
    <3>1. requests \in Nat /\ ToursAtStart \in Nat
      BY StoreAssumption DEF TypeOK
    <3> QED
      BY <3>1, <1>1 DEF Bound
  <2> QED
    BY <2>1, <1>1, <1>3, <1>4, EmptyTours DEF Bounded
<1>7. mine.fresh => At("write")' = {p}
  <2>1. mine.fresh => At("write") = {}
    BY <1>1, <1>3 DEF FreshKnows
  <2> QED
    BY <2>1, <1>3, <1>4 DEF At
<1>8. FreshKnows'
  <2>1. mine.fresh /\ "tours" \notin spoiled =>
          ~Refused(mine.ask, serial) /\ mine.tours = Changed(mine.ask, serial)
    BY <1>1, <1>3 DEF FreshKnows, TourSteps
  <2>2. mine.ask.method \in TourMethods
    BY <1>1, <1>3 DEF FreshKnows, TourSteps
  <2>3. \A q \in Procs \ {p} : req'[q].step \in TourSteps =>
          ~req'[q].fresh /\ req'[q].ask.method \in TourMethods
    BY <1>4 DEF FreshKnows
  <2> QED
    BY <1>1, <1>3, <1>4, <1>7, <2>1, <2>2, <2>3 DEF FreshKnows, TourSteps
<1>9. ListsWithinLimit'
  BY <1>1, <1>3, <1>4, EmptyTours, StoreAssumption DEF ListsWithinLimit
<1>10. ServedInOrder' /\ TokensDistinct'
  <2>1. p \in At("write")'
    BY <1>3, <1>4 DEF At
  <2> QED
    BY <1>1, <2>1 DEF ServedInOrder, TokensDistinct
<1> QED
  BY <1>5, <1>6, <1>8, <1>9, <1>10

(* A process is done with the file, or killed. *)
LEMMA WriteStep ==
  ASSUME ToursInv, NEW p \in Procs, WriteTours(p)
  PROVE  ToursInv'
<1> USE DEF ToursInv
<1> DEFINE mine == req[p].tours
           alone == req[p].fresh /\ "tours" \notin spoiled
<1>1. PICK rest \in Left(mine, file) : file' = mine \o rest
  BY DEF WriteTours
<1>2. /\ req[p].step = "write" /\ req' = [req EXCEPT ![p] = Idle]
      /\ requests' = requests /\ presets' = presets
      /\ alone => serial' = Changed(req[p].ask, serial)
      /\ ~alone => serial' = serial /\ "tours" \in spoiled'
      /\ spoiled \subseteq spoiled' /\ spoiled' \subseteq spoiled \cup {"tours", "mixed"}
      /\ file # <<>> => "mixed" \in spoiled'
  BY DEF WriteTours
<1>3. /\ req[p] \in Local /\ mine \in Tours /\ file \in Tours /\ serial \in Tours
      /\ req[p].ask \in Requests
  BY DEF TypeOK, Local
<1>4. Bound \in Nat /\ Bound' = Bound
  <2>1. requests \in Nat /\ ToursAtStart \in Nat
    BY StoreAssumption DEF TypeOK
  <2> QED
    BY <2>1, <1>2 DEF Bound
<1>5. /\ file' \in Tours /\ Below(file', Bound)
      /\ file = <<>> => file' = mine
  BY <1>1, <1>3, <1>4, LeftIsRight, StoreAssumption DEF Bounded
<1>6. ASSUME alone
      PROVE  /\ serial' = mine /\ file' = mine /\ At("write") = {p}
             /\ Distinct(serial) => Distinct(serial')
  <2>1. /\ At("write") = {p} /\ file = <<>>
        /\ ~Refused(req[p].ask, serial) /\ mine = Changed(req[p].ask, serial)
        /\ req[p].ask.method \in TourMethods
    BY <1>2, <1>6 DEF FreshKnows, TourSteps
  <2>2. Distinct(serial) => Distinct(Changed(req[p].ask, serial))
    BY <2>1, <1>3, <1>4, ChangedIsRight DEF Bounded
  <2> QED
    BY <2>1, <2>2, <1>2, <1>5, <1>6
<1> HIDE DEF mine
<1>7. /\ req'[p] = Idle /\ \A q \in Procs \ {p} : req'[q] = req[q]
      /\ req' \in [Procs -> Local]
  BY <1>2, IdleTyped DEF TypeOK
<1>8. Idle.step = "idle" /\ Idle.tours = <<>>
  BY DEF Idle
<1>9. At("write")' = At("write") \ {p}
  BY <1>7, <1>8 DEF At
<1>10. TypeOK'
  BY <1>2, <1>3, <1>5, <1>6, <1>7 DEF TypeOK
<1>11. Bounded'
  <2>1. Below(serial', Bound)
    BY <1>2, <1>5, <1>6 DEF Bounded
  <2> QED
    BY <2>1, <1>4, <1>5, <1>7, <1>8, EmptyTours DEF Bounded
<1>12. FreshKnows'
  <2>1. \A q \in Procs \ {p} :
          /\ req[q].step = "open" /\ req[q].fresh => At("write") = {}
          /\ req[q].step = "write" /\ req[q].fresh => At("write") = {q}
          /\ req[q].step \in TourSteps => req[q].ask.method \in TourMethods
    BY DEF FreshKnows
  <2>2. p \in At("write")
    BY <1>2 DEF At
  <2>3. \A q \in Procs \ {p} : req[q].step \in TourSteps => ~req[q].fresh
    BY <2>1, <2>2 DEF TourSteps
  <2> QED
    BY <2>1, <2>3, <1>7, <1>8 DEF FreshKnows, TourSteps
<1>13. ListsWithinLimit'
  <2>1. "mixed" \notin spoiled' => "mixed" \notin spoiled /\ file' = req[p].tours
    BY <1>2, <1>5 DEF mine
  <2> QED
    BY <2>1, <1>7, <1>8, EmptyTours, StoreAssumption DEF ListsWithinLimit
<1>14. ServedInOrder'
  BY <1>2, <1>6 DEF ServedInOrder
<1>15. TokensDistinct'
  BY <1>2, <1>6 DEF TokensDistinct, Distinct
<1> QED
  BY <1>10, <1>11, <1>12, <1>13, <1>14, <1>15

LEMMA KillStep ==
  ASSUME ToursInv, NEW p \in Procs, Kill(p)
  PROVE  ToursInv'
<1> USE DEF ToursInv, Kill
<1>1. /\ req'[p] = Idle /\ \A q \in Procs \ {p} : req'[q] = req[q]
      /\ req' \in [Procs -> Local]
  BY IdleTyped DEF TypeOK
<1>2. Idle.step = "idle" /\ Idle.tours = <<>>
  BY DEF Idle
<1>3. TypeOK'
  BY <1>1 DEF TypeOK
<1>4. At("write")' = At("write") \ {p}
  BY <1>1, <1>2 DEF At
<1>5. CASE req[p].step = "write"
  <2>1. "tours" \in spoiled'
    BY <1>5
  <2>2. Bound' = Bound /\ Bound \in Nat
    <3>1. requests \in Nat /\ ToursAtStart \in Nat
      BY StoreAssumption DEF TypeOK
    <3> QED
      BY <3>1 DEF Bound
  <2>3. Bounded'
    BY <1>1, <1>2, <2>2, EmptyTours DEF Bounded
  <2>4. FreshKnows'
    <3>1. p \in At("write")
      BY <1>5 DEF At
    <3>2. ASSUME NEW q \in Procs \ {p}
          PROVE  /\ req[q].step = "open" => ~req[q].fresh
                 /\ req[q].step = "write" => ~req[q].fresh
                 /\ req[q].step \in TourSteps => req[q].ask.method \in TourMethods
      BY <3>1 DEF FreshKnows
    <3> QED
      BY <1>1, <1>2, <2>1, <3>2 DEF FreshKnows, TourSteps
  <2>5. ListsWithinLimit'
    BY <1>1, <1>2, EmptyTours, StoreAssumption DEF ListsWithinLimit
  <2>6. ServedInOrder' /\ TokensDistinct'
    BY <2>1 DEF ServedInOrder, TokensDistinct
  <2> QED
    BY <1>3, <2>3, <2>4, <2>5, <2>6
<1>6. CASE req[p].step # "write"
  <2>1. At("write")' = At("write")
    BY <1>4, <1>6 DEF At
  <2>2. /\ \A q \in Procs : req'[q].step \in TourSteps => req'[q] = req[q]
        /\ \A q \in Procs : req'[q].tours \in {req[q].tours, <<>>}
    BY <1>1, <1>2 DEF TourSteps
  <2>3. requests <= requests' /\ spoiled' = spoiled
    BY <1>6, StoreAssumption DEF TypeOK
  <2> QED
    BY <1>3, <2>1, <2>2, <2>3, OtherSteps
<1> QED
  BY <1>5, <1>6

(* The requests on presets leave the tours and whoever works on them alone. *)
LEMMA PresetStep ==
  ASSUME ToursInv, NEW p \in Procs, NEW to \in Local,
         req[p].step \notin TourSteps, to.step \notin TourSteps,
         to.tours \in {req[p].tours, <<>>},
         req' = [req EXCEPT ![p] = to] \/ req' = Moved(p, PresetSteps, to),
         UNCHANGED <<file, serial>>, presets' \in [Numbers -> NameOrNone],
         requests' \in 0 .. MaxRequests, requests <= requests',
         spoiled' \in {spoiled, spoiled \cup {"presets"}}
  PROVE  ToursInv'
<1> USE DEF ToursInv
<1>1. req' \in [Procs -> Local] /\ req'[p] = to
  BY MovedTyped DEF TypeOK
<1>2. ASSUME NEW q \in Procs \ {p}
      PROVE  /\ req'[q].step = req[q].step
             /\ req'[q].tours = req[q].tours
             /\ req[q].step \in TourSteps => req'[q] = req[q]
  <2>1. CASE req' = [req EXCEPT ![p] = to]
    BY <2>1 DEF TypeOK
  <2>2. CASE req' = Moved(p, PresetSteps, to)
    <3>1. req[q].step \in TourSteps => req[q].step \notin PresetSteps
      BY DEF TourSteps, PresetSteps
    <3> QED
      BY <2>2, <3>1, MovedTyped
  <2> QED
    BY <2>1, <2>2
<1>3. TypeOK'
  BY <1>1 DEF TypeOK
<1>4. At("write")' = At("write")
  <2>1. \A q \in Procs \ {p} : req'[q].step = req[q].step
    BY <1>2
  <2>2. req'[p].step # "write" /\ req[p].step # "write"
    BY <1>1 DEF TourSteps
  <2> QED
    BY <2>1, <2>2 DEF At
<1>5. ASSUME NEW q \in Procs
      PROVE  /\ req'[q].step \in TourSteps => req'[q] = req[q]
             /\ req'[q].tours \in {req[q].tours, <<>>}
  <2>1. CASE q = p
    BY <2>1, <1>1
  <2>2. CASE q # p
    <3>1. q \in Procs \ {p}
      BY <2>2
    <3> QED
      BY <3>1, <1>2
  <2> QED
    BY <2>1, <2>2
<1>6. /\ "tours" \in spoiled' <=> "tours" \in spoiled
      /\ "mixed" \in spoiled' <=> "mixed" \in spoiled
  OBVIOUS
<1> QED
  BY <1>3, <1>4, <1>5, <1>6, OtherSteps

LEMMA SetPresetStep ==
  ASSUME ToursInv, NEW p \in Procs, SetPreset(p)
  PROVE  ToursInv'
<1> USE DEF ToursInv
<1>1. /\ req[p] \in Local /\ req[p].step = "idle" /\ requests' = requests + 1
      /\ requests \in Nat /\ requests' \in 0 .. MaxRequests /\ requests <= requests'
      /\ presets \in [Numbers -> NameOrNone] /\ UNCHANGED <<file, presets, serial, spoiled>>
  BY StoreAssumption DEF SetPreset, Asked, TypeOK
<1>2. PICK token \in Numbers \cup {0}, name \in NameOrNone :
        \/ req' = req
        \/ req' = [req EXCEPT ![p] = [Idle EXCEPT !.step = "set", !.listed = Stored,
                                        !.ask = Request("SetPreset", token, name, "Stop")]]
  <2>1. \A token \in Numbers \cup {0} : token \in Stored => presets[token] \in NameOrNone
    BY <1>1 DEF Stored
  <2> QED
    BY <2>1 DEF SetPreset
<1> DEFINE to == [Idle EXCEPT !.step = "set", !.listed = Stored,
                              !.ask = Request("SetPreset", token, name, "Stop")]
<1>3. to \in Local /\ to.step = "set" /\ to.tours = <<>>
  <2>1. Request("SetPreset", token, name, "Stop") \in Requests
    BY StoreAssumption, RequestTyped DEF PresetMethods
  <2>2. Idle.tours = <<>> /\ Stored \subseteq Numbers
    BY DEF Idle, Stored
  <2> QED
    BY <2>1, <2>2, IdleTyped DEF Local
<1>4. CASE req' = req
  <2>1. req' = [req EXCEPT ![p] = req[p]]
    BY <1>4 DEF TypeOK
  <2> QED
    BY <2>1, <1>1, PresetStep DEF TourSteps
<1>5. CASE req' = [req EXCEPT ![p] = to]
  BY <1>5, <1>1, <1>3, PresetStep DEF TourSteps
<1> QED
  BY <1>2, <1>4, <1>5

LEMMA GotoPresetStep ==
  ASSUME ToursInv, NEW p \in Procs, GotoPreset(p)
  PROVE  ToursInv'
<1> USE DEF ToursInv
<1>1. /\ req[p] \in Local /\ req[p].step = "idle" /\ requests' = requests + 1
      /\ requests \in Nat /\ requests' \in 0 .. MaxRequests /\ requests <= requests'
      /\ presets \in [Numbers -> NameOrNone] /\ UNCHANGED <<file, presets, serial, spoiled>>
  BY StoreAssumption DEF GotoPreset, Asked, TypeOK
<1>2. PICK n \in Numbers :
        \/ req' = req
        \/ req' = [req EXCEPT ![p] = [Idle EXCEPT !.step = "move",
                                        !.ask = Request("GotoPreset", n, NoName, "Stop")]]
  BY DEF GotoPreset
<1> DEFINE to == [Idle EXCEPT !.step = "move", !.ask = Request("GotoPreset", n, NoName, "Stop")]
<1>3. to \in Local /\ to.step = "move" /\ to.tours = <<>>
  <2>1. Request("GotoPreset", n, NoName, "Stop") \in Requests
    BY StoreAssumption, RequestTyped DEF PresetMethods, NameOrNone
  <2>2. Idle.tours = <<>>
    BY DEF Idle
  <2> QED
    BY <2>1, <2>2, IdleTyped DEF Local
<1>4. CASE req' = req
  <2>1. req' = [req EXCEPT ![p] = req[p]]
    BY <1>4 DEF TypeOK
  <2> QED
    BY <2>1, <1>1, PresetStep DEF TourSteps
<1>5. CASE req' = [req EXCEPT ![p] = to]
  BY <1>5, <1>1, <1>3, PresetStep DEF TourSteps
<1> QED
  BY <1>2, <1>4, <1>5

LEMMA RemovePresetStep ==
  ASSUME ToursInv, NEW p \in Procs, RemovePreset(p)
  PROVE  ToursInv'
<1> USE DEF ToursInv
<1>1. /\ req[p] \in Local /\ req[p].step = "idle" /\ requests' = requests + 1
      /\ requests \in Nat /\ requests' \in 0 .. MaxRequests /\ requests <= requests'
      /\ UNCHANGED <<file, serial, spoiled>> /\ req' = Moved(p, PresetSteps, req[p])
  BY StoreAssumption DEF RemovePreset, Asked, TypeOK
<1>2. presets' \in [Numbers -> NameOrNone]
  BY DEF RemovePreset, TypeOK, NameOrNone
<1> QED
  BY <1>1, <1>2, PresetStep DEF TourSteps

LEMMA RunSetPresetStep ==
  ASSUME ToursInv, NEW p \in Procs, RunSetPreset(p)
  PROVE  ToursInv'
<1> USE DEF ToursInv
<1> DEFINE to == [req[p] EXCEPT !.step = "relist"]
<1>1. /\ req[p] \in Local /\ req[p].step = "set" /\ requests' = requests
      /\ requests \in 0 .. MaxRequests /\ requests <= requests
      /\ UNCHANGED <<file, serial>> /\ req' = Moved(p, PresetSteps, to)
      /\ spoiled' \in {spoiled, spoiled \cup {"presets"}}
  BY StoreAssumption DEF RunSetPreset, TypeOK
<1>2. presets' \in [Numbers -> NameOrNone]
  <2>1. req[p].ask.name \in NameOrNone /\ presets \in [Numbers -> NameOrNone]
    BY <1>1 DEF Local, Requests, TypeOK
  <2> QED
    BY <2>1 DEF RunSetPreset
<1>3. to \in Local /\ to.step = "relist" /\ to.tours = req[p].tours
  BY <1>1 DEF Local
<1> HIDE DEF to
<1> QED
  BY <1>1, <1>2, <1>3, PresetStep DEF TourSteps

LEMMA LastStep ==
  ASSUME ToursInv, NEW p \in Procs, RelistPresets(p) \/ RunMovePreset(p)
  PROVE  ToursInv'
<1> USE DEF ToursInv
<1>1. /\ req[p] \in Local /\ req[p].step \in {"relist", "move"} /\ requests' = requests
      /\ requests \in 0 .. MaxRequests /\ requests <= requests
      /\ presets \in [Numbers -> NameOrNone] /\ UNCHANGED <<file, presets, serial, spoiled>>
      /\ req' = [req EXCEPT ![p] = Idle]
  BY StoreAssumption DEF RelistPresets, RunMovePreset, TypeOK
<1>2. Idle \in Local /\ Idle.step = "idle" /\ Idle.tours = <<>>
  BY IdleTyped DEF Idle
<1> QED
  BY <1>1, <1>2, PresetStep DEF TourSteps

-----------------------------------------------------------------------------
(* The theorems. *)

LEMMA TourStep ==
  ASSUME ToursInv, NEW p \in Procs,
         CreatePresetTour(p) \/ ModifyPresetTour(p) \/ OperatePresetTour(p) \/ RemovePresetTour(p)
  PROVE  ToursInv'
<1>1. PICK method \in TourMethods, token \in Nat, name \in NameOrNone,
          op \in {"Start", "Stop", "Pause"} : LoadTours(p, Request(method, token, name, op))
  <2>1. NoName \in NameOrNone /\ TourTokens \subseteq Nat
    BY StoreAssumption DEF NameOrNone
  <2>2. {"CreatePresetTour", "ModifyPresetTour", "OperatePresetTour", "RemovePresetTour"}
          \subseteq TourMethods
    BY DEF TourMethods
  <2> QED
    BY <2>1, <2>2 DEF CreatePresetTour, ModifyPresetTour, OperatePresetTour, RemovePresetTour
<1>2. Request(method, token, name, op) \in Requests
      /\ Request(method, token, name, op).method \in TourMethods
  BY RequestTyped DEF Request
<1> QED
  BY <1>1, <1>2, LoadStep

LEMMA ToursInvHolds == Spec => []ToursInv
<1>1. ASSUME ToursInv, [Next]_vars PROVE ToursInv'
  <2>1. CASE UNCHANGED vars
    BY <1>1, <2>1 DEF vars, ToursInv, TypeOK, Bounded, Bound, Below, FreshKnows, At,
                      ListsWithinLimit, ServedInOrder, TokensDistinct
  <2>2. CASE Next
    BY <1>1, <2>2, TourStep, OpenStep, WriteStep, KillStep, SetPresetStep, RunSetPresetStep,
       LastStep, RemovePresetStep, GotoPresetStep DEF Next
  <2> QED
    BY <1>1, <2>1, <2>2
<1> QED
  BY InitToursInv, <1>1, PTL DEF Spec

(* The variables keep their types. *)
THEOREM TypeCorrect == Spec => []TypeOK
<1>1. ToursInv => TypeOK
  BY DEF ToursInv
<1> QED
  BY <1>1, ToursInvHolds, PTL

(* Checking the loaded list against max_preset_tours is enough, although   *)
(* no process holds a lock between the check and the writing, unless two   *)
(* processes had the file open at once and one wrote over the other's      *)
(* text: else the file never has more tours than the limit.                *)
THEOREM LimitHolds == Spec => []ToursWithinLimit
<1>1. ToursInv => ToursWithinLimit
  BY DEF ToursInv, ListsWithinLimit, ToursWithinLimit
<1> QED
  BY <1>1, ToursInvHolds, PTL

(* As long as no writer was killed and none wrote what another's writing   *)
(* had made old, the file is what the requests make one after the other.   *)
THEOREM RequestsAreServedInOrder == Spec => []ServedInOrder
<1>1. ToursInv => ServedInOrder
  BY DEF ToursInv
<1> QED
  BY <1>1, ToursInvHolds, PTL

(* As long as that is so, a token stands for one tour: next_tour_number is *)
(* above every token in the list.                                          *)
THEOREM TokensAreDistinct == Spec => []TokensDistinct
<1>1. ToursInv => TokensDistinct
  BY DEF ToursInv
<1> QED
  BY <1>1, ToursInvHolds, PTL

-----------------------------------------------------------------------------
(* Presets.  While no two requests got in each other's way, a SetPreset    *)
(* that nobody disturbed still sees the presets it listed, and after its   *)
(* command at most the preset it stored is new.                            *)

SetReady(p) ==
  LET ask == req[p].ask IN
  /\ ask.token \in Numbers \cup {0} /\ ask.name \in Names
  /\ ask.token # 0 => ask.token \in Stored
  /\ Named(ask.name) \subseteq {ask.token}
  /\ req[p].listed = Stored

Placed(p) ==
  LET ask == req[p].ask IN
  /\ ask.token # 0 => Named(ask.name) = {ask.token}
  /\ ask.token = 0 =>
       \/ Named(ask.name) = {} /\ Stored = req[p].listed
       \/ \E n \in Numbers \ req[p].listed :
            Named(ask.name) = {n} /\ Stored = req[p].listed \cup {n}

Undisturbed ==
  "presets" \notin spoiled =>
    \A p \in Procs : req[p].fresh =>
      /\ req[p].step = "set" => SetReady(p)
      /\ req[p].step = "relist" => Placed(p)

PresetInv == NamesDistinct /\ Undisturbed

\* What the invariant says of one process.
LEMMA UndisturbedOne ==
  ASSUME PresetInv, "presets" \notin spoiled, NEW p \in Procs, req[p].fresh
  PROVE  (req[p].step = "set" => SetReady(p)) /\ (req[p].step = "relist" => Placed(p))
BY DEF PresetInv, Undisturbed

\* A step that leaves the presets alone, and starts no SetPreset.
LEMMA PresetsKept ==
  ASSUME PresetInv, presets' = presets, "presets" \in spoiled => "presets" \in spoiled',
         \A q \in Procs : req'[q].fresh /\ req'[q].step \in {"set", "relist"}
                          => req'[q] = req[q]
  PROVE  PresetInv'
<1>1. NamesDistinct'
  BY DEF PresetInv, NamesDistinct, Stored
<1>2. Undisturbed'
  BY DEF PresetInv, Undisturbed, SetReady, Placed, Stored, Named
<1> QED
  BY <1>1, <1>2 DEF PresetInv

LEMMA InitPresetInv == Init => PresetInv
<1> SUFFICES ASSUME Init PROVE PresetInv
  OBVIOUS
<1>1. NamesDistinct
  BY DEF Init, NamesDistinct
<1>2. \A p \in Procs : req[p].step = "idle"
  BY DEF Init, Idle
<1> QED
  BY <1>1, <1>2 DEF PresetInv, Undisturbed

\* Requests on tours, killed processes and the ends of requests.
LEMMA OtherPresetInv ==
  ASSUME TypeOK, PresetInv, NEW p \in Procs,
         \/ CreatePresetTour(p) \/ ModifyPresetTour(p)
         \/ OperatePresetTour(p) \/ RemovePresetTour(p)
         \/ OpenTours(p) \/ WriteTours(p) \/ RelistPresets(p)
         \/ GotoPreset(p) \/ RunMovePreset(p) \/ Kill(p)
  PROVE  PresetInv'
<1>0. req \in [Procs -> Local] /\ Idle.step = "idle"
  BY DEF TypeOK, Idle
<1>1. ASSUME NEW to, to.step \notin {"set", "relist"},
             req' = req \/ req' = [req EXCEPT ![p] = to],
             presets' = presets, "presets" \in spoiled => "presets" \in spoiled'
      PROVE  PresetInv'
  BY <1>0, <1>1, PresetsKept
<1>2. ASSUME NEW ask, LoadTours(p, ask) PROVE PresetInv'
  <2> DEFINE to == [Idle EXCEPT !.step = "open", !.ask = ask, !.tours = Changed(ask, file),
                                !.fresh = At("write") = {}]
  <2>1. to.step = "open"
    BY DEF Idle
  <2>2. req' = req \/ req' = [req EXCEPT ![p] = to]
    BY <1>2 DEF LoadTours
  <2>3. presets' = presets /\ spoiled' = spoiled
    BY <1>2 DEF LoadTours
  <2> HIDE DEF to
  <2> QED
    BY <1>1, <2>1, <2>2, <2>3
<1>3. ASSUME OpenTours(p) PROVE PresetInv'
  <2> DEFINE to == [req[p] EXCEPT !.step = "write"]
  <2>1. to \in Local /\ to.step = "write"
    BY <1>0 DEF Local
  <2>2. req' = Moved(p, TourSteps, to) /\ presets' = presets /\ spoiled' = spoiled
    BY <1>3 DEF OpenTours
  <2> HIDE DEF to
  <2>3. \A q \in Procs \ {p} : req'[q].step = req[q].step
                              /\ (req[q].step \notin TourSteps => req'[q] = req[q])
    BY <2>1, <2>2, MovedTyped
  <2>4. req'[p] = to
    BY <2>1, <2>2, MovedTyped
  <2>5. \A q \in Procs : req'[q].fresh /\ req'[q].step \in {"set", "relist"}
                         => req'[q] = req[q]
    BY <2>1, <2>3, <2>4 DEF TourSteps
  <2> QED
    BY <2>2, <2>5, PresetsKept
<1>4. ASSUME WriteTours(p) \/ RelistPresets(p) \/ RunMovePreset(p) \/ Kill(p)
      PROVE  PresetInv'
  <2>1. /\ req' = [req EXCEPT ![p] = Idle] /\ presets' = presets
        /\ "presets" \in spoiled => "presets" \in spoiled'
    BY <1>4 DEF WriteTours, RelistPresets, RunMovePreset, Kill
  <2> QED
    BY <1>0, <1>1, <2>1
<1>5. ASSUME GotoPreset(p) PROVE PresetInv'
  <2>1. PICK n \in Numbers :
          \/ req' = req
          \/ req' = [req EXCEPT ![p] = [Idle EXCEPT !.step = "move",
                                          !.ask = Request("GotoPreset", n, NoName, "Stop")]]
    BY <1>5 DEF GotoPreset
  <2> DEFINE to == [Idle EXCEPT !.step = "move",
                                !.ask = Request("GotoPreset", n, NoName, "Stop")]
  <2>2. to.step = "move" /\ presets' = presets /\ spoiled' = spoiled
    BY <1>5 DEF Idle, GotoPreset
  <2>3. req' = req \/ req' = [req EXCEPT ![p] = to]
    BY <2>1
  <2> HIDE DEF to
  <2> QED
    BY <1>1, <2>2, <2>3
<1> QED
  BY <1>2, <1>3, <1>4, <1>5 DEF CreatePresetTour, ModifyPresetTour, OperatePresetTour,
                               RemovePresetTour

LEMMA SetPresetInv ==
  ASSUME TypeOK, PresetInv, NEW p \in Procs, SetPreset(p)
  PROVE  PresetInv'
<1>0. /\ req \in [Procs -> Local] /\ presets' = presets /\ spoiled' = spoiled
      /\ presets \in [Numbers -> NameOrNone]
  BY DEF TypeOK, SetPreset
<1>1. CASE req' = req
  BY <1>0, <1>1, PresetsKept
<1>2. CASE req' # req
  <2>1. PICK token \in Numbers \cup {0}, given \in NameOrNone :
          LET name == IF token \in Stored /\ given = NoName THEN presets[token] ELSE given
          IN /\ token = 0 => given # NoName
             /\ ~ ((token # 0 /\ token \notin Stored) \/ Named(name) \ {token} # {})
             /\ req' = [req EXCEPT ![p] =
                          [Idle EXCEPT !.step = "set", !.listed = Stored,
                                       !.ask = Request("SetPreset", token, name, "Stop")]]
    BY <1>2, Zenon DEF SetPreset
  <2> DEFINE name == IF token \in Stored /\ given = NoName THEN presets[token] ELSE given
             to == [Idle EXCEPT !.step = "set", !.listed = Stored,
                                !.ask = Request("SetPreset", token, name, "Stop")]
  <2>2. token # 0 => token \in Stored
    BY <2>1
  <2>3. Named(name) \subseteq {token}
    BY <2>1
  <2>4. name \in Names
    BY <1>0, <2>1, <2>2 DEF NameOrNone, Stored
  <2>5. req'[p] = to /\ \A q \in Procs \ {p} : req'[q] = req[q]
    BY <1>0, <2>1
  <2> HIDE DEF name
  <2>6. to.step = "set" /\ to.listed = Stored /\ to.ask.token = token /\ to.ask.name = name
    BY DEF Idle, Request
  <2> HIDE DEF to
  <2>7. SetReady(p)'
    BY <1>0, <2>2, <2>3, <2>4, <2>5, <2>6 DEF SetReady, Stored, Named
  <2>8. NamesDistinct'
    BY <1>0 DEF PresetInv, NamesDistinct, Stored
  <2>9. Undisturbed'
    <3> SUFFICES ASSUME "presets" \notin spoiled, NEW q \in Procs, req'[q].fresh
                 PROVE  /\ req'[q].step = "set" => SetReady(q)'
                        /\ req'[q].step = "relist" => Placed(q)'
      BY <1>0 DEF Undisturbed
    <3>2. CASE q = p
      BY <3>2, <2>5, <2>6, <2>7
    <3>3. CASE q # p
      <4>1. q \in Procs \ {p} /\ req'[q] = req[q]
        BY <3>3, <2>5
      <4>2. /\ req[q].step = "set" => SetReady(q)
            /\ req[q].step = "relist" => Placed(q)
        BY <4>1, UndisturbedOne
      <4> QED
        BY <1>0, <4>1, <4>2 DEF SetReady, Placed, Stored, Named
    <3> QED
      BY <3>2, <3>3
  <2> QED
    BY <2>8, <2>9 DEF PresetInv
<1> QED
  BY <1>1, <1>2

\* Where the other processes no longer know the presets, they are spoiled
\* for every SetPreset but that of p.
LEMMA MovedPresets ==
  ASSUME TypeOK, NEW p \in Procs, NEW to \in Local, req' = Moved(p, PresetSteps, to),
         NamesDistinct',
         "presets" \notin spoiled' /\ to.fresh =>
           /\ to.step = "set" => SetReady(p)'
           /\ to.step = "relist" => Placed(p)'
  PROVE  PresetInv'
<1>1. req'[p] = to
  BY DEF Moved
<1>2. ASSUME NEW q \in Procs \ {p}
      PROVE  ~ (req'[q].fresh /\ req'[q].step \in {"set", "relist"})
  <2>1. req[q] \in Local
    BY DEF TypeOK
  <2>2. CASE req[q].step \in PresetSteps
    <3>1. req'[q] = [req[q] EXCEPT !.fresh = FALSE]
      BY <2>2 DEF Moved
    <3> QED
      BY <2>1, <3>1 DEF Local
  <2>3. CASE req[q].step \notin PresetSteps
    <3>1. req'[q] = req[q]
      BY <2>3 DEF Moved
    <3> QED
      BY <2>3, <3>1 DEF PresetSteps
  <2> QED
    BY <2>2, <2>3
<1>3. Undisturbed'
  <2> SUFFICES ASSUME "presets" \notin spoiled', NEW q \in Procs, req'[q].fresh
               PROVE  /\ req'[q].step = "set" => SetReady(q)'
                      /\ req'[q].step = "relist" => Placed(q)'
    BY DEF Undisturbed
  <2>1. CASE q = p
    BY <2>1, <1>1
  <2>2. CASE q # p
    BY <2>2, <1>2
  <2> QED
    BY <2>1, <2>2
<1> QED
  BY <1>3 DEF PresetInv

LEMMA RemovePresetInv ==
  ASSUME TypeOK, PresetInv, NEW p \in Procs, RemovePreset(p)
  PROVE  PresetInv'
<1>1. /\ req[p] \in Local /\ req[p].step = "idle" /\ presets \in [Numbers -> NameOrNone]
      /\ req' = Moved(p, PresetSteps, req[p]) /\ spoiled' = spoiled
  BY DEF TypeOK, RemovePreset, Asked
<1>2. PICK n \in Numbers : presets' = [presets EXCEPT ![n] = NoName]
  BY DEF RemovePreset
<1>3. \A m \in Stored' : m \in Stored /\ presets'[m] = presets[m]
  BY <1>1, <1>2 DEF Stored
<1>4. NamesDistinct'
  BY <1>1, <1>3 DEF PresetInv, NamesDistinct
<1> QED
  BY <1>1, <1>4, MovedPresets

LEMMA RunSetPresetInv ==
  ASSUME TypeOK, PresetInv, NEW p \in Procs, RunSetPreset(p)
  PROVE  PresetInv'
<1>0. PICK me \in Local : me = req[p]
  BY DEF TypeOK
<1> DEFINE ask == me.ask
           to == [me EXCEPT !.step = "relist"]
           places == IF ask.token = 0 THEN Numbers \ Stored ELSE {ask.token}
<1>1. /\ me.step = "set" /\ presets \in [Numbers -> NameOrNone]
      /\ req' = Moved(p, PresetSteps, to)
      /\ spoiled' = IF me.fresh THEN spoiled ELSE spoiled \cup {"presets"}
      /\ IF places = {} THEN presets' = presets
         ELSE \E n \in places : presets' = [presets EXCEPT ![n] = ask.name]
  BY <1>0 DEF TypeOK, RunSetPreset
<1>2. /\ to \in Local /\ to.step = "relist" /\ to.fresh = me.fresh
      /\ to.ask = ask /\ to.listed = me.listed /\ req'[p] = to
  BY <1>1 DEF Local, Moved
<1> HIDE DEF to, ask
<1>3. ASSUME "presets" \in spoiled' PROVE PresetInv'
  BY <1>1, <1>2, <1>3, MovedPresets DEF NamesDistinct
<1>4. ASSUME "presets" \notin spoiled' PROVE PresetInv'
  <2>1. /\ NamesDistinct /\ "presets" \notin spoiled
        /\ ask.token \in Numbers \cup {0} /\ ask.name \in Names
        /\ ask.token # 0 => ask.token \in Stored
        /\ Named(ask.name) \subseteq {ask.token} /\ me.listed = Stored
    <3>1. me.fresh /\ "presets" \notin spoiled
      BY <1>1, <1>4
    <3>2. SetReady(p)
      BY <1>0, <1>1, <3>1, UndisturbedOne
    <3> QED
      BY <1>0, <3>1, <3>2 DEF PresetInv, SetReady, ask
  <2>2. ask.name # NoName /\ 0 \notin Numbers
    BY <2>1, StoreAssumption
  <2>3. CASE places = {}
    <3>1. presets' = presets /\ ask.token = 0 /\ Named(ask.name) = {}
      BY <1>1, <2>1, <2>2, <2>3 DEF Named
    <3>2. NamesDistinct' /\ Named(ask.name)' = {} /\ Stored' = Stored
      BY <2>1, <3>1 DEF NamesDistinct, Named, Stored
    <3>3. Placed(p)'
      BY <1>2, <2>1, <3>1, <3>2 DEF Placed
    <3> QED
      BY <1>1, <1>2, <3>2, <3>3, MovedPresets
  <2>4. CASE places # {}
    <3>1. PICK n \in places : presets' = [presets EXCEPT ![n] = ask.name]
      BY <1>1, <2>4
    <3>2. n \in Numbers /\ (IF ask.token = 0 THEN n \notin Stored ELSE n = ask.token)
      BY <2>1, <3>1
    <3>3. \A m \in Numbers : presets'[m] = IF m = n THEN ask.name ELSE presets[m]
      BY <1>1, <3>1, <3>2
    <3>4. Stored' = Stored \cup {n}
      BY <2>2, <3>2, <3>3 DEF Stored
    <3>5. \A m \in Numbers : presets[m] = ask.name => m = ask.token
      BY <2>1 DEF Named
    <3>6. {m \in Numbers : presets'[m] = ask.name} = {n}
      BY <2>2, <3>2, <3>3, <3>5
    <3>7. NamesDistinct'
      BY <2>1, <2>2, <3>2, <3>3, <3>4, <3>5 DEF NamesDistinct, Stored
    <3>8. Placed(p)'
      <4>1. req'[p].ask = ask /\ req'[p].listed = Stored
        BY <1>2, <2>1
      <4>2. Named(ask.name)' = {n}
        BY <3>6 DEF Named
      <4>3. CASE ask.token = 0
        <5>1. n \in Numbers \ Stored
          BY <3>2, <4>3
        <5> QED
          BY <3>4, <4>1, <4>2, <4>3, <5>1 DEF Placed
      <4>4. CASE ask.token # 0
        BY <3>2, <4>1, <4>2, <4>4 DEF Placed
      <4> QED
        BY <4>3, <4>4
    <3> QED
      BY <1>1, <1>2, <3>7, <3>8, MovedPresets
  <2> QED
    BY <2>3, <2>4
<1> QED
  BY <1>3, <1>4

LEMMA PresetInvHolds == Spec => []PresetInv
<1>1. ASSUME TypeOK, PresetInv, [Next]_vars PROVE PresetInv'
  <2>1. CASE UNCHANGED vars
    BY <1>1, <2>1, PresetsKept DEF vars
  <2>2. CASE Next
    BY <1>1, <2>2, OtherPresetInv, SetPresetInv, RunSetPresetInv, RemovePresetInv DEF Next
  <2> QED
    BY <1>1, <2>1, <2>2
<1> QED
  BY InitPresetInv, <1>1, TypeCorrect, PTL DEF Spec

(* As long as no set_preset command runs on a list that another process    *)
(* has made old, a name stands for one preset.                             *)
THEOREM NamesAreDistinct == Spec => []NamesDistinct
<1>1. PresetInv => NamesDistinct
  BY DEF PresetInv
<1> QED
  BY <1>1, PresetInvHolds, PTL

(* As long as that is so, comparing the number of presets before and after *)
(* the command tells whether it stored one, and the client gets the token  *)
(* of the preset it stored.                                                *)
THEOREM SetPresetAnswersRight == Spec => []AnswersRight
<1>1. ASSUME TypeOK, PresetInv PROVE AnswersRight
  <2> SUFFICES ASSUME NEW p \in At("relist"), req[p].fresh, "presets" \notin spoiled
               PROVE  LET new == Named(req[p].ask.name) IN
                      IF req[p].ask.token # 0 THEN Answers(p) = {req[p].ask.token}
                      ELSE /\ TooManyPresets(p) <=> new = {}
                           /\ new \cap req[p].listed = {}
                           /\ ~ TooManyPresets(p) => Answers(p) = new /\ Cardinality(new) = 1
    BY DEF AnswersRight
  <2>1. Placed(p) /\ req[p].listed \subseteq Numbers
    BY <1>1 DEF PresetInv, Undisturbed, At, TypeOK, Local
  <2>2. IsFiniteSet(req[p].listed)
    BY <2>1, StoreAssumption, FS_Subset
  <2>3. CASE req[p].ask.token # 0
    BY <2>1, <2>3 DEF Placed, Answers
  <2>4. CASE req[p].ask.token = 0 /\ Named(req[p].ask.name) = {}
    BY <2>1, <2>4 DEF Placed, TooManyPresets
  <2>5. CASE req[p].ask.token = 0 /\ Named(req[p].ask.name) # {}
    <3>1. PICK n \in Numbers \ req[p].listed :
            Named(req[p].ask.name) = {n} /\ Stored = req[p].listed \cup {n}
      BY <2>1, <2>5 DEF Placed
    <3>2. /\ Cardinality(Stored) = Cardinality(req[p].listed) + 1
          /\ Cardinality(req[p].listed) \in Nat
      BY <2>2, <3>1, FS_AddElement, FS_CardinalityType
    <3>3. Cardinality({n}) = 1
      BY FS_Singleton
    <3> QED
      BY <2>5, <3>1, <3>2, <3>3 DEF TooManyPresets, Answers
  <2> QED
    BY <2>3, <2>4, <2>5
<1> QED
  BY <1>1, PresetInvHolds, TypeCorrect, PTL
=============================================================================
