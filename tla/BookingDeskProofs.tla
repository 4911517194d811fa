-------------------------- MODULE BookingDeskProofs --------------------------
(***************************************************************************)
(* Theorems of BookingDesk, for any venues, periods, days and bounds: what *)
(* a form holds, or lets through its own rules, is always judged by the    *)
(* answer of the key it shows, never by that of a key it has left.         *)
(***************************************************************************)
EXTENDS BookingDesk, SequenceTheorems, TLAPS

\* TypeOK in parts: the view and its chart, the query, and each form.
PageOK == /\ page \in {"chart", "venue", "equipment", "room"}
          /\ chart \in [view : {"day", "venue", "usage"}, day : Days, venue : Venues \cup {None}, start : Int]
          /\ chart.view = "venue" => chart.venue \in Venues
QueryOK == /\ known \in BOOLEAN
           /\ IF known THEN answer \in Answers(Key) ELSE answer = None
           /\ prior # None => prior.answer \in Answers(prior.key)
           /\ failed \in BOOLEAN
LoanType == [range : {None} \cup Days, item : BOOLEAN, qty : Nat, from : {None} \cup Days, link : BOOLEAN]
LoanOK == loan \in LoanType
RoomOK == room \in [venue : {None} \cup Venues, slots : SUBSET Periods, drag : {None} \cup BOOLEAN]
RowsOK == rows \in Seq(RowType) /\ fresh \in Nat /\ marks \subseteq Nat
ClockOK == clock \in 0 .. LastPeriod /\ shown \in 0 .. clock

\* What was sent belongs to the page that waits for it; rows that were sent are rows.
FlightOK == flight # None => /\ page = flight.kind
                             /\ flight.kind = "venue" => flight.rows \in Seq(RowType)

\* An item stands in the equipment form without an answer only while the page shows
\* the list of the range before, which disables the quantity, emptied with the range.
LoanInv == /\ loan.item => page = "equipment"
           /\ loan.item /\ ~known => prior # None /\ ~failed /\ loan.qty = 0

\* Away from the venue form its rows have no date, and the form has no query that could fail.
RowsInv == /\ BegunIsPruned
           /\ page # "venue" => \A i \in DOMAIN rows : rows[i].date = None
           /\ page = "venue" => ~failed

Inv == /\ PageOK /\ QueryOK /\ LoanOK /\ RoomOK /\ RowsOK /\ ClockOK
       /\ FlightOK /\ LoanInv /\ SlotsAreFree /\ RowsInv

NoKey == <<"none", None, None>>

-----------------------------------------------------------------------------
(* Days, keys and answers. *)

LEMMA Bounds ==
  /\ None \notin Days /\ None # Today /\ Today \in Days /\ Days \subseteq Nat
  /\ Today .. LastDay \subseteq Days /\ None \notin Venues /\ Periods \subseteq Nat
BY DeskAssumption DEF Days, Periods

LEMMA EquipmentAnswers ==
  ASSUME NEW range
  PROVE  Answers(LoanKey(range)) = IF range \in Days THEN 0 .. Stock ELSE {}
BY DEF Answers, LoanKey

LEMMA OccupancyAnswers ==
  ASSUME NEW venue
  PROVE  Answers(RoomKey(venue)) = IF venue \in Venues THEN SUBSET Periods ELSE {}
BY DEF Answers, RoomKey

LEMMA NoAnswers == Answers(NoKey) = {}
BY DEF Answers, NoKey

\* The key of each page.
LEMMA Keys ==
  /\ page = "chart" => Key = ChartKey(chart)
  /\ page = "equipment" => Key = LoanKey(loan.range)
  /\ page = "room" => Key = RoomKey(room.venue)
  /\ page = "venue" => Key = NoKey
BY DEF Key, NoKey

\* The venue form has no answer.
LEMMA VenueIsUnknown ==
  ASSUME QueryOK, page = "venue"
  PROVE  ~known
BY Keys, NoAnswers DEF QueryOK

-----------------------------------------------------------------------------
(* The query through a change of its key. *)

\* The query fits the key given, whatever the page shows.
Fits(key, k, a, p, f) == /\ k \in BOOLEAN
                         /\ IF k THEN a \in Answers(key) ELSE a = None
                         /\ p # None => p.answer \in Answers(p.key)
                         /\ f \in BOOLEAN

LEMMA QueryFits == QueryOK <=> Fits(Key, known, answer, prior, failed)
BY DEF QueryOK, Fits

LEMMA CachedFits ==
  ASSUME NEW key, Cached(key), prior' # None => prior'.answer \in Answers(prior'.key)
  PROVE  Fits(key, known', answer', prior', failed') /\ failed' = FALSE
BY DEF Cached, Fits

LEMMA RekeyFits ==
  ASSUME NEW key, QueryOK, Rekey(key)
  PROVE  /\ Fits(key, known', answer', prior', failed')
         /\ failed' = FALSE
         /\ prior' = IF known /\ Keeps(Key) THEN [key |-> Key, answer |-> answer] ELSE prior
<1>1. prior' # None => prior'.answer \in Answers(prior'.key)
  BY DEF QueryOK, Rekey
<1>2. QED
  BY <1>1, CachedFits DEF Rekey

LEMMA MountFits ==
  ASSUME NEW key, Mount(key)
  PROVE  Fits(key, known', answer', prior', failed') /\ failed' = FALSE
BY CachedFits DEF Mount

LEMMA ResumeFits ==
  ASSUME NEW key, Resume(key)
  PROVE  Fits(key, known', answer', prior', failed') /\ failed' = FALSE
<1>1. prior' # None => prior'.answer \in Answers(prior'.key)
  BY DEF Resume
<1>2. QED
  BY <1>1, CachedFits DEF Resume

-----------------------------------------------------------------------------
(* The rows of the venue form. *)

LEMMA BlankRow ==
  ASSUME NEW k \in Nat
  PROVE  Blank(k) \in RowType /\ Blank(k).date = None
BY DEF Blank, RowType

\* A form of one row without a date.
LEMMA BlankRows ==
  ASSUME NEW k \in Nat
  PROVE  <<Blank(k)>> \in Seq(RowType) /\ \A i \in DOMAIN <<Blank(k)>> : <<Blank(k)>>[i].date = None
BY BlankRow

\* What has begun is out of today's rows, and the rows are still rows.
LEMMA PrunedRows ==
  ASSUME NEW rs \in Seq(RowType), NEW n \in Nat
  PROVE  /\ Pruned(rs, n) \in Seq(RowType)
         /\ \A i \in DOMAIN Pruned(rs, n) :
                Pruned(rs, n)[i].date = Today => Pruned(rs, n)[i].periods \cap (1 .. n) = {}
         /\ \A i \in DOMAIN Pruned(rs, n) : i \in DOMAIN rs /\ Pruned(rs, n)[i].date = rs[i].date
<1>. DEFINE p == Pruned(rs, n)
<1>1. DOMAIN rs = 1 .. Len(rs) /\ Len(rs) \in Nat /\ \A i \in 1 .. Len(rs) : rs[i] \in RowType
  OBVIOUS
<1>2. p = [i \in 1 .. Len(rs) |-> IF rs[i].date = Today THEN [rs[i] EXCEPT !.periods = @ \ (1 .. n)] ELSE rs[i]]
  BY <1>1 DEF Pruned
<1>3. \A i \in 1 .. Len(rs) : p[i] \in RowType /\ p[i].date = rs[i].date
  BY <1>1, <1>2 DEF RowType
<1>4. \A i \in 1 .. Len(rs) : p[i].date = Today => p[i].periods \cap (1 .. n) = {}
  BY <1>1, <1>2 DEF RowType
<1>5. p \in Seq(RowType)
  BY <1>1, <1>2, <1>3
<1>6. DOMAIN p = 1 .. Len(rs)
  BY <1>2
<1>7. QED
  BY <1>1, <1>3, <1>4, <1>5, <1>6

LEMMA InsertRow ==
  ASSUME NEW rs \in Seq(RowType), NEW i \in 1 .. Len(rs), NEW r \in RowType
  PROVE  InsertAt(rs, i + 1, r) \in Seq(RowType)
<1>1. SubSeq(rs, 1, (i + 1) - 1) \in Seq(RowType) /\ SubSeq(rs, i + 1, Len(rs)) \in Seq(RowType)
  BY SubSeqProperties, ElementOfSeq, LenProperties
<1>2. <<r>> \in Seq(RowType)
  OBVIOUS
<1>3. QED
  BY <1>1, <1>2, ConcatProperties DEF InsertAt

LEMMA RemoveRow ==
  ASSUME NEW rs \in Seq(RowType), NEW i \in 1 .. Len(rs)
  PROVE  RemoveAt(rs, i) \in Seq(RowType)
<1>1. SubSeq(rs, 1, i - 1) \in Seq(RowType) /\ SubSeq(rs, i + 1, Len(rs)) \in Seq(RowType)
  BY SubSeqProperties, ElementOfSeq, LenProperties
<1>2. QED
  BY <1>1, ConcatProperties DEF RemoveAt

-----------------------------------------------------------------------------
(* The effect of a list on the equipment form. *)

LEMMA CheckedLoan ==
  ASSUME NEW l \in LoanType, NEW left
  PROVE  /\ Checked(l, left) \in LoanType
         /\ Checked(l, left).range = l.range
BY DEF Checked, LoanType

-----------------------------------------------------------------------------
(* What a step keeps of the parts it does not touch, page by page. *)

LEMMA RedrawClock ==
  ASSUME ClockOK, Redraw
  PROVE  ClockOK' /\ clock \in Nat /\ shown' = clock
BY DEF ClockOK, Redraw

\* A query that neither changes nor has its key changed.
LEMMA SameQuery ==
  ASSUME QueryOK, UNCHANGED queryVars, Key' = Key
  PROVE  QueryOK'
BY QueryFits DEF queryVars, QueryOK

LEMMA ChartPageStep ==
  ASSUME Inv, OnChart, PageOK', Fits(ChartKey(chart'), known', answer', prior', failed')
  PROVE  Inv'
<1>. USE DEF Inv, OnChart
<1>1. QueryOK'
  <2>1. Key' = ChartKey(chart')
    BY DEF Key
  <2>2. QED
    BY <2>1 DEF QueryOK, Fits
<1>2. LoanOK' /\ RoomOK' /\ RowsOK' /\ LoanInv' /\ SlotsAreFree'
  BY DEF formVars, venueVars, LoanOK, LoanType, RoomOK, RowsOK, LoanInv, SlotsAreFree
<1>3. ClockOK'
  BY RedrawClock
<1>4. FlightOK'
  BY DEF FlightOK
<1>5. RowsInv'
  BY Bounds DEF formVars, venueVars, RowsInv, BegunIsPruned
<1>6. QED
  BY <1>1, <1>2, <1>3, <1>4, <1>5

LEMMA VenuePageStep ==
  ASSUME Inv, OnVenue, NEW rs \in Seq(RowType), rows' = Pruned(rs, clock), fresh' \in Nat, marks' \subseteq Nat, FlightOK'
  PROVE  Inv'
<1>. USE DEF Inv, OnVenue
<1>1. PageOK' /\ LoanOK' /\ RoomOK' /\ LoanInv' /\ SlotsAreFree'
  BY DEF queryVars, PageOK, LoanOK, LoanType, RoomOK, LoanInv, SlotsAreFree
<1>2. QueryOK'
  <2>1. Key' = Key
    BY DEF Key
  <2>2. QED
    BY <2>1, SameQuery
<1>3. ClockOK' /\ clock \in Nat /\ shown' = clock
  BY RedrawClock
<1>4. RowsOK'
  BY <1>3, PrunedRows DEF RowsOK
<1>5. RowsInv'
  BY <1>3, PrunedRows DEF RowsInv, BegunIsPruned, queryVars
<1>6. QED
  BY <1>1, <1>2, <1>3, <1>4, <1>5

LEMMA LoanPageStep ==
  ASSUME Inv, OnLoan, LoanOK', Fits(LoanKey(loan'.range), known', answer', prior', failed'), FlightOK', LoanInv'
  PROVE  Inv'
<1>. USE DEF Inv, OnLoan
<1>1. PageOK' /\ RoomOK' /\ RowsOK' /\ SlotsAreFree'
  BY DEF venueVars, PageOK, RoomOK, RowsOK, SlotsAreFree
<1>2. QueryOK'
  <2>1. Key' = LoanKey(loan'.range)
    BY DEF Key
  <2>2. QED
    BY <2>1 DEF QueryOK, Fits
<1>3. ClockOK'
  BY RedrawClock
<1>4. RowsInv'
  BY Bounds DEF venueVars, RowsInv, BegunIsPruned
<1>5. QED
  BY <1>1, <1>2, <1>3, <1>4

LEMMA RoomPageStep ==
  ASSUME Inv, OnRoom, RoomOK', Fits(RoomKey(room'.venue), known', answer', prior', failed'), FlightOK', SlotsAreFree'
  PROVE  Inv'
<1>. USE DEF Inv, OnRoom
<1>1. PageOK' /\ LoanOK' /\ RowsOK' /\ LoanInv'
  BY DEF venueVars, PageOK, LoanOK, LoanType, RowsOK, LoanInv
<1>2. QueryOK'
  <2>1. Key' = RoomKey(room'.venue)
    BY DEF Key
  <2>2. QED
    BY <2>1 DEF QueryOK, Fits
<1>3. ClockOK'
  BY RedrawClock
<1>4. RowsInv'
  BY Bounds DEF venueVars, RowsInv, BegunIsPruned
<1>5. QED
  BY <1>1, <1>2, <1>3, <1>4

-----------------------------------------------------------------------------
(* Pages. *)

LEMMA InitInv == Init => Inv
<1>. SUFFICES ASSUME Init PROVE Inv
  OBVIOUS
<1>. USE DEF Init
<1>1. PageOK
  BY Bounds DEF PageOK, NoChart
<1>2. QueryOK
  BY DEF QueryOK
<1>3. LoanOK /\ RoomOK
  BY DEF LoanOK, LoanType, RoomOK, NoLoan, NoRoom
<1>4. RowsOK /\ RowsInv
  BY BlankRows, Bounds DEF RowsOK, RowsInv, BegunIsPruned
<1>5. ClockOK
  BY DeskAssumption DEF ClockOK
<1>6. FlightOK /\ LoanInv /\ SlotsAreFree
  BY DEF FlightOK, LoanInv, SlotsAreFree, NoLoan
<1>7. QED
  BY <1>1, <1>2, <1>3, <1>4, <1>5, <1>6 DEF Inv

\* A page that opens starts over.
LEMMA OpenStep ==
  ASSUME Inv, NEW p \in {"chart", "venue", "equipment", "room"}, Open(p)
  PROVE  Inv'
<1>. DEFINE key == CASE p = "chart" -> ChartKey(NoChart)
                     [] p = "equipment" -> LoanKey(None)
                     [] p = "room" -> RoomKey(None)
                     [] OTHER -> <<"none", None, None>>
<1>1. Fits(key, known', answer', prior', failed') /\ failed' = FALSE
  BY MountFits DEF Open
<1>2. page' = p /\ Leave
  BY DEF Open
<1>. HIDE DEF key
<1>3. Key' = key
  BY <1>2 DEF Key, key, Leave, NoLoan, NoRoom
<1>4. PageOK'
  BY <1>2, Bounds DEF PageOK, Leave, NoChart
<1>5. QueryOK'
  BY <1>1, <1>3 DEF QueryOK, Fits
<1>6. LoanOK' /\ RoomOK'
  BY <1>2 DEF LoanOK, LoanType, RoomOK, Leave, NoLoan, NoRoom
<1>7. RowsOK' /\ RowsInv'
  BY <1>1, <1>2, BlankRows, Bounds DEF RowsOK, RowsInv, BegunIsPruned, Leave
<1>8. ClockOK'
  BY <1>2, RedrawClock DEF Inv, Leave
<1>9. FlightOK' /\ LoanInv' /\ SlotsAreFree'
  BY <1>2 DEF FlightOK, LoanInv, SlotsAreFree, Leave, NoLoan, NoRoom
<1>10. QED
  BY <1>4, <1>5, <1>6, <1>7, <1>8, <1>9 DEF Inv

\* A free cell opens the venue form; a period that has begun by then is not filled in.
LEMMA BookVenueStep ==
  ASSUME Inv, NEW e \in VenueEntries, BookVenue(e)
  PROVE  Inv'
<1>. USE DEF BookVenue
<1>1. Fits(NoKey, known', answer', prior', failed') /\ failed' = FALSE
  BY MountFits DEF NoKey
<1>2. e[2] \in Days /\ e[3] \in Periods
  <2>1. CASE e \in Venues \X {chart.day} \X Periods
    BY <2>1
  <2>2. CASE e \in {chart.venue} \X Covered(chart.start) \X Periods
    BY <2>2
  <2>3. QED
    BY <2>1, <2>2 DEF VenueEntries
<1>3. PageOK'
  BY Bounds DEF PageOK, NoChart
<1>4. QueryOK'
  <2>1. Key' = NoKey
    BY DEF Key, NoKey
  <2>2. QED
    BY <1>1, <2>1 DEF QueryOK, Fits
<1>5. LoanOK' /\ RoomOK' /\ LoanInv' /\ SlotsAreFree' /\ FlightOK'
  <2>1. page = "chart"
    BY DEF VenueEntries, ChartDrawn
  <2>2. QED
    BY <2>1 DEF Inv, LoanOK, LoanType, RoomOK, LoanInv, SlotsAreFree, FlightOK
<1>6. ClockOK' /\ clock \in Nat /\ shown' = clock
  BY RedrawClock DEF Inv
<1>7. RowsOK' /\ RowsInv'
  <2>. DEFINE row == [key |-> 0, date |-> e[2], periods |-> IF e[2] = Today /\ e[3] <= clock THEN {} ELSE {e[3]}]
  <2>1. row \in RowType
    BY <1>2 DEF RowType
  <2>2. row.date = Today => row.periods \cap (1 .. clock) = {}
    BY <1>2, <1>6, Bounds
  <2>3. rows' = <<row>>
    OBVIOUS
  <2>. HIDE DEF row
  <2>4. rows' \in Seq(RowType) /\ \A i \in DOMAIN rows' : rows'[i] = row
    BY <2>1, <2>3
  <2>5. QED
    BY <1>1, <1>6, <2>2, <2>4 DEF Inv, RowsOK, RowsInv, BegunIsPruned
<1>8. QED
  BY <1>3, <1>4, <1>5, <1>6, <1>7 DEF Inv

\* A day on which equipment is left opens the equipment form with the day, and with
\* the item as soon as the list of that day is there.
LEMMA BookEquipmentStep ==
  ASSUME Inv, NEW d \in Days, BookEquipment(d)
  PROVE  Inv'
<1>. USE DEF BookEquipment
<1>. DEFINE l == [NoLoan EXCEPT !.range = d, !.from = d, !.link = TRUE]
<1>1. Fits(LoanKey(d), known', answer', prior', failed') /\ failed' = FALSE
  BY MountFits
<1>2. page = "chart"
  BY DEF LoanEntries, ChartDrawn
<1>3. l \in LoanType
      /\ l.range = d /\ ~l.item
  BY DEF NoLoan, LoanType
<1>4. loan' = IF known' THEN Checked(l, answer') ELSE l
  OBVIOUS
<1>. HIDE DEF l
<1>5. LoanOK' /\ loan'.range = d /\ (~known' => ~loan'.item)
  BY <1>3, <1>4, CheckedLoan DEF LoanOK, LoanType
<1>6. PageOK'
  BY Bounds DEF PageOK, NoChart
<1>7. QueryOK'
  <2>1. Key' = LoanKey(d)
    BY <1>5 DEF Key
  <2>2. QED
    BY <1>1, <2>1 DEF QueryOK, Fits
<1>8. RoomOK' /\ RowsOK' /\ SlotsAreFree' /\ FlightOK'
  BY DEF Inv, RoomOK, RowsOK, SlotsAreFree, FlightOK, venueVars
<1>9. LoanInv'
  BY <1>5 DEF LoanInv
<1>10. ClockOK'
  BY RedrawClock DEF Inv
<1>11. RowsInv'
  BY <1>2, Bounds DEF Inv, RowsInv, BegunIsPruned, venueVars
<1>12. QED
  BY <1>5, <1>6, <1>7, <1>8, <1>9, <1>10, <1>11 DEF Inv

-----------------------------------------------------------------------------
(* The chart's controls. *)

LEMMA MoveDayStep ==
  ASSUME Inv, NEW d \in Days, MoveDay(d)
  PROVE  Inv'
<1>1. Fits(ChartKey(chart'), known', answer', prior', failed') /\ OnChart
  BY RekeyFits DEF Inv, MoveDay
<1>2. PageOK'
  BY DEF Inv, PageOK, MoveDay, OnChart
<1>3. QED
  BY <1>1, <1>2, ChartPageStep

LEMMA VenueChartStep ==
  ASSUME Inv, NEW v \in Venues, OpenVenue(v) \/ SwitchVenue(v)
  PROVE  Inv'
<1>1. Fits(ChartKey(chart'), known', answer', prior', failed') /\ OnChart
  BY RekeyFits, ResumeFits DEF Inv, OpenVenue, SwitchVenue
<1>2. PageOK'
  <2>1. chart.day - Before \in Int
    BY DeskAssumption DEF Inv, PageOK, Days
  <2>2. QED
    BY <2>1 DEF Inv, PageOK, OpenVenue, SwitchVenue, OnChart
<1>3. QED
  BY <1>1, <1>2, ChartPageStep

LEMMA MoveStartStep ==
  ASSUME Inv, NEW s \in Starts, MoveStart(s)
  PROVE  Inv'
<1>1. Fits(ChartKey(chart'), known', answer', prior', failed') /\ OnChart
  BY RekeyFits DEF Inv, MoveStart
<1>2. s \in Int
  BY DeskAssumption DEF Starts
<1>3. PageOK'
  BY <1>2 DEF Inv, PageOK, MoveStart, OnChart
<1>4. QED
  BY <1>1, <1>3, ChartPageStep

LEMMA SwitchViewStep ==
  ASSUME Inv, NEW w \in {"day", "usage"}, SwitchView(w)
  PROVE  Inv'
<1>1. Fits(ChartKey(chart'), known', answer', prior', failed') /\ OnChart
  BY ResumeFits DEF SwitchView
<1>2. PageOK'
  <2>1. Today \in Int
    BY Bounds
  <2>2. QED
    BY <2>1 DEF Inv, PageOK, SwitchView, OnChart
<1>3. QED
  BY <1>1, <1>2, ChartPageStep

-----------------------------------------------------------------------------
(* Answers, which arrive on any page that has a query. *)

LEMMA AnswerStep ==
  ASSUME Inv, NEW a \in Answers(Key), Answer(a)
  PROVE  Inv'
<1>. USE DEF Answer
<1>1. page # "venue"
  BY Keys, NoAnswers
<1>2. PageOK' /\ RowsOK' /\ ClockOK'
  BY RedrawClock DEF Inv, PageOK, RowsOK, venueVars
<1>3. LoanOK' /\ loan'.range = loan.range
  BY CheckedLoan DEF Inv, LoanOK, LoanType
<1>4. RoomOK' /\ room'.venue = room.venue
  BY DEF Inv, RoomOK
<1>5. QueryOK'
  <2>1. Key' = Key
    BY <1>3, <1>4 DEF Key
  <2>2. QED
    BY <2>1 DEF Inv, QueryOK
<1>6. FlightOK'
  BY DEF Inv, FlightOK
<1>7. LoanInv'
  <2>1. loan'.item => page = "equipment"
    BY DEF Inv, LoanInv
  <2>2. QED
    BY <2>1 DEF LoanInv
<1>8. SlotsAreFree'
  BY DEF Inv, RoomOK, SlotsAreFree
<1>9. RowsInv'
  BY <1>1, Bounds DEF Inv, RowsInv, BegunIsPruned, venueVars
<1>10. QED
  BY <1>2, <1>3, <1>4, <1>5, <1>6, <1>7, <1>8, <1>9 DEF Inv

\* A query that fails without an answer takes the item out with its list.
LEMMA FailStep == Inv /\ Fail => Inv'
<1>. SUFFICES ASSUME Inv, Fail PROVE Inv'
  OBVIOUS
<1>. USE DEF Fail
<1>1. page # "venue"
  BY Keys, NoAnswers
<1>2. PageOK' /\ RoomOK' /\ RowsOK' /\ ClockOK' /\ FlightOK' /\ SlotsAreFree'
  BY RedrawClock DEF Inv, PageOK, RoomOK, RowsOK, FlightOK, SlotsAreFree, venueVars
<1>3. LoanOK' /\ loan'.range = loan.range
  BY DEF Inv, LoanOK, LoanType
<1>4. QueryOK'
  <2>1. Key' = Key
    BY <1>3 DEF Key
  <2>2. QED
    BY <2>1 DEF Inv, QueryOK
<1>5. LoanInv'
  BY DEF Inv, LoanInv, LoanOK, LoanType
<1>6. RowsInv'
  BY <1>1, Bounds DEF Inv, RowsInv, BegunIsPruned, venueVars
<1>7. QED
  BY <1>2, <1>3, <1>4, <1>5, <1>6 DEF Inv

LEMMA RetryStep == Inv /\ Retry => Inv'
<1>. SUFFICES ASSUME Inv, Retry PROVE Inv'
  OBVIOUS
<1>. USE DEF Retry, formVars, venueVars
<1>1. PageOK' /\ LoanOK' /\ RoomOK' /\ RowsOK' /\ ClockOK' /\ FlightOK' /\ SlotsAreFree'
  BY RedrawClock DEF Inv, PageOK, LoanOK, LoanType, RoomOK, RowsOK, FlightOK, SlotsAreFree
<1>2. QueryOK'
  <2>1. Key' = Key
    BY DEF Key
  <2>2. QED
    BY <2>1 DEF Inv, QueryOK
<1>3. LoanInv'
  BY DEF Inv, LoanInv
<1>4. RowsInv'
  BY Bounds DEF Inv, RowsInv, BegunIsPruned
<1>5. QED
  BY <1>1, <1>2, <1>3, <1>4 DEF Inv

-----------------------------------------------------------------------------
(* Time. *)

LEMMA ElapseStep == Inv /\ Elapse => Inv'
<1>. SUFFICES ASSUME Inv, Elapse PROVE Inv'
  OBVIOUS
<1>. USE DEF Elapse, formVars, venueVars, queryVars
<1>1. PageOK' /\ LoanOK' /\ RoomOK' /\ RowsOK' /\ FlightOK' /\ LoanInv' /\ SlotsAreFree'
  BY DEF Inv, PageOK, LoanOK, LoanType, RoomOK, RowsOK, FlightOK, LoanInv, SlotsAreFree
<1>2. QueryOK'
  <2>1. Key' = Key
    BY DEF Key
  <2>2. QED
    BY <2>1, SameQuery DEF Inv
<1>3. ClockOK'
  BY DeskAssumption DEF Inv, ClockOK
<1>4. RowsInv'
  BY DEF Inv, RowsInv, BegunIsPruned
<1>5. QED
  BY <1>1, <1>2, <1>3, <1>4 DEF Inv

LEMMA MinuteTickStep == Inv /\ MinuteTick => Inv'
<1>. SUFFICES ASSUME Inv, MinuteTick PROVE Inv'
  OBVIOUS
<1>. USE DEF MinuteTick, queryVars
<1>1. PageOK' /\ LoanOK' /\ RoomOK' /\ FlightOK' /\ LoanInv' /\ SlotsAreFree'
  BY DEF Inv, PageOK, LoanOK, LoanType, RoomOK, FlightOK, LoanInv, SlotsAreFree
<1>2. QueryOK'
  <2>1. Key' = Key
    BY DEF Key
  <2>2. QED
    BY <2>1, SameQuery DEF Inv
<1>3. ClockOK' /\ clock \in Nat /\ shown' = clock
  BY RedrawClock DEF Inv
<1>4. RowsOK'
  BY <1>3, PrunedRows DEF Inv, RowsOK
<1>5. RowsInv'
  BY <1>3, PrunedRows DEF Inv, RowsOK, RowsInv, BegunIsPruned
<1>6. QED
  BY <1>1, <1>2, <1>3, <1>4, <1>5 DEF Inv

-----------------------------------------------------------------------------
(* The venue form. *)

LEMMA EditedRows ==
  ASSUME RowsOK, NEW i \in DOMAIN rows
  PROVE  /\ i \in 1 .. Len(rows) /\ rows[i] \in RowType
         /\ \A d \in {None} \cup Days : [rows EXCEPT ![i].date = d] \in Seq(RowType)
         /\ \A S \in SUBSET Periods : [rows EXCEPT ![i].periods = S] \in Seq(RowType)
<1>1. rows \in Seq(RowType) /\ i \in 1 .. Len(rows) /\ rows[i] \in RowType
  BY DEF RowsOK
<1>2. ASSUME NEW d \in {None} \cup Days
      PROVE  [rows EXCEPT ![i].date = d] \in Seq(RowType)
  <2>1. [rows[i] EXCEPT !.date = d] \in RowType
    BY <1>1 DEF RowType
  <2>2. QED
    BY <1>1, <2>1, ExceptSeq
<1>3. ASSUME NEW S \in SUBSET Periods
      PROVE  [rows EXCEPT ![i].periods = S] \in Seq(RowType)
  <2>1. [rows[i] EXCEPT !.periods = S] \in RowType
    BY <1>1 DEF RowType
  <2>2. QED
    BY <1>1, <2>1, ExceptSeq
<1>4. QED
  BY <1>1, <1>2, <1>3

LEMMA SetDateStep ==
  ASSUME Inv, NEW i \in DOMAIN rows, NEW d \in {None} \cup Days, SetDate(i, d)
  PROVE  Inv'
<1>. DEFINE rs == [rows EXCEPT ![i].date = d]
<1>1. rs \in Seq(RowType)
  BY EditedRows DEF Inv
<1>2. rows' = Pruned(rs, clock) /\ fresh' = fresh /\ marks' \subseteq marks /\ flight' = flight /\ OnVenue
  BY DEF SetDate, Edit
<1>. HIDE DEF rs
<1>3. FlightOK'
  BY <1>2 DEF Inv, FlightOK, OnVenue
<1>4. QED
  BY <1>1, <1>2, <1>3, VenuePageStep DEF Inv, RowsOK

LEMMA ToggleStep ==
  ASSUME Inv, NEW i \in DOMAIN rows, NEW p \in Periods, Toggle(i, p)
  PROVE  Inv'
<1>. DEFINE S == IF p \in rows[i].periods THEN rows[i].periods \ {p} ELSE rows[i].periods \cup {p}
            rs == [rows EXCEPT ![i].periods = S]
<1>1. rs \in Seq(RowType)
  <2>1. S \in SUBSET Periods
    BY EditedRows DEF Inv, RowType
  <2>2. QED
    BY <2>1, EditedRows DEF Inv
<1>2. rows' = Pruned(rs, clock) /\ fresh' = fresh /\ marks' \subseteq marks /\ flight' = flight /\ OnVenue
  BY DEF Toggle, Edit
<1>. HIDE DEF rs
<1>3. FlightOK'
  BY <1>2 DEF Inv, FlightOK, OnVenue
<1>4. QED
  BY <1>1, <1>2, <1>3, VenuePageStep DEF Inv, RowsOK

LEMMA AddSlotAfterStep ==
  ASSUME Inv, NEW i \in DOMAIN rows, AddSlotAfter(i)
  PROVE  Inv'
<1>. DEFINE rs == InsertAt(rows, i + 1, Blank(fresh))
<1>1. rs \in Seq(RowType)
  BY EditedRows, BlankRow, InsertRow DEF Inv, RowsOK
<1>2. rows' = Pruned(rs, clock) /\ fresh' = fresh + 1 /\ marks' = marks /\ flight' = flight /\ OnVenue
  BY DEF AddSlotAfter, Edit
<1>. HIDE DEF rs
<1>3. FlightOK'
  BY <1>2 DEF Inv, FlightOK, OnVenue
<1>4. QED
  BY <1>1, <1>2, <1>3, VenuePageStep DEF Inv, RowsOK

LEMMA RemoveSlotStep ==
  ASSUME Inv, NEW i \in DOMAIN rows, RemoveSlot(i)
  PROVE  Inv'
<1>. DEFINE rs == RemoveAt(rows, i)
<1>1. rs \in Seq(RowType)
  BY EditedRows, RemoveRow DEF Inv, RowsOK
<1>2. rows' = Pruned(rs, clock) /\ fresh' = fresh /\ marks' = marks /\ flight' = flight /\ OnVenue
  BY DEF RemoveSlot, Edit
<1>. HIDE DEF rs
<1>3. FlightOK'
  BY <1>2 DEF Inv, FlightOK, OnVenue
<1>4. QED
  BY <1>1, <1>2, <1>3, VenuePageStep DEF Inv, RowsOK

LEMMA SubmitVenueStep == Inv /\ SubmitVenue => Inv'
<1>. SUFFICES ASSUME Inv, SubmitVenue PROVE Inv'
  OBVIOUS
<1>1. rows' = Pruned(rows, clock) /\ fresh' = fresh /\ marks' = marks /\ OnVenue
  BY DEF SubmitVenue, Edit
<1>2. FlightOK'
  BY DEF Inv, RowsOK, FlightOK, SubmitVenue, OnVenue
<1>3. QED
  BY <1>1, <1>2, VenuePageStep DEF Inv, RowsOK

\* The form that starts over has nothing to prune.
LEMMA VenueAcceptedStep == Inv /\ VenueAccepted => Inv'
<1>. SUFFICES ASSUME Inv, VenueAccepted PROVE Inv'
  OBVIOUS
<1>1. rows' = <<Blank(fresh)>> /\ fresh \in Nat /\ fresh' = fresh + 1 /\ marks' = marks /\ flight' = None /\ OnVenue
  BY DEF Inv, RowsOK, VenueAccepted
<1>2. <<Blank(fresh)>> \in Seq(RowType) /\ \A i \in DOMAIN <<Blank(fresh)>> : <<Blank(fresh)>>[i].date = None
  BY <1>1, BlankRows
<1>3. Pruned(<<Blank(fresh)>>, clock) = <<Blank(fresh)>>
  <2>. DEFINE rs == <<Blank(fresh)>>
  <2>1. \A i \in DOMAIN rs : rs[i].date # Today
    BY <1>2, Bounds
  <2>2. rs = [i \in DOMAIN rs |-> rs[i]]
    BY <1>2
  <2>. HIDE DEF rs
  <2>3. Pruned(rs, clock) = rs
    BY <2>1, <2>2 DEF Pruned
  <2>4. QED
    BY <2>3 DEF rs
<1>4. FlightOK'
  BY <1>1 DEF FlightOK
<1>5. rows' = Pruned(<<Blank(fresh)>>, clock) /\ fresh' \in Nat /\ marks' \subseteq Nat
  BY <1>1, <1>3 DEF Inv, RowsOK
<1>6. QED
  BY <1>1, <1>2, <1>4, <1>5, VenuePageStep

\* The row that is marked is one of those sent.
LEMMA VenueRefusedStep ==
  ASSUME Inv, NEW n \in 0 .. MaxRows, VenueRefused(n)
  PROVE  Inv'
<1>1. rows' = Pruned(rows, clock) /\ fresh' = fresh /\ flight' = None /\ OnVenue
  BY DEF VenueRefused, Edit, OnVenue
<1>2. marks' \subseteq Nat
  <2>1. CASE n = 0
    BY <2>1 DEF Inv, RowsOK, VenueRefused
  <2>2. CASE n # 0
    <3>1. flight.rows \in Seq(RowType) /\ n \in 1 .. Len(flight.rows)
      BY <2>2 DEF Inv, FlightOK, VenueRefused
    <3>2. flight.rows[n] \in RowType
      BY <3>1, ElementOfSeq
    <3>3. flight.rows[n].key \in Nat
      BY <3>2 DEF RowType
    <3>4. QED
      BY <2>2, <3>3 DEF VenueRefused
  <2>3. QED
    BY <2>1, <2>2
<1>3. FlightOK'
  BY <1>1 DEF FlightOK
<1>4. QED
  BY <1>1, <1>2, <1>3, VenuePageStep DEF Inv, RowsOK

-----------------------------------------------------------------------------
(* The equipment form. *)

\* Another range empties the quantity; an item that stays stands next to the list
\* of the range before until the new list judges it.
LEMMA PickRangeStep ==
  ASSUME Inv, NEW r \in Days, PickRange(r)
  PROVE  Inv'
<1>. DEFINE l == [loan EXCEPT !.range = r, !.qty = 0]
<1>1. Rekey(LoanKey(r)) /\ OnLoan /\ flight' = flight /\ loan' = IF known' THEN Checked(l, answer') ELSE l
  BY DEF PickRange
<1>2. l \in LoanType /\ l.range = r /\ l.item = loan.item /\ l.qty = 0
  BY DEF Inv, LoanOK, LoanType
<1>. HIDE DEF l
<1>3. LoanOK' /\ loan'.range = r /\ (~known' => loan'.item = loan.item /\ loan'.qty = 0)
  BY <1>1, <1>2, CheckedLoan DEF LoanOK, LoanType
<1>4. /\ Fits(LoanKey(r), known', answer', prior', failed') /\ failed' = FALSE
      /\ prior' = IF known /\ Keeps(Key) THEN [key |-> Key, answer |-> answer] ELSE prior
  BY <1>1, RekeyFits DEF Inv
<1>5. loan.item => prior' # None
  <2>1. CASE ~known
    BY <1>4, <2>1 DEF Inv, LoanInv
  <2>2. CASE known
    <3>1. answer \in Answers(LoanKey(loan.range)) /\ Key = LoanKey(loan.range)
      BY <1>1, <2>2, Keys DEF Inv, QueryOK, OnLoan
    <3>2. loan.range \in Days /\ answer \in 0 .. Stock
      BY <3>1, EquipmentAnswers
    <3>3. Keeps(Key)
      BY <3>1 DEF Keeps, LoanKey
    <3>4. prior' = [key |-> LoanKey(loan.range), answer |-> answer]
      BY <1>4, <2>2, <3>1, <3>3
    <3>5. QED
      BY <3>2, <3>4, PriorAssumption
  <2>3. QED
    BY <2>1, <2>2
<1>6. LoanInv' /\ FlightOK'
  BY <1>1, <1>3, <1>4, <1>5 DEF Inv, LoanInv, FlightOK, OnLoan
<1>7. QED
  BY <1>1, <1>3, <1>4, <1>6, LoanPageStep

LEMMA PickItemStep == Inv /\ PickItem => Inv'
<1>. SUFFICES ASSUME Inv, PickItem PROVE Inv'
  OBVIOUS
<1>. USE DEF PickItem, queryVars
<1>1. LoanOK' /\ loan'.range = loan.range /\ OnLoan
  BY DEF Inv, LoanOK, LoanType
<1>2. Fits(LoanKey(loan'.range), known', answer', prior', failed')
  BY <1>1, Keys, QueryFits DEF Inv, OnLoan
<1>3. LoanInv' /\ FlightOK'
  BY <1>1 DEF LoanInv, Inv, FlightOK, OnLoan
<1>4. QED
  BY <1>1, <1>2, <1>3, LoanPageStep

\* The quantity cannot be typed next to the list of another range.
LEMMA TypeQtyStep ==
  ASSUME Inv, NEW n \in 1 .. (Stock + 1), TypeQty(n)
  PROVE  Inv'
<1>. USE DEF TypeQty, queryVars
<1>1. LoanOK' /\ loan'.range = loan.range /\ loan'.item = loan.item /\ OnLoan
  BY DeskAssumption DEF Inv, LoanOK, LoanType
<1>2. Fits(LoanKey(loan'.range), known', answer', prior', failed')
  BY <1>1, Keys, QueryFits DEF Inv, OnLoan
<1>3. known \/ ~loan.item
  BY DEF Inv, LoanInv, Ready, Placeholder
<1>4. LoanInv' /\ FlightOK'
  BY <1>1, <1>3 DEF LoanInv, Inv, FlightOK, OnLoan
<1>5. QED
  BY <1>1, <1>2, <1>4, LoanPageStep

LEMMA SubmitLoanStep == Inv /\ SubmitLoan => Inv'
<1>. SUFFICES ASSUME Inv, SubmitLoan PROVE Inv'
  OBVIOUS
<1>. USE DEF SubmitLoan, queryVars
<1>1. LoanOK' /\ loan' = loan /\ OnLoan
  BY DEF Inv, LoanOK, LoanType
<1>2. Fits(LoanKey(loan'.range), known', answer', prior', failed')
  BY <1>1, Keys, QueryFits DEF Inv, OnLoan
<1>3. LoanInv' /\ FlightOK'
  BY <1>1 DEF LoanInv, Inv, FlightOK, OnLoan
<1>4. QED
  BY <1>1, <1>2, <1>3, LoanPageStep

LEMMA LoanAcceptedStep == Inv /\ LoanAccepted => Inv'
<1>. SUFFICES ASSUME Inv, LoanAccepted PROVE Inv'
  OBVIOUS
<1>. USE DEF LoanAccepted, queryVars
<1>1. LoanOK' /\ loan'.range = loan.from /\ ~loan'.item /\ OnLoan
  BY DEF Inv, LoanOK, LoanType
<1>2. Fits(LoanKey(loan'.range), known', answer', prior', failed')
  <2>1. CASE loan.range = loan.from
    BY <1>1, <2>1, Keys, QueryFits DEF Inv, OnLoan
  <2>2. CASE loan.range # loan.from
    BY <1>1, <2>2, RekeyFits DEF Inv
  <2>3. QED
    BY <2>1, <2>2
<1>3. LoanInv' /\ FlightOK'
  BY <1>1 DEF LoanInv, FlightOK
<1>4. QED
  BY <1>1, <1>2, <1>3, LoanPageStep

-----------------------------------------------------------------------------
(* The weekly form. *)

\* A venue that is chosen takes its occupied slots out at once, if they are known.
LEMMA PickVenueStep ==
  ASSUME Inv, NEW v \in Venues, PickVenue(v)
  PROVE  Inv'
<1>1. Fits(RoomKey(v), known', answer', prior', failed') /\ OnRoom
  BY RekeyFits DEF Inv, PickVenue
<1>2. RoomOK' /\ room'.venue = v
  BY DEF Inv, RoomOK, PickVenue
<1>3. SlotsAreFree'
  BY DEF Inv, RoomOK, PickVenue, SlotsAreFree
<1>4. FlightOK'
  BY DEF Inv, FlightOK, PickVenue, OnRoom
<1>5. QED
  BY <1>1, <1>2, <1>3, <1>4, RoomPageStep

\* A press, a drag and a tap choose only what is not known to be occupied.
LEMMA ApplySlots ==
  ASSUME RoomOK, NEW p \in Periods, NEW to \in BOOLEAN
  PROVE  /\ Apply(p, to) \in [venue : {None} \cup Venues, slots : SUBSET Periods, drag : {None} \cup BOOLEAN]
         /\ Apply(p, to).venue = room.venue
         /\ Apply(p, to).slots \subseteq room.slots \cup {p}
BY DEF RoomOK, Apply

LEMMA CellStep ==
  ASSUME Inv, NEW p \in Periods, Press(p) \/ Sweep(p) \/ Tap(p)
  PROVE  Inv'
<1>1. OnRoom /\ UNCHANGED queryVars /\ flight' = flight /\ (known => p \notin answer)
  BY DEF Press, Sweep, Tap, Selectable, Vacant
<1>2. RoomOK' /\ room'.venue = room.venue /\ room'.slots \subseteq room.slots \cup {p}
  <2>1. CASE Press(p)
    <3>. DEFINE to == p \notin room.slots
    <3>1. room' = [Apply(p, to) EXCEPT !.drag = to] /\ to \in BOOLEAN
      BY <2>1 DEF Press
    <3>. HIDE DEF to
    <3>2. QED
      BY <3>1, ApplySlots DEF Inv, RoomOK
  <2>2. CASE Sweep(p)
    <3>1. room.drag \in BOOLEAN /\ room' = Apply(p, room.drag)
      BY <2>2 DEF Inv, RoomOK, Sweep
    <3>2. QED
      BY <3>1, ApplySlots DEF Inv, RoomOK
  <2>3. CASE Tap(p)
    <3>. DEFINE to == p \notin room.slots
    <3>1. room' = Apply(p, to) /\ to \in BOOLEAN
      BY <2>3 DEF Tap
    <3>. HIDE DEF to
    <3>2. QED
      BY <3>1, ApplySlots DEF Inv, RoomOK
  <2>4. QED
    BY <2>1, <2>2, <2>3
<1>3. Fits(RoomKey(room'.venue), known', answer', prior', failed')
  BY <1>1, <1>2, Keys, QueryFits DEF Inv, OnRoom, queryVars
<1>4. SlotsAreFree'
  BY <1>1, <1>2 DEF Inv, SlotsAreFree, OnRoom, queryVars
<1>5. FlightOK'
  BY <1>1 DEF Inv, FlightOK, OnRoom
<1>6. QED
  BY <1>1, <1>2, <1>3, <1>4, <1>5, RoomPageStep

LEMMA ReleaseStep == Inv /\ Release => Inv'
<1>. SUFFICES ASSUME Inv, Release PROVE Inv'
  OBVIOUS
<1>. USE DEF Release, queryVars
<1>1. RoomOK' /\ room'.venue = room.venue /\ room'.slots = room.slots /\ OnRoom
  BY DEF Inv, RoomOK
<1>2. Fits(RoomKey(room'.venue), known', answer', prior', failed')
  BY <1>1, Keys, QueryFits DEF Inv, OnRoom
<1>3. SlotsAreFree' /\ FlightOK'
  BY <1>1 DEF Inv, SlotsAreFree, FlightOK, OnRoom
<1>4. QED
  BY <1>1, <1>2, <1>3, RoomPageStep

LEMMA SubmitRoomStep == Inv /\ SubmitRoom => Inv'
<1>. SUFFICES ASSUME Inv, SubmitRoom PROVE Inv'
  OBVIOUS
<1>. USE DEF SubmitRoom, queryVars
<1>1. RoomOK' /\ room' = room /\ OnRoom
  BY DEF Inv, RoomOK
<1>2. Fits(RoomKey(room'.venue), known', answer', prior', failed')
  BY <1>1, Keys, QueryFits DEF Inv, OnRoom
<1>3. SlotsAreFree' /\ FlightOK'
  BY <1>1 DEF Inv, SlotsAreFree, FlightOK, OnRoom
<1>4. QED
  BY <1>1, <1>2, <1>3, RoomPageStep

LEMMA RoomAcceptedStep == Inv /\ RoomAccepted => Inv'
<1>. SUFFICES ASSUME Inv, RoomAccepted PROVE Inv'
  OBVIOUS
<1>. USE DEF RoomAccepted, queryVars
<1>1. RoomOK' /\ room'.venue = None /\ room'.slots = {} /\ OnRoom
  BY DEF Inv, RoomOK
<1>2. Fits(RoomKey(room'.venue), known', answer', prior', failed')
  <2>1. CASE room.venue = None
    BY <1>1, <2>1, Keys, QueryFits DEF Inv, OnRoom
  <2>2. CASE room.venue # None
    BY <1>1, <2>2, RekeyFits DEF Inv
  <2>3. QED
    BY <2>1, <2>2
<1>3. SlotsAreFree' /\ FlightOK'
  BY <1>1 DEF SlotsAreFree, FlightOK
<1>4. QED
  BY <1>1, <1>2, <1>3, RoomPageStep

LEMMA RefusedStep == Inv /\ Refused => Inv'
<1>. SUFFICES ASSUME Inv, Refused PROVE Inv'
  OBVIOUS
<1>. USE DEF Refused, queryVars, formVars, venueVars
<1>1. CASE page = "equipment"
  <2>1. OnLoan /\ LoanOK' /\ loan' = loan
    BY <1>1 DEF Inv, LoanOK, LoanType, OnLoan
  <2>2. Fits(LoanKey(loan'.range), known', answer', prior', failed')
    BY <1>1, Keys, QueryFits DEF Inv
  <2>3. LoanInv' /\ FlightOK'
    BY DEF Inv, LoanInv, FlightOK
  <2>4. QED
    BY <2>1, <2>2, <2>3, LoanPageStep
<1>2. CASE page = "room"
  <2>1. OnRoom /\ RoomOK' /\ room' = room
    BY <1>2 DEF Inv, RoomOK, OnRoom
  <2>2. Fits(RoomKey(room'.venue), known', answer', prior', failed')
    BY <1>2, Keys, QueryFits DEF Inv
  <2>3. SlotsAreFree' /\ FlightOK'
    BY DEF Inv, SlotsAreFree, FlightOK
  <2>4. QED
    BY <2>1, <2>2, <2>3, RoomPageStep
<1>3. QED
  BY <1>1, <1>2

-----------------------------------------------------------------------------
(* Theorems. *)

LEMMA FormsStep == Inv /\ (Chart \/ VenueForm \/ LoanForm \/ RoomForm) => Inv'
<1>1. Inv /\ Chart => Inv'
  BY MoveDayStep, BookEquipmentStep, VenueChartStep, MoveStartStep, SwitchViewStep, BookVenueStep DEF Chart
<1>2. Inv /\ VenueForm => Inv'
  BY SetDateStep, ToggleStep, AddSlotAfterStep, RemoveSlotStep, SubmitVenueStep, VenueAcceptedStep, VenueRefusedStep
     DEF VenueForm
<1>3. Inv /\ LoanForm => Inv'
  BY PickRangeStep, PickItemStep, TypeQtyStep, SubmitLoanStep, LoanAcceptedStep DEF LoanForm
<1>4. Inv /\ RoomForm => Inv'
  BY PickVenueStep, CellStep, ReleaseStep, SubmitRoomStep, RoomAcceptedStep DEF RoomForm
<1>5. QED
  BY <1>1, <1>2, <1>3, <1>4

LEMMA StepInv == Inv /\ [Next]_vars => Inv'
<1>. SUFFICES ASSUME Inv, [Next]_vars PROVE Inv'
  OBVIOUS
<1>1. CASE Next
  BY <1>1, OpenStep, AnswerStep, FailStep, RetryStep, ElapseStep, MinuteTickStep, FormsStep, RefusedStep DEF Next
<1>2. CASE UNCHANGED vars
  <2>. USE <1>2 DEF vars, queryVars, formVars, venueVars
  <2>1. Key' = Key
    BY DEF Key
  <2>2. QueryOK'
    BY <2>1, SameQuery DEF Inv
  <2>3. PageOK' /\ LoanOK' /\ RoomOK' /\ RowsOK' /\ ClockOK' /\ FlightOK'
    BY DEF Inv, PageOK, LoanOK, LoanType, RoomOK, RowsOK, ClockOK, FlightOK
  <2>4. LoanInv' /\ SlotsAreFree' /\ RowsInv'
    BY DEF Inv, LoanInv, SlotsAreFree, RowsInv, BegunIsPruned
  <2>5. QED
    BY <2>2, <2>3, <2>4 DEF Inv
<1>3. QED
  BY <1>1, <1>2

\* The inductive invariant holds of every behaviour.
THEOREM DeskIsSound == Spec => []Inv
BY InitInv, StepInv, PTL DEF Spec

\* What the equipment form lets through its rules was measured against the answer for
\* the range it asks for, through changes of the range, failures, retries and refetches.
THEOREM LoansAreJudged == Spec => []LoanIsJudged
<1>1. Inv => LoanIsJudged
  BY DEF Inv, LoanInv, LoanIsJudged, LoanPasses, Ready, Placeholder
<1>2. QED
  BY <1>1, DeskIsSound, PTL

\* What the forms hold is of its type; no slot of the weekly form is known to be
\* occupied at its venue; no row for today holds a period that had begun when the
\* page was last drawn.
THEOREM ChoicesAreOpen == Spec => []ChoicesInv
<1>1. Inv => TypeOK
  BY DEF Inv, PageOK, QueryOK, LoanOK, LoanType, RoomOK, RowsOK, ClockOK, FlightOK, TypeOK
<1>2. Inv => ChoicesInv
  BY <1>1 DEF Inv, RowsInv, ChoicesInv
<1>3. QED
  BY <1>2, DeskIsSound, PTL

=============================================================================
