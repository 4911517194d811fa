----------------------------- MODULE BookingDesk -----------------------------
(***************************************************************************)
(* The club's booking pages in the browser: the chart of what is taken,    *)
(* and the forms for a venue for a day, for equipment and for a weekly     *)
(* room.  What a form lets its user choose is judged by the answer of a    *)
(* query whose key is itself chosen on the page (a date, a range, a        *)
(* venue), so that for a while the page shows a choice next to the answer  *)
(* of another key, or of none.  One page is open at a time; leaving it     *)
(* drops its state, and the answers it had remain in the cache of the      *)
(* client, from which the next page may start.                             *)
(***************************************************************************)
EXTENDS Integers, Sequences, FiniteSets, SequencesExt, FiniteSetsExt

CONSTANTS
    Venues,
    LastPeriod,       \* the periods of a day are 1 .. LastPeriod
    Late, LateRun,    \* those that are only lent in runs, and how long a run must be
    Today, LastDay,   \* the days are 1 .. LastDay; those before Today are past
    Span, Before,     \* days of a venue's chart, and how many precede the day it is opened from
    Stock, Cap,       \* of the one kind of equipment: how many there are, how many one loan may take
    Quota,            \* weekly periods a club may hold
    MaxRows,          \* rows of one request for a venue
    MaxKey,           \* bound: rows ever made on one page
    MaxTaken,         \* bound: cells taken on a chart
    None

Periods == 1 .. LastPeriod
Days == 1 .. LastDay
Starts == (1 - Before) .. LastDay

ASSUME DeskAssumption ==
    /\ LastPeriod \in Nat /\ Late \subseteq Periods /\ LateRun \in Nat \ {0}
    /\ LastDay \in Nat /\ Today \in Days
    /\ Span \in Nat \ {0} /\ Before \in Nat /\ Before < Span
    /\ Stock \in Nat /\ Cap \in Nat /\ Quota \in Nat /\ MaxRows \in Nat \ {0} /\ MaxKey \in Nat /\ MaxTaken \in Nat
    /\ None \notin Int /\ None \notin Venues

VARIABLES
    page,    \* "chart", "venue", "equipment" or "room"
    chart,   \* what the chart shows: view, day, venue and first day of the venue's chart
    known,   \* the query with the key now chosen has an answer
    answer,  \* the answer, None if there is none
    prior,   \* the last answer this page had, of whatever key: [key, answer], or None
    failed,  \* the query is in error
    loan,    \* the equipment form: range, item chosen, quantity (0: empty), and the link it came by
    room,    \* the weekly form: venue, slots chosen, direction of a drag
    rows,    \* the venue form: its rows, each a day and periods, told apart by a key
    fresh,   \* the next key
    marks,   \* keys of the rows marked as refused by the server
    clock,   \* how many periods of today have begun
    shown,   \* the same, when the page was last drawn
    flight   \* what was sent and is not answered, or None

queryVars == <<known, answer, prior, failed>>
venueVars == <<rows, fresh, marks>>
formVars == <<loan, room, venueVars>>
vars == <<page, chart, queryVars, formVars, clock, shown, flight>>

(***************************************************************************)
(* Keys, and what the server may answer for each: the cells that are       *)
(* taken, the days on which the equipment is sold out, the quantity left,  *)
(* the weekly periods that are occupied.                                   *)
(***************************************************************************)
Covered(first) == first .. (first + Span - 1)

ChartKey(c) == CASE c.view = "day"   -> <<"day", None, c.day>>
                 [] c.view = "venue" -> <<"range", c.venue, c.start>>
                 [] c.view = "usage" -> <<"usage", None, c.day>>
LoanKey(range) == <<"equipment", None, range>>
RoomKey(venue) == <<"occupancy", venue, None>>
Key == CASE page = "chart"     -> ChartKey(chart)
         [] page = "equipment" -> LoanKey(loan.range)
         [] page = "room"      -> RoomKey(room.venue)
         [] OTHER              -> <<"none", None, None>>

Taken(cells) == UNION {kSubset(n, cells) : n \in 0 .. MaxTaken}
Answers(key) ==
    CASE key[1] = "day"                             -> Taken(Venues \X Periods)
      [] key[1] = "range"                           -> Taken(Covered(key[3]) \X Periods)
      [] key[1] = "usage"                           -> Taken(Covered(key[3]))
      [] key[1] = "equipment" /\ key[3] \in Days   -> 0 .. Stock
      [] key[1] = "occupancy" /\ key[2] \in Venues -> SUBSET Periods
      [] OTHER                                      -> {}

KeysOf(kind) == CASE kind = "day"   -> {<<"day", None, d>> : d \in Days}
                  [] kind = "range" -> {<<"range", v, s>> : v \in Venues, s \in Starts}
                  [] kind = "usage" -> {<<"usage", None, d>> : d \in Days}

\* No list is mistaken for the absence of one.
ASSUME PriorAssumption == None \notin [key : {LoanKey(d) : d \in Days}, answer : 0 .. Stock]

\* placeholderData: keepPreviousData, which every query but the occupancy has.
Keeps(key) == key[1] # "occupancy"

\* What the page draws from: the answer of its key; else, unless the query is
\* in error, the answer it had before, for whatever key.
Placeholder == ~known /\ ~failed /\ prior # None
Source == IF known THEN [key |-> Key, answer |-> answer] ELSE IF Placeholder THEN prior ELSE None

(***************************************************************************)
(* The chart: which cells it draws as free, and which can be clicked.      *)
(***************************************************************************)
ChartDrawn == /\ page = "chart"
              /\ Source # None
              /\ chart.view # "usage" => ~failed

\* The day's table looks a cell up in whatever answer there is.
DayCellFree(v, p) == <<v, p>> \notin Source.answer

\* The venue's table looks it up by date and venue; what is not there is free.
RangeCellFree(d, p) == ~(Source.key[2] = chart.venue /\ <<d, p>> \in Source.answer)

\* The equipment's table knows which days its answer covers.
UsageCellFree(d) == d \in Covered(Source.key[3]) /\ d \notin Source.answer

\* A past day, and today's periods that have begun, offer no entry.
CanBook(d, p) == d > Today \/ (d = Today /\ p > shown)

VenueEntries ==
    CASE ChartDrawn /\ chart.view = "day" ->
           {e \in Venues \X {chart.day} \X Periods : DayCellFree(e[1], e[3]) /\ CanBook(e[2], e[3])}
      [] ChartDrawn /\ chart.view = "venue" ->
           {e \in {chart.venue} \X Covered(chart.start) \X Periods : RangeCellFree(e[2], e[3]) /\ CanBook(e[2], e[3])}
      [] OTHER -> {}
LoanEntries == IF ChartDrawn /\ chart.view = "usage"
               THEN {d \in Covered(chart.day) : UsageCellFree(d) /\ d >= Today} ELSE {}

(***************************************************************************)
(* The forms.                                                              *)
(***************************************************************************)
Blank(k) == [key |-> k, date |-> None, periods |-> {}]
Filled(r) == r.date # None /\ r.periods # {}
Overlap(r, s) == Filled(r) /\ Filled(s) /\ r.date = s.date /\ r.periods \cap s.periods # {}
RowsFit(rs) == /\ \A i \in DOMAIN rs : Filled(rs[i])
               /\ \A i, j \in DOMAIN rs : i # j => ~Overlap(rs[i], rs[j])

\* The effect that takes the periods which have begun out of today's rows.
Pruned(rs, n) == [i \in DOMAIN rs |-> IF rs[i].date = Today
                                      THEN [rs[i] EXCEPT !.periods = @ \ (1 .. n)] ELSE rs[i]]

\* Mutant: the quantity is held against whatever list the page shows.
ReadyWithAnyList == loan.range # None

\* The quantity left counts for the chosen range only: while the page shows the
\* list of another range it is not ready, and the item and the quantity are disabled.
Ready == loan.range # None /\ ~Placeholder

\* The form's own rules: the quantity is held against what is left, when that is known.
LoanPasses == /\ loan.range # None /\ loan.item /\ loan.qty > 0
              /\ Ready /\ known => loan.qty <= answer /\ loan.qty <= Cap

\* The effect run when the list changes: the item of the link is filled in once,
\* an item of which nothing is left is taken out.
Checked(l, left) ==
    IF ~l.item THEN (IF l.link /\ left > 0 THEN [l EXCEPT !.item = TRUE, !.link = FALSE] ELSE l)
    ELSE IF left = 0 THEN [l EXCEPT !.item = FALSE] ELSE l

\* Every late period chosen is in a run that is long enough.
LateRule(S) == \A p \in S \cap Late : \E f \in (p - LateRun + 1) .. p : f .. (f + LateRun - 1) \subseteq S

\* The weekly table is drawn unless the occupancy is loading; in error it is
\* disabled as a whole, which stops a press but not a drag that is under way.
TableDrawn == room.venue # None => known \/ failed
Vacant(p) == TableDrawn /\ (known => p \notin answer)
Selectable(p) == Vacant(p) /\ ~failed
Apply(p, to) == [room EXCEPT !.slots = IF to THEN @ \cup {p} ELSE @ \ {p}]

NoLoan == [range |-> None, item |-> FALSE, qty |-> 0, from |-> None, link |-> FALSE]
NoRoom == [venue |-> None, slots |-> {}, drag |-> None]
NoChart == [view |-> "day", day |-> Today, venue |-> None, start |-> Today]

-----------------------------------------------------------------------------
\* A step of the user redraws the page, which reads the clock again; an effect
\* of the venue form then takes what has begun out of its rows.
Redraw == shown' = clock /\ UNCHANGED clock

\* What the client may hold for a key: nothing, or an answer of its server.
Cached(key) == /\ \/ known' = FALSE /\ answer' = None
                  \/ known' = TRUE /\ answer' \in Answers(key)
               /\ failed' = FALSE

\* The key changes under the same query: the answer it had becomes the previous one.
Rekey(key) == /\ Cached(key)
              /\ prior' = IF known /\ Keeps(Key) THEN [key |-> Key, answer |-> answer] ELSE prior

\* A query mounted anew has no previous answer; one that was set aside with its
\* view of the chart has the one it last showed.
Mount(key) == Cached(key) /\ prior' = None
Resume(key) == /\ Cached(key)
               /\ \/ prior' = None
                  \/ \E k \in KeysOf(key[1]) : \E a \in Answers(k) : prior' = [key |-> k, answer |-> a]

(***************************************************************************)
(* Pages.                                                                  *)
(***************************************************************************)
Leave == /\ chart' = NoChart /\ loan' = NoLoan /\ room' = NoRoom
         /\ rows' = <<Blank(0)>> /\ fresh' = 1 /\ marks' = {}
         /\ flight' = None
         /\ Redraw

Open(p) == /\ page # p
           /\ page' = p
           /\ Leave
           /\ Mount(CASE p = "chart" -> ChartKey(NoChart)
                      [] p = "equipment" -> LoanKey(None)
                      [] p = "room" -> RoomKey(None)
                      [] OTHER -> <<"none", None, None>>)

\* A free cell opens the venue form with its day and period; a period that has
\* begun in the meantime is not filled in.
BookVenue(e) ==
    /\ e \in VenueEntries /\ e[2] \in Days
    /\ page' = "venue"
    /\ chart' = NoChart /\ UNCHANGED <<loan, room, marks, fresh>>
    /\ rows' = <<[key |-> 0, date |-> e[2], periods |-> IF e[2] = Today /\ e[3] <= clock THEN {} ELSE {e[3]}]>>
    /\ Mount(<<"none", None, None>>)
    /\ flight' = None
    /\ Redraw

\* A day on which equipment is left opens the equipment form with the item and the day.
BookEquipment(d) ==
    /\ d \in LoanEntries \cap Days
    /\ page' = "equipment"
    /\ chart' = NoChart /\ UNCHANGED <<room, venueVars>>
    /\ Mount(LoanKey(d))
    /\ LET l == [NoLoan EXCEPT !.range = d, !.from = d, !.link = TRUE]
       IN loan' = IF known' THEN Checked(l, answer') ELSE l
    /\ flight' = None
    /\ Redraw

(***************************************************************************)
(* The chart's controls.                                                   *)
(***************************************************************************)
OnChart == page = "chart" /\ UNCHANGED <<page, formVars, flight>> /\ Redraw

MoveDay(d) == /\ chart.view \in {"day", "usage"} /\ d # chart.day
              /\ chart' = [chart EXCEPT !.day = d]
              /\ Rekey(ChartKey(chart'))
              /\ OnChart

\* The chart of one venue starts a fixed number of days before the day shown.
OpenVenue(v) == /\ chart.view = "day" /\ ChartDrawn
                /\ chart' = [chart EXCEPT !.view = "venue", !.venue = v, !.start = chart.day - Before]
                /\ Resume(ChartKey(chart'))
                /\ OnChart

SwitchVenue(v) == /\ chart.view = "venue" /\ v # chart.venue
                  /\ chart' = [chart EXCEPT !.venue = v]
                  /\ Rekey(ChartKey(chart'))
                  /\ OnChart

MoveStart(s) == /\ chart.view = "venue" /\ s \in {chart.start - Span, chart.start + Span, Today - Before}
                /\ s \in Starts \ {chart.start}
                /\ chart' = [chart EXCEPT !.start = s]
                /\ Rekey(ChartKey(chart'))
                /\ OnChart

SwitchView(w) == /\ w \in {"day", "usage"} /\ w # chart.view
                 /\ chart' = [chart EXCEPT !.view = w, !.venue = None, !.start = Today]
                 /\ Resume(ChartKey(chart'))
                 /\ OnChart

(***************************************************************************)
(* Answers.  They arrive at any time: the first one, and those of the      *)
(* refetches that follow every change of a booking.                        *)
(***************************************************************************)
Answer(a) == /\ a \in Answers(Key)
             /\ known' = TRUE /\ answer' = a /\ failed' = FALSE
             /\ loan' = IF page = "equipment" THEN Checked(loan, a) ELSE loan
             /\ room' = IF page = "room" THEN [room EXCEPT !.slots = @ \ a] ELSE room
             /\ UNCHANGED <<page, chart, prior, venueVars, flight>>
             /\ Redraw

\* A query that fails keeps the answer it has; one without takes the list away.
Fail == /\ Answers(Key) # {} /\ ~failed
        /\ failed' = TRUE
        /\ loan' = IF page = "equipment" /\ ~known THEN [loan EXCEPT !.item = FALSE] ELSE loan
        /\ UNCHANGED <<page, chart, known, answer, prior, room, venueVars, flight>>
        /\ Redraw

\* Asked again, a query without an answer is loading once more.
Retry == /\ failed /\ ~known
         /\ failed' = FALSE
         /\ UNCHANGED <<page, chart, known, answer, prior, formVars, flight>>
         /\ Redraw

(***************************************************************************)
(* Time.  The page of the chart and of the venue form is drawn again every *)
(* minute; any other redraw reads the clock too.                           *)
(***************************************************************************)
Elapse == /\ clock < LastPeriod /\ clock' = clock + 1
          /\ UNCHANGED <<page, chart, queryVars, formVars, shown, flight>>

MinuteTick == /\ page \in {"chart", "venue"}
              /\ rows' = Pruned(rows, clock)
              /\ UNCHANGED <<page, chart, queryVars, loan, room, fresh, marks, flight>>
              /\ Redraw

(***************************************************************************)
(* The venue form.                                                         *)
(***************************************************************************)
OnVenue == page = "venue" /\ UNCHANGED <<page, chart, queryVars, loan, room>> /\ Redraw
Edit(rs) == rows' = Pruned(rs, clock)

SetDate(i, d) == /\ d \in {None} \cup Today .. LastDay
                 /\ Edit([rows EXCEPT ![i].date = d])
                 /\ marks' = marks \ {rows[i].key}
                 /\ UNCHANGED <<fresh, flight>>
                 /\ OnVenue

Toggle(i, p) == /\ rows[i].date = Today => p > shown
                /\ Edit([rows EXCEPT ![i].periods = IF p \in @ THEN @ \ {p} ELSE @ \cup {p}])
                /\ marks' = marks \ {rows[i].key}
                /\ UNCHANGED <<fresh, flight>>
                /\ OnVenue

AddSlotAfter(i) == /\ Len(rows) < MaxRows /\ fresh < MaxKey
                   /\ Edit(InsertAt(rows, i + 1, Blank(fresh)))
                   /\ fresh' = fresh + 1
                   /\ UNCHANGED <<marks, flight>>
                   /\ OnVenue

RemoveSlot(i) == /\ Len(rows) > 1
                 /\ Edit(RemoveAt(rows, i))
                 /\ UNCHANGED <<fresh, marks, flight>>
                 /\ OnVenue

SubmitVenue == /\ flight = None /\ RowsFit(rows)
               /\ flight' = [kind |-> "venue", rows |-> rows]
               /\ Edit(rows)
               /\ UNCHANGED <<fresh, marks>>
               /\ OnVenue

\* Accepted: the form starts over, whatever was typed since.
VenueAccepted == /\ flight # None /\ fresh < MaxKey
                 /\ rows' = <<Blank(fresh)>> /\ fresh' = fresh + 1
                 /\ flight' = None
                 /\ UNCHANGED marks
                 /\ OnVenue

\* Refused: the answer may name the row, counted among those that were sent.
VenueRefused(n) == /\ page = "venue" /\ flight # None
                   /\ flight' = None
                   /\ n \in 0 .. Len(flight.rows)
                   /\ marks' = IF n = 0 THEN marks ELSE {flight.rows[n].key}
                   /\ Edit(rows)
                   /\ UNCHANGED <<page, chart, queryVars, loan, room, fresh>>
                   /\ Redraw

(***************************************************************************)
(* The equipment form.                                                     *)
(***************************************************************************)
OnLoan == page = "equipment" /\ UNCHANGED <<page, chart, room, venueVars>> /\ Redraw

PickRange(r) == /\ r \in Today .. LastDay /\ r # loan.range
                /\ Rekey(LoanKey(r))
                /\ LET l == [loan EXCEPT !.range = r, !.qty = 0]
                   IN loan' = IF known' THEN Checked(l, answer') ELSE l
                /\ UNCHANGED flight
                /\ OnLoan

PickItem == /\ Ready /\ known /\ answer > 0
            /\ loan' = [loan EXCEPT !.item = TRUE, !.qty = 0]
            /\ UNCHANGED <<queryVars, flight>>
            /\ OnLoan

TypeQty(n) == /\ Ready /\ n # loan.qty
              /\ loan' = [loan EXCEPT !.qty = n]
              /\ UNCHANGED <<queryVars, flight>>
              /\ OnLoan

SubmitLoan == /\ flight = None /\ LoanPasses
              /\ flight' = [kind |-> "equipment", loan |-> loan]
              /\ UNCHANGED <<queryVars, loan>>
              /\ OnLoan

\* The fields go back to what the page was opened with.
LoanAccepted == /\ flight # None /\ flight' = None
                /\ loan' = [loan EXCEPT !.range = loan.from, !.item = FALSE, !.qty = 0]
                /\ IF loan.range = loan.from THEN UNCHANGED queryVars ELSE Rekey(LoanKey(loan.from))
                /\ OnLoan

(***************************************************************************)
(* The weekly form.                                                        *)
(***************************************************************************)
OnRoom == page = "room" /\ UNCHANGED <<page, chart, loan, venueVars>> /\ Redraw

\* Mutant: slots are taken out when an answer arrives, not when the venue changes.
PickVenueUnchecked(v) ==
    /\ v # room.venue
    /\ Rekey(RoomKey(v))
    /\ room' = [room EXCEPT !.venue = v]
    /\ UNCHANGED flight
    /\ OnRoom

PickVenue(v) == /\ v # room.venue
                /\ Rekey(RoomKey(v))
                /\ room' = [room EXCEPT !.venue = v, !.slots = IF known' THEN @ \ answer' ELSE @]
                /\ UNCHANGED flight
                /\ OnRoom

\* The press on a cell decides whether the drag chooses or clears; the cells it
\* is dragged over follow.  A finger that may be scrolling counts only as a tap.
Press(p) == /\ page = "room" /\ Selectable(p)
            /\ room' = [Apply(p, p \notin room.slots) EXCEPT !.drag = p \notin room.slots]
            /\ UNCHANGED <<queryVars, flight>>
            /\ OnRoom
Sweep(p) == /\ room.drag # None /\ Vacant(p)
            /\ room' = Apply(p, room.drag)
            /\ UNCHANGED <<queryVars, flight>>
            /\ OnRoom
Release == /\ room.drag # None
           /\ room' = [room EXCEPT !.drag = None]
           /\ UNCHANGED <<queryVars, flight>>
           /\ OnRoom
Tap(p) == /\ page = "room" /\ Selectable(p)
          /\ room' = Apply(p, p \notin room.slots)
          /\ UNCHANGED <<queryVars, flight>>
          /\ OnRoom

\* The button is disabled while a request is out and while the occupancy is in error.
SubmitRoom == /\ flight = None /\ room.venue # None /\ ~failed
              /\ room.slots # {} /\ Cardinality(room.slots) <= Quota /\ LateRule(room.slots)
              /\ flight' = [kind |-> "room", venue |-> room.venue, slots |-> room.slots]
              /\ UNCHANGED <<queryVars, room>>
              /\ OnRoom

RoomAccepted == /\ flight # None /\ flight' = None
                /\ room' = [room EXCEPT !.venue = None, !.slots = {}]
                /\ IF room.venue = None THEN UNCHANGED queryVars ELSE Rekey(RoomKey(None))
                /\ OnRoom

\* An error of the server leaves these two forms as they are.
Refused == /\ page \in {"equipment", "room"} /\ flight # None /\ flight' = None
           /\ UNCHANGED <<page, chart, queryVars, formVars>>
           /\ Redraw

-----------------------------------------------------------------------------
Init == /\ page = "chart" /\ chart = NoChart
        /\ known = FALSE /\ answer = None /\ prior = None /\ failed = FALSE
        /\ loan = NoLoan /\ room = NoRoom
        /\ rows = <<Blank(0)>> /\ fresh = 1 /\ marks = {}
        /\ clock \in 0 .. LastPeriod /\ shown = clock
        /\ flight = None

Chart == \/ \E d \in Days : MoveDay(d) \/ BookEquipment(d)
         \/ \E v \in Venues : OpenVenue(v) \/ SwitchVenue(v)
         \/ \E s \in Starts : MoveStart(s)
         \/ \E w \in {"day", "usage"} : SwitchView(w)
         \/ \E e \in VenueEntries : BookVenue(e)
VenueForm == \/ \E i \in DOMAIN rows : \/ \E d \in {None} \cup Days : SetDate(i, d)
                                       \/ \E p \in Periods : Toggle(i, p)
                                       \/ AddSlotAfter(i) \/ RemoveSlot(i)
             \/ SubmitVenue \/ VenueAccepted
             \/ \E n \in 0 .. MaxRows : VenueRefused(n)
LoanForm == \/ \E r \in Days : PickRange(r)
            \/ PickItem \/ SubmitLoan \/ LoanAccepted
            \/ \E n \in 1 .. (Stock + 1) : TypeQty(n)
RoomForm == \/ \E v \in Venues : PickVenue(v)
            \/ \E p \in Periods : Press(p) \/ Sweep(p) \/ Tap(p)
            \/ Release \/ SubmitRoom \/ RoomAccepted

Next == \/ \E p \in {"chart", "venue", "equipment", "room"} : Open(p)
        \/ \E a \in Answers(Key) : Answer(a)
        \/ Fail \/ Retry \/ Elapse \/ MinuteTick
        \/ Chart \/ VenueForm \/ LoanForm \/ RoomForm \/ Refused

Spec == Init /\ [][Next]_vars

-----------------------------------------------------------------------------
(* Types and properties. *)

RowType == [key : Nat, date : {None} \cup Days, periods : SUBSET Periods]
TypeOK ==
    /\ page \in {"chart", "venue", "equipment", "room"}
    /\ chart \in [view : {"day", "venue", "usage"}, day : Days, venue : Venues \cup {None}, start : Int]
    /\ chart.view = "venue" => chart.venue \in Venues
    /\ known \in BOOLEAN
    /\ IF known THEN answer \in Answers(Key) ELSE answer = None
    /\ prior # None => prior.answer \in Answers(prior.key)
    /\ failed \in BOOLEAN
    /\ loan \in [range : {None} \cup Days, item : BOOLEAN, qty : Nat, from : {None} \cup Days, link : BOOLEAN]
    /\ room \in [venue : {None} \cup Venues, slots : SUBSET Periods, drag : {None} \cup BOOLEAN]
    /\ rows \in Seq(RowType) /\ fresh \in Nat /\ marks \subseteq Nat
    /\ clock \in 0 .. LastPeriod /\ shown \in 0 .. clock
    /\ flight # None => page = flight.kind

\* What the equipment form lets through its own rules was measured against the
\* answer for the range it asks for, and fits it: the list of another range,
\* kept on the page to avoid a flicker, is never what a quantity was held against.
LoanIsJudged == LoanPasses => known /\ loan.qty <= answer

\* No slot of the weekly form is one that is known to be occupied at its venue,
\* through changes of the venue, answers during a drag, and refetches.
SlotsAreFree == page = "room" /\ known => room.slots \cap answer = {}

\* No row for today holds a period that had begun when the page was last drawn.
BegunIsPruned == \A i \in DOMAIN rows : rows[i].date = Today => rows[i].periods \cap (1 .. shown) = {}

\* What the forms hold is of its type and can still be had, as far as is known.
ChoicesInv == TypeOK /\ SlotsAreFree /\ BegunIsPruned

\* The comment on the rows the server marks ("that row has not been touched, the
\* problem is still there"): a row marked when a refusal arrives is as it was sent,
\* but for the periods that have begun.
MarkedIsAsSent ==
    [][\A k \in marks' \ marks : \A i \in DOMAIN rows :
          rows[i].key = k => \E n \in DOMAIN flight.rows : Pruned(flight.rows, clock)[n] = rows'[i]]_vars

\* The chart's comment on days an answer does not cover ("treated as not loaded:
\* showing 0 for them would be a lie"): a cell offered as free is free in an
\* answer for its own day and venue.
EntriesAreLoaded ==
    \A e \in VenueEntries :
        /\ Source.key = Key \/ (Source.key[1] = "range" /\ Source.key[2] = e[1] /\ e[2] \in Covered(Source.key[3]))

\* The comment of the weekly form ("do not let people send periods that are
\* bound to be refused"): the slots sent were held against the venue's occupancy.
SentSlotsAreJudged == [][SubmitRoom => known]_vars
=============================================================================
