---------------------------- MODULE VenueBookings ----------------------------
(***************************************************************************)
(* Booking of venues.  A temporary booking takes periods of one day; a     *)
(* fixed one takes weekly slots of a whole semester and is asked for while *)
(* the intake window is open.  The club's request is checked and inserted  *)
(* under the club's advisory lock, the office's approval (and its manual   *)
(* booking) under the venue's; every decision holds the row lock of its    *)
(* booking.  Transactions run at READ COMMITTED and are split at the       *)
(* places where they wait for a lock, so that whatever they read before    *)
(* may have changed after.                                                 *)
(***************************************************************************)
EXTENDS Integers, Sequences, FiniteSets

CONSTANTS
    Booking,       \* rows of venue_bookings and room_booking_requests
    Venue, Club,
    Office,        \* the owner of a manual booking (club_id NULL)
    Txn,           \* concurrent database transactions
    Batches,       \* the sets of temporary bookings clubs ask for in one request
    FixedAsks,     \* the fixed bookings clubs ask for: [owner, venue, slots]
    ManualAsks,    \* the temporary bookings the office enters itself
    Rules,         \* the block rules the office can set
    VenueFlags,    \* what a venue row can be set to
    Windows,       \* the intake windows the office can set: [from, until]
    NoWindow,      \* no intake window is set
    Suspensions,   \* the days a club can be suspended until
    NextSemester,  \* next_semester_range: the semester that starts next after a day
    MaxDay,        \* the clock stops on this day (bound)
    Periods,       \* a day has the periods 1 .. Periods
    DaysPerWeek,
    MaxFixedSlots, \* weekly slots a club can hold in a semester
    NoBooking,     \* no row is locked
    NoTerms        \* the terms of a row that does not exist

Day == Nat \ {0}
Weekday(d) == d % DaysPerWeek
Slots == (0 .. DaysPerWeek - 1) \X (1 .. Periods)
Terms == [kind : {"temp", "fixed"}, owner : Club \cup {Office}, venue : Venue,
          first : Day, last : Day, slots : SUBSET Slots]
TempTerms == {t \in Terms : /\ t.kind = "temp"
                            /\ t.first = t.last
                            /\ \A s \in t.slots : s[1] = Weekday(t.first)}

ASSUME BookingAssumption == IsFiniteSet(Booking) /\ NoBooking \notin Booking /\ NoTerms \notin Terms
ASSUME OwnerAssumption == Office \notin Club
ASSUME NumberAssumption == /\ MaxDay \in Nat \ {0} /\ Periods \in Nat \ {0}
                           /\ DaysPerWeek \in Nat \ {0} /\ MaxFixedSlots \in Nat
\* A batch is of one club and one venue, and does not overlap itself (VenueBookingIn).
ASSUME BatchAssumption ==
    \A batch \in Batches :
        /\ batch \subseteq TempTerms
        /\ \A t, u \in batch :
              /\ t.owner \in Club /\ t.owner = u.owner /\ t.venue = u.venue
              /\ t # u => t.first # u.first \/ t.slots \cap u.slots = {}
ASSUME FixedAssumption == FixedAsks \subseteq [owner : Club, venue : Venue, slots : SUBSET Slots]
ASSUME ManualAssumption == ManualAsks \subseteq {t \in TempTerms : t.owner = Office}
ASSUME WindowAssumption == Windows \subseteq [from : 1 .. MaxDay, until : 1 .. MaxDay]
                           /\ NoWindow \notin Windows
ASSUME CalendarAssumption ==
    /\ NextSemester \in [1 .. MaxDay -> [first : Day, last : Day]]
    /\ \A d, e \in 1 .. MaxDay : d < NextSemester[d].first /\ NextSemester[d].first <= NextSemester[d].last
ASSUME MasterAssumption ==
    /\ Rules \subseteq [venue : Venue, first : Day, last : Day,
                        weekdays : SUBSET (0 .. DaysPerWeek - 1), periods : SUBSET (1 .. Periods)]
    /\ VenueFlags \subseteq [active : BOOLEAN, fixed : BOOLEAN, temp : BOOLEAN]
    /\ Suspensions \subseteq Day

Live == {"pending", "approved"}
Settled == {"rejected", "cancelled"}
Status == {"none"} \cup Live \cup Settled

VARIABLES
    today, started,  \* the Taipei date, and how many periods of it have started
    venue,           \* the venue rows
    rules,           \* the block rules in force
    suspended,       \* suspended_until of each club, 0 for NULL
    window,          \* the setting fixed_booking_window
    status, terms,   \* the booking rows
    trail,           \* the approval_records of each booking, oldest first
    pc,              \* where each transaction stands
    wanted,          \* the bookings a transaction is about to insert or approve
    target,          \* the row it has locked
    draft            \* the window it is about to set

masterVars == <<venue, rules, suspended, window>>
clockVars == <<today, started>>
rowVars == <<status, terms, trail>>
txnVars == <<pc, wanted, target, draft>>
vars == <<clockVars, masterVars, rowVars, txnVars>>

TypeOK ==
    /\ today \in 1 .. MaxDay /\ started \in 0 .. Periods
    /\ venue \in [Venue -> [active : BOOLEAN, fixed : BOOLEAN, temp : BOOLEAN]]
    /\ rules \subseteq Rules
    /\ suspended \in [Club -> Suspensions \cup {0}]
    /\ window \in Windows \cup {NoWindow}
    /\ status \in [Booking -> Status]
    /\ terms \in [Booking -> Terms \cup {NoTerms}]
    /\ trail \in [Booking -> Seq({"approve", "reject", "revoke"})]
    /\ pc \in [Txn -> {"idle", "asked", "admitted", "deciding", "approving", "manual", "granted", "setting"}]
    /\ wanted \in [Txn -> SUBSET Terms]
    /\ target \in [Txn -> Booking \cup {NoBooking}]
    /\ draft \in [Txn -> Windows \cup {NoWindow}]

-----------------------------------------------------------------------------
(* What a query sees *)

\* The first of its periods has started.
BookingStarted(t) ==
    \/ t.first < today
    \/ t.first = today /\ \E s \in t.slots : s[2] <= started

NotSuspended(c) == suspended[c] < today

\* The periods of single days that a booking takes.
Cell == Venue \X Day \X (1 .. Periods)
Cells(t) == {x \in {t.venue} \X (t.first .. t.last) \X (1 .. Periods) :
                <<Weekday(x[2]), x[3]>> \in t.slots}

\* blocked_periods and fixed_slots_blocked: a rule covers one of the cells.
Blocked(t) ==
    \E rule \in rules, x \in Cells(t) :
        /\ rule.venue = t.venue
        /\ rule.first <= x[2] /\ x[2] <= rule.last
        /\ Weekday(x[2]) \in rule.weekdays
        /\ x[3] \in rule.periods

\* The slots meet on a venue and their ranges of days overlap.
Clash(t, u) ==
    /\ t.venue = u.venue
    /\ t.first <= u.last /\ u.first <= t.last
    /\ t.slots \cap u.slots # {}

\* Mutant: temporary bookings of today do not count against a fixed one.
TakenFromTomorrow(t) ==
    \E b \in Booking :
        /\ status[b] = "approved"
        /\ Clash(t, terms[b])
        /\ t.kind = "fixed" /\ terms[b].kind = "temp" => terms[b].first > today

\* An approved booking is in the way; for a fixed booking, temporary ones of
\* days that are over are not.
Taken(t) ==
    \E b \in Booking :
        /\ status[b] = "approved"
        /\ Clash(t, terms[b])
        /\ t.kind = "fixed" /\ terms[b].kind = "temp" => terms[b].first >= today

\* The club already has a live booking of some of these periods.
Duplicate(t) ==
    \E b \in Booking :
        /\ status[b] \in Live
        /\ terms[b].kind = "temp"
        /\ terms[b].owner = t.owner
        /\ Clash(t, terms[b])

\* _used_fixed_periods: the slots a club holds in the semester of that start.
UsedFixedPeriods(c, start) ==
    UNION {{b} \X terms[b].slots : b \in {k \in Booking : /\ status[k] \in Live
                                                          /\ terms[k].kind = "fixed"
                                                          /\ terms[k].owner = c
                                                          /\ terms[k].first = start}}

FixedWindowOpen == window # NoWindow /\ window.from <= today /\ today <= window.until

\* The semester after the end of the window, unless that semester is over.
FixedTargetSemester(w) ==
    IF w # NoWindow /\ NextSemester[w.until].last >= today
    THEN NextSemester[w.until]
    ELSE NextSemester[today]

\* Requests of the round that starts then, withdrawn ones left out.
Filed(start) == {b \in Booking : /\ status[b] \notin {"none", "cancelled"}
                                 /\ terms[b].kind = "fixed"
                                 /\ terms[b].first = start}

\* _guard_intake_semester lets the new window through.
GuardPasses(w) ==
    \/ FixedTargetSemester(w) = FixedTargetSemester(window)
    \/ Filed(FixedTargetSemester(window).first) = {}

\* Mutants: the locks are not taken.
NoClubLock(c) == TRUE
NoVenueLock(v) == TRUE
NoRowLock(b) == TRUE

\* pg_advisory_xact_lock(411003, club) and (411002, venue): held to the end.
ClubLockFree(c) == \A r \in Txn : ~(pc[r] = "admitted" /\ \E t \in wanted[r] : t.owner = c)
VenueLockFree(v) == \A r \in Txn : ~(pc[r] = "granted" /\ \E t \in wanted[r] : t.venue = v)

\* A row lock is held until the transaction ends.
RowFree(b) == \A r \in Txn : target[r] # b

-----------------------------------------------------------------------------
(* Transactions *)

EndTxn(r) ==
    /\ pc' = [pc EXCEPT ![r] = "idle"]
    /\ wanted' = [wanted EXCEPT ![r] = {}]
    /\ target' = [target EXCEPT ![r] = NoBooking]
    /\ draft' = [draft EXCEPT ![r] = NoWindow]

\* A check that fails, an exception or a dead process: nothing is kept.
Rollback(r) ==
    /\ pc[r] # "idle"
    /\ EndTxn(r)
    /\ UNCHANGED <<clockVars, masterVars, rowVars>>

GoOn(r, from, to, bookings) ==
    /\ pc[r] = from
    /\ pc' = [pc EXCEPT ![r] = to]
    /\ wanted' = [wanted EXCEPT ![r] = bookings]
    /\ UNCHANGED <<clockVars, masterVars, rowVars, target, draft>>

\* create_venue_booking, up to the club's lock.
AskTemp(r, batch) ==
    /\ \A t \in batch :
          /\ NotSuspended(t.owner)
          /\ venue[t.venue].active /\ venue[t.venue].temp
          /\ ~BookingStarted(t)
          /\ ~Blocked(t)
    /\ GoOn(r, "idle", "asked", batch)

\* The semester is fixed by the window as it is when the request is read.
FixedTerms(a) ==
    [kind |-> "fixed", owner |-> a.owner, venue |-> a.venue, slots |-> a.slots,
     first |-> FixedTargetSemester(window).first, last |-> FixedTargetSemester(window).last]

\* create_room_booking, up to the club's lock.
AskFixed(r, a) ==
    /\ NotSuspended(a.owner)
    /\ FixedWindowOpen
    /\ venue[a.venue].active /\ venue[a.venue].fixed
    /\ ~Blocked(FixedTerms(a))
    /\ GoOn(r, "idle", "asked", {FixedTerms(a)})

\* Under the club's lock: no duplicate, and the quota of the semester.
CheckClub(r) ==
    /\ \A t \in wanted[r] :
          /\ ClubLockFree(t.owner)
          /\ t.kind = "temp" => ~Duplicate(t)
          /\ t.kind = "fixed" =>
                Cardinality(UsedFixedPeriods(t.owner, t.first)) + Cardinality(t.slots) <= MaxFixedSlots
    /\ GoOn(r, "asked", "admitted", wanted[r])

\* All bookings of the request in one commit; rows says which row each becomes.
InsertBookings(r, rows) ==
    /\ pc[r] = "admitted"
    /\ {rows[b] : b \in DOMAIN rows} = wanted[r]
    /\ \A b, c \in DOMAIN rows : rows[b] = rows[c] => b = c
    /\ \A b \in DOMAIN rows : status[b] = "none"
    /\ status' = [b \in Booking |-> IF b \in DOMAIN rows THEN "pending" ELSE status[b]]
    /\ terms' = [b \in Booking |-> IF b \in DOMAIN rows THEN rows[b] ELSE terms[b]]
    /\ EndTxn(r)
    /\ UNCHANGED <<clockVars, masterVars, trail>>

\* manual_venue_booking: whatever the rules and the day.
AskManual(r, t) ==
    /\ venue[t.venue].active
    /\ GoOn(r, "idle", "manual", {t})

GrantManual(r) ==
    /\ \A t \in wanted[r] : VenueLockFree(t.venue) /\ ~Taken(t)
    /\ GoOn(r, "manual", "granted", wanted[r])

InsertManual(r, b) ==
    /\ pc[r] = "granted"
    /\ target[r] = NoBooking
    /\ status[b] = "none"
    /\ \E t \in wanted[r] : terms' = [terms EXCEPT ![b] = t]
    /\ status' = [status EXCEPT ![b] = "approved"]
    /\ EndTxn(r)
    /\ UNCHANGED <<clockVars, masterVars, trail>>

-----------------------------------------------------------------------------
(* Decisions on one booking, each under its row lock *)

LockBooking(r, b) ==
    /\ pc[r] = "idle"
    /\ status[b] # "none"
    /\ RowFree(b)
    /\ pc' = [pc EXCEPT ![r] = "deciding"]
    /\ target' = [target EXCEPT ![r] = b]
    /\ UNCHANGED <<clockVars, masterVars, rowVars, wanted, draft>>

\* The row is pending and its venue, read now, is active; then the venue's lock.
BeginApproval(r) ==
    /\ target[r] \in Booking
    /\ status[target[r]] = "pending"
    /\ venue[terms[target[r]].venue].active
    /\ GoOn(r, "deciding", "approving", {terms[target[r]]})

GrantApproval(r) ==
    /\ \A t \in wanted[r] : VenueLockFree(t.venue) /\ ~Taken(t) /\ ~Blocked(t)
    /\ GoOn(r, "approving", "granted", wanted[r])

Settle(r, b, to) ==
    /\ target[r] = b
    /\ status' = [status EXCEPT ![b] = to]
    /\ EndTxn(r)
    /\ UNCHANGED <<clockVars, masterVars, terms>>

Record(b, decision) == trail' = [trail EXCEPT ![b] = Append(@, decision)]

ApproveBooking(r, b) ==
    /\ pc[r] = "granted"
    /\ Settle(r, b, "approved")
    /\ Record(b, "approve")

RejectBooking(r, b) ==
    /\ pc[r] = "deciding" /\ status[b] = "pending"
    /\ Settle(r, b, "rejected")
    /\ Record(b, "reject")

\* Until its last day is over.
RevokeBooking(r, b) ==
    /\ pc[r] = "deciding" /\ status[b] = "approved"
    /\ terms[b].last >= today
    /\ Settle(r, b, "cancelled")
    /\ Record(b, "revoke")

\* Mutant: whatever is not over can be cancelled.
CancelAnyStatus(r, b) ==
    /\ pc[r] = "deciding" /\ target[r] = b
    /\ terms[b].owner \in Club
    /\ IF terms[b].kind = "temp" THEN ~BookingStarted(terms[b])
                                 ELSE status[b] = "pending" \/ terms[b].first > today
    /\ Settle(r, b, "cancelled")
    /\ UNCHANGED trail

\* By the club: a temporary booking before it starts, a fixed one while it is
\* pending or before its semester.
CancelBooking(r, b) ==
    /\ pc[r] = "deciding" /\ status[b] \in Live
    /\ terms[b].owner \in Club
    /\ IF terms[b].kind = "temp" THEN ~BookingStarted(terms[b])
                                 ELSE status[b] = "pending" \/ terms[b].first > today
    /\ Settle(r, b, "cancelled")
    /\ UNCHANGED trail

-----------------------------------------------------------------------------
(* The master data, the intake window and the clock.  None of them waits    *)
(* for the locks above.                                                     *)

UpdateVenue(v, flags) ==
    /\ venue' = [venue EXCEPT ![v] = flags]
    /\ UNCHANGED <<clockVars, rules, suspended, window, rowVars, txnVars>>

CreateRule(rule) ==
    /\ venue[rule.venue].active
    /\ rules' = rules \cup {rule}
    /\ UNCHANGED <<clockVars, venue, suspended, window, rowVars, txnVars>>

DeleteRule(rule) ==
    /\ rules' = rules \ {rule}
    /\ UNCHANGED <<clockVars, venue, suspended, window, rowVars, txnVars>>

SuspendClub(c, until) ==
    /\ until >= today
    /\ suspended' = [suspended EXCEPT ![c] = until]
    /\ UNCHANGED <<clockVars, venue, rules, window, rowVars, txnVars>>

LiftClubSuspension(c) ==
    /\ suspended[c] # 0
    /\ suspended' = [suspended EXCEPT ![c] = 0]
    /\ UNCHANGED <<clockVars, venue, rules, window, rowVars, txnVars>>

\* update_settings: the guard reads, then the setting is written.
GuardWindow(r, w) ==
    /\ pc[r] = "idle"
    /\ GuardPasses(w)
    /\ pc' = [pc EXCEPT ![r] = "setting"]
    /\ draft' = [draft EXCEPT ![r] = w]
    /\ UNCHANGED <<clockVars, masterVars, rowVars, wanted, target>>

WriteWindow(r) ==
    /\ pc[r] = "setting"
    /\ window' = draft[r]
    /\ EndTxn(r)
    /\ UNCHANGED <<clockVars, venue, rules, suspended, rowVars>>

NextPeriod ==
    /\ started < Periods
    /\ started' = started + 1
    /\ UNCHANGED <<today, masterVars, rowVars, txnVars>>

Midnight ==
    /\ today < MaxDay
    /\ today' = today + 1
    /\ started' = 0
    /\ UNCHANGED <<masterVars, rowVars, txnVars>>

-----------------------------------------------------------------------------
Init ==
    /\ today = 1 /\ started = 0
    /\ venue \in [Venue -> VenueFlags]
    /\ rules = {}
    /\ suspended = [c \in Club |-> 0]
    /\ window = NoWindow
    /\ status = [b \in Booking |-> "none"]
    /\ terms = [b \in Booking |-> NoTerms]
    /\ trail = [b \in Booking |-> <<>>]
    /\ pc = [r \in Txn |-> "idle"]
    /\ wanted = [r \in Txn |-> {}]
    /\ target = [r \in Txn |-> NoBooking]
    /\ draft = [r \in Txn |-> NoWindow]

Asking(r) ==
    \/ \E batch \in Batches : AskTemp(r, batch)
    \/ \E a \in FixedAsks : AskFixed(r, a)
    \/ CheckClub(r)
    \/ \E ids \in SUBSET Booking : \E rows \in [ids -> wanted[r]] : InsertBookings(r, rows)

Entering(r) ==
    \/ \E t \in ManualAsks : AskManual(r, t)
    \/ GrantManual(r)
    \/ \E b \in Booking : InsertManual(r, b)

Deciding(r) ==
    \/ \E b \in Booking : LockBooking(r, b)
    \/ BeginApproval(r)
    \/ GrantApproval(r)
    \/ \E b \in Booking : \/ ApproveBooking(r, b) \/ RejectBooking(r, b)
                          \/ RevokeBooking(r, b) \/ CancelBooking(r, b)

Setting(r) ==
    \/ \E w \in Windows : GuardWindow(r, w)
    \/ WriteWindow(r)

Administration ==
    \/ \E v \in Venue, flags \in VenueFlags : UpdateVenue(v, flags)
    \/ \E rule \in Rules : CreateRule(rule) \/ DeleteRule(rule)
    \/ \E c \in Club : LiftClubSuspension(c) \/ \E until \in Suspensions : SuspendClub(c, until)
    \/ NextPeriod
    \/ Midnight

Next ==
    \/ \E r \in Txn : Asking(r) \/ Entering(r) \/ Deciding(r) \/ Setting(r) \/ Rollback(r)
    \/ Administration

Spec == Init /\ [][Next]_vars

-----------------------------------------------------------------------------
(* Correctness *)

Approved == {b \in Booking : status[b] = "approved"}

(* No venue is given away twice for the same period of a day: two temporary  *)
(* and two fixed bookings never, a temporary and a fixed one only on a day   *)
(* that was over when the fixed one was approved.  The approvals of two      *)
(* clashing requests, a manual booking and a cancellation may interleave.    *)
NoDoubleUse ==
    \A b, c \in Approved : b # c =>
        \A x \in Cells(terms[b]) \cap Cells(terms[c]) :
            terms[b].kind # terms[c].kind /\ x[2] < today

(* Why no venue is given away twice: the venue's lock admits one approval at *)
(* a time, and until it commits no other makes what it was granted taken.    *)
GrantInv ==
    /\ \A r, s \in Txn : pc[r] = "granted" /\ pc[s] = "granted" =>
          \A t \in wanted[r], u \in wanted[s] : t.venue = u.venue => r = s
    /\ \A r \in Txn : pc[r] = "granted" =>
          \A t \in wanted[r], b \in Approved :
              \A x \in Cells(t) \cap Cells(terms[b]) :
                  t.kind = "fixed" /\ terms[b].kind = "temp" /\ x[2] < today

(* A club does not hold two live temporary bookings of the same period,      *)
(* however often a request is sent.                                          *)
NoDuplicates ==
    \A b, c \in Booking :
        /\ b # c
        /\ status[b] \in Live /\ status[c] \in Live
        /\ terms[b].kind = "temp" /\ terms[c].kind = "temp"
        /\ terms[b].owner \in Club /\ terms[b].owner = terms[c].owner
        => Cells(terms[b]) \cap Cells(terms[c]) = {}

(* A club holds at most MaxFixedSlots weekly slots of a semester, however    *)
(* many requests it sends at once.                                           *)
SlotQuota ==
    \A c \in Club : \A d \in 1 .. MaxDay :
        Cardinality(UsedFixedPeriods(c, NextSemester[d].first)) <= MaxFixedSlots

(* A club gets past neither limit by sending several requests at once.       *)
ClubLimits == NoDuplicates /\ SlotQuota

(* The approval records of a booking tell exactly how it came to its status: *)
(* in particular a cancelled booking has a revocation on record if and only  *)
(* if it was the office that took it back.                                   *)
Trails(s, club) ==
    CASE s \in {"none", "pending"} -> {<<>>}
      [] s = "approved" -> {IF club THEN <<"approve">> ELSE <<>>}
      [] s = "rejected" -> IF club THEN {<<"reject">>} ELSE {}
      [] s = "cancelled" -> IF club THEN {<<>>, <<"approve">>, <<"approve", "revoke">>}
                                    ELSE {<<"revoke">>}

TrailMatchesStatus ==
    \A b \in Booking : trail[b] \in Trails(status[b], terms[b].owner \in Club)

(* The rows, their trails and what an approval has been granted agree,       *)
(* whatever requests, decisions and manual bookings are under way.           *)
RecordsInv == TypeOK /\ TrailMatchesStatus /\ GrantInv

(* What a booking has settled on stays, and its terms never change, whatever *)
(* decision was under way.                                                   *)
SettledForGood ==
    [][\A b \in Booking :
          /\ status[b] \in Settled => UNCHANGED <<status[b], trail[b]>>
          /\ status[b] # "none" => terms'[b] = terms[b]
          /\ status[b] = "approved" => status'[b] \in {"approved", "cancelled"}]_vars

(* The transactions implement the calendar that claims in one step.          *)
Calendar == INSTANCE VenueCalendar
    WITH claim <- [b \in Booking |-> IF status[b] = "approved" THEN Cells(terms[b]) ELSE {}]
CalendarSpec == Calendar!Spec

(* "A venue that is out of use is not given out any more."                   *)
NoApprovalOfDisabledVenue ==
    [][\A b \in Booking :
          status[b] = "pending" /\ status'[b] = "approved" => venue[terms[b].venue].active]_vars

(* "Changing the intake window must not change the semester of the round     *)
(* once requests were received."                                             *)
RoundKeepsItsSemester ==
    [][LET old == FixedTargetSemester(window)
       IN  window' # window /\ FixedTargetSemester(window)' # old => Filed(old.first) = {}]_vars

(* "Please finish the requests of this round first": when they all are, the  *)
(* window of the next semester's round can be set before that semester.      *)
NextRoundCanBeSet ==
    \A w \in Windows :
        /\ w.from > today
        /\ window # NoWindow /\ today > window.until
        /\ \A b \in Booking : status[b] # "none" /\ terms[b].kind = "fixed" => status[b] # "pending"
        => GuardPasses(w)
=============================================================================
