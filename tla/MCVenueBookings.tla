--------------------------- MODULE MCVenueBookings ---------------------------
(* Instances of VenueBookings for TLC: weeks of two days, one period a day,  *)
(* semesters of two days, the first of which starts on the second day.       *)
EXTENDS VenueBookings, TLC

CONSTANTS c1, office, hall, b1, b2, r1, r2, none

Temp(o, d) == [kind |-> "temp", owner |-> o, venue |-> hall, first |-> d, last |-> d,
               slots |-> {<<Weekday(d), 1>>}]

\* Two bookings at once, and one that overlaps the first; a fixed booking
\* whose slot falls on the same day 2, on which the office enters one too.
MCBatches == {{Temp(c1, 2), Temp(c1, 3)}, {Temp(c1, 2)}}
MCFixedAsks == {[owner |-> c1, venue |-> hall, slots |-> {<<0, 1>>}]}
MCTwoSlots == MCFixedAsks \cup {[owner |-> c1, venue |-> hall, slots |-> {<<0, 1>>, <<1, 1>>}]}
MCManualAsks == {Temp(office, 2)}
MCRules == {[venue |-> hall, first |-> 2, last |-> 3, weekdays |-> {0}, periods |-> {1}]}
Open_ == [active |-> TRUE, fixed |-> TRUE, temp |-> TRUE]
MCVenueFlags == {Open_, [Open_ EXCEPT !.active = FALSE]}

\* The first window takes requests for days 2 .. 3, the second for what follows.
MCWindows == {[from |-> 1, until |-> 1], [from |-> 3, until |-> 3]}
MCFirstWindow == {[from |-> 1, until |-> 1]}
MCNextSemester == [d \in 1 .. 3 |-> IF d = 1 THEN [first |-> 2, last |-> 3]
                                             ELSE [first |-> 4, last |-> 5]]

Symmetry == Permutations(Booking) \cup Permutations(Txn)
=============================================================================
