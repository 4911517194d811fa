---------------------------- MODULE VenueCalendar ----------------------------
(***************************************************************************)
(* What the booking of venues promises, without its transactions: a        *)
(* calendar in which a booking claims all its cells (a venue, a day and a  *)
(* period) in one indivisible step, and only when no other booking holds   *)
(* one of them that is not over yet.  VenueBookings implements it.         *)
(***************************************************************************)
EXTENDS Integers

CONSTANTS
    Booking,   \* identities of the bookings
    Cell       \* <<venue, day, period>>

VARIABLES
    today,
    claim      \* the cells each booking holds

calendarVars == <<today, claim>>

Init ==
    /\ today = 1
    /\ claim = [b \in Booking |-> {}]

\* A booking claims cells none of which, from today on, is another's.
Claim(b) ==
    /\ claim[b] = {}
    /\ claim'[b] \subseteq Cell
    /\ \A c \in Booking : \A x \in claim'[b] \cap claim[c] : x[2] < today
    /\ claim' = [claim EXCEPT ![b] = claim'[b]]
    /\ UNCHANGED today

Release(b) ==
    /\ claim' = [claim EXCEPT ![b] = {}]
    /\ UNCHANGED today

NextDay ==
    /\ today' = today + 1
    /\ UNCHANGED claim

Next ==
    \/ \E b \in Booking : Claim(b) \/ Release(b)
    \/ NextDay

Spec == Init /\ [][Next]_calendarVars
=============================================================================
