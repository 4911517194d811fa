------------------------ MODULE VenueBookingsProofs ------------------------
(***************************************************************************)
(* Theorems about VenueBookings, for every set of bookings, venues, clubs, *)
(* transactions and requests, any semesters and any length of week.        *)
(***************************************************************************)
EXTENDS VenueBookings, FiniteSetTheorems, SequenceTheorems, TLAPS

\* Rows that exist have terms; what waits for a decision is a club's.
RowInv ==
    \A b \in Booking :
        /\ status[b] # "none" => terms[b] \in Terms
        /\ status[b] # "none" /\ terms[b].kind = "temp" => terms[b] \in TempTerms
        /\ status[b] = "pending" => terms[b].owner \in Club

FixedRequest == {t \in Terms : t.kind = "fixed" /\ t.owner \in Club}

\* What a transaction holds at each point.
TxnInv ==
    /\ \A r \in Txn : pc[r] \in {"idle", "asked", "admitted", "manual", "setting"} => target[r] = NoBooking
    /\ \A r \in Txn : pc[r] \in {"deciding", "approving"} => target[r] \in Booking
    /\ \A r \in Txn : target[r] \in Booking => status[target[r]] # "none"
    /\ \A r \in Txn : pc[r] = "approving" \/ (pc[r] = "granted" /\ target[r] \in Booking) =>
          status[target[r]] = "pending" /\ wanted[r] = {terms[target[r]]}
    /\ \A r \in Txn : pc[r] = "manual" \/ (pc[r] = "granted" /\ target[r] = NoBooking) =>
          \E t \in ManualAsks : wanted[r] = {t}
    /\ \A r \in Txn : pc[r] \in {"asked", "admitted"} =>
          wanted[r] \in Batches \/ \E t \in FixedRequest : wanted[r] = {t}
    /\ \A r \in Txn : pc[r] = "setting" => draft[r] \in Windows
    /\ \A r, s \in Txn : target[r] \in Booking /\ target[r] = target[s] => r = s

TypeInv == TypeOK /\ RowInv /\ TxnInv

LEMMA EndTxnEffect ==
  ASSUME TypeInv, NEW r \in Txn, EndTxn(r)
  PROVE  /\ pc' \in [Txn -> {"idle", "asked", "admitted", "deciding", "approving", "manual", "granted", "setting"}]
         /\ wanted' \in [Txn -> SUBSET Terms]
         /\ target' \in [Txn -> Booking \cup {NoBooking}]
         /\ draft' \in [Txn -> Windows \cup {NoWindow}]
         /\ pc'[r] = "idle" /\ wanted'[r] = {} /\ target'[r] = NoBooking /\ draft'[r] = NoWindow
         /\ \A s \in Txn \ {r} : /\ pc'[s] = pc[s] /\ wanted'[s] = wanted[s]
                                 /\ target'[s] = target[s] /\ draft'[s] = draft[s]
  BY DEF TypeInv, TypeOK, EndTxn

\* The end of a transaction leaves the others with what they have locked.
LEMMA EndTxnInv ==
  ASSUME TypeInv, NEW r \in Txn, EndTxn(r),
         \A s \in Txn \ {r} : target[s] \in Booking =>
             status'[target[s]] = status[target[s]] /\ terms'[target[s]] = terms[target[s]]
  PROVE  TxnInv'
<1>1. /\ pc'[r] = "idle" /\ wanted'[r] = {} /\ target'[r] = NoBooking
      /\ \A s \in Txn \ {r} : /\ pc'[s] = pc[s] /\ wanted'[s] = wanted[s]
                              /\ target'[s] = target[s] /\ draft'[s] = draft[s]
  BY EndTxnEffect
<1>2. target'[r] \notin Booking
  BY <1>1, BookingAssumption
<1>3. \A s \in Txn : target'[s] \in Booking =>
          s # r /\ target[s] = target'[s]
          /\ status'[target'[s]] = status[target[s]] /\ terms'[target'[s]] = terms[target[s]]
  BY <1>1, <1>2
<1>4. \A s \in Txn : target'[s] \in Booking => status'[target'[s]] # "none"
  BY <1>1, <1>3 DEF TypeInv, TxnInv
<1>5. \A s \in Txn : pc'[s] = "approving" \/ (pc'[s] = "granted" /\ target'[s] \in Booking) =>
          status'[target'[s]] = "pending" /\ wanted'[s] = {terms'[target'[s]]}
  <2> SUFFICES ASSUME NEW s \in Txn, pc'[s] = "approving" \/ (pc'[s] = "granted" /\ target'[s] \in Booking)
               PROVE  status'[target'[s]] = "pending" /\ wanted'[s] = {terms'[target'[s]]}
    OBVIOUS
  <2>1. s # r /\ target[s] \in Booking /\ pc'[s] = pc[s] /\ target'[s] = target[s]
    BY <1>1 DEF TypeInv, TxnInv
  <2> QED
    BY <1>1, <1>3, <2>1 DEF TypeInv, TxnInv
<1>6. \A s \in Txn : pc'[s] = "manual" \/ (pc'[s] = "granted" /\ target'[s] = NoBooking) =>
          \E t \in ManualAsks : wanted'[s] = {t}
  BY <1>1 DEF TypeInv, TxnInv
<1>7. \A s \in Txn : pc'[s] \in {"asked", "admitted"} =>
          wanted'[s] \in Batches \/ \E t \in FixedRequest : wanted'[s] = {t}
  BY <1>1 DEF TypeInv, TxnInv
<1>8. \A s, t \in Txn : target'[s] \in Booking /\ target'[s] = target'[t] => s = t
  BY <1>2, <1>3 DEF TypeInv, TxnInv
<1>9. /\ \A s \in Txn : pc'[s] \in {"idle", "asked", "admitted", "manual", "setting"} => target'[s] = NoBooking
      /\ \A s \in Txn : pc'[s] \in {"deciding", "approving"} => target'[s] \in Booking
      /\ \A s \in Txn : pc'[s] = "setting" => draft'[s] \in Windows
  BY <1>1 DEF TypeInv, TxnInv
<1> QED
  BY <1>4, <1>5, <1>6, <1>7, <1>8, <1>9 DEF TxnInv

\* A step that only changes what one transaction holds and reads.
LEMMA GoOnEffect ==
  ASSUME TypeInv, NEW r \in Txn, NEW from, NEW to, NEW S,
         to \in {"asked", "admitted", "approving", "manual", "granted"},
         S \in SUBSET Terms, GoOn(r, from, to, S)
  PROVE  /\ pc[r] = from
         /\ TypeOK'
         /\ UNCHANGED <<clockVars, masterVars, rowVars, target, draft>>
         /\ pc'[r] = to /\ wanted'[r] = S
         /\ \A s \in Txn \ {r} : pc'[s] = pc[s] /\ wanted'[s] = wanted[s]
  BY DEF TypeInv, TypeOK, GoOn, clockVars, masterVars, rowVars

LEMMA ManualTyped == ManualAsks \subseteq Terms
  BY ManualAssumption DEF TempTerms

LEMMA BatchTyped ==
  ASSUME NEW batch \in Batches
  PROVE  batch \subseteq Terms /\ batch \subseteq TempTerms
  BY BatchAssumption DEF TempTerms

LEMMA SemesterTyped ==
  ASSUME TypeOK, NEW w \in Windows \cup {NoWindow}
  PROVE  FixedTargetSemester(w) \in [first : Day, last : Day]
  BY CalendarAssumption, WindowAssumption DEF FixedTargetSemester, TypeOK

LEMMA FixedTyped ==
  ASSUME TypeOK, NEW a \in FixedAsks
  PROVE  FixedTerms(a) \in FixedRequest
<1>1. a \in [owner : Club, venue : Venue, slots : SUBSET Slots]
  BY FixedAssumption
<1>2. FixedTargetSemester(window) \in [first : Day, last : Day]
  BY SemesterTyped DEF TypeOK
<1> QED
  BY <1>1, <1>2 DEF FixedTerms, FixedRequest, Terms

LEMMA AskingTyped ==
  ASSUME TypeInv, NEW r \in Txn, Asking(r)
  PROVE  TypeInv'
<1>0. ASSUME NEW from \in {"idle", "asked"}, NEW to \in {"asked", "admitted"}, NEW S,
             S \in Batches \/ \E t \in FixedRequest : S = {t},
             GoOn(r, from, to, S)
      PROVE  TypeInv'
  <2>1. S \in SUBSET Terms
    BY <1>0, BatchTyped DEF FixedRequest
  <2>2. /\ pc[r] = from
        /\ TypeOK'
        /\ UNCHANGED <<clockVars, masterVars, rowVars, target, draft>>
        /\ pc'[r] = to /\ wanted'[r] = S
        /\ \A s \in Txn \ {r} : pc'[s] = pc[s] /\ wanted'[s] = wanted[s]
    BY <1>0, <2>1, GoOnEffect
  <2>3. RowInv'
    BY <2>2 DEF TypeInv, RowInv, rowVars
  <2>4. TxnInv'
    BY <1>0, <2>2 DEF TypeInv, TxnInv, rowVars
  <2> QED
    BY <2>2, <2>3, <2>4 DEF TypeInv
<1>1. ASSUME NEW batch \in Batches, AskTemp(r, batch)
      PROVE  TypeInv'
  BY <1>0, <1>1 DEF AskTemp
<1>2. ASSUME NEW a \in FixedAsks, AskFixed(r, a)
      PROVE  TypeInv'
  <2>1. FixedTerms(a) \in FixedRequest
    BY FixedTyped DEF TypeInv
  <2> QED
    BY <1>0, <1>2, <2>1 DEF AskFixed
<1>3. CASE CheckClub(r)
  <2>1. pc[r] = "asked" /\ GoOn(r, "asked", "admitted", wanted[r])
    BY <1>3 DEF CheckClub, GoOn
  <2>2. wanted[r] \in Batches \/ \E t \in FixedRequest : wanted[r] = {t}
    BY <2>1 DEF TypeInv, TxnInv
  <2> QED
    BY <1>0, <2>1, <2>2
<1>4. ASSUME NEW ids \in SUBSET Booking, NEW rows \in [ids -> wanted[r]], InsertBookings(r, rows)
      PROVE  TypeInv'
  <2>0. DOMAIN rows = ids
    OBVIOUS
  <2>1. /\ pc[r] = "admitted"
        /\ \A b \in ids : status[b] = "none"
        /\ status' = [b \in Booking |-> IF b \in ids THEN "pending" ELSE status[b]]
        /\ terms' = [b \in Booking |-> IF b \in ids THEN rows[b] ELSE terms[b]]
        /\ EndTxn(r)
        /\ UNCHANGED <<clockVars, masterVars, trail>>
    BY <1>4, <2>0 DEF InsertBookings
  <2>2. wanted[r] \in Batches \/ \E t \in FixedRequest : wanted[r] = {t}
    BY <2>1 DEF TypeInv, TxnInv
  <2>3. \A t \in wanted[r] : t \in Terms /\ t.owner \in Club /\ (t.kind = "temp" => t \in TempTerms)
    BY <2>2, BatchTyped, BatchAssumption DEF FixedRequest
  <2>4. TypeOK'
    BY <2>1, <2>3, EndTxnEffect DEF TypeInv, TypeOK, Status, Live, clockVars, masterVars
  <2>5. RowInv'
    BY <2>1, <2>3 DEF TypeInv, RowInv
  <2>6. \A b \in Booking : status[b] # "none" => status'[b] = status[b] /\ terms'[b] = terms[b]
    BY <2>1
  <2>7. TxnInv'
    BY <2>1, <2>6, EndTxnInv DEF TypeInv, TxnInv
  <2> QED
    BY <2>4, <2>5, <2>7 DEF TypeInv
<1> QED
  BY <1>1, <1>2, <1>3, <1>4 DEF Asking

LEMMA EnteringTyped ==
  ASSUME TypeInv, NEW r \in Txn, Entering(r)
  PROVE  TypeInv'
<1>0. ASSUME NEW from \in {"idle", "manual"}, NEW to \in {"manual", "granted"}, NEW S,
             \E t \in ManualAsks : S = {t},
             target[r] = NoBooking,
             GoOn(r, from, to, S)
      PROVE  TypeInv'
  <2>1. S \in SUBSET Terms
    BY <1>0, ManualTyped
  <2>2. /\ pc[r] = from
        /\ TypeOK'
        /\ UNCHANGED <<clockVars, masterVars, rowVars, target, draft>>
        /\ pc'[r] = to /\ wanted'[r] = S
        /\ \A s \in Txn \ {r} : pc'[s] = pc[s] /\ wanted'[s] = wanted[s]
    BY <1>0, <2>1, GoOnEffect
  <2>3. RowInv'
    BY <2>2 DEF TypeInv, RowInv, rowVars
  <2>4. TxnInv'
    BY <1>0, <2>2, BookingAssumption DEF TypeInv, TxnInv, rowVars
  <2> QED
    BY <2>2, <2>3, <2>4 DEF TypeInv
<1>1. ASSUME NEW t \in ManualAsks, AskManual(r, t)
      PROVE  TypeInv'
  <2>1. GoOn(r, "idle", "manual", {t}) /\ pc[r] = "idle"
    BY <1>1 DEF AskManual, GoOn
  <2>2. target[r] = NoBooking
    BY <2>1 DEF TypeInv, TxnInv
  <2> QED
    BY <1>0, <2>1, <2>2
<1>2. CASE GrantManual(r)
  <2>1. GoOn(r, "manual", "granted", wanted[r]) /\ pc[r] = "manual"
    BY <1>2 DEF GrantManual, GoOn
  <2>2. target[r] = NoBooking /\ \E t \in ManualAsks : wanted[r] = {t}
    BY <2>1 DEF TypeInv, TxnInv
  <2> QED
    BY <1>0, <2>1, <2>2
<1>3. ASSUME NEW b \in Booking, InsertManual(r, b)
      PROVE  TypeInv'
  <2>1. \E t \in ManualAsks : wanted[r] = {t}
    BY <1>3 DEF InsertManual, TypeInv, TxnInv
  <2>2. PICK t \in ManualAsks : wanted[r] = {t}
    BY <2>1
  <2>3. /\ status[b] = "none"
        /\ status' = [status EXCEPT ![b] = "approved"]
        /\ terms' = [terms EXCEPT ![b] = t]
        /\ EndTxn(r)
        /\ UNCHANGED <<clockVars, masterVars, trail>>
    BY <1>3, <2>2 DEF InsertManual
  <2>4. t \in Terms /\ t \in TempTerms
    BY ManualTyped, ManualAssumption
  <2>5. TypeOK'
    BY <2>3, <2>4, EndTxnEffect DEF TypeInv, TypeOK, Status, Live, clockVars, masterVars
  <2>6. RowInv'
    BY <2>3, <2>4 DEF TypeInv, TypeOK, RowInv
  <2>7. \A c \in Booking : status[c] # "none" => status'[c] = status[c] /\ terms'[c] = terms[c]
    BY <2>3 DEF TypeInv, TypeOK
  <2>8. TxnInv'
    BY <2>3, <2>7, EndTxnInv DEF TypeInv, TxnInv
  <2> QED
    BY <2>5, <2>6, <2>8 DEF TypeInv
<1> QED
  BY <1>1, <1>2, <1>3 DEF Entering

\* What settling a booking does, beyond its approval records.
LEMMA SettleTyped ==
  ASSUME TypeInv, NEW r \in Txn, NEW b \in Booking, NEW to,
         to \in {"approved", "rejected", "cancelled"}, Settle(r, b, to),
         trail' \in [Booking -> Seq({"approve", "reject", "revoke"})]
  PROVE  TypeInv'
<1>1. /\ target[r] = b
      /\ status' = [status EXCEPT ![b] = to]
      /\ EndTxn(r)
      /\ UNCHANGED <<clockVars, masterVars, terms>>
      /\ status[b] # "none"
  BY DEF Settle, TypeInv, TxnInv
<1>2. TypeOK'
  BY <1>1, EndTxnEffect DEF TypeInv, TypeOK, Status, Live, Settled, clockVars, masterVars
<1>3. \A c \in Booking : /\ status'[c] = IF c = b THEN to ELSE status[c]
                         /\ status'[c] # "none" <=> status[c] # "none"
  BY <1>1 DEF TypeInv, TypeOK
<1>4. RowInv'
  BY <1>1, <1>3 DEF TypeInv, RowInv
<1>5. \A s \in Txn \ {r} : target[s] # b
  BY <1>1 DEF TypeInv, TxnInv
<1>6. TxnInv'
  BY <1>1, <1>3, <1>5, EndTxnInv
<1> QED
  BY <1>2, <1>4, <1>6 DEF TypeInv

LEMMA RecordTyped ==
  ASSUME TypeInv, NEW b \in Booking, NEW d \in {"approve", "reject", "revoke"}, Record(b, d)
  PROVE  trail' \in [Booking -> Seq({"approve", "reject", "revoke"})]
<1>1. trail[b] \in Seq({"approve", "reject", "revoke"})
  BY DEF TypeInv, TypeOK
<1>2. Append(trail[b], d) \in Seq({"approve", "reject", "revoke"})
  BY <1>1
<1> QED
  BY <1>2 DEF TypeInv, TypeOK, Record

LEMMA DecidingTyped ==
  ASSUME TypeInv, NEW r \in Txn, Deciding(r)
  PROVE  TypeInv'
<1>1. ASSUME NEW b \in Booking, LockBooking(r, b)
      PROVE  TypeInv'
  <2>1. /\ pc[r] = "idle" /\ status[b] # "none"
        /\ \A s \in Txn : target[s] # b
        /\ pc' = [pc EXCEPT ![r] = "deciding"]
        /\ target' = [target EXCEPT ![r] = b]
        /\ UNCHANGED <<today, started, venue, rules, suspended, window, status, terms, trail, wanted, draft>>
    BY <1>1 DEF LockBooking, RowFree, clockVars, masterVars, rowVars
  <2>2. TypeOK'
    BY <2>1 DEF TypeInv, TypeOK
  <2>3. RowInv'
    BY <2>1 DEF TypeInv, RowInv
  <2>4. TxnInv'
    BY <2>1, BookingAssumption DEF TypeInv, TypeOK, TxnInv
  <2> QED
    BY <2>2, <2>3, <2>4 DEF TypeInv
<1>2. ASSUME NEW from \in {"deciding", "approving"}, NEW to \in {"approving", "granted"},
             target[r] \in Booking,
             status[target[r]] = "pending",
             GoOn(r, from, to, {terms[target[r]]})
      PROVE  TypeInv'
  <2> DEFINE S == {terms[target[r]]}
  <2>1. S \in SUBSET Terms
    BY <1>2 DEF TypeInv, RowInv
  <2>2. GoOn(r, from, to, S)
    BY <1>2
  <2> HIDE DEF S
  <2>3. /\ pc[r] = from
        /\ TypeOK'
        /\ UNCHANGED <<clockVars, masterVars, rowVars, target, draft>>
        /\ pc'[r] = to /\ wanted'[r] = S
        /\ \A s \in Txn \ {r} : pc'[s] = pc[s] /\ wanted'[s] = wanted[s]
    BY <1>2, <2>1, <2>2, GoOnEffect
  <2>4. RowInv'
    BY <2>3 DEF TypeInv, RowInv, rowVars
  <2>5. TxnInv'
    BY <1>2, <2>3, BookingAssumption DEF TypeInv, TxnInv, rowVars, S
  <2> QED
    BY <2>3, <2>4, <2>5 DEF TypeInv
<1>3. CASE BeginApproval(r)
  BY <1>2, <1>3 DEF BeginApproval
<1>4. CASE GrantApproval(r)
  <2>1. pc[r] = "approving" /\ GoOn(r, "approving", "granted", wanted[r])
    BY <1>4 DEF GrantApproval, GoOn
  <2>2. target[r] \in Booking /\ status[target[r]] = "pending" /\ wanted[r] = {terms[target[r]]}
    BY <2>1 DEF TypeInv, TxnInv
  <2> QED
    BY <1>2, <2>1, <2>2
<1>5. ASSUME NEW b \in Booking, ApproveBooking(r, b)
      PROVE  TypeInv'
  BY <1>5, SettleTyped, RecordTyped DEF ApproveBooking
<1>6. ASSUME NEW b \in Booking, RejectBooking(r, b)
      PROVE  TypeInv'
  BY <1>6, SettleTyped, RecordTyped DEF RejectBooking
<1>7. ASSUME NEW b \in Booking, RevokeBooking(r, b)
      PROVE  TypeInv'
  BY <1>7, SettleTyped, RecordTyped DEF RevokeBooking
<1>8. ASSUME NEW b \in Booking, CancelBooking(r, b)
      PROVE  TypeInv'
  BY <1>8, SettleTyped DEF CancelBooking, TypeInv, TypeOK
<1> QED
  BY <1>1, <1>3, <1>4, <1>5, <1>6, <1>7, <1>8 DEF Deciding

LEMMA OtherTyped ==
  ASSUME TypeInv,
         \/ \E r \in Txn : Setting(r) \/ Rollback(r)
         \/ Administration
  PROVE  TypeInv'
<1>1. ASSUME NEW r \in Txn, Rollback(r)
      PROVE  TypeInv'
  <2>1. EndTxn(r) /\ UNCHANGED <<today, started, venue, rules, suspended, window, status, terms, trail>>
    BY <1>1 DEF Rollback, clockVars, masterVars, rowVars
  <2> QED
    BY <2>1, EndTxnEffect, EndTxnInv DEF TypeInv, TypeOK, RowInv
<1>2. ASSUME NEW r \in Txn, NEW w \in Windows, GuardWindow(r, w)
      PROVE  TypeInv'
  <2>1. /\ pc[r] = "idle"
        /\ pc' = [pc EXCEPT ![r] = "setting"]
        /\ draft' = [draft EXCEPT ![r] = w]
        /\ UNCHANGED <<today, started, venue, rules, suspended, window, status, terms, trail, wanted, target>>
    BY <1>2 DEF GuardWindow, clockVars, masterVars, rowVars
  <2> QED
    BY <2>1 DEF TypeInv, TypeOK, RowInv, TxnInv
<1>3. ASSUME NEW r \in Txn, WriteWindow(r)
      PROVE  TypeInv'
  <2>1. /\ pc[r] = "setting" /\ window' = draft[r] /\ EndTxn(r)
        /\ UNCHANGED <<today, started, venue, rules, suspended, status, terms, trail>>
    BY <1>3 DEF WriteWindow, clockVars, rowVars
  <2>2. window' \in Windows
    BY <2>1 DEF TypeInv, TxnInv
  <2> QED
    BY <2>1, <2>2, EndTxnEffect, EndTxnInv DEF TypeInv, TypeOK, RowInv
<1>4. CASE Administration
  <2>1. UNCHANGED <<status, terms, trail, pc, wanted, target, draft>>
    BY <1>4 DEF Administration, UpdateVenue, CreateRule, DeleteRule, SuspendClub,
                LiftClubSuspension, NextPeriod, Midnight, rowVars, txnVars
  <2>2. RowInv' /\ TxnInv'
    BY <2>1 DEF TypeInv, RowInv, TxnInv
  <2>3. TypeOK'
    <3> USE DEF clockVars, masterVars, rowVars, txnVars
    <3>1. ASSUME NEW v \in Venue, NEW flags \in VenueFlags, UpdateVenue(v, flags)
          PROVE  TypeOK'
      BY <3>1, MasterAssumption DEF TypeInv, TypeOK, UpdateVenue
    <3>2. ASSUME NEW rule \in Rules, CreateRule(rule) \/ DeleteRule(rule)
          PROVE  TypeOK'
      BY <3>2 DEF TypeInv, TypeOK, CreateRule, DeleteRule
    <3>3. ASSUME NEW c \in Club, LiftClubSuspension(c) \/ \E until \in Suspensions : SuspendClub(c, until)
          PROVE  TypeOK'
      BY <3>3 DEF TypeInv, TypeOK, LiftClubSuspension, SuspendClub
    <3>4. CASE NextPeriod \/ Midnight
      BY <3>4, NumberAssumption DEF TypeInv, TypeOK, NextPeriod, Midnight
    <3> QED
      BY <1>4, <3>1, <3>2, <3>3, <3>4 DEF Administration
  <2> QED
    BY <2>2, <2>3 DEF TypeInv
<1> QED
  BY <1>1, <1>2, <1>3, <1>4 DEF Setting

LEMMA InitTyped == Init => TypeInv
<1> SUFFICES ASSUME Init PROVE TypeInv
  OBVIOUS
<1>1. TypeOK
  BY MasterAssumption, NumberAssumption DEF Init, TypeOK, Status
<1>2. RowInv /\ TxnInv
  BY BookingAssumption DEF Init, RowInv, TxnInv
<1> QED
  BY <1>1, <1>2 DEF TypeInv

LEMMA StepTyped == TypeInv /\ [Next]_vars => TypeInv'
<1> SUFFICES ASSUME TypeInv, [Next]_vars PROVE TypeInv'
  OBVIOUS
<1>1. CASE UNCHANGED vars
  BY <1>1 DEF vars, clockVars, masterVars, rowVars, txnVars, TypeInv, TypeOK, RowInv, TxnInv
<1>2. CASE Next
  BY <1>2, AskingTyped, EnteringTyped, DecidingTyped, OtherTyped DEF Next
<1> QED
  BY <1>1, <1>2

(* Every state has its type, every row that exists has terms, and what a     *)
(* transaction is about to write is what it has checked and locked.          *)
THEOREM TypeCorrect == Spec => []TypeInv
<1> QED
  BY InitTyped, StepTyped, PTL DEF Spec

(* Every state has its type: in particular the clock stays within the day.   *)
THEOREM TypeOKHolds == Spec => []TypeOK
<1>1. TypeInv => TypeOK
  BY DEF TypeInv
<1> QED
  BY <1>1, TypeCorrect, PTL

-----------------------------------------------------------------------------
(* No period of a day is given away twice *)

LEMMA TermsFields ==
  ASSUME NEW t \in Terms
  PROVE  /\ t.kind \in {"temp", "fixed"} /\ t.owner \in Club \cup {Office} /\ t.venue \in Venue
         /\ t.first \in Nat /\ t.last \in Nat /\ t.slots \subseteq Slots
  BY DEF Terms, Day

\* A cell that two bookings take makes them clash, and the day of a temporary
\* booking's cell is its date.
LEMMA CellsClash ==
  ASSUME NEW t \in Terms, NEW u \in Terms, NEW x \in Cells(t) \cap Cells(u)
  PROVE  /\ t.venue = u.venue
         /\ Clash(t, u)
         /\ x[2] \in Nat
         /\ t \in TempTerms => x[2] = t.first
         /\ u \in TempTerms => x[2] = u.first
<1> USE TermsFields
<1>1. /\ x \in {t.venue} \X (t.first .. t.last) \X (1 .. Periods)
      /\ x \in {u.venue} \X (u.first .. u.last) \X (1 .. Periods)
      /\ <<Weekday(x[2]), x[3]>> \in t.slots \cap u.slots
  BY DEF Cells
<1>2. /\ x[1] = t.venue /\ x[1] = u.venue
      /\ x[2] \in t.first .. t.last /\ x[2] \in u.first .. u.last
  BY <1>1
<1>3. t.slots \cap u.slots # {}
  BY <1>1
<1>4. x[2] \in Nat /\ t.first <= u.last /\ u.first <= t.last
  BY <1>2
<1>5. (t \in TempTerms => x[2] = t.first) /\ (u \in TempTerms => x[2] = u.first)
  BY <1>2 DEF TempTerms
<1> QED
  BY <1>2, <1>3, <1>4, <1>5 DEF Clash

CalendarInv == NoDoubleUse /\ GrantInv

\* Nothing is approved and no venue's lock is taken.
LEMMA CalendarQuiet ==
  ASSUME TypeInv, CalendarInv, TypeOK', today <= today',
         \A b \in Booking : status'[b] = "approved" => status[b] = "approved" /\ terms'[b] = terms[b],
         \A r \in Txn : pc'[r] = "granted" => pc[r] = "granted" /\ wanted'[r] = wanted[r]
  PROVE  CalendarInv'
<1>0. today \in Nat /\ today' \in Nat
  BY NumberAssumption DEF TypeInv, TypeOK
<1>1. NoDoubleUse'
  <2> SUFFICES ASSUME NEW b \in Approved', NEW c \in Approved', b # c,
                      NEW x \in Cells(terms'[b]) \cap Cells(terms'[c])
               PROVE  terms'[b].kind # terms'[c].kind /\ x[2] < today'
    BY DEF NoDoubleUse, Approved
  <2>1. /\ b \in Approved /\ terms'[b] = terms[b] /\ terms[b] \in Terms
        /\ c \in Approved /\ terms'[c] = terms[c] /\ terms[c] \in Terms
    BY DEF Approved, TypeInv, RowInv
  <2>2. x[2] \in Nat
    BY <2>1, CellsClash
  <2>3. terms[b].kind # terms[c].kind /\ x[2] < today
    BY <2>1 DEF CalendarInv, NoDoubleUse
  <2> QED
    BY <1>0, <2>1, <2>2, <2>3
<1>2. \A r, s \in Txn : pc'[r] = "granted" /\ pc'[s] = "granted" =>
          \A t \in wanted'[r], u \in wanted'[s] : t.venue = u.venue => r = s
  BY DEF CalendarInv, GrantInv
<1>3. ASSUME NEW r \in Txn, pc'[r] = "granted", NEW t \in wanted'[r], NEW b \in Approved',
             NEW x \in Cells(t) \cap Cells(terms'[b])
      PROVE  t.kind = "fixed" /\ terms'[b].kind = "temp" /\ x[2] < today'
  <2>1. /\ b \in Approved /\ terms'[b] = terms[b] /\ terms[b] \in Terms
        /\ pc[r] = "granted" /\ t \in wanted[r] /\ t \in Terms
    BY <1>3 DEF Approved, TypeInv, TypeOK, RowInv
  <2>2. x[2] \in Nat
    BY <1>3, <2>1, CellsClash
  <2>3. t.kind = "fixed" /\ terms[b].kind = "temp" /\ x[2] < today
    BY <1>3, <2>1 DEF CalendarInv, GrantInv
  <2> QED
    BY <1>0, <2>1, <2>2, <2>3
<1>4. GrantInv'
  BY <1>2, <1>3 DEF GrantInv
<1> QED
  BY <1>1, <1>4 DEF CalendarInv

\* A transaction takes the lock of its booking's venue and finds nothing in the way.
LEMMA CalendarGrant ==
  ASSUME TypeInv, CalendarInv, NEW r \in Txn, NEW t \in Terms, wanted[r] = {t},
         VenueLockFree(t.venue), ~Taken(t),
         UNCHANGED <<today, status, terms>>,
         pc' = [pc EXCEPT ![r] = "granted"], wanted' = [wanted EXCEPT ![r] = wanted[r]]
  PROVE  CalendarInv'
<1>0. /\ pc \in [Txn -> {"idle", "asked", "admitted", "deciding", "approving", "manual", "granted", "setting"}]
      /\ wanted \in [Txn -> SUBSET Terms]
  BY DEF TypeInv, TypeOK
<1>1. /\ \A s \in Txn : wanted'[s] = wanted[s]
      /\ \A s \in Txn \ {r} : pc'[s] = pc[s]
  BY <1>0
<1>2. NoDoubleUse'
  BY DEF CalendarInv, NoDoubleUse, Approved
<1>3. \A p, q \in Txn : pc'[p] = "granted" /\ pc'[q] = "granted" =>
          \A u \in wanted'[p], v \in wanted'[q] : u.venue = v.venue => p = q
  <2>1. \A s \in Txn \ {r} : pc[s] = "granted" => \A u \in wanted[s] : u.venue # t.venue
    BY DEF VenueLockFree
  <2> QED
    BY <1>1, <2>1 DEF CalendarInv, GrantInv
<1>4. ASSUME NEW b \in Approved, NEW x \in Cells(t) \cap Cells(terms[b])
      PROVE  t.kind = "fixed" /\ terms[b].kind = "temp" /\ x[2] < today
  <2>1. b \in Booking /\ status[b] = "approved" /\ terms[b] \in Terms
        /\ (terms[b].kind = "temp" => terms[b] \in TempTerms)
    BY DEF Approved, TypeInv, RowInv
  <2>2. Clash(t, terms[b]) /\ x[2] \in Nat
    BY <1>4, <2>1, CellsClash
  <2>3. t.kind = "fixed" /\ terms[b].kind = "temp" /\ ~(terms[b].first >= today)
    BY <2>1, <2>2 DEF Taken
  <2>4. x[2] = terms[b].first
    BY <1>4, <2>1, <2>3, CellsClash
  <2>5. today \in Nat
    BY NumberAssumption DEF TypeInv, TypeOK
  <2> QED
    BY <2>2, <2>3, <2>4, <2>5
<1>5. ASSUME NEW s \in Txn, pc'[s] = "granted", NEW u \in wanted'[s], NEW b \in Approved,
             NEW x \in Cells(u) \cap Cells(terms[b])
      PROVE  u.kind = "fixed" /\ terms[b].kind = "temp" /\ x[2] < today
  BY <1>1, <1>4, <1>5 DEF CalendarInv, GrantInv
<1>6. GrantInv'
  BY <1>3, <1>5 DEF GrantInv, Approved
<1> QED
  BY <1>2, <1>6 DEF CalendarInv

\* The transaction that was granted makes its booking an approved one.
LEMMA CalendarApprove ==
  ASSUME TypeInv, CalendarInv, NEW r \in Txn, NEW b \in Booking, NEW t \in Terms,
         pc[r] = "granted", wanted[r] = {t}, status[b] # "approved",
         today' = today, EndTxn(r),
         status' = [status EXCEPT ![b] = "approved"],
         terms'[b] = t, \A c \in Booking \ {b} : terms'[c] = terms[c]
  PROVE  CalendarInv'
<1>0. /\ \A s \in Txn : pc'[s] = "granted" => s # r /\ pc[s] = "granted" /\ wanted'[s] = wanted[s]
      /\ \A c \in Booking : status'[c] = "approved" <=> c = b \/ status[c] = "approved"
  BY EndTxnEffect DEF TypeInv, TypeOK
<1>1. ASSUME NEW c \in Approved, NEW x \in Cells(t) \cap Cells(terms[c])
      PROVE  t.kind # terms[c].kind /\ x[2] < today
  BY <1>1 DEF CalendarInv, GrantInv
<1>2. NoDoubleUse'
  <2> SUFFICES ASSUME NEW c \in Approved', NEW d \in Approved', c # d,
                      NEW x \in Cells(terms'[c]) \cap Cells(terms'[d])
               PROVE  terms'[c].kind # terms'[d].kind /\ x[2] < today
    BY DEF NoDoubleUse, Approved
  <2>1. CASE c = b
    <3>1. d \in Approved /\ terms'[d] = terms[d]
      BY <1>0, <2>1 DEF Approved
    <3> QED
      BY <1>1, <2>1, <3>1
  <2>2. CASE d = b
    <3>1. c \in Approved /\ terms'[c] = terms[c]
      BY <1>0, <2>2 DEF Approved
    <3>2. x \in Cells(t) \cap Cells(terms[c])
      BY <2>2, <3>1
    <3> QED
      BY <1>1, <2>2, <3>1, <3>2
  <2>3. CASE c # b /\ d # b
    <3>1. /\ c \in Approved /\ terms'[c] = terms[c]
          /\ d \in Approved /\ terms'[d] = terms[d]
      BY <1>0, <2>3 DEF Approved
    <3> QED
      BY <3>1 DEF CalendarInv, NoDoubleUse
  <2> QED
    BY <2>1, <2>2, <2>3
<1>3. \A p, q \in Txn : pc'[p] = "granted" /\ pc'[q] = "granted" =>
          \A u \in wanted'[p], v \in wanted'[q] : u.venue = v.venue => p = q
  BY <1>0 DEF CalendarInv, GrantInv
<1>4. ASSUME NEW s \in Txn, pc'[s] = "granted", NEW u \in wanted'[s], NEW c \in Approved',
             NEW x \in Cells(u) \cap Cells(terms'[c])
      PROVE  u.kind = "fixed" /\ terms'[c].kind = "temp" /\ x[2] < today
  <2>1. s # r /\ pc[s] = "granted" /\ u \in wanted[s] /\ u \in Terms
    BY <1>0, <1>4 DEF TypeInv, TypeOK
  <2>2. CASE c = b
    <3>1. u.venue = t.venue
      BY <1>4, <2>1, <2>2, CellsClash
    <3>2. s = r
      BY <2>1, <3>1 DEF CalendarInv, GrantInv
    <3> QED
      BY <2>1, <3>2
  <2>3. CASE c # b
    <3>1. c \in Approved /\ terms'[c] = terms[c]
      BY <1>0, <2>3 DEF Approved
    <3> QED
      BY <1>4, <2>1, <3>1 DEF CalendarInv, GrantInv
  <2> QED
    BY <2>2, <2>3
<1>5. GrantInv'
  BY <1>3, <1>4 DEF GrantInv
<1> QED
  BY <1>2, <1>5 DEF CalendarInv

\* The clock and the rows, for the steps that only change master data and time.
LEMMA AdministrationEffect ==
  ASSUME TypeInv, Administration
  PROVE  UNCHANGED <<rowVars, txnVars>> /\ today <= today'
  BY NumberAssumption DEF TypeInv, TypeOK, Administration, UpdateVenue, CreateRule, DeleteRule, SuspendClub,
     LiftClubSuspension, NextPeriod, Midnight, clockVars

\* The end of a transaction grants nothing.
LEMMA EndTxnGrantsNothing ==
  ASSUME TypeInv, NEW r \in Txn, EndTxn(r)
  PROVE  \A s \in Txn : pc'[s] # "idle" => /\ pc[s] = pc'[s] /\ wanted'[s] = wanted[s]
                                           /\ target'[s] = target[s] /\ s # r
  BY EndTxnEffect

LEMMA CalendarStep ==
  ASSUME TypeInv, CalendarInv, [Next]_vars
  PROVE  CalendarInv'
<1>0. TypeOK' /\ today \in Nat
  BY StepTyped, NumberAssumption DEF TypeInv, TypeOK
<1>1. CASE UNCHANGED vars
  BY <1>0, <1>1, CalendarQuiet DEF vars, clockVars, rowVars, txnVars
<1>2. CASE Administration
  BY <1>0, <1>2, AdministrationEffect, CalendarQuiet DEF rowVars, txnVars
<1>3. ASSUME NEW r \in Txn, Rollback(r) \/ Setting(r)
      PROVE  CalendarInv'
  <2>1. CASE Rollback(r) \/ WriteWindow(r)
    <3>1. EndTxn(r) /\ UNCHANGED <<today, status, terms>>
      BY <2>1 DEF Rollback, WriteWindow, clockVars, rowVars
    <3> QED
      BY <1>0, <3>1, EndTxnGrantsNothing, CalendarQuiet
  <2>2. ASSUME NEW w \in Windows, GuardWindow(r, w)
        PROVE  CalendarInv'
    <3>1. /\ pc' = [pc EXCEPT ![r] = "setting"]
          /\ UNCHANGED <<today, status, terms, wanted>>
      BY <2>2 DEF GuardWindow, clockVars, rowVars
    <3>2. \A s \in Txn : pc'[s] = "granted" => pc[s] = "granted" /\ wanted'[s] = wanted[s]
      BY <3>1 DEF TypeInv, TypeOK
    <3> QED
      BY <1>0, <3>1, <3>2, CalendarQuiet
  <2> QED
    BY <1>3, <2>1, <2>2 DEF Setting
<1>4. ASSUME NEW r \in Txn, NEW from, NEW to, NEW S,
             to \in {"asked", "admitted", "approving", "manual"}, GoOn(r, from, to, S)
      PROVE  CalendarInv'
  <2>1. /\ pc' = [pc EXCEPT ![r] = to]
        /\ wanted' = [wanted EXCEPT ![r] = S]
        /\ UNCHANGED <<today, status, terms>>
    BY <1>4 DEF GoOn, clockVars, rowVars
  <2>2. \A s \in Txn : pc'[s] = "granted" => pc[s] = "granted" /\ wanted'[s] = wanted[s]
    BY <1>4, <2>1 DEF TypeInv, TypeOK
  <2> QED
    BY <1>0, <2>1, <2>2, CalendarQuiet
<1>5. ASSUME NEW r \in Txn, Asking(r)
      PROVE  CalendarInv'
  <2>1. ASSUME NEW ids \in SUBSET Booking, NEW rows \in [ids -> wanted[r]], InsertBookings(r, rows)
        PROVE  CalendarInv'
    <3>1. /\ EndTxn(r)
          /\ UNCHANGED today
          /\ status' = [b \in Booking |-> IF b \in DOMAIN rows THEN "pending" ELSE status[b]]
          /\ terms' = [b \in Booking |-> IF b \in DOMAIN rows THEN rows[b] ELSE terms[b]]
      BY <2>1 DEF InsertBookings, clockVars
    <3>2. \A b \in Booking : status'[b] = "approved" => status[b] = "approved" /\ terms'[b] = terms[b]
      BY <3>1
    <3> QED
      BY <1>0, <3>1, <3>2, EndTxnGrantsNothing, CalendarQuiet
  <2>2. ASSUME NEW batch \in Batches, AskTemp(r, batch)
        PROVE  CalendarInv'
    BY <1>4, <2>2 DEF AskTemp
  <2>3. ASSUME NEW a \in FixedAsks, AskFixed(r, a)
        PROVE  CalendarInv'
    BY <1>4, <2>3 DEF AskFixed
  <2>4. CASE CheckClub(r)
    BY <1>4, <2>4 DEF CheckClub
  <2> QED
    BY <1>5, <2>1, <2>2, <2>3, <2>4 DEF Asking
<1>6. ASSUME NEW r \in Txn, Entering(r)
      PROVE  CalendarInv'
  <2>1. CASE GrantManual(r)
    <3>1. pc[r] = "manual" /\ GoOn(r, "manual", "granted", wanted[r])
      BY <2>1 DEF GrantManual, GoOn
    <3>2. PICK t \in ManualAsks : wanted[r] = {t}
      BY <3>1 DEF TypeInv, TxnInv
    <3>3. t \in Terms /\ VenueLockFree(t.venue) /\ ~Taken(t)
      BY <2>1, <3>2, ManualTyped DEF GrantManual
    <3>4. /\ UNCHANGED <<today, status, terms>>
          /\ pc' = [pc EXCEPT ![r] = "granted"] /\ wanted' = [wanted EXCEPT ![r] = wanted[r]]
      BY <3>1 DEF GoOn, clockVars, rowVars
    <3> QED
      BY <3>2, <3>3, <3>4, CalendarGrant
  <2>2. ASSUME NEW b \in Booking, InsertManual(r, b)
        PROVE  CalendarInv'
    <3>1. /\ pc[r] = "granted" /\ target[r] = NoBooking /\ status[b] = "none"
          /\ \E t \in wanted[r] : terms' = [terms EXCEPT ![b] = t]
          /\ status' = [status EXCEPT ![b] = "approved"]
          /\ EndTxn(r)
          /\ today' = today
      BY <2>2 DEF InsertManual, clockVars
    <3>2. PICK t \in ManualAsks : wanted[r] = {t}
      BY <3>1 DEF TypeInv, TxnInv
    <3>3. t \in Terms /\ terms' = [terms EXCEPT ![b] = t]
      BY <3>1, <3>2, ManualTyped
    <3>4. terms'[b] = t /\ \A c \in Booking \ {b} : terms'[c] = terms[c]
      BY <3>3 DEF TypeInv, TypeOK
    <3> QED
      BY <3>1, <3>2, <3>3, <3>4, CalendarApprove
  <2>3. ASSUME NEW t \in ManualAsks, AskManual(r, t)
        PROVE  CalendarInv'
    BY <1>4, <2>3 DEF AskManual
  <2> QED
    BY <1>6, <2>1, <2>2, <2>3 DEF Entering
<1>7. ASSUME NEW r \in Txn, Deciding(r)
      PROVE  CalendarInv'
  <2>1. ASSUME NEW b \in Booking, LockBooking(r, b)
        PROVE  CalendarInv'
    <3>1. /\ pc' = [pc EXCEPT ![r] = "deciding"]
          /\ UNCHANGED <<today, status, terms, wanted>>
      BY <2>1 DEF LockBooking, clockVars, rowVars
    <3>2. \A s \in Txn : pc'[s] = "granted" => pc[s] = "granted" /\ wanted'[s] = wanted[s]
      BY <3>1 DEF TypeInv, TypeOK
    <3> QED
      BY <1>0, <3>1, <3>2, CalendarQuiet
  <2>2. CASE GrantApproval(r)
    <3>1. pc[r] = "approving" /\ GoOn(r, "approving", "granted", wanted[r])
      BY <2>2 DEF GrantApproval, GoOn
    <3>2. target[r] \in Booking /\ status[target[r]] = "pending" /\ wanted[r] = {terms[target[r]]}
      BY <3>1 DEF TypeInv, TxnInv
    <3>3. PICK t \in Terms : wanted[r] = {t}
      BY <3>2 DEF TypeInv, RowInv
    <3>4. VenueLockFree(t.venue) /\ ~Taken(t)
      BY <2>2, <3>3 DEF GrantApproval
    <3>5. /\ UNCHANGED <<today, status, terms>>
          /\ pc' = [pc EXCEPT ![r] = "granted"] /\ wanted' = [wanted EXCEPT ![r] = wanted[r]]
      BY <3>1 DEF GoOn, clockVars, rowVars
    <3> QED
      BY <3>3, <3>4, <3>5, CalendarGrant
  <2>3. ASSUME NEW b \in Booking, ApproveBooking(r, b)
        PROVE  CalendarInv'
    <3>1. /\ pc[r] = "granted" /\ target[r] = b
          /\ status' = [status EXCEPT ![b] = "approved"]
          /\ EndTxn(r)
          /\ UNCHANGED <<today, terms>>
      BY <2>3 DEF ApproveBooking, Settle, clockVars
    <3>2. status[b] = "pending" /\ wanted[r] = {terms[b]} /\ terms[b] \in Terms
      BY <3>1 DEF TypeInv, TxnInv, RowInv
    <3>3. PICK t \in Terms : t = terms[b]
      BY <3>2
    <3>4. wanted[r] = {t} /\ terms'[b] = t /\ status[b] # "approved"
      BY <3>1, <3>2, <3>3
    <3> QED
      BY <3>1, <3>4, CalendarApprove
  <2>4. ASSUME NEW b \in Booking, NEW to, to \in {"rejected", "cancelled"}, Settle(r, b, to)
        PROVE  CalendarInv'
    <3>1. /\ status' = [status EXCEPT ![b] = to]
          /\ EndTxn(r)
          /\ UNCHANGED <<today, terms>>
      BY <2>4 DEF Settle, clockVars
    <3>2. \A c \in Booking : status'[c] = "approved" => status[c] = "approved" /\ terms'[c] = terms[c]
      BY <2>4, <3>1 DEF TypeInv, TypeOK
    <3> QED
      BY <1>0, <3>1, <3>2, EndTxnGrantsNothing, CalendarQuiet
  <2> QED
    BY <1>4, <1>7, <2>1, <2>2, <2>3, <2>4 DEF Deciding, BeginApproval, RejectBooking, RevokeBooking, CancelBooking
<1> QED
  BY <1>1, <1>2, <1>3, <1>5, <1>6, <1>7 DEF Next

LEMMA CalendarInvariant == Spec => [](TypeInv /\ CalendarInv)
<1>1. Init => TypeInv /\ CalendarInv
  <2> SUFFICES ASSUME Init PROVE TypeInv /\ CalendarInv
    OBVIOUS
  <2>1. NoDoubleUse
    BY DEF Init, NoDoubleUse, Approved
  <2>2. GrantInv
    BY DEF Init, GrantInv
  <2> QED
    BY <2>1, <2>2, InitTyped DEF CalendarInv
<1>2. TypeInv /\ CalendarInv /\ [Next]_vars => (TypeInv /\ CalendarInv)'
  BY StepTyped, CalendarStep
<1> QED
  BY <1>1, <1>2, PTL DEF Spec

(* The venue's lock admits one approval at a time, and what it was granted   *)
(* stays free until it commits.                                              *)
THEOREM GrantHolds == Spec => []GrantInv
<1>1. TypeInv /\ CalendarInv => GrantInv
  BY DEF CalendarInv
<1> QED
  BY <1>1, CalendarInvariant, PTL

(* No period of a day of a venue is given away twice, however approvals,     *)
(* manual bookings, cancellations and changes of the rules interleave.       *)
THEOREM NeverDoublyUsed == Spec => []NoDoubleUse
<1>1. TypeInv /\ CalendarInv => NoDoubleUse
  BY DEF CalendarInv
<1> QED
  BY <1>1, CalendarInvariant, PTL

-----------------------------------------------------------------------------
(* What steps do to the rows *)

RowsKept == UNCHANGED <<status, terms, trail>> /\ (today' = today \/ today' = today + 1)

LEMMA RowsEffect ==
  ASSUME TypeInv, [Next]_vars
  PROVE  \/ RowsKept
         \/ \E r \in Txn : \E ids \in SUBSET Booking : \E rows \in [ids -> wanted[r]] : InsertBookings(r, rows)
         \/ \E r \in Txn, b \in Booking : InsertManual(r, b)
         \/ \E r \in Txn, b \in Booking : \/ ApproveBooking(r, b) \/ RejectBooking(r, b)
                                          \/ RevokeBooking(r, b) \/ CancelBooking(r, b)
<1> USE DEF clockVars, rowVars
<1>0. ASSUME NEW r \in Txn, NEW from, NEW to, NEW S, GoOn(r, from, to, S)
      PROVE  RowsKept
  BY <1>0 DEF GoOn, RowsKept
<1>1. CASE UNCHANGED vars
  BY <1>1 DEF vars, RowsKept
<1>2. CASE Administration
  BY <1>2 DEF Administration, UpdateVenue, CreateRule, DeleteRule, SuspendClub,
              LiftClubSuspension, NextPeriod, Midnight, RowsKept
<1>3. ASSUME NEW r \in Txn, Rollback(r) \/ Setting(r)
      PROVE  RowsKept
  BY <1>3 DEF Rollback, Setting, GuardWindow, WriteWindow, RowsKept
<1>4. ASSUME NEW r \in Txn, NEW batch \in Batches, AskTemp(r, batch)
      PROVE  RowsKept
  BY <1>0, <1>4 DEF AskTemp
<1>5. ASSUME NEW r \in Txn, NEW a \in FixedAsks, AskFixed(r, a)
      PROVE  RowsKept
  BY <1>0, <1>5 DEF AskFixed
<1>6. ASSUME NEW r \in Txn, CheckClub(r) \/ GrantManual(r)
      PROVE  RowsKept
  BY <1>0, <1>6 DEF CheckClub, GrantManual
<1>7. ASSUME NEW r \in Txn, NEW t \in ManualAsks, AskManual(r, t)
      PROVE  RowsKept
  BY <1>0, <1>7 DEF AskManual
<1>8. ASSUME NEW r \in Txn, NEW b \in Booking, LockBooking(r, b)
      PROVE  RowsKept
  BY <1>8 DEF LockBooking, RowsKept
<1>9. ASSUME NEW r \in Txn, BeginApproval(r) \/ GrantApproval(r)
      PROVE  RowsKept
  BY <1>0, <1>9 DEF BeginApproval, GrantApproval
<1>10. ASSUME NEW r \in Txn, Deciding(r)
       PROVE  RowsKept \/ \E b \in Booking : \/ ApproveBooking(r, b) \/ RejectBooking(r, b)
                                             \/ RevokeBooking(r, b) \/ CancelBooking(r, b)
  BY <1>8, <1>9, <1>10 DEF Deciding
<1>11. ASSUME NEW r \in Txn, Entering(r)
       PROVE  RowsKept \/ \E b \in Booking : InsertManual(r, b)
  BY <1>6, <1>7, <1>11 DEF Entering
<1>12. ASSUME NEW r \in Txn, Asking(r)
       PROVE  RowsKept \/ \E ids \in SUBSET Booking : \E rows \in [ids -> wanted[r]] : InsertBookings(r, rows)
  BY <1>4, <1>5, <1>6, <1>12 DEF Asking
<1> QED
  BY <1>1, <1>2, <1>3, <1>10, <1>11, <1>12 DEF Next

LEMMA InsertEffect ==
  ASSUME TypeInv, NEW r \in Txn, NEW ids \in SUBSET Booking, NEW rows \in [ids -> wanted[r]],
         InsertBookings(r, rows)
  PROVE  /\ pc[r] = "admitted" /\ UNCHANGED <<today, trail>> /\ EndTxn(r)
         /\ {rows[b] : b \in ids} = wanted[r]
         /\ \A b, c \in ids : rows[b] = rows[c] => b = c
         /\ \A b \in ids : status[b] = "none" /\ status'[b] = "pending" /\ terms'[b] = rows[b]
         /\ \A b \in Booking \ ids : status'[b] = status[b] /\ terms'[b] = terms[b]
  BY DEF InsertBookings, clockVars

LEMMA ManualEffect ==
  ASSUME TypeInv, NEW r \in Txn, NEW b \in Booking, InsertManual(r, b)
  PROVE  /\ pc[r] = "granted" /\ UNCHANGED <<today, trail>> /\ EndTxn(r)
         /\ status[b] = "none" /\ status'[b] = "approved"
         /\ terms'[b] \in TempTerms /\ terms'[b] \in Terms /\ terms'[b].owner = Office
         /\ wanted[r] = {terms'[b]}
         /\ \A c \in Booking \ {b} : status'[c] = status[c] /\ terms'[c] = terms[c]
<1>1. /\ pc[r] = "granted" /\ target[r] = NoBooking /\ status[b] = "none"
      /\ \E t \in wanted[r] : terms' = [terms EXCEPT ![b] = t]
      /\ status' = [status EXCEPT ![b] = "approved"]
      /\ EndTxn(r) /\ UNCHANGED <<today, trail>>
  BY DEF InsertManual, clockVars
<1>2. PICK t \in ManualAsks : wanted[r] = {t}
  BY <1>1 DEF TypeInv, TxnInv
<1>3. terms' = [terms EXCEPT ![b] = t] /\ t \in TempTerms /\ t \in Terms /\ t.owner = Office
  BY <1>1, <1>2, ManualAssumption, ManualTyped
<1>4. terms'[b] = t /\ status'[b] = "approved"
      /\ \A c \in Booking \ {b} : status'[c] = status[c] /\ terms'[c] = terms[c]
  BY <1>1, <1>3 DEF TypeInv, TypeOK
<1> QED
  BY <1>1, <1>2, <1>3, <1>4

LEMMA DecisionEffect ==
  ASSUME TypeInv, NEW r \in Txn, NEW b \in Booking,
         ApproveBooking(r, b) \/ RejectBooking(r, b) \/ RevokeBooking(r, b) \/ CancelBooking(r, b)
  PROVE  /\ UNCHANGED <<today, terms>> /\ EndTxn(r)
         /\ target[r] = b /\ terms[b] \in Terms
         /\ \A c \in Booking \ {b} : status'[c] = status[c] /\ trail'[c] = trail[c]
         /\ \/ pc[r] = "granted" /\ status[b] = "pending" /\ status'[b] = "approved" /\ trail'[b] = Append(trail[b], "approve")
            \/ status[b] = "pending" /\ status'[b] = "rejected" /\ trail'[b] = Append(trail[b], "reject")
            \/ status[b] = "approved" /\ status'[b] = "cancelled" /\ trail'[b] = Append(trail[b], "revoke")
            \/ status[b] \in Live /\ status'[b] = "cancelled" /\ trail'[b] = trail[b] /\ terms[b].owner \in Club
<1>0. status \in [Booking -> Status] /\ trail \in [Booking -> Seq({"approve", "reject", "revoke"})]
  BY DEF TypeInv, TypeOK
<1>1. ASSUME NEW to, Settle(r, b, to)
      PROVE  /\ UNCHANGED <<today, terms>> /\ EndTxn(r) /\ target[r] = b
             /\ status' = [status EXCEPT ![b] = to]
             /\ status[b] # "none" /\ terms[b] \in Terms
  BY <1>1 DEF Settle, clockVars, TypeInv, TxnInv, RowInv
<1>2. CASE ApproveBooking(r, b)
  <2>1. pc[r] = "granted" /\ Settle(r, b, "approved") /\ Record(b, "approve")
    BY <1>2 DEF ApproveBooking
  <2>2. status[b] = "pending"
    BY <1>1, <2>1 DEF TypeInv, TxnInv
  <2> QED
    BY <1>0, <1>1, <2>1, <2>2 DEF Record
<1>3. CASE RejectBooking(r, b)
  <2>1. status[b] = "pending" /\ Settle(r, b, "rejected") /\ Record(b, "reject")
    BY <1>3 DEF RejectBooking
  <2> QED
    BY <1>0, <1>1, <2>1 DEF Record
<1>4. CASE RevokeBooking(r, b)
  <2>1. status[b] = "approved" /\ Settle(r, b, "cancelled") /\ Record(b, "revoke")
    BY <1>4 DEF RevokeBooking
  <2> QED
    BY <1>0, <1>1, <2>1 DEF Record
<1>5. CASE CancelBooking(r, b)
  <2>1. status[b] \in Live /\ terms[b].owner \in Club /\ Settle(r, b, "cancelled") /\ UNCHANGED trail
    BY <1>5 DEF CancelBooking
  <2> QED
    BY <1>0, <1>1, <2>1
<1> QED
  BY <1>2, <1>3, <1>4, <1>5

-----------------------------------------------------------------------------
(* Approval records, settled bookings *)

LEMMA AppendSecond ==
  ASSUME NEW S, NEW x \in S, NEW y \in S
  PROVE  Append(<<x>>, y) = <<x, y>>
<1> DEFINE a == Append(<<x>>, y)
           b == <<x, y>>
<1>1. <<x>> \in Seq(S) /\ Len(<<x>>) = 1 /\ <<x>>[1] = x
  OBVIOUS
<1>2. a \in Seq(S) /\ Len(a) = 2 /\ a[1] = x /\ a[2] = y
  BY <1>1
<1>3. b \in Seq(S) /\ Len(b) = 2 /\ b[1] = x /\ b[2] = y
  OBVIOUS
<1> HIDE DEF a, b
<1>4. a = b
  BY <1>2, <1>3, SeqEqual
<1> QED
  BY <1>4 DEF a, b

LEMMA TrailStep ==
  ASSUME TypeInv, TrailMatchesStatus, [Next]_vars
  PROVE  TrailMatchesStatus'
<1> SUFFICES ASSUME NEW c \in Booking
             PROVE  trail'[c] \in Trails(status'[c], terms'[c].owner \in Club)
  BY DEF TrailMatchesStatus
<1>0. /\ trail[c] \in Trails(status[c], terms[c].owner \in Club)
      /\ status[c] = "pending" => terms[c].owner \in Club
  BY DEF TrailMatchesStatus, TypeInv, RowInv
<1>1. CASE RowsKept
  BY <1>0, <1>1 DEF RowsKept
<1>2. ASSUME NEW r \in Txn, NEW ids \in SUBSET Booking, NEW rows \in [ids -> wanted[r]],
             InsertBookings(r, rows)
      PROVE  trail'[c] \in Trails(status'[c], terms'[c].owner \in Club)
  <2>1. CASE c \in ids
    <3>1. trail'[c] = trail[c] /\ status[c] = "none" /\ status'[c] = "pending"
      BY <1>2, <2>1, InsertEffect
    <3>2. trail[c] = <<>>
      BY <1>0, <3>1 DEF Trails
    <3> QED
      BY <3>1, <3>2 DEF Trails
  <2>2. CASE c \notin ids
    <3>1. trail'[c] = trail[c] /\ status'[c] = status[c] /\ terms'[c] = terms[c]
      BY <1>2, <2>2, InsertEffect
    <3> QED
      BY <1>0, <3>1
  <2> QED
    BY <2>1, <2>2
<1>3. ASSUME NEW r \in Txn, NEW b \in Booking, InsertManual(r, b)
      PROVE  trail'[c] \in Trails(status'[c], terms'[c].owner \in Club)
  <2>1. CASE c = b
    <3>1. trail'[c] = trail[c] /\ status[c] = "none" /\ status'[c] = "approved" /\ terms'[c].owner = Office
      BY <1>3, <2>1, ManualEffect
    <3>2. trail[c] = <<>> /\ terms'[c].owner \notin Club
      BY <1>0, <3>1, OwnerAssumption DEF Trails
    <3> QED
      BY <3>1, <3>2 DEF Trails
  <2>2. CASE c # b
    BY <1>0, <1>3, <2>2, ManualEffect
  <2> QED
    BY <2>1, <2>2
<1>4. ASSUME NEW r \in Txn, NEW b \in Booking,
             ApproveBooking(r, b) \/ RejectBooking(r, b) \/ RevokeBooking(r, b) \/ CancelBooking(r, b)
      PROVE  trail'[c] \in Trails(status'[c], terms'[c].owner \in Club)
  <2> DEFINE club == terms[c].owner \in Club
  <2>0. terms'[c] = terms[c] /\ (c # b => status'[c] = status[c] /\ trail'[c] = trail[c])
    BY <1>4, DecisionEffect
  <2>1. CASE c = b
    <3>1. /\ \A x : Append(<<>>, x) = <<x>>
          /\ \A x, y \in {"approve", "revoke"} : Append(<<x>>, y) = <<x, y>>
      <4>1. \A x : Append(<<>>, x) = <<x>>
        OBVIOUS
      <4> QED
        BY <4>1, AppendSecond
    <3>2. trail[c] \in Trails(status[c], club) /\ (status[c] = "pending" => club)
      BY <1>0
    <3> HIDE DEF club
    <3>3. CASE status[c] = "pending" /\ status'[c] = "approved" /\ trail'[c] = Append(trail[c], "approve")
      <4>1. trail[c] = <<>> /\ club
        BY <3>2, <3>3 DEF Trails
      <4>2. trail'[c] = <<"approve">>
        BY <3>1, <3>3, <4>1
      <4>3. trail'[c] \in Trails(status'[c], club)
        BY <3>3, <4>1, <4>2 DEF Trails
      <4> QED
        BY <2>0, <4>3 DEF club
    <3>4. CASE status[c] = "pending" /\ status'[c] = "rejected" /\ trail'[c] = Append(trail[c], "reject")
      <4>1. trail[c] = <<>> /\ club
        BY <3>2, <3>4 DEF Trails
      <4>2. trail'[c] = <<"reject">>
        BY <3>1, <3>4, <4>1
      <4>3. trail'[c] \in Trails(status'[c], club)
        BY <3>4, <4>1, <4>2 DEF Trails
      <4> QED
        BY <2>0, <4>3 DEF club
    <3>5. CASE status[c] = "approved" /\ status'[c] = "cancelled" /\ trail'[c] = Append(trail[c], "revoke")
      <4>1. trail[c] = IF club THEN <<"approve">> ELSE <<>>
        BY <3>2, <3>5 DEF Trails
      <4>2. trail'[c] = IF club THEN <<"approve", "revoke">> ELSE <<"revoke">>
        BY <3>1, <3>5, <4>1
      <4>3. trail'[c] \in Trails(status'[c], club)
        BY <3>5, <4>2 DEF Trails
      <4> QED
        BY <2>0, <4>3 DEF club
    <3>6. CASE status[c] \in Live /\ status'[c] = "cancelled" /\ trail'[c] = trail[c] /\ terms[c].owner \in Club
      <4>1. club
        BY <3>6 DEF club
      <4>2. trail[c] \in {<<>>, <<"approve">>}
        BY <3>2, <3>6, <4>1 DEF Trails, Live
      <4>3. trail'[c] \in Trails(status'[c], club)
        BY <3>6, <4>1, <4>2 DEF Trails
      <4> QED
        BY <2>0, <4>3 DEF club
    <3> QED
      BY <1>4, <2>1, <3>3, <3>4, <3>5, <3>6, DecisionEffect
  <2> QED
    BY <1>0, <2>0, <2>1
<1> QED
  BY <1>1, <1>2, <1>3, <1>4, RowsEffect

(* The approval records of every booking tell exactly how it came to its     *)
(* status.                                                                   *)
THEOREM TrailsExact == Spec => []TrailMatchesStatus
<1>1. Init => TypeInv /\ TrailMatchesStatus
  BY InitTyped DEF Init, TrailMatchesStatus, Trails
<1>2. TypeInv /\ TrailMatchesStatus /\ [Next]_vars => (TypeInv /\ TrailMatchesStatus)'
  BY StepTyped, TrailStep
<1>3. Spec => [](TypeInv /\ TrailMatchesStatus)
  BY <1>1, <1>2, PTL DEF Spec
<1> QED
  BY <1>3, PTL

(* No step reopens or rewrites a settled booking, and nothing changes what a *)
(* booking is for.                                                           *)
THEOREM SettledStays == Spec => SettledForGood
<1> DEFINE Stays ==
      \A b \in Booking :
          /\ status[b] \in Settled => UNCHANGED <<status[b], trail[b]>>
          /\ status[b] # "none" => terms'[b] = terms[b]
          /\ status[b] = "approved" => status'[b] \in {"approved", "cancelled"}
<1>1. ASSUME TypeInv, [Next]_vars
      PROVE  Stays
  <2> SUFFICES ASSUME NEW c \in Booking
               PROVE  /\ status[c] \in Settled => UNCHANGED <<status[c], trail[c]>>
                      /\ status[c] # "none" => terms'[c] = terms[c]
                      /\ status[c] = "approved" => status'[c] \in {"approved", "cancelled"}
    OBVIOUS
  <2> USE DEF Settled, Live
  <2>1. CASE RowsKept
    BY <2>1 DEF RowsKept
  <2>2. ASSUME NEW r \in Txn, NEW ids \in SUBSET Booking, NEW rows \in [ids -> wanted[r]],
               InsertBookings(r, rows)
        PROVE  \/ status[c] = "none"
               \/ status'[c] = status[c] /\ terms'[c] = terms[c] /\ trail'[c] = trail[c]
    BY <1>1, <2>2, InsertEffect
  <2>3. ASSUME NEW r \in Txn, NEW b \in Booking, InsertManual(r, b)
        PROVE  \/ status[c] = "none"
               \/ status'[c] = status[c] /\ terms'[c] = terms[c] /\ trail'[c] = trail[c]
    BY <1>1, <2>3, ManualEffect
  <2>4. ASSUME NEW r \in Txn, NEW b \in Booking,
               ApproveBooking(r, b) \/ RejectBooking(r, b) \/ RevokeBooking(r, b) \/ CancelBooking(r, b)
        PROVE  /\ status[c] \in Settled => UNCHANGED <<status[c], trail[c]>>
               /\ terms'[c] = terms[c]
               /\ status[c] = "approved" => status'[c] \in {"approved", "cancelled"}
    BY <1>1, <2>4, DecisionEffect
  <2> QED
    BY <1>1, <2>1, <2>2, <2>3, <2>4, RowsEffect
<1>2. ASSUME TypeInv, [Next]_vars
      PROVE  [Stays]_vars
  BY <1>1, <1>2
<1> HIDE DEF Stays
<1>3. Spec => [][Stays]_vars
  BY <1>2, TypeCorrect, PTL DEF Spec
<1> QED
  BY <1>3 DEF SettledForGood, Stays

-----------------------------------------------------------------------------
(* The transactions implement the calendar *)

CellsOf(s, t) == IF s = "approved" THEN Cells(t) ELSE {}
claimOf == [b \in Booking |-> CellsOf(status[b], terms[b])]

LEMMA ClaimIs ==
  /\ claimOf = [b \in Booking |-> IF status[b] = "approved" THEN Cells(terms[b]) ELSE {}]
  /\ claimOf' = [b \in Booking |-> CellsOf(status'[b], terms'[b])]
  /\ claimOf' = [b \in Booking |-> IF status[b] = "approved" THEN Cells(terms[b]) ELSE {}]'
<1>1. \A b \in Booking : CellsOf(status[b], terms[b]) = IF status[b] = "approved" THEN Cells(terms[b]) ELSE {}
  BY DEF CellsOf
<1>2. claimOf = [b \in Booking |-> IF status[b] = "approved" THEN Cells(terms[b]) ELSE {}]
  BY <1>1 DEF claimOf
<1>3. claimOf' = [b \in Booking |-> CellsOf(status'[b], terms'[b])]
  BY DEF claimOf, CellsOf, Cells
<1>4. claimOf' = [b \in Booking |-> IF status[b] = "approved" THEN Cells(terms[b]) ELSE {}]'
  BY DEF claimOf, CellsOf
<1> QED
  BY <1>2, <1>3, <1>4

LEMMA CellsTyped ==
  ASSUME NEW t \in Terms
  PROVE  Cells(t) \subseteq Cell
<1> SUFFICES ASSUME NEW x \in Cells(t)
             PROVE  x \in Cell
  OBVIOUS
<1>1. t.first .. t.last \subseteq Day /\ t.venue \in Venue
  BY DEF Terms, Day
<1>2. x \in {t.venue} \X (t.first .. t.last) \X (1 .. Periods)
  BY DEF Cells
<1> QED
  BY <1>1, <1>2 DEF Cell

\* A booking that takes what its transaction was granted.
LEMMA CalendarClaim ==
  ASSUME TypeInv, CalendarInv, NEW r \in Txn, NEW b \in Booking, NEW t \in Terms,
         pc[r] = "granted", wanted[r] = {t}, status[b] # "approved",
         status'[b] = "approved", terms'[b] = t,
         \A c \in Booking \ {b} : status'[c] = status[c] /\ terms'[c] = terms[c],
         UNCHANGED today
  PROVE  Calendar!Claim(b)
<1>1. claimOf[b] = {} /\ claimOf'[b] = Cells(t)
  BY ClaimIs DEF CellsOf
<1>2. claimOf' = [claimOf EXCEPT ![b] = claimOf'[b]]
  <2>1. \A c \in Booking \ {b} : claimOf'[c] = claimOf[c]
    BY ClaimIs DEF CellsOf
  <2> DEFINE f == claimOf'
             g == [claimOf EXCEPT ![b] = claimOf'[b]]
  <2>2. f = [c \in Booking |-> f[c]] /\ g = [c \in Booking |-> g[c]]
    BY ClaimIs
  <2>3. \A c \in Booking : f[c] = g[c]
    BY <2>1, ClaimIs
  <2> HIDE DEF f, g
  <2>4. f = g
    BY <2>2, <2>3
  <2> QED
    BY <2>4 DEF f, g
<1>3. \A c \in Booking : \A x \in claimOf'[b] \cap claimOf[c] : x[2] < today
  <2> SUFFICES ASSUME NEW c \in Booking, NEW x \in Cells(t) \cap claimOf[c]
               PROVE  x[2] < today
    BY <1>1
  <2>1. status[c] = "approved" /\ x \in Cells(terms[c])
    BY ClaimIs
  <2> QED
    BY <2>1 DEF CalendarInv, GrantInv, Approved
<1>4. claimOf'[b] \subseteq Cell
  BY <1>1, CellsTyped
<1> HIDE DEF claimOf
<1> QED
  BY <1>1, <1>2, <1>3, <1>4, ClaimIs DEF Calendar!Claim

\* A booking that is settled releases what it held.
LEMMA CalendarRelease ==
  ASSUME TypeInv, NEW b \in Booking, status'[b] # "approved",
         \A c \in Booking \ {b} : status'[c] = status[c],
         UNCHANGED <<today, terms>>
  PROVE  Calendar!Release(b)
<1>1. \A c \in Booking : claimOf'[c] = [claimOf EXCEPT ![b] = {}][c]
  BY ClaimIs DEF CellsOf
<1> DEFINE f == claimOf'
           g == [claimOf EXCEPT ![b] = {}]
<1>2. f = [c \in Booking |-> f[c]] /\ g = [c \in Booking |-> g[c]]
  BY ClaimIs
<1>3. \A c \in Booking : f[c] = g[c]
  BY <1>1
<1> HIDE DEF f, g
<1>4. f = g
  BY <1>2, <1>3
<1>5. claimOf' = [claimOf EXCEPT ![b] = {}]
  BY <1>4 DEF f, g
<1> HIDE DEF claimOf
<1> QED
  BY <1>5, ClaimIs DEF Calendar!Release

LEMMA CalendarKept ==
  ASSUME \A c \in Booking : CellsOf(status'[c], terms'[c]) = CellsOf(status[c], terms[c]),
         today' = today \/ today' = today + 1
  PROVE  [Calendar!Next]_(Calendar!calendarVars)
<1>1. claimOf' = claimOf
  BY ClaimIs DEF claimOf
<1> HIDE DEF claimOf
<1>2. CASE today' = today
  BY <1>1, <1>2, ClaimIs DEF Calendar!calendarVars
<1>3. CASE today' = today + 1
  BY <1>1, <1>3, ClaimIs DEF Calendar!Next, Calendar!NextDay
<1> QED
  BY <1>2, <1>3

LEMMA CalendarMapped ==
  ASSUME TypeInv, CalendarInv, [Next]_vars
  PROVE  [Calendar!Next]_(Calendar!calendarVars)
<1>1. CASE RowsKept
  BY <1>1, CalendarKept DEF RowsKept
<1>2. ASSUME NEW r \in Txn, NEW ids \in SUBSET Booking, NEW rows \in [ids -> wanted[r]],
             InsertBookings(r, rows)
      PROVE  [Calendar!Next]_(Calendar!calendarVars)
  <2>1. \A c \in Booking : CellsOf(status'[c], terms'[c]) = CellsOf(status[c], terms[c])
    <3> SUFFICES ASSUME NEW c \in Booking
                 PROVE  CellsOf(status'[c], terms'[c]) = CellsOf(status[c], terms[c])
      OBVIOUS
    <3>1. CASE c \in ids
      <4>1. status[c] = "none" /\ status'[c] = "pending"
        BY <1>2, <3>1, InsertEffect
      <4> QED
        BY <4>1 DEF CellsOf
    <3>2. CASE c \notin ids
      <4>1. status'[c] = status[c] /\ terms'[c] = terms[c]
        BY <1>2, <3>2, InsertEffect
      <4> QED
        BY <4>1
    <3> QED
      BY <3>1, <3>2
  <2>2. today' = today
    BY <1>2, InsertEffect
  <2> QED
    BY <2>1, <2>2, CalendarKept
<1>3. ASSUME NEW r \in Txn, NEW b \in Booking, InsertManual(r, b)
      PROVE  Calendar!Next
  <2>1. Calendar!Claim(b)
    BY <1>3, ManualEffect, CalendarClaim
  <2> QED
    BY <2>1 DEF Calendar!Next
<1>4. ASSUME NEW r \in Txn, NEW b \in Booking,
             ApproveBooking(r, b) \/ RejectBooking(r, b) \/ RevokeBooking(r, b) \/ CancelBooking(r, b)
      PROVE  Calendar!Next
  <2>0. /\ UNCHANGED <<today, terms>> /\ target[r] = b /\ terms[b] \in Terms
        /\ \A c \in Booking \ {b} : status'[c] = status[c]
        /\ \/ pc[r] = "granted" /\ status[b] = "pending" /\ status'[b] = "approved"
           \/ status'[b] \in {"rejected", "cancelled"}
    BY <1>4, DecisionEffect
  <2>1. CASE pc[r] = "granted" /\ status[b] = "pending" /\ status'[b] = "approved"
    <3>1. wanted[r] = {terms[b]}
      BY <2>0, <2>1 DEF TypeInv, TxnInv
    <3>2. Calendar!Claim(b)
      BY <2>0, <2>1, <3>1, CalendarClaim
    <3> QED
      BY <3>2 DEF Calendar!Next
  <2>2. CASE status'[b] \in {"rejected", "cancelled"}
    <3>1. Calendar!Release(b)
      BY <2>0, <2>2, CalendarRelease
    <3> QED
      BY <3>1 DEF Calendar!Next
  <2> QED
    BY <2>0, <2>1, <2>2
<1> QED
  BY <1>1, <1>2, <1>3, <1>4, RowsEffect

LEMMA CalendarInit == Init => Calendar!Init
<1>1. Init => today = 1 /\ \A b \in Booking : status[b] = "none"
  BY DEF Init
<1>2. ASSUME Init
      PROVE  claimOf = [b \in Booking |-> {}]
  BY <1>1, <1>2 DEF claimOf, CellsOf
<1> HIDE DEF claimOf
<1> QED
  BY <1>1, <1>2, ClaimIs DEF Calendar!Init

(* The transactions implement the calendar: an approval or a manual booking  *)
(* claims its cells in one step when none of them is another's from that day *)
(* on, and every other step keeps or releases what bookings hold.            *)
THEOREM CalendarImplemented == Spec => CalendarSpec
<1>1. TypeInv /\ CalendarInv /\ [Next]_vars => [Calendar!Next]_(Calendar!calendarVars)
  BY CalendarMapped
<1> QED
  BY <1>1, CalendarInit, CalendarInvariant, PTL DEF Spec, CalendarSpec, Calendar!Spec

-----------------------------------------------------------------------------
(* What a club holds: no duplicates, and the quota of a semester *)

\* UsedFixedPeriods of given rows.
UsedOf(st, tm, c, start) ==
    UNION {{b} \X tm[b].slots : b \in {k \in Booking : /\ st[k] \in Live
                                                       /\ tm[k].kind = "fixed"
                                                       /\ tm[k].owner = c
                                                       /\ tm[k].first = start}}

LEMMA UsedIs ==
  ASSUME NEW c, NEW start
  PROVE  /\ UsedFixedPeriods(c, start) = UsedOf(status, terms, c, start)
         /\ UsedFixedPeriods(c, start)' = UsedOf(status', terms', c, start)
  BY DEF UsedFixedPeriods, UsedOf

LEMMA SlotsFinite ==
  /\ IsFiniteSet(Slots)
  /\ IsFiniteSet(Booking \X Slots)
<1>1. DaysPerWeek - 1 \in Int /\ Periods \in Int
  BY NumberAssumption
<1>2. IsFiniteSet(0 .. DaysPerWeek - 1) /\ IsFiniteSet(1 .. Periods)
  BY <1>1, FS_Interval
<1>3. IsFiniteSet((0 .. DaysPerWeek - 1) \X (1 .. Periods))
  BY <1>2, FS_Product
<1>4. IsFiniteSet(Slots)
  BY <1>3 DEF Slots
<1> QED
  BY <1>4, BookingAssumption, FS_Product

LEMMA UsedFinite ==
  ASSUME NEW st, NEW tm, NEW c, NEW start,
         \A b \in Booking : st[b] \in Live => tm[b] \in Terms
  PROVE  IsFiniteSet(UsedOf(st, tm, c, start)) /\ Cardinality(UsedOf(st, tm, c, start)) \in Nat
<1>1. UsedOf(st, tm, c, start) \in SUBSET (Booking \X Slots)
  <2> SUFFICES ASSUME NEW x \in UsedOf(st, tm, c, start)
               PROVE  x \in Booking \X Slots
    OBVIOUS
  <2>1. PICK b \in Booking : st[b] \in Live /\ x \in {b} \X tm[b].slots
    BY DEF UsedOf
  <2>2. tm[b].slots \subseteq Slots
    BY <2>1, TermsFields
  <2> QED
    BY <2>1, <2>2
<1>2. IsFiniteSet(UsedOf(st, tm, c, start))
  BY <1>1, SlotsFinite, FS_Subset
<1> QED
  BY <1>2, FS_CardinalityType

\* Fewer rows that count, fewer slots.
LEMMA UsedFewer ==
  ASSUME NEW st, NEW tm, NEW st2, NEW tm2, NEW c, NEW start,
         \A b \in Booking : st[b] \in Live => tm[b] \in Terms,
         \A b \in Booking : st2[b] \in Live /\ tm2[b].kind = "fixed" /\ tm2[b].owner = c /\ tm2[b].first = start
                               => st[b] \in Live /\ tm2[b] = tm[b]
  PROVE  /\ Cardinality(UsedOf(st2, tm2, c, start)) \in Nat
         /\ Cardinality(UsedOf(st2, tm2, c, start)) <= Cardinality(UsedOf(st, tm, c, start))
<1>1. UsedOf(st2, tm2, c, start) \in SUBSET UsedOf(st, tm, c, start)
  BY DEF UsedOf
<1>2. IsFiniteSet(UsedOf(st, tm, c, start))
  BY UsedFinite
<1> HIDE DEF UsedOf
<1>3. IsFiniteSet(UsedOf(st2, tm2, c, start))
      /\ Cardinality(UsedOf(st2, tm2, c, start)) <= Cardinality(UsedOf(st, tm, c, start))
  BY <1>1, <1>2, FS_Subset
<1> QED
  BY <1>3, FS_CardinalityType

\* One row more, its slots more.
LEMMA UsedMore ==
  ASSUME NEW st, NEW tm, NEW st2, NEW tm2, NEW c, NEW start, NEW k \in Booking, NEW t \in Terms,
         \A b \in Booking : st[b] \in Live => tm[b] \in Terms,
         tm2[k] = t,
         \A b \in Booking \ {k} : st2[b] = st[b] /\ tm2[b] = tm[b]
  PROVE  /\ Cardinality(t.slots) \in Nat
         /\ Cardinality(UsedOf(st2, tm2, c, start)) \in Nat
         /\ Cardinality(UsedOf(st2, tm2, c, start)) <= Cardinality(UsedOf(st, tm, c, start)) + Cardinality(t.slots)
<1> DEFINE U == UsedOf(st, tm, c, start)
           U2 == UsedOf(st2, tm2, c, start)
           N == {k} \X t.slots
<1>1. U2 \in SUBSET (U \cup N)
  BY DEF UsedOf
<1>2. IsFiniteSet(U) /\ Cardinality(U) \in Nat
  BY UsedFinite
<1>3. IsFiniteSet(t.slots)
  BY TermsFields, SlotsFinite, FS_Subset
<1>4. IsFiniteSet({k}) /\ Cardinality({k}) = 1
  BY FS_Singleton
<1>5. Cardinality(t.slots) \in Nat
  BY <1>3, FS_CardinalityType
<1>6. IsFiniteSet(N) /\ Cardinality(N) = Cardinality(t.slots)
  <2>1. IsFiniteSet({k} \X t.slots) /\ Cardinality({k} \X t.slots) = Cardinality({k}) * Cardinality(t.slots)
    BY <1>3, <1>4, FS_Product
  <2> QED
    BY <1>4, <1>5, <2>1
<1> HIDE DEF U, U2, N
<1>7. IsFiniteSet(U \cup N) /\ Cardinality(U \cup N) = Cardinality(U) + Cardinality(N) - Cardinality(U \cap N)
  BY <1>2, <1>6, FS_Union
<1>8. Cardinality(U \cap N) \in Nat
  <2>1. IsFiniteSet(U \cap N)
    BY <1>2, FS_Subset
  <2> QED
    BY <2>1, FS_CardinalityType
<1>9. IsFiniteSet(U2) /\ Cardinality(U2) <= Cardinality(U \cup N)
  BY <1>1, <1>7, FS_Subset
<1>10. Cardinality(U2) \in Nat /\ Cardinality(U \cup N) \in Nat
  BY <1>7, <1>9, FS_CardinalityType
<1>11. Cardinality(U2) <= Cardinality(U) + Cardinality(t.slots)
  BY <1>2, <1>5, <1>6, <1>7, <1>8, <1>9, <1>10
<1> QED
  BY <1>5, <1>10, <1>11 DEF U, U2

\* What the checks under the club's lock have established still holds, and no
\* other transaction of the club has passed them.
AdmittedInv ==
    /\ \A r, s \in Txn : pc[r] = "admitted" /\ pc[s] = "admitted" =>
          \A t \in wanted[r], u \in wanted[s] : t.owner = u.owner => r = s
    /\ \A r \in Txn : pc[r] = "admitted" => \A t \in wanted[r] : t.kind = "temp" =>
          \A b \in Booking :
              /\ status[b] \in Live /\ terms[b].kind = "temp" /\ terms[b].owner = t.owner
              => Cells(t) \cap Cells(terms[b]) = {}
    /\ \A r \in Txn : pc[r] = "admitted" => \A t \in wanted[r] : t.kind = "fixed" =>
          Cardinality(UsedFixedPeriods(t.owner, t.first)) + Cardinality(t.slots) <= MaxFixedSlots

QuotaInv == \A c \in Club, start \in Day : Cardinality(UsedFixedPeriods(c, start)) <= MaxFixedSlots

ClubInv == NoDuplicates /\ QuotaInv /\ AdmittedInv

LEMMA LiveTerms ==
  ASSUME TypeInv
  PROVE  \A b \in Booking : status[b] \in Live => terms[b] \in Terms
  BY DEF TypeInv, RowInv, Live

LEMMA AdmittedTerms ==
  ASSUME TypeInv, NEW r \in Txn, pc[r] \in {"asked", "admitted"}, NEW t \in wanted[r]
  PROVE  /\ t \in Terms /\ t.owner \in Club
         /\ t.kind = "temp" => t \in TempTerms
         /\ t.first \in Day
         /\ Cardinality(t.slots) \in Nat
<1>1. /\ t \in Terms /\ t.owner \in Club
      /\ t.kind = "temp" => t \in TempTerms
  <2>1. CASE wanted[r] \in Batches
    BY <2>1, BatchTyped, BatchAssumption
  <2>2. CASE \E u \in FixedRequest : wanted[r] = {u}
    BY <2>2 DEF FixedRequest
  <2> QED
    BY <2>1, <2>2 DEF TypeInv, TxnInv
<1>2. t.first \in Day /\ t.slots \subseteq Slots
  BY <1>1 DEF Terms
<1>3. IsFiniteSet(t.slots)
  BY <1>2, SlotsFinite, FS_Subset
<1> QED
  BY <1>1, <1>2, <1>3, FS_CardinalityType

\* No booking of a club is added and no request passes the checks.
LEMMA ClubQuiet ==
  ASSUME TypeInv, ClubInv,
         \A b \in Booking : status'[b] \in Live /\ terms'[b].owner \in Club
                               => status[b] \in Live /\ terms'[b] = terms[b],
         \A s \in Txn : pc'[s] = "admitted" => pc[s] = "admitted" /\ wanted'[s] = wanted[s]
  PROVE  ClubInv'
<1>1. NoDuplicates'
  <2> SUFFICES ASSUME NEW b \in Booking, NEW c \in Booking, b # c,
                      status'[b] \in Live, status'[c] \in Live,
                      terms'[b].kind = "temp", terms'[c].kind = "temp",
                      terms'[b].owner \in Club, terms'[b].owner = terms'[c].owner
               PROVE  Cells(terms'[b]) \cap Cells(terms'[c]) = {}
    BY DEF NoDuplicates, Cells, Live
  <2> QED
    BY DEF ClubInv, NoDuplicates
<1>2. ASSUME NEW c \in Club, NEW start
      PROVE  /\ Cardinality(UsedFixedPeriods(c, start)') \in Nat
             /\ Cardinality(UsedFixedPeriods(c, start)') <= Cardinality(UsedFixedPeriods(c, start))
  BY LiveTerms, UsedFewer, UsedIs
<1>3. ASSUME NEW c, NEW start
      PROVE  Cardinality(UsedFixedPeriods(c, start)) \in Nat
  BY LiveTerms, UsedFinite, UsedIs
<1>4. QuotaInv'
  <2> SUFFICES ASSUME NEW c \in Club, NEW start \in Day
               PROVE  Cardinality(UsedFixedPeriods(c, start)') <= MaxFixedSlots
    BY DEF QuotaInv, Day
  <2>1. Cardinality(UsedFixedPeriods(c, start)) <= MaxFixedSlots
    BY DEF ClubInv, QuotaInv
  <2> HIDE DEF UsedFixedPeriods
  <2> QED
    BY <1>2, <1>3, <2>1, NumberAssumption
<1>5. AdmittedInv'
  <2>1. \A r, s \in Txn : pc'[r] = "admitted" /\ pc'[s] = "admitted" =>
          \A t \in wanted'[r], u \in wanted'[s] : t.owner = u.owner => r = s
    BY DEF ClubInv, AdmittedInv
  <2>2. ASSUME NEW r \in Txn, pc'[r] = "admitted", NEW t \in wanted'[r], t.kind = "temp",
               NEW b \in Booking, status'[b] \in Live, terms'[b].kind = "temp", terms'[b].owner = t.owner
        PROVE  Cells(t) \cap Cells(terms'[b]) = {}
    <3>1. pc[r] = "admitted" /\ t \in wanted[r]
      BY <2>2
    <3>2. t.owner \in Club
      BY <3>1, AdmittedTerms
    <3>3. status[b] \in Live /\ terms'[b] = terms[b]
      BY <2>2, <3>2
    <3> QED
      BY <2>2, <3>1, <3>3 DEF ClubInv, AdmittedInv
  <2>3. ASSUME NEW r \in Txn, pc'[r] = "admitted", NEW t \in wanted'[r], t.kind = "fixed"
        PROVE  Cardinality(UsedFixedPeriods(t.owner, t.first)') + Cardinality(t.slots) <= MaxFixedSlots
    <3>1. pc[r] = "admitted" /\ t \in wanted[r]
      BY <2>3
    <3>2. t.owner \in Club /\ Cardinality(t.slots) \in Nat
      BY <3>1, AdmittedTerms
    <3>3. Cardinality(UsedFixedPeriods(t.owner, t.first)) + Cardinality(t.slots) <= MaxFixedSlots
      BY <2>3, <3>1 DEF ClubInv, AdmittedInv
    <3> QED
      BY <1>2, <1>3, <3>2, <3>3, NumberAssumption
  <2> QED
    BY <2>1, <2>2, <2>3 DEF AdmittedInv, UsedFixedPeriods, Cells, Live
<1> QED
  BY <1>1, <1>4, <1>5 DEF ClubInv

\* A request that passes its checks under the club's lock.
LEMMA ClubAdmits ==
  ASSUME TypeInv, ClubInv, NEW r \in Txn, CheckClub(r)
  PROVE  ClubInv'
<1>1. /\ pc[r] = "asked" /\ pc'[r] = "admitted" /\ wanted'[r] = wanted[r]
      /\ UNCHANGED <<status, terms>>
      /\ \A s \in Txn \ {r} : pc'[s] = pc[s] /\ wanted'[s] = wanted[s]
      /\ \A t \in wanted[r] :
            /\ ClubLockFree(t.owner)
            /\ t.kind = "temp" => ~Duplicate(t)
            /\ t.kind = "fixed" =>
                  Cardinality(UsedFixedPeriods(t.owner, t.first)) + Cardinality(t.slots) <= MaxFixedSlots
  BY DEF CheckClub, GoOn, rowVars, TypeInv, TypeOK
<1>2. NoDuplicates'
  BY <1>1 DEF ClubInv, NoDuplicates, Cells
<1>3. \A c, start : UsedFixedPeriods(c, start)' = UsedFixedPeriods(c, start)
  BY <1>1 DEF UsedFixedPeriods
<1>4. QuotaInv'
  BY <1>3 DEF ClubInv, QuotaInv
<1>5. ASSUME NEW q \in Txn, NEW s \in Txn, pc'[q] = "admitted", pc'[s] = "admitted",
             NEW t \in wanted'[q], NEW u \in wanted'[s], t.owner = u.owner
      PROVE  q = s
  <2>1. ASSUME NEW k \in Txn, k # r, pc'[k] = "admitted", NEW v \in wanted'[k], NEW w \in wanted[r]
        PROVE  v.owner # w.owner
    BY <1>1, <2>1 DEF ClubLockFree
  <2>2. q # r /\ s # r => q = s
    BY <1>1, <1>5 DEF ClubInv, AdmittedInv
  <2> QED
    BY <1>1, <1>5, <2>1, <2>2
<1>6. ASSUME NEW s \in Txn, pc'[s] = "admitted", NEW t \in wanted'[s], t.kind = "temp",
             NEW b \in Booking, status[b] \in Live, terms[b].kind = "temp", terms[b].owner = t.owner
      PROVE  Cells(t) \cap Cells(terms[b]) = {}
  <2>1. CASE s # r
    BY <1>1, <1>6, <2>1 DEF ClubInv, AdmittedInv
  <2>2. CASE s = r
    <3>1. t \in wanted[r] /\ ~Duplicate(t)
      BY <1>1, <1>6, <2>2
    <3>2. ~Clash(t, terms[b])
      BY <1>6, <3>1 DEF Duplicate
    <3>3. t \in Terms /\ terms[b] \in Terms
      BY <1>1, <1>6, <3>1, AdmittedTerms, LiveTerms
    <3> QED
      BY <3>2, <3>3, CellsClash
  <2> QED
    BY <2>1, <2>2
<1>7. ASSUME NEW s \in Txn, pc'[s] = "admitted", NEW t \in wanted'[s], t.kind = "fixed"
      PROVE  Cardinality(UsedFixedPeriods(t.owner, t.first)) + Cardinality(t.slots) <= MaxFixedSlots
  BY <1>1, <1>7 DEF ClubInv, AdmittedInv
<1>8. AdmittedInv'
  <2>1. \A s \in Txn : pc'[s] = "admitted" => \A t \in wanted'[s] : t.kind = "fixed" =>
           Cardinality(UsedFixedPeriods(t.owner, t.first)') + Cardinality(t.slots) <= MaxFixedSlots
    BY <1>3, <1>7
  <2>2. \A s \in Txn : pc'[s] = "admitted" => \A t \in wanted'[s] : t.kind = "temp" =>
          \A b \in Booking :
              /\ status'[b] \in Live /\ terms'[b].kind = "temp" /\ terms'[b].owner = t.owner
              => Cells(t) \cap Cells(terms'[b]) = {}
    BY <1>1, <1>6
  <2>3. \A q, s \in Txn : pc'[q] = "admitted" /\ pc'[s] = "admitted" =>
          \A t \in wanted'[q], u \in wanted'[s] : t.owner = u.owner => q = s
    BY <1>5
  <2> QED
    BY <2>1, <2>2, <2>3 DEF AdmittedInv, UsedFixedPeriods, Cells, Live
<1> QED
  BY <1>2, <1>4, <1>8 DEF ClubInv

\* The insertion of a request that has passed its checks.
LEMMA ClubInserts ==
  ASSUME TypeInv, ClubInv, NEW r \in Txn, NEW ids \in SUBSET Booking,
         NEW rows \in [ids -> wanted[r]], InsertBookings(r, rows)
  PROVE  ClubInv'
<1>1. /\ pc[r] = "admitted"
      /\ {rows[b] : b \in ids} = wanted[r]
      /\ \A b, c \in ids : rows[b] = rows[c] => b = c
      /\ \A b \in ids : status[b] = "none" /\ status'[b] = "pending" /\ terms'[b] = rows[b]
      /\ \A b \in Booking \ ids : status'[b] = status[b] /\ terms'[b] = terms[b]
  BY InsertEffect
<1>2. \A s \in Txn : pc'[s] = "admitted" => s # r /\ pc[s] = "admitted" /\ wanted'[s] = wanted[s]
  BY InsertEffect, EndTxnGrantsNothing
<1>3. ASSUME NEW b \in ids
      PROVE  /\ terms'[b] \in wanted[r] /\ terms'[b] \in Terms /\ terms'[b].owner \in Club
             /\ terms'[b].kind = "temp" => terms'[b] \in TempTerms
  BY <1>1, AdmittedTerms
<1>4. ASSUME NEW s \in Txn, pc'[s] = "admitted", NEW t \in wanted'[s], NEW b \in ids
      PROVE  terms'[b].owner # t.owner
  BY <1>1, <1>2, <1>3, <1>4 DEF ClubInv, AdmittedInv
<1>5. ASSUME NEW b \in ids, NEW c \in Booking \ ids,
             status'[c] \in Live, terms'[b].kind = "temp", terms'[c].kind = "temp",
             terms'[b].owner = terms'[c].owner
      PROVE  Cells(terms'[b]) \cap Cells(terms'[c]) = {}
  BY <1>1, <1>3, <1>5 DEF ClubInv, AdmittedInv
<1>6. ASSUME NEW b \in ids, NEW c \in ids, b # c, terms'[b].kind = "temp", terms'[c].kind = "temp"
      PROVE  Cells(terms'[b]) \cap Cells(terms'[c]) = {}
  <2>1. terms'[b] # terms'[c] /\ terms'[b] \in wanted[r] /\ terms'[c] \in wanted[r]
    BY <1>1, <1>3, <1>6
  <2>2. wanted[r] \in Batches
    BY <1>1, <2>1 DEF TypeInv, TxnInv
  <2>3. terms'[b].first # terms'[c].first \/ terms'[b].slots \cap terms'[c].slots = {}
    BY <2>1, <2>2, BatchAssumption
  <2> QED
    BY <1>3, <1>6, <2>3, CellsClash DEF Clash
<1>7. NoDuplicates'
  <2> SUFFICES ASSUME NEW b \in Booking, NEW c \in Booking, b # c,
                      status'[b] \in Live, status'[c] \in Live,
                      terms'[b].kind = "temp", terms'[c].kind = "temp",
                      terms'[b].owner \in Club, terms'[b].owner = terms'[c].owner
               PROVE  Cells(terms'[b]) \cap Cells(terms'[c]) = {}
    BY DEF NoDuplicates, Cells, Live
  <2>1. CASE b \notin ids /\ c \notin ids
    BY <1>1, <2>1 DEF ClubInv, NoDuplicates
  <2> QED
    BY <1>5, <1>6, <2>1
<1>8. ASSUME NEW c, NEW start
      PROVE  Cardinality(UsedFixedPeriods(c, start)) \in Nat
  BY LiveTerms, UsedFinite, UsedIs
<1>9. ASSUME NEW c, NEW start,
             \A b \in ids : terms'[b].kind = "fixed" /\ terms'[b].owner = c => terms'[b].first # start
      PROVE  /\ Cardinality(UsedFixedPeriods(c, start)') \in Nat
             /\ Cardinality(UsedFixedPeriods(c, start)') <= Cardinality(UsedFixedPeriods(c, start))
  <2>1. \A b \in Booking : status'[b] \in Live /\ terms'[b].kind = "fixed" /\ terms'[b].owner = c
                              /\ terms'[b].first = start => status[b] \in Live /\ terms'[b] = terms[b]
    BY <1>1, <1>9
  <2> QED
    BY <2>1, LiveTerms, UsedFewer, UsedIs
<1>10. ASSUME NEW b \in ids, NEW c, NEW start, NEW t,
              t = terms'[b], t.kind = "fixed", t.owner = c, t.first = start
       PROVE  Cardinality(UsedFixedPeriods(c, start)') <= MaxFixedSlots
  <2>1. t \in wanted[r] /\ t \in Terms
    BY <1>3, <1>10
  <2>2. ids = {b}
    <3>1. wanted[r] \notin Batches
      <4>1. t \notin TempTerms
        BY <1>10 DEF TempTerms
      <4> QED
        BY <2>1, <4>1, BatchTyped
    <3>2. wanted[r] = {t}
      BY <1>1, <2>1, <3>1 DEF TypeInv, TxnInv
    <3> QED
      BY <1>1, <3>2
  <2>3. Cardinality(UsedFixedPeriods(c, start)) + Cardinality(t.slots) <= MaxFixedSlots
    BY <1>1, <1>10, <2>1 DEF ClubInv, AdmittedInv
  <2>4. b \in Booking /\ \A d \in Booking \ {b} : status'[d] = status[d] /\ terms'[d] = terms[d]
    BY <1>1, <2>2
  <2>5. /\ Cardinality(t.slots) \in Nat
        /\ Cardinality(UsedOf(status', terms', c, start)) \in Nat
        /\ Cardinality(UsedOf(status', terms', c, start))
              <= Cardinality(UsedOf(status, terms, c, start)) + Cardinality(t.slots)
    BY <1>10, <2>1, <2>4, LiveTerms, UsedMore
  <2> QED
    BY <1>8, <2>3, <2>5, UsedIs, NumberAssumption
<1>11. QuotaInv'
  <2> SUFFICES ASSUME NEW c \in Club, NEW start \in Day
               PROVE  Cardinality(UsedFixedPeriods(c, start)') <= MaxFixedSlots
    BY DEF QuotaInv, Day
  <2>1. CASE \E b \in ids : terms'[b].kind = "fixed" /\ terms'[b].owner = c /\ terms'[b].first = start
    BY <1>10, <2>1
  <2>2. CASE \A b \in ids : terms'[b].kind = "fixed" /\ terms'[b].owner = c => terms'[b].first # start
    <3>1. /\ Cardinality(UsedFixedPeriods(c, start)') \in Nat
          /\ Cardinality(UsedFixedPeriods(c, start)') <= Cardinality(UsedFixedPeriods(c, start))
      BY <1>9, <2>2
    <3>2. Cardinality(UsedFixedPeriods(c, start)) <= MaxFixedSlots
      BY DEF ClubInv, QuotaInv
    <3> QED
      BY <1>8, <3>1, <3>2, NumberAssumption
  <2> QED
    BY <2>1, <2>2
<1>12. AdmittedInv'
  <2>1. \A q, s \in Txn : pc'[q] = "admitted" /\ pc'[s] = "admitted" =>
          \A t \in wanted'[q], u \in wanted'[s] : t.owner = u.owner => q = s
    BY <1>2 DEF ClubInv, AdmittedInv
  <2>2. ASSUME NEW s \in Txn, pc'[s] = "admitted", NEW t \in wanted'[s], t.kind = "temp",
               NEW b \in Booking, status'[b] \in Live, terms'[b].kind = "temp", terms'[b].owner = t.owner
        PROVE  Cells(t) \cap Cells(terms'[b]) = {}
    <3>1. b \notin ids
      BY <1>4, <2>2
    <3> QED
      BY <1>1, <1>2, <2>2, <3>1 DEF ClubInv, AdmittedInv
  <2>3. ASSUME NEW s \in Txn, pc'[s] = "admitted", NEW t \in wanted'[s], t.kind = "fixed"
        PROVE  Cardinality(UsedFixedPeriods(t.owner, t.first)') + Cardinality(t.slots) <= MaxFixedSlots
    <3>1. pc[s] = "admitted" /\ t \in wanted[s]
      BY <1>2, <2>3
    <3>2. Cardinality(t.slots) \in Nat
      BY <3>1, AdmittedTerms
    <3>3. Cardinality(UsedFixedPeriods(t.owner, t.first)) + Cardinality(t.slots) <= MaxFixedSlots
      BY <2>3, <3>1 DEF ClubInv, AdmittedInv
    <3>4. /\ Cardinality(UsedFixedPeriods(t.owner, t.first)') \in Nat
          /\ Cardinality(UsedFixedPeriods(t.owner, t.first)') <= Cardinality(UsedFixedPeriods(t.owner, t.first))
      BY <1>4, <1>9, <2>3
    <3> QED
      BY <1>8, <3>2, <3>3, <3>4, NumberAssumption
  <2> QED
    BY <2>1, <2>2, <2>3 DEF AdmittedInv, UsedFixedPeriods, Cells, Live
<1> QED
  BY <1>7, <1>11, <1>12 DEF ClubInv

LEMMA ClubStep ==
  ASSUME TypeInv, ClubInv, [Next]_vars
  PROVE  ClubInv'
<1>1. ASSUME UNCHANGED <<status, terms>>,
             \A s \in Txn : pc'[s] = "admitted" => pc[s] = "admitted" /\ wanted'[s] = wanted[s]
      PROVE  ClubInv'
  BY <1>1, ClubQuiet
<1>2. CASE UNCHANGED vars
  BY <1>1, <1>2 DEF vars, rowVars, txnVars
<1>3. CASE Administration
  BY <1>1, <1>3, AdministrationEffect DEF rowVars, txnVars
<1>4. ASSUME NEW r \in Txn, Rollback(r) \/ Setting(r)
      PROVE  ClubInv'
  <2>1. CASE Rollback(r) \/ WriteWindow(r)
    <3>1. EndTxn(r) /\ UNCHANGED <<status, terms>>
      BY <2>1 DEF Rollback, WriteWindow, rowVars
    <3> QED
      BY <1>1, <3>1, EndTxnGrantsNothing
  <2>2. ASSUME NEW w \in Windows, GuardWindow(r, w)
        PROVE  ClubInv'
    <3>1. pc' = [pc EXCEPT ![r] = "setting"] /\ UNCHANGED <<status, terms, wanted>>
      BY <2>2 DEF GuardWindow, rowVars
    <3>2. \A s \in Txn : pc'[s] = "admitted" => pc[s] = "admitted" /\ wanted'[s] = wanted[s]
      BY <3>1 DEF TypeInv, TypeOK
    <3> QED
      BY <1>1, <3>1, <3>2
  <2> QED
    BY <1>4, <2>1, <2>2 DEF Setting
<1>5. ASSUME NEW r \in Txn, NEW from, NEW to, NEW S,
             to \in {"asked", "approving", "manual", "granted"}, GoOn(r, from, to, S)
      PROVE  ClubInv'
  <2>1. /\ pc' = [pc EXCEPT ![r] = to] /\ wanted' = [wanted EXCEPT ![r] = S]
        /\ UNCHANGED <<status, terms>>
    BY <1>5 DEF GoOn, rowVars
  <2>2. \A s \in Txn : pc'[s] = "admitted" => pc[s] = "admitted" /\ wanted'[s] = wanted[s]
    BY <1>5, <2>1 DEF TypeInv, TypeOK
  <2> QED
    BY <1>1, <2>1, <2>2
<1>6. ASSUME NEW r \in Txn, Asking(r)
      PROVE  ClubInv'
  <2>1. ASSUME NEW batch \in Batches, AskTemp(r, batch)
        PROVE  ClubInv'
    BY <1>5, <2>1 DEF AskTemp
  <2>2. ASSUME NEW a \in FixedAsks, AskFixed(r, a)
        PROVE  ClubInv'
    BY <1>5, <2>2 DEF AskFixed
  <2> QED
    BY <1>6, <2>1, <2>2, ClubAdmits, ClubInserts DEF Asking
<1>7. ASSUME NEW r \in Txn, Entering(r)
      PROVE  ClubInv'
  <2>1. ASSUME NEW t \in ManualAsks, AskManual(r, t)
        PROVE  ClubInv'
    BY <1>5, <2>1 DEF AskManual
  <2>2. CASE GrantManual(r)
    BY <1>5, <2>2 DEF GrantManual
  <2>3. ASSUME NEW b \in Booking, InsertManual(r, b)
        PROVE  ClubInv'
    <3>1. \A c \in Booking : status'[c] \in Live /\ terms'[c].owner \in Club
                                => status[c] \in Live /\ terms'[c] = terms[c]
      BY <2>3, ManualEffect, OwnerAssumption
    <3> QED
      BY <2>3, <3>1, ManualEffect, EndTxnGrantsNothing, ClubQuiet
  <2> QED
    BY <1>7, <2>1, <2>2, <2>3 DEF Entering
<1>8. ASSUME NEW r \in Txn, Deciding(r)
      PROVE  ClubInv'
  <2>1. ASSUME NEW b \in Booking, LockBooking(r, b)
        PROVE  ClubInv'
    <3>1. pc' = [pc EXCEPT ![r] = "deciding"] /\ UNCHANGED <<status, terms, wanted>>
      BY <2>1 DEF LockBooking, rowVars
    <3>2. \A s \in Txn : pc'[s] = "admitted" => pc[s] = "admitted" /\ wanted'[s] = wanted[s]
      BY <3>1 DEF TypeInv, TypeOK
    <3> QED
      BY <1>1, <3>1, <3>2
  <2>2. CASE BeginApproval(r) \/ GrantApproval(r)
    BY <1>5, <2>2 DEF BeginApproval, GrantApproval
  <2>3. ASSUME NEW b \in Booking,
               ApproveBooking(r, b) \/ RejectBooking(r, b) \/ RevokeBooking(r, b) \/ CancelBooking(r, b)
        PROVE  ClubInv'
    <3>1. UNCHANGED terms /\ \A c \in Booking : status'[c] \in Live => status[c] \in Live
      BY <2>3, DecisionEffect DEF Live
    <3> QED
      BY <2>3, <3>1, DecisionEffect, EndTxnGrantsNothing, ClubQuiet
  <2> QED
    BY <1>8, <2>1, <2>2, <2>3 DEF Deciding
<1> QED
  BY <1>2, <1>3, <1>4, <1>6, <1>7, <1>8 DEF Next

LEMMA ClubInvariant == Spec => [](TypeInv /\ ClubInv)
<1>1. ASSUME Init
      PROVE  ClubInv
  <2>1. (\A b \in Booking : status[b] = "none") /\ \A r \in Txn : pc[r] = "idle"
    BY <1>1 DEF Init
  <2>2. ASSUME NEW c \in Club, NEW start \in Day
        PROVE  Cardinality(UsedFixedPeriods(c, start)) <= MaxFixedSlots
    <3>1. UsedFixedPeriods(c, start) = {}
      BY <2>1 DEF UsedFixedPeriods, Live
    <3> QED
      BY <3>1, FS_EmptySet, NumberAssumption
  <2> QED
    BY <2>1, <2>2 DEF ClubInv, NoDuplicates, QuotaInv, AdmittedInv, Live
<1>2. TypeInv /\ ClubInv /\ [Next]_vars => (TypeInv /\ ClubInv)'
  BY StepTyped, ClubStep
<1> QED
  BY <1>1, <1>2, InitTyped, PTL DEF Spec

(* A club never holds two live temporary bookings of the same period of a    *)
(* venue's day.                                                              *)
THEOREM NeverDuplicated == Spec => []NoDuplicates
<1>1. TypeInv /\ ClubInv => NoDuplicates
  BY DEF ClubInv
<1> QED
  BY <1>1, ClubInvariant, PTL

(* A club never holds more weekly slots of a semester than it may.           *)
THEOREM QuotaKept == Spec => []SlotQuota
<1>1. TypeInv /\ ClubInv => SlotQuota
  BY CalendarAssumption DEF ClubInv, QuotaInv, SlotQuota
<1> QED
  BY <1>1, ClubInvariant, PTL

(* No club gets past either limit.                                           *)
THEOREM LimitsHold == Spec => []ClubLimits
<1>1. NoDuplicates /\ SlotQuota => ClubLimits
  BY DEF ClubLimits
<1> QED
  BY <1>1, NeverDuplicated, QuotaKept, PTL

(* Rows, trails and grants agree in every reachable state.                   *)
THEOREM RecordsHold == Spec => []RecordsInv
<1>1. TypeOK /\ TrailMatchesStatus /\ GrantInv => RecordsInv
  BY DEF RecordsInv
<1> QED
  BY <1>1, TypeOKHolds, TrailsExact, GrantHolds, PTL
=============================================================================
