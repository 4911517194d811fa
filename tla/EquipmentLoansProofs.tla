----------------------- MODULE EquipmentLoansProofs -----------------------
(***************************************************************************)
(* Theorems about EquipmentLoans, for every set of loans, items, clubs,    *)
(* transactions and requests.                                              *)
(***************************************************************************)
EXTENDS EquipmentLoans, FiniteSetTheorems, SequenceTheorems, TLAPS

\* A row that exists has terms, and so has a request that is being served.
TermsKnown ==
    /\ \A l \in Loan : status[l] # "none" => terms[l] \in Terms
    /\ \A r \in Txn : pc[r] \in {"asked", "admitting"} => ask[r] \in Asks
    /\ \A r \in Txn : \A l \in target[r] \cup queue[r] : status[l] # "none"

TypeInv == TypeOK /\ TermsKnown

LEMMA DayIsNat == Day \subseteq Nat
  BY DEF Day

LEMMA EndTxnType ==
  ASSUME TypeInv, NEW r \in Txn, EndTxn(r)
  PROVE  /\ pc' \in [Txn -> {"idle", "asked", "admitting", "deciding", "sweeping"}]
         /\ ask' \in [Txn -> Asks \cup {NoTerms}]
         /\ seen' \in [Txn -> Nat]
         /\ target' \in [Txn -> SUBSET Loan]
         /\ queue' \in [Txn -> SUBSET Loan]
         /\ pc'[r] = "idle" /\ target'[r] = {} /\ queue'[r] = {}
         /\ \A s \in Txn \ {r} : /\ pc'[s] = pc[s] /\ ask'[s] = ask[s] /\ seen'[s] = seen[s]
                                 /\ target'[s] = target[s] /\ queue'[s] = queue[s]
  BY DEF TypeInv, TypeOK, EndTxn

\* The quantity of a row is a positive number of units, one for each.
LEMMA TermsFields ==
  ASSUME NEW t \in Terms
  PROVE  /\ t.owner \in Club \cup {Office} /\ t.item \in Item
         /\ t.qty \in Nat \ {0} /\ t.first \in Day /\ t.last \in Day
  BY DEF Terms

LEMMA OneRowCount ==
  ASSUME NEW l, NEW n \in Nat
  PROVE  IsFiniteSet({l} \X (1 .. n)) /\ Cardinality({l} \X (1 .. n)) = n
<1>1. IsFiniteSet(1 .. n) /\ Cardinality(1 .. n) = n
  BY FS_Interval
<1>2. IsFiniteSet({l}) /\ Cardinality({l}) = 1
  BY FS_Singleton
<1>3. IsFiniteSet({l} \X (1 .. n)) /\ Cardinality({l} \X (1 .. n)) = 1 * n
  BY <1>1, <1>2, FS_Product
<1> QED
  BY <1>3

LEMMA UnitsCount ==
  ASSUME NEW l \in Loan, status[l] # "none", TypeInv
  PROVE  IsFiniteSet(Units(l)) /\ Cardinality(Units(l)) = terms[l].qty
<1>1. terms[l].qty \in Nat
  BY TermsFields DEF TypeInv, TermsKnown
<1> QED
  BY <1>1, OneRowCount DEF Units

\* The units of any set of existing rows are finitely many.
LEMMA UnitsFinite ==
  ASSUME TypeInv, NEW K \in SUBSET Loan, \A l \in K : status[l] # "none"
  PROVE  IsFiniteSet(UNION {Units(l) : l \in K})
<1> DEFINE F == {Units(l) : l \in K}
           f == [l \in K |-> Units(l)]
<1>1. IsFiniteSet(K)
  BY LoanAssumption, FS_Subset
<1>2. f \in Surjection(K, F)
  BY DEF Surjection
<1>3. IsFiniteSet(F)
  BY <1>1, <1>2, FS_Surjection
<1>4. \A U \in F : IsFiniteSet(U)
  BY UnitsCount
<1> HIDE DEF F
<1>5. IsFiniteSet(UNION F)
  BY <1>3, <1>4, FS_UNION
<1> QED
  BY <1>5 DEF F

LEMMA OccupiedFinite ==
  ASSUME TypeInv, NEW e \in Item, NEW s \in Day, NEW t \in Day
  PROVE  /\ IsFiniteSet(OccupiedUnits(e, s, t))
         /\ Cardinality(OccupiedUnits(e, s, t)) \in Nat
<1> DEFINE K == {k \in Loan : OccupiesWindow(k, e, s, t)}
<1>1. K \in SUBSET Loan /\ \A l \in K : status[l] # "none"
  BY DEF OccupiesWindow, Live
<1> HIDE DEF K
<1>2. IsFiniteSet(UNION {Units(l) : l \in K})
  BY <1>1, UnitsFinite
<1>3. OccupiedUnits(e, s, t) = UNION {Units(l) : l \in K}
  BY DEF OccupiedUnits, K
<1> QED
  BY <1>2, <1>3, FS_CardinalityType

LEMMA AvailableIsNat ==
  ASSUME TypeInv, NEW total \in Nat, NEW e \in Item, NEW s \in Day, NEW t \in Day
  PROVE  EquipmentAvailableInWindow(total, e, s, t) \in 0 .. total
<1> DEFINE out == Cardinality(OccupiedUnits(e, s, t))
<1>1. out \in Nat
  BY OccupiedFinite
<1>2. EquipmentAvailableInWindow(total, e, s, t) = IF out < total THEN total - out ELSE 0
  BY DEF EquipmentAvailableInWindow
<1> HIDE DEF out
<1> QED
  BY <1>1, <1>2

-----------------------------------------------------------------------------
(* Type correctness *)

LEMMA AskingTyped ==
  ASSUME TypeInv, NEW r \in Txn, Asking(r)
  PROVE  TypeInv'
<1> USE DEF clubVars, loanVars
<1>1. ASSUME NEW a \in Asks, BeginAsk(r, a)
      PROVE  TypeInv'
  <2>1. a.item \in Item
    BY AsksAssumption, TermsFields
  <2>2. stock[a.item].total \in Nat
    BY <2>1 DEF TypeInv, TypeOK
  <2>3. /\ UNCHANGED <<today, stock, peak, suspended, status, terms, trail, target, queue>>
        /\ pc' = [pc EXCEPT ![r] = "asked"]
        /\ ask' = [ask EXCEPT ![r] = a]
        /\ seen' = [seen EXCEPT ![r] = stock[a.item].total]
    BY <1>1 DEF BeginAsk
  <2>4. TypeOK'
    BY <2>2, <2>3 DEF TypeInv, TypeOK
  <2>5. TermsKnown'
    BY <2>3 DEF TypeInv, TypeOK, TermsKnown
  <2> QED
    BY <2>4, <2>5 DEF TypeInv
<1>2. CASE CheckAvailability(r)
  <2> DEFINE avail == EquipmentAvailableInWindow(seen[r], ask[r].item, ask[r].first, ask[r].last)
  <2>1. ask[r] \in Asks
    BY <1>2 DEF TypeInv, TermsKnown, CheckAvailability
  <2>2. ask[r].item \in Item /\ ask[r].first \in Day /\ ask[r].last \in Day
    BY <2>1, AsksAssumption, TermsFields
  <2> HIDE DEF avail
  <2>3. avail \in Nat
    <3>1. seen[r] \in Nat
      BY DEF TypeInv, TypeOK
    <3>2. avail \in 0 .. seen[r]
      BY <2>2, <3>1, AvailableIsNat DEF avail
    <3> QED
      BY <3>1, <3>2
  <2>4. /\ UNCHANGED <<today, stock, peak, suspended, status, terms, trail, ask, target, queue>>
        /\ pc' = [pc EXCEPT ![r] = "admitting"]
        /\ seen' = [seen EXCEPT ![r] = avail]
    BY <1>2 DEF CheckAvailability, avail
  <2>5. TypeOK'
    BY <2>3, <2>4 DEF TypeInv, TypeOK
  <2>6. TermsKnown'
    BY <2>1, <2>4 DEF TypeInv, TypeOK, TermsKnown
  <2> QED
    BY <2>5, <2>6 DEF TypeInv
<1>3. ASSUME NEW l \in Loan, InsertLoan(r, l)
      PROVE  TypeInv'
  <2>1. ask[r] \in Terms
    BY <1>3, AsksAssumption DEF TypeInv, TermsKnown, InsertLoan
  <2>2. /\ UNCHANGED <<today, stock, peak, suspended, trail>>
        /\ EndTxn(r)
        /\ terms' = [terms EXCEPT ![l] = ask[r]]
        /\ status' = [status EXCEPT ![l] = IF ask[r].owner = Office THEN "approved" ELSE "pending"]
    BY <1>3 DEF InsertLoan
  <2>3. TypeOK'
    BY <2>1, <2>2, EndTxnType DEF TypeInv, TypeOK, Status, Live
  <2>4. TermsKnown'
    BY <2>1, <2>2, EndTxnType DEF TypeInv, TypeOK, TermsKnown
  <2> QED
    BY <2>3, <2>4 DEF TypeInv
<1> QED
  BY <1>1, <1>2, <1>3 DEF Asking, RequestLoan, RequestManualLoan

\* What every decision does to the row it has locked.
LEMMA MoveTyped ==
  ASSUME TypeInv, NEW r \in Txn, NEW l \in Loan, NEW from, NEW to \in Status \ {"none"},
         Move(r, l, from, to), from # "none",
         terms' \in [Loan -> Terms \cup {NoTerms}],
         \A k \in Loan : terms[k] \in Terms => terms'[k] \in Terms,
         trail' \in [Loan -> Seq({"approve", "reject", "revoke"})]
  PROVE  TypeInv'
<1>1. /\ UNCHANGED <<today, stock, peak, suspended>>
      /\ EndTxn(r)
      /\ status' = [status EXCEPT ![l] = to]
      /\ status[l] # "none"
  BY DEF Move, clubVars
<1>2. TypeOK'
  BY <1>1, EndTxnType DEF TypeInv, TypeOK
<1>3. TermsKnown'
  <2>0. status \in [Loan -> Status] /\ to # "none"
    BY DEF TypeInv, TypeOK
  <2>1. \A k \in Loan : status'[k] # "none" <=> status[k] # "none"
    BY <1>1, <2>0
  <2>2. \A k \in Loan : status'[k] # "none" => terms'[k] \in Terms
    BY <2>1 DEF TypeInv, TermsKnown
  <2>3. \A s \in Txn : pc'[s] \in {"asked", "admitting"} => ask'[s] \in Asks
    BY <1>1, EndTxnType DEF TypeInv, TermsKnown
  <2>4. \A s \in Txn : target'[s] \subseteq target[s] /\ queue'[s] \subseteq queue[s]
    BY <1>1, EndTxnType
  <2>5. \A s \in Txn : \A k \in target'[s] \cup queue'[s] : k \in Loan /\ status'[k] # "none"
    BY <2>1, <2>4 DEF TypeInv, TypeOK, TermsKnown
  <2> QED
    BY <2>2, <2>3, <2>5 DEF TermsKnown
<1> QED
  BY <1>2, <1>3 DEF TypeInv

LEMMA RecordTyped ==
  ASSUME TypeInv, NEW l \in Loan, NEW d \in {"approve", "reject", "revoke"}, Record(l, d)
  PROVE  trail' \in [Loan -> Seq({"approve", "reject", "revoke"})]
<1>1. trail[l] \in Seq({"approve", "reject", "revoke"})
  BY DEF TypeInv, TypeOK
<1>2. Append(trail[l], d) \in Seq({"approve", "reject", "revoke"})
  BY <1>1
<1> QED
  BY <1>2 DEF TypeInv, TypeOK, Record

LEMMA QuantityIsPositive == Quantity \subseteq Nat \ {0}
<1> SUFFICES ASSUME NEW a \in Asks, NEW q \in 1 .. a.qty PROVE q \in Nat \ {0}
  BY DEF Quantity
<1>1. a.qty \in Nat
  BY AsksAssumption, TermsFields
<1> QED
  BY <1>1

LEMMA DecidingTyped ==
  ASSUME TypeInv, NEW r \in Txn, NEW l \in Loan, Deciding(r, l)
  PROVE  TypeInv'
<1> USE DEF Status, Live, Settled
<1>1. ASSUME NEW q \in Quantity, ApproveLoan(r, l, q)
      PROVE  TypeInv'
  <2>1. terms[l] \in Terms /\ Move(r, l, "pending", "approved") /\ Record(l, "approve")
        /\ terms' = [terms EXCEPT ![l].qty = q]
    BY <1>1 DEF ApproveLoan, Move, TypeInv, TermsKnown
  <2>2. [terms[l] EXCEPT !.qty = q] \in Terms
    BY <2>1, QuantityIsPositive DEF Terms
  <2>3. /\ terms' \in [Loan -> Terms \cup {NoTerms}]
        /\ \A k \in Loan : terms[k] \in Terms => terms'[k] \in Terms
    BY <2>1, <2>2 DEF TypeInv, TypeOK
  <2> QED
    BY <2>1, <2>3, MoveTyped, RecordTyped
<1>2. CASE RejectLoan(r, l)
  BY <1>2, MoveTyped, RecordTyped DEF RejectLoan, TypeInv, TypeOK
<1>3. CASE RevokeLoan(r, l)
  BY <1>3, MoveTyped, RecordTyped DEF RevokeLoan, TypeInv, TypeOK
<1>4. CASE CancelLoan(r, l)
  BY <1>4, MoveTyped DEF CancelLoan, TypeInv, TypeOK
<1>5. CASE CheckoutLoan(r, l)
  BY <1>5, MoveTyped DEF CheckoutLoan, TypeInv, TypeOK
<1>6. CASE CheckinLoan(r, l)
  BY <1>6, MoveTyped DEF CheckinLoan, TypeInv, TypeOK
<1> QED
  BY <1>1, <1>2, <1>3, <1>4, <1>5, <1>6 DEF Deciding

LEMMA SweepingTyped ==
  ASSUME TypeInv, NEW r \in Txn, Sweeping(r)
  PROVE  TypeInv'
<1> USE DEF clubVars, loanVars
<1>1. CASE SweepStart(r)
  <2> DEFINE snapshot == {l \in Loan : Unclaimed(l, today)}
  <2>1. /\ UNCHANGED <<today, stock, peak, suspended, status, terms, trail, ask, target>>
        /\ pc' = [pc EXCEPT ![r] = "sweeping"]
        /\ seen' = [seen EXCEPT ![r] = today]
        /\ queue' = [queue EXCEPT ![r] = snapshot]
    BY <1>1 DEF SweepStart
  <2>2. \A l \in snapshot : status[l] # "none"
    BY DEF Unclaimed
  <2>3. snapshot \subseteq Loan /\ today \in Nat
    BY DayIsNat DEF TypeInv, TypeOK
  <2> HIDE DEF snapshot
  <2>4. TypeOK'
    BY <2>1, <2>3 DEF TypeInv, TypeOK
  <2>5. TermsKnown'
    BY <2>1, <2>2 DEF TypeInv, TypeOK, TermsKnown
  <2> QED
    BY <2>4, <2>5 DEF TypeInv
<1>2. ASSUME NEW l \in Loan, SweepRow(r, l)
      PROVE  TypeInv'
  <2>1. /\ UNCHANGED <<today, stock, peak, suspended, status, terms, trail, pc, ask, seen>>
        /\ l \in queue[r]
        /\ queue' = [queue EXCEPT ![r] = @ \ {l}]
        /\ target' = [target EXCEPT ![r] = IF Unclaimed(l, seen[r]) THEN @ \cup {l} ELSE @]
    BY <1>2 DEF SweepRow
  <2>2. TypeOK'
    BY <2>1 DEF TypeInv, TypeOK
  <2>3. \A s \in Txn : target'[s] \cup queue'[s] \subseteq target[s] \cup queue[s]
    BY <2>1 DEF TypeInv, TypeOK
  <2>4. TermsKnown'
    BY <2>1, <2>3 DEF TypeInv, TermsKnown
  <2> QED
    BY <2>2, <2>4 DEF TypeInv
<1>3. CASE SweepCommit(r)
  <2>1. /\ UNCHANGED <<today, stock, peak, suspended, terms>>
        /\ EndTxn(r)
        /\ status' = [l \in Loan |-> IF l \in target[r] THEN "cancelled" ELSE status[l]]
        /\ trail' = [l \in Loan |-> IF l \in target[r] THEN Append(trail[l], "revoke") ELSE trail[l]]
    BY <1>3 DEF SweepCommit
  <2>2. status' \in [Loan -> Status]
    BY <2>1 DEF TypeInv, TypeOK, Status, Settled
  <2>3. trail' \in [Loan -> Seq({"approve", "reject", "revoke"})]
    <3>1. \A l \in Loan : Append(trail[l], "revoke") \in Seq({"approve", "reject", "revoke"})
      BY DEF TypeInv, TypeOK
    <3> QED
      BY <2>1, <3>1 DEF TypeInv, TypeOK
  <2>4. TypeOK'
    BY <2>1, <2>2, <2>3, EndTxnType DEF TypeInv, TypeOK
  <2>5. \A k \in Loan : status'[k] # "none" <=> status[k] # "none"
    BY <2>1 DEF TypeInv, TermsKnown
  <2>6. \A s \in Txn : target'[s] \subseteq target[s] /\ queue'[s] \subseteq queue[s]
    BY <2>1, EndTxnType
  <2>7. \A s \in Txn : target[s] \subseteq Loan /\ queue[s] \subseteq Loan
    BY DEF TypeInv, TypeOK
  <2>8. \A s \in Txn : \A k \in target'[s] \cup queue'[s] : status'[k] # "none"
    BY <2>5, <2>6, <2>7 DEF TypeInv, TermsKnown
  <2>9. \A s \in Txn : pc'[s] \in {"asked", "admitting"} => ask'[s] \in Asks
    BY <2>1, EndTxnType DEF TypeInv, TermsKnown
  <2>10. \A k \in Loan : status'[k] # "none" => terms'[k] \in Terms
    BY <2>1, <2>5 DEF TypeInv, TermsKnown
  <2> QED
    BY <2>4, <2>8, <2>9, <2>10 DEF TypeInv, TermsKnown
<1> QED
  BY <1>1, <1>2, <1>3 DEF Sweeping

LEMMA OtherTyped ==
  ASSUME TypeInv,
         \/ \E r \in Txn : Rollback(r) \/ \E l \in Loan : LockLoan(r, l)
         \/ Administration
  PROVE  TypeInv'
<1> USE DEF clubVars, loanVars, txnVars
<1>1. ASSUME NEW r \in Txn, Rollback(r)
      PROVE  TypeInv'
  <2>1. TypeOK'
    BY <1>1, EndTxnType DEF Rollback, TypeInv, TypeOK
  <2>2. TermsKnown'
    BY <1>1, EndTxnType DEF Rollback, TypeInv, TermsKnown
  <2> QED
    BY <2>1, <2>2 DEF TypeInv
<1>2. ASSUME NEW r \in Txn, NEW l \in Loan, LockLoan(r, l)
      PROVE  TypeInv'
  BY <1>2 DEF LockLoan, TypeInv, TypeOK, TermsKnown
<1>3. ASSUME NEW e \in Item, NEW s \in Settings, UpdateEquipment(e, s)
      PROVE  TypeInv'
  <2>1. s \in [total : Nat, limit : Nat, active : BOOLEAN]
    BY SettingsAssumption
  <2>2. TypeOK'
    BY <1>3, <2>1 DEF UpdateEquipment, TypeInv, TypeOK
  <2>3. TermsKnown'
    BY <1>3 DEF UpdateEquipment, TypeInv, TermsKnown
  <2> QED
    BY <2>2, <2>3 DEF TypeInv
<1>4. ASSUME NEW c \in Club, NEW until \in Suspensions,
             LiftClubSuspension(c) \/ SuspendClub(c, until)
      PROVE  TypeInv'
  BY <1>4 DEF LiftClubSuspension, SuspendClub, TypeInv, TypeOK, TermsKnown
<1>5. ASSUME NEW c \in Club, LiftClubSuspension(c)
      PROVE  TypeInv'
  BY <1>5 DEF LiftClubSuspension, TypeInv, TypeOK, TermsKnown
<1>6. CASE Midnight
  <2>1. today' \in Day
    BY <1>6, BoundAssumption DEF Midnight, TypeInv, TypeOK, Day
  <2> QED
    BY <1>6, <2>1 DEF Midnight, TypeInv, TypeOK, TermsKnown
<1> QED
  BY <1>1, <1>2, <1>3, <1>4, <1>5, <1>6 DEF Administration

LEMMA TypeInit == Init => TypeInv
<1> SUFFICES ASSUME Init PROVE TypeInv
  OBVIOUS
<1>1. today \in Day
  BY BoundAssumption DEF Init, Day
<1>2. stock \in [Item -> [total : Nat, limit : Nat, active : BOOLEAN]]
  BY SettingsAssumption DEF Init
<1>3. TypeOK
  BY <1>1, <1>2 DEF Init, TypeOK, Status
<1>4. TermsKnown
  BY DEF Init, TermsKnown
<1> QED
  BY <1>3, <1>4 DEF TypeInv

LEMMA TypeStep == TypeInv /\ [Next]_vars => TypeInv'
<1> SUFFICES ASSUME TypeInv, [Next]_vars PROVE TypeInv'
  OBVIOUS
<1>1. CASE UNCHANGED vars
  BY <1>1 DEF vars, TypeInv, TypeOK, TermsKnown
<1>2. ASSUME NEW r \in Txn, NEW l \in target[r], Deciding(r, l)
      PROVE  TypeInv'
  <2>1. l \in Loan
    BY DEF TypeInv, TypeOK
  <2> QED
    BY <1>2, <2>1, DecidingTyped
<1> QED
  BY <1>1, <1>2, AskingTyped, SweepingTyped, OtherTyped DEF Next

(* In every reachable state each variable has its type, every existing loan *)
(* row has terms, and only existing rows are locked or queued by a sweep.   *)
THEOREM TypeCorrect == Spec => []TypeInv
  BY TypeInit, TypeStep, PTL DEF Spec

THEOREM TypeOKHolds == Spec => []TypeOK
<1>1. TypeInv => TypeOK
  BY DEF TypeInv
<1> QED
  BY <1>1, TypeCorrect, PTL

-----------------------------------------------------------------------------
(* No overbooking *)

LoanInv == TypeInv /\ AdmissionInv /\ NoOverbooking

LEMMA BookedFinite ==
  ASSUME TypeInv, NEW e \in Item, NEW d \in Day
  PROVE  /\ IsFiniteSet(BookedUnits(e, d))
         /\ Cardinality(BookedUnits(e, d)) \in Nat
<1> DEFINE K == {k \in Loan : /\ status[k] \in Live
                              /\ terms[k].item = e
                              /\ OverlapsTerm(k, d, d)}
<1>1. K \in SUBSET Loan /\ \A l \in K : status[l] # "none"
  BY DEF Live
<1> HIDE DEF K
<1>2. IsFiniteSet(UNION {Units(l) : l \in K})
  BY <1>1, UnitsFinite
<1>3. BookedUnits(e, d) = UNION {Units(l) : l \in K}
  BY DEF BookedUnits, K
<1> QED
  BY <1>2, <1>3, FS_CardinalityType

\* Membership, one unit at a time.
LEMMA BookedUnit ==
  ASSUME NEW e, NEW d, NEW u
  PROVE  u \in BookedUnits(e, d) <=>
            \E k \in Loan : /\ status[k] \in Live /\ terms[k].item = e
                            /\ terms[k].first <= d /\ d <= terms[k].last
                            /\ \E n \in 1 .. terms[k].qty : u = <<k, n>>
  BY DEF BookedUnits, OverlapsTerm, Units

\* What is booked on a day is seen by the query over any window with that day.
LEMMA BookedIsOccupied ==
  ASSUME TypeInv, NEW e \in Item, NEW s \in Day, NEW t \in Day, NEW d \in s .. t
  PROVE  Cardinality(BookedUnits(e, d)) <= Cardinality(OccupiedUnits(e, s, t))
<1>1. s \in Nat /\ t \in Nat /\ d \in Nat
  BY DayIsNat
<1>2. ASSUME NEW k \in Loan, status[k] \in Live, terms[k].item = e, OverlapsTerm(k, d, d)
      PROVE  OccupiesWindow(k, e, s, t)
  <2>1. terms[k].first \in Nat /\ terms[k].last \in Nat
    BY <1>2, TermsFields, DayIsNat DEF TypeInv, TermsKnown, Live
  <2> QED
    BY <1>1, <1>2, <2>1 DEF OverlapsTerm, OccupiesWindow
<1>3. BookedUnits(e, d) \subseteq OccupiedUnits(e, s, t)
  BY <1>2 DEF BookedUnits, OccupiedUnits
<1> QED
  BY <1>3, OccupiedFinite, FS_Subset

-----------------------------------------------------------------------------
\* A step that opens no loan and lets no quantity grow.
Shrinks ==
    \A k \in Loan : status'[k] \in Live =>
        /\ status[k] \in Live
        /\ terms'[k].item = terms[k].item
        /\ terms'[k].first = terms[k].first /\ terms'[k].last = terms[k].last
        /\ terms'[k].qty <= terms[k].qty

PeakGrows == \A e \in Item : peak[e] <= peak'[e]

LEMMA ShrinkLessBooked ==
  ASSUME TypeInv, TypeInv', Shrinks, NEW e \in Item, NEW d \in Day
  PROVE  /\ Cardinality(BookedUnits(e, d)') \in Nat
         /\ Cardinality(BookedUnits(e, d)') <= Cardinality(BookedUnits(e, d))
<1>1. ASSUME NEW u \in BookedUnits(e, d)'
      PROVE  u \in BookedUnits(e, d)
  <2>1. PICK k \in Loan : /\ status'[k] \in Live /\ terms'[k].item = e
                          /\ terms'[k].first <= d /\ d <= terms'[k].last
                          /\ \E n \in 1 .. terms'[k].qty : u = <<k, n>>
    BY <1>1 DEF BookedUnits, OverlapsTerm, Units
  <2>2. PICK n \in 1 .. terms'[k].qty : u = <<k, n>>
    BY <2>1
  <2>3. /\ status[k] \in Live /\ terms[k].item = e
        /\ terms[k].first <= d /\ d <= terms[k].last
        /\ terms'[k].qty <= terms[k].qty
    BY <2>1 DEF Shrinks
  <2>4. terms[k].qty \in Nat /\ terms'[k].qty \in Nat
    BY <2>1, <2>3, TermsFields DEF TypeInv, TermsKnown, Live
  <2>5. n \in 1 .. terms[k].qty
    BY <2>3, <2>4
  <2> QED
    BY <2>2, <2>3, <2>5, BookedUnit
<1>2. BookedUnits(e, d)' \subseteq BookedUnits(e, d)
  BY <1>1
<1>3. IsFiniteSet(BookedUnits(e, d)')
  BY <1>2, BookedFinite, FS_Subset
<1> QED
  BY <1>2, <1>3, BookedFinite, FS_Subset, FS_CardinalityType

\* The days a request asks for, and the item.
LEMMA AskFields ==
  ASSUME TypeInv, NEW r \in Txn, pc[r] \in {"asked", "admitting"}
  PROVE  /\ ask[r] \in Asks /\ ask[r].item \in Item /\ ask[r].qty \in Nat \ {0}
         /\ ask[r].first \in Day /\ ask[r].last \in Day
         /\ ask[r].first .. ask[r].last \subseteq Day
<1>1. ask[r] \in Asks /\ ask[r] \in Terms
  BY AsksAssumption DEF TypeInv, TermsKnown
<1>2. ask[r].first \in Day /\ ask[r].last \in Day
  BY <1>1, TermsFields
<1>3. ask[r].first .. ask[r].last \subseteq Day
  BY <1>2, BoundAssumption DEF Day
<1> QED
  BY <1>1, <1>2, <1>3, TermsFields

LEMMA ShrinkNoOverbooking ==
  ASSUME LoanInv, TypeInv', Shrinks, PeakGrows
  PROVE  NoOverbooking'
<1> SUFFICES ASSUME NEW e \in Item, NEW d \in Day
             PROVE  Cardinality(BookedUnits(e, d)') <= peak'[e]
  BY DEF NoOverbooking
<1>1. Cardinality(BookedUnits(e, d)) \in Nat
  BY BookedFinite DEF LoanInv
<1>2. /\ Cardinality(BookedUnits(e, d)') \in Nat
      /\ Cardinality(BookedUnits(e, d)') <= Cardinality(BookedUnits(e, d))
  BY ShrinkLessBooked DEF LoanInv
<1>3. Cardinality(BookedUnits(e, d)) <= peak[e] /\ peak[e] <= peak'[e]
  BY DEF LoanInv, NoOverbooking, PeakGrows
<1>4. peak[e] \in Nat /\ peak'[e] \in Nat
  BY DEF LoanInv, TypeInv, TypeOK
<1> QED
  BY <1>1, <1>2, <1>3, <1>4

\* The room an admitting transaction has found is still there after such a step.
LEMMA ShrinkReserves ==
  ASSUME LoanInv, TypeInv', Shrinks, PeakGrows, NEW r \in Txn,
         pc[r] = "admitting", ask[r].qty <= seen[r],
         NEW e \in Item, e = ask[r].item, NEW d \in ask[r].first .. ask[r].last
  PROVE  Cardinality(BookedUnits(e, d)') + ask[r].qty <= peak'[e]
<1>1. d \in Day /\ ask[r].qty \in Nat
  BY AskFields DEF LoanInv
<1>2. Cardinality(BookedUnits(e, d)) + ask[r].qty <= peak[e]
  BY DEF LoanInv, AdmissionInv
<1>3. Cardinality(BookedUnits(e, d)) \in Nat
  BY <1>1, BookedFinite DEF LoanInv
<1>4. /\ Cardinality(BookedUnits(e, d)') \in Nat
      /\ Cardinality(BookedUnits(e, d)') <= Cardinality(BookedUnits(e, d))
  BY <1>1, ShrinkLessBooked DEF LoanInv
<1>5. peak[e] \in Nat /\ peak'[e] \in Nat /\ peak[e] <= peak'[e]
  BY DEF LoanInv, TypeInv, TypeOK, PeakGrows
<1> QED
  BY <1>1, <1>2, <1>3, <1>4, <1>5

\* Such a step, when it lets nobody take an item's lock.
LEMMA QuietStep ==
  ASSUME LoanInv, TypeInv', Shrinks, PeakGrows,
         \A e \in Item : stock'[e].total <= peak'[e],
         \A s \in Txn : pc'[s] = "admitting" =>
             pc[s] = "admitting" /\ ask'[s] = ask[s] /\ seen'[s] = seen[s],
         \A s \in Txn : pc'[s] = "asked" =>
             \/ pc[s] = "asked" /\ ask'[s] = ask[s] /\ seen'[s] = seen[s]
             \/ ask'[s].item \in Item /\ seen'[s] = stock'[ask'[s].item].total
  PROVE  LoanInv'
<1>1. NoOverbooking'
  BY ShrinkNoOverbooking
<1>2. ASSUME NEW s \in Txn, pc[s] = "asked", ask'[s] = ask[s], seen'[s] = seen[s]
      PROVE  seen'[s] <= peak'[ask'[s].item]
  <2>1. seen[s] <= peak[ask[s].item] /\ ask[s].item \in Item
    BY <1>2, AskFields DEF LoanInv, AdmissionInv
  <2>2. seen[s] \in Nat /\ peak[ask[s].item] \in Nat /\ peak'[ask[s].item] \in Nat
    BY <2>1 DEF LoanInv, TypeInv, TypeOK
  <2>3. peak[ask[s].item] <= peak'[ask[s].item]
    BY <2>1 DEF PeakGrows
  <2>4. seen[s] <= peak'[ask[s].item]
    BY <2>1, <2>2, <2>3
  <2> QED
    BY <1>2, <2>4
<1>3. \A s, t \in Txn :
         pc'[s] = "admitting" /\ pc'[t] = "admitting" /\ ask'[s].item = ask'[t].item => s = t
  BY DEF LoanInv, AdmissionInv
<1>4. ASSUME NEW s \in Txn, pc'[s] = "admitting", ask'[s].qty <= seen'[s],
             NEW d \in ask'[s].first .. ask'[s].last,
             NEW e \in Item, e = ask'[s].item
      PROVE  Cardinality(BookedUnits(e, d)') + ask'[s].qty <= peak'[e]
  <2>1. pc[s] = "admitting" /\ ask'[s] = ask[s] /\ seen'[s] = seen[s]
    BY <1>4
  <2>2. ask[s].qty <= seen[s] /\ d \in ask[s].first .. ask[s].last /\ e = ask[s].item
    BY <1>4, <2>1
  <2>3. Cardinality(BookedUnits(e, d)') + ask[s].qty <= peak'[e]
    BY <2>1, <2>2, ShrinkReserves
  <2> QED
    BY <2>1, <2>3
<1>5. \A s \in Txn : pc'[s] = "admitting" => ask'[s].item \in Item
  BY AskFields DEF LoanInv
<1>6. AdmissionInv'
  BY <1>2, <1>3, <1>4, <1>5 DEF AdmissionInv, BookedUnits, Units, OverlapsTerm
<1> QED
  BY <1>1, <1>6 DEF LoanInv

\* The query under the lock finds the room it reports.
LEMMA CheckStep ==
  ASSUME LoanInv, TypeInv', NEW r \in Txn, CheckAvailability(r)
  PROVE  LoanInv'
<1> USE DEF clubVars, loanVars
<1> DEFINE avail == EquipmentAvailableInWindow(seen[r], ask[r].item, ask[r].first, ask[r].last)
<1>1. /\ UNCHANGED <<today, stock, peak, suspended, status, terms, trail, ask, target, queue>>
      /\ pc[r] = "asked" /\ pc' = [pc EXCEPT ![r] = "admitting"]
      /\ seen' = [seen EXCEPT ![r] = avail]
      /\ ItemLockFree(ask[r].item)
  BY DEF CheckAvailability
<1> HIDE DEF avail
<1>2. /\ ask[r].item \in Item /\ ask[r].qty \in Nat \ {0}
      /\ ask[r].first \in Day /\ ask[r].last \in Day
      /\ ask[r].first .. ask[r].last \subseteq Day
  BY <1>1, AskFields DEF LoanInv
<1>3. pc \in [Txn -> {"idle", "asked", "admitting", "deciding", "sweeping"}]
      /\ seen \in [Txn -> Nat] /\ peak \in [Item -> Nat]
  BY DEF LoanInv, TypeInv, TypeOK
<1>4. ASSUME NEW d \in ask[r].first .. ask[r].last, ask[r].qty <= avail
      PROVE  Cardinality(BookedUnits(ask[r].item, d)) + ask[r].qty <= peak[ask[r].item]
  <2> DEFINE out == Cardinality(OccupiedUnits(ask[r].item, ask[r].first, ask[r].last))
             booked == Cardinality(BookedUnits(ask[r].item, d))
  <2>1. avail = IF out < seen[r] THEN seen[r] - out ELSE 0
    BY DEF avail, EquipmentAvailableInWindow
  <2>2. out \in Nat
    BY <1>2, OccupiedFinite DEF LoanInv
  <2>3. booked <= out
    BY <1>2, BookedIsOccupied DEF LoanInv
  <2>4. booked \in Nat
    BY <1>2, BookedFinite DEF LoanInv
  <2>5. seen[r] <= peak[ask[r].item]
    BY <1>1 DEF LoanInv, AdmissionInv
  <2> HIDE DEF out, booked
  <2>6. booked + ask[r].qty <= peak[ask[r].item]
    BY <1>2, <1>3, <1>4, <2>1, <2>2, <2>3, <2>4, <2>5
  <2> QED
    BY <2>6 DEF booked
<1>5. \A e \in Item, d \in Day : BookedUnits(e, d)' = BookedUnits(e, d)
  BY <1>1 DEF BookedUnits, Units, OverlapsTerm
<1>6. NoOverbooking'
  BY <1>1, <1>5 DEF LoanInv, NoOverbooking
<1>7. \A s, t \in Txn :
         pc'[s] = "admitting" /\ pc'[t] = "admitting" /\ ask'[s].item = ask'[t].item => s = t
  BY <1>1, <1>3 DEF LoanInv, AdmissionInv, ItemLockFree
<1>8. ASSUME NEW s \in Txn, pc'[s] = "admitting", ask[s].qty <= seen'[s],
             NEW d \in ask[s].first .. ask[s].last
      PROVE  Cardinality(BookedUnits(ask[s].item, d)) + ask[s].qty <= peak[ask[s].item]
  <2>1. CASE s = r
    BY <1>1, <1>3, <1>4, <1>8, <2>1
  <2>2. CASE s # r
    BY <1>1, <1>3, <1>8, <2>2 DEF LoanInv, AdmissionInv
  <2> QED
    BY <2>1, <2>2
<1>9. \A s \in Txn : pc'[s] = "asked" => seen'[s] <= peak[ask[s].item]
  BY <1>1, <1>3 DEF LoanInv, AdmissionInv
<1>10. AdmissionInv'
  BY <1>1, <1>7, <1>8, <1>9 DEF LoanInv, AdmissionInv, BookedUnits, Units, OverlapsTerm
<1> QED
  BY <1>6, <1>10 DEF LoanInv

-----------------------------------------------------------------------------
\* What an INSERT adds to a day.
LEMMA InsertAdds ==
  ASSUME TypeInv, NEW r \in Txn, NEW l \in Loan, InsertLoan(r, l),
         NEW e \in Item, NEW d \in Day
  PROVE  /\ Cardinality(BookedUnits(e, d)') \in Nat
         /\ e = ask[r].item /\ d \in ask[r].first .. ask[r].last =>
              Cardinality(BookedUnits(e, d)') <= Cardinality(BookedUnits(e, d)) + ask[r].qty
         /\ ~(e = ask[r].item /\ d \in ask[r].first .. ask[r].last) =>
              Cardinality(BookedUnits(e, d)') <= Cardinality(BookedUnits(e, d))
<1> DEFINE q == ask[r].qty
           new == {l} \X (1 .. q)
           hit == e = ask[r].item /\ d \in ask[r].first .. ask[r].last
<1>1. /\ status[l] = "none"
      /\ \A k \in Loan \ {l} : status'[k] = status[k] /\ terms'[k] = terms[k]
      /\ terms'[l] = ask[r]
  BY DEF InsertLoan, NextLoan, TypeInv, TypeOK
<1>2. q \in Nat
  BY AskFields DEF InsertLoan
<1> HIDE DEF q, new
<1>3. IsFiniteSet(new) /\ Cardinality(new) = q
  BY <1>2, OneRowCount DEF new
<1>4. ASSUME NEW u \in BookedUnits(e, d)'
      PROVE  u \in BookedUnits(e, d) \/ (hit /\ u \in new)
  <2>1. PICK k \in Loan : /\ status'[k] \in Live /\ terms'[k].item = e
                          /\ terms'[k].first <= d /\ d <= terms'[k].last
                          /\ \E n \in 1 .. terms'[k].qty : u = <<k, n>>
    BY <1>4 DEF BookedUnits, OverlapsTerm, Units
  <2>2. CASE k # l
    BY <1>1, <2>1, <2>2, BookedUnit
  <2>3. CASE k = l
    <3>1. ask[r].first \in Nat /\ ask[r].last \in Nat /\ d \in Nat
      BY AskFields, DayIsNat DEF InsertLoan
    <3>2. hit
      BY <1>1, <2>1, <2>3, <3>1
    <3>3. u \in new
      BY <1>1, <2>1, <2>3 DEF q, new
    <3> QED
      BY <3>2, <3>3
  <2> QED
    BY <2>2, <2>3
<1>5. IsFiniteSet(BookedUnits(e, d)) /\ Cardinality(BookedUnits(e, d)) \in Nat
  BY BookedFinite
<1> HIDE DEF hit
<1>6. CASE hit
  <2>1. BookedUnits(e, d)' \subseteq BookedUnits(e, d) \cup new
    BY <1>4
  <2>2. /\ IsFiniteSet(BookedUnits(e, d) \cup new)
        /\ Cardinality(BookedUnits(e, d) \cup new)
              = Cardinality(BookedUnits(e, d)) + q - Cardinality(BookedUnits(e, d) \cap new)
    BY <1>3, <1>5, FS_Union
  <2>3. Cardinality(BookedUnits(e, d) \cap new) \in Nat
    BY <1>5, FS_Intersection, FS_CardinalityType
  <2>4. /\ Cardinality(BookedUnits(e, d)') <= Cardinality(BookedUnits(e, d) \cup new)
        /\ Cardinality(BookedUnits(e, d)') \in Nat
    BY <2>1, <2>2, FS_Subset, FS_CardinalityType
  <2> QED
    BY <1>2, <1>5, <1>6, <2>2, <2>3, <2>4 DEF q, hit
<1>7. CASE ~hit
  <2>1. BookedUnits(e, d)' \subseteq BookedUnits(e, d)
    BY <1>4, <1>7
  <2>2. /\ Cardinality(BookedUnits(e, d)') <= Cardinality(BookedUnits(e, d))
        /\ Cardinality(BookedUnits(e, d)') \in Nat
    BY <1>5, <2>1, FS_Subset, FS_CardinalityType
  <2> QED
    BY <1>7, <2>2 DEF hit
<1> QED
  BY <1>6, <1>7

\* The lock keeps the room until the INSERT uses it.
LEMMA InsertStep ==
  ASSUME LoanInv, TypeInv', NEW r \in Txn, NEW l \in Loan, InsertLoan(r, l)
  PROVE  LoanInv'
<1>1. /\ UNCHANGED <<today, stock, peak, suspended>>
      /\ pc[r] = "admitting" /\ ask[r].qty <= seen[r]
      /\ EndTxn(r)
  BY DEF InsertLoan, clubVars
<1>2. /\ pc'[r] = "idle"
      /\ \A s \in Txn \ {r} : pc'[s] = pc[s] /\ ask'[s] = ask[s] /\ seen'[s] = seen[s]
  BY <1>1, EndTxnType DEF LoanInv
<1>3. ask[r].qty \in Nat /\ peak \in [Item -> Nat] /\ TypeInv
  BY <1>1, AskFields DEF LoanInv, TypeInv, TypeOK
<1>4. ASSUME NEW e \in Item, NEW d \in Day
      PROVE  Cardinality(BookedUnits(e, d)') <= peak[e]
  <2>1. Cardinality(BookedUnits(e, d)) \in Nat /\ Cardinality(BookedUnits(e, d)) <= peak[e]
    BY <1>3, BookedFinite DEF LoanInv, NoOverbooking
  <2>2. Cardinality(BookedUnits(e, d)') \in Nat
    BY <1>3, InsertAdds
  <2>3. CASE e = ask[r].item /\ d \in ask[r].first .. ask[r].last
    <3>1. Cardinality(BookedUnits(e, d)') <= Cardinality(BookedUnits(e, d)) + ask[r].qty
      BY <1>3, <2>3, InsertAdds
    <3>2. Cardinality(BookedUnits(e, d)) + ask[r].qty <= peak[e]
      BY <1>1, <2>3 DEF LoanInv, AdmissionInv
    <3> QED
      BY <1>3, <2>1, <2>2, <3>1, <3>2
  <2>4. CASE ~(e = ask[r].item /\ d \in ask[r].first .. ask[r].last)
    <3>1. Cardinality(BookedUnits(e, d)') <= Cardinality(BookedUnits(e, d))
      BY <1>3, <2>4, InsertAdds
    <3> QED
      BY <1>3, <2>1, <2>2, <3>1
  <2> QED
    BY <2>3, <2>4
<1>5. NoOverbooking'
  BY <1>1, <1>4 DEF NoOverbooking
<1>6. \A s, t \in Txn :
         pc'[s] = "admitting" /\ pc'[t] = "admitting" /\ ask'[s].item = ask'[t].item => s = t
  BY <1>2 DEF LoanInv, AdmissionInv
<1>7. ASSUME NEW s \in Txn, pc'[s] = "admitting", ask'[s].qty <= seen'[s],
             NEW d \in ask'[s].first .. ask'[s].last,
             NEW e \in Item, e = ask'[s].item
      PROVE  Cardinality(BookedUnits(e, d)') + ask'[s].qty <= peak[e]
  <2>1. s # r /\ pc[s] = "admitting" /\ ask'[s] = ask[s] /\ seen'[s] = seen[s]
    BY <1>2, <1>7
  <2>2. ask[s].qty <= seen[s] /\ d \in ask[s].first .. ask[s].last /\ e = ask[s].item
    BY <1>7, <2>1
  <2>3. ask[s].qty \in Nat /\ d \in Day
    BY <1>3, <2>1, <2>2, AskFields
  <2>4. ask[r].item # e
    BY <1>1, <2>1, <2>2 DEF LoanInv, AdmissionInv
  <2>5. /\ Cardinality(BookedUnits(e, d)') \in Nat
        /\ Cardinality(BookedUnits(e, d)') <= Cardinality(BookedUnits(e, d))
    BY <1>3, <2>3, <2>4, InsertAdds
  <2>6. Cardinality(BookedUnits(e, d)) \in Nat
    BY <1>3, <2>3, BookedFinite
  <2>7. Cardinality(BookedUnits(e, d)) + ask[s].qty <= peak[e]
    BY <2>1, <2>2 DEF LoanInv, AdmissionInv
  <2>8. peak[e] \in Nat
    BY <1>3
  <2> QED
    BY <2>1, <2>3, <2>5, <2>6, <2>7, <2>8
<1>8. \A s \in Txn : pc'[s] = "admitting" => ask'[s].item \in Item
  BY <1>2, <1>3, AskFields
<1>9. \A s \in Txn : pc'[s] = "asked" => seen'[s] <= peak[ask'[s].item]
  BY <1>2 DEF LoanInv, AdmissionInv
<1>10. \A e \in Item : stock'[e].total <= peak'[e]
  BY <1>1 DEF LoanInv, AdmissionInv
<1>11. AdmissionInv'
  BY <1>1, <1>6, <1>7, <1>8, <1>9, <1>10 DEF AdmissionInv, BookedUnits, Units, OverlapsTerm
<1> QED
  BY <1>5, <1>11 DEF LoanInv

\* A transaction that ends takes no lock and asks for nothing.
LEMMA EndTxnKeeps ==
  ASSUME LoanInv, NEW r \in Txn, EndTxn(r)
  PROVE  /\ \A s \in Txn : pc'[s] = "admitting" =>
               pc[s] = "admitting" /\ ask'[s] = ask[s] /\ seen'[s] = seen[s]
         /\ \A s \in Txn : pc'[s] = "asked" =>
               pc[s] = "asked" /\ ask'[s] = ask[s] /\ seen'[s] = seen[s]
  BY EndTxnType DEF LoanInv

LEMMA SamePeak ==
  ASSUME LoanInv, UNCHANGED <<stock, peak>>
  PROVE  PeakGrows /\ \A e \in Item : stock'[e].total <= peak'[e]
  BY DEF LoanInv, TypeInv, TypeOK, AdmissionInv, PeakGrows

LEMMA SameLoansShrink ==
  ASSUME LoanInv, UNCHANGED <<status, terms>>
  PROVE  Shrinks
<1>1. \A k \in Loan : status[k] \in Live => terms[k].qty \in Nat
  BY TermsFields DEF LoanInv, TypeInv, TermsKnown, Live
<1> QED
  BY <1>1 DEF Shrinks

LEMMA DecidingShrinks ==
  ASSUME LoanInv, NEW r \in Txn, NEW l \in Loan, Deciding(r, l)
  PROVE  Shrinks /\ EndTxn(r) /\ UNCHANGED <<stock, peak>>
<1> USE DEF clubVars
<1>1. \A k \in Loan : status[k] \in Live => terms[k] \in Terms /\ terms[k].qty \in Nat
  BY TermsFields DEF LoanInv, TypeInv, TermsKnown, Live
<1>2. status \in [Loan -> Status] /\ terms \in [Loan -> Terms \cup {NoTerms}]
  BY DEF LoanInv, TypeInv, TypeOK
<1>3. ASSUME NEW from \in Live, NEW to, Move(r, l, from, to), UNCHANGED terms
      PROVE  Shrinks
  BY <1>1, <1>2, <1>3 DEF Move, Shrinks
<1>4. ASSUME NEW q \in Quantity, ApproveLoan(r, l, q)
      PROVE  Shrinks
  <2>1. /\ status[l] = "pending" /\ q <= terms[l].qty
        /\ status' = [status EXCEPT ![l] = "approved"]
        /\ terms' = [terms EXCEPT ![l].qty = q]
    BY <1>4 DEF ApproveLoan, Move
  <2>2. terms'[l].item = terms[l].item /\ terms'[l].first = terms[l].first
        /\ terms'[l].last = terms[l].last /\ terms'[l].qty = q
    BY <1>1, <1>2, <2>1 DEF Terms, Live
  <2>3. \A k \in Loan \ {l} : status'[k] = status[k] /\ terms'[k] = terms[k]
    BY <1>2, <2>1
  <2> QED
    BY <1>1, <2>1, <2>2, <2>3 DEF Shrinks, Live
<1>5. CASE \E q \in Quantity : ApproveLoan(r, l, q)
  BY <1>4, <1>5 DEF ApproveLoan, Move
<1>6. CASE RejectLoan(r, l) \/ RevokeLoan(r, l)
  BY <1>3, <1>6 DEF RejectLoan, RevokeLoan, Move, Live
<1>7. CASE CancelLoan(r, l)
  BY <1>3, <1>7 DEF CancelLoan, Move, Live
<1>8. CASE CheckoutLoan(r, l) \/ CheckinLoan(r, l)
  BY <1>3, <1>8 DEF CheckoutLoan, CheckinLoan, Move, Live
<1> QED
  BY <1>5, <1>6, <1>7, <1>8 DEF Deciding

LEMMA LoanStep == LoanInv /\ [Next]_vars => LoanInv'
<1> SUFFICES ASSUME LoanInv, [Next]_vars PROVE LoanInv'
  OBVIOUS
<1> USE DEF clubVars, loanVars, txnVars
<1>0. TypeInv'
  BY TypeStep DEF LoanInv
<1>1. CASE UNCHANGED vars
  BY <1>0, <1>1, QuietStep, SamePeak, SameLoansShrink DEF vars
<1>2. ASSUME NEW r \in Txn, NEW a \in Asks, BeginAsk(r, a)
      PROVE  LoanInv'
  <2>1. /\ UNCHANGED <<stock, peak, status, terms>>
        /\ pc' = [pc EXCEPT ![r] = "asked"]
        /\ ask' = [ask EXCEPT ![r] = a]
        /\ seen' = [seen EXCEPT ![r] = stock[a.item].total]
    BY <1>2 DEF BeginAsk
  <2>2. a.item \in Item
    BY AsksAssumption, TermsFields
  <2>3. /\ pc \in [Txn -> {"idle", "asked", "admitting", "deciding", "sweeping"}]
        /\ ask \in [Txn -> Asks \cup {NoTerms}] /\ seen \in [Txn -> Nat]
    BY DEF LoanInv, TypeInv, TypeOK
  <2>4. /\ \A s \in Txn : pc'[s] = "admitting" =>
               pc[s] = "admitting" /\ ask'[s] = ask[s] /\ seen'[s] = seen[s]
        /\ \A s \in Txn : pc'[s] = "asked" =>
               \/ pc[s] = "asked" /\ ask'[s] = ask[s] /\ seen'[s] = seen[s]
               \/ ask'[s].item \in Item /\ seen'[s] = stock'[ask'[s].item].total
    BY <2>1, <2>2, <2>3
  <2> QED
    BY <1>0, <2>1, <2>4, QuietStep, SamePeak, SameLoansShrink
<1>3. ASSUME NEW r \in Txn, CheckAvailability(r)
      PROVE  LoanInv'
  BY <1>0, <1>3, CheckStep
<1>4. ASSUME NEW r \in Txn, NEW l \in Loan, InsertLoan(r, l)
      PROVE  LoanInv'
  BY <1>0, <1>4, InsertStep
<1>5. ASSUME NEW r \in Txn, NEW l \in Loan, LockLoan(r, l)
      PROVE  LoanInv'
  <2>1. /\ UNCHANGED <<stock, peak, status, terms, ask, seen>>
        /\ \A s \in Txn : pc'[s] \in {"asked", "admitting"} => pc[s] = pc'[s]
    BY <1>5 DEF LockLoan, LoanInv, TypeInv, TypeOK
  <2> QED
    BY <1>0, <2>1, QuietStep, SamePeak, SameLoansShrink
<1>6. ASSUME NEW r \in Txn, NEW l \in target[r], Deciding(r, l)
      PROVE  LoanInv'
  <2>1. l \in Loan
    BY DEF LoanInv, TypeInv, TypeOK
  <2>2. Shrinks /\ EndTxn(r) /\ UNCHANGED <<stock, peak>>
    BY <1>6, <2>1, DecidingShrinks
  <2> QED
    BY <1>0, <2>2, QuietStep, SamePeak, EndTxnKeeps
<1>7. ASSUME NEW r \in Txn, SweepStart(r)
      PROVE  LoanInv'
  <2>1. /\ UNCHANGED <<stock, peak, status, terms, ask>>
        /\ \A s \in Txn : pc'[s] \in {"asked", "admitting"} => pc[s] = pc'[s] /\ seen'[s] = seen[s]
    BY <1>7 DEF SweepStart, LoanInv, TypeInv, TypeOK
  <2> QED
    BY <1>0, <2>1, QuietStep, SamePeak, SameLoansShrink
<1>8. ASSUME NEW r \in Txn, NEW l \in Loan, SweepRow(r, l)
      PROVE  LoanInv'
  BY <1>0, <1>8, QuietStep, SamePeak, SameLoansShrink DEF SweepRow
<1>9. ASSUME NEW r \in Txn, SweepCommit(r)
      PROVE  LoanInv'
  <2>1. EndTxn(r) /\ UNCHANGED <<stock, peak, terms>>
    BY <1>9 DEF SweepCommit
  <2>2. \A k \in Loan : status'[k] \in Live => status[k] \in Live
    BY <1>9 DEF SweepCommit, Live
  <2>3. \A k \in Loan : status[k] \in Live => terms[k].qty \in Nat
    BY TermsFields DEF LoanInv, TypeInv, TermsKnown, Live
  <2>4. Shrinks
    BY <2>1, <2>2, <2>3 DEF Shrinks
  <2> QED
    BY <1>0, <2>1, <2>4, QuietStep, SamePeak, EndTxnKeeps
<1>10. ASSUME NEW r \in Txn, Rollback(r)
       PROVE  LoanInv'
  BY <1>0, <1>10, QuietStep, SamePeak, SameLoansShrink, EndTxnKeeps DEF Rollback
<1>11. ASSUME NEW e \in Item, NEW x \in Settings, UpdateEquipment(e, x)
       PROVE  LoanInv'
  <2>1. /\ UNCHANGED <<status, terms, pc, ask, seen>>
        /\ stock' = [stock EXCEPT ![e] = x]
        /\ peak' = [peak EXCEPT ![e] = IF x.total > @ THEN x.total ELSE @]
    BY <1>11 DEF UpdateEquipment
  <2>2. x.total \in Nat
    BY SettingsAssumption
  <2>3. peak \in [Item -> Nat]
        /\ stock \in [Item -> [total : Nat, limit : Nat, active : BOOLEAN]]
    BY DEF LoanInv, TypeInv, TypeOK
  <2>4. PeakGrows /\ \A i \in Item : stock'[i].total <= peak'[i]
    BY <2>1, <2>2, <2>3 DEF LoanInv, AdmissionInv, PeakGrows
  <2> QED
    BY <1>0, <2>1, <2>4, QuietStep, SameLoansShrink
<1>12. ASSUME UNCHANGED <<stock, peak, loanVars, txnVars>>
       PROVE  LoanInv'
  BY <1>0, <1>12, QuietStep, SamePeak, SameLoansShrink
<1>13. CASE Administration
  BY <1>11, <1>12, <1>13 DEF Administration, LiftClubSuspension, SuspendClub, Midnight
<1> QED
  BY <1>1, <1>2, <1>3, <1>4, <1>5, <1>6, <1>7, <1>8, <1>9, <1>10, <1>13
  DEF Next, Asking, RequestLoan, RequestManualLoan, Sweeping

LEMMA LoanInit == Init => LoanInv
<1> SUFFICES ASSUME Init PROVE LoanInv
  OBVIOUS
<1>1. TypeInv
  BY TypeInit
<1>2. ASSUME NEW e \in Item, NEW d \in Day
      PROVE  Cardinality(BookedUnits(e, d)) <= peak[e]
  <2>1. BookedUnits(e, d) = {}
    BY DEF Init, BookedUnits, Live
  <2>2. peak[e] \in Nat
    BY <1>1 DEF TypeInv, TypeOK
  <2> QED
    BY <2>1, <2>2, FS_EmptySet
<1>3. \A e \in Item : stock[e].total <= peak[e]
  BY <1>1 DEF Init, TypeInv, TypeOK
<1>4. AdmissionInv
  BY <1>3 DEF Init, AdmissionInv
<1> QED
  BY <1>1, <1>2, <1>4 DEF LoanInv, NoOverbooking

LEMMA LoanCorrect == Spec => []LoanInv
  BY LoanInit, LoanStep, PTL DEF Spec

(* The item's lock works: while a request holds it, the room its query found *)
(* stays free, although the total was read before and approvals, sweeps and  *)
(* edits of the stock run without the lock.                                  *)
THEOREM AdmissionHolds == Spec => []AdmissionInv
<1>1. LoanInv => AdmissionInv
  BY DEF LoanInv
<1> QED
  BY <1>1, LoanCorrect, PTL

(* No day of an item is ever promised to more units than the item has had,   *)
(* for any number of loans, requests, items and days.                        *)
THEOREM NeverOverbooked == Spec => []NoOverbooking
<1>1. LoanInv => NoOverbooking
  BY DEF LoanInv
<1> QED
  BY <1>1, LoanCorrect, PTL

-----------------------------------------------------------------------------
(* Row locks and the trail *)

DeskInv == TypeInv /\ RowLockInv /\ TrailMatchesStatus

LEMMA DeskInit == Init => DeskInv
<1> SUFFICES ASSUME Init PROVE DeskInv
  OBVIOUS
<1> QED
  BY TypeInit DEF Init, DeskInv, RowLockInv, TrailMatchesStatus, Trails

\* A step that leaves the loans alone and locks no row.
LEMMA NoRowsStep ==
  ASSUME DeskInv, TypeInv', UNCHANGED <<status, terms, trail>>,
         \A s \in Txn : target'[s] \subseteq target[s],
         \A s \in Txn : pc'[s] \notin {"deciding", "sweeping"} => target'[s] = {},
         \A s \in Txn : pc'[s] = "sweeping" => pc[s] = "sweeping" \/ target'[s] = {}
  PROVE  DeskInv'
<1>1. RowLockInv'
  BY DEF DeskInv, RowLockInv
<1>2. TrailMatchesStatus'
  BY DEF DeskInv, TrailMatchesStatus
<1> QED
  BY <1>1, <1>2 DEF DeskInv

\* A decision changes only the row its transaction has locked, and ends it.
LEMMA DecisionStep ==
  ASSUME DeskInv, TypeInv', NEW r \in Txn, NEW l \in target[r], l \in Loan,
         NEW from, NEW to, Move(r, l, from, to), to # "pending",
         \A k \in Loan \ {l} : terms'[k] = terms[k] /\ trail'[k] = trail[k],
         terms'[l].owner = terms[l].owner,
         trail'[l] \in Trails(to, terms[l].owner \in Club),
         to # "none"
  PROVE  DeskInv'
<1>1. EndTxn(r) /\ status' = [status EXCEPT ![l] = to] /\ pc[r] = "deciding"
  BY DEF Move
<1>2. status \in [Loan -> Status]
  BY DEF DeskInv, TypeInv, TypeOK
<1>3. status'[l] = to /\ \A k \in Loan \ {l} : status'[k] = status[k]
  BY <1>1, <1>2
<1>4. /\ pc'[r] = "idle" /\ target'[r] = {}
      /\ \A s \in Txn \ {r} : pc'[s] = pc[s] /\ target'[s] = target[s]
  BY <1>1, EndTxnType DEF DeskInv
<1>5. \A s \in Txn \ {r} : l \notin target[s] /\ target[s] \subseteq Loan
  BY DEF DeskInv, RowLockInv, TypeInv, TypeOK
<1>6. RowLockInv'
  BY <1>3, <1>4, <1>5 DEF DeskInv, RowLockInv
<1>7. \A k \in Loan \ {l} : /\ status'[k] = status[k] /\ terms'[k].owner = terms[k].owner
                           /\ trail'[k] = trail[k]
  BY <1>3
<1>8. TrailMatchesStatus'
  BY <1>3, <1>7 DEF DeskInv, TrailMatchesStatus
<1> QED
  BY <1>6, <1>8 DEF DeskInv

LEMMA AppendSecond ==
  ASSUME NEW S, NEW x \in S, NEW y \in S
  PROVE  Append(<<x>>, y) = <<x, y>>
<1> DEFINE a == Append(<<x>>, y)
           b == <<x, y>>
<1>1. a \in Seq(S) /\ Len(a) = 2 /\ a[1] = x /\ a[2] = y
  <2>1. <<x>> \in Seq(S) /\ Len(<<x>>) = 1 /\ <<x>>[1] = x
    OBVIOUS
  <2> QED
    BY <2>1
<1>2. b \in Seq(S) /\ Len(b) = 2 /\ b[1] = x /\ b[2] = y
  OBVIOUS
<1> HIDE DEF a, b
<1>3. a = b
  BY <1>1, <1>2, SeqEqual
<1> QED
  BY <1>3 DEF a, b

LEMMA DecidingStep ==
  ASSUME DeskInv, TypeInv', NEW r \in Txn, NEW l \in target[r], Deciding(r, l)
  PROVE  DeskInv'
<1> DEFINE club == terms[l].owner \in Club
<1>1. /\ l \in Loan /\ trail \in [Loan -> Seq({"approve", "reject", "revoke"})]
      /\ terms \in [Loan -> Terms \cup {NoTerms}]
      /\ status[l] # "none" /\ terms[l] \in Terms
      /\ trail[l] \in Trails(status[l], club)
  BY DEF DeskInv, TypeInv, TypeOK, TermsKnown, TrailMatchesStatus
<1>2. status[l] = "pending" => club /\ trail[l] = <<>>
  BY <1>1 DEF DeskInv, RowLockInv, Trails
<1>3. status[l] \in {"approved", "checked_out"} => trail[l] = IF club THEN <<"approve">> ELSE <<>>
  BY <1>1 DEF Trails
<1>4. /\ Append(<<>>, "approve") = <<"approve">>
      /\ Append(<<>>, "reject") = <<"reject">>
      /\ Append(<<>>, "revoke") = <<"revoke">>
      /\ Append(<<"approve">>, "revoke") = <<"approve", "revoke">>
  <2>1. \A x : Append(<<>>, x) = <<x>>
    OBVIOUS
  <2>2. \A x, y \in {"approve", "revoke"} : Append(<<x>>, y) = <<x, y>>
    BY AppendSecond
  <2> QED
    BY <2>1, <2>2
<1> HIDE DEF club
<1>5. ASSUME NEW q \in Quantity, ApproveLoan(r, l, q)
      PROVE  DeskInv'
  <2>1. /\ Move(r, l, "pending", "approved") /\ status[l] = "pending"
        /\ terms' = [terms EXCEPT ![l].qty = q]
        /\ trail' = [trail EXCEPT ![l] = Append(@, "approve")]
    BY <1>5 DEF ApproveLoan, Move, Record
  <2>2. /\ \A k \in Loan \ {l} : terms'[k] = terms[k] /\ trail'[k] = trail[k]
        /\ terms'[l].owner = terms[l].owner
        /\ trail'[l] = <<"approve">>
    BY <1>1, <1>2, <1>4, <2>1 DEF Terms
  <2>3. trail'[l] \in Trails("approved", club)
    BY <1>2, <2>1, <2>2 DEF Trails
  <2> QED
    BY <1>1, <2>1, <2>2, <2>3, DecisionStep DEF club
<1>6. CASE RejectLoan(r, l)
  <2>1. /\ Move(r, l, "pending", "rejected") /\ status[l] = "pending" /\ UNCHANGED terms
        /\ trail' = [trail EXCEPT ![l] = Append(@, "reject")]
    BY <1>6 DEF RejectLoan, Move, Record
  <2>2. /\ \A k \in Loan \ {l} : trail'[k] = trail[k]
        /\ trail'[l] \in Trails("rejected", club)
    BY <1>1, <1>2, <1>4, <2>1 DEF Trails
  <2> QED
    BY <1>1, <2>1, <2>2, DecisionStep DEF club
<1>7. CASE RevokeLoan(r, l)
  <2>1. /\ Move(r, l, "approved", "cancelled") /\ status[l] = "approved" /\ UNCHANGED terms
        /\ trail' = [trail EXCEPT ![l] = Append(@, "revoke")]
    BY <1>7 DEF RevokeLoan, Move, Record
  <2>2. /\ \A k \in Loan \ {l} : trail'[k] = trail[k]
        /\ trail'[l] = Append(trail[l], "revoke")
    BY <1>1, <2>1
  <2>3. trail'[l] \in Trails("cancelled", club)
    <3>1. CASE club
      <4>1. trail'[l] = <<"approve", "revoke">>
        BY <1>3, <1>4, <2>1, <2>2, <3>1
      <4> QED
        BY <3>1, <4>1 DEF Trails
    <3>2. CASE ~club
      <4>1. trail'[l] = <<"revoke">>
        BY <1>3, <1>4, <2>1, <2>2, <3>2
      <4> QED
        BY <3>2, <4>1 DEF Trails
    <3> QED
      BY <3>1, <3>2
  <2> QED
    BY <1>1, <2>1, <2>2, <2>3, DecisionStep DEF club
<1>8. CASE CancelLoan(r, l)
  <2>1. PICK from \in {"pending", "approved"} : Move(r, l, from, "cancelled") /\ status[l] = from
    BY <1>8 DEF CancelLoan, Move
  <2>2. UNCHANGED <<terms, trail>> /\ club
    BY <1>8 DEF CancelLoan, club
  <2>3. trail'[l] \in Trails("cancelled", club)
    BY <1>2, <1>3, <2>1, <2>2 DEF Trails
  <2> QED
    BY <1>1, <2>1, <2>2, <2>3, DecisionStep DEF club
<1>9. ASSUME NEW from \in {"approved", "checked_out"}, NEW to \in {"checked_out", "returned"},
             Move(r, l, from, to), UNCHANGED <<terms, trail>>
      PROVE  DeskInv'
  <2>1. status[l] = from
    BY <1>9 DEF Move
  <2>2. trail'[l] \in Trails(to, club)
    BY <1>3, <1>9, <2>1 DEF Trails
  <2> QED
    BY <1>1, <1>9, <2>2, DecisionStep DEF club
<1> QED
  BY <1>5, <1>6, <1>7, <1>8, <1>9 DEF Deciding, CheckoutLoan, CheckinLoan

\* A sweep locks a row that nobody holds and that still matches its WHERE.
LEMMA SweepRowStep ==
  ASSUME DeskInv, TypeInv', NEW r \in Txn, NEW l \in Loan, SweepRow(r, l)
  PROVE  DeskInv'
<1>1. /\ UNCHANGED <<status, terms, trail, pc>> /\ RowFree(l) /\ pc[r] = "sweeping"
      /\ target' = [target EXCEPT ![r] = IF Unclaimed(l, seen[r]) THEN @ \cup {l} ELSE @]
  BY DEF SweepRow, loanVars
<1>2. target \in [Txn -> SUBSET Loan]
  BY DEF DeskInv, TypeInv, TypeOK
<1>3. /\ \A s \in Txn \ {r} : target'[s] = target[s]
      /\ target'[r] = target[r] \/ (target'[r] = target[r] \cup {l} /\ Unclaimed(l, seen[r]))
  BY <1>1, <1>2
<1>4. RowLockInv'
  BY <1>1, <1>3 DEF DeskInv, RowLockInv, RowFree, Unclaimed
<1>5. TrailMatchesStatus'
  BY <1>1 DEF DeskInv, TrailMatchesStatus
<1> QED
  BY <1>4, <1>5 DEF DeskInv

\* What it commits is one revocation for each row it holds.
LEMMA SweepCommitStep ==
  ASSUME DeskInv, TypeInv', NEW r \in Txn, SweepCommit(r)
  PROVE  DeskInv'
<1>1. /\ pc[r] = "sweeping" /\ EndTxn(r) /\ UNCHANGED terms
      /\ \A l \in target[r] : l \in Loan /\ status'[l] = "cancelled"
                              /\ trail'[l] = Append(trail[l], "revoke")
      /\ \A l \in Loan \ target[r] : status'[l] = status[l] /\ trail'[l] = trail[l]
  BY DEF SweepCommit, DeskInv, TypeInv, TypeOK
<1>2. /\ pc'[r] = "idle" /\ target'[r] = {}
      /\ \A s \in Txn \ {r} : pc'[s] = pc[s] /\ target'[s] = target[s]
  BY <1>1, EndTxnType DEF DeskInv
<1>3. \A s \in Txn \ {r} : target[s] \subseteq Loan \ target[r]
  BY DEF DeskInv, RowLockInv, TypeInv, TypeOK
<1>4. RowLockInv'
  BY <1>1, <1>2, <1>3 DEF DeskInv, RowLockInv
<1>5. ASSUME NEW l \in target[r]
      PROVE  trail'[l] \in Trails(status'[l], terms'[l].owner \in Club)
  <2>1. l \in Loan /\ status[l] = "approved" /\ terms[l].owner \in Club
    BY <1>1 DEF DeskInv, RowLockInv
  <2>2. trail[l] = <<"approve">>
    BY <2>1 DEF DeskInv, TrailMatchesStatus, Trails
  <2>3. \A x, y \in {"approve", "revoke"} : Append(<<x>>, y) = <<x, y>>
    BY AppendSecond
  <2>4. trail'[l] = <<"approve", "revoke">> /\ status'[l] = "cancelled" /\ terms'[l].owner \in Club
    BY <1>1, <2>1, <2>2, <2>3
  <2> QED
    BY <2>4 DEF Trails
<1>6. \A l \in Loan \ target[r] : trail'[l] \in Trails(status'[l], terms'[l].owner \in Club)
  BY <1>1 DEF DeskInv, TrailMatchesStatus
<1>7. TrailMatchesStatus'
  BY <1>5, <1>6 DEF TrailMatchesStatus
<1> QED
  BY <1>4, <1>7 DEF DeskInv

LEMMA InsertDeskStep ==
  ASSUME DeskInv, TypeInv', NEW r \in Txn, NEW l \in Loan, InsertLoan(r, l)
  PROVE  DeskInv'
<1>1. /\ status[l] = "none" /\ EndTxn(r) /\ UNCHANGED trail
      /\ status' = [status EXCEPT ![l] = IF ask[r].owner = Office THEN "approved" ELSE "pending"]
      /\ terms' = [terms EXCEPT ![l] = ask[r]]
  BY DEF InsertLoan, NextLoan
<1>2. ask[r] \in Terms /\ ask[r].owner \in Club \cup {Office}
  BY AskFields, AsksAssumption, TermsFields DEF InsertLoan, DeskInv
<1>3. status \in [Loan -> Status] /\ terms \in [Loan -> Terms \cup {NoTerms}]
  BY DEF DeskInv, TypeInv, TypeOK
<1>4. /\ \A k \in Loan \ {l} : status'[k] = status[k] /\ terms'[k] = terms[k]
      /\ terms'[l] = ask[r]
      /\ IF ask[r].owner = Office THEN status'[l] = "approved" ELSE status'[l] = "pending"
  BY <1>1, <1>3
<1>5. /\ pc'[r] = "idle" /\ target'[r] = {}
      /\ \A s \in Txn \ {r} : pc'[s] = pc[s] /\ target'[s] = target[s]
  BY <1>1, EndTxnType DEF DeskInv
<1>6. \A s \in Txn : l \notin target[s] /\ target[s] \subseteq Loan
  BY <1>1 DEF DeskInv, TypeInv, TypeOK, TermsKnown
<1>7. RowLockInv'
  BY <1>2, <1>4, <1>5, <1>6 DEF DeskInv, RowLockInv
<1>8. trail'[l] \in Trails(status'[l], terms'[l].owner \in Club)
  <2>1. trail'[l] = <<>>
    BY <1>1 DEF DeskInv, TrailMatchesStatus, Trails
  <2>2. CASE ask[r].owner = Office
    BY <1>4, <2>1, <2>2, OwnerAssumption DEF Trails
  <2>3. CASE ask[r].owner # Office
    BY <1>4, <2>1, <2>3 DEF Trails
  <2> QED
    BY <2>2, <2>3
<1>9. TrailMatchesStatus'
  BY <1>1, <1>4, <1>8 DEF DeskInv, TrailMatchesStatus
<1> QED
  BY <1>7, <1>9 DEF DeskInv

LEMMA DeskStep == DeskInv /\ [Next]_vars => DeskInv'
<1> SUFFICES ASSUME DeskInv, [Next]_vars PROVE DeskInv'
  OBVIOUS
<1> USE DEF clubVars, loanVars, txnVars
<1>0. TypeInv'
  BY TypeStep DEF DeskInv
<1>1. ASSUME UNCHANGED <<status, terms, trail, pc, target>>
      PROVE  DeskInv'
  BY <1>0, <1>1, NoRowsStep DEF DeskInv, RowLockInv
<1>2. ASSUME NEW r \in Txn, NEW a \in Asks, BeginAsk(r, a)
      PROVE  DeskInv'
  BY <1>0, <1>2, NoRowsStep DEF BeginAsk, DeskInv, RowLockInv, TypeInv, TypeOK
<1>3. ASSUME NEW r \in Txn, CheckAvailability(r)
      PROVE  DeskInv'
  BY <1>0, <1>3, NoRowsStep DEF CheckAvailability, DeskInv, RowLockInv, TypeInv, TypeOK
<1>4. ASSUME NEW r \in Txn, NEW l \in Loan, InsertLoan(r, l)
      PROVE  DeskInv'
  BY <1>0, <1>4, InsertDeskStep
<1>5. ASSUME NEW r \in Txn, NEW l \in Loan, LockLoan(r, l)
      PROVE  DeskInv'
  <2>1. /\ UNCHANGED <<status, terms, trail>> /\ RowFree(l)
        /\ pc' = [pc EXCEPT ![r] = "deciding"] /\ target' = [target EXCEPT ![r] = {l}]
    BY <1>5 DEF LockLoan
  <2>2. /\ pc'[r] = "deciding" /\ target'[r] = {l}
        /\ \A s \in Txn \ {r} : pc'[s] = pc[s] /\ target'[s] = target[s]
    BY <2>1 DEF DeskInv, TypeInv, TypeOK
  <2>3. RowLockInv'
    BY <2>1, <2>2 DEF DeskInv, RowLockInv, RowFree
  <2>4. TrailMatchesStatus'
    BY <2>1 DEF DeskInv, TrailMatchesStatus
  <2> QED
    BY <1>0, <2>3, <2>4 DEF DeskInv
<1>6. ASSUME NEW r \in Txn, NEW l \in target[r], Deciding(r, l)
      PROVE  DeskInv'
  BY <1>0, <1>6, DecidingStep
<1>7. ASSUME NEW r \in Txn, SweepStart(r)
      PROVE  DeskInv'
  <2>1. /\ UNCHANGED <<status, terms, trail, target>> /\ pc[r] = "idle"
        /\ pc' = [pc EXCEPT ![r] = "sweeping"]
    BY <1>7 DEF SweepStart
  <2> QED
    BY <1>0, <2>1, NoRowsStep DEF DeskInv, RowLockInv, TypeInv, TypeOK
<1>8. ASSUME NEW r \in Txn, NEW l \in Loan, SweepRow(r, l)
      PROVE  DeskInv'
  BY <1>0, <1>8, SweepRowStep
<1>9. ASSUME NEW r \in Txn, SweepCommit(r)
      PROVE  DeskInv'
  BY <1>0, <1>9, SweepCommitStep
<1>10. ASSUME NEW r \in Txn, Rollback(r)
       PROVE  DeskInv'
  <2>1. UNCHANGED <<status, terms, trail>> /\ EndTxn(r)
    BY <1>10 DEF Rollback
  <2>2. /\ pc'[r] = "idle" /\ target'[r] = {}
        /\ \A s \in Txn \ {r} : pc'[s] = pc[s] /\ target'[s] = target[s]
    BY <2>1, EndTxnType DEF DeskInv
  <2> QED
    BY <1>0, <2>1, <2>2, NoRowsStep DEF DeskInv, RowLockInv
<1>11. CASE Administration
  BY <1>1, <1>11 DEF Administration, UpdateEquipment, LiftClubSuspension, SuspendClub, Midnight
<1> QED
  BY <1>1, <1>2, <1>3, <1>4, <1>5, <1>6, <1>7, <1>8, <1>9, <1>10, <1>11
  DEF Next, vars, Asking, RequestLoan, RequestManualLoan, Sweeping

LEMMA DeskCorrect == Spec => []DeskInv
  BY DeskInit, DeskStep, PTL DEF Spec

(* The approval records of every loan, club or manual, tell how it came to   *)
(* its status, however many sweeps, officers and clubs act on it at once.    *)
THEOREM TrailsExact == Spec => []TrailMatchesStatus
<1>1. DeskInv => TrailMatchesStatus
  BY DEF DeskInv
<1> QED
  BY <1>1, DeskCorrect, PTL

(* A row is locked by one transaction at a time, and a sweep holds only      *)
(* loans of clubs that are still approved.                                   *)
THEOREM RowLocksHold == Spec => []RowLockInv
<1>1. DeskInv => RowLockInv
  BY DEF DeskInv
<1> QED
  BY <1>1, DeskCorrect, PTL

-----------------------------------------------------------------------------
(* What is settled, and the ledger *)

BothInv == LoanInv /\ DeskInv

(* Rows, trails, locks and readings agree in every reachable state.          *)
THEOREM RecordsHold == Spec => []RecordsInv
<1>1. TypeOK /\ TrailMatchesStatus /\ AdmissionInv /\ RowLockInv => RecordsInv
  BY DEF RecordsInv
<1> QED
  BY <1>1, TypeOKHolds, TrailsExact, AdmissionHolds, RowLocksHold, PTL

LEMMA BothCorrect == Spec => []BothInv
<1>1. LoanInv /\ DeskInv => BothInv
  BY DEF BothInv
<1> QED
  BY <1>1, LoanCorrect, DeskCorrect, PTL

\* The effect of a decision on the phase of its row.
LEMMA DecisionEffect ==
  ASSUME BothInv, NEW r \in Txn, NEW l \in target[r], Deciding(r, l)
  PROVE  /\ l \in Loan
         /\ \A k \in Loan \ {l} : UNCHANGED <<status[k], terms[k], trail[k]>>
         /\ UNCHANGED <<stock, peak>>
         /\ \/ /\ status[l] = "pending" /\ status'[l] = "approved"
               /\ \E q \in 1 .. terms[l].qty : terms' = [terms EXCEPT ![l].qty = q]
            \/ /\ status[l] = "approved" /\ status'[l] = "checked_out"
               /\ UNCHANGED terms
            \/ /\ status[l] = "checked_out" /\ status'[l] = "returned"
               /\ UNCHANGED terms
            \/ /\ status[l] \in {"pending", "approved"} /\ status'[l] \in Settled
               /\ UNCHANGED terms
<1> USE DEF clubVars
<1>1. /\ l \in Loan /\ status \in [Loan -> Status]
      /\ terms \in [Loan -> Terms \cup {NoTerms}]
      /\ trail \in [Loan -> Seq({"approve", "reject", "revoke"})]
  BY DEF BothInv, LoanInv, TypeInv, TypeOK
<1>2. ASSUME NEW q \in Quantity, ApproveLoan(r, l, q)
      PROVE  /\ q \in 1 .. terms[l].qty
             /\ status[l] = "pending" /\ status' = [status EXCEPT ![l] = "approved"]
             /\ terms' = [terms EXCEPT ![l].qty = q]
             /\ trail' = [trail EXCEPT ![l] = Append(@, "approve")]
             /\ UNCHANGED <<stock, peak>>
  <2>1. status[l] = "pending" /\ q <= terms[l].qty
    BY <1>2 DEF ApproveLoan, Move
  <2>2. terms[l].qty \in Nat
    BY <1>1, <2>1, TermsFields DEF BothInv, LoanInv, TypeInv, TermsKnown
  <2>3. q \in 1 .. terms[l].qty
    BY <2>1, <2>2, QuantityIsPositive
  <2> QED
    BY <1>2, <2>3 DEF ApproveLoan, Move, Record
<1>3. CASE \E q \in Quantity : ApproveLoan(r, l, q)
  BY <1>1, <1>2, <1>3
<1>4. CASE RejectLoan(r, l) \/ RevokeLoan(r, l)
  BY <1>1, <1>4 DEF RejectLoan, RevokeLoan, Move, Record, Settled
<1>5. CASE CancelLoan(r, l)
  BY <1>1, <1>5 DEF CancelLoan, Move, Settled
<1>6. CASE CheckoutLoan(r, l) \/ CheckinLoan(r, l)
  BY <1>1, <1>6 DEF CheckoutLoan, CheckinLoan, Move
<1> QED
  BY <1>3, <1>4, <1>5, <1>6 DEF Deciding

\* The effect of a sweep's commit.
LEMMA SweepEffect ==
  ASSUME BothInv, NEW r \in Txn, SweepCommit(r)
  PROVE  /\ target[r] \subseteq Loan /\ UNCHANGED <<stock, peak, terms>>
         /\ \A l \in target[r] : status[l] = "approved" /\ status'[l] = "cancelled"
         /\ \A l \in Loan \ target[r] : UNCHANGED <<status[l], trail[l]>>
  BY DEF BothInv, DeskInv, RowLockInv, TypeInv, TypeOK, SweepCommit, clubVars

LEMMA InsertEffect ==
  ASSUME BothInv, NEW r \in Txn, NEW l \in Loan, InsertLoan(r, l)
  PROVE  /\ status[l] = "none" /\ status'[l] \in Live
         /\ \A k \in Loan \ {l} : UNCHANGED <<status[k], terms[k], trail[k]>>
         /\ UNCHANGED <<stock, peak>> /\ terms' = [terms EXCEPT ![l] = ask[r]]
  BY DEF BothInv, LoanInv, TypeInv, TypeOK, InsertLoan, NextLoan, Live, clubVars

\* Every other step leaves the loan rows alone, and the stock to the office.
LEMMA OtherEffect ==
  ASSUME BothInv, [Next]_vars,
         ~\E r \in Txn, l \in Loan : InsertLoan(r, l),
         ~\E r \in Txn : \E l \in target[r] : Deciding(r, l),
         ~\E r \in Txn : SweepCommit(r)
  PROVE  /\ UNCHANGED <<status, terms, trail>>
         /\ peak' \in [Item -> Nat] /\ \A e \in Item : peak[e] <= peak'[e]
<1> USE DEF clubVars, loanVars, txnVars
<1>1. peak \in [Item -> Nat] /\ \A e \in Item : peak[e] <= peak[e]
  BY DEF BothInv, LoanInv, TypeInv, TypeOK
<1>2. ASSUME NEW e \in Item, NEW s \in Settings, UpdateEquipment(e, s)
      PROVE  /\ UNCHANGED <<status, terms, trail>>
             /\ peak' \in [Item -> Nat] /\ \A i \in Item : peak[i] <= peak'[i]
  <2>1. s.total \in Nat
    BY SettingsAssumption
  <2>2. peak' = [peak EXCEPT ![e] = IF s.total > @ THEN s.total ELSE @]
    BY <1>2 DEF UpdateEquipment
  <2> QED
    BY <1>1, <1>2, <2>1, <2>2 DEF UpdateEquipment
<1>3. CASE UNCHANGED <<status, terms, trail, peak>>
  BY <1>1, <1>3
<1>4. CASE Administration
  BY <1>2, <1>3, <1>4 DEF Administration, LiftClubSuspension, SuspendClub, Midnight
<1> QED
  BY <1>3, <1>4 DEF Next, vars, Asking, RequestLoan, RequestManualLoan, BeginAsk,
                    CheckAvailability, LockLoan, Sweeping, SweepStart, SweepRow, Rollback

Settlement ==
    \A l \in Loan :
          /\ status[l] \in Settled => UNCHANGED <<status[l], terms[l], trail[l]>>
          /\ status[l] = "checked_out" =>
                status'[l] \in {"checked_out", "returned"} /\ terms'[l] = terms[l]

LEMMA SettlementStep ==
  ASSUME BothInv, [Next]_vars
  PROVE  Settlement
<1>1. CASE \E r \in Txn, l \in Loan : InsertLoan(r, l)
  BY <1>1, InsertEffect DEF Settlement, Settled
<1>2. CASE \E r \in Txn : \E l \in target[r] : Deciding(r, l)
  <2>0. PICK r \in Txn : \E l \in target[r] : Deciding(r, l)
    BY <1>2
  <2>1. PICK l \in target[r] : Deciding(r, l)
    BY <2>0
  <2>2. /\ \A k \in Loan \ {l} : UNCHANGED <<status[k], terms[k], trail[k]>>
        /\ status[l] \notin Settled
        /\ status[l] = "checked_out" => status'[l] = "returned" /\ UNCHANGED terms
    BY <2>1, DecisionEffect DEF Settled
  <2> QED
    BY <2>2 DEF Settlement
<1>3. CASE \E r \in Txn : SweepCommit(r)
  BY <1>3, SweepEffect DEF Settlement, Settled
<1> QED
  BY <1>1, <1>2, <1>3, OtherEffect DEF Settlement

(* A settled loan is never reopened or rewritten, and what is handed out     *)
(* only comes back by being returned.                                        *)
THEOREM SettledStays == Spec => SettledForGood
<1>1. BothInv /\ [Next]_vars => [Settlement]_vars
  BY SettlementStep
<1>2. SettledForGood <=> [][Settlement]_vars
  BY PTL DEF SettledForGood, Settlement
<1> QED
  BY <1>1, <1>2, BothCorrect, PTL DEF Spec

phaseOf == [l \in Loan |-> Phase(status[l])]

LEMMA PhaseIs ==
  ASSUME BothInv, NEW l \in Loan
  PROVE  /\ phaseOf[l] = "unused" <=> status[l] = "none"
         /\ phaseOf[l] = "open" <=> status[l] \in Live
         /\ phaseOf[l] = "closed" <=> status[l] \in Settled
  BY DEF phaseOf, Phase, Live, Settled, Status, BothInv, LoanInv, TypeInv, TypeOK

LEMMA PhaseCases ==
  /\ Phase("none") = "unused"
  /\ \A s \in Live : Phase(s) = "open"
  /\ \A s \in Settled : Phase(s) = "closed"
  BY DEF Phase, Live, Settled

LEMMA LedgerInit == Init => Ledger!Init
<1> SUFFICES ASSUME Init PROVE Ledger!Init
  OBVIOUS
<1>1. peak \in [Item -> Nat]
  BY TypeInit DEF TypeInv, TypeOK
<1>2. phaseOf = [l \in Loan |-> "unused"]
  BY PhaseCases DEF Init, phaseOf
<1> QED
  BY <1>1, <1>2 DEF Init, Ledger!Init, phaseOf

\* The ledger counts the same units.
LEMMA LedgerBooked ==
  ASSUME BothInv, NEW e, NEW d
  PROVE  Ledger!BookedUnits(e, d) = BookedUnits(e, d)
<1>1. \A k \in Loan : phaseOf[k] = "open" <=> status[k] \in Live
  BY PhaseIs
<1> QED
  BY <1>1 DEF Ledger!BookedUnits, BookedUnits, Ledger!Units, Units, OverlapsTerm, phaseOf

LEMMA LedgerInsert ==
  ASSUME BothInv, NEW r \in Txn, NEW l \in Loan, InsertLoan(r, l)
  PROVE  Ledger!Open(l, ask[r])
<1>1. /\ status[l] = "none" /\ status'[l] \in Live
      /\ \A k \in Loan \ {l} : status'[k] = status[k]
      /\ UNCHANGED peak /\ terms' = [terms EXCEPT ![l] = ask[r]]
  BY InsertEffect
<1>2. ask[r].item \in Item /\ ask[r].first .. ask[r].last \subseteq Day
  BY AskFields DEF InsertLoan, BothInv, LoanInv
<1>3. \A d \in ask[r].first .. ask[r].last :
        Cardinality(BookedUnits(ask[r].item, d)) + ask[r].qty <= peak[ask[r].item]
  BY DEF InsertLoan, BothInv, LoanInv, AdmissionInv
<1>4. \A d \in ask[r].first .. ask[r].last :
        Cardinality(Ledger!BookedUnits(ask[r].item, d)) + ask[r].qty <= peak[ask[r].item]
  BY <1>3, LedgerBooked
<1>5. phaseOf[l] = "unused"
  BY <1>1, PhaseIs
<1>6. phaseOf' = [phaseOf EXCEPT ![l] = "open"]
  <2>1. \A k \in Loan : Phase(status'[k]) = IF k = l THEN "open" ELSE Phase(status[k])
    BY <1>1, PhaseCases
  <2> QED
    BY <2>1 DEF phaseOf
<1>7. UNCHANGED peak /\ terms' = [terms EXCEPT ![l] = ask[r]]
  BY <1>1
<1>8. Ledger!Open(l, ask[r]) <=>
         /\ phaseOf[l] = "unused"
         /\ \A d \in ask[r].first .. ask[r].last :
               Cardinality(Ledger!BookedUnits(ask[r].item, d)) + ask[r].qty <= peak[ask[r].item]
         /\ phaseOf' = [phaseOf EXCEPT ![l] = "open"]
         /\ terms' = [terms EXCEPT ![l] = ask[r]]
         /\ UNCHANGED peak
  BY DEF Ledger!Open, phaseOf, Ledger!Cardinality, Cardinality
<1> QED
  BY <1>4, <1>5, <1>6, <1>7, <1>8

LEMMA LedgerClose ==
  ASSUME BothInv, NEW S \in SUBSET Loan, UNCHANGED <<terms, peak>>,
         \A l \in S : status[l] \in Live /\ status'[l] \in Settled,
         \A l \in Loan \ S : status'[l] = status[l]
  PROVE  Ledger!Close(S)
<1>1. \A l \in S : phaseOf[l] = "open"
  BY PhaseIs
<1>2. phaseOf' = [l \in Loan |-> IF l \in S THEN "closed" ELSE phaseOf[l]]
  <2>1. \A l \in Loan : Phase(status'[l]) = IF l \in S THEN "closed" ELSE Phase(status[l])
    BY PhaseCases
  <2> QED
    BY <2>1 DEF phaseOf
<1> QED
  BY <1>1, <1>2 DEF Ledger!Close, phaseOf

LEMMA LedgerDecision ==
  ASSUME BothInv, NEW r \in Txn, NEW l \in target[r], Deciding(r, l)
  PROVE  [Ledger!Next]_(Ledger!ledgerVars)
<1>1. /\ l \in Loan /\ UNCHANGED peak
      /\ \A k \in Loan \ {l} : status'[k] = status[k]
  BY DecisionEffect
<1>2. ASSUME status[l] \in Live, status'[l] \in Live
      PROVE  UNCHANGED phaseOf
  <2>1. \A k \in Loan : Phase(status'[k]) = Phase(status[k])
    BY <1>1, <1>2, PhaseCases
  <2> QED
    BY <2>1 DEF phaseOf
<1>3. CASE /\ status[l] = "pending" /\ status'[l] = "approved"
           /\ \E q \in 1 .. terms[l].qty : terms' = [terms EXCEPT ![l].qty = q]
  <2>1. UNCHANGED phaseOf /\ phaseOf[l] = "open"
    BY <1>1, <1>2, <1>3, PhaseIs DEF Live
  <2>2. \E q \in 1 .. terms[l].qty : Ledger!Cut(l, q)
    BY <1>1, <1>3, <2>1 DEF Ledger!Cut, phaseOf
  <2>3. Ledger!Next
    BY <1>1, <2>1, <2>2 DEF Ledger!Next, phaseOf
  <2> QED
    BY <2>3
<1>4. CASE status[l] = "approved" /\ status'[l] = "checked_out" /\ UNCHANGED terms
  <2>1. UNCHANGED phaseOf
    BY <1>2, <1>4 DEF Live
  <2> QED
    BY <1>1, <1>4, <2>1 DEF Ledger!ledgerVars, phaseOf
<1>5. CASE status[l] \in Live /\ status'[l] \in Settled /\ UNCHANGED terms
  <2>1. Ledger!Close({l}) /\ {l} \in SUBSET Loan
    BY <1>1, <1>5, LedgerClose
  <2> QED
    BY <2>1 DEF Ledger!Next
<1> QED
  BY <1>3, <1>4, <1>5, DecisionEffect DEF Live, Settled

LEMMA LedgerStep ==
  ASSUME BothInv, [Next]_vars
  PROVE  [Ledger!Next]_(Ledger!ledgerVars)
<1>1. ASSUME NEW r \in Txn, NEW l \in Loan, InsertLoan(r, l)
      PROVE  Ledger!Next
  <2>1. ask[r] \in Asks
    BY <1>1, AskFields DEF InsertLoan, BothInv, LoanInv
  <2> QED
    BY <1>1, <2>1, LedgerInsert DEF Ledger!Next
<1>2. ASSUME NEW r \in Txn, SweepCommit(r)
      PROVE  Ledger!Next
  <2>1. Ledger!Close(target[r]) /\ target[r] \in SUBSET Loan
    BY <1>2, SweepEffect, LedgerClose DEF Live, Settled
  <2> QED
    BY <2>1 DEF Ledger!Next
<1>3. CASE /\ UNCHANGED <<status, terms, trail>>
           /\ peak' \in [Item -> Nat] /\ \A e \in Item : peak[e] <= peak'[e]
  BY <1>3 DEF Ledger!Next, Ledger!Restock
<1> QED
  BY <1>1, <1>2, <1>3, LedgerDecision, OtherEffect

(* The transactions implement the ledger that opens a loan in one step, with *)
(* room for it on every day of its term, and never reopens one.              *)
THEOREM LedgerImplemented == Spec => LedgerSpec
<1>1. BothInv /\ [Next]_vars => [Ledger!Next]_(Ledger!ledgerVars)
  BY LedgerStep
<1> QED
  BY <1>1, LedgerInit, BothCorrect, PTL DEF Spec, LedgerSpec, Ledger!Spec
=============================================================================
