--------------------------- MODULE EquipmentLoans ---------------------------
(***************************************************************************)
(* Equipment lending: a club (or the office itself) asks for a quantity of *)
(* an item over a range of days, the office decides, the desk hands out    *)
(* and takes back, and a sweep revokes what was approved and never         *)
(* fetched.  Every HTTP request and every cron run is a database           *)
(* transaction at READ COMMITTED; a transaction here takes the steps       *)
(* between which PostgreSQL lets other transactions in:                    *)
(*   - asking: an unlocked read of the equipment row, then the advisory    *)
(*     lock of the item with the availability query, then INSERT + COMMIT; *)
(*   - deciding: SELECT ... FOR UPDATE of the loan, then UPDATE + COMMIT;  *)
(*   - sweeping: one UPDATE that visits the matching rows of its snapshot, *)
(*     waiting for and re-checking each, then COMMIT.                      *)
(***************************************************************************)
EXTENDS Integers, Sequences, FiniteSets

CONSTANTS
    Loan,      \* identities of the loan rows, handed out in order
    Item,      \* equipment rows
    Club,      \* clubs
    Office,    \* the owner of a manual loan (club_id NULL)
    Txn,       \* concurrent database transactions
    Asks,      \* what requests ask for: [owner, item, qty, first, last]
    Settings,  \* what an equipment row can be set to: [total, limit, active]
    Suspensions, \* the days a club can be suspended until
    MaxDay,    \* the clock stops on this day (bound)
    MaxLoanDays,
    NoTerms    \* the terms of a row that does not exist, or of no request

Day == 1 .. MaxDay
Terms == [owner : Club \cup {Office}, item : Item, qty : Nat \ {0}, first : Day, last : Day]

ASSUME LoanAssumption == Loan \subseteq Nat /\ IsFiniteSet(Loan)
ASSUME OwnerAssumption == Office \notin Club
ASSUME BoundAssumption == MaxDay \in Nat \ {0} /\ MaxLoanDays \in Nat
ASSUME AsksAssumption == Asks \subseteq Terms /\ NoTerms \notin Terms
ASSUME AsksOrderedAssumption == \A a \in Asks : a.first <= a.last
\* limit 0 is max_lease_count NULL: no limit
ASSUME SuspensionsAssumption == Suspensions \subseteq Day
ASSUME SettingsAssumption == Settings \subseteq [total : Nat, limit : Nat, active : BOOLEAN]

\* The quantities an approval can name.
Quantity == UNION {1 .. a.qty : a \in Asks}

Live == {"pending", "approved", "checked_out"}
Settled == {"rejected", "cancelled", "returned"}
Status == {"none"} \cup Live \cup Settled

VARIABLES
    today,     \* the Taipei date
    stock,     \* the equipment rows
    peak,      \* history: the largest total_qty each item has had
    suspended, \* suspended_until of each club, 0 for NULL
    status,    \* status of each loan row, "none" when it does not exist
    terms,     \* owner, item, quantity and term of each loan row
    trail,     \* the approval_records of each loan, oldest first
    pc,        \* where each transaction stands
    ask,       \* the request body of an asking transaction
    seen,      \* what it read: total_qty, then the availability; a sweep: its date
    target,    \* loan rows the transaction has locked
    queue      \* loan rows of its snapshot a sweep has not visited yet

clubVars == <<today, stock, peak, suspended>>
loanVars == <<status, terms, trail>>
txnVars == <<pc, ask, seen, target, queue>>
vars == <<today, stock, peak, suspended, status, terms, trail, pc, ask, seen, target, queue>>

TypeOK ==
    /\ today \in Day
    /\ stock \in [Item -> [total : Nat, limit : Nat, active : BOOLEAN]]
    /\ peak \in [Item -> Nat]
    /\ suspended \in [Club -> Suspensions \cup {0}]
    /\ status \in [Loan -> Status]
    /\ terms \in [Loan -> Terms \cup {NoTerms}]
    /\ trail \in [Loan -> Seq({"approve", "reject", "revoke"})]
    /\ pc \in [Txn -> {"idle", "asked", "admitting", "deciding", "sweeping"}]
    /\ ask \in [Txn -> Asks \cup {NoTerms}]
    /\ seen \in [Txn -> Nat]
    /\ target \in [Txn -> SUBSET Loan]
    /\ queue \in [Txn -> SUBSET Loan]

-----------------------------------------------------------------------------
(* What a query sees *)

\* A loan row with quantity q is q units: the SUM(qty) of a set of rows is
\* the number of units of those rows.
Units(l) == {l} \X (1 .. terms[l].qty)

OverlapsTerm(l, s, t) == terms[l].first <= t /\ s <= terms[l].last

\* Mutant: a loan that waits for its decision does not count.
PendingIsFree(l, e, s, t) ==
    /\ status[l] \in {"approved", "checked_out"}
    /\ terms[l].item = e
    /\ OverlapsTerm(l, s, t) \/ (t >= today /\ status[l] = "checked_out")

\* _occupies_window: live rows that overlap the window and, when the window
\* reaches today or later, everything that is out of the cupboard.
OccupiesWindow(l, e, s, t) ==
    /\ status[l] \in Live
    /\ terms[l].item = e
    /\ OverlapsTerm(l, s, t) \/ (t >= today /\ status[l] = "checked_out")

OccupiedUnits(e, s, t) == UNION {Units(l) : l \in {k \in Loan : OccupiesWindow(k, e, s, t)}}

EquipmentAvailableInWindow(total, e, s, t) ==
    LET out == Cardinality(OccupiedUnits(e, s, t))
    IN  IF out < total THEN total - out ELSE 0

\* Mutants: the locks are not taken.
NoItemLock(e) == TRUE
NoRowLock(l) == TRUE

\* pg_advisory_xact_lock(411001, item): held until the transaction ends.
ItemLockFree(e) == \A r \in Txn : ~(pc[r] = "admitting" /\ ask[r].item = e)

\* A row lock is held until the transaction ends.
RowFree(l) == \A r \in Txn : l \notin target[r]

\* The next identity of the table's sequence.
NextLoan(l) == /\ status[l] = "none"
               /\ \A k \in Loan : status[k] = "none" => l <= k

\* Mutant of the WHERE: one day late.
UnclaimedDayLate(l, date) ==
    status[l] = "approved" /\ terms[l].last < date - 1 /\ terms[l].owner \in Club

\* revoke_unclaimed's WHERE; manual loans are left alone.
Unclaimed(l, date) ==
    /\ status[l] = "approved"
    /\ terms[l].last < date
    /\ terms[l].owner \in Club

-----------------------------------------------------------------------------
(* Transactions *)

EndTxn(r) ==
    /\ pc' = [pc EXCEPT ![r] = "idle"]
    /\ ask' = [ask EXCEPT ![r] = NoTerms]
    /\ seen' = [seen EXCEPT ![r] = 0]
    /\ target' = [target EXCEPT ![r] = {}]
    /\ queue' = [queue EXCEPT ![r] = {}]

\* A check that fails, an exception or a dead process: nothing is kept.
Rollback(r) ==
    /\ pc[r] # "idle"
    /\ EndTxn(r)
    /\ UNCHANGED <<clubVars, loanVars>>

(* A request reads the equipment row, and for a club its suspension, before *)
(* it asks for the lock.                                                    *)
BeginAsk(r, a) ==
    /\ pc[r] = "idle"
    /\ stock[a.item].active
    /\ pc' = [pc EXCEPT ![r] = "asked"]
    /\ ask' = [ask EXCEPT ![r] = a]
    /\ seen' = [seen EXCEPT ![r] = stock[a.item].total]
    /\ UNCHANGED <<clubVars, loanVars, target, queue>>

RequestLoan(r, a) ==
    /\ a.owner \in Club
    /\ suspended[a.owner] < today
    /\ stock[a.item].limit = 0 \/ a.qty <= stock[a.item].limit
    /\ a.first >= today
    /\ a.last - a.first + 1 <= MaxLoanDays
    /\ BeginAsk(r, a)

\* The office's manual loan: any dates, no limit, no suspension.
RequestManualLoan(r, a) ==
    /\ a.owner = Office
    /\ BeginAsk(r, a)

\* Under the item's lock the availability is computed from the total read before it.
CheckAvailability(r) ==
    /\ pc[r] = "asked"
    /\ ItemLockFree(ask[r].item)
    /\ pc' = [pc EXCEPT ![r] = "admitting"]
    /\ seen' = [seen EXCEPT ![r] =
                   EquipmentAvailableInWindow(seen[r], ask[r].item, ask[r].first, ask[r].last)]
    /\ UNCHANGED <<clubVars, loanVars, ask, target, queue>>

InsertLoan(r, l) ==
    /\ pc[r] = "admitting"
    /\ ask[r].qty <= seen[r]
    /\ NextLoan(l)
    /\ status' = [status EXCEPT ![l] = IF ask[r].owner = Office THEN "approved" ELSE "pending"]
    /\ terms' = [terms EXCEPT ![l] = ask[r]]
    /\ EndTxn(r)
    /\ UNCHANGED <<clubVars, trail>>

-----------------------------------------------------------------------------
(* Decisions on one loan, each under its row lock *)

LockLoan(r, l) ==
    /\ pc[r] = "idle"
    /\ status[l] # "none"
    /\ RowFree(l)
    /\ pc' = [pc EXCEPT ![r] = "deciding"]
    /\ target' = [target EXCEPT ![r] = {l}]
    /\ UNCHANGED <<clubVars, loanVars, ask, seen, queue>>

Move(r, l, from, to) ==
    /\ pc[r] = "deciding"
    /\ l \in target[r]
    /\ status[l] = from
    /\ status' = [status EXCEPT ![l] = to]
    /\ EndTxn(r)
    /\ UNCHANGED clubVars

Record(l, decision) == trail' = [trail EXCEPT ![l] = Append(@, decision)]

\* Mutant: the quantity can be raised.
ApproveAnyQuantity(r, l, q) ==
    /\ Move(r, l, "pending", "approved")
    /\ terms' = [terms EXCEPT ![l].qty = q]
    /\ Record(l, "approve")

\* Stock is not checked again (the office's discretion); the quantity can only go down.
ApproveLoan(r, l, q) ==
    /\ Move(r, l, "pending", "approved")
    /\ q <= terms[l].qty
    /\ terms' = [terms EXCEPT ![l].qty = q]
    /\ Record(l, "approve")

RejectLoan(r, l) ==
    /\ Move(r, l, "pending", "rejected")
    /\ Record(l, "reject")
    /\ UNCHANGED terms

\* Whatever the dates.
RevokeLoan(r, l) ==
    /\ Move(r, l, "approved", "cancelled")
    /\ Record(l, "revoke")
    /\ UNCHANGED terms

CancelLoan(r, l) ==
    /\ terms[l].owner \in Club
    /\ \/ Move(r, l, "pending", "cancelled")
       \/ terms[l].first > today /\ Move(r, l, "approved", "cancelled")
    /\ UNCHANGED <<terms, trail>>

\* No start-of-term check: the desk may hand out early.
CheckoutLoan(r, l) ==
    /\ Move(r, l, "approved", "checked_out")
    /\ terms[l].last >= today
    /\ UNCHANGED <<terms, trail>>

CheckinLoan(r, l) ==
    /\ Move(r, l, "checked_out", "returned")
    /\ UNCHANGED <<terms, trail>>

-----------------------------------------------------------------------------
(* revoke_unclaimed: the cron job and every load of the desk's list.  The   *)
(* UPDATE meets its rows in the order they happen to be stored.             *)

SweepStart(r) ==
    LET snapshot == {l \in Loan : Unclaimed(l, today)}
    IN  /\ pc[r] = "idle"
        /\ snapshot # {}
        /\ pc' = [pc EXCEPT ![r] = "sweeping"]
        /\ seen' = [seen EXCEPT ![r] = today]
        /\ queue' = [queue EXCEPT ![r] = snapshot]
        /\ UNCHANGED <<clubVars, loanVars, ask, target>>

\* The UPDATE waits for the row and looks at its newest version.
SweepRow(r, l) ==
    /\ pc[r] = "sweeping"
    /\ l \in queue[r]
    /\ RowFree(l)
    /\ queue' = [queue EXCEPT ![r] = @ \ {l}]
    /\ target' = [target EXCEPT ![r] = IF Unclaimed(l, seen[r]) THEN @ \cup {l} ELSE @]
    /\ UNCHANGED <<clubVars, loanVars, pc, ask, seen>>

SweepCommit(r) ==
    /\ pc[r] = "sweeping"
    /\ queue[r] = {}
    /\ status' = [l \in Loan |-> IF l \in target[r] THEN "cancelled" ELSE status[l]]
    /\ trail' = [l \in Loan |-> IF l \in target[r] THEN Append(trail[l], "revoke") ELSE trail[l]]
    /\ EndTxn(r)
    /\ UNCHANGED <<clubVars, terms>>

-----------------------------------------------------------------------------
(* The master data and the clock *)

\* The item's lock is not taken.
UpdateEquipment(e, s) ==
    /\ stock' = [stock EXCEPT ![e] = s]
    /\ peak' = [peak EXCEPT ![e] = IF s.total > @ THEN s.total ELSE @]
    /\ UNCHANGED <<today, suspended, loanVars, txnVars>>

SuspendClub(c, until) ==
    /\ until >= today
    /\ suspended' = [suspended EXCEPT ![c] = until]
    /\ UNCHANGED <<today, stock, peak, loanVars, txnVars>>

LiftClubSuspension(c) ==
    /\ suspended[c] # 0
    /\ suspended' = [suspended EXCEPT ![c] = 0]
    /\ UNCHANGED <<today, stock, peak, loanVars, txnVars>>

Midnight ==
    /\ today < MaxDay
    /\ today' = today + 1
    /\ UNCHANGED <<stock, peak, suspended, loanVars, txnVars>>

-----------------------------------------------------------------------------
Init ==
    /\ today = 1
    /\ stock \in [Item -> Settings]
    /\ peak = [e \in Item |-> stock[e].total]
    /\ suspended = [c \in Club |-> 0]
    /\ status = [l \in Loan |-> "none"]
    /\ terms = [l \in Loan |-> NoTerms]
    /\ trail = [l \in Loan |-> <<>>]
    /\ pc = [r \in Txn |-> "idle"]
    /\ ask = [r \in Txn |-> NoTerms]
    /\ seen = [r \in Txn |-> 0]
    /\ target = [r \in Txn |-> {}]
    /\ queue = [r \in Txn |-> {}]

Asking(r) ==
    \/ \E a \in Asks : RequestLoan(r, a) \/ RequestManualLoan(r, a)
    \/ CheckAvailability(r)
    \/ \E l \in Loan : InsertLoan(r, l)

Deciding(r, l) ==
    \/ \E q \in Quantity : ApproveLoan(r, l, q)
    \/ RejectLoan(r, l)
    \/ RevokeLoan(r, l)
    \/ CancelLoan(r, l)
    \/ CheckoutLoan(r, l)
    \/ CheckinLoan(r, l)

Sweeping(r) ==
    \/ SweepStart(r)
    \/ \E l \in Loan : SweepRow(r, l)
    \/ SweepCommit(r)

Administration ==
    \/ \E e \in Item, s \in Settings : UpdateEquipment(e, s)
    \/ \E c \in Club : LiftClubSuspension(c) \/ \E until \in Suspensions : SuspendClub(c, until)
    \/ Midnight

Next ==
    \/ \E r \in Txn : \/ Asking(r)
                      \/ \E l \in Loan : LockLoan(r, l)
                      \/ \E l \in target[r] : Deciding(r, l)
                      \/ Sweeping(r)
                      \/ Rollback(r)
    \/ Administration

Spec == Init /\ [][Next]_vars

-----------------------------------------------------------------------------
(* Correctness *)

BookedUnits(e, d) ==
    UNION {Units(l) : l \in {k \in Loan : /\ status[k] \in Live
                                          /\ terms[k].item = e
                                          /\ OverlapsTerm(k, d, d)}}

(* No day of an item is promised to more units than the item has ever had:   *)
(* two requests never pass the availability check on the same free units,    *)
(* whatever is decided, handed out, taken back or swept in between.          *)
NoOverbooking ==
    \A e \in Item, d \in Day : Cardinality(BookedUnits(e, d)) <= peak[e]

\* The approval records a row of this status can have: a club's loan is
\* decided, a manual one is approved from the start.
Trails(s, club) ==
    CASE s \in {"none", "pending"} -> {<<>>}
      [] s \in {"approved", "checked_out", "returned"} -> {IF club THEN <<"approve">> ELSE <<>>}
      [] s = "rejected" -> IF club THEN {<<"reject">>} ELSE {}
      [] s = "cancelled" -> IF club THEN {<<>>, <<"approve">>, <<"approve", "revoke">>}
                                    ELSE {<<"revoke">>}

(* The approval records of a loan tell exactly how it came to its status:    *)
(* one approval before it is handed out, one revocation even when the sweep  *)
(* of the cron job, the sweep of the desk's list and the office all want to  *)
(* revoke it at once, none when the club was first to cancel.                *)
TrailMatchesStatus ==
    \A l \in Loan : trail[l] \in Trails(status[l], terms[l].owner \in Club)

(* Why no day is overbooked.  The total a request read without the lock was  *)
(* the stock at some time, the lock admits one request of an item at a time, *)
(* and from its query to its commit no decision, sweep or edit of the stock  *)
(* takes away the room it found.                                             *)
AdmissionInv ==
    /\ \A e \in Item : stock[e].total <= peak[e]
    /\ \A r \in Txn : pc[r] = "asked" => seen[r] <= peak[ask[r].item]
    /\ \A r, s \in Txn :
          pc[r] = "admitting" /\ pc[s] = "admitting" /\ ask[r].item = ask[s].item => r = s
    /\ \A r \in Txn : pc[r] = "admitting" /\ ask[r].qty <= seen[r] =>
          \A d \in ask[r].first .. ask[r].last :
              Cardinality(BookedUnits(ask[r].item, d)) + ask[r].qty <= peak[ask[r].item]

(* Why the trail is exact.  A row is locked by one transaction at a time, and *)
(* the rows a sweep has locked are still approved loans of clubs when it      *)
(* commits, whatever its snapshot said.                                       *)
RowLockInv ==
    /\ \A r, s \in Txn : target[r] \cap target[s] # {} => r = s
    /\ \A r \in Txn : pc[r] \notin {"deciding", "sweeping"} => target[r] = {}
    /\ \A r \in Txn : pc[r] = "sweeping" =>
          \A l \in target[r] : status[l] = "approved" /\ terms[l].owner \in Club
    /\ \A l \in Loan : status[l] = "pending" => terms[l].owner \in Club

(* The rows, their trails, what is locked and what was read agree, in every  *)
(* state two requests, a decision and a sweep can leave them in together.    *)
RecordsInv == TypeOK /\ TrailMatchesStatus /\ AdmissionInv /\ RowLockInv

(* What a loan has settled on stays: a decision, a hand-over or a sweep that *)
(* was under way when the loan was settled never reopens or rewrites it, and *)
(* what is out of the cupboard only comes back by being returned.            *)
SettledForGood ==
    [][\A l \in Loan :
          /\ status[l] \in Settled => UNCHANGED <<status[l], terms[l], trail[l]>>
          /\ status[l] = "checked_out" =>
                status'[l] \in {"checked_out", "returned"} /\ terms'[l] = terms[l]]_vars

Phase(s) == CASE s = "none" -> "unused" [] s \in Live -> "open" [] s \in Settled -> "closed"

(* The transactions implement the ledger that opens a loan in one step.      *)
Ledger == INSTANCE LoanLedger WITH phase <- [l \in Loan |-> Phase(status[l])]
LedgerSpec == Ledger!Spec

(* "approved to checked_out does not change the occupancy of a window", as   *)
(* the hand-over handler says to do without the item's lock.                 *)
CheckoutKeepsOccupancy ==
    [][\A l \in Loan :
          status[l] = "approved" /\ status'[l] = "checked_out" =>
              \A e \in Item, s, t \in Day :
                  s <= t => OccupiedUnits(e, s, t)' = OccupiedUnits(e, s, t)]_vars

-----------------------------------------------------------------------------
(* Liveness: requests answer or fail, they do not hold their locks forever;  *)
(* the sweep runs again and again (each weekday by cron, and on every load   *)
(* of the desk's list), gets its turn at a contended row, and from some time *)
(* on is only cut off to break a deadlock of two sweeps.                     *)

\* Every row r still wants is held by a sweep that wants only rows of r.
Deadlocked(r) ==
    /\ pc[r] = "sweeping"
    /\ queue[r] # {}
    /\ \A l \in queue[r] : \E s \in Txn :
          /\ l \in target[s]
          /\ pc[s] = "sweeping"
          /\ queue[s] # {} /\ queue[s] \subseteq target[r]

Progress(r) ==
    /\ WF_vars(pc[r] = "asked" /\ (CheckAvailability(r) \/ Rollback(r)))
    /\ WF_vars(pc[r] = "admitting" /\ ((\E l \in Loan : InsertLoan(r, l)) \/ Rollback(r)))
    /\ WF_vars(pc[r] = "deciding" /\ ((\E l \in target[r] : Deciding(r, l)) \/ Rollback(r)))
    /\ SF_vars(SweepStart(r))
    /\ \A l \in Loan : SF_vars(SweepRow(r, l))
    /\ WF_vars(SweepCommit(r))
    /\ WF_vars(Deadlocked(r) /\ Rollback(r))

SweepsNotCutOff ==
    <>[][\A r \in Txn : pc[r] = "sweeping" /\ Rollback(r) => Deadlocked(r)]_vars

FairSpec == Spec /\ SweepsNotCutOff /\ \A r \in Txn : Progress(r)

(* An approved club loan that is never fetched does not stay approved after  *)
(* its term.                                                                 *)
UnclaimedIsRevoked ==
    \A l \in Loan :
        (status[l] = "approved" /\ terms[l].owner # Office /\ terms[l].last < today)
            ~> status[l] \in Settled
=============================================================================
