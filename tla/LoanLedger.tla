----------------------------- MODULE LoanLedger -----------------------------
(***************************************************************************)
(* What the equipment desk promises, without its transactions: a ledger of *)
(* loans in which a loan is opened in one indivisible step, and only when  *)
(* every day of its term still has the units it asks for.  EquipmentLoans  *)
(* implements it with an unlocked read, an advisory lock and row locks.    *)
(***************************************************************************)
EXTENDS Integers, FiniteSets

CONSTANTS
    Loan,      \* identities of the loan rows
    Item,      \* pieces of equipment that are lent
    Asks,      \* the terms a loan can be asked on: item, quantity, first and last day
    NoTerms    \* the terms of a row that does not exist yet

VARIABLES
    phase,     \* "unused", "open" (it claims units) or "closed" (for good)
    terms,     \* the terms each loan was opened on
    peak       \* the largest stock each item has had

ledgerVars == <<phase, terms, peak>>

Units(l) == {l} \X (1 .. terms[l].qty)

\* The units promised for one day, counted by the loan's own term.
BookedUnits(e, d) ==
    UNION {Units(l) : l \in {k \in Loan : /\ phase[k] = "open"
                                          /\ terms[k].item = e
                                          /\ terms[k].first <= d
                                          /\ d <= terms[k].last}}

Init ==
    /\ phase = [l \in Loan |-> "unused"]
    /\ terms = [l \in Loan |-> NoTerms]
    /\ peak \in [Item -> Nat]

\* A loan is opened only when every day of its term has room for it.
Open(l, t) ==
    /\ phase[l] = "unused"
    /\ \A d \in t.first .. t.last :
          Cardinality(BookedUnits(t.item, d)) + t.qty <= peak[t.item]
    /\ phase' = [phase EXCEPT ![l] = "open"]
    /\ terms' = [terms EXCEPT ![l] = t]
    /\ UNCHANGED peak

\* An open loan can be cut down to a smaller quantity.
Cut(l, q) ==
    /\ phase[l] = "open"
    /\ terms' = [terms EXCEPT ![l].qty = q]
    /\ UNCHANGED <<phase, peak>>

\* Any number of open loans are closed together; none of them opens again.
Close(S) ==
    /\ \A l \in S : phase[l] = "open"
    /\ phase' = [l \in Loan |-> IF l \in S THEN "closed" ELSE phase[l]]
    /\ UNCHANGED <<terms, peak>>

\* Stock is bought; what an item once had is never forgotten.
Restock ==
    /\ peak' \in [Item -> Nat]
    /\ \A e \in Item : peak[e] <= peak'[e]
    /\ UNCHANGED <<phase, terms>>

Next ==
    \/ \E l \in Loan, t \in Asks : Open(l, t)
    \/ \E l \in {k \in Loan : phase[k] = "open"} : \E q \in 1 .. terms[l].qty : Cut(l, q)
    \/ \E S \in SUBSET Loan : Close(S)
    \/ Restock

Spec == Init /\ [][Next]_ledgerVars
=============================================================================
