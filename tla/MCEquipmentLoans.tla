-------------------------- MODULE MCEquipmentLoans --------------------------
(* Instances of EquipmentLoans for TLC. *)
EXTENDS EquipmentLoans, TLC

CONSTANTS c1, office, tent, r1, r2, none

Terms_(o, q, s, t) == [owner |-> o, item |-> tent, qty |-> q, first |-> s, last |-> t]

\* Overlapping and disjoint terms, a quantity that can be cut, a term that is
\* over on the last day, one still in the future on the first, a manual loan
\* that may be entered after its first day.
MCAsks == {Terms_(c1, 2, 1, 1), Terms_(c1, 1, 2, 2), Terms_(office, 1, 1, 2)}
MCSettings == {[total |-> 2, limit |-> 0, active |-> TRUE],
               [total |-> 1, limit |-> 1, active |-> TRUE]}

MCOneSetting == {[total |-> 2, limit |-> 0, active |-> TRUE]}

\* For liveness: a club and a manual loan whose terms end on the first day.
MCLiveAsks == {Terms_(c1, 1, 1, 1), Terms_(office, 1, 1, 1)}

Symmetry == Permutations(Txn)
=============================================================================
