------------------------- MODULE MCActivityWorkflow -------------------------
(* Instances of ActivityWorkflow for TLC.                                    *)
EXTENDS ActivityWorkflow, TLC

CONSTANTS ann, bob, none

\* Two people hold the keys of three stages: one of them signs twice.
MCKeys == (ann :> {"advisor", "chief", "close"}) @@ (bob :> {"advisor", "chief", "dean"})

F(d, staffed, event) == [date |-> d, last |-> d, staffed |-> staffed, event |-> event, large |-> FALSE]

\* A complete form that asks for money for one of two items, one for another
\* day that asks for none, and one that is not complete.
Funded == [form |-> F(2, TRUE, FALSE), asked |-> <<1, 0>>]
Free == [form |-> F(3, TRUE, TRUE), asked |-> <<>>]
Partial == [form |-> F(2, FALSE, FALSE), asked |-> <<1>>]
MCBodies == {Funded, Free, Partial}

Symmetry == Permutations(Txn)
=============================================================================
