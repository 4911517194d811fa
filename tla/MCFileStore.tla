----------------------------- MODULE MCFileStore -----------------------------
(* Instances of FileStore for TLC. *)
EXTENDS FileStore, TLC

CONSTANTS c1, d1, d2, item, x, y, f1, f2, f3, r1, r2, none

A(s, slot, content) == [club |-> c1, subject |-> s, slot |-> slot, content |-> content]

MCOwnerOf == [d \in Document |-> c1]
MCSize == [k \in Content |-> 1]

\* The same photo for two documents, another file for the first of them, an
\* image, and the same content for an evaluation item.
MCAsks == {A(d1, "photo", x), A(d2, "photo", x), A(d1, "doc", y), A(c1, "image", x), A(item, "eval", x)}

Symmetry == Permutations(File) \cup Permutations(Txn)
=============================================================================
