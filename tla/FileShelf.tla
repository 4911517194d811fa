------------------------------ MODULE FileShelf ------------------------------
(***************************************************************************)
(* What the storage of uploaded files promises, without locks, transfers   *)
(* and the disk: a file appears in one step, within the quota of its club  *)
(* and the limit of its document and never twice, and files disappear      *)
(* together with what they belong to.  FileStore implements it.            *)
(***************************************************************************)
EXTENDS Integers, FiniteSets

CONSTANTS File, Club, Document, Content, Size, Quota, Cap, NoRow,
          Asks  \* the rows files can have

VARIABLE shelf

Kept == {f \in File : shelf[f] # NoRow}

Blocks(files) == UNION {{f} \X (1 .. Size[shelf[f].content]) : f \in files}

OfClub(c) == {f \in Kept : shelf[f].club = c /\ shelf[f].slot # "image"}
OfSubject(s) == {f \in Kept : shelf[f].subject = s}

Init == shelf = [f \in File |-> NoRow]

\* An image takes the place of the one before it.
Put(f, a) ==
    /\ f \notin Kept
    /\ a.slot # "image" => Cardinality(Blocks(OfClub(a.club))) + Size[a.content] <= Quota
    /\ a.subject \in Document => Cardinality(Blocks(OfSubject(a.subject))) + Size[a.content] <= Cap
    /\ a.slot \in {"photo", "eval"} =>
          \A g \in Kept : ~(/\ shelf[g].content = a.content /\ shelf[g].club = a.club
                            /\ shelf[g].slot = a.slot
                            /\ a.slot = "eval" => shelf[g].subject = a.subject)
    /\ shelf' = [g \in File |-> IF g = f THEN a
                                ELSE IF a.slot = "image" /\ g \in OfSubject(a.subject) THEN NoRow
                                ELSE shelf[g]]

Take(files) == shelf' = [f \in File |-> IF f \in files THEN NoRow ELSE shelf[f]]

\* One file, all of a document, or all of a club.
Next ==
    \/ \E f \in File, a \in Asks : Put(f, a)
    \/ \E f \in File : Take({f})
    \/ \E d \in Document : Take(OfSubject(d))
    \/ \E c \in Club : Take(OfClub(c) \cup OfSubject(c))

Spec == Init /\ [][Next]_shelf
=============================================================================
