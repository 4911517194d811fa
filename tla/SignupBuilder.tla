---------------------------- MODULE SignupBuilder ----------------------------
(***************************************************************************)
(* The page on which an official makes an activity that clubs sign up for: *)
(* the fields of its form, which are dragged or moved by the arrow keys,   *)
(* and the request that publishes it, during which the page can be edited. *)
(* What is typed elsewhere on the page is complete or is not.              *)
(***************************************************************************)
EXTENDS Naturals, Sequences, Functions

CONSTANTS
    MaxFields,  \* bound: fields ever added
    MaxEdits,   \* bound: changes of a field
    MaxSent,    \* bound: requests
    None

BuilderAssumption == {MaxFields, MaxEdits, MaxSent} \subseteq Nat

VARIABLES
    fields,    \* the fields, in the order shown
    next,      \* the key of the next field
    drag,      \* the key of the field that is held, or None
    over,      \* history: [key, after], where the pointer last was with a field held, or None
    complete,  \* the rest of the page is
    out,       \* the request under way, [step, fields], or None
    items,     \* what the server has
    sent, edits,
    page       \* "open" or "left"

vars == <<fields, next, drag, over, complete, out, items, sent, edits, page>>
request == <<out, items, sent, page>>

\* Nothing, only blanks, and a name.
Labels == {"", " ", "name"}
\* A line of text, a choice, and a choice without options.
Kinds == {"text", "choice", "bare"}
Keys == 1..MaxFields

FieldOf(key, label, kind) == [key |-> key, label |-> label, kind |-> kind]
Named(f) == f.label = "name"

TypeOK ==
    /\ fields \in Seq([key: Keys, label: Labels, kind: Kinds]) /\ next \in 1..(MaxFields + 1)
    /\ IsInjective([i \in DOMAIN fields |-> fields[i].key])
    /\ drag \in Keys \cup {None} /\ complete \in BOOLEAN /\ page \in {"open", "left"}
    /\ \A i \in DOMAIN items : \A j \in DOMAIN items[i] : Named(items[i][j]) /\ items[i][j].kind # "bare"

Init ==
    /\ fields = <<>> /\ next = 1 /\ drag = None /\ over = None /\ complete = FALSE
    /\ out = None /\ items = <<>> /\ sent = 0 /\ edits = 0 /\ page = "open"

\* Where the field with this key is.
At(key) == CHOOSE i \in DOMAIN fields : fields[i].key = key
Shown(key) == \E i \in DOMAIN fields : fields[i].key = key

Without(place) == SubSeq(fields, 1, place - 1) \o SubSeq(fields, place + 1, Len(fields))
Move(from, to) ==
    LET rest == Without(from) IN
    SubSeq(rest, 1, to - 1) \o <<fields[from]>> \o SubSeq(rest, to, Len(rest))

AddField ==
    /\ next \in Keys /\ next' = next + 1
    /\ fields' = Append(fields, FieldOf(next, "", "text")) /\ over' = None
    /\ UNCHANGED <<drag, complete, edits, request>>

RemoveField ==
    /\ \E i \in DOMAIN fields : fields' = Without(i)
    /\ over' = None
    /\ UNCHANGED <<next, drag, complete, edits, request>>

\* A choice that has lost its last option is bare, and so is a field that becomes one.
Update ==
    /\ edits < MaxEdits /\ edits' = edits + 1
    /\ \E i \in DOMAIN fields, f \in [label: Labels, kind: Kinds] :
         fields' = [fields EXCEPT ![i].label = f.label, ![i].kind = f.kind]
    /\ UNCHANGED <<next, drag, over, complete, request>>

Complete ==
    /\ complete' = ~complete
    /\ UNCHANGED <<fields, next, drag, over, edits, request>>

(***************************************************************************)
(* The order.                                                              *)
(***************************************************************************)
Grab ==
    /\ drag = None /\ \E i \in DOMAIN fields : drag' = fields[i].key
    /\ over' = None
    /\ UNCHANGED <<fields, next, complete, edits, request>>

LetGo ==
    /\ drag # None /\ drag' = None /\ over' = None
    /\ UNCHANGED <<fields, next, complete, edits, request>>

\* Mutant: the place is not counted again without the field that is held.
PlaceAmongAll(from, to, after) == LET p == to + (IF after THEN 1 ELSE 0) IN IF p > Len(fields) THEN Len(fields) ELSE p

\* The place before the target or behind it, once the field that is held is taken out.
Place(from, to, after) ==
    LET place == to + (IF after THEN 1 ELSE 0) IN IF place > from THEN place - 1 ELSE place

\* The pointer is over another field, above its middle or below.
DragOver ==
    /\ drag # None
    /\ \E to \in DOMAIN fields, after \in BOOLEAN :
         /\ fields[to].key # drag
         /\ over' = IF Shown(drag) THEN [key |-> fields[to].key, after |-> after] ELSE None
         /\ fields' = IF Shown(drag) THEN Move(At(drag), Place(At(drag), to, after)) ELSE fields
    /\ UNCHANGED <<next, drag, complete, edits, request>>

\* By an arrow key, which another hand may press.
MoveField ==
    /\ \E from, to \in DOMAIN fields :
         /\ to \in {from - 1, from + 1}
         /\ fields' = Move(from, to)
    /\ over' = None
    /\ UNCHANGED <<next, drag, complete, edits, request>>

(***************************************************************************)
(* Publishing.                                                             *)
(***************************************************************************)
\* Fields without a name are left out, which leaves gaps between those that are sent; a
\* choice needs options.  The button waits for the answer.
Publish ==
    /\ complete /\ out = None /\ sent < MaxSent
    /\ LET named == {i \in DOMAIN fields : Named(fields[i])} IN
         /\ \A i \in named : fields[i].kind # "bare"
         /\ out' = [step |-> "sent", fields |-> [i \in named |-> fields[i]]]
    /\ sent' = sent + 1
    /\ UNCHANGED <<fields, next, drag, over, complete, edits, items, page>>

\* Refused when a date has passed meanwhile.
Serve ==
    /\ out # None /\ out.step = "sent"
    /\ \/ items' = Append(items, out.fields) /\ out' = [out EXCEPT !.step = "done"]
       \/ items' = items /\ out' = [out EXCEPT !.step = "refused"]
    /\ UNCHANGED <<fields, next, drag, over, complete, edits, sent, page>>

Arrive ==
    /\ out # None /\ out.step # "sent" /\ out' = None
    /\ page' = IF out.step = "done" THEN "left" ELSE page
    /\ UNCHANGED <<fields, next, drag, over, complete, edits, items, sent>>

\* On the way there or back.
Lose ==
    /\ out # None /\ out' = None
    /\ UNCHANGED <<fields, next, drag, over, complete, edits, items, sent, page>>

Next ==
    /\ page = "open"
    /\ \/ AddField \/ RemoveField \/ Update \/ Complete \/ Grab \/ LetGo \/ DragOver \/ MoveField
       \/ Publish \/ Serve \/ Arrive \/ Lose

Spec == Init /\ [][Next]_vars

(***************************************************************************)
(* What must hold.                                                         *)
(***************************************************************************)
\* The field that is held is right where the pointer is: before the field that is under it
\* above its middle, behind it below (SignupBuilderPage.tsx: move).
LandsWherePointed ==
    drag # None /\ over # None =>
        At(drag) = IF over.after THEN At(over.key) + 1 ELSE At(over.key) - 1

Order == [i \in DOMAIN fields |-> fields[i].key]
Before(a, b) == \E i, j \in DOMAIN fields : i < j /\ fields[i].key = a /\ fields[j].key = b

\* A step that changes the order moves one field, which takes what was typed in it along,
\* and the others stay in theirs (SignupBuilderPage.tsx: move, moveField).
MovesOne ==
    Range(Order) = Range(Order') /\ Order # Order' =>
        /\ Range(fields) = Range(fields')
        /\ \E key \in Keys : \A a, b \in Keys \ {key} : Before(a, b) => Before(a, b)'

(***************************************************************************)
(* What a comment of the code says and TLC refutes.                        *)
(***************************************************************************)
\* "Those without a name are not sent (as the preview shows)" (SignupBuilderPage.tsx:
\* publish).  The preview shows a name of blanks.
PreviewIsSent ==
    \A i \in DOMAIN fields : out = None /\ out' # None /\ fields[i].label # "" =>
        fields[i] \in Range(out'.fields)

(***************************************************************************)
(* The inductive invariant.                                                *)
(***************************************************************************)
\* A key is given once.
KeysInv == \A i \in DOMAIN fields : fields[i].key < next

\* Where the pointer was is kept while both fields are there and one of them is held.
OverInv ==
    over # None =>
        /\ drag # None /\ Shown(drag)
        /\ over.key # drag /\ Shown(over.key)

\* What is on its way can be published, and will be the last of those that have been.
SentInv ==
    /\ items \in Seq(Range(items))
    /\ out # None =>
         /\ out = [step |-> out.step, fields |-> out.fields]
         /\ \A i \in DOMAIN out.fields : Named(out.fields[i]) /\ out.fields[i].kind # "bare"

Inv == TypeOK /\ KeysInv /\ OverInv /\ SentInv /\ LandsWherePointed
===============================================================================
