---------------------------- MODULE AccountsDesk -----------------------------
(***************************************************************************)
(* The page on which officials keep the accounts: managed ones, with keys  *)
(* to pages, and those of clubs, which are made and deleted here too.      *)
(* Every button has requests of its own kind, and only the last request of *)
(* a kind is answered by the page; questions and dialogs come and go       *)
(* meanwhile, and another official works on the same rows.  Searching,     *)
(* paging and the tabs only choose among the rows, and are left out.       *)
(***************************************************************************)
EXTENDS Naturals, FiniteSets

CONSTANTS
    Accounts, Clubs,  \* there, or not yet made
    Keys,             \* keys to pages
    Catalogue,        \* those the page knows of
    Held,             \* those this official has; the highest one has all
    Start,            \* the rows at the start
    MaxSent,          \* bound: requests
    MaxOthers,        \* bound: changes by the other official
    None

Ids == Accounts \cup Clubs

\* A row: whether it is there, let in, with an account, with records of its own, its
\* keys, and how many passwords were made for it.
Rows == [life: {"unmade", "there", "gone"}, active: BOOLEAN, user: BOOLEAN, data: BOOLEAN, keys: SUBSET Keys, pw: Nat]

\* What is asked of the server: one kind of request for the accounts, another for the
\* clubs, and one of each dialog.  What is being shown, and the dialogs.
Kinds == ({"reset", "active", "remove"} \X {"club", "managed"}) \cup {<<"keys">>, <<"account">>, <<"create">>, <<"found">>}
Replies == [code: {"done", "records", "refused"}, pw: Nat]
Requests ==
    [what: Kinds, of: Ids, flag: BOOLEAN, keys: SUBSET Keys, here: BOOLEAN, last: BOOLEAN, reply: Replies \cup {None}]
Passwords == [of: Ids, pw: Nat]
Dialogs ==
    [what: {"keys", "account", "create", "found"}, of: Ids, base: SUBSET Catalogue, draft: SUBSET Catalogue,
     extra: SUBSET Keys]

\* Of the constants; assumed where they are given values.
AccountsAssumption ==
    /\ Accounts \cap Clubs = {} /\ Catalogue \subseteq Keys /\ Held \subseteq Keys
    /\ MaxSent \in Nat /\ MaxOthers \in Nat /\ Start \in [Ids -> Rows]
    /\ None \notin Passwords \cup Dialogs

VARIABLES
    row,      \* as the server has them
    rows,     \* as the page shows them
    dialog,   \* the dialog that is open, or None
    ask,      \* the questions: [what, of]
    shown,    \* the password being shown: [of, pw], or None
    out,      \* requests on their way
    sent, others,
    agreed    \* history: the clubs whose records may go with them, by a question that names them

vars == <<row, rows, dialog, ask, shown, out, sent, others, agreed>>

\* The page answers a request while it is there and the request is the last of its kind.
Request(what, of, flag, keys) ==
    [what |-> what, of |-> of, flag |-> flag, keys |-> keys, here |-> TRUE, last |-> TRUE, reply |-> None]
Reply(code, pw) == [code |-> code, pw |-> pw]
Dialog(what, of, base, extra) == [what |-> what, of |-> of, base |-> base, draft |-> base, extra |-> extra]
Question(what, of) == [what |-> what, of |-> of]

TypeOK ==
    /\ row \in [Ids -> Rows] /\ rows \in [Ids -> Rows]
    /\ dialog \in Dialogs \cup {None} /\ shown \in Passwords \cup {None}
    /\ \A q \in ask : q.of \in Ids /\ q.what \in {"reset", "disable", "remove", "records", "leave"}
    /\ out \subseteq Requests
    /\ sent \in 0 .. MaxSent /\ others \in 0 .. MaxOthers /\ agreed \subseteq Clubs

Init ==
    /\ row = Start /\ rows = Start /\ dialog = None /\ ask = {} /\ shown = None /\ out = {}
    /\ sent = 0 /\ others = 0 /\ agreed = {}

\* What is on top is used first.
OnTop == ask = {} /\ shown = None
Free == OnTop /\ dialog = None
Heard(r) == r.here /\ r.last
Pending(what) == \E r \in out : r.what = what /\ Heard(r)

\* One kind of request for the accounts, another for the clubs.
KindOf(what, id) == <<what, IF id \in Clubs THEN "club" ELSE "managed">>

Send(request) ==
    /\ sent < MaxSent /\ sent' = sent + 1
    /\ out' = {[r EXCEPT !.last = @ /\ r.what # request.what] : r \in out} \cup {request}

(***************************************************************************)
(* The buttons of a row, and the questions.                                *)
(***************************************************************************)
\* No buttons for one who has keys this official has not.
Offered(id) == rows[id].life = "there" /\ rows[id].keys \subseteq Held

\* None of the buttons waits for an earlier request.
Press ==
    /\ Free
    /\ \E id \in Ids, what \in {"reset", "disable", "remove"} :
         /\ Offered(id)
         /\ what = "reset" => rows[id].user
         /\ what = "disable" => rows[id].active
         /\ ask' = {Question(what, id)}
    /\ UNCHANGED <<row, rows, dialog, shown, out, sent, others, agreed>>

\* One who was kept out is let in without a question.
Enable ==
    /\ Free
    /\ \E id \in Ids : Offered(id) /\ ~rows[id].active /\ Send(Request(KindOf("active", id), id, TRUE, {}))
    /\ UNCHANGED <<row, rows, dialog, ask, shown, others, agreed>>

\* Mutant: the records go with the club at the first question.
RemoveAtOnce(id, forced) == Send(Request(KindOf("remove", id), id, id \in Clubs, {}))

\* A club's records go with it only if they were named.
Remove(id, forced) == Send(Request(KindOf("remove", id), id, forced, {}))

Confirm ==
    \E q \in ask :
      /\ ask' = ask \ {q}
      /\ \/ /\ q.what = "reset" /\ Send(Request(KindOf("reset", q.of), q.of, TRUE, {}))
            /\ UNCHANGED <<dialog, agreed>>
         \/ /\ q.what = "disable" /\ Send(Request(KindOf("active", q.of), q.of, FALSE, {}))
            /\ UNCHANGED <<dialog, agreed>>
         \/ /\ q.what = "remove" /\ Remove(q.of, FALSE)
            /\ UNCHANGED <<dialog, agreed>>
         \/ /\ q.what = "records" /\ Remove(q.of, TRUE)
            /\ agreed' = agreed \cup {q.of} /\ UNCHANGED dialog
         \/ /\ q.what = "leave" /\ dialog' = None
            /\ UNCHANGED <<out, sent, agreed>>
      /\ UNCHANGED <<row, rows, shown, others>>

Decline ==
    /\ \E q \in ask : ask' = ask \ {q}
    /\ UNCHANGED <<row, rows, dialog, shown, out, sent, others, agreed>>

(***************************************************************************)
(* The dialogs: the keys of an account, the account of a club, a new       *)
(* account and a new club.  A name that is typed stands for the row made.  *)
(***************************************************************************)
\* Mutant: with the keys the page does not know of.
AllKeys(id) == rows[id].keys

\* The boxes of the keys the page knows of.
Ticked(id) == rows[id].keys \cap Catalogue

OpenDialog ==
    /\ Free
    /\ \E id \in Ids :
         \/ /\ id \in Accounts /\ Offered(id)
            /\ dialog' = Dialog("keys", id, Ticked(id), rows[id].keys \ Catalogue)
         \/ id \in Clubs /\ rows[id].life = "there" /\ ~rows[id].user /\ dialog' = Dialog("account", id, {}, {})
         \/ rows[id].life = "unmade" /\ dialog' = Dialog(IF id \in Clubs THEN "found" ELSE "create", id, {}, {})
    /\ UNCHANGED <<row, rows, ask, shown, out, sent, others, agreed>>

\* A key this official has not can be taken away, and given back.
Tick ==
    /\ OnTop /\ dialog # None /\ dialog.what = "keys"
    /\ \E k \in Catalogue \cap (Held \cup dialog.base) :
         dialog' = [dialog EXCEPT !.draft = IF k \in @ THEN @ \ {k} ELSE @ \cup {k}]
    /\ UNCHANGED <<row, rows, ask, shown, out, sent, others, agreed>>

Ready(what) == ~Pending(<<what>>)

\* Mutant: only what the page knows of.
DraftedKeys(d) == d.draft

\* Keys the page does not know of are kept.
KeysOf(d) == d.extra \cup d.draft

Submit ==
    /\ OnTop /\ dialog # None /\ Ready(dialog.what)
    /\ Send(Request(<<dialog.what>>, dialog.of, TRUE, KeysOf(dialog)))
    /\ UNCHANGED <<row, rows, dialog, ask, shown, others, agreed>>

\* Only changed keys are asked about.
CloseDialog ==
    /\ OnTop /\ dialog # None
    /\ IF dialog.what = "keys" /\ dialog.draft # dialog.base
       THEN ask' = {Question("leave", dialog.of)} /\ UNCHANGED dialog
       ELSE dialog' = None /\ UNCHANGED ask
    /\ UNCHANGED <<row, rows, shown, out, sent, others, agreed>>

ClosePassword ==
    /\ shown # None /\ shown' = None
    /\ UNCHANGED <<row, rows, dialog, ask, out, sent, others, agreed>>

\* The page is left and entered again: what is on its way is not answered.
Leave ==
    /\ Free /\ out' = {[r EXCEPT !.here = FALSE] : r \in out}
    /\ UNCHANGED <<row, rows, dialog, ask, shown, sent, others, agreed>>

(***************************************************************************)
(* The server.                                                             *)
(***************************************************************************)
\* The row after a request that can be done.
Possible(r, x) ==
    CASE r.what[1] \in {"create", "found"} -> x.life = "unmade"
      [] r.what[1] = "account"             -> x.life = "there" /\ ~x.user
      [] r.what[1] = "reset"               -> x.life = "there" /\ x.user
      [] r.what[1] = "remove"              -> x.life = "there" /\ (x.data => r.flag)
      [] r.what[1] = "keys"                -> x.life = "there" /\ r.keys \ x.keys \subseteq Held
      [] OTHER                             -> x.life = "there"

After(r, x) ==
    CASE r.what[1] = "create"  -> [x EXCEPT !.life = "there", !.active = TRUE, !.user = TRUE, !.pw = @ + 1]
      [] r.what[1] = "found"   -> [x EXCEPT !.life = "there", !.active = TRUE]
      [] r.what[1] = "account" -> [x EXCEPT !.user = TRUE, !.pw = @ + 1]
      [] r.what[1] = "reset"   -> [x EXCEPT !.pw = @ + 1]
      [] r.what[1] = "remove"  -> [x EXCEPT !.life = "gone", !.data = FALSE]
      [] r.what[1] = "keys"    -> [x EXCEPT !.keys = r.keys]
      [] OTHER                 -> [x EXCEPT !.active = r.flag]

Serve ==
    \E r \in out :
      /\ r.reply = None
      /\ IF r.of \in Accounts => row[r.of].keys \subseteq Held
         THEN \/ /\ Possible(r, row[r.of])
                 /\ row' = [row EXCEPT ![r.of] = After(r, @)]
                 /\ out' = (out \ {r}) \cup {[r EXCEPT !.reply = Reply("done", row'[r.of].pw)]}
              \/ /\ ~Possible(r, row[r.of]) /\ UNCHANGED row
                 /\ out' = (out \ {r}) \cup {[r EXCEPT !.reply =
                      Reply(IF r.what = KindOf("remove", r.of) /\ r.of \in Clubs /\ row[r.of].data THEN "records" ELSE "refused", 0)]}
         ELSE UNCHANGED row /\ out' = (out \ {r}) \cup {[r EXCEPT !.reply = Reply("refused", 0)]}
      /\ UNCHANGED <<rows, dialog, ask, shown, sent, others, agreed>>

\* Meanwhile a club files something, or another official gives or takes a key.
Other ==
    /\ others < MaxOthers /\ others' = others + 1
    /\ \E id \in Ids :
         /\ row[id].life = "there"
         /\ \/ id \in Clubs /\ ~row[id].data /\ row' = [row EXCEPT ![id].data = TRUE]
            \/ /\ id \in Accounts
               /\ \E k \in Catalogue : row' = [row EXCEPT ![id].keys = IF k \in @ THEN @ \ {k} ELSE @ \cup {k}]
    /\ UNCHANGED <<rows, dialog, ask, shown, out, sent, agreed>>

Load ==
    /\ rows' = row
    /\ UNCHANGED <<row, dialog, ask, shown, out, sent, others, agreed>>

(***************************************************************************)
(* The answers.                                                            *)
(***************************************************************************)
\* Whatever dialog of the kind is open by now is closed.
Close(what) == dialog' = IF dialog # None /\ <<dialog.what>> = what THEN None ELSE dialog

Arrive ==
    \E r \in out :
      /\ r.reply # None /\ out' = out \ {r}
      /\ IF ~Heard(r) THEN UNCHANGED <<dialog, ask, shown>>
         ELSE \/ /\ r.reply.code = "done" /\ Close(r.what) /\ UNCHANGED ask
                 /\ shown' = IF r.what[1] \in {"reset", "account", "create"}
                             THEN [of |-> r.of, pw |-> r.reply.pw] ELSE shown
              \/ /\ r.reply.code = "records" /\ ask' = ask \cup {Question("records", r.of)}
                 /\ UNCHANGED <<dialog, shown>>
              \/ r.reply.code = "refused" /\ UNCHANGED <<dialog, ask, shown>>
      /\ UNCHANGED <<row, rows, sent, others, agreed>>

\* On the way there or back.
Lose ==
    /\ \E r \in out : out' = out \ {r}
    /\ UNCHANGED <<row, rows, dialog, ask, shown, sent, others, agreed>>

Next ==
    \/ Press \/ Enable \/ Confirm \/ Decline
    \/ OpenDialog \/ Tick \/ Submit \/ CloseDialog \/ ClosePassword \/ Leave
    \/ Serve \/ Other \/ Load \/ Arrive \/ Lose

Spec == Init /\ [][Next]_vars

(***************************************************************************)
(* What makes it hold.                                                     *)
(***************************************************************************)
\* Wherever keys of an account are kept, those outside the catalogue are as at the start.
KeysInv ==
    LET outside(a) == Start[a].keys \ Catalogue IN
    /\ \A a \in Accounts : row[a].keys \ Catalogue = outside(a) /\ rows[a].keys \ Catalogue = outside(a)
    /\ dialog # None /\ dialog.what = "keys" => dialog.of \in Accounts /\ dialog.extra = outside(dialog.of)
    /\ \A r \in out : r.what = <<"keys">> => r.of \in Accounts /\ r.keys \ Catalogue = outside(r.of)

\* Only a request that was agreed to takes records with it, and only clubs have records.
RecordsInv ==
    /\ \A r \in out : r.of \in Clubs /\ r.what[1] = "remove" /\ r.flag => r.of \in agreed
    /\ \A r \in out : r.reply # None /\ r.reply.code = "records" => r.of \in Clubs
    /\ \A q \in ask : q.what = "records" => q.of \in Clubs

\* A dialog's button waits for its request: no later one takes its answer.
CreatedInv == \A r \in out : r.what \in {<<"account">>, <<"create">>} /\ r.here => r.last

Inv == TypeOK /\ KeysInv /\ RecordsInv /\ CreatedInv

(***************************************************************************)
(* What must hold.                                                         *)
(***************************************************************************)
\* A club that has records is deleted only by an official who was told of records and
\* agreed again, also when the club files its first ones after the first question
\* (AccountsPage.tsx: deleteClub).
NamesRecords ==
    \A c \in Clubs : row[c].data /\ row[c].life = "there" /\ row'[c].life = "gone" => c \in agreed

\* The keys the page does not know of outlive every save of an account's keys, also with
\* two officials at work (AccountsPage.tsx: extraKeys).
OutsideKeysStay == \A a \in Accounts : row[a].keys \ Catalogue = Start[a].keys \ Catalogue

\* The password made with an account is shown, unless the answer is lost or the page was
\* left: it can be read nowhere else (AccountsPage.tsx: submitClubAccount).
ShowsCreated ==
    \A r \in out : r.what[1] \in {"account", "create"} /\ r.here /\ r.reply # None /\ r.reply.code = "done"
         /\ Arrive /\ r \notin out'
         => shown' # None /\ shown'.of = r.of /\ shown'.pw = r.reply.pw

\* So is a password that was reset.  It is not: a second reset of the same kind takes the
\* answer of the first.
ShowsReset ==
    \A r \in out : r.what[1] = "reset" /\ r.here /\ r.reply # None /\ r.reply.code = "done"
         /\ Arrive /\ r \notin out'
         => shown' # None /\ shown'.of = r.of /\ shown'.pw = r.reply.pw

\* Changed keys that are not saved are given up only after a question.  They are not: the
\* answer to a save of another account's keys closes the dialog.
AsksOfDraft ==
    dialog # None /\ dialog.what = "keys" /\ dialog.draft # dialog.base /\ dialog' = None
         => \/ \E q \in ask : q.what = "leave" /\ q \notin ask'
            \/ \E r \in out : r.what = <<"keys">> /\ r.of = dialog.of /\ r \notin out'
=============================================================================
