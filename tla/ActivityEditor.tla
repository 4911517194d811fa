---------------------------- MODULE ActivityEditor ----------------------------
(***************************************************************************)
(* The two forms a club fills in about an activity, in the browser: the    *)
(* application and the closing report.  Saving one takes a chain of        *)
(* requests (the row, each file, the hand-in), any of which may fail or    *)
(* have its answer lost after the server has acted on it; the user then    *)
(* presses again.  A behaviour is one visit to one of the two forms: it    *)
(* ends on the page the form leads to, or on one the user went to instead, *)
(* where a chain that is still running goes on.                            *)
(***************************************************************************)
EXTENDS Integers, Sequences, FiniteSets

CONSTANTS
    Files,        \* what the user may attach, told apart by content; all of one size
    Photos,       \* those that are pictures of the activity
    Room,         \* how many files the page allows for
    MinPhotos,    \* pictures a report must have
    HeldKeys,     \* the buttons a user may hold down on the keyboard: "draft", "submit"
    MaxText,      \* bound: times the text is typed
    MaxMade,      \* bound: copies the server makes
    MaxLost,      \* bound: requests refused, or whose answer is lost
    None

\* A copy of a file, an activity, and a chain of requests by the one that is under way.
Copies == [file: Files, id: Nat \ {0}]
Rows == [text: 0 .. MaxText, files: SUBSET Copies, status: {"open", "handed in"}, by: {"draft", "submit", None}]
Chains ==
    [by: {"draft", "submit"}, new: BOOLEAN, target: Nat, text: 0 .. MaxText, todo: SUBSET Files,
     op: {"create", "update", "text", "look", "send", "submit"}, file: Files \cup {None},
     wire: {"sent", "handled"}, seen: SUBSET Copies]

\* Of the constants; assumed where they are given values.
EditorAssumption ==
    /\ Photos \subseteq Files /\ IsFiniteSet(Files) /\ HeldKeys \subseteq {"draft", "submit"}
    /\ Room \in Nat /\ MinPhotos \in Nat /\ MaxText \in Nat \ {0} /\ MaxMade \in Nat /\ MaxLost \in Nat
    /\ None \notin Chains \cup {"draft", "submit"}

Slots == 1 .. 2   \* bound: chains of requests that run at once

VARIABLES
    page,      \* "apply" or "close"
    at,        \* "form", "list" (where the form leads), or "away"
    form,      \* target: the row edited, 0 if it is new; text; files chosen; listed: copies
               \*   shown as uploaded; checking: files being hashed; unsettled;
               \*   forgone: (recorded) files taken off the form after an upload failed
    busy,      \* the save the form says is running: "draft", "submit" or None
    dialogs,   \* the confirmations on top of the form, each with what it will send
    saves,     \* the chains running
    removals,  \* the requests to remove a copy
    rows,      \* the server's: text, files: copies kept, status, and the save that made it
    made,      \* how many copies the server has made
    lost,      \* requests that failed
    unsure     \* of these, creations the server had made

pageVars == <<page, at, form, busy, dialogs>>
serverVars == <<rows, made>>
vars == <<pageVars, saves, removals, serverVars, lost, unsure>>

\* An activity on the server, of which the page reads what it may change.
Row(text, by) == [text |-> text, files |-> {}, status |-> "open", by |-> by]

Opened(target) ==
    [target |-> target, text |-> IF target = 0 THEN 0 ELSE rows[target].text, files |-> {},
     listed |-> IF target = 0 THEN {} ELSE rows[target].files, checking |-> {}, unsettled |-> FALSE, forgone |-> {}]

\* An application is new or one that is still a draft; a report is about a row there is.
Init ==
    /\ page \in {"apply", "close"}
    /\ rows \in {<<>>, <<Row(1, None)>>}
    /\ page = "close" => rows # <<>>
    /\ form = [target |-> Len(rows), text |-> Len(rows), files |-> {}, listed |-> {}, checking |-> {}, unsettled |-> FALSE, forgone |-> {}]
    /\ at = "form" /\ busy = None /\ dialogs = <<>>
    /\ saves = [s \in Slots |-> None] /\ removals = {}
    /\ made = 0 /\ lost = 0 /\ unsure = 0

(***************************************************************************)
(* Editing.  A confirmation covers the form.  While a save runs the        *)
(* closing report is read-only; the application is not.                    *)
(***************************************************************************)
Open == at = "form" /\ dialogs = <<>>
Editable == Open /\ (page = "close" => busy = None)

Typed ==
    /\ Editable /\ form.text < MaxText
    /\ form' = [form EXCEPT !.text = @ + 1]
    /\ UNCHANGED <<page, at, busy, dialogs, saves, removals, serverVars, lost, unsure>>

TypeApplication == page = "apply" /\ Typed
TypeReport == page = "close" /\ Typed

\* Files of one queue are looked at one after another; the report has one queue
\* for its pictures and one for its other files.
Beside(f) == {g \in form.checking : page = "apply" \/ (g \in Photos <=> f \in Photos)}
Used == Cardinality(form.files) + Cardinality(form.listed)

\* A file that does not fit is turned away.
Choose(f) ==
    /\ Editable /\ Beside(f) = {} /\ Used < Room
    /\ form' = [form EXCEPT !.checking = @ \cup {f}]
    /\ UNCHANGED <<page, at, busy, dialogs, saves, removals, serverVars, lost, unsure>>

\* What the page knows the contents of: the application compares with what is
\* chosen, the report with what is uploaded as well.
Known == form.files \cup (IF page = "close" THEN {c.file : c \in form.listed} ELSE {})

\* The file has been read: it is of a kind that is taken, and not a duplicate, or
\* it is turned away.
Hashed(f) ==
    /\ at = "form" /\ f \in form.checking
    /\ \E taken \in IF f \in Known THEN {{}} ELSE {{}, {f}} :
         form' = [form EXCEPT !.checking = @ \ {f}, !.files = @ \cup taken]
    /\ UNCHANGED <<page, at, busy, dialogs, saves, removals, serverVars, lost, unsure>>

Unchoose(f) ==
    /\ Editable /\ f \in form.files
    /\ form' = [form EXCEPT !.files = @ \ {f}, !.forgone = IF form.unsettled THEN @ \cup {f} ELSE @]
    /\ UNCHANGED <<page, at, busy, dialogs, saves, removals, serverVars, lost, unsure>>

Withdraw(c) ==
    /\ Editable /\ c \in form.listed
    /\ \A r \in removals : r.copy # c
    /\ removals' = removals \cup {[copy |-> c, target |-> form.target, wire |-> "sent"]}
    /\ UNCHANGED <<pageVars, saves, serverVars, lost, unsure>>

(***************************************************************************)
(* Saving.  A chain's first request, and the one after an answer.  "look"  *)
(* asks the server for what it has; files go pictures first.               *)
(***************************************************************************)
Request(by, target, text, todo, op, file) ==
    [by |-> by, new |-> form.target = 0, target |-> target, text |-> text, todo |-> todo, op |-> op,
     file |-> file, wire |-> "sent", seen |-> {}]

NextFile(todo) == CHOOSE f \in todo : todo \cap Photos # {} => f \in Photos

\* The request that follows once the row, or the report's text, is saved.
Onward(save, todo) ==
    IF todo # {} THEN [save EXCEPT !.op = "send", !.file = NextFile(todo), !.todo = todo, !.wire = "sent"]
    ELSE [save EXCEPT !.op = IF page = "close" /\ save.by = "draft" THEN "done" ELSE "submit",
                      !.file = None, !.todo = {}, !.wire = "sent"]

\* Mutant: a round begins without a look at what the server has.
UploadWithoutLook(save) == Onward(save, form.files)

\* A round of uploads that follows a failed one begins with a look.
Upload(save) ==
    IF form.unsettled THEN [save EXCEPT !.op = "look", !.wire = "sent"] ELSE Onward(save, form.files)

First(by, text, todo) ==
    CASE page = "apply" -> Request(by, form.target, text, todo, IF form.target = 0 THEN "create" ELSE "update", None)
      [] page = "close" /\ by = "draft" -> Request(by, form.target, text, {}, "text", None)
      [] page = "close" /\ by = "submit" -> Upload(Request(by, form.target, text, {}, "text", None))

Free(s) == saves[s] = None /\ \A z \in Slots : z < s => saves[z] # None

Start(by, text, todo) ==
    \E s \in Slots :
       /\ Free(s)
       /\ saves' = [saves EXCEPT ![s] = First(by, text, todo)]
       /\ busy' = IF at = "form" THEN by ELSE busy

\* A button that is held answers the keyboard's repeats until the dialog it opened
\* has the focus: hence at most one more of the same.
Held(by) == by \in HeldKeys /\ Len(dialogs) = 1 /\ dialogs[1].by = by

\* The application's draft leaves the chosen files behind, and asks first.
Confirmed(by) == by = "submit" \/ (page = "apply" /\ form.files # {})

\* What has been asked is remembered for the hand-in only.
Asking(by) == by = "submit" /\ \E i \in DOMAIN dialogs : dialogs[i].by = "submit"

\* An application is saved as it is unless it is empty; a report is handed in with
\* enough pictures, and saved in either way once its files have been looked at.
Complete(by) ==
    /\ form.text > 0
    /\ page = "close" => form.checking = {}
    /\ (page = "close" /\ by = "submit") => Cardinality(Known \cap Photos) >= MinPhotos

Press(by) ==
    /\ at = "form" /\ busy = None /\ (dialogs = <<>> \/ Held(by))
    /\ Complete(by)
    /\ ~Asking(by)
    /\ IF Confirmed(by)
       THEN /\ dialogs' = Append(dialogs, [by |-> by, text |-> form.text, todo |-> IF by = "submit" THEN form.files ELSE {}])
            /\ UNCHANGED <<saves, busy>>
       ELSE Start(by, form.text, {}) /\ UNCHANGED dialogs
    /\ UNCHANGED <<page, at, form, removals, serverVars, lost, unsure>>

\* The dialog that is answered, and the ones beneath it.
Top == dialogs[Len(dialogs)]
Below == SubSeq(dialogs, 1, Len(dialogs) - 1)

Confirm ==
    /\ dialogs # <<>>
    /\ Start(Top.by, Top.text, Top.todo)
    /\ dialogs' = Below
    /\ UNCHANGED <<page, at, form, removals, serverVars, lost, unsure>>

Cancel ==
    /\ dialogs # <<>>
    /\ dialogs' = Below
    /\ UNCHANGED <<page, at, form, busy, saves, removals, serverVars, lost, unsure>>

\* By the sidebar, once it has asked about what is not saved.
Leave ==
    /\ Open
    /\ at' = "away" /\ busy' = None
    /\ UNCHANGED <<page, form, dialogs, saves, removals, serverVars, lost, unsure>>

(***************************************************************************)
(* The server.                                                             *)
(***************************************************************************)
Duplicate(save) == save.file \in Photos /\ page = "close" /\ \E c \in rows[save.target].files : c.file = save.file

Refused(save) ==
    \/ save.op \in {"update", "text", "send", "submit"} /\ rows[save.target].status # "open"
    \/ save.op = "send" /\ (Duplicate(save) \/ Cardinality(rows[save.target].files) >= Room)
    \/ /\ save.op = "submit" /\ page = "close"
       /\ Cardinality({c \in rows[save.target].files : c.file \in Photos}) < MinPhotos

Copy(save) == [file |-> save.file, id |-> made + 1]

Effect(save) ==
    CASE save.op = "create" ->
           rows' = Append(rows, Row(save.text, save.by)) /\ UNCHANGED made
      [] save.op \in {"update", "text"} ->
           rows' = [rows EXCEPT ![save.target].text = save.text] /\ UNCHANGED made
      [] save.op = "send" ->
           /\ made < MaxMade /\ made' = made + 1
           /\ rows' = [rows EXCEPT ![save.target].files = @ \cup {Copy(save)}]
      [] save.op = "submit" ->
           /\ rows' = [rows EXCEPT ![save.target].status = "handed in",
                                   ![save.target].text = IF page = "close" THEN save.text ELSE @]
           /\ UNCHANGED made
      [] save.op = "look" -> UNCHANGED serverVars

Handle(s) ==
    /\ saves[s] # None /\ saves[s].wire = "sent" /\ saves[s].op # "done"
    /\ ~Refused(saves[s])
    /\ Effect(saves[s])
    /\ saves' = [saves EXCEPT ![s].wire = "handled",
                              ![s].target = IF saves[s].op = "create" THEN Len(rows) + 1 ELSE @,
                              ![s].seen = IF saves[s].op = "look" THEN rows[saves[s].target].files ELSE {}]
    /\ UNCHANGED <<pageVars, removals, lost, unsure>>

HandleRemoval(r) ==
    /\ r \in removals /\ r.wire = "sent" /\ rows[r.target].status = "open"
    /\ rows' = [rows EXCEPT ![r.target].files = @ \ {r.copy}]
    /\ removals' = (removals \ {r}) \cup {[r EXCEPT !.wire = "handled"]}
    /\ UNCHANGED <<pageVars, saves, made, lost, unsure>>

(***************************************************************************)
(* Answers.                                                                *)
(***************************************************************************)
Here == at = "form"

\* The application navigates wherever the user is by now; the report only if its
\* form is still there.
Arrive == IF page = "apply" \/ Here THEN "list" ELSE at

Succeed(s, shown) ==
    /\ saves' = [saves EXCEPT ![s] = None]
    /\ at' = Arrive /\ form' = shown
    /\ busy' = None /\ UNCHANGED dialogs

Proceed(s, next, shown) ==
    IF next.op = "done" THEN Succeed(s, shown)
    ELSE /\ saves' = [saves EXCEPT ![s] = next]
         /\ form' = shown
         /\ UNCHANGED <<at, busy, dialogs>>

\* The form as it is after an upload: the application forgets the file, the report
\* moves it among the uploaded.
Settled(save, copies) ==
    LET sent == {c.file : c \in copies}
    IN [form EXCEPT !.files = @ \ sent, !.listed = IF page = "close" THEN @ \cup copies ELSE @]

Matches(save) == {c \in save.seen : c.file \in form.files /\ \A d \in save.seen : d.file = c.file => c.id <= d.id}

Answer(s) ==
    /\ saves[s] # None /\ saves[s].wire = "handled"
    /\ LET save == saves[s]
       IN CASE save.op \in {"create", "update"} /\ save.by = "draft" -> Succeed(s, form)
            [] save.op \in {"create", "update"} /\ save.by = "submit" -> Proceed(s, Onward(save, save.todo), form)
            [] save.op = "text" -> Proceed(s, Upload(save), form)
            [] save.op = "look" ->
                 LET shown == [Settled(save, Matches(save)) EXCEPT !.unsettled = FALSE]
                 IN Proceed(s, Onward(save, shown.files), shown)
            [] save.op = "send" ->
                 Proceed(s, Onward(save, save.todo \ {save.file}),
                         Settled(save, {c \in rows[save.target].files : c.file = save.file}))
            [] save.op = "submit" -> Succeed(s, form)
    /\ UNCHANGED <<page, removals, serverVars, lost, unsure>>

\* The chain stops.  A new application whose row exists turns into the editing of
\* that row, which is a form of its own; a failed upload of the report is
\* remembered, so that the next round looks first.
Turns(save) == page = "apply" /\ save.op \in {"send", "submit"} /\ (save.new \/ save.op = "send")

Stop(s) ==
    LET save == saves[s] IN
    /\ saves' = [saves EXCEPT ![s] = None]
    /\ busy' = None
    /\ IF Turns(save) /\ (save.new \/ ~Here)
       THEN form' = Opened(save.target) /\ at' = "form"
       ELSE /\ form' = [form EXCEPT !.unsettled = @ \/ (page = "close" /\ save.op = "send")]
            /\ UNCHANGED at
    /\ UNCHANGED dialogs

Refuse(s) ==
    /\ saves[s] # None /\ saves[s].wire = "sent" /\ saves[s].op # "done"
    /\ Refused(saves[s]) \/ lost < MaxLost
    /\ lost' = IF Refused(saves[s]) THEN lost ELSE lost + 1
    /\ Stop(s)
    /\ UNCHANGED <<page, removals, serverVars, unsure>>

\* The server has acted, and its answer does not arrive.
Lose(s) ==
    /\ saves[s] # None /\ saves[s].wire = "handled" /\ lost < MaxLost
    /\ lost' = lost + 1
    /\ unsure' = IF saves[s].op = "create" THEN unsure + 1 ELSE unsure
    /\ Stop(s)
    /\ UNCHANGED <<page, removals, serverVars>>

\* A removal that fails, refused or before or after the server has acted, changes
\* nothing here.
AnswerRemoval(r) ==
    /\ r \in removals
    /\ removals' = removals \ {r}
    /\ \/ r.wire = "handled" /\ form' = [form EXCEPT !.listed = @ \ {r.copy}] /\ UNCHANGED lost
       \/ r.wire = "sent" /\ rows[r.target].status # "open" /\ UNCHANGED <<form, lost>>
       \/ lost < MaxLost /\ lost' = lost + 1 /\ UNCHANGED form
    /\ UNCHANGED <<page, at, busy, dialogs, saves, serverVars, unsure>>

Next ==
    \/ TypeApplication \/ TypeReport \/ Confirm \/ Cancel \/ Leave
    \/ \E f \in Files : Choose(f) \/ Hashed(f) \/ Unchoose(f)
    \/ \E c \in form.listed : Withdraw(c)
    \/ \E by \in {"draft", "submit"} : Press(by)
    \/ \E s \in Slots : Handle(s) \/ Answer(s) \/ Refuse(s) \/ Lose(s)
    \/ \E r \in removals : HandleRemoval(r) \/ AnswerRemoval(r)

Spec == Init /\ [][Next]_vars

(***************************************************************************)
(* Properties.                                                             *)
(***************************************************************************)
TypeOK ==
    /\ page \in {"apply", "close"} /\ at \in {"form", "list", "away"} /\ busy \in {"draft", "submit", None}
    /\ form.target \in 0 .. Len(rows) /\ form.text \in 0 .. MaxText /\ form.files \cup form.checking \subseteq Files
    /\ Len(dialogs) <= 2 /\ \A s \in Slots : saves[s] # None => saves[s].target \in 0 .. Len(rows)
    /\ made \in 0 .. MaxMade /\ lost \in 0 .. MaxLost /\ unsure \in 0 .. lost

\* Handing an application in makes one activity, however often it has to be pressed:
\* a failure after the row exists turns the form into the editing of that row, and a
\* held key opens no second confirmation.  Another row is made only when the answer
\* to the first creation never came.
SubmitCreatesOnce == Cardinality({i \in DOMAIN rows : rows[i].by = "submit"}) <= 1 + unsure

\* A form makes one activity, whichever button made it (claimed for the hand-in, where
\* the code says that a held Enter opens a second confirmation; the draft has one too).
FormCreatesOnce == Cardinality({i \in DOMAIN rows : rows[i].by # None}) <= 1 + unsure

Resent(s) ==
    /\ page = "close" /\ saves[s] # None /\ saves[s].op = "send" /\ saves[s].wire = "sent"
    /\ \E c \in rows[saves[s].target].files : c.file = saves[s].file

\* The report never sends a file the activity already holds, whatever was lost: one whose
\* answer did not arrive is found by the look that begins the next round.
SentOnce == \A s \in Slots : ~Resent(s)

\* The same of the files that stay on the form: the server would refuse a picture for
\* good, and keep a second copy of any other file.
KeptIsSentOnce == \A s \in Slots : Resent(s) => saves[s].file \in form.forgone

\* When the report's page closes itself, the server has all that it showed: the text as
\* last typed, and every file that was chosen.
ClosedIsSaved ==
    (page = "close" /\ at = "list") => rows[form.target].text = form.text /\ form.files = {} /\ form.checking = {}

(***************************************************************************)
(* The inductive invariant.                                                *)
(***************************************************************************)
\* A row is there, of a chain that has got past its creation.
HasRow(save) == save.target \in DOMAIN rows
Creates(save) == save.op = "create" /\ save.wire = "sent"

TypeInv ==
    /\ page \in {"apply", "close"} /\ at \in {"form", "list", "away"} /\ busy \in {"draft", "submit", None}
    /\ rows \in Seq(Rows)
    /\ form \in [target: 0 .. Len(rows), text: 0 .. MaxText, files: SUBSET Files, listed: SUBSET Copies,
                 checking: SUBSET Files, unsettled: BOOLEAN, forgone: SUBSET Files]
    /\ dialogs = <<>> \/ \E d \in [by: {"draft", "submit"}, text: 0 .. MaxText, todo: SUBSET Files] : dialogs = <<d>>
    /\ saves \in [Slots -> Chains \cup {None}]
    /\ removals \subseteq [copy: Copies, target: DOMAIN rows, wire: {"sent", "handled"}]
    /\ made \in 0 .. MaxMade /\ lost \in 0 .. MaxLost /\ unsure \in 0 .. lost
    /\ form.listed # {} => form.target \in DOMAIN rows

\* One chain runs at a time, under the form's eyes or without it, and none while the form
\* asks something; a page that was left for the list is done with.
ChainInv ==
    /\ saves[2] = None
    /\ busy # None <=> at = "form" /\ saves[1] # None
    /\ busy # None => busy = saves[1].by
    /\ dialogs # <<>> => at = "form" /\ saves[1] = None
    /\ at = "list" => saves[1] = None
    /\ saves[1] # None =>
         LET save == saves[1] IN
         /\ save.new <=> form.target = 0
         /\ save.op = "create" => save.new /\ page = "apply"
         /\ (Creates(save) /\ save.target = 0) \/ HasRow(save)
         /\ save.op = "update" => page = "apply" /\ ~save.new
         /\ save.op \in {"text", "look"} => page = "close"
         /\ page = "apply" /\ save.op \in {"send", "submit"} => save.by = "submit"
         /\ save.op = "send" => save.file \in save.todo
         /\ page = "close" /\ save.op = "text" => save.by = "draft"

ByHandIn == {i \in DOMAIN rows : rows[i].by = "submit"}

\* Unless the row has been made for the form as it is, the hand-in has made none that it does
\* not know of but those whose answer was lost.
MadeInv ==
    /\ Cardinality(ByHandIn) <= 1 + unsure
    /\ form.target = 0 /\ at # "list" /\ (saves[1] = None \/ Creates(saves[1])) => Cardinality(ByHandIn) <= unsure

\* The copies of the activity that the report's form is about.
Kept == rows[form.target].files
InFlight == saves[1] # None /\ saves[1].op = "send" /\ saves[1].wire = "handled"

\* Copies are numbered as they are made; a copy that is to be removed is listed, and gone
\* once the server has answered.
CopiesInv ==
    /\ \A i \in DOMAIN rows : \A c \in rows[i].files : c.id <= made
    /\ \A c \in form.listed : c.id <= made
    /\ \A r \in removals :
         /\ r.copy.id <= made /\ r.target = form.target /\ r.copy \in form.listed
         /\ r.wire = "handled" => r.copy \notin rows[r.target].files
         /\ \A q \in removals : q.copy = r.copy => q = r

\* The report's form knows of every copy the server has, but for the ones of files that were
\* given up, and of the one upload whose answer it waits for, or did not get.
ReportInv ==
    /\ form.target \in DOMAIN rows
    /\ \A c \in form.listed : c.file \notin form.files
    /\ \A c \in Kept : \/ c \in form.listed \/ c.file \in form.forgone
                       \/ c.file \in form.files /\ (form.unsettled \/ (InFlight /\ c.file = saves[1].file))
    /\ \A c, d \in Kept : c.file = d.file /\ c # d => c.file \in form.forgone
    /\ dialogs # <<>> => form.checking = {} /\ dialogs[1].text = form.text
    /\ saves[1] # None =>
         LET save == saves[1] IN
         /\ form.checking = {} /\ save.text = form.text /\ save.target = form.target
         /\ save.op \in {"send", "submit"} => ~form.unsettled /\ save.todo = form.files
         /\ save.op = "submit" => save.by = "submit" /\ form.files = {}
         /\ save.by = "draft" /\ (save.op # "text" \/ save.wire = "handled") => rows[save.target].text = save.text
         /\ save.op = "submit" /\ save.wire = "handled" => rows[save.target].text = save.text
         /\ save.op = "look" /\ save.wire = "handled" =>
              /\ Kept \subseteq save.seen /\ \A c \in save.seen : c.id <= made
              /\ \A c, d \in save.seen : c.file = d.file /\ c # d => c.file \in form.forgone
         /\ InFlight => \E c \in Kept : c.file = save.file /\ \A r \in removals : r.copy # c

Inv ==
    /\ TypeInv /\ ChainInv /\ MadeInv
    /\ page = "close" => CopiesInv /\ ReportInv /\ ClosedIsSaved
=============================================================================
