------------------------------ MODULE ReviewDesk ------------------------------
(***************************************************************************)
(* One reviewer's window on one activity, in the browser: the page that    *)
(* signs applications or the one that signs closing reports.  The window   *)
(* opens at once on the row of a list that may be old, then shows the      *)
(* detail the cache holds, which may be old as well, then the one the      *)
(* server answers; what the reviewer may edit is seeded once, from         *)
(* whichever came first.  Colleagues sign, and the club resubmits, in the  *)
(* meantime.  The activity has one budget line.                            *)
(***************************************************************************)
EXTENDS Naturals, FiniteSets

CONSTANTS
    Keys,       \* the stages the reviewer's account may sign
    Checks,     \* what a closing report is confirmed for
    MaxAsked,   \* most that is asked for
    MaxTurns,   \* bound: steps of the others
    MaxOpened,  \* bound: windows opened
    MaxEdits,   \* bound: things typed or ticked in one window
    MaxOut,     \* bound: requests that are not answered
    None

\* Of the constants; assumed where they are given values.
ReviewAssumption ==
    /\ Keys \subseteq {"advisor", "chief", "dean"} /\ IsFiniteSet(Checks)
    /\ MaxAsked \in Nat /\ MaxTurns \in Nat /\ MaxOpened \in Nat /\ MaxEdits \in Nat /\ MaxOut \in Nat /\ None \notin Nat

VARIABLES
    page,    \* "apply" or "close"
    row,     \* the server's activity
    signer,  \* who signed the stage before last: "me", "other", or None
    turns,
    listed,  \* the row the list shows
    cache,   \* the detail the cache holds, or None
    fetch,   \* the query of the detail: at "idle", "failed", "sent" or "served", and the detail on its way
    window,  \* the window, or None once it is gone
    opened,  \* how many windows have been opened
    out      \* requests that are not answered

clientVars == <<listed, cache, fetch, window, opened>>
vars == <<page, row, signer, turns, clientVars, out>>

Stages == {"advisor", "chief", "dean"}
StageOf(status) == CASE status = "pending_advisor" -> "advisor" [] status = "pending_chief" -> "chief"
                     [] status = "pending_dean" -> "dean" [] OTHER -> None
Pending == {"pending_advisor", "pending_chief", "pending_dean"}
NextStatus(status) == CASE status = "pending_advisor" -> "pending_chief"
                        [] status = "pending_chief" -> "pending_dean" [] OTHER -> "approved"

Fetch(at) == [at |-> at, detail |-> None]

\* An activity as a window may first meet it.  "item" is its budget line, told apart
\* from the one before; "report", "full" and "flags" are the closing report, what it
\* holds, and what is confirmed of it.
Activities ==
    [status: {"pending_advisor", "pending_chief", "closing_pending"}, item: {0}, asked: 0 .. MaxAsked,
     granted: {None} \cup 0 .. MaxAsked, fund: {""}, note: {""}, large: {FALSE}, report: {0},
     full: SUBSET Checks, flags: SUBSET Checks]

\* An application fresh or migrated, waiting for its first or its second stage; or
\* a closing report, whose confirmations hold unless the old system says otherwise.
Init ==
    /\ page \in {"apply", "close"}
    /\ row \in Activities
    /\ page = "apply" => row.status \in Pending /\ row.full = {} /\ row.flags = Checks
                         /\ (row.status = "pending_chief" => row.granted # None)
    /\ page = "close" => row.status = "closing_pending" /\ row.asked = 0 /\ row.granted = 0
    /\ signer = None /\ turns = 0
    /\ listed = row /\ cache \in {None, row} /\ fetch = Fetch("idle") /\ window = None /\ opened = 0 /\ out = {}

(***************************************************************************)
(* What the server does with a signature; the rest of an activity's life   *)
(* on the server is ActivityWorkflow's.                                    *)
(***************************************************************************)
Settles(granted, status) == IF granted = 0 THEN "approved" ELSE NextStatus(status)

\* Signed by another: the first stage decides on everything, and any writes a note.
ColleagueApproves ==
    /\ row.status \in Pending
    /\ \E g \in 0 .. row.asked, large \in BOOLEAN :
         LET first == row.status = "pending_advisor"
             granted == IF first THEN g ELSE row.granted IN
         row' = [row EXCEPT !.granted = granted, !.note = "theirs", !.large = IF first THEN large ELSE @,
                            !.fund = IF first /\ g > 0 THEN "typed" ELSE @,
                            !.status = Settles(granted, row.status)]
    /\ signer' = "other"

ColleagueRejects ==
    /\ row.status \in Pending
    /\ row' = [row EXCEPT !.status = "rejected"] /\ UNCHANGED signer

\* The amounts go, with the lines they were on, and so does the source; the
\* recognition as a large activity stays.
ClubResubmits ==
    /\ row.status = "rejected"
    /\ \E asked \in 0 .. MaxAsked :
         row' = [row EXCEPT !.status = "pending_advisor", !.item = @ + 1, !.asked = asked, !.granted = None, !.fund = ""]
    /\ UNCHANGED signer

ColleagueCloses ==
    /\ row.status = "closing_pending"
    /\ \/ row' = [row EXCEPT !.status = "approved"]
       \/ \E flags \in SUBSET Checks : row' = [row EXCEPT !.status = "closed", !.flags = flags]
    /\ UNCHANGED signer

ClubReports ==
    /\ page = "close" /\ row.status = "approved"
    /\ \E full \in SUBSET Checks : row' = [row EXCEPT !.status = "closing_pending", !.report = @ + 1, !.full = full]
    /\ UNCHANGED signer

Others ==
    /\ turns < MaxTurns /\ turns' = turns + 1
    /\ ColleagueApproves \/ ColleagueRejects \/ ClubResubmits \/ ColleagueCloses \/ ClubReports
    /\ UNCHANGED <<page, clientVars, out>>

(***************************************************************************)
(* The window.  It shows the detail if there is one, the row it was        *)
(* opened on if not.                                                       *)
(***************************************************************************)
Item == IF cache # None THEN cache ELSE window.row
Detailed == cache # None

Prefill(item) == IF item.granted = None THEN item.asked ELSE item.granted
SeedFund(item) == IF item.fund # "" THEN item.fund ELSE IF item.asked > 0 THEN "school" ELSE ""

\* What a window is given to edit, once; and (recorded, in "since") the oldest report
\* its query may answer with, which a query that is under way already has chosen.
Seeded(old, item) ==
    [row |-> old, open |-> TRUE, large |-> item.large, fund |-> SeedFund(item), fundTouched |-> FALSE, note |-> item.note,
     noteTouched |-> FALSE, override |-> [c \in Checks |-> None], amount |-> None, submitting |-> FALSE, rejecting |-> FALSE, edits |-> 0,
     since |-> IF fetch.at = "served" THEN fetch.detail.report ELSE row.report, id |-> opened + 1]

\* The amounts wait for the detail.
Amount(item) == IF window.amount # None /\ window.amount.item = item.item THEN window.amount.value ELSE Prefill(item)

CanActOn(status) ==
    LET stage == StageOf(status) IN
    IF "dean" \in Keys THEN stage = "dean" ELSE stage \in Keys
CanReview == page = "apply" /\ CanActOn(Item.status)
CanCloseReview == page = "close" /\ Item.status = "closing_pending"
CanEdit == CanReview /\ Item.status = "pending_advisor"

Showing == window # None /\ window.open

\* The page shows what waits for the reviewer, and what does not for reading.
OpenRow ==
    /\ ~Showing
    /\ opened < MaxOpened
    /\ opened' = opened + 1
    /\ window' = IF window # None THEN [window EXCEPT !.row = listed, !.open = TRUE]   \* still closing: the same one
                 ELSE Seeded(listed, IF cache # None THEN cache ELSE listed)
    /\ fetch' = IF window = None /\ fetch.at \in {"idle", "failed"} THEN Fetch("sent") ELSE fetch
    /\ UNCHANGED <<page, row, signer, turns, listed, cache, out>>

Close ==
    /\ Showing
    /\ window' = [window EXCEPT !.open = FALSE]
    /\ UNCHANGED <<page, row, signer, turns, listed, cache, fetch, opened, out>>

\* The closing animation is over.
AfterClose ==
    /\ window # None /\ ~window.open
    /\ window' = None
    /\ UNCHANGED <<page, row, signer, turns, listed, cache, fetch, opened, out>>

\* The cache forgets what nothing shows.
Forget ==
    /\ window = None /\ cache # None
    /\ cache' = None
    /\ UNCHANGED <<page, row, signer, turns, listed, fetch, window, opened, out>>

LoadList ==
    /\ listed # row /\ listed' = row
    /\ UNCHANGED <<page, row, signer, turns, cache, fetch, window, opened, out>>

Served ==
    /\ fetch.at = "sent" /\ row.status # "gone"
    /\ fetch' = [at |-> "served", detail |-> row]
    /\ UNCHANGED <<page, row, signer, turns, listed, cache, window, opened, out>>

DetailArrives ==
    /\ fetch.at = "served"
    /\ cache' = fetch.detail /\ fetch' = Fetch("idle")
    /\ UNCHANGED <<page, row, signer, turns, listed, window, opened, out>>

\* What the cache holds stays, and the query is in error.
DetailFails ==
    /\ fetch.at \in {"sent", "served"}
    /\ fetch' = Fetch("failed")
    /\ UNCHANGED <<page, row, signer, turns, listed, cache, window, opened, out>>

RetryDetail ==
    /\ fetch.at = "failed" /\ Showing
    /\ fetch' = Fetch("sent")
    /\ UNCHANGED <<page, row, signer, turns, listed, cache, window, opened, out>>

Edit(w) ==
    /\ Showing /\ ~window.rejecting /\ window.edits < MaxEdits
    /\ window' = [w EXCEPT !.edits = @ + 1]
    /\ UNCHANGED <<page, row, signer, turns, listed, cache, fetch, opened, out>>

\* Any stage may write the note; the rest is the first stage's.
WriteNote == window # None /\ CanReview /\ Edit([window EXCEPT !.note = "mine", !.noteTouched = TRUE])
TypeFund == window # None /\ CanEdit /\ Item.asked > 0 /\ Edit([window EXCEPT !.fund = "typed", !.fundTouched = TRUE])
TickLarge == window # None /\ CanEdit /\ Edit([window EXCEPT !.large = ~@])
TypeAmount ==
    /\ window # None /\ CanEdit /\ Detailed /\ Item.asked > 0
    /\ \E v \in 0 .. Item.asked : Edit([window EXCEPT !.amount = [item |-> Item.item, value |-> v]])
TickCheck ==
    /\ window # None /\ CanCloseReview
    /\ \E c \in Checks, b \in BOOLEAN : Edit([window EXCEPT !.override[c] = b])

\* Unless the reviewer has said otherwise, what is confirmed already and amounts to
\* what is asked for.
Confirmed == {c \in Checks : IF window.override[c] # None THEN window.override[c] ELSE c \in Item.flags \cap Item.full}

(***************************************************************************)
(* The requests, and what the server does with them.                       *)
(***************************************************************************)
Send(request) ==
    /\ Cardinality(out) < MaxOut
    /\ out' = out \cup {request}
    /\ window' = [window EXCEPT !.submitting = TRUE]
    /\ UNCHANGED <<page, row, signer, turns, listed, cache, fetch, opened>>

Request(op) == [op |-> op, id |-> window.id, wire |-> "sent", note |-> None, fund |-> "", item |-> None, amount |-> None, large |-> None,
                flags |-> {}, noted |-> window.noteTouched, judged |-> Item.report, since |-> window.since,
                shown |-> IF Detailed THEN Amount(Item) ELSE None, stage |-> StageOf(Item.status)]

AtMost(amount, asked) == IF amount > asked THEN asked ELSE amount

\* Not above what is asked for, which a migrated amount may be.
Granted == AtMost(Amount(Item), Item.asked)

\* Nothing granted names no source, unless the reviewer typed one.
Source == IF Granted > 0 \/ window.fundTouched THEN window.fund ELSE Item.fund

NoteSent == IF window.noteTouched THEN window.note ELSE None

\* The page goes by the status of the row it opened the window on.
Payload ==
    IF window.row.status = "pending_advisor"
    THEN [Request("approve") EXCEPT !.note = NoteSent, !.fund = Source, !.item = Item.item, !.amount = Granted, !.large = window.large]
    ELSE [Request("approve") EXCEPT !.note = NoteSent]

Approve ==
    /\ Showing /\ ~window.rejecting /\ ~window.submitting
    /\ CanReview /\ Detailed
    /\ Item.status = "pending_advisor" /\ Granted > 0 => window.fund # ""
    /\ Send(Payload)

\* Mutant: a detail being loaded again counts as the last one.
StaleIsAnError == fetch.at = "failed"

\* What is shown must be what the server has just answered.
Stale == fetch.at # "idle"

ApproveClose ==
    /\ Showing /\ ~window.rejecting /\ ~window.submitting
    /\ CanCloseReview /\ Detailed /\ ~Stale
    /\ Send([Request("close_approve") EXCEPT !.flags = Confirmed])

AskReject ==
    /\ Showing /\ (CanReview \/ CanCloseReview) /\ ~window.submitting /\ ~window.rejecting
    /\ window' = [window EXCEPT !.rejecting = TRUE]
    /\ UNCHANGED <<page, row, signer, turns, listed, cache, fetch, opened, out>>

CancelReject ==
    /\ window # None /\ window.rejecting
    /\ window' = [window EXCEPT !.rejecting = FALSE]
    /\ UNCHANGED <<page, row, signer, turns, listed, cache, fetch, opened, out>>

Reject ==
    /\ window # None /\ window.rejecting /\ ~window.submitting
    /\ Send(Request(IF CanCloseReview THEN "close_reject" ELSE "reject"))

Delete ==
    /\ Showing /\ ~window.rejecting /\ Cardinality(out) < MaxOut
    /\ out' = out \cup {Request("delete")}
    /\ UNCHANGED <<page, row, signer, turns, clientVars>>

\* Mutant: a line is not told apart from the one it replaced.
FirstStageOfAnyLine(r) ==
    LET granted == IF row.asked = 0 THEN 0 ELSE IF r.amount # None THEN r.amount ELSE row.granted
        fund == IF r.fund # "" THEN r.fund ELSE row.fund IN
    /\ r.item # None => r.amount <= row.asked
    /\ granted # None
    /\ granted > 0 => fund # ""
    /\ row' = [row EXCEPT !.granted = granted, !.fund = fund, !.note = IF r.note # None THEN r.note ELSE @,
                          !.large = r.large = TRUE, !.status = Settles(granted, row.status)]

\* The server's first stage: a line it does not have, a line left without an amount
\* and money without a source are refused.
FirstStage(r) ==
    LET granted == IF row.asked = 0 THEN 0 ELSE IF r.amount # None THEN r.amount ELSE row.granted
        fund == IF r.fund # "" THEN r.fund ELSE row.fund IN
    /\ r.item # None => r.item = row.item /\ r.amount <= row.asked
    /\ granted # None
    /\ granted > 0 => fund # ""
    /\ row' = [row EXCEPT !.granted = granted, !.fund = fund, !.note = IF r.note # None THEN r.note ELSE @,
                          !.large = r.large = TRUE, !.status = Settles(granted, row.status)]

LaterStage(r) ==
    /\ signer # "me"
    /\ row' = [row EXCEPT !.note = IF r.note # None THEN r.note ELSE @, !.large = IF r.large # None THEN r.large ELSE @,
                          !.status = Settles(row.granted, row.status)]

Accepts(r) ==
    CASE r.op = "approve" ->
           /\ StageOf(row.status) \in Keys
           /\ IF row.status = "pending_advisor" THEN FirstStage(r) ELSE LaterStage(r)
           /\ signer' = "me"
      [] r.op = "reject" -> StageOf(row.status) \in Keys /\ row' = [row EXCEPT !.status = "rejected"] /\ UNCHANGED signer
      [] r.op = "close_approve" ->
           row.status = "closing_pending" /\ row' = [row EXCEPT !.status = "closed", !.flags = r.flags] /\ UNCHANGED signer
      [] r.op = "close_reject" -> row.status = "closing_pending" /\ row' = [row EXCEPT !.status = "approved"] /\ UNCHANGED signer
      [] r.op = "delete" -> row.status # "gone" /\ row' = [row EXCEPT !.status = "gone"] /\ UNCHANGED signer

Waiting(r) == r \in out /\ r.wire = "sent"
Answered(r, wire) == out' = (out \ {r}) \cup {[r EXCEPT !.wire = wire]} /\ UNCHANGED <<page, turns, clientVars>>

Handle(r) == Waiting(r) /\ Accepts(r) /\ Answered(r, "ok")

\* What it refuses it leaves as it was; a request may also be lost on its way.
Refuse(r) == Waiting(r) /\ Answered(r, "no") /\ UNCHANGED <<row, signer>>

\* Success closes the window there is, and has what is shown loaded again; the
\* window that asked is free again either way.
Answer(r) ==
    /\ r \in out /\ r.wire # "sent"
    /\ out' = out \ {r}
    /\ window' = IF window = None THEN None
                 ELSE [window EXCEPT !.open = @ /\ r.wire = "no",
                                     !.submitting = @ /\ (r.op = "delete" \/ window.id # r.id),
                                     !.rejecting = IF window.id = r.id /\ r.wire = "ok" THEN FALSE ELSE @]
    /\ fetch' = IF r.wire = "ok" /\ window # None THEN Fetch("sent") ELSE fetch
    /\ UNCHANGED <<page, row, signer, turns, listed, cache, opened>>

Requests == \E r \in out : Handle(r) \/ Refuse(r) \/ Answer(r)

Next ==
    \/ Others \/ OpenRow \/ Close \/ AfterClose \/ Forget \/ LoadList
    \/ Served \/ DetailArrives \/ DetailFails \/ RetryDetail
    \/ WriteNote \/ TypeFund \/ TickLarge \/ TypeAmount \/ TickCheck
    \/ Approve \/ ApproveClose \/ AskReject \/ CancelReject \/ Reject \/ Delete
    \/ Requests

Spec == Init /\ [][Next]_vars

(***************************************************************************)
(* What makes it hold.                                                     *)
(***************************************************************************)
Statuses == Pending \cup {"rejected", "approved", "closing_pending", "closed", "gone"}
Amounts == 0 .. MaxAsked
Funds == {"", "school", "typed"}
Notes == {"", "theirs", "mine"}
Rows ==
    [status: Statuses, item: Nat, asked: Amounts, granted: {None} \cup Amounts, fund: Funds, note: Notes, large: BOOLEAN,
     report: Nat, full: SUBSET Checks, flags: SUBSET Checks]
Windows ==
    [row: Rows, open: BOOLEAN, large: BOOLEAN, fund: Funds, fundTouched: BOOLEAN, note: Notes, noteTouched: BOOLEAN,
     override: [Checks -> BOOLEAN \cup {None}], amount: {None} \cup [item: Nat, value: Amounts],
     submitting: BOOLEAN, rejecting: BOOLEAN, edits: Nat, since: Nat, id: Nat]
Sendable ==
    [op: {"approve", "reject", "close_approve", "close_reject", "delete"}, id: Nat, wire: {"sent", "ok", "no"},
     note: Notes \cup {None}, fund: Funds, item: Nat \cup {None}, amount: Amounts \cup {None}, large: BOOLEAN \cup {None},
     flags: SUBSET Checks, noted: BOOLEAN, judged: Nat, since: Nat, shown: Amounts \cup {None}, stage: Stages \cup {None}]

TypeInv ==
    /\ page \in {"apply", "close"} /\ row \in Rows /\ listed \in Rows /\ cache \in Rows \cup {None}
    /\ fetch \in [at: {"idle", "failed", "sent", "served"}, detail: Rows \cup {None}]
    /\ window # None => window \in Windows
    /\ opened \in Nat /\ turns \in Nat /\ out \subseteq Sendable

\* A copy of the row, of any age: a line is never changed but for a new one, and before
\* the first stage has decided on a line every copy with it says so.
Copy(x) ==
    /\ x \in Rows /\ x.report <= row.report /\ x.item <= row.item
    /\ x.item = row.item => x.asked = row.asked
    /\ x.item = row.item /\ row.status = "pending_advisor" => x.status = "pending_advisor" /\ x.fund = ""

CopiesInv ==
    /\ row.status = "pending_advisor" => row.fund = "" /\ (row.granted # None => row.item = 0)
    /\ row.fund = "school" => row.granted # None /\ row.granted > 0
    /\ Copy(listed) /\ (cache # None => Copy(cache)) /\ (fetch.at = "served" => Copy(fetch.detail))
    /\ window # None => Copy(window.row)

\* What is shown or on its way is not older than the window, unless the query has failed.
FreshInv ==
    window # None => /\ window.since <= row.report
                     /\ fetch.at = "served" => window.since <= fetch.detail.report
                     /\ fetch.at = "idle" /\ cache # None => window.since <= cache.report

\* What is sent is about the line that was shown, or about none where it can do nothing.
Sound(r) ==
    /\ r.op = "close_approve" => r.judged >= r.since
    /\ r.note # None => r.noted
    /\ r.op = "approve" /\ r.item = None =>
         r.amount = None /\ r.fund = "" /\ (row.status # "pending_advisor" \/ row.granted = None)
    /\ r.op = "approve" /\ r.item # None =>
         /\ r.item <= row.item /\ {r.amount, r.shown} \subseteq Amounts
         /\ r.item = row.item => r.amount = AtMost(r.shown, row.asked)
         /\ r.item = row.item /\ row.status = "pending_advisor" /\ r.fund = "school" => r.amount > 0

\* A window has one request under way but for deletions.
OneInv ==
    /\ \A r \in out : r.id <= opened
    /\ window # None => window.id <= opened /\ (window.fundTouched => window.fund = "typed")
    /\ \A r \in out : r.op # "delete" /\ window # None /\ r.id = window.id => window.submitting
    /\ \A r, q \in out : r.op # "delete" /\ q.op # "delete" /\ r.id = q.id => r = q

Inv == TypeInv /\ CopiesInv /\ FreshInv /\ (\A r \in out : Sound(r)) /\ OneInv

(***************************************************************************)
(* What must hold.                                                         *)
(***************************************************************************)
Applied(r) == r \in out /\ r \notin out' /\ [r EXCEPT !.wire = "ok"] \in out'

\* A note another stage has written is only replaced by a note the reviewer has
\* typed, however old the copy the window was seeded from.
WritesNote ==
    \A r \in out : Applied(r) /\ row'.note # row.note => r.noted

\* A first signature grants the amount the window showed for the line there is: not
\* one for a line the club has since replaced; and what it asks for, where a migrated
\* amount is above that (ActivityReviewModal.tsx: submitApprove).
GrantsAsShown ==
    \A r \in out : Applied(r) /\ r.op = "approve" /\ row.status = "pending_advisor" /\ row.asked > 0
                      => r.item = row.item /\ row'.granted = AtMost(r.shown, row.asked)

\* The confirmations of a closing report, which nothing can change afterwards, were
\* derived from a report that was answered after the window was opened, not from the
\* one the cache had kept.
CloseIsJudgedFresh == \A r \in out : r.op = "close_approve" => r.judged >= r.since

\* The source that is prefilled is only recorded for an activity that is given money.
ZeroNamesNoSource == row.fund = "school" => row.granted # None /\ row.granted > 0

\* "Only the first stage sends what it grants; the later ones pass with an empty body"
\* (ReviewPage.tsx): the signature of a later stage leaves the recognition alone.
KeepsLarge ==
    \A r \in out : Applied(r) /\ r.op = "approve" /\ r.stage # "advisor" /\ row.status # "pending_advisor"
                      => row'.large = row.large
===============================================================================
