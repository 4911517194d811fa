--------------------------- MODULE ActivityWorkflow ---------------------------
(***************************************************************************)
(* The life of one activity: the club drafts it, asks for approval, the    *)
(* office signs it in up to three stages, and after the event the club     *)
(* hands in a closing report.  A club's request first loads the whole row  *)
(* without a lock (Load), then locks the row and reads its status again;   *)
(* everything else it decides on is as old as the load, and only columns   *)
(* it assigns a value other than the loaded one are written.  The office   *)
(* loads under the row lock, so each of its handlers is one step.          *)
(***************************************************************************)
EXTENDS Integers, Sequences, FiniteSets

CONSTANTS
    Staff,
    Keys,        \* the keys each of them holds: stages, "close"; super holds all but "dean"
    Txn,         \* concurrent requests of the club
    Bodies,      \* the forms the club sends
    MaxAmount,   \* the most that is asked for one budget item (bound)
    MinPhotos,   \* photos a closing report needs
    MaxPhotos,   \* photos a club uploads (bound)
    LockDays,    \* the setting close_lock_days
    MaxDay,      \* the clock stops on this day (bound)
    MaxSaves,    \* times the form is saved (bound)
    MaxRecords,  \* approval records after which nothing more is handed in (bound)
    NoLoad       \* a transaction that has loaded nothing

Stage == {"advisor", "chief", "dean"}
Pending == {"pending_advisor", "pending_chief", "pending_dean"}
Settled == {"approved", "closing", "closed"}
Editable == {"draft", "rejected"}
Status == {"none", "deleted"} \cup Editable \cup Pending \cup Settled

Undecided == -1       \* approved_subsidy is NULL
Amount == 0 .. MaxAmount
Item == [id : Nat \X (Nat \ {0}), requested : Amount, granted : Amount \cup {Undecided}]

\* date and last: 0 for NULL, and then name or location may be blank too;
\* staffed: the times, the duties and the numbers are filled in.
Day == 0 .. MaxDay
Form == [date : Day, last : Day, staffed : BOOLEAN, event : BOOLEAN, large : BOOLEAN]
Body == {b \in [form : Form, asked : Seq(Amount)] : /\ b.form.date <= b.form.last
                                                    /\ b.form.date = 0 => b.form.last = 0
                                                    /\ b.form.large => b.form.event}
Blank == [date |-> 0, last |-> 0, staffed |-> FALSE, event |-> FALSE, large |-> FALSE]

ASSUME BodyAssumption == Bodies \subseteq Body
ASSUME KeyAssumption == Keys \in [Staff -> SUBSET (Stage \cup {"close"})]
ASSUME NumberAssumption == /\ MaxDay \in Nat \ {0} /\ MaxAmount \in Nat /\ MaxSaves \in Nat
                           /\ MaxRecords \in Nat /\ LockDays \in Nat
                           /\ MinPhotos \in Nat /\ MaxPhotos \in Nat

Record == [stage : Stage \cup {"close"}, decision : {"approve", "reject", "unlock"}, actor : Staff]
Snapshot == [form : Form, items : SUBSET Item, largeOk : {"null", "yes", "no"}, fund : BOOLEAN,
             unlocked : BOOLEAN, report : Day, draft : BOOLEAN]
ASSUME SnapshotAssumption == NoLoad \notin Snapshot

VARIABLES
    today,
    status,
    form,      \* the columns of the form
    items,     \* the rows of activity_budget_items
    largeOk,   \* is_large_approved
    fund,      \* fund_source is filled in
    unlocked,  \* close_unlocked
    report,    \* the day the closing report was handed in, 0 without one
    draft,     \* close_draft is not NULL
    photos,    \* how many there are
    trail,     \* the approval_records, oldest first
    saves,     \* how often the form was saved
    loaded     \* what each transaction has loaded

rowVars == <<status, form, items, largeOk, fund, unlocked, report, draft, photos, trail, saves>>
vars == <<today, rowVars, loaded>>

TypeOK ==
    /\ today \in 1 .. MaxDay
    /\ status \in Status
    /\ form \in Form
    /\ items \in SUBSET Item
    /\ largeOk \in {"null", "yes", "no"}
    /\ fund \in BOOLEAN /\ unlocked \in BOOLEAN /\ draft \in BOOLEAN
    /\ report \in Day
    /\ photos \in 0 .. MaxPhotos
    /\ trail \in Seq(Record)
    /\ saves \in 0 .. MaxSaves
    /\ loaded \in [Txn -> Snapshot \cup {NoLoad}]

-----------------------------------------------------------------------------
(* Rules shared by the handlers *)

\* _require_complete
Complete(f) == f.date # 0 /\ f.staffed

\* SQLAlchemy writes a column whose new value differs from the loaded one.
Written(new, old, current) == IF new # old THEN new ELSE current
WrittenForm(new, old) ==
    [date |-> Written(new.date, old.date, form.date),
     last |-> Written(new.last, old.last, form.last),
     staffed |-> Written(new.staffed, old.staffed, form.staffed),
     event |-> Written(new.event, old.event, form.event),
     large |-> Written(new.large, old.large, form.large)]

NewItems(b) ==
    {[id |-> <<saves + 1, n>>, requested |-> b.asked[n], granted |-> Undecided] : n \in DOMAIN b.asked}

Ids(is) == {i.id : i \in is}
Decided(is) == {i \in is : i.granted # Undecided}

\* end_datetime and is_close_locked: the last day is over, and LockDays more.
Ended(last) == today > last
Overdue(last) == today > last + LockDays

StageOf(s) == CASE s = "pending_advisor" -> "advisor"
                [] s = "pending_chief" -> "chief"
                [] s = "pending_dean" -> "dean"

MayClose(u) == Keys[u] \cap {"close", "advisor"} # {}

\* Mutant: the first instead of the last of the records.
FirstSigner(stage) ==
    LET signatures == {n \in DOMAIN trail : trail[n].stage = stage /\ trail[n].decision = "approve"}
    IN  {trail[n].actor : n \in {m \in signatures : \A k \in signatures : m <= k}}

\* The last of the records that approve a stage.
LastSigner(stage) ==
    LET signatures == {n \in DOMAIN trail : trail[n].stage = stage /\ trail[n].decision = "approve"}
    IN  {trail[n].actor : n \in {m \in signatures : \A k \in signatures : k <= m}}

\* _require_different_actor
DifferentActor(u, stage) ==
    /\ stage = "chief" => u \notin LastSigner("advisor")
    /\ stage = "dean" => u \notin LastSigner("chief")

\* Mutant: one item for which nothing is granted is enough.
SomeNotGranted(is) == \E i \in is : i.granted = 0

\* Nothing granted: the later stages have nothing to decide.
NothingGranted(is) == \A i \in is : i.granted = 0

AfterSigning(stage, is) ==
    IF NothingGranted(is) THEN "approved"
    ELSE CASE stage = "advisor" -> "pending_chief"
           [] stage = "chief" -> "pending_dean"
           [] stage = "dean" -> "approved"

Exists == status \notin {"none", "deleted"}

-----------------------------------------------------------------------------
(* The club *)

CreateActivity(b) ==
    /\ status = "none" /\ saves < MaxSaves
    /\ status' = "draft"
    /\ form' = b.form
    /\ items' = NewItems(b)
    /\ saves' = saves + 1
    /\ UNCHANGED <<today, largeOk, fund, unlocked, report, draft, photos, trail, loaded>>

\* get_own_activity: the row as it is now, without a lock.
Load(t) ==
    /\ loaded[t] = NoLoad /\ Exists
    /\ loaded' = [loaded EXCEPT ![t] =
          [form |-> form, items |-> items, largeOk |-> largeOk, fund |-> fund,
           unlocked |-> unlocked, report |-> report, draft |-> draft]]
    /\ UNCHANGED <<today, rowVars>>

\* The row lock and the fresh status; what follows is the end of the request.
Locked(t) ==
    /\ loaded[t] # NoLoad /\ Exists
    /\ loaded' = [loaded EXCEPT ![t] = NoLoad]

\* A check fails, the row is gone, or the connection breaks: nothing is written.
Rollback(t) ==
    /\ loaded[t] # NoLoad
    /\ loaded' = [loaded EXCEPT ![t] = NoLoad]
    /\ UNCHANGED <<today, rowVars>>

\* A refused activity is not moved to an earlier day that is past.
MovedBack(old, new) == old # 0 /\ new < old /\ new <= today

\* Mutant: the status is not read again under the lock.
SaveFormLate(t, b) ==
    /\ Locked(t)
    /\ saves < MaxSaves
    /\ form' = WrittenForm(b.form, loaded[t].form)
    /\ items' = {i \in items : i.id \notin Ids(loaded[t].items)} \cup NewItems(b)
    /\ saves' = saves + 1
    /\ UNCHANGED <<today, status, largeOk, fund, unlocked, report, draft, photos, trail>>

SaveForm(t, b) ==
    /\ Locked(t)
    /\ status \in Editable /\ saves < MaxSaves
    /\ status = "rejected" => Complete(b.form) /\ ~MovedBack(loaded[t].form.date, b.form.date)
    /\ form' = WrittenForm(b.form, loaded[t].form)
    /\ largeOk' = IF b.form.large # loaded[t].form.large
                  THEN Written("null", loaded[t].largeOk, largeOk) ELSE largeOk
    /\ items' = {i \in items : i.id \notin Ids(loaded[t].items)} \cup NewItems(b)
    /\ saves' = saves + 1
    /\ UNCHANGED <<today, status, fund, unlocked, report, draft, photos, trail>>

\* The grants and the source of the previous round are cleared where the
\* loaded row has them; an item with a grant that is gone fails the flush.
SubmitActivity(t) ==
    /\ Locked(t)
    /\ status \in Editable /\ Len(trail) < MaxRecords
    /\ Complete(loaded[t].form)
    /\ status = "draft" => loaded[t].form.date > today
    /\ Ids(Decided(loaded[t].items)) \subseteq Ids(items)
    /\ form.date # 0
    /\ items' = {[i EXCEPT !.granted = IF i.id \in Ids(Decided(loaded[t].items)) THEN Undecided
                                       ELSE i.granted] : i \in items}
    /\ fund' = Written(FALSE, loaded[t].fund, fund)
    /\ status' = "pending_advisor"
    /\ UNCHANGED <<today, form, largeOk, unlocked, report, draft, photos, trail, saves>>

\* purge: the row and all that hangs on it.
Purge ==
    /\ status' = "deleted"
    /\ form' = Blank /\ items' = {} /\ largeOk' = "null" /\ fund' = FALSE
    /\ unlocked' = FALSE /\ report' = 0 /\ draft' = FALSE /\ photos' = 0 /\ trail' = <<>>
    /\ UNCHANGED <<today, saves>>

DeleteByClub(t) ==
    /\ Locked(t)
    /\ status \in {"draft", "pending_advisor"} /\ trail = <<>>
    /\ Purge

SaveCloseDraft(t) ==
    /\ Locked(t)
    /\ status = "approved"
    /\ draft' = TRUE
    /\ UNCHANGED <<today, status, form, items, largeOk, fund, unlocked, report, photos, trail, saves>>

UploadPhoto(t) ==
    /\ Locked(t)
    /\ status = "approved" /\ photos < MaxPhotos
    /\ photos' = photos + 1
    /\ UNCHANGED <<today, status, form, items, largeOk, fund, unlocked, report, draft, trail, saves>>

\* Mutant: the status is not read again under the lock.
DeletePhotoLate(t) ==
    /\ Locked(t)
    /\ photos > 0
    /\ photos' = photos - 1
    /\ UNCHANGED <<today, status, form, items, largeOk, fund, unlocked, report, draft, trail, saves>>

DeletePhoto(t) ==
    /\ Locked(t)
    /\ status = "approved" /\ photos > 0
    /\ photos' = photos - 1
    /\ UNCHANGED <<today, status, form, items, largeOk, fund, unlocked, report, draft, trail, saves>>

\* A report that was loaded is replaced; one that was not collides with the key.
SubmitClose(t) ==
    /\ Locked(t)
    /\ status = "approved" /\ Len(trail) < MaxRecords
    /\ Ended(loaded[t].form.last)
    /\ Overdue(loaded[t].form.last) => loaded[t].unlocked
    /\ photos >= MinPhotos
    /\ loaded[t].report = 0 => report = 0
    /\ report' = today
    /\ draft' = Written(FALSE, loaded[t].draft, draft)
    /\ status' = "closing"
    /\ UNCHANGED <<today, form, items, largeOk, fund, unlocked, photos, trail, saves>>

-----------------------------------------------------------------------------
(* The office *)

Note(stage, decision, u) == [stage |-> stage, decision |-> decision, actor |-> u]

\* What a stage says of a large activity: nothing, yes or no.
JudgeLarge(stage, says) ==
    /\ says = "yes" => form.event
    /\ form' = [form EXCEPT !.large = form.large \/ says = "yes"]
    /\ largeOk' = IF says = "yes" THEN "yes"
                  ELSE IF says = "no" \/ stage = "advisor" THEN "no" ELSE largeOk

\* Mutant: the grant is not capped by what is asked for.
AdvisorApprovesUncapped(u, award, source, says) ==
    /\ status = "pending_advisor" /\ "advisor" \in Keys[u]
    /\ items' = {[i EXCEPT !.granted = award[i]] : i \in items}
    /\ fund' = IF source = "omit" THEN fund ELSE source = "set"
    /\ (\E i \in items : award[i] > 0) => fund'
    /\ JudgeLarge("advisor", says)
    /\ status' = AfterSigning("advisor", items')
    /\ trail' = Append(trail, Note("advisor", "approve", u))
    /\ UNCHANGED <<today, unlocked, report, draft, photos, saves, loaded>>

\* The first stage decides on every item, at most what is asked for it, and
\* names the source when money is granted.
AdvisorApproves(u, award, source, says) ==
    /\ status = "pending_advisor" /\ "advisor" \in Keys[u]
    /\ \A i \in items : award[i] <= i.requested
    /\ items' = {[i EXCEPT !.granted = award[i]] : i \in items}
    /\ fund' = IF source = "omit" THEN fund ELSE source = "set"
    /\ (\E i \in items : award[i] > 0) => fund'
    /\ JudgeLarge("advisor", says)
    /\ status' = AfterSigning("advisor", items')
    /\ trail' = Append(trail, Note("advisor", "approve", u))
    /\ UNCHANGED <<today, unlocked, report, draft, photos, saves, loaded>>

LaterStageApproves(u, says) ==
    /\ status \in {"pending_chief", "pending_dean"}
    /\ StageOf(status) \in Keys[u] /\ DifferentActor(u, StageOf(status))
    /\ JudgeLarge(StageOf(status), says)
    /\ status' = AfterSigning(StageOf(status), items)
    /\ trail' = Append(trail, Note(StageOf(status), "approve", u))
    /\ UNCHANGED <<today, items, fund, unlocked, report, draft, photos, saves, loaded>>

Reject(u) ==
    /\ status \in Pending /\ StageOf(status) \in Keys[u]
    /\ status' = "rejected"
    /\ trail' = Append(trail, Note(StageOf(status), "reject", u))
    /\ UNCHANGED <<today, form, items, largeOk, fund, unlocked, report, draft, photos, saves, loaded>>

CloseApprove(u) ==
    /\ status = "closing" /\ MayClose(u) /\ report # 0
    /\ status' = "closed"
    /\ trail' = Append(trail, Note("close", "approve", u))
    /\ UNCHANGED <<today, form, items, largeOk, fund, unlocked, report, draft, photos, saves, loaded>>

\* Sent back: the deadline does not count any more.
CloseReject(u) ==
    /\ status = "closing" /\ MayClose(u)
    /\ status' = "approved"
    /\ unlocked' = TRUE
    /\ trail' = trail \o <<Note("close", "unlock", u), Note("close", "reject", u)>>
    /\ UNCHANGED <<today, form, items, largeOk, fund, report, draft, photos, saves, loaded>>

Unlock(u) ==
    /\ status = "approved" /\ "close" \in Keys[u]
    /\ ~unlocked /\ Overdue(form.last)
    /\ unlocked' = TRUE
    /\ trail' = Append(trail, Note("close", "unlock", u))
    /\ UNCHANGED <<today, status, form, items, largeOk, fund, report, draft, photos, saves, loaded>>

DeleteByOffice ==
    /\ Exists /\ status # "draft"
    /\ Purge
    /\ UNCHANGED loaded

Midnight ==
    /\ today < MaxDay
    /\ today' = today + 1
    /\ UNCHANGED <<rowVars, loaded>>

-----------------------------------------------------------------------------
Init ==
    /\ today = 1
    /\ status = "none" /\ form = Blank /\ items = {} /\ largeOk = "null" /\ fund = FALSE
    /\ unlocked = FALSE /\ report = 0 /\ draft = FALSE /\ photos = 0 /\ trail = <<>> /\ saves = 0
    /\ loaded = [t \in Txn |-> NoLoad]

ClubStep(t) ==
    \/ Load(t) \/ Rollback(t)
    \/ \E b \in Bodies : SaveForm(t, b)
    \/ SubmitActivity(t) \/ DeleteByClub(t)
    \/ SaveCloseDraft(t) \/ UploadPhoto(t) \/ DeletePhoto(t) \/ SubmitClose(t)

OfficeStep(u) ==
    \/ \E award \in [items -> Amount], source \in {"omit", "clear", "set"}, says \in {"omit", "yes", "no"} :
          AdvisorApproves(u, award, source, says)
    \/ \E says \in {"omit", "yes", "no"} : LaterStageApproves(u, says)
    \/ Reject(u) \/ CloseApprove(u) \/ CloseReject(u) \/ Unlock(u)

Next ==
    \/ \E b \in Bodies : CreateActivity(b)
    \/ \E t \in Txn : ClubStep(t)
    \/ \E u \in Staff : OfficeStep(u)
    \/ DeleteByOffice
    \/ Midnight

Spec == Init /\ [][Next]_vars

-----------------------------------------------------------------------------
(* Properties *)

OfApplication(n) == trail[n].stage \in Stage

\* The approvals that no later refusal voids.
Standing ==
    {n \in DOMAIN trail : /\ OfApplication(n) /\ trail[n].decision = "approve"
                          /\ \A k \in n .. Len(trail) : ~(OfApplication(k) /\ trail[k].decision = "reject")}
Signed == {<<trail[n].stage, trail[n].actor>> : n \in Standing}
Signers(stage) == {u \in Staff : <<stage, u>> \in Signed}
Granted == \E i \in items : i.granted > 0

\* What must stand on record for the status, whatever the club sent meanwhile.
\* Signatures are in order, by holders of the key, neighbours are different
\* people (_require_different_actor), each stage signs once a round, and only an
\* activity for which nothing is granted misses the last two.
SignaturesBackStatus ==
    /\ \A stage \in Stage : \A u \in Signers(stage) : stage \in Keys[u]
    /\ \A n, m \in Standing : trail[n].stage = trail[m].stage => n = m
    /\ Signers("advisor") \cap Signers("chief") = {} /\ Signers("chief") \cap Signers("dean") = {}
    /\ Signers("advisor") = {} <=> status \in {"none", "deleted", "draft", "rejected", "pending_advisor"}
    /\ Signers("chief") # {} <=> (status = "pending_dean" \/ (status \in Settled /\ Granted))
    /\ Signers("dean") # {} <=> (status \in Settled /\ Granted)

\* Once the first stage has signed, every budget item is decided, at most at
\* what was asked for it (decisions.md D-03), and money has a source: also when
\* the form was saved or submitted from a row loaded before (approve).
GrantsAreCovered ==
    status \in Settled \cup {"pending_chief", "pending_dean"} =>
        /\ \A i \in items : 0 <= i.granted /\ i.granted <= i.requested
        /\ Granted => fund

\* A closing report under review or accepted has its report row and its photos:
\* none is deleted after it was handed in (delete_photo, submit_close).
ClosureIsBacked == status \in {"closing", "closed"} => report # 0 /\ photos >= MinPhotos

\* The deadline is lifted exactly when the trail says so (unlock, close_reject).
LiftedOnRecord ==
    unlocked <=> \E n \in DOMAIN trail : trail[n].decision = "unlock"

\* The status of an activity has behind it what it stands for besides: the
\* report with its photos, and the record of a deadline that was lifted.
StatusIsBacked == TypeOK /\ ClosureIsBacked /\ LiftedOnRecord

Requests == {<<i.id, i.requested>> : i \in items}

\* What was submitted is not altered while it is reviewed or once it is settled,
\* apart from the office's judgement that it is large (update_activity: a
\* request that comes after a submission sees it and is turned away).
SubmittedIsUntouched ==
    [][(status \in Pending \cup Settled /\ status' # "deleted") =>
          form' = [form EXCEPT !.large = form'.large] /\ Requests' = Requests]_vars

\* A closed activity stays as it is, with its grants, report, photos and
\* records, unless the office deletes it.
ClosedForGood ==
    [][status = "closed" => status' = "deleted" \/ rowVars' = rowVars]_vars

\* Neither what was submitted nor what was closed is written over by a request
\* that has loaded the row before.
HandedInStays == SubmittedIsUntouched /\ ClosedForGood

\* An activity is signed as in SignOff.
PhaseOf(s) ==
    CASE s \in {"none"} \cup Editable -> "open"
      [] s \in Pending -> "review"
      [] s = "approved" -> "granted"
      [] s = "deleted" -> "gone"
      [] OTHER -> s
Paid == Granted /\ status \in Settled \cup {"pending_chief", "pending_dean"}
SignOffOf == INSTANCE SignOff WITH Official <- Staff, phase <- PhaseOf(status), signed <- Signed, paid <- Paid
SignOffSpec == SignOffOf!Spec

\* What is not a draft is complete (violated): completeness is checked at the
\* change of status, by the docstring of _require_complete.
SubmittedIsComplete == status \in Pending \cup Settled => Complete(form)
=============================================================================
