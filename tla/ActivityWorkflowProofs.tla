----------------------- MODULE ActivityWorkflowProofs -----------------------
(***************************************************************************)
(* Theorems about ActivityWorkflow, for any staff and keys, any number of  *)
(* concurrent requests, any forms, amounts and days.                       *)
(***************************************************************************)
EXTENDS ActivityWorkflow, SequenceTheorems, TLAPS

LEMMA BodyTyped ==
  ASSUME NEW b \in Bodies
  PROVE  b.form \in Form /\ b.asked \in Seq(Amount)
  BY BodyAssumption DEF Body

LEMMA NewItemsTyped ==
  ASSUME TypeOK, NEW b \in Bodies
  PROVE  NewItems(b) \in SUBSET Item
<1> SUFFICES ASSUME NEW n \in DOMAIN b.asked
             PROVE  [id |-> <<saves + 1, n>>, requested |-> b.asked[n], granted |-> Undecided] \in Item
  BY DEF NewItems
<1>1. b.asked \in Seq(Amount) /\ n \in 1 .. Len(b.asked) /\ Len(b.asked) \in Nat
  BY BodyTyped
<1>2. b.asked[n] \in Amount /\ n \in Nat \ {0}
  BY <1>1
<1>3. saves + 1 \in Nat
  BY NumberAssumption DEF TypeOK
<1> QED
  BY <1>2, <1>3 DEF Item

LEMMA WrittenFormTyped ==
  ASSUME NEW new \in Form, NEW old \in Form, form \in Form
  PROVE  WrittenForm(new, old) \in Form
  BY DEF WrittenForm, Written, Form

LEMMA LoadedTyped ==
  ASSUME TypeOK, NEW t \in Txn, loaded[t] # NoLoad
  PROVE  loaded[t] \in Snapshot /\ loaded[t].form \in Form
  BY DEF TypeOK, Snapshot

\* The end of a club's request.
LEMMA LockedTyped ==
  ASSUME TypeOK, NEW t \in Txn, loaded' = [loaded EXCEPT ![t] = NoLoad]
  PROVE  loaded' \in [Txn -> Snapshot \cup {NoLoad}]
  BY DEF TypeOK

LEMMA NoteTyped ==
  ASSUME NEW stage \in Stage \cup {"close"}, NEW d \in {"approve", "reject", "unlock"}, NEW u \in Staff
  PROVE  Note(stage, d, u) \in Record
  BY DEF Note, Record

LEMMA StageOfTyped ==
  ASSUME NEW s \in Pending
  PROVE  /\ StageOf(s) \in Stage
         /\ s = "pending_advisor" => StageOf(s) = "advisor"
         /\ s = "pending_chief" => StageOf(s) = "chief"
         /\ s = "pending_dean" => StageOf(s) = "dean"
  BY DEF StageOf, Pending, Stage

LEMMA AfterSigningIs ==
  ASSUME NEW stage \in Stage, NEW is
  PROVE  AfterSigning(stage, is) =
           IF NothingGranted(is) \/ stage = "dean" THEN "approved"
           ELSE IF stage = "advisor" THEN "pending_chief" ELSE "pending_dean"
  BY DEF AfterSigning, Stage

LEMMA JudgeLargeTyped ==
  ASSUME form \in Form, largeOk \in {"null", "yes", "no"}, NEW stage, NEW says, JudgeLarge(stage, says)
  PROVE  /\ form' \in Form /\ largeOk' \in {"null", "yes", "no"}
         /\ form' = [form EXCEPT !.large = form'.large]
<1>1. (form.large \/ says = "yes") \in BOOLEAN
  OBVIOUS
<1>2. form'.large = (form.large \/ says = "yes")
  BY DEF JudgeLarge, Form
<1> QED
  BY <1>1, <1>2 DEF JudgeLarge, Form

LEMMA EmptyRowTyped ==
  /\ Blank \in Form /\ <<>> \in Seq(Record)
  /\ 0 \in Day /\ 0 \in 0 .. MaxPhotos /\ 0 \in 0 .. MaxSaves /\ 1 \in 1 .. MaxDay
  /\ "none" \in Status /\ "draft" \in Status /\ "deleted" \in Status /\ "closing" \in Status
<1>1. 0 \in Day
  BY NumberAssumption DEF Day
<1>2. Blank \in Form
  BY <1>1 DEF Form, Blank
<1> QED
  BY <1>1, <1>2, NumberAssumption DEF Status, Editable, Settled

LEMMA InitTyped == Init => TypeOK
  BY EmptyRowTyped DEF Init, TypeOK

LEMMA ClubTyped ==
  ASSUME TypeOK, NEW t \in Txn, ClubStep(t)
  PROVE  TypeOK'
<1>1. CASE Load(t)
  <2>1. [form |-> form, items |-> items, largeOk |-> largeOk, fund |-> fund,
         unlocked |-> unlocked, report |-> report, draft |-> draft] \in Snapshot
    BY DEF TypeOK, Snapshot
  <2> QED
    BY <1>1, <2>1 DEF TypeOK, Load, rowVars
<1>2. CASE Rollback(t)
  BY <1>2, LockedTyped DEF TypeOK, Rollback, rowVars
<1>3. ASSUME NEW b \in Bodies, SaveForm(t, b)
      PROVE  TypeOK'
  <2>1. loaded' \in [Txn -> Snapshot \cup {NoLoad}]
    BY <1>3, LockedTyped DEF SaveForm, Locked
  <2>2. form' \in Form
    BY <1>3, LoadedTyped, BodyTyped, WrittenFormTyped DEF SaveForm, Locked, TypeOK
  <2>3. items' \in SUBSET Item
    <3>1. items' = {i \in items : i.id \notin Ids(loaded[t].items)} \cup NewItems(b)
      BY <1>3 DEF SaveForm
    <3> QED
      BY <3>1, NewItemsTyped DEF TypeOK
  <2>4. saves' \in 0 .. MaxSaves
    BY <1>3, NumberAssumption DEF SaveForm, TypeOK
  <2>5. largeOk' \in {"null", "yes", "no"}
    BY <1>3 DEF SaveForm, Written, TypeOK
  <2> QED
    BY <1>3, <2>1, <2>2, <2>3, <2>4, <2>5 DEF SaveForm, TypeOK
<1>4. CASE SubmitActivity(t)
  <2>1. loaded' \in [Txn -> Snapshot \cup {NoLoad}]
    BY <1>4, LockedTyped DEF SubmitActivity, Locked
  <2>2. items' \in SUBSET Item
    BY <1>4 DEF SubmitActivity, TypeOK, Item
  <2>3. fund' \in BOOLEAN /\ status' \in Status
    BY <1>4 DEF SubmitActivity, Written, TypeOK, Status, Pending
  <2> QED
    BY <1>4, <2>1, <2>2, <2>3 DEF SubmitActivity, TypeOK
<1>5. CASE DeleteByClub(t)
  <2>1. loaded' \in [Txn -> Snapshot \cup {NoLoad}]
    BY <1>5, LockedTyped DEF DeleteByClub, Locked
  <2> QED
    BY <1>5, <2>1, EmptyRowTyped DEF DeleteByClub, Purge, TypeOK
<1>6. CASE SaveCloseDraft(t)
  BY <1>6, LockedTyped DEF SaveCloseDraft, Locked, TypeOK
<1>7. CASE UploadPhoto(t)
  BY <1>7, LockedTyped, NumberAssumption DEF UploadPhoto, Locked, TypeOK
<1>8. CASE DeletePhoto(t)
  BY <1>8, LockedTyped, NumberAssumption DEF DeletePhoto, Locked, TypeOK
<1>9. CASE SubmitClose(t)
  <2>1. loaded' \in [Txn -> Snapshot \cup {NoLoad}]
    BY <1>9, LockedTyped DEF SubmitClose, Locked
  <2>2. report' \in Day /\ draft' \in BOOLEAN /\ status' \in Status
    <3>1. report' \in Day
      BY <1>9, NumberAssumption DEF SubmitClose, TypeOK, Day
    <3> QED
      BY <1>9, <3>1, EmptyRowTyped DEF SubmitClose, Written, TypeOK
  <2> QED
    BY <1>9, <2>1, <2>2 DEF SubmitClose, TypeOK
<1> QED
  BY <1>1, <1>2, <1>3, <1>4, <1>5, <1>6, <1>7, <1>8, <1>9 DEF ClubStep

LEMMA AwardTyped ==
  ASSUME TypeOK, NEW award \in [items -> Amount]
  PROVE  {[i EXCEPT !.granted = award[i]] : i \in items} \in SUBSET Item
<1> SUFFICES ASSUME NEW i \in items
             PROVE  [i EXCEPT !.granted = award[i]] \in Item
  OBVIOUS
<1>1. i \in Item /\ award[i] \in Amount
  BY DEF TypeOK
<1> QED
  BY <1>1 DEF Item

LEMMA OfficeTyped ==
  ASSUME TypeOK, NEW u \in Staff, OfficeStep(u)
  PROVE  TypeOK'
<1>1. ASSUME NEW award \in [items -> Amount], NEW source, NEW says,
             AdvisorApproves(u, award, source, says)
      PROVE  TypeOK'
  <2>1. items' \in SUBSET Item
    BY <1>1, AwardTyped DEF AdvisorApproves
  <2>2. form' \in Form /\ largeOk' \in {"null", "yes", "no"}
    BY <1>1, JudgeLargeTyped DEF AdvisorApproves, TypeOK
  <2>3. status' \in Status
    BY <1>1, AfterSigningIs DEF AdvisorApproves, Stage, Status, Pending, Settled
  <2>4. trail' \in Seq(Record)
    BY <1>1, NoteTyped DEF AdvisorApproves, TypeOK, Stage
  <2>5. fund' \in BOOLEAN
    BY <1>1 DEF AdvisorApproves, TypeOK
  <2> QED
    BY <1>1, <2>1, <2>2, <2>3, <2>4, <2>5 DEF AdvisorApproves, TypeOK
<1>2. ASSUME NEW says, LaterStageApproves(u, says)
      PROVE  TypeOK'
  <2>1. StageOf(status) \in Stage
    BY <1>2, StageOfTyped DEF LaterStageApproves, Pending
  <2>2. form' \in Form /\ largeOk' \in {"null", "yes", "no"}
    BY <1>2, JudgeLargeTyped DEF LaterStageApproves, TypeOK
  <2>3. status' \in Status
    BY <1>2, <2>1, AfterSigningIs DEF LaterStageApproves, Status, Pending, Settled
  <2>4. trail' \in Seq(Record)
    BY <1>2, <2>1, NoteTyped DEF LaterStageApproves, TypeOK
  <2> QED
    BY <1>2, <2>2, <2>3, <2>4 DEF LaterStageApproves, TypeOK
<1>3. CASE Reject(u)
  <2>1. trail' \in Seq(Record)
    BY <1>3, StageOfTyped, NoteTyped DEF Reject, TypeOK
  <2> QED
    BY <1>3, <2>1 DEF Reject, TypeOK, Status, Editable
<1>4. CASE CloseApprove(u)
  <2>1. trail' \in Seq(Record)
    <3>1. Note("close", "approve", u) \in Record
      BY NoteTyped
    <3> QED
      BY <1>4, <3>1 DEF CloseApprove, TypeOK
  <2> QED
    BY <1>4, <2>1 DEF CloseApprove, TypeOK, Status, Settled
<1>5. CASE CloseReject(u)
  <2>1. Note("close", "unlock", u) \in Record /\ Note("close", "reject", u) \in Record
    BY NoteTyped
  <2>2. <<Note("close", "unlock", u), Note("close", "reject", u)>> \in Seq(Record)
    BY <2>1
  <2>3. trail' \in Seq(Record)
    BY <1>5, <2>2, ConcatProperties DEF CloseReject, TypeOK
  <2> QED
    BY <1>5, <2>3 DEF CloseReject, TypeOK, Status, Settled
<1>6. CASE Unlock(u)
  <2>1. trail' \in Seq(Record)
    <3>1. Note("close", "unlock", u) \in Record
      BY NoteTyped
    <3> QED
      BY <1>6, <3>1 DEF Unlock, TypeOK
  <2> QED
    BY <1>6, <2>1 DEF Unlock, TypeOK
<1> QED
  BY <1>1, <1>2, <1>3, <1>4, <1>5, <1>6 DEF OfficeStep

LEMMA StepTyped == TypeOK /\ [Next]_vars => TypeOK'
<1> SUFFICES ASSUME TypeOK, [Next]_vars PROVE TypeOK'
  OBVIOUS
<1>1. ASSUME NEW b \in Bodies, CreateActivity(b)
      PROVE  TypeOK'
  <2>1. saves' \in 0 .. MaxSaves
    BY <1>1, NumberAssumption DEF CreateActivity, TypeOK
  <2>2. items' \in SUBSET Item
    <3>1. NewItems(b) \in SUBSET Item
      BY NewItemsTyped
    <3> QED
      BY <1>1, <3>1 DEF CreateActivity
  <2>3. form' \in Form
    BY <1>1, BodyTyped DEF CreateActivity
  <2> QED
    BY <1>1, <2>1, <2>2, <2>3, EmptyRowTyped DEF CreateActivity, TypeOK
<1>2. CASE DeleteByOffice
  BY <1>2, EmptyRowTyped DEF DeleteByOffice, Purge, TypeOK
<1>3. CASE Midnight
  BY <1>3, NumberAssumption DEF Midnight, TypeOK, rowVars
<1>4. CASE UNCHANGED vars
  BY <1>4 DEF vars, rowVars, TypeOK
<1> QED
  BY <1>1, <1>2, <1>3, <1>4, ClubTyped, OfficeTyped DEF Next

\* Every state of the program has the types of TypeOK.
THEOREM TypeCorrect == Spec => []TypeOK
  BY InitTyped, StepTyped, PTL DEF Spec

-----------------------------------------------------------------------------
(* What an entry of the trail does to the standing signatures *)

LEMMA RecordFields ==
  ASSUME NEW r \in Record
  PROVE  r.stage \in Stage \cup {"close"} /\ r.actor \in Staff
  BY DEF Record

LEMMA AppendIs ==
  ASSUME NEW tr \in Seq(Record), NEW r \in Record
  PROVE  /\ Len(Append(tr, r)) = Len(tr) + 1 /\ Len(tr) \in Nat
         /\ DOMAIN tr = 1 .. Len(tr)
         /\ DOMAIN Append(tr, r) = 1 .. (Len(tr) + 1)
         /\ \A n \in 1 .. Len(tr) : Append(tr, r)[n] = tr[n]
         /\ Append(tr, r)[Len(tr) + 1] = r
  OBVIOUS

\* A stage that approves adds its signature.
LEMMA ApprovalStands ==
  ASSUME TypeOK, NEW st \in Stage, NEW u \in Staff, trail' = Append(trail, Note(st, "approve", u))
  PROVE  /\ Standing' = Standing \cup {Len(trail) + 1}
         /\ Len(trail) + 1 \notin Standing
         /\ \A n \in Standing : trail'[n] = trail[n]
         /\ trail'[Len(trail) + 1] = Note(st, "approve", u)
         /\ Signed' = Signed \cup {<<st, u>>}
<1> DEFINE r == Note(st, "approve", u)
<1>1. r \in Record /\ trail \in Seq(Record) /\ r.stage = st /\ r.decision = "approve" /\ r.actor = u
  BY NoteTyped DEF TypeOK, Note
<1> HIDE DEF r
<1>2. /\ Len(trail') = Len(trail) + 1 /\ Len(trail) \in Nat
      /\ DOMAIN trail = 1 .. Len(trail)
      /\ DOMAIN trail' = 1 .. (Len(trail) + 1)
      /\ \A n \in 1 .. Len(trail) : trail'[n] = trail[n]
      /\ trail'[Len(trail) + 1] = r
  BY <1>1, AppendIs DEF r
<1>3. Standing \subseteq 1 .. Len(trail)
  BY <1>2 DEF Standing
<1>4. ASSUME NEW n \in 1 .. Len(trail)
      PROVE  n \in Standing' <=> n \in Standing
  <2>1. n .. Len(trail') = (n .. Len(trail)) \cup {Len(trail) + 1}
    BY <1>2, <1>4
  <2>2. \A k \in n .. Len(trail) : trail'[k] = trail[k]
    BY <1>2, <1>4
  <2> QED
    BY <1>1, <1>2, <1>4, <2>1, <2>2 DEF Standing, OfApplication
<1>5. Len(trail) + 1 \in Standing'
  <2>1. (Len(trail) + 1) .. Len(trail') = {Len(trail) + 1}
    BY <1>2
  <2> QED
    BY <1>1, <1>2, <2>1 DEF Standing, OfApplication
<1>6. Standing' \subseteq 1 .. (Len(trail) + 1)
  BY <1>2 DEF Standing
<1>7. Standing' = Standing \cup {Len(trail) + 1} /\ Len(trail) + 1 \notin Standing
  <2>1. /\ 1 .. (Len(trail) + 1) = (1 .. Len(trail)) \cup {Len(trail) + 1}
        /\ Len(trail) + 1 \notin 1 .. Len(trail)
    BY <1>2
  <2>2. \A n \in 1 .. Len(trail) : n \in Standing' <=> n \in Standing
    BY <1>4
  <2> QED
    BY <1>3, <1>5, <1>6, <2>1, <2>2
<1>8. Signed' = Signed \cup {<<st, u>>}
  BY <1>1, <1>2, <1>3, <1>7 DEF Signed
<1> QED
  BY <1>2, <1>3, <1>7, <1>8 DEF r

\* A refusal voids every signature.
LEMMA RefusalVoids ==
  ASSUME TypeOK, NEW st \in Stage, NEW u \in Staff, trail' = Append(trail, Note(st, "reject", u))
  PROVE  Standing' = {} /\ Signed' = {}
<1> DEFINE r == Note(st, "reject", u)
<1>1. r \in Record /\ trail \in Seq(Record) /\ r.stage = st /\ r.decision = "reject"
  BY NoteTyped DEF TypeOK, Note
<1> HIDE DEF r
<1>2. /\ Len(trail') = Len(trail) + 1 /\ Len(trail) \in Nat
      /\ DOMAIN trail' = 1 .. (Len(trail) + 1)
      /\ trail'[Len(trail) + 1] = r
  BY <1>1, AppendIs DEF r
<1>3. \A n \in DOMAIN trail' : Len(trail) + 1 \in n .. Len(trail')
  BY <1>2
<1>4. Standing' = {}
  BY <1>1, <1>2, <1>3 DEF Standing, OfApplication
<1> QED
  BY <1>4 DEF Signed

\* Standing, of a given trail.
StandingOf(tr) ==
    {n \in DOMAIN tr : /\ tr[n].stage \in Stage /\ tr[n].decision = "approve"
                       /\ \A k \in n .. Len(tr) : ~(tr[k].stage \in Stage /\ tr[k].decision = "reject")}

\* An entry about the closing report leaves the signatures alone.
LEMMA ClosingEntry ==
  ASSUME NEW tr \in Seq(Record), NEW r \in Record, r.stage = "close"
  PROVE  /\ StandingOf(Append(tr, r)) = StandingOf(tr)
         /\ \A n \in StandingOf(tr) : Append(tr, r)[n] = tr[n]
<1>1. "close" \notin Stage
  BY DEF Stage
<1>2. /\ Len(Append(tr, r)) = Len(tr) + 1 /\ Len(tr) \in Nat
      /\ DOMAIN tr = 1 .. Len(tr)
      /\ DOMAIN Append(tr, r) = 1 .. (Len(tr) + 1)
      /\ \A m \in 1 .. Len(tr) : Append(tr, r)[m] = tr[m]
      /\ Append(tr, r)[Len(tr) + 1] = r
  BY AppendIs
<1>3. ASSUME NEW n \in 1 .. Len(tr)
      PROVE  n \in StandingOf(Append(tr, r)) <=> n \in StandingOf(tr)
  <2>1. n .. Len(Append(tr, r)) = (n .. Len(tr)) \cup {Len(tr) + 1}
    BY <1>2, <1>3
  <2>2. \A k \in n .. Len(tr) : Append(tr, r)[k] = tr[k]
    BY <1>2, <1>3
  <2> QED
    BY <1>1, <1>2, <1>3, <2>1, <2>2 DEF StandingOf
<1>4. StandingOf(Append(tr, r)) \subseteq 1 .. Len(tr)
  <2>1. 1 .. (Len(tr) + 1) = (1 .. Len(tr)) \cup {Len(tr) + 1}
    BY <1>2
  <2> QED
    BY <1>1, <1>2, <2>1 DEF StandingOf
<1>5. StandingOf(tr) \subseteq 1 .. Len(tr)
  BY <1>2 DEF StandingOf
<1>6. \A n \in 1 .. Len(tr) : n \in StandingOf(Append(tr, r)) <=> n \in StandingOf(tr)
  BY <1>3
<1> QED
  BY <1>2, <1>4, <1>5, <1>6

LEMMA ConcatTwo ==
  ASSUME NEW tr \in Seq(Record), NEW a \in Record, NEW b \in Record
  PROVE  tr \o <<a, b>> = Append(Append(tr, a), b)
  OBVIOUS

LEMMA StandingIs ==
  /\ Standing = StandingOf(trail)
  /\ Standing' = StandingOf(trail')
  BY DEF Standing, StandingOf, OfApplication

\* The trail is not touched, or speaks of the closing report only.
ClosingOnly ==
    \/ UNCHANGED trail
    \/ \E r \in Record : r.stage = "close" /\ trail' = Append(trail, r)
    \/ \E a, b \in Record : a.stage = "close" /\ b.stage = "close" /\ trail' = trail \o <<a, b>>

LEMMA SignaturesKept ==
  ASSUME TypeOK, ClosingOnly
  PROVE  /\ Standing' = Standing
         /\ \A n \in Standing : trail'[n] = trail[n]
         /\ Signed' = Signed
         /\ \A st \in Stage : Signers(st)' = Signers(st)
<1>1. trail \in Seq(Record)
  BY DEF TypeOK
<1>2. Standing' = Standing /\ \A n \in Standing : trail'[n] = trail[n]
  <2>1. CASE UNCHANGED trail
    BY <2>1 DEF Standing, OfApplication
  <2>2. ASSUME NEW r \in Record, r.stage = "close", trail' = Append(trail, r)
        PROVE  Standing' = Standing /\ \A n \in Standing : trail'[n] = trail[n]
    BY <1>1, <2>2, ClosingEntry, StandingIs
  <2>3. ASSUME NEW a \in Record, NEW b \in Record, a.stage = "close", b.stage = "close",
               trail' = trail \o <<a, b>>
        PROVE  Standing' = Standing /\ \A n \in Standing : trail'[n] = trail[n]
    <3>1. Append(trail, a) \in Seq(Record) /\ trail' = Append(Append(trail, a), b)
      BY <1>1, <2>3, ConcatTwo
    <3>2. /\ StandingOf(Append(trail, a)) = StandingOf(trail)
          /\ \A n \in StandingOf(trail) : Append(trail, a)[n] = trail[n]
      BY <1>1, <2>3, ClosingEntry
    <3>3. /\ StandingOf(trail') = StandingOf(Append(trail, a))
          /\ \A n \in StandingOf(Append(trail, a)) : trail'[n] = Append(trail, a)[n]
      BY <2>3, <3>1, ClosingEntry
    <3> QED
      BY <3>2, <3>3, StandingIs
  <2> QED
    BY <2>1, <2>2, <2>3 DEF ClosingOnly
<1>3. Signed' = Signed
  BY <1>2 DEF Signed
<1> QED
  BY <1>2, <1>3 DEF Signers

-----------------------------------------------------------------------------
(* The inductive invariant *)

\* Only an activity for which money is granted goes on to the later stages.
PaidInv == status \in {"pending_chief", "pending_dean"} => Granted

WorkflowInv ==
    SignaturesBackStatus /\ GrantsAreCovered /\ PaidInv /\ ClosureIsBacked /\ LiftedOnRecord

Early == {"none", "deleted", "draft", "rejected", "pending_advisor"}

LEMMA StatusKinds ==
  /\ Editable \subseteq Early /\ Early \cap Settled = {} /\ "pending_dean" \notin Early \cup Settled
  /\ "pending_chief" \notin Early \cup Settled
  /\ Status = Early \cup Settled \cup {"pending_chief", "pending_dean"}
  BY DEF Editable, Early, Settled, Status, Pending

\* The signatures stay, and the status stays where they put it.
LEMMA SignaturesStay ==
  ASSUME TypeOK, SignaturesBackStatus, ClosingOnly,
         status' \in Early <=> status \in Early,
         status' = "pending_dean" <=> status = "pending_dean",
         status' \in Settled <=> status \in Settled,
         status \in Settled => items' = items
  PROVE  SignaturesBackStatus'
<1>1. /\ Standing' = Standing /\ \A n \in Standing : trail'[n] = trail[n]
      /\ \A st \in Stage : Signers(st)' = Signers(st)
  BY SignaturesKept
<1>2. status \in Settled => Granted' = Granted
  BY DEF Granted
<1>3. "advisor" \in Stage /\ "chief" \in Stage /\ "dean" \in Stage
  BY DEF Stage
<1> QED
  BY <1>1, <1>2, <1>3 DEF SignaturesBackStatus, Early

\* Nothing is left of the signatures.
LEMMA SignaturesGone ==
  ASSUME Standing' = {}, status' \in Early
  PROVE  SignaturesBackStatus'
<1>1. Signed' = {} /\ \A st : Signers(st)' = {}
  BY DEF Signed, Signers
<1>2. status' \notin Settled /\ status' # "pending_dean"
  BY StatusKinds
<1> QED
  BY <1>1, <1>2 DEF SignaturesBackStatus, Early

\* A stage signs that has not signed in this round.
LEMMA StageSigns ==
  ASSUME TypeOK, SignaturesBackStatus, NEW st \in Stage, NEW u \in Staff,
         trail' = Append(trail, Note(st, "approve", u)), Signers(st) = {}, st \in Keys[u]
  PROVE  /\ \A s \in Stage : Signers(s)' = IF s = st THEN {u} ELSE Signers(s)
         /\ \A s \in Stage : \A v \in Signers(s)' : s \in Keys[v]
         /\ (\A n, m \in Standing : trail[n].stage = trail[m].stage => n = m)'
<1>1. /\ Standing' = Standing \cup {Len(trail) + 1}
      /\ \A n \in Standing : trail'[n] = trail[n]
      /\ trail'[Len(trail) + 1].stage = st
      /\ Signed' = Signed \cup {<<st, u>>}
  <2>1. Note(st, "approve", u).stage = st
    BY DEF Note
  <2> QED
    BY <2>1, ApprovalStands
<1>2. \A s \in Stage : Signers(s)' = IF s = st THEN {u} ELSE Signers(s)
  BY <1>1 DEF Signers
<1>3. ASSUME NEW n \in Standing
      PROVE  trail[n].stage # st
  <2>1. trail[n] \in Record /\ <<trail[n].stage, trail[n].actor>> \in Signed
    BY DEF Signed, Standing, TypeOK
  <2>2. trail[n].actor \in Staff
    BY <2>1, RecordFields
  <2> QED
    BY <2>1, <2>2 DEF Signers
<1>4. (\A n, m \in Standing : trail[n].stage = trail[m].stage => n = m)'
  <2>1. \A n, m \in Standing : trail[n].stage = trail[m].stage => n = m
    BY DEF SignaturesBackStatus
  <2>2. \A n \in Standing : trail'[n].stage = trail[n].stage /\ trail'[n].stage # st
    BY <1>1, <1>3
  <2> DEFINE new == Len(trail) + 1
  <2>3. /\ Standing' = Standing \cup {new}
        /\ trail'[new].stage = st
    BY <1>1
  <2> HIDE DEF new
  <2>4. ASSUME NEW n \in Standing', NEW m \in Standing', trail'[n].stage = trail'[m].stage
        PROVE  n = m
    <3>1. (n \in Standing \/ n = new) /\ (m \in Standing \/ m = new)
      BY <2>3
    <3> QED
      BY <2>1, <2>2, <2>3, <2>4, <3>1
  <2> QED
    BY <2>4
<1> QED
  BY <1>2, <1>4 DEF SignaturesBackStatus

\* Who has signed a stage last, if anyone has in this round.
LEMMA SignerIsLast ==
  ASSUME TypeOK, SignaturesBackStatus, NEW st \in Stage, NEW u \in Signers(st)
  PROVE  u \in LastSigner(st)
<1>1. PICK n \in Standing : trail[n].stage = st /\ trail[n].actor = u
  BY DEF Signers, Signed
<1>2. n \in DOMAIN trail /\ DOMAIN trail = 1 .. Len(trail) /\ Len(trail) \in Nat
  BY <1>1 DEF Standing, TypeOK
<1>3. ASSUME NEW k \in DOMAIN trail, trail[k].stage = st, trail[k].decision = "approve", k > n
      PROVE  FALSE
  <2>1. k .. Len(trail) \subseteq n .. Len(trail)
    BY <1>2, <1>3
  <2>2. k \in Standing
    BY <1>1, <1>3, <2>1 DEF Standing, OfApplication
  <2> QED
    BY <1>1, <1>2, <1>3, <2>2 DEF SignaturesBackStatus
<1>4. \A k \in DOMAIN trail : trail[k].stage = st /\ trail[k].decision = "approve" => k <= n
  BY <1>2, <1>3
<1>5. trail[n].decision = "approve"
  BY <1>1 DEF Standing
<1> DEFINE S == {k \in DOMAIN trail : trail[k].stage = st /\ trail[k].decision = "approve"}
<1>6. n \in {m \in S : \A k \in S : k <= m}
  BY <1>1, <1>2, <1>4, <1>5
<1>7. LastSigner(st) = {trail[m].actor : m \in {m \in S : \A k \in S : k <= m}}
  BY DEF LastSigner
<1> QED
  BY <1>1, <1>6, <1>7

LEMMA PurgeVoids ==
  ASSUME Purge
  PROVE  Standing' = {} /\ status' = "deleted"
  BY DEF Purge, Standing

\* With a grant, the chain is not cut short.
LEMMA GrantGoesOn ==
  ASSUME Granted
  PROVE  ~NothingGranted(items)
  BY DEF Granted, NothingGranted

LEMMA SignaturesAdvisor ==
  ASSUME TypeOK, TypeOK', SignaturesBackStatus, NEW u \in Staff,
         NEW award \in [items -> Amount], NEW source, NEW says, AdvisorApproves(u, award, source, says)
  PROVE  SignaturesBackStatus' /\ PaidInv'
<1>1. /\ status = "pending_advisor" /\ "advisor" \in Keys[u]
      /\ trail' = Append(trail, Note("advisor", "approve", u))
      /\ status' = AfterSigning("advisor", items')
  BY DEF AdvisorApproves
<1>2. Signers("advisor") = {} /\ Signers("chief") = {} /\ Signers("dean") = {}
  BY <1>1 DEF SignaturesBackStatus, Settled
<1>3. "advisor" \in Stage /\ "chief" \in Stage /\ "dean" \in Stage
  BY DEF Stage
<1>4. /\ Signers("advisor")' = {u} /\ Signers("chief")' = {} /\ Signers("dean")' = {}
      /\ \A s \in Stage : \A v \in Signers(s)' : s \in Keys[v]
      /\ (\A n, m \in Standing : trail[n].stage = trail[m].stage => n = m)'
  BY <1>1, <1>2, <1>3, StageSigns
<1>5. status' = IF NothingGranted(items') THEN "approved" ELSE "pending_chief"
  BY <1>1, <1>3, AfterSigningIs
<1>6. NothingGranted(items') <=> ~Granted'
  <2>1. \A i \in items' : i.granted \in Amount
    <3> SUFFICES ASSUME NEW i \in items
                 PROVE  [i EXCEPT !.granted = award[i]].granted \in Amount
      BY DEF AdvisorApproves
    <3>1. i \in Item
      BY DEF TypeOK
    <3> QED
      BY <3>1 DEF Item
  <2> QED
    BY <2>1 DEF NothingGranted, Granted, Amount
<1>7. PaidInv'
  BY <1>5, <1>6 DEF PaidInv
<1> QED
  BY <1>4, <1>5, <1>6, <1>7 DEF SignaturesBackStatus, Settled

LEMMA SignaturesLater ==
  ASSUME TypeOK, SignaturesBackStatus, PaidInv, NEW u \in Staff, NEW says, LaterStageApproves(u, says)
  PROVE  SignaturesBackStatus' /\ PaidInv'
<1>0. "advisor" \in Stage /\ "chief" \in Stage /\ "dean" \in Stage
  BY DEF Stage
<1>1. Granted /\ Granted' /\ ~NothingGranted(items)
  BY GrantGoesOn DEF LaterStageApproves, PaidInv, Granted
<1>2. CASE status = "pending_chief"
  <2>1. /\ StageOf(status) = "chief"
        /\ trail' = Append(trail, Note("chief", "approve", u)) /\ "chief" \in Keys[u]
        /\ u \notin LastSigner("advisor")
    BY <1>2 DEF LaterStageApproves, StageOf, DifferentActor
  <2>2. Signers("advisor") # {} /\ Signers("chief") = {} /\ Signers("dean") = {}
    BY <1>2 DEF SignaturesBackStatus, Settled
  <2>3. /\ Signers("advisor")' = Signers("advisor") /\ Signers("chief")' = {u} /\ Signers("dean")' = {}
        /\ \A s \in Stage : \A v \in Signers(s)' : s \in Keys[v]
        /\ (\A n, m \in Standing : trail[n].stage = trail[m].stage => n = m)'
    BY <1>0, <2>1, <2>2, StageSigns
  <2>4. status' = "pending_dean"
    BY <1>0, <1>1, <2>1, AfterSigningIs DEF LaterStageApproves
  <2>5. u \notin Signers("advisor")
    BY <1>0, <2>1, SignerIsLast
  <2> QED
    BY <1>1, <2>2, <2>3, <2>4, <2>5 DEF SignaturesBackStatus, Settled, PaidInv
<1>3. CASE status = "pending_dean"
  <2>1. /\ StageOf(status) = "dean"
        /\ trail' = Append(trail, Note("dean", "approve", u)) /\ "dean" \in Keys[u]
        /\ u \notin LastSigner("chief")
    BY <1>3 DEF LaterStageApproves, StageOf, DifferentActor
  <2>2. Signers("advisor") # {} /\ Signers("chief") # {} /\ Signers("dean") = {}
        /\ Signers("advisor") \cap Signers("chief") = {}
    BY <1>3 DEF SignaturesBackStatus, Settled
  <2>3. /\ Signers("advisor")' = Signers("advisor") /\ Signers("chief")' = Signers("chief")
        /\ Signers("dean")' = {u}
        /\ \A s \in Stage : \A v \in Signers(s)' : s \in Keys[v]
        /\ (\A n, m \in Standing : trail[n].stage = trail[m].stage => n = m)'
    BY <1>0, <2>1, <2>2, StageSigns
  <2>4. status' = "approved"
    BY <1>0, <2>1, AfterSigningIs DEF LaterStageApproves
  <2>5. u \notin Signers("chief")
    BY <1>0, <2>1, SignerIsLast
  <2> QED
    BY <1>1, <2>2, <2>3, <2>4, <2>5 DEF SignaturesBackStatus, Settled, PaidInv
<1> QED
  BY <1>2, <1>3 DEF LaterStageApproves

LEMMA SignaturesStep ==
  ASSUME TypeOK, TypeOK', SignaturesBackStatus, PaidInv, [Next]_vars
  PROVE  SignaturesBackStatus' /\ PaidInv'
<1>1. ASSUME NEW b \in Bodies, CreateActivity(b)
      PROVE  SignaturesBackStatus' /\ PaidInv'
  BY <1>1, SignaturesStay DEF CreateActivity, ClosingOnly, Early, Settled, PaidInv
<1>2. ASSUME NEW t \in Txn, ClubStep(t)
      PROVE  SignaturesBackStatus' /\ PaidInv'
  <2>1. CASE Load(t) \/ Rollback(t)
    BY <2>1, SignaturesStay DEF Load, Rollback, rowVars, ClosingOnly, PaidInv, Granted
  <2>2. ASSUME NEW b \in Bodies, SaveForm(t, b)
        PROVE  SignaturesBackStatus' /\ PaidInv'
    BY <2>2, SignaturesStay DEF SaveForm, ClosingOnly, Editable, Settled, PaidInv
  <2>3. CASE SubmitActivity(t)
    BY <2>3, SignaturesStay DEF SubmitActivity, ClosingOnly, Editable, Early, Settled, PaidInv
  <2>4. CASE DeleteByClub(t)
    BY <2>4, PurgeVoids, SignaturesGone DEF DeleteByClub, Early, PaidInv
  <2>5. CASE SaveCloseDraft(t)
    BY <2>5, SignaturesStay DEF SaveCloseDraft, ClosingOnly, PaidInv
  <2>6. CASE UploadPhoto(t)
    BY <2>6, SignaturesStay DEF UploadPhoto, ClosingOnly, PaidInv
  <2>7. CASE DeletePhoto(t)
    BY <2>7, SignaturesStay DEF DeletePhoto, ClosingOnly, PaidInv
  <2>8. CASE SubmitClose(t)
    BY <2>8, SignaturesStay DEF SubmitClose, ClosingOnly, Early, Settled, PaidInv
  <2> QED
    BY <1>2, <2>1, <2>2, <2>3, <2>4, <2>5, <2>6, <2>7, <2>8 DEF ClubStep
<1>3. ASSUME NEW u \in Staff, OfficeStep(u)
      PROVE  SignaturesBackStatus' /\ PaidInv'
  <2>1. CASE Reject(u)
    <3>1. StageOf(status) \in Stage /\ status' = "rejected"
          /\ trail' = Append(trail, Note(StageOf(status), "reject", u))
      BY <2>1, StageOfTyped DEF Reject
    <3>2. Standing' = {}
      BY <3>1, RefusalVoids
    <3> QED
      BY <3>1, <3>2, SignaturesGone DEF Early, PaidInv
  <2>2. CASE CloseApprove(u)
    <3>1. ClosingOnly
      <4>1. Note("close", "approve", u) \in Record /\ Note("close", "approve", u).stage = "close"
        BY NoteTyped DEF Note
      <4> QED
        BY <2>2, <4>1 DEF CloseApprove, ClosingOnly
    <3> QED
      BY <2>2, <3>1, SignaturesStay DEF CloseApprove, Early, Settled, PaidInv
  <2>3. CASE CloseReject(u)
    <3>1. ClosingOnly
      <4>1. /\ Note("close", "unlock", u) \in Record /\ Note("close", "unlock", u).stage = "close"
            /\ Note("close", "reject", u) \in Record /\ Note("close", "reject", u).stage = "close"
        BY NoteTyped DEF Note
      <4> QED
        BY <2>3, <4>1 DEF CloseReject, ClosingOnly
    <3> QED
      BY <2>3, <3>1, SignaturesStay DEF CloseReject, Early, Settled, PaidInv
  <2>4. CASE Unlock(u)
    <3>1. ClosingOnly
      <4>1. Note("close", "unlock", u) \in Record /\ Note("close", "unlock", u).stage = "close"
        BY NoteTyped DEF Note
      <4> QED
        BY <2>4, <4>1 DEF Unlock, ClosingOnly
    <3> QED
      BY <2>4, <3>1, SignaturesStay DEF Unlock, PaidInv
  <2> QED
    BY <1>3, <2>1, <2>2, <2>3, <2>4, SignaturesAdvisor, SignaturesLater DEF OfficeStep
<1>4. CASE DeleteByOffice
  BY <1>4, PurgeVoids, SignaturesGone DEF DeleteByOffice, Early, PaidInv
<1>5. CASE Midnight
  BY <1>5, SignaturesStay DEF Midnight, rowVars, ClosingOnly, PaidInv, Granted
<1>6. CASE UNCHANGED vars
  BY <1>6, SignaturesStay DEF vars, rowVars, ClosingOnly, PaidInv, Granted
<1> QED
  BY <1>1, <1>2, <1>3, <1>4, <1>5, <1>6 DEF Next

LEMMA GrantsStep ==
  ASSUME TypeOK, GrantsAreCovered, [Next]_vars
  PROVE  GrantsAreCovered'
<1> DEFINE Reviewed == Settled \cup {"pending_chief", "pending_dean"}
<1>0. Reviewed \cap Early = {} /\ Editable \subseteq Early
  BY StatusKinds
<1>1. CASE status \in Reviewed /\ UNCHANGED <<items, fund>>
  BY <1>1 DEF GrantsAreCovered, Granted
<1>2. CASE status' \notin Reviewed
  BY <1>2 DEF GrantsAreCovered
<1>3. ASSUME NEW u \in Staff, NEW award \in [items -> Amount], NEW source, NEW says,
             AdvisorApproves(u, award, source, says)
      PROVE  GrantsAreCovered'
  <2>1. ASSUME NEW i \in items
        PROVE  LET j == [i EXCEPT !.granted = award[i]]
               IN  j.granted = award[i] /\ j.requested = i.requested /\ 0 <= award[i] /\ award[i] <= i.requested
    <3>1. i \in Item /\ award[i] \in Amount
      BY DEF TypeOK
    <3> QED
      BY <1>3, <3>1, NumberAssumption DEF AdvisorApproves, Item, Amount
  <2>2. items' = {[i EXCEPT !.granted = award[i]] : i \in items}
        /\ ((\E i \in items : award[i] > 0) => fund')
    BY <1>3 DEF AdvisorApproves
  <2>3. \A j \in items' : 0 <= j.granted /\ j.granted <= j.requested
    <3> SUFFICES ASSUME NEW j \in items'
                 PROVE  0 <= j.granted /\ j.granted <= j.requested
      OBVIOUS
    <3>1. PICK i \in items : j = [i EXCEPT !.granted = award[i]]
      BY <2>2, Zenon
    <3>2. j.granted = award[i] /\ j.requested = i.requested /\ 0 <= award[i] /\ award[i] <= i.requested
      BY <2>1, <3>1, Zenon
    <3> QED
      BY <3>2
  <2>4. Granted' => fund'
    BY <2>1, <2>2 DEF Granted
  <2> QED
    BY <2>3, <2>4 DEF GrantsAreCovered
<1>4. ASSUME NEW t \in Txn, ClubStep(t)
      PROVE  GrantsAreCovered'
  <2>1. CASE Load(t) \/ Rollback(t)
    BY <1>1, <1>2, <2>1 DEF Load, Rollback, rowVars
  <2>2. ASSUME NEW b \in Bodies, SaveForm(t, b)
        PROVE  GrantsAreCovered'
    BY <1>0, <1>2, <2>2 DEF SaveForm
  <2>3. CASE SubmitActivity(t)
    BY <1>0, <1>2, <2>3 DEF SubmitActivity, Early
  <2>4. CASE DeleteByClub(t)
    BY <1>0, <1>2, <2>4 DEF DeleteByClub, Purge, Early
  <2>5. CASE SaveCloseDraft(t) \/ UploadPhoto(t) \/ DeletePhoto(t) \/ SubmitClose(t)
    BY <1>1, <2>5 DEF SaveCloseDraft, UploadPhoto, DeletePhoto, SubmitClose, Settled
  <2> QED
    BY <1>4, <2>1, <2>2, <2>3, <2>4, <2>5 DEF ClubStep
<1>5. ASSUME NEW u \in Staff, OfficeStep(u)
      PROVE  GrantsAreCovered'
  <2>1. ASSUME NEW says, LaterStageApproves(u, says)
        PROVE  GrantsAreCovered'
    BY <1>1, <2>1 DEF LaterStageApproves
  <2>2. CASE Reject(u)
    BY <1>0, <1>2, <2>2 DEF Reject, Early
  <2>3. CASE CloseApprove(u) \/ CloseReject(u) \/ Unlock(u)
    BY <1>1, <2>3 DEF CloseApprove, CloseReject, Unlock, Settled
  <2> QED
    BY <1>3, <1>5, <2>1, <2>2, <2>3 DEF OfficeStep
<1>6. ASSUME NEW b \in Bodies, CreateActivity(b)
      PROVE  GrantsAreCovered'
  BY <1>0, <1>2, <1>6 DEF CreateActivity, Early
<1>7. CASE DeleteByOffice
  BY <1>0, <1>2, <1>7 DEF DeleteByOffice, Purge, Early
<1>8. CASE Midnight \/ UNCHANGED vars
  BY <1>1, <1>2, <1>8 DEF Midnight, rowVars, vars
<1> QED
  BY <1>4, <1>5, <1>6, <1>7, <1>8 DEF Next

LEMMA ClosureStep ==
  ASSUME TypeOK, ClosureIsBacked, [Next]_vars
  PROVE  ClosureIsBacked'
<1>1. CASE status \in {"closing", "closed"} /\ UNCHANGED <<report, photos>>
  BY <1>1 DEF ClosureIsBacked
<1>2. CASE status' \notin {"closing", "closed"}
  BY <1>2 DEF ClosureIsBacked
<1>3. ASSUME NEW t \in Txn, ClubStep(t)
      PROVE  ClosureIsBacked'
  <2>1. CASE SubmitClose(t)
    BY <2>1, NumberAssumption DEF SubmitClose, ClosureIsBacked, TypeOK
  <2>2. CASE Load(t) \/ Rollback(t)
    BY <1>1, <1>2, <2>2 DEF Load, Rollback, rowVars
  <2>3. ASSUME NEW b \in Bodies, SaveForm(t, b)
        PROVE  ClosureIsBacked'
    BY <1>2, <2>3 DEF SaveForm, Editable
  <2>4. CASE SubmitActivity(t) \/ DeleteByClub(t)
    BY <1>2, <2>4 DEF SubmitActivity, DeleteByClub, Purge
  <2>5. CASE SaveCloseDraft(t) \/ UploadPhoto(t) \/ DeletePhoto(t)
    BY <1>2, <2>5 DEF SaveCloseDraft, UploadPhoto, DeletePhoto
  <2> QED
    BY <1>3, <2>1, <2>2, <2>3, <2>4, <2>5 DEF ClubStep
<1>4. ASSUME NEW u \in Staff, OfficeStep(u)
      PROVE  ClosureIsBacked'
  <2>1. ASSUME NEW award, NEW source, NEW says, AdvisorApproves(u, award, source, says)
        PROVE  ClosureIsBacked'
    BY <1>2, <2>1, AfterSigningIs DEF AdvisorApproves, Stage
  <2>2. ASSUME NEW says, LaterStageApproves(u, says)
        PROVE  ClosureIsBacked'
    <3>1. StageOf(status) \in Stage
      BY <2>2, StageOfTyped DEF LaterStageApproves, Pending
    <3> QED
      BY <1>2, <2>2, <3>1, AfterSigningIs DEF LaterStageApproves
  <2>3. CASE Reject(u) \/ CloseReject(u) \/ Unlock(u)
    BY <1>2, <2>3 DEF Reject, CloseReject, Unlock
  <2>4. CASE CloseApprove(u)
    BY <1>1, <2>4 DEF CloseApprove
  <2> QED
    BY <1>4, <2>1, <2>2, <2>3, <2>4 DEF OfficeStep
<1>5. ASSUME NEW b \in Bodies, CreateActivity(b)
      PROVE  ClosureIsBacked'
  BY <1>2, <1>5 DEF CreateActivity
<1>6. CASE DeleteByOffice
  BY <1>2, <1>6 DEF DeleteByOffice, Purge
<1>7. CASE Midnight \/ UNCHANGED vars
  BY <1>1, <1>2, <1>7 DEF Midnight, rowVars, vars
<1> QED
  BY <1>3, <1>4, <1>5, <1>6, <1>7 DEF Next

\* A further entry lifts the deadline if it says so.
LEMMA UnlockEntry ==
  ASSUME NEW tr \in Seq(Record), NEW r \in Record
  PROVE  (\E n \in DOMAIN Append(tr, r) : Append(tr, r)[n].decision = "unlock")
           <=> (r.decision = "unlock" \/ \E n \in DOMAIN tr : tr[n].decision = "unlock")
<1>1. /\ DOMAIN tr = 1 .. Len(tr) /\ Len(tr) \in Nat
      /\ DOMAIN Append(tr, r) = 1 .. (Len(tr) + 1)
      /\ \A n \in 1 .. Len(tr) : Append(tr, r)[n] = tr[n]
      /\ Append(tr, r)[Len(tr) + 1] = r
  BY AppendIs
<1>2. 1 .. (Len(tr) + 1) = (1 .. Len(tr)) \cup {Len(tr) + 1}
  BY <1>1
<1> QED
  BY <1>1, <1>2

LEMMA LiftedStep ==
  ASSUME TypeOK, LiftedOnRecord, [Next]_vars
  PROVE  LiftedOnRecord'
<1>0. trail \in Seq(Record)
  BY DEF TypeOK
<1>1. CASE UNCHANGED <<unlocked, trail>>
  BY <1>1 DEF LiftedOnRecord
<1>2. CASE unlocked' = FALSE /\ trail' = <<>>
  BY <1>2 DEF LiftedOnRecord
<1>3. ASSUME NEW r \in Record, trail' = Append(trail, r),
             IF r.decision = "unlock" THEN unlocked' = TRUE ELSE UNCHANGED unlocked
      PROVE  LiftedOnRecord'
  BY <1>0, <1>3, UnlockEntry DEF LiftedOnRecord
<1>4. ASSUME NEW u \in Staff, OfficeStep(u)
      PROVE  LiftedOnRecord'
  <2>0. \A st \in Stage \cup {"close"}, d \in {"approve", "reject", "unlock"} :
            Note(st, d, u) \in Record /\ Note(st, d, u).decision = d
    BY NoteTyped DEF Note
  <2>1. ASSUME NEW award, NEW source, NEW says, AdvisorApproves(u, award, source, says)
        PROVE  LiftedOnRecord'
    BY <1>3, <2>0, <2>1 DEF AdvisorApproves, Stage
  <2>2. ASSUME NEW says, LaterStageApproves(u, says)
        PROVE  LiftedOnRecord'
    <3>1. StageOf(status) \in Stage
      BY <2>2, StageOfTyped DEF LaterStageApproves, Pending
    <3> QED
      BY <1>3, <2>0, <2>2, <3>1 DEF LaterStageApproves
  <2>3. CASE Reject(u)
    BY <1>3, <2>0, <2>3, StageOfTyped DEF Reject
  <2>4. CASE CloseApprove(u)
    BY <1>3, <2>0, <2>4 DEF CloseApprove
  <2>5. CASE CloseReject(u)
    <3> DEFINE a == Note("close", "unlock", u)
               b == Note("close", "reject", u)
    <3>1. a \in Record /\ b \in Record /\ a.decision = "unlock"
      BY <2>0
    <3>2. unlocked' = TRUE /\ trail' = trail \o <<a, b>>
      BY <2>5 DEF CloseReject
    <3> HIDE DEF a, b
    <3>3. trail' = Append(Append(trail, a), b) /\ Append(trail, a) \in Seq(Record)
      BY <1>0, <3>1, <3>2, ConcatTwo
    <3>4. \E n \in DOMAIN Append(trail, a) : Append(trail, a)[n].decision = "unlock"
      BY <1>0, <3>1, UnlockEntry
    <3>5. \E n \in DOMAIN trail' : trail'[n].decision = "unlock"
      BY <3>1, <3>3, <3>4, UnlockEntry
    <3> QED
      BY <3>2, <3>5 DEF LiftedOnRecord
  <2>6. CASE Unlock(u)
    BY <1>3, <2>0, <2>6 DEF Unlock
  <2> QED
    BY <1>4, <2>1, <2>2, <2>3, <2>4, <2>5, <2>6 DEF OfficeStep
<1>5. ASSUME NEW t \in Txn, ClubStep(t)
      PROVE  LiftedOnRecord'
  <2>1. CASE DeleteByClub(t)
    BY <1>2, <2>1 DEF DeleteByClub, Purge
  <2>2. CASE Load(t) \/ Rollback(t)
    BY <1>1, <2>2 DEF Load, Rollback, rowVars
  <2>3. ASSUME NEW b \in Bodies, SaveForm(t, b)
        PROVE  LiftedOnRecord'
    BY <1>1, <2>3 DEF SaveForm
  <2>4. CASE SubmitActivity(t) \/ SaveCloseDraft(t) \/ UploadPhoto(t) \/ DeletePhoto(t) \/ SubmitClose(t)
    BY <1>1, <2>4 DEF SubmitActivity, SaveCloseDraft, UploadPhoto, DeletePhoto, SubmitClose
  <2> QED
    BY <1>5, <2>1, <2>2, <2>3, <2>4 DEF ClubStep
<1>6. ASSUME NEW b \in Bodies, CreateActivity(b)
      PROVE  LiftedOnRecord'
  BY <1>1, <1>6 DEF CreateActivity
<1>7. CASE DeleteByOffice
  BY <1>2, <1>7 DEF DeleteByOffice, Purge
<1>8. CASE Midnight \/ UNCHANGED vars
  BY <1>1, <1>8 DEF Midnight, rowVars, vars
<1> QED
  BY <1>4, <1>5, <1>6, <1>7, <1>8 DEF Next

LEMMA InitWorkflow == Init => WorkflowInv
<1> SUFFICES ASSUME Init PROVE WorkflowInv
  OBVIOUS
<1>1. status = "none" /\ trail = <<>> /\ items = {} /\ unlocked = FALSE
  BY DEF Init
<1>2. Standing = {}
  BY <1>1 DEF Standing
<1>3. Signed = {} /\ \A st : Signers(st) = {}
  BY <1>2 DEF Signed, Signers
<1> QED
  BY <1>1, <1>2, <1>3 DEF WorkflowInv, SignaturesBackStatus, GrantsAreCovered, PaidInv,
                          ClosureIsBacked, LiftedOnRecord, Settled

LEMMA WorkflowInvariant == Spec => [](TypeOK /\ WorkflowInv)
<1>1. Init => TypeOK /\ WorkflowInv
  BY InitTyped, InitWorkflow
<1>2. TypeOK /\ WorkflowInv /\ [Next]_vars => (TypeOK /\ WorkflowInv)'
  BY StepTyped, SignaturesStep, GrantsStep, ClosureStep, LiftedStep DEF WorkflowInv
<1> QED
  BY <1>1, <1>2, PTL DEF Spec

\* An activity has the signatures of its status, by different neighbours with
\* the keys, in this round and in order, whatever requests are under way.
THEOREM SignaturesHold == Spec => []SignaturesBackStatus
<1>1. TypeOK /\ WorkflowInv => SignaturesBackStatus
  BY DEF WorkflowInv
<1> QED
  BY <1>1, WorkflowInvariant, PTL

\* What is granted is decided item by item, covered by what was asked for, and
\* has a source.
THEOREM GrantsCovered == Spec => []GrantsAreCovered
<1>1. TypeOK /\ WorkflowInv => GrantsAreCovered
  BY DEF WorkflowInv
<1> QED
  BY <1>1, WorkflowInvariant, PTL

\* A closing report under review or accepted has its row and its photos.
THEOREM ClosureBacked == Spec => []ClosureIsBacked
<1>1. TypeOK /\ WorkflowInv => ClosureIsBacked
  BY DEF WorkflowInv
<1> QED
  BY <1>1, WorkflowInvariant, PTL

\* The deadline is lifted exactly when the trail says so.
THEOREM LiftRecorded == Spec => []LiftedOnRecord
<1>1. TypeOK /\ WorkflowInv => LiftedOnRecord
  BY DEF WorkflowInv
<1> QED
  BY <1>1, WorkflowInvariant, PTL

\* The status has its report and its record behind it.
THEOREM StatusBacked == Spec => []StatusIsBacked
<1>1. TypeOK /\ ClosureIsBacked /\ LiftedOnRecord => StatusIsBacked
  BY DEF StatusIsBacked
<1> QED
  BY <1>1, TypeCorrect, ClosureBacked, LiftRecorded, PTL

-----------------------------------------------------------------------------
(* What a step may never do *)

LEMMA FormItself ==
  ASSUME form \in Form, form' = form
  PROVE  form' = [form EXCEPT !.large = form'.large]
  BY DEF Form

LEMMA UntouchedStep ==
  ASSUME TypeOK, [Next]_vars, status \in Pending \cup Settled, status' # "deleted"
  PROVE  form' = [form EXCEPT !.large = form'.large] /\ Requests' = Requests
<1>0. form \in Form /\ largeOk \in {"null", "yes", "no"} /\ status \notin Editable /\ status # "none"
  BY DEF TypeOK, Pending, Settled, Editable
<1>1. CASE UNCHANGED <<form, items>>
  BY <1>0, <1>1, FormItself DEF Requests
<1>2. ASSUME NEW b \in Bodies, CreateActivity(b)
      PROVE  FALSE
  BY <1>0, <1>2 DEF CreateActivity
<1>3. ASSUME NEW t \in Txn, ClubStep(t)
      PROVE  UNCHANGED <<form, items>>
  <2>1. CASE Load(t) \/ Rollback(t)
    BY <2>1 DEF Load, Rollback, rowVars
  <2>2. ASSUME NEW b \in Bodies, SaveForm(t, b)
        PROVE  FALSE
    BY <1>0, <2>2 DEF SaveForm
  <2>3. CASE SubmitActivity(t)
    BY <1>0, <2>3 DEF SubmitActivity
  <2>4. CASE DeleteByClub(t)
    BY <2>4 DEF DeleteByClub, Purge
  <2>5. CASE SaveCloseDraft(t) \/ UploadPhoto(t) \/ DeletePhoto(t) \/ SubmitClose(t)
    BY <2>5 DEF SaveCloseDraft, UploadPhoto, DeletePhoto, SubmitClose
  <2> QED
    BY <1>3, <2>1, <2>2, <2>3, <2>4, <2>5 DEF ClubStep
<1>4. ASSUME NEW u \in Staff, OfficeStep(u)
      PROVE  form' = [form EXCEPT !.large = form'.large] /\ Requests' = Requests
  <2>1. ASSUME NEW award \in [items -> Amount], NEW source, NEW says,
               AdvisorApproves(u, award, source, says)
        PROVE  form' = [form EXCEPT !.large = form'.large] /\ Requests' = Requests
    <3>1. form' = [form EXCEPT !.large = form'.large]
      BY <1>0, <2>1, JudgeLargeTyped DEF AdvisorApproves
    <3> DEFINE decided(i) == [i EXCEPT !.granted = award[i]]
    <3>2. \A i \in items : decided(i).id = i.id /\ decided(i).requested = i.requested
      BY DEF TypeOK, Item
    <3>3. items' = {decided(i) : i \in items}
      BY <2>1 DEF AdvisorApproves
    <3> HIDE DEF decided
    <3>4. Requests' \subseteq Requests
      BY <3>2, <3>3 DEF Requests
    <3>5. Requests \subseteq Requests'
      BY <3>2, <3>3 DEF Requests
    <3> QED
      BY <3>1, <3>4, <3>5
  <2>2. ASSUME NEW says, LaterStageApproves(u, says)
        PROVE  form' = [form EXCEPT !.large = form'.large] /\ Requests' = Requests
    BY <1>0, <2>2, JudgeLargeTyped DEF LaterStageApproves, Requests
  <2>3. CASE Reject(u) \/ CloseApprove(u) \/ CloseReject(u) \/ Unlock(u)
    BY <1>1, <2>3 DEF Reject, CloseApprove, CloseReject, Unlock
  <2> QED
    BY <1>4, <2>1, <2>2, <2>3 DEF OfficeStep
<1>5. CASE DeleteByOffice
  BY <1>5 DEF DeleteByOffice, Purge
<1>6. CASE Midnight \/ UNCHANGED vars
  BY <1>1, <1>6 DEF Midnight, rowVars, vars
<1> QED
  BY <1>1, <1>2, <1>3, <1>4, <1>5, <1>6 DEF Next

\* What was submitted is not altered while it is reviewed or settled, apart
\* from the office's judgement that it is large.
THEOREM SubmittedStays == Spec => SubmittedIsUntouched
<1>1. TypeOK /\ [Next]_vars =>
        [(status \in Pending \cup Settled /\ status' # "deleted") =>
            form' = [form EXCEPT !.large = form'.large] /\ Requests' = Requests]_vars
  BY UntouchedStep
<1> QED
  BY <1>1, TypeCorrect, PTL DEF Spec, SubmittedIsUntouched

LEMMA ClosedStep ==
  ASSUME [Next]_vars, status = "closed", status' # "deleted"
  PROVE  rowVars' = rowVars
<1>0. status \notin Editable \cup Pending
  BY DEF Editable, Pending
<1>1. ASSUME NEW b \in Bodies, CreateActivity(b)
      PROVE  FALSE
  BY <1>1 DEF CreateActivity
<1>2. ASSUME NEW t \in Txn, ClubStep(t)
      PROVE  rowVars' = rowVars
  <2>1. CASE Load(t) \/ Rollback(t)
    BY <2>1 DEF Load, Rollback
  <2>2. ASSUME NEW b \in Bodies, SaveForm(t, b)
        PROVE  FALSE
    BY <1>0, <2>2 DEF SaveForm
  <2>3. CASE SubmitActivity(t) \/ DeleteByClub(t)
    BY <1>0, <2>3 DEF SubmitActivity, DeleteByClub, Purge
  <2>4. CASE SaveCloseDraft(t) \/ UploadPhoto(t) \/ DeletePhoto(t) \/ SubmitClose(t)
    BY <2>4 DEF SaveCloseDraft, UploadPhoto, DeletePhoto, SubmitClose
  <2> QED
    BY <1>2, <2>1, <2>2, <2>3, <2>4 DEF ClubStep
<1>3. ASSUME NEW u \in Staff, OfficeStep(u)
      PROVE  FALSE
  BY <1>0, <1>3 DEF OfficeStep, AdvisorApproves, LaterStageApproves, Reject, CloseApprove, CloseReject, Unlock
<1>4. CASE DeleteByOffice
  BY <1>4 DEF DeleteByOffice, Purge
<1>5. CASE Midnight \/ UNCHANGED vars
  BY <1>5 DEF Midnight, vars
<1> QED
  BY <1>1, <1>2, <1>3, <1>4, <1>5 DEF Next

\* A closed activity stays as it is until the office deletes it.
THEOREM ClosedStays == Spec => ClosedForGood
<1>1. [Next]_vars => [status = "closed" => status' = "deleted" \/ rowVars' = rowVars]_vars
  BY ClosedStep
<1> QED
  BY <1>1, PTL DEF Spec, ClosedForGood

\* Nothing that was handed in is written over.
THEOREM HandedInKept == Spec => HandedInStays
  BY SubmittedStays, ClosedStays DEF HandedInStays

-----------------------------------------------------------------------------
(* The workflow implements SignOff *)

LEMMA PhaseIs ==
  ASSUME NEW s \in Status
  PROVE  /\ s \in {"none", "draft", "rejected"} => PhaseOf(s) = "open"
         /\ s \in Pending => PhaseOf(s) = "review"
         /\ s = "approved" => PhaseOf(s) = "granted"
         /\ s \in {"closing", "closed"} => PhaseOf(s) = s
         /\ s = "deleted" => PhaseOf(s) = "gone"
<1>1. Editable = {"draft", "rejected"} /\ Pending = {"pending_advisor", "pending_chief", "pending_dean"}
  BY DEF Editable, Pending
<1> QED
  BY <1>1 DEF PhaseOf

\* The signatures a status has.
LEMMA SignedAt ==
  ASSUME TypeOK, SignaturesBackStatus
  PROVE  /\ status \in Early => Signed = {}
         /\ status = "pending_chief" => \E a \in Signers("advisor") : Signed = {<<"advisor", a>>}
         /\ status = "pending_dean" =>
              \E a \in Signers("advisor"), c \in Signers("chief") :
                  Signed = {<<"advisor", a>>, <<"chief", c>>}
<1>1. ASSUME NEW n \in Standing
      PROVE  /\ trail[n].stage \in Stage /\ trail[n].actor \in Staff
             /\ trail[n].actor \in Signers(trail[n].stage)
  <2>1. trail[n] \in Record /\ trail[n].stage \in Stage
    BY DEF Standing, OfApplication, TypeOK
  <2>2. trail[n].actor \in Staff
    BY <2>1, RecordFields
  <2> QED
    BY <2>1, <2>2 DEF Signers, Signed
<1>2. \A p \in Signed : \E st \in Stage, v \in Staff : v \in Signers(st) /\ p = <<st, v>>
  BY <1>1 DEF Signed
<1>3. ASSUME NEW st \in Stage, NEW v \in Signers(st), NEW w \in Signers(st)
      PROVE  v = w
  BY DEF SignaturesBackStatus, Signers, Signed
<1>4. \A st \in Stage : \A v \in Signers(st) : <<st, v>> \in Signed
  BY DEF Signers
<1>5. Stage = {"advisor", "chief", "dean"}
  BY DEF Stage
<1>6. ASSUME status \in Early
      PROVE  Signed = {}
  <2>1. Signers("advisor") = {} /\ Signers("chief") = {} /\ Signers("dean") = {}
    BY <1>6, StatusKinds DEF SignaturesBackStatus, Early
  <2> QED
    BY <1>2, <1>5, <2>1
<1>7. ASSUME status = "pending_chief"
      PROVE  \E a \in Signers("advisor") : Signed = {<<"advisor", a>>}
  <2>1. Signers("advisor") # {} /\ Signers("chief") = {} /\ Signers("dean") = {}
    BY <1>7 DEF SignaturesBackStatus, Settled
  <2>2. PICK a \in Signers("advisor") : TRUE
    BY <2>1
  <2>3. Signed = {<<"advisor", a>>}
    BY <1>2, <1>3, <1>4, <1>5, <2>1, <2>2
  <2> QED
    BY <2>3
<1>8. ASSUME status = "pending_dean"
      PROVE  \E a \in Signers("advisor"), c \in Signers("chief") :
                 Signed = {<<"advisor", a>>, <<"chief", c>>}
  <2>1. Signers("advisor") # {} /\ Signers("chief") # {} /\ Signers("dean") = {}
    BY <1>8 DEF SignaturesBackStatus, Settled
  <2>2. PICK a \in Signers("advisor"), c \in Signers("chief") : TRUE
    BY <2>1
  <2>3. Signed = {<<"advisor", a>>, <<"chief", c>>}
    BY <1>2, <1>3, <1>4, <1>5, <2>1, <2>2
  <2> QED
    BY <2>3
<1> QED
  BY <1>6, <1>7, <1>8

LEMMA SignOffStutters ==
  ASSUME PhaseOf(status') = PhaseOf(status), Signed' = Signed, Paid' = Paid
  PROVE  [SignOffOf!Next]_(SignOffOf!signOffVars)
  BY DEF SignOffOf!signOffVars

LEMMA UnpaidEarly ==
  /\ status \in Early => Paid = FALSE
  /\ status' \in Early => Paid' = FALSE
  BY StatusKinds DEF Paid

LEMMA PaidKept ==
  ASSUME status \notin Early, status \in Status, status' \in Status, status' \notin Early, items' = items
  PROVE  Paid' = Paid
  BY StatusKinds DEF Paid, Granted

LEMMA SignFirstStep ==
  ASSUME TypeOK, TypeOK', SignaturesBackStatus, GrantsAreCovered', NEW u \in Staff,
         NEW award \in [items -> Amount], NEW source, NEW says, AdvisorApproves(u, award, source, says)
  PROVE  SignOffOf!SignFirst(u)
<1>1. /\ status = "pending_advisor" /\ "advisor" \in Keys[u] /\ "advisor" \in Stage
      /\ trail' = Append(trail, Note("advisor", "approve", u))
      /\ status' = IF NothingGranted(items') THEN "approved" ELSE "pending_chief"
  BY AfterSigningIs DEF AdvisorApproves, Stage
<1>2. Signed = {} /\ Signed' = {<<"advisor", u>>}
  BY <1>1, SignedAt, ApprovalStands DEF Early
<1>3. Granted' <=> ~NothingGranted(items')
  <2>1. status' \in Settled \cup {"pending_chief", "pending_dean"}
    BY <1>1 DEF Settled
  <2>2. \A i \in items' : 0 <= i.granted /\ i.granted \in Int
    <3>1. \A i \in items' : i.granted \in Amount \cup {Undecided}
      BY DEF TypeOK, Item
    <3> QED
      BY <2>1, <3>1, NumberAssumption DEF GrantsAreCovered, Amount, Undecided
  <2> QED
    BY <2>2 DEF Granted, NothingGranted
<1>4. Paid' = Granted'
  <2>1. status' \in Settled \cup {"pending_chief", "pending_dean"}
    BY <1>1 DEF Settled
  <2> QED
    BY <2>1 DEF Paid, Granted
<1>5. PhaseOf(status) = "review" /\ PhaseOf(status') = IF Paid' THEN "review" ELSE "granted"
  BY <1>1, <1>3, <1>4, PhaseIs DEF TypeOK, Pending
<1>6. Paid' \in BOOLEAN
  BY <1>4 DEF Granted
<1> QED
  BY <1>1, <1>2, <1>5, <1>6 DEF SignOffOf!SignFirst

LEMMA SignLaterStep ==
  ASSUME TypeOK, TypeOK', SignaturesBackStatus, PaidInv, NEW u \in Staff, NEW says,
         LaterStageApproves(u, says)
  PROVE  SignOffOf!SignSecond(u) \/ SignOffOf!SignLast(u)
<1>0. "advisor" \in Stage /\ "chief" \in Stage /\ "dean" \in Stage
  BY DEF Stage
<1>1. ~NothingGranted(items) /\ items' = items
  BY GrantGoesOn DEF LaterStageApproves, PaidInv
<1>2. CASE status = "pending_chief"
  <2>1. /\ "chief" \in Keys[u] /\ u \notin LastSigner("advisor") /\ status' = "pending_dean"
        /\ trail' = Append(trail, Note("chief", "approve", u))
    BY <1>0, <1>1, <1>2, AfterSigningIs DEF LaterStageApproves, StageOf, DifferentActor
  <2>2. PICK a \in Signers("advisor") : Signed = {<<"advisor", a>>}
    BY <1>2, SignedAt
  <2>3. a \in Staff \ {u}
    BY <1>0, <2>1, <2>2, SignerIsLast DEF Signers
  <2>4. Signed' = Signed \cup {<<"chief", u>>}
    BY <1>0, <2>1, ApprovalStands
  <2>5. PhaseOf(status) = "review" /\ PhaseOf(status') = "review"
    BY <1>2, <2>1, PhaseIs DEF TypeOK, Pending
  <2>6. Paid' = Paid
    BY <1>1, <1>2, <2>1, PaidKept DEF TypeOK, Early
  <2> QED
    BY <2>1, <2>2, <2>3, <2>4, <2>5, <2>6 DEF SignOffOf!SignSecond
<1>3. CASE status = "pending_dean"
  <2>1. /\ "dean" \in Keys[u] /\ u \notin LastSigner("chief") /\ status' = "approved"
        /\ trail' = Append(trail, Note("dean", "approve", u))
    BY <1>0, <1>1, <1>3, AfterSigningIs DEF LaterStageApproves, StageOf, DifferentActor
  <2>2. PICK a \in Signers("advisor"), c \in Signers("chief") :
            Signed = {<<"advisor", a>>, <<"chief", c>>}
    BY <1>3, SignedAt
  <2>3. a \in Staff /\ c \in Staff \ {u}
    BY <1>0, <2>1, <2>2, SignerIsLast DEF Signers
  <2>4. Signed' = Signed \cup {<<"dean", u>>}
    BY <1>0, <2>1, ApprovalStands
  <2>5. PhaseOf(status) = "review" /\ PhaseOf(status') = "granted"
    BY <1>3, <2>1, PhaseIs DEF TypeOK, Pending
  <2>6. Paid' = Paid
    BY <1>1, <1>3, <2>1, PaidKept DEF TypeOK, Early
  <2> QED
    BY <2>1, <2>2, <2>3, <2>4, <2>5, <2>6 DEF SignOffOf!SignLast
<1> QED
  BY <1>2, <1>3 DEF LaterStageApproves

\* The closing report passes on, with signatures and grants as they are.
LEMMA CloseStep ==
  ASSUME TypeOK, TypeOK', Signed' = Signed, items' = items,
         <<status, status'>> \in {<<"approved", "closing">>, <<"closing", "approved">>, <<"closing", "closed">>}
  PROVE  SignOffOf!Close
<1>1. status \notin Early /\ status' \notin Early
  BY DEF Early
<1>2. Paid' = Paid
  BY <1>1, PaidKept DEF TypeOK
<1>3. <<PhaseOf(status), PhaseOf(status')>> \in
        {<<"granted", "closing">>, <<"closing", "granted">>, <<"closing", "closed">>}
  BY PhaseIs DEF TypeOK
<1> QED
  BY <1>2, <1>3 DEF SignOffOf!Close

LEMMA RemoveStep ==
  ASSUME TypeOK', Purge
  PROVE  SignOffOf!Remove
<1>1. status' = "deleted" /\ status' \in Early /\ Signed' = {}
  BY PurgeVoids DEF Early, Signed
<1> QED
  BY <1>1, UnpaidEarly, PhaseIs DEF SignOffOf!Remove, TypeOK

LEMMA SignOffMapped ==
  ASSUME TypeOK, TypeOK', WorkflowInv, WorkflowInv', [Next]_vars
  PROVE  [SignOffOf!Next]_(SignOffOf!signOffVars)
<1>0. UNCHANGED trail => Signed' = Signed
  BY SignaturesKept DEF ClosingOnly
<1>1. CASE UNCHANGED <<status, items, trail>>
  BY <1>0, <1>1, SignOffStutters DEF Paid, Granted
<1>2. ASSUME NEW b \in Bodies, CreateActivity(b)
      PROVE  [SignOffOf!Next]_(SignOffOf!signOffVars)
  <2>1. status = "none" /\ status' = "draft" /\ UNCHANGED trail
    BY <1>2 DEF CreateActivity
  <2> QED
    BY <1>0, <2>1, SignOffStutters, UnpaidEarly, PhaseIs DEF TypeOK, Early
<1>3. ASSUME NEW t \in Txn, ClubStep(t)
      PROVE  [SignOffOf!Next]_(SignOffOf!signOffVars)
  <2>1. CASE Load(t) \/ Rollback(t) \/ SaveCloseDraft(t) \/ UploadPhoto(t) \/ DeletePhoto(t)
    BY <1>1, <2>1 DEF Load, Rollback, rowVars, SaveCloseDraft, UploadPhoto, DeletePhoto
  <2>2. ASSUME NEW b \in Bodies, SaveForm(t, b)
        PROVE  [SignOffOf!Next]_(SignOffOf!signOffVars)
    <3>1. status \in Early /\ UNCHANGED <<status, trail>>
      BY <2>2, StatusKinds DEF SaveForm
    <3> QED
      BY <1>0, <3>1, SignOffStutters, UnpaidEarly
  <2>3. CASE SubmitActivity(t)
    <3>1. status \in {"draft", "rejected"} /\ status' = "pending_advisor" /\ UNCHANGED trail
      BY <2>3 DEF SubmitActivity, Editable
    <3>2. SignOffOf!Ask
      BY <1>0, <3>1, UnpaidEarly, PhaseIs DEF SignOffOf!Ask, TypeOK, Early, Pending
    <3> QED
      BY <3>2 DEF SignOffOf!Next
  <2>4. CASE DeleteByClub(t)
    BY <2>4, RemoveStep DEF DeleteByClub, SignOffOf!Next
  <2>5. CASE SubmitClose(t)
    <3>1. status = "approved" /\ status' = "closing" /\ UNCHANGED <<items, trail>>
      BY <2>5 DEF SubmitClose
    <3> QED
      BY <1>0, <3>1, CloseStep DEF SignOffOf!Next
  <2> QED
    BY <1>3, <2>1, <2>2, <2>3, <2>4, <2>5 DEF ClubStep
<1>4. ASSUME NEW u \in Staff, OfficeStep(u)
      PROVE  [SignOffOf!Next]_(SignOffOf!signOffVars)
  <2>0. SignaturesBackStatus /\ PaidInv /\ GrantsAreCovered'
    BY DEF WorkflowInv
  <2>1. ASSUME NEW award \in [items -> Amount], NEW source, NEW says,
               AdvisorApproves(u, award, source, says)
        PROVE  SignOffOf!Next
    BY <2>0, <2>1, SignFirstStep DEF SignOffOf!Next
  <2>2. ASSUME NEW says, LaterStageApproves(u, says)
        PROVE  SignOffOf!Next
    BY <2>0, <2>2, SignLaterStep DEF SignOffOf!Next
  <2>3. CASE Reject(u)
    <3>1. /\ status \in Pending /\ status' = "rejected" /\ StageOf(status) \in Stage
          /\ trail' = Append(trail, Note(StageOf(status), "reject", u))
      BY <2>3, StageOfTyped DEF Reject
    <3>2. Signed' = {}
      BY <3>1, RefusalVoids
    <3>3. SignOffOf!Refuse
      BY <3>1, <3>2, UnpaidEarly, PhaseIs DEF SignOffOf!Refuse, TypeOK, Early
    <3> QED
      BY <3>3 DEF SignOffOf!Next
  <2>4. CASE CloseApprove(u) \/ CloseReject(u) \/ Unlock(u)
    <3>1. ClosingOnly
      <4>1. /\ Note("close", "unlock", u) \in Record /\ Note("close", "unlock", u).stage = "close"
            /\ Note("close", "reject", u) \in Record /\ Note("close", "reject", u).stage = "close"
            /\ Note("close", "approve", u) \in Record /\ Note("close", "approve", u).stage = "close"
        BY NoteTyped DEF Note
      <4> QED
        BY <2>4, <4>1 DEF CloseApprove, CloseReject, Unlock, ClosingOnly
    <3>2. Signed' = Signed
      BY <3>1, SignaturesKept
    <3>3. CASE CloseApprove(u) \/ CloseReject(u)
      BY <3>2, <3>3, CloseStep DEF CloseApprove, CloseReject, SignOffOf!Next
    <3>4. CASE Unlock(u)
      BY <3>2, <3>4, SignOffStutters DEF Unlock, Paid, Granted
    <3> QED
      BY <2>4, <3>3, <3>4
  <2> QED
    BY <1>4, <2>1, <2>2, <2>3, <2>4 DEF OfficeStep
<1>5. CASE DeleteByOffice
  BY <1>5, RemoveStep DEF DeleteByOffice, SignOffOf!Next
<1>6. CASE Midnight \/ UNCHANGED vars
  BY <1>1, <1>6 DEF Midnight, rowVars, vars
<1> QED
  BY <1>2, <1>3, <1>4, <1>5, <1>6 DEF Next

LEMMA SignOffInit == Init => SignOffOf!Init
<1> SUFFICES ASSUME Init PROVE SignOffOf!Init
  OBVIOUS
<1>1. status = "none" /\ status \in Status /\ trail = <<>> /\ items = {}
  BY EmptyRowTyped DEF Init
<1>2. Signed = {} /\ Paid = FALSE
  BY <1>1, UnpaidEarly DEF Signed, Standing, Early
<1> QED
  BY <1>1, <1>2, PhaseIs DEF SignOffOf!Init

(* The handlers and their transactions implement the signing of SignOff:     *)
(* every approval is a signature in its turn by someone else than the one    *)
(* before, every refusal voids them all, and nothing else touches them.      *)
THEOREM SignOffImplemented == Spec => SignOffSpec
<1>1. TypeOK /\ WorkflowInv /\ (TypeOK /\ WorkflowInv)' /\ [Next]_vars
        => [SignOffOf!Next]_(SignOffOf!signOffVars)
  BY SignOffMapped
<1> QED
  BY <1>1, SignOffInit, WorkflowInvariant, PTL DEF Spec, SignOffSpec, SignOffOf!Spec
=============================================================================
