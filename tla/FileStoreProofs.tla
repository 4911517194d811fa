--------------------------- MODULE FileStoreProofs ---------------------------
(***************************************************************************)
(* Theorems about FileStore, for every set of files, clubs, documents,     *)
(* contents and requests, every quota and every limit.                     *)
(***************************************************************************)
EXTENDS FileStore, FiniteSetTheorems, TLAPS

Uploads == {t \in Txn : pc[t] \in {"open", "settled", "flushed"}}

\* What a request works on, by the step it has come to.
HandsTyped ==
    /\ \A t \in Uploads : /\ ask[t] \in Asks /\ file[t] \in File
                          /\ target[t] = ask[t].subject
    /\ \A t \in Txn \ Uploads : file[t] = NoFile
    /\ \A t \in Txn : /\ pc[t] = "removing" => target[t] \in Subject
                      /\ pc[t] = "purging" => target[t] \in Document
                      /\ pc[t] = "collected" => target[t] \in Club

TypeInv == TypeOK /\ HandsTyped

\* The locks exclude each other.
LockInv ==
    /\ \A t, u \in Txn : t # u => Locked(t) \cap Locked(u) = {}
    /\ \A t, u \in Txn : HoldsStorage(t) /\ HoldsStorage(u) => t = u

\* A new file is nobody else's, in place from the rename on.
NewInv ==
    \A t \in Uploads :
        /\ row[file[t]] = NoRow
        /\ place[file[t]] = IF pc[t] = "open" THEN "part" ELSE "placed"
        /\ \A u \in Txn : file[t] \notin drop[u] /\ (u # t => file[u] # file[t])

\* What a request has on its list: the old image, the rows it has locked, or
\* paths whose rows are gone.
DropRight(t) ==
    /\ t \in Uploads =>
          drop[t] = IF ask[t].slot = "image" THEN {image[ask[t].club]} \ {NoFile} ELSE {}
    /\ pc[t] = "removing" => \E f \in File : drop[t] = {f}
    /\ pc[t] \in {"removing", "purging"} =>
          \A f \in drop[t] : row[f] = NoRow \/ row[f].subject = target[t]
    /\ pc[t] = "purging" => Of(target[t]) \subseteq drop[t]
    /\ pc[t] = "collected" =>
          \A f \in drop[t] : row[f] = NoRow \/ f \in Stored(target[t]) \cup Of(target[t])
    /\ pc[t] = "unlinking" =>
          \A f \in drop[t] : row[f] = NoRow \/ f \in unsure

DropInv == \A t \in Txn : DropRight(t)

\* FilesHaveRows, where only a list that is being worked off counts.
DiskInv ==
    /\ RowsHaveFiles
    /\ \A f \in File : place[f] # "none" =>
          f \in Kept \cup debris \/ \E t \in Txn : f = file[t] \/ (pc[t] = "unlinking" /\ f \in drop[t])

\* What an upload is about to refer to is there.
StrayInv ==
    /\ NoStrayRows
    /\ \A t \in Uploads : target[t] \notin gone
    /\ \A t \in Txn : pc[t] = "flushed" => ask[t].club \notin gone

\* Under the storage lock the room and the novelty found stay; under the
\* document's lock what it holds does not grow.
LimitInv ==
    /\ QuotaKept /\ CapKept /\ NoDuplicateContent
    /\ \A t \in Txn : HoldsStorage(t) => Fits(ask[t]) /\ ~Duplicate(ask[t])
    /\ \A t \in Uploads : target[t] \in Document => Usage(Of(target[t])) <= before[t]

FileInv == TypeInv /\ LockInv /\ NewInv /\ DropInv /\ ImagesMatch

-----------------------------------------------------------------------------
(* What the files of a set add up to *)

LEMMA AskFields ==
  ASSUME NEW a \in Asks
  PROVE  /\ a \in Row /\ a # NoRow /\ a.club \in Club /\ a.subject \in Subject
         /\ a.content \in Content /\ Size[a.content] \in Nat \ {0}
         /\ a.slot = "image" <=> a.subject \in Club
         /\ a.slot = "image" => a.subject = a.club
         /\ a.slot = "eval" <=> a.subject \in Rubric
         /\ a.subject \in Document => a.club = OwnerOf[a.subject]
<1>1. a \in Row /\ a # NoRow
  BY AskAssumption
<1>2. /\ a.club \in Club /\ a.subject \in Subject /\ a.content \in Content
      /\ a.slot \in {"photo", "doc", "eval", "image"}
  BY <1>1 DEF Row
<1>3. Size[a.content] \in Nat \ {0}
  BY <1>2, SizeAssumption
<1>4. CASE a.slot = "image"
  <2>1. a.subject = a.club
    BY <1>4, AskAssumption
  <2> QED
    BY <1>1, <1>2, <1>3, <1>4, <2>1, SubjectAssumption
<1>5. CASE a.slot = "eval"
  <2>1. a.subject \in Rubric
    BY <1>5, AskAssumption
  <2> QED
    BY <1>1, <1>2, <1>3, <1>5, <2>1, SubjectAssumption
<1>6. CASE a.slot \in {"photo", "doc"}
  <2>1. a.subject \in Document /\ a.club = OwnerOf[a.subject]
    BY <1>6, AskAssumption
  <2> QED
    BY <1>1, <1>2, <1>3, <1>6, <2>1, SubjectAssumption
<1> QED
  BY <1>2, <1>4, <1>5, <1>6

\* A file is as many blocks as its size.
LEMMA OneFileCount ==
  ASSUME NEW f, NEW n \in Nat
  PROVE  IsFiniteSet({f} \X (1 .. n)) /\ Cardinality({f} \X (1 .. n)) = n
<1>1. IsFiniteSet(1 .. n) /\ Cardinality(1 .. n) = n
  BY FS_Interval
<1>2. IsFiniteSet({f}) /\ Cardinality({f}) = 1
  BY FS_Singleton
<1>3. /\ IsFiniteSet({f} \X (1 .. n))
      /\ Cardinality({f} \X (1 .. n)) = Cardinality({f}) * Cardinality(1 .. n)
  BY <1>1, <1>2, FS_Product, Zenon
<1>4. Cardinality({f}) * Cardinality(1 .. n) = n
  BY <1>1, <1>2
<1> QED
  BY <1>3, <1>4, Zenon

LEMMA BlocksFinite ==
  ASSUME TypeInv, NEW S \in SUBSET Kept
  PROVE  IsFiniteSet(Blocks(S)) /\ Usage(S) \in Nat
<1> DEFINE g(f) == {f} \X (1 .. Size[row[f].content])
           F == {g(f) : f \in S}
           h == [f \in S |-> g(f)]
<1>1. IsFiniteSet(S)
  BY FileAssumption, FS_Subset DEF Kept
<1>2. h \in Surjection(S, F)
  BY DEF Surjection
<1>3. IsFiniteSet(F)
  BY <1>1, <1>2, FS_Surjection
<1>4. ASSUME NEW f \in S PROVE IsFiniteSet(g(f))
  <2>1. Size[row[f].content] \in Nat
    BY AskFields DEF Kept, TypeInv, TypeOK
  <2> QED
    BY <2>1, OneFileCount
<1>5. \A U \in F : IsFiniteSet(U)
  BY <1>4
<1> HIDE DEF F
<1>6. IsFiniteSet(UNION F)
  BY <1>3, <1>5, FS_UNION
<1>7. IsFiniteSet(Blocks(S))
  BY <1>6 DEF F, Blocks
<1> QED
  BY <1>7, FS_CardinalityType DEF Usage

\* Fewer files are no more blocks.
LEMMA UsageShrinks ==
  ASSUME TypeInv, TypeInv', NEW S \in SUBSET Kept, NEW T \in SUBSET Kept',
         T \subseteq S, \A f \in T : row'[f] = row[f]
  PROVE  Cardinality(Blocks(T)') <= Usage(S) /\ Cardinality(Blocks(T)') \in Nat
<1>1. Blocks(T)' \subseteq Blocks(S)
  BY DEF Blocks
<1>2. IsFiniteSet(Blocks(S))
  BY BlocksFinite
<1> QED
  BY <1>1, <1>2, FS_Subset, FS_CardinalityType DEF Usage

\* One more file is at most its size more.
LEMMA UsageAdds ==
  ASSUME TypeInv, TypeInv', NEW S \in SUBSET Kept, NEW T \in SUBSET Kept', NEW f \in File,
         T \subseteq S \cup {f}, row'[f] \in Asks, \A g \in T \ {f} : row'[g] = row[g]
  PROVE  /\ Cardinality(Blocks(T)') <= Usage(S) + Size[row'[f].content]
         /\ Cardinality(Blocks(T)') \in Nat
<1> DEFINE n == Size[row'[f].content]
           new == {f} \X (1 .. n)
<1>1. n \in Nat
  BY AskFields
<1> HIDE DEF n
<1>2. IsFiniteSet(new) /\ Cardinality(new) = n
  BY <1>1, OneFileCount
<1>3. Blocks(T)' \subseteq Blocks(S) \cup new
  BY DEF Blocks, n
<1>4. IsFiniteSet(Blocks(S)) /\ Cardinality(Blocks(S)) \in Nat
  BY BlocksFinite DEF Usage
<1> HIDE DEF new
<1>5. /\ IsFiniteSet(Blocks(S) \cup new)
      /\ Cardinality(Blocks(S) \cup new)
            = Cardinality(Blocks(S)) + n - Cardinality(Blocks(S) \cap new)
  BY <1>2, <1>4, FS_Union
<1>6. Cardinality(Blocks(S) \cap new) \in Nat
  BY <1>4, FS_Intersection, FS_CardinalityType
<1>7. /\ Cardinality(Blocks(T)') <= Cardinality(Blocks(S) \cup new)
      /\ Cardinality(Blocks(T)') \in Nat
  BY <1>3, <1>5, FS_Subset, FS_CardinalityType
<1> QED
  BY <1>1, <1>4, <1>5, <1>6, <1>7 DEF Usage, n

-----------------------------------------------------------------------------
(* Type correctness *)

LEMMA FinishTyped ==
  ASSUME TypeInv, NEW t \in Txn, NEW P \in SUBSET File, Finish(t, P)
  PROVE  /\ pc' \in [Txn -> {"idle", "open", "settled", "flushed", "removing", "purging", "collected", "unlinking"}]
         /\ target' \in [Txn -> Subject \cup {NoSubject}]
         /\ ask' \in [Txn -> Asks \cup {NoRow}]
         /\ file' \in [Txn -> File \cup {NoFile}]
         /\ before' \in [Txn -> Nat]
         /\ drop' \in [Txn -> SUBSET File]
         /\ HandsTyped'
<1>1. /\ pc' \in [Txn -> {"idle", "open", "settled", "flushed", "removing", "purging", "collected", "unlinking"}]
      /\ target' \in [Txn -> Subject \cup {NoSubject}]
      /\ ask' \in [Txn -> Asks \cup {NoRow}]
      /\ file' \in [Txn -> File \cup {NoFile}]
      /\ before' \in [Txn -> Nat]
      /\ drop' \in [Txn -> SUBSET File]
  BY DEF Finish, TypeInv, TypeOK
<1>2. HandsTyped'
  BY DEF Finish, TypeInv, TypeOK, HandsTyped, Uploads
<1> QED
  BY <1>1, <1>2

\* What the steps of an upload change of the other requests: nothing.
LEMMA InsertTyped ==
  ASSUME TypeInv, NEW t \in Txn, Insert(t)
  PROVE  /\ t \in Uploads /\ file[t] \in File /\ ask[t] \in Asks
         /\ row' \in [File -> Asks \cup {NoRow}]
         /\ image' \in [Club -> File \cup {NoFile}]
<1>1. t \in Uploads /\ file[t] \in File /\ ask[t] \in Asks
  BY DEF Insert, TypeInv, HandsTyped, Uploads
<1> QED
  BY <1>1 DEF Insert, TypeInv, TypeOK

LEMMA UploadingTyped ==
  ASSUME TypeInv, NEW t \in Txn, Uploading(t)
  PROVE  TypeInv'
<1>1. ASSUME NEW a \in Asks, NEW f \in File, BeginUpload(t, a, f)
      PROVE  TypeInv'
  <2>1. a.subject \in Subject /\ a.club \in Club
    BY AskFields
  <2>2. Usage(Of(a.subject)) \in Nat
    BY BlocksFinite DEF Of
  <2>3. TypeOK'
    BY <1>1, <2>1, <2>2 DEF BeginUpload, TypeInv, TypeOK, dataVars, pastVars
  <2>4. HandsTyped'
    BY <1>1 DEF BeginUpload, TypeInv, TypeOK, HandsTyped, Uploads
  <2> QED
    BY <2>3, <2>4 DEF TypeInv
<1>2. CASE Settle(t)
  <2>1. file[t] \in File
    BY <1>2 DEF Settle, TypeInv, HandsTyped, Uploads
  <2>2. TypeOK'
    BY <1>2, <2>1 DEF Settle, TypeInv, TypeOK, dataVars, pastVars
  <2>3. HandsTyped'
    BY <1>2 DEF Settle, TypeInv, TypeOK, HandsTyped, Uploads
  <2> QED
    BY <2>2, <2>3 DEF TypeInv
<1>3. CASE Flush(t)
  <2>1. TypeOK'
    BY <1>3 DEF Flush, TypeInv, TypeOK, dataVars, pastVars
  <2>2. HandsTyped'
    BY <1>3 DEF Flush, TypeInv, TypeOK, HandsTyped, Uploads
  <2> QED
    BY <2>1, <2>2 DEF TypeInv
<1>4. CASE CommitUpload(t)
  <2>1. drop[t] \in SUBSET File
    BY DEF TypeInv, TypeOK
  <2> QED
    BY <1>4, <2>1, InsertTyped, FinishTyped DEF CommitUpload, Insert, TypeInv, TypeOK, pastVars
<1>5. CASE CommitUnacknowledged(t)
  <2>1. file[t] \in File /\ drop[t] \in SUBSET File
    BY <1>5, InsertTyped DEF CommitUnacknowledged, TypeInv, TypeOK
  <2> QED
    BY <1>5, <2>1, InsertTyped, FinishTyped DEF CommitUnacknowledged, Insert, TypeInv, TypeOK
<1> QED
  BY <1>1, <1>2, <1>3, <1>4, <1>5 DEF Uploading

LEMMA BeginTyped ==
  ASSUME TypeInv, NEW t \in Txn, NEW s \in Subject, NEW P \in SUBSET File,
         NEW step \in {"removing", "purging", "collected"}, Begin(t, step, s, P),
         step = "purging" => s \in Document, step = "collected" => s \in Club,
         UNCHANGED place
  PROVE  TypeInv'
<1>1. TypeOK'
  BY DEF Begin, TypeInv, TypeOK, dataVars, pastVars
<1>2. HandsTyped'
  BY DEF Begin, TypeInv, TypeOK, HandsTyped, Uploads
<1> QED
  BY <1>1, <1>2 DEF TypeInv

LEMMA RemovingTyped ==
  ASSUME TypeInv, NEW t \in Txn, Removing(t)
  PROVE  TypeInv'
<1>1. ASSUME NEW f \in File, RemoveFile(t, f) PROVE TypeInv'
  <2>1. row[f].subject \in Subject
    BY <1>1, AskFields DEF RemoveFile, TypeInv, TypeOK
  <2> QED
    BY <1>1, <2>1, BeginTyped DEF RemoveFile
<1>2. ASSUME NEW d \in Document, PurgeDocument(t, d) PROVE TypeInv'
  <2>1. d \in Subject /\ Of(d) \in SUBSET File
    BY DEF Subject, Of, Kept
  <2> QED
    BY <1>2, <2>1, BeginTyped DEF PurgeDocument
<1>3. CASE CommitRemoval(t)
  <2>1. drop[t] \in SUBSET File
    BY DEF TypeInv, TypeOK
  <2>2. /\ row' \in [File -> Asks \cup {NoRow}]
        /\ image' \in [Club -> File \cup {NoFile}]
        /\ gone' \subseteq Document \cup Club
    BY <1>3 DEF CommitRemoval, TypeInv, TypeOK, HandsTyped
  <2> QED
    BY <1>3, <2>1, <2>2, FinishTyped DEF CommitRemoval, TypeInv, TypeOK, pastVars
<1>4. ASSUME NEW c \in Club, RemoveImage(t, c) PROVE TypeInv'
  <2>1. c \in Subject /\ {image[c]} \in SUBSET File
    BY <1>4 DEF RemoveImage, Subject, TypeInv, TypeOK
  <2> QED
    BY <1>4, <2>1, BeginTyped DEF RemoveImage
<1>5. ASSUME NEW c \in Club, CollectPaths(t, c) PROVE TypeInv'
  <2>1. c \in Subject /\ Stored(c) \cup Of(c) \in SUBSET File
    BY DEF Subject, Stored, Of, Kept
  <2> QED
    BY <1>5, <2>1, BeginTyped DEF CollectPaths
<1>6. ASSUME NEW c \in Club, DeleteClub(t, c) PROVE TypeInv'
  <2>1. drop[t] \cup Of(c) \in SUBSET File /\ Stored(c) \subseteq File
    BY DEF TypeInv, TypeOK, Of, Stored, Kept
  <2>2. /\ row' \in [File -> Asks \cup {NoRow}]
        /\ image' \in [Club -> File \cup {NoFile}]
        /\ gone' \subseteq Document \cup Club
        /\ debris' \subseteq File
    BY <1>6, <2>1 DEF DeleteClub, TypeInv, TypeOK, Family
  <2> QED
    BY <1>6, <2>1, <2>2, FinishTyped DEF DeleteClub, TypeInv, TypeOK
<1> QED
  BY <1>1, <1>2, <1>3, <1>4, <1>5, <1>6 DEF Removing

LEMMA EndingTyped ==
  ASSUME TypeInv,
         NEW t \in Txn, Abort(t) \/ \E f \in File : Unlink(t, f) \/ UnlinkFails(t, f)
  PROVE  TypeInv'
<1>1. CASE Abort(t)
  <2>1. {file[t]} \ {NoFile} \in SUBSET File
    BY DEF TypeInv, TypeOK
  <2> QED
    BY <1>1, <2>1, FinishTyped DEF Abort, TypeInv, TypeOK, dataVars, pastVars
<1>2. ASSUME NEW f \in File, Unlinked(t, f), UNCHANGED debris \/ debris' = debris \cup {f},
             UNCHANGED place \/ place' = [place EXCEPT ![f] = "none"]
      PROVE  TypeInv'
  <2>1. TypeOK'
    BY <1>2 DEF Unlinked, TypeInv, TypeOK, dataVars
  <2>2. HandsTyped'
    BY <1>2 DEF Unlinked, TypeInv, TypeOK, HandsTyped, Uploads
  <2> QED
    BY <2>1, <2>2 DEF TypeInv
<1> QED
  BY <1>1, <1>2 DEF Unlink, UnlinkFails

LEMMA CrashTyped ==
  ASSUME TypeInv, Crash
  PROVE  TypeInv'
<1>1. TypeOK'
  BY DEF Crash, TypeInv, TypeOK, dataVars
<1>2. HandsTyped'
  BY DEF Crash, HandsTyped, Uploads
<1> QED
  BY <1>1, <1>2 DEF TypeInv

LEMMA TypeInit == Init => TypeInv
  BY FileAssumption, SubjectAssumption DEF Init, TypeInv, TypeOK, HandsTyped, Uploads

LEMMA TypeStep == TypeInv /\ [Next]_vars => TypeInv'
<1> SUFFICES ASSUME TypeInv, [Next]_vars PROVE TypeInv'
  OBVIOUS
<1>1. CASE UNCHANGED vars
  BY <1>1 DEF vars, dataVars, txnVars, pastVars, TypeInv, TypeOK, HandsTyped, Uploads
<1> QED
  BY <1>1, UploadingTyped, RemovingTyped, EndingTyped, CrashTyped DEF Next

(* Every reachable state has its type, and a request has in its hands what   *)
(* its step says.                                                            *)
THEOREM TypeCorrect == Spec => []TypeInv
  BY TypeInit, TypeStep, PTL DEF Spec

(* In particular what is stored stays a number: no sum of sizes is negative. *)
THEOREM TypeOKHolds == Spec => []TypeOK
<1>1. TypeInv => TypeOK
  BY DEF TypeInv
<1> QED
  BY <1>1, TypeCorrect, PTL

-----------------------------------------------------------------------------
(* Locks *)

\* A step of one request leaves what the others have in their hands.
OthersKept(t) ==
    \A u \in Txn \ {t} : /\ pc'[u] = pc[u] /\ target'[u] = target[u] /\ ask'[u] = ask[u]
                         /\ file'[u] = file[u] /\ before'[u] = before[u] /\ drop'[u] = drop[u]

Moves(t) == Uploading(t) \/ Removing(t) \/ Abort(t)
                \/ \E f \in File : Unlink(t, f) \/ UnlinkFails(t, f)

LEMMA FinishEffect ==
  ASSUME TypeInv, NEW t \in Txn, NEW P, Finish(t, P)
  PROVE  /\ OthersKept(t)
         /\ pc'[t] = IF P = {} THEN "idle" ELSE "unlinking"
         /\ file'[t] = NoFile /\ drop'[t] = P
         /\ t \notin Uploads' /\ Uploads' = Uploads \ {t}
         /\ Locked(t)' = {} /\ ~HoldsStorage(t)'
<1>1. /\ OthersKept(t)
      /\ pc'[t] = IF P = {} THEN "idle" ELSE "unlinking"
      /\ file'[t] = NoFile /\ drop'[t] = P
  BY DEF Finish, OthersKept, TypeInv, TypeOK
<1> QED
  BY <1>1 DEF Uploads, OthersKept, Locked, HoldsStorage

LEMMA BeginEffect ==
  ASSUME TypeInv, NEW t \in Txn, NEW step \in {"removing", "purging", "collected"},
         NEW s, NEW P, Begin(t, step, s, P)
  PROVE  /\ OthersKept(t) /\ t \notin Uploads /\ Uploads' = Uploads
         /\ pc'[t] = step /\ target'[t] = s /\ drop'[t] = P /\ file'[t] = NoFile
         /\ Locked(t)' \subseteq {s} /\ (step = "collected" => Locked(t)' = {})
         /\ ~HoldsStorage(t)'
         /\ row' = row /\ image' = image /\ gone' = gone /\ unsure' = unsure /\ debris' = debris
<1>1. /\ OthersKept(t) /\ pc[t] = "idle"
      /\ pc'[t] = step /\ target'[t] = s /\ drop'[t] = P /\ file'[t] = file[t]
      /\ row' = row /\ image' = image /\ gone' = gone /\ unsure' = unsure /\ debris' = debris
  BY DEF Begin, OthersKept, TypeInv, TypeOK, dataVars, pastVars
<1>2. t \notin Uploads /\ Uploads' = Uploads
  BY <1>1 DEF Uploads, OthersKept
<1>3. file[t] = NoFile
  BY <1>2 DEF TypeInv, HandsTyped
<1>4. Locked(t)' \subseteq {s} /\ (step = "collected" => Locked(t)' = {}) /\ ~HoldsStorage(t)'
  BY <1>1 DEF Locked, HoldsStorage
<1> QED
  BY <1>1, <1>2, <1>3, <1>4

LEMMA BeginUploadEffect ==
  ASSUME TypeInv, NEW t \in Txn, NEW a \in Asks, NEW f \in File, BeginUpload(t, a, f)
  PROVE  /\ OthersKept(t) /\ t \notin Uploads /\ Uploads' = Uploads \cup {t}
         /\ pc'[t] = "open" /\ target'[t] = a.subject /\ ask'[t] = a /\ file'[t] = f
         /\ before'[t] = Usage(Of(a.subject))
         /\ drop'[t] = IF a.slot = "image" THEN {image[a.club]} \ {NoFile} ELSE {}
         /\ place' = [place EXCEPT ![f] = "part"]
         /\ Locked(t)' \subseteq {a.subject} /\ ~HoldsStorage(t)'
         /\ row' = row /\ image' = image /\ gone' = gone /\ unsure' = unsure /\ debris' = debris
<1>1. /\ OthersKept(t) /\ pc[t] = "idle"
      /\ pc'[t] = "open" /\ target'[t] = a.subject /\ ask'[t] = a /\ file'[t] = f
      /\ before'[t] = Usage(Of(a.subject))
      /\ drop'[t] = IF a.slot = "image" THEN {image[a.club]} \ {NoFile} ELSE {}
      /\ place' = [place EXCEPT ![f] = "part"]
      /\ row' = row /\ image' = image /\ gone' = gone /\ unsure' = unsure /\ debris' = debris
  BY DEF BeginUpload, OthersKept, TypeInv, TypeOK, dataVars, pastVars
<1>2. t \notin Uploads /\ Uploads' = Uploads \cup {t}
  BY <1>1 DEF Uploads, OthersKept
<1>3. Locked(t)' \subseteq {a.subject} /\ ~HoldsStorage(t)'
  BY <1>1 DEF Locked, HoldsStorage
<1> QED
  BY <1>1, <1>2, <1>3

\* Going on with an upload.
LEMMA AdvanceEffect ==
  ASSUME TypeInv, NEW t \in Txn, Settle(t) \/ Flush(t)
  PROVE  /\ OthersKept(t) /\ t \in Uploads /\ Uploads' = Uploads
         /\ (pc[t] = "open" /\ pc'[t] = "settled") \/ (pc[t] = "settled" /\ pc'[t] = "flushed")
         /\ target' = target /\ ask' = ask /\ file' = file /\ before' = before /\ drop' = drop
         /\ Locked(t)' = Locked(t)
         /\ row' = row /\ image' = image /\ gone' = gone /\ unsure' = unsure /\ debris' = debris
<1>1. /\ OthersKept(t)
      /\ (pc[t] = "open" /\ pc'[t] = "settled") \/ (pc[t] = "settled" /\ pc'[t] = "flushed")
      /\ target' = target /\ ask' = ask /\ file' = file /\ before' = before /\ drop' = drop
      /\ row' = row /\ image' = image /\ gone' = gone /\ unsure' = unsure /\ debris' = debris
  <2>1. CASE Settle(t)
    BY <2>1 DEF Settle, OthersKept, TypeInv, TypeOK, dataVars, pastVars
  <2>2. CASE Flush(t)
    BY <2>2 DEF Flush, OthersKept, TypeInv, TypeOK, dataVars, pastVars
  <2> QED
    BY <2>1, <2>2
<1>2. t \in Uploads /\ Uploads' = Uploads
  BY <1>1 DEF Uploads, OthersKept
<1>3. Locked(t)' = Locked(t)
  BY <1>1 DEF Locked
<1> QED
  BY <1>1, <1>2, <1>3

LEMMA UnlinkedEffect ==
  ASSUME TypeInv, NEW t \in Txn, NEW f, Unlinked(t, f)
  PROVE  /\ OthersKept(t) /\ t \notin Uploads /\ Uploads' = Uploads
         /\ pc[t] = "unlinking" /\ f \in drop[t] /\ drop'[t] = drop[t] \ {f} /\ file'[t] = file[t]
         /\ pc'[t] = IF drop[t] = {f} THEN "idle" ELSE "unlinking"
         /\ Locked(t)' = {} /\ ~HoldsStorage(t)'
         /\ row' = row /\ image' = image /\ gone' = gone /\ unsure' = unsure
<1>1. /\ OthersKept(t)
      /\ pc[t] = "unlinking" /\ f \in drop[t] /\ drop'[t] = drop[t] \ {f} /\ file'[t] = file[t]
      /\ pc'[t] = IF drop[t] = {f} THEN "idle" ELSE "unlinking"
      /\ row' = row /\ image' = image /\ gone' = gone /\ unsure' = unsure
  BY DEF Unlinked, OthersKept, TypeInv, TypeOK, dataVars
<1>2. t \notin Uploads /\ Uploads' = Uploads
  BY <1>1 DEF Uploads, OthersKept
<1>3. Locked(t)' = {} /\ ~HoldsStorage(t)'
  BY <1>1 DEF Locked, HoldsStorage
<1> QED
  BY <1>1, <1>2, <1>3

\* A lock is taken only when nobody else holds it.
LEMMA LocksMove ==
  ASSUME TypeInv, NEW t \in Txn, Moves(t)
  PROVE  /\ OthersKept(t)
         /\ \A s \in Locked(t)' \ Locked(t) : RowFree(s)
         /\ HoldsStorage(t)' => HoldsStorage(t) \/ StorageFree
<1> DEFINE G == /\ OthersKept(t)
                /\ \A s \in Locked(t)' \ Locked(t) : RowFree(s)
                /\ HoldsStorage(t)' => HoldsStorage(t) \/ StorageFree
<1>1. ASSUME NEW a \in Asks, NEW f \in File, BeginUpload(t, a, f) PROVE G
  <2>1. RowFree(a.subject)
    BY <1>1 DEF BeginUpload
  <2>2. OthersKept(t) /\ Locked(t)' \subseteq {a.subject} /\ ~HoldsStorage(t)'
    BY <1>1, BeginUploadEffect
  <2> QED
    BY <2>1, <2>2
<1>2. CASE Settle(t) \/ Flush(t)
  BY <1>2, AdvanceEffect DEF Settle, Flush, HoldsStorage
<1>3. CASE CommitUpload(t) \/ CommitUnacknowledged(t)
  BY <1>3, FinishEffect DEF CommitUpload, CommitUnacknowledged
<1>4. ASSUME NEW f \in File, RemoveFile(t, f) PROVE G
  BY <1>4, BeginEffect DEF RemoveFile
<1>5. ASSUME NEW d \in Document, PurgeDocument(t, d) PROVE G
  BY <1>5, BeginEffect DEF PurgeDocument
<1>6. CASE CommitRemoval(t)
  BY <1>6, FinishEffect DEF CommitRemoval
<1>7. ASSUME NEW c \in Club, RemoveImage(t, c) PROVE G
  BY <1>7, BeginEffect DEF RemoveImage
<1>8. ASSUME NEW c \in Club, CollectPaths(t, c) PROVE G
  BY <1>8, BeginEffect DEF CollectPaths
<1>9. ASSUME NEW c \in Club, DeleteClub(t, c) PROVE G
  BY <1>9, FinishEffect DEF DeleteClub
<1>10. CASE Abort(t)
  BY <1>10, FinishEffect DEF Abort
<1>11. ASSUME NEW f \in File, Unlink(t, f) \/ UnlinkFails(t, f) PROVE G
  BY <1>11, UnlinkedEffect DEF Unlink, UnlinkFails
<1> QED
  BY <1>1, <1>2, <1>3, <1>4, <1>5, <1>6, <1>7, <1>8, <1>9, <1>10, <1>11 DEF Moves, Uploading, Removing

LEMMA LockStep ==
  ASSUME TypeInv, LockInv, [Next]_vars
  PROVE  LockInv'
<1>1. CASE UNCHANGED vars
  BY <1>1 DEF vars, dataVars, txnVars, LockInv, Locked, HoldsStorage
<1>2. CASE Crash
  BY <1>2 DEF Crash, LockInv, Locked, HoldsStorage
<1>3. ASSUME NEW t \in Txn, Moves(t) PROVE LockInv'
  <2>1. /\ \A u \in Txn \ {t} : Locked(u)' = Locked(u) /\ (HoldsStorage(u)' <=> HoldsStorage(u))
        /\ \A s \in Locked(t)' \ Locked(t) : RowFree(s)
        /\ HoldsStorage(t)' => HoldsStorage(t) \/ StorageFree
    BY <1>3, LocksMove DEF OthersKept, Locked, HoldsStorage
  <2>2. ASSUME NEW u \in Txn \ {t} PROVE Locked(t)' \cap Locked(u)' = {}
    BY <2>1 DEF LockInv, RowFree
  <2>3. ASSUME NEW u \in Txn \ {t}, HoldsStorage(t)', HoldsStorage(u)' PROVE FALSE
    BY <2>1, <2>3 DEF LockInv, StorageFree
  <2> QED
    BY <2>1, <2>2, <2>3 DEF LockInv
<1> QED
  BY <1>1, <1>2, <1>3 DEF Next, Moves

-----------------------------------------------------------------------------
(* What a step does to the files of the other requests *)

LEMMA ImageIsKept ==
  ASSUME TypeInv, ImagesMatch, NEW c \in Club, image[c] # NoFile
  PROVE  /\ image[c] \in Kept /\ row[image[c]].subject = c /\ row[image[c]].slot = "image"
<1>1. image[c] \in Of(c)
  BY DEF ImagesMatch
<1>2. image[c] \in Kept /\ row[image[c]].subject = c /\ row[image[c]] \in Asks
  BY <1>1 DEF Of, Kept, TypeInv, TypeOK
<1> QED
  BY <1>2, AskFields

\* Rows and places change only where the request's own files are; an image
\* only under the lock of its club.
HandsOnly(t) ==
    /\ \A f \in File : \/ row'[f] \in {row[f], NoRow}
                       \/ t \in Uploads /\ f = file[t] /\ row'[f] = ask[t] /\ pc[t] = "flushed"
    /\ \A f \in File : \/ place'[f] = place[f]
                       \/ t \in Uploads /\ f = file[t]
                       \/ f \in drop[t] /\ pc[t] = "unlinking"
                       \/ Fresh(f) /\ f = file'[t]
    /\ drop'[t] \subseteq drop[t] \cup Kept \cup {file[t]}
    /\ file'[t] \in {NoFile, file[t]} \/ Fresh(file'[t])
    /\ \A c \in Club : image'[c] = image[c] \/ c \in Locked(t) \/ RowFree(c)
    /\ unsure \subseteq unsure' /\ debris \subseteq debris'

LEMMA InsertHands ==
  ASSUME TypeInv, NEW t \in Txn, Insert(t)
  PROVE  /\ t \in Uploads /\ pc[t] = "flushed" /\ row'[file[t]] = ask[t]
         /\ \A f \in File \ {file[t]} : row'[f] = IF f \in drop[t] THEN NoRow ELSE row[f]
         /\ \A c \in Club : image'[c] = image[c] \/ c \in Locked(t)
         /\ ask[t].slot = "image" => image' = [image EXCEPT ![ask[t].club] = file[t]]
         /\ ask[t].slot # "image" => image' = image
         /\ gone' = gone /\ place' = place
<1>1. /\ t \in Uploads /\ file[t] \in File /\ ask[t] \in Asks /\ target[t] = ask[t].subject
  BY DEF Insert, TypeInv, HandsTyped, Uploads
<1>2. /\ pc[t] = "flushed" /\ row'[file[t]] = ask[t]
      /\ \A f \in File \ {file[t]} : row'[f] = IF f \in drop[t] THEN NoRow ELSE row[f]
      /\ ask[t].slot = "image" => image' = [image EXCEPT ![ask[t].club] = file[t]]
      /\ ask[t].slot # "image" => image' = image
      /\ gone' = gone /\ place' = place
  BY <1>1 DEF Insert
<1>3. ASSUME NEW c \in Club, image'[c] # image[c]
      PROVE  c \in Locked(t)
  <2>1. ask[t].slot = "image" /\ c = ask[t].club
    BY <1>2, <1>3 DEF TypeInv, TypeOK
  <2>2. c = target[t] /\ c \notin Rubric
    BY <1>1, <2>1, AskFields, SubjectAssumption
  <2> QED
    BY <1>2, <2>2 DEF Locked
<1> QED
  BY <1>1, <1>2, <1>3

LEMMA HandsMove ==
  ASSUME TypeInv, DropInv, ImagesMatch, NEW t \in Txn, Moves(t)
  PROVE  HandsOnly(t)
<1>1. ASSUME NEW a \in Asks, NEW f \in File, BeginUpload(t, a, f) PROVE HandsOnly(t)
  <2>1. Fresh(f)
    BY <1>1 DEF BeginUpload
  <2>2. a.slot = "image" => {image[a.club]} \ {NoFile} \subseteq Kept
    BY AskFields, ImageIsKept
  <2>3. /\ row' = row /\ image' = image /\ unsure' = unsure /\ debris' = debris /\ file'[t] = f
        /\ place' = [place EXCEPT ![f] = "part"]
        /\ drop'[t] = IF a.slot = "image" THEN {image[a.club]} \ {NoFile} ELSE {}
    BY <1>1, BeginUploadEffect
  <2>4. drop'[t] \subseteq Kept
    BY <2>2, <2>3
  <2>5. \A g \in File : place'[g] = place[g] \/ g = f
    BY <2>3 DEF TypeInv, TypeOK
  <2> QED
    BY <2>1, <2>3, <2>4, <2>5 DEF HandsOnly
<1>2. CASE Settle(t) \/ Flush(t)
  <2>1. /\ t \in Uploads /\ row' = row /\ image' = image /\ unsure' = unsure /\ debris' = debris
        /\ file' = file /\ drop' = drop
    BY <1>2, AdvanceEffect
  <2>2. \A f \in File : place'[f] = place[f] \/ f = file[t]
    BY <1>2 DEF Settle, Flush, TypeInv, TypeOK
  <2> QED
    BY <2>1, <2>2 DEF HandsOnly
<1>3. CASE CommitUpload(t)
  <2>1. Insert(t) /\ Finish(t, drop[t]) /\ unsure' = unsure /\ debris' = debris
    BY <1>3 DEF CommitUpload, pastVars
  <2>2. drop'[t] = drop[t] /\ file'[t] = NoFile
    BY <2>1, FinishEffect
  <2> QED
    BY <2>1, <2>2, InsertHands DEF HandsOnly
<1>4. CASE CommitUnacknowledged(t)
  <2>1. Insert(t) /\ Finish(t, {file[t]}) /\ unsure \subseteq unsure' /\ debris \subseteq debris'
    BY <1>4 DEF CommitUnacknowledged
  <2>2. drop'[t] = {file[t]} /\ file'[t] = NoFile
    BY <2>1, FinishEffect
  <2> QED
    BY <2>1, <2>2, InsertHands DEF HandsOnly
<1>5. ASSUME NEW f \in File, RemoveFile(t, f) PROVE HandsOnly(t)
  <2>1. Begin(t, "removing", row[f].subject, {f}) /\ f \in Kept /\ place' = place
    BY <1>5 DEF RemoveFile, Kept
  <2> QED
    BY <2>1, BeginEffect DEF HandsOnly
<1>6. ASSUME NEW d \in Document, PurgeDocument(t, d) PROVE HandsOnly(t)
  <2>1. Begin(t, "purging", d, Of(d)) /\ Of(d) \subseteq Kept /\ place' = place
    BY <1>6 DEF PurgeDocument, Of
  <2> QED
    BY <2>1, BeginEffect DEF HandsOnly
<1>7. ASSUME NEW c \in Club, RemoveImage(t, c) PROVE HandsOnly(t)
  <2>1. Begin(t, "removing", c, {image[c]}) /\ image[c] \in Kept /\ place' = place
    BY <1>7, ImageIsKept DEF RemoveImage
  <2> QED
    BY <2>1, BeginEffect DEF HandsOnly
<1>8. ASSUME NEW c \in Club, CollectPaths(t, c) PROVE HandsOnly(t)
  <2>1. Begin(t, "collected", c, Stored(c) \cup Of(c)) /\ Stored(c) \cup Of(c) \subseteq Kept /\ place' = place
    BY <1>8 DEF CollectPaths, Of, Stored
  <2> QED
    BY <2>1, BeginEffect DEF HandsOnly
<1>9. CASE CommitRemoval(t)
  <2>1. /\ Finish(t, drop[t]) /\ pc[t] \in {"removing", "purging"}
        /\ unsure' = unsure /\ debris' = debris /\ place' = place
        /\ \A f \in File : row'[f] \in {row[f], NoRow}
        /\ \A c \in Club : image'[c] = IF image[c] \in drop[t] THEN NoFile ELSE image[c]
    BY <1>9 DEF CommitRemoval, pastVars
  <2>2. drop'[t] = drop[t] /\ file'[t] = NoFile
    BY <2>1, FinishEffect
  <2>3. ASSUME NEW c \in Club, image'[c] # image[c]
        PROVE  c \in Locked(t)
    <3>1. image[c] \in drop[t] /\ image[c] # NoFile
      BY <2>1, <2>3
    <3>2. row[image[c]] # NoRow /\ row[image[c]].subject = c
      BY <3>1, ImageIsKept DEF Kept
    <3>3. c = target[t] /\ c \notin Rubric
      BY <2>1, <3>1, <3>2, SubjectAssumption DEF DropInv, DropRight
    <3> QED
      BY <2>1, <3>3 DEF Locked
  <2> QED
    BY <2>1, <2>2, <2>3 DEF HandsOnly
<1>10. ASSUME NEW c \in Club, DeleteClub(t, c) PROVE HandsOnly(t)
  <2>1. /\ Finish(t, drop[t] \cup Of(c)) /\ Of(c) \subseteq Kept /\ RowFree(c)
        /\ unsure' = unsure /\ debris \subseteq debris' /\ place' = place
        /\ \A f \in File : row'[f] \in {row[f], NoRow}
        /\ \A b \in Club \ {c} : image'[b] = image[b]
    BY <1>10 DEF DeleteClub, Of, Family, TypeInv, TypeOK
  <2>2. drop'[t] = drop[t] \cup Of(c) /\ file'[t] = NoFile
    BY <2>1, FinishEffect
  <2> QED
    BY <2>1, <2>2 DEF HandsOnly
<1>11. CASE Abort(t)
  <2>1. /\ Finish(t, {file[t]} \ {NoFile}) /\ row' = row /\ image' = image /\ place' = place
        /\ unsure' = unsure /\ debris' = debris
    BY <1>11 DEF Abort, dataVars, pastVars
  <2>2. drop'[t] \subseteq {file[t]} /\ file'[t] = NoFile
    BY <2>1, FinishEffect
  <2> QED
    BY <2>1, <2>2 DEF HandsOnly
<1>12. ASSUME NEW f \in File, Unlink(t, f) \/ UnlinkFails(t, f) PROVE HandsOnly(t)
  <2>1. /\ Unlinked(t, f) /\ debris \subseteq debris'
        /\ \A g \in File : place'[g] = place[g] \/ g = f
    BY <1>12 DEF Unlink, UnlinkFails, TypeInv, TypeOK
  <2> QED
    BY <2>1, UnlinkedEffect DEF HandsOnly
<1> QED
  BY <1>1, <1>2, <1>3, <1>4, <1>5, <1>6, <1>7, <1>8, <1>9, <1>10, <1>11, <1>12
  DEF Moves, Uploading, Removing

LEMMA OnlyUploads ==
  ASSUME TypeInv, NEW t \in Txn, Moves(t), t \in Uploads'
  PROVE  Settle(t) \/ Flush(t) \/ \E a \in Asks, f \in File : BeginUpload(t, a, f)
<1>1. CASE Removing(t)
  BY <1>1, BeginEffect, FinishEffect
  DEF Removing, RemoveFile, PurgeDocument, CommitRemoval, RemoveImage, CollectPaths, DeleteClub
<1>2. CASE CommitUpload(t) \/ CommitUnacknowledged(t) \/ Abort(t)
  BY <1>2, FinishEffect DEF CommitUpload, CommitUnacknowledged, Abort
<1>3. ASSUME NEW f \in File, Unlink(t, f) \/ UnlinkFails(t, f) PROVE FALSE
  BY <1>3, UnlinkedEffect DEF Unlink, UnlinkFails
<1> QED
  BY <1>1, <1>2, <1>3 DEF Moves, Uploading

\* Nobody else has the new file, whoever moves.
LEMMA NewStep ==
  ASSUME TypeInv, NewInv, DropInv, ImagesMatch, TypeInv', NEW t \in Txn, Moves(t)
  PROVE  NewInv'
<1>1. HandsOnly(t) /\ OthersKept(t)
  BY HandsMove, LocksMove
<1>2. ASSUME NEW u \in Uploads', u # t
      PROVE  /\ row'[file'[u]] = NoRow
             /\ place'[file'[u]] = IF pc'[u] = "open" THEN "part" ELSE "placed"
             /\ \A v \in Txn : file'[u] \notin drop'[v] /\ (v # u => file'[v] # file'[u])
  <2>1. u \in Uploads /\ file'[u] = file[u] /\ pc'[u] = pc[u] /\ file[u] \in File /\ file[u] # NoFile
    BY <1>1, <1>2, FileAssumption DEF Uploads, OthersKept, TypeInv, HandsTyped
  <2>2. /\ row[file[u]] = NoRow /\ file[t] # file[u] /\ file[u] \notin drop[t]
        /\ \A v \in Txn : file[u] \notin drop[v] /\ (v # u => file[v] # file[u])
    BY <1>2, <2>1 DEF NewInv
  <2>3. ~Fresh(file[u])
    BY <2>1 DEF Fresh, Uploads
  <2>4. file[u] \notin drop'[t] /\ file'[t] # file[u]
    BY <1>1, <2>1, <2>2, <2>3 DEF HandsOnly, Kept
  <2>5. row'[file[u]] = NoRow /\ place'[file[u]] = place[file[u]]
    BY <1>1, <2>1, <2>2, <2>3 DEF HandsOnly
  <2>6. \A v \in Txn \ {t} : drop'[v] = drop[v] /\ file'[v] = file[v]
    BY <1>1 DEF OthersKept
  <2> QED
    BY <2>1, <2>2, <2>4, <2>5, <2>6 DEF NewInv
<1>3. ASSUME t \in Uploads'
      PROVE  /\ row'[file'[t]] = NoRow
             /\ place'[file'[t]] = IF pc'[t] = "open" THEN "part" ELSE "placed"
             /\ \A v \in Txn : file'[t] \notin drop'[v] /\ (v # t => file'[v] # file'[t])
  <2>1. ASSUME NEW a \in Asks, NEW f \in File, BeginUpload(t, a, f)
        PROVE  /\ row'[file'[t]] = NoRow
               /\ place'[file'[t]] = IF pc'[t] = "open" THEN "part" ELSE "placed"
               /\ \A v \in Txn : file'[t] \notin drop'[v] /\ (v # t => file'[v] # file'[t])
    <3>1. Fresh(f)
      BY <2>1 DEF BeginUpload
    <3>2. /\ file'[t] = f /\ pc'[t] = "open" /\ row' = row /\ place' = [place EXCEPT ![f] = "part"]
          /\ drop'[t] = IF a.slot = "image" THEN {image[a.club]} \ {NoFile} ELSE {}
      BY <2>1, BeginUploadEffect
    <3>3. row[f] = NoRow /\ place'[f] = "part"
      BY <3>1, <3>2 DEF Fresh, TypeInv, TypeOK
    <3>4. f \notin drop'[t]
      BY <3>2, <3>3, AskFields, ImageIsKept DEF Kept
    <3>5. \A v \in Txn \ {t} : f \notin drop'[v] /\ file'[v] # f
      BY <1>1, <3>1 DEF Fresh, OthersKept
    <3> QED
      BY <3>2, <3>3, <3>4, <3>5
  <2>2. CASE Settle(t) \/ Flush(t)
    <3>1. /\ t \in Uploads /\ row' = row /\ file' = file /\ drop' = drop
          /\ (pc[t] = "open" /\ pc'[t] = "settled") \/ (pc[t] = "settled" /\ pc'[t] = "flushed")
      BY <2>2, AdvanceEffect
    <3>2. place'[file[t]] = "placed"
      <4>1. CASE Settle(t)
        BY <3>1, <4>1 DEF Settle, TypeInv, TypeOK, HandsTyped
      <4>2. CASE Flush(t)
        BY <3>1, <4>2 DEF Flush, NewInv
      <4> QED
        BY <2>2, <4>1, <4>2
    <3> QED
      BY <3>1, <3>2 DEF NewInv
  <2>3. Settle(t) \/ Flush(t) \/ \E a \in Asks, f \in File : BeginUpload(t, a, f)
    BY <1>3, OnlyUploads
  <2> QED
    BY <2>1, <2>2, <2>3
<1> QED
  BY <1>2, <1>3 DEF NewInv

\* The lists of the others stay right.
LEMMA DropOthers ==
  ASSUME TypeInv, LockInv, NewInv, DropInv, ImagesMatch, NEW t \in Txn, Moves(t),
         NEW u \in Txn, u # t
  PROVE  DropRight(u)'
<1>1. HandsOnly(t)
  BY HandsMove
<1>2. /\ pc'[u] = pc[u] /\ target'[u] = target[u] /\ ask'[u] = ask[u] /\ drop'[u] = drop[u]
      /\ u \in Uploads' <=> u \in Uploads
  BY LocksMove DEF OthersKept, Uploads
<1>3. Locked(t) \cap Locked(u) = {}
  BY DEF LockInv
<1>4. ASSUME NEW f \in drop[u] PROVE f \in File /\ row'[f] \in {row[f], NoRow}
  <2>1. f \in File /\ (t \in Uploads => f # file[t])
    BY DEF TypeInv, TypeOK, NewInv
  <2> QED
    BY <1>1, <2>1 DEF HandsOnly
<1>5. ASSUME u \in Uploads, ask[u].slot = "image"
      PROVE  image'[ask[u].club] = image[ask[u].club]
  <2>1. /\ ask[u] \in Asks /\ target[u] = ask[u].subject /\ ask[u].subject = ask[u].club
        /\ ask[u].club \in Club
    BY <1>5, AskFields DEF TypeInv, HandsTyped
  <2>2. ask[u].club \in Locked(u)
    BY <1>5, <2>1, SubjectAssumption DEF Locked, Uploads
  <2> QED
    BY <1>1, <1>3, <2>1, <2>2 DEF HandsOnly, RowFree
<1>6. ASSUME pc[u] = "purging", NEW f \in File, row'[f] # NoRow, row'[f].subject = target[u]
      PROVE  f \in drop[u]
  <2>1. target[u] \in Document /\ target[u] \in Locked(u)
    BY <1>6, SubjectAssumption DEF TypeInv, HandsTyped, Locked
  <2>2. CASE row'[f] = row[f]
    BY <1>6, <2>2 DEF DropInv, DropRight, Of, Kept
  <2>3. CASE t \in Uploads /\ row'[f] = ask[t] /\ pc[t] = "flushed"
    <3>1. target[t] = target[u] /\ target[t] \notin Rubric
      BY <1>6, <2>1, <2>3, SubjectAssumption DEF TypeInv, HandsTyped
    <3>2. target[t] \in Locked(t)
      BY <2>3, <3>1 DEF Locked
    <3> QED
      BY <1>3, <2>1, <3>1, <3>2
  <2> QED
    BY <1>1, <1>6, <2>2, <2>3 DEF HandsOnly
<1>7. DropRight(u)
  BY DEF DropInv
<1>8. u \in Uploads' =>
        drop'[u] = IF ask'[u].slot = "image" THEN {image'[ask'[u].club]} \ {NoFile} ELSE {}
  BY <1>2, <1>5, <1>7 DEF DropRight
<1>9. pc'[u] = "removing" => \E f \in File : drop'[u] = {f}
  BY <1>2, <1>7 DEF DropRight
<1>10. ASSUME pc'[u] \in {"removing", "purging"}, NEW f \in drop'[u]
       PROVE  row'[f] = NoRow \/ row'[f].subject = target'[u]
  <2>1. row[f] = NoRow \/ row[f].subject = target[u]
    BY <1>2, <1>7, <1>10 DEF DropRight
  <2> QED
    BY <1>2, <1>4, <1>10, <2>1
<1>11. pc'[u] = "purging" => (Of(target[u]) \subseteq drop[u])'
  BY <1>2, <1>6 DEF Of, Kept
<1>12. ASSUME pc'[u] = "collected", NEW f \in drop'[u]
       PROVE  row'[f] = NoRow \/ (f \in Stored(target[u]) \cup Of(target[u]))'
  <2>1. row[f] = NoRow \/ f \in Stored(target[u]) \cup Of(target[u])
    BY <1>2, <1>7, <1>12 DEF DropRight
  <2>2. CASE row'[f] = NoRow
    BY <2>2
  <2>3. CASE row'[f] = row[f] /\ row[f] # NoRow
    BY <1>2, <1>4, <1>12, <2>1, <2>3 DEF Stored, Of, Kept
  <2> QED
    BY <1>2, <1>4, <1>12, <2>2, <2>3
<1>13. ASSUME pc'[u] = "unlinking", NEW f \in drop'[u]
       PROVE  row'[f] = NoRow \/ f \in unsure'
  <2>1. row[f] = NoRow \/ f \in unsure
    BY <1>2, <1>7, <1>13 DEF DropRight
  <2> QED
    BY <1>1, <1>2, <1>4, <1>13, <2>1 DEF HandsOnly
<1> QED
  BY <1>8, <1>9, <1>10, <1>11, <1>12, <1>13 DEF DropRight

\* Commits leave on the list what has lost its row, or what is on record.
LEMMA DropFinished ==
  ASSUME TypeInv, NEW t \in Txn, NEW P \in SUBSET File, Finish(t, P),
         \A f \in P : row'[f] = NoRow \/ f \in unsure'
  PROVE  DropRight(t)'
<1>1. /\ pc'[t] = IF P = {} THEN "idle" ELSE "unlinking"
      /\ drop'[t] = P /\ t \notin Uploads'
  BY FinishEffect
<1> QED
  BY <1>1 DEF DropRight

LEMMA DropOwn ==
  ASSUME TypeInv, NewInv, DropInv, ImagesMatch, NEW t \in Txn, Moves(t)
  PROVE  DropRight(t)'
<1>1. ASSUME NEW a \in Asks, NEW f \in File, BeginUpload(t, a, f) PROVE DropRight(t)'
  <2>1. /\ pc'[t] = "open" /\ ask'[t] = a /\ image' = image
        /\ drop'[t] = IF a.slot = "image" THEN {image[a.club]} \ {NoFile} ELSE {}
    BY <1>1, BeginUploadEffect
  <2> QED
    BY <2>1 DEF DropRight
<1>2. CASE Settle(t) \/ Flush(t)
  <2>1. /\ t \in Uploads /\ Uploads' = Uploads /\ ask' = ask /\ image' = image /\ drop' = drop
        /\ pc'[t] \in {"settled", "flushed"}
    BY <1>2, AdvanceEffect
  <2>2. DropRight(t)
    BY DEF DropInv
  <2> QED
    BY <2>1, <2>2 DEF DropRight
<1>3. CASE CommitUpload(t)
  <2>1. Insert(t) /\ Finish(t, drop[t]) /\ drop[t] \in SUBSET File
    BY <1>3 DEF CommitUpload, TypeInv, TypeOK
  <2>2. \A f \in drop[t] : row'[f] = NoRow
    BY <2>1, InsertHands DEF NewInv
  <2> QED
    BY <2>1, <2>2, DropFinished
<1>4. CASE CommitUnacknowledged(t)
  <2>1. Finish(t, {file[t]}) /\ file[t] \in unsure' /\ {file[t]} \in SUBSET File
    BY <1>4, InsertTyped DEF CommitUnacknowledged
  <2> QED
    BY <2>1, DropFinished
<1>5. ASSUME NEW f \in File, RemoveFile(t, f) PROVE DropRight(t)'
  <2>1. Begin(t, "removing", row[f].subject, {f})
    BY <1>5 DEF RemoveFile
  <2>2. pc'[t] = "removing" /\ target'[t] = row[f].subject /\ drop'[t] = {f} /\ row' = row
    BY <2>1, BeginEffect
  <2> QED
    BY <2>2 DEF DropRight, Uploads
<1>6. ASSUME NEW d \in Document, PurgeDocument(t, d) PROVE DropRight(t)'
  <2>1. Begin(t, "purging", d, Of(d))
    BY <1>6 DEF PurgeDocument
  <2>2. pc'[t] = "purging" /\ target'[t] = d /\ drop'[t] = Of(d) /\ row' = row
    BY <2>1, BeginEffect
  <2> QED
    BY <2>2 DEF DropRight, Uploads, Of, Kept
<1>7. ASSUME NEW c \in Club, RemoveImage(t, c) PROVE DropRight(t)'
  <2>1. Begin(t, "removing", c, {image[c]}) /\ image[c] \in File /\ row[image[c]].subject = c
    BY <1>7, ImageIsKept DEF RemoveImage, Kept
  <2>2. pc'[t] = "removing" /\ target'[t] = c /\ drop'[t] = {image[c]} /\ row' = row
    BY <2>1, BeginEffect
  <2> QED
    BY <2>1, <2>2 DEF DropRight, Uploads
<1>8. ASSUME NEW c \in Club, CollectPaths(t, c) PROVE DropRight(t)'
  <2>1. Begin(t, "collected", c, Stored(c) \cup Of(c))
    BY <1>8 DEF CollectPaths
  <2>2. pc'[t] = "collected" /\ target'[t] = c /\ drop'[t] = Stored(c) \cup Of(c) /\ row' = row
    BY <2>1, BeginEffect
  <2> QED
    BY <2>2 DEF DropRight, Uploads, Stored, Of, Kept
<1>9. CASE CommitRemoval(t)
  <2>1. Finish(t, drop[t]) /\ drop[t] \in SUBSET File /\ \A f \in drop[t] : row'[f] = NoRow
    BY <1>9 DEF CommitRemoval, TypeInv, TypeOK
  <2> QED
    BY <2>1, DropFinished
<1>10. ASSUME NEW c \in Club, DeleteClub(t, c) PROVE DropRight(t)'
  <2>1. /\ Finish(t, drop[t] \cup Of(c)) /\ drop[t] \cup Of(c) \in SUBSET File
        /\ pc[t] = "collected" /\ target[t] = c
        /\ \A f \in File : row'[f] = IF f \in Stored(c) \cup Of(c) THEN NoRow ELSE row[f]
    BY <1>10 DEF DeleteClub, TypeInv, TypeOK, Of, Kept
  <2>2. \A f \in drop[t] : row[f] = NoRow \/ f \in Stored(c) \cup Of(c)
    BY <2>1 DEF DropInv, DropRight
  <2>3. \A f \in drop[t] \cup Of(c) : row'[f] = NoRow
    BY <2>1, <2>2
  <2> QED
    BY <2>1, <2>3, DropFinished
<1>11. CASE Abort(t)
  <2>1. Finish(t, {file[t]} \ {NoFile}) /\ row' = row /\ {file[t]} \ {NoFile} \in SUBSET File
    BY <1>11 DEF Abort, dataVars, TypeInv, TypeOK
  <2>2. \A f \in {file[t]} \ {NoFile} : row[f] = NoRow
    BY DEF NewInv, TypeInv, HandsTyped
  <2> QED
    BY <2>1, <2>2, DropFinished
<1>12. ASSUME NEW f \in File, Unlink(t, f) \/ UnlinkFails(t, f) PROVE DropRight(t)'
  <2>1. Unlinked(t, f)
    BY <1>12 DEF Unlink, UnlinkFails
  <2>2. /\ pc[t] = "unlinking" /\ pc'[t] \in {"idle", "unlinking"} /\ t \notin Uploads'
        /\ drop'[t] = drop[t] \ {f} /\ row' = row /\ unsure' = unsure
    BY <2>1, UnlinkedEffect
  <2> QED
    BY <2>2 DEF DropRight, DropInv
<1> QED
  BY <1>1, <1>2, <1>3, <1>4, <1>5, <1>6, <1>7, <1>8, <1>9, <1>10, <1>11, <1>12
  DEF Moves, Uploading, Removing

\* A club has the one image it shows.
LEMMA ImagesStep ==
  ASSUME TypeInv, NewInv, DropInv, ImagesMatch, NEW t \in Txn, Moves(t)
  PROVE  ImagesMatch'
<1>1. CASE row' = row /\ image' = image
  BY <1>1 DEF ImagesMatch, Of, Kept
<1>2. ASSUME Insert(t), NEW c \in Club
      PROVE  (Of(c) = {image[c]} \ {NoFile})'
  <2>1. /\ t \in Uploads /\ row'[file[t]] = ask[t]
        /\ \A f \in File \ {file[t]} : row'[f] = IF f \in drop[t] THEN NoRow ELSE row[f]
        /\ ask[t].slot = "image" => image' = [image EXCEPT ![ask[t].club] = file[t]]
        /\ ask[t].slot # "image" => image' = image
    BY <1>2, InsertHands
  <2>2. /\ ask[t] \in Asks /\ file[t] \in File /\ file[t] # NoFile /\ row[file[t]] = NoRow
        /\ drop[t] = IF ask[t].slot = "image" THEN {image[ask[t].club]} \ {NoFile} ELSE {}
    BY <2>1, FileAssumption DEF TypeInv, HandsTyped, NewInv, DropInv, DropRight
  <2>3. /\ ask[t] # NoRow /\ ask[t].club \in Club
        /\ ask[t].slot = "image" => ask[t].subject = ask[t].club
        /\ ask[t].slot # "image" => ask[t].subject # c
    BY <2>2, AskFields
  <2>4. Of(c) = {image[c]} \ {NoFile} /\ image[c] \in File \cup {NoFile}
    BY DEF ImagesMatch, TypeInv, TypeOK
  <2>5. CASE ask[t].slot = "image" /\ c = ask[t].club
    <3>1. image'[c] = file[t]
      BY <2>1, <2>5 DEF TypeInv, TypeOK
    <3>2. ASSUME NEW f \in File
          PROVE  (row'[f] # NoRow /\ row'[f].subject = c) <=> f = file[t]
      BY <2>1, <2>2, <2>3, <2>4, <2>5 DEF Of, Kept
    <3> QED
      BY <2>2, <3>1, <3>2 DEF Of, Kept
  <2>6. CASE ~(ask[t].slot = "image" /\ c = ask[t].club)
    <3>1. image'[c] = image[c]
      BY <2>1, <2>3, <2>6 DEF TypeInv, TypeOK
    <3>2. \A f \in drop[t] : row[f].subject # c
      BY <2>2, <2>3, <2>6, ImageIsKept
    <3>3. ASSUME NEW f \in File
          PROVE  (row'[f] # NoRow /\ row'[f].subject = c) <=> (row[f] # NoRow /\ row[f].subject = c)
      BY <2>1, <2>2, <2>3, <2>6, <3>2
    <3> QED
      BY <2>4, <3>1, <3>3 DEF Of, Kept
  <2> QED
    BY <2>5, <2>6
<1>3. CASE CommitRemoval(t)
  <2>1. /\ \A f \in File : row'[f] = IF f \in drop[t] THEN NoRow ELSE row[f]
        /\ \A c \in Club : image'[c] = IF image[c] \in drop[t] THEN NoFile ELSE image[c]
    BY <1>3 DEF CommitRemoval
  <2>2. drop[t] \in SUBSET File
    BY DEF TypeInv, TypeOK
  <2> QED
    BY <2>1, <2>2, FileAssumption DEF ImagesMatch, Of, Kept
<1>4. ASSUME NEW c \in Club, DeleteClub(t, c) PROVE ImagesMatch'
  <2>1. /\ \A f \in File : row'[f] = IF f \in Stored(c) \cup Of(c) THEN NoRow ELSE row[f]
        /\ image' = [image EXCEPT ![c] = NoFile]
    BY <1>4 DEF DeleteClub
  <2>2. ASSUME NEW b \in Club \ {c}
        PROVE  Of(b)' = Of(b) /\ image'[b] = image[b]
    <3>1. \A f \in Of(b) : f \notin Stored(c) \cup Of(c)
      <4>1. ASSUME NEW f \in Of(b) PROVE row[f] \in Asks /\ row[f].subject = b
        BY DEF Of, Kept, TypeInv, TypeOK
      <4>2. \A f \in Of(b) : row[f].slot = "image"
        BY <4>1, AskFields
      <4> QED
        BY <4>1, <4>2 DEF Stored, Of
    <3> QED
      BY <2>1, <3>1 DEF Of, Kept, TypeInv, TypeOK
  <2>3. Of(c)' = {} /\ image'[c] = NoFile
    BY <2>1 DEF Of, Kept, TypeInv, TypeOK
  <2> QED
    BY <2>2, <2>3 DEF ImagesMatch
<1>5. CASE Uploading(t)
  <2>1. ASSUME NEW a \in Asks, NEW f \in File, BeginUpload(t, a, f) PROVE row' = row /\ image' = image
    BY <2>1, BeginUploadEffect
  <2> QED
    BY <1>1, <1>2, <1>5, <2>1, AdvanceEffect
    DEF Uploading, CommitUpload, CommitUnacknowledged, ImagesMatch
<1>6. CASE Removing(t)
  BY <1>1, <1>3, <1>4, <1>6, BeginEffect DEF Removing, RemoveFile, PurgeDocument, RemoveImage, CollectPaths
<1>7. CASE Abort(t)
  BY <1>1, <1>7 DEF Abort, dataVars
<1>8. ASSUME NEW f \in File, Unlink(t, f) \/ UnlinkFails(t, f) PROVE ImagesMatch'
  BY <1>1, <1>8, UnlinkedEffect DEF Unlink, UnlinkFails
<1> QED
  BY <1>5, <1>6, <1>7, <1>8 DEF Moves

LEMMA FileInit == Init => FileInv
  BY TypeInit, FileAssumption
  DEF Init, FileInv, LockInv, NewInv, DropInv, DropRight, ImagesMatch, Locked, HoldsStorage, Uploads, Of, Kept

LEMMA FileStep == FileInv /\ [Next]_vars => FileInv'
<1> SUFFICES ASSUME FileInv, [Next]_vars PROVE FileInv'
  OBVIOUS
<1>1. TypeInv /\ LockInv /\ NewInv /\ DropInv /\ ImagesMatch
  BY DEF FileInv
<1>2. TypeInv' /\ LockInv'
  BY <1>1, TypeStep, LockStep
<1>3. CASE UNCHANGED vars
  <2>1. NewInv' /\ ImagesMatch'
    BY <1>1, <1>3 DEF vars, dataVars, txnVars, NewInv, ImagesMatch, Uploads, Of, Kept
  <2>2. DropInv'
    BY <1>1, <1>3 DEF vars, dataVars, txnVars, pastVars, DropInv, DropRight, Uploads, Of, Stored, Kept
  <2> QED
    BY <1>2, <2>1, <2>2 DEF FileInv
<1>4. CASE Crash
  <2>1. NewInv' /\ ImagesMatch' /\ DropInv'
    BY <1>1, <1>4 DEF Crash, dataVars, NewInv, DropInv, DropRight, ImagesMatch, Uploads, Of, Kept
  <2> QED
    BY <1>2, <2>1 DEF FileInv
<1>5. ASSUME NEW t \in Txn, Moves(t) PROVE FileInv'
  <2>1. NewInv' /\ ImagesMatch'
    BY <1>1, <1>2, <1>5, NewStep, ImagesStep
  <2>2. DropInv'
    BY <1>1, <1>5, DropOthers, DropOwn DEF DropInv
  <2> QED
    BY <1>2, <2>1, <2>2 DEF FileInv
<1> QED
  BY <1>3, <1>4, <1>5 DEF Next, Moves

LEMMA FileInvariant == Spec => []FileInv
  BY FileInit, FileStep, PTL DEF Spec

(* However often a club's image is replaced and removed at the same time,    *)
(* the one it shows is the one it has.                                       *)
THEOREM OneImage == Spec => []ImagesMatch
<1>1. FileInv => ImagesMatch
  BY DEF FileInv
<1> QED
  BY <1>1, FileInvariant, PTL

-----------------------------------------------------------------------------
(* Rows and files *)

\* The second part of DiskInv, for one file.
Tracked(f) ==
    place[f] # "none" =>
        f \in Kept \cup debris \/ \E t \in Txn : f = file[t] \/ (pc[t] = "unlinking" /\ f \in drop[t])

LEMMA RowsKeepFiles ==
  ASSUME FileInv, RowsHaveFiles, NEW t \in Txn, Moves(t)
  PROVE  RowsHaveFiles'
<1>1. HandsOnly(t)
  BY HandsMove DEF FileInv
<1>2. SUFFICES ASSUME NEW f \in File, row'[f] # NoRow, f \notin unsure'
               PROVE  place'[f] = "placed"
  BY DEF RowsHaveFiles, Kept
<1>3. f \notin unsure
  BY <1>1, <1>2 DEF HandsOnly
<1>4. CASE row[f] # NoRow
  <2>1. place[f] = "placed"
    BY <1>3, <1>4 DEF RowsHaveFiles, Kept
  <2>2. t \in Uploads => f # file[t]
    BY <1>4 DEF FileInv, NewInv
  <2>3. ~(f \in drop[t] /\ pc[t] = "unlinking")
    BY <1>3, <1>4 DEF FileInv, DropInv, DropRight
  <2>4. ~Fresh(f)
    BY <1>4 DEF Fresh
  <2> QED
    BY <1>1, <2>1, <2>2, <2>3, <2>4 DEF HandsOnly
<1>5. CASE row[f] = NoRow
  <2>1. t \in Uploads /\ f = file[t] /\ pc[t] = "flushed" /\ row' # row
    BY <1>1, <1>2, <1>5 DEF HandsOnly
  <2>2. place[f] = "placed"
    BY <2>1 DEF FileInv, NewInv
  <2>3. place' = place
    <3>1. CASE Uploading(t)
      <4>1. ASSUME NEW a \in Asks, NEW g \in File, BeginUpload(t, a, g) PROVE FALSE
        BY <2>1, <4>1, BeginUploadEffect DEF FileInv
      <4>2. CASE Settle(t) \/ Flush(t)
        BY <2>1, <4>2, AdvanceEffect DEF FileInv
      <4> QED
        BY <3>1, <4>1, <4>2 DEF Uploading, CommitUpload, CommitUnacknowledged, Insert
    <3>2. CASE Removing(t)
      BY <3>2 DEF Removing, RemoveFile, PurgeDocument, RemoveImage, CollectPaths, CommitRemoval, DeleteClub
    <3>3. CASE Abort(t)
      BY <3>3 DEF Abort
    <3>4. ASSUME NEW g \in File, Unlink(t, g) \/ UnlinkFails(t, g) PROVE FALSE
      BY <2>1, <3>4, UnlinkedEffect DEF Unlink, UnlinkFails, FileInv
    <3> QED
      BY <3>1, <3>2, <3>3, <3>4 DEF Moves
  <2> QED
    BY <2>2, <2>3
<1> QED
  BY <1>4, <1>5

\* What a transaction takes its hands off goes onto its list, or on record.
LEMMA FinishTracks ==
  ASSUME FileInv, NEW t \in Txn, NEW P \in SUBSET File, Finish(t, P),
         NEW f \in File, Tracked(f), place'[f] = place[f], debris \subseteq debris',
         pc[t] # "unlinking",
         f = file[t] => row'[f] # NoRow \/ f \in P,
         row[f] # NoRow => row'[f] # NoRow \/ f \in P \cup debris'
  PROVE  Tracked(f)'
<1>1. /\ OthersKept(t) /\ drop'[t] = P
      /\ pc'[t] = IF P = {} THEN "idle" ELSE "unlinking"
  BY FinishEffect DEF FileInv
<1>2. CASE place[f] = "none"
  BY <1>2 DEF Tracked
<1>3. CASE f \in P
  BY <1>1, <1>3 DEF Tracked
<1>4. CASE f \in Kept \cup debris /\ f \notin P
  BY <1>4 DEF Tracked, Kept
<1>5. CASE f = file[t] /\ f \notin P
  BY <1>5 DEF Tracked, Kept
<1>6. ASSUME NEW u \in Txn, f = file[u] \/ (pc[u] = "unlinking" /\ f \in drop[u]), u # t
      PROVE  Tracked(f)'
  BY <1>1, <1>6 DEF Tracked, OthersKept
<1> QED
  BY <1>2, <1>3, <1>4, <1>5, <1>6 DEF Tracked

LEMMA FilesKeepTrack ==
  ASSUME FileInv, NEW t \in Txn, Moves(t), NEW f \in File, Tracked(f)
  PROVE  Tracked(f)'
<1>1. TypeInv
  BY DEF FileInv
<1>2. ASSUME NEW a \in Asks, NEW g \in File, BeginUpload(t, a, g) PROVE Tracked(f)'
  <2>1. /\ OthersKept(t) /\ pc[t] = "idle" /\ file'[t] = g /\ row' = row /\ debris' = debris
        /\ place' = [place EXCEPT ![g] = "part"]
    <3>1. pc[t] = "idle"
      BY <1>2 DEF BeginUpload
    <3> QED
      BY <1>1, <1>2, <3>1, BeginUploadEffect
  <2>2. f # g => place'[f] = place[f]
    BY <1>1, <2>1 DEF TypeInv, TypeOK
  <2>3. file[t] # f
    BY <1>1, <2>1, FileAssumption DEF TypeInv, HandsTyped, Uploads
  <2>4. \A u \in Txn \ {t} : file'[u] = file[u] /\ pc'[u] = pc[u] /\ drop'[u] = drop[u]
    BY <2>1 DEF OthersKept
  <2> QED
    BY <2>1, <2>2, <2>3, <2>4 DEF Tracked, Kept
<1>3. CASE Settle(t) \/ Flush(t)
  <2>1. /\ OthersKept(t) /\ t \in Uploads /\ row' = row /\ debris' = debris /\ file' = file /\ drop' = drop
        /\ pc[t] # "unlinking"
    BY <1>1, <1>3, AdvanceEffect DEF Uploads
  <2>2. f # file[t] => place'[f] = place[f]
    BY <1>1, <1>3 DEF Settle, Flush, TypeInv, TypeOK
  <2>3. \A u \in Txn \ {t} : pc'[u] = pc[u]
    BY <2>1 DEF OthersKept
  <2> QED
    BY <2>1, <2>2, <2>3 DEF Tracked, Kept
<1>4. CASE CommitUpload(t)
  <2>1. /\ Insert(t) /\ Finish(t, drop[t]) /\ debris' = debris /\ place' = place
        /\ drop[t] \in SUBSET File /\ pc[t] = "flushed"
    BY <1>1, <1>4 DEF CommitUpload, Insert, pastVars, TypeInv, TypeOK
  <2>2. /\ t \in Uploads /\ row'[file[t]] = ask[t] /\ ask[t] # NoRow
        /\ \A g \in File \ {file[t]} : row'[g] = IF g \in drop[t] THEN NoRow ELSE row[g]
    BY <1>1, <2>1, InsertHands, InsertTyped, AskAssumption
  <2> QED
    BY <2>1, <2>2, FinishTracks
<1>5. CASE CommitUnacknowledged(t)
  <2>1. /\ Insert(t) /\ Finish(t, {file[t]}) /\ debris' = debris \cup drop[t] /\ place' = place
        /\ pc[t] = "flushed"
    BY <1>5 DEF CommitUnacknowledged, Insert
  <2>2. /\ t \in Uploads /\ file[t] \in File /\ row'[file[t]] = ask[t] /\ ask[t] # NoRow
        /\ \A g \in File \ {file[t]} : row'[g] = IF g \in drop[t] THEN NoRow ELSE row[g]
    BY <1>1, <2>1, InsertHands, InsertTyped, AskAssumption
  <2>3. {file[t]} \in SUBSET File /\ debris \subseteq debris'
    BY <2>1, <2>2
  <2>4. row[f] # NoRow => row'[f] # NoRow \/ f \in {file[t]} \cup debris'
    BY <2>1, <2>2
  <2> QED
    BY <2>1, <2>2, <2>3, <2>4, FinishTracks
<1>6. ASSUME NEW step \in {"removing", "purging", "collected"}, NEW s, NEW P, Begin(t, step, s, P),
             place' = place
      PROVE  Tracked(f)'
  <2>1. OthersKept(t) /\ pc[t] = "idle" /\ row' = row /\ debris' = debris /\ file' = file
    BY <1>1, <1>6, BeginEffect DEF Begin
  <2>2. \A u \in Txn \ {t} : pc'[u] = pc[u] /\ drop'[u] = drop[u]
    BY <2>1 DEF OthersKept
  <2> QED
    BY <1>6, <2>1, <2>2 DEF Tracked, Kept
<1>7. CASE CommitRemoval(t)
  <2>1. /\ Finish(t, drop[t]) /\ debris' = debris /\ place' = place /\ drop[t] \in SUBSET File
        /\ pc[t] \in {"removing", "purging"}
        /\ \A g \in File : row'[g] = IF g \in drop[t] THEN NoRow ELSE row[g]
    BY <1>1, <1>7 DEF CommitRemoval, pastVars, TypeInv, TypeOK
  <2>2. file[t] # f
    BY <1>1, <2>1, FileAssumption DEF TypeInv, HandsTyped, Uploads
  <2> QED
    BY <2>1, <2>2, FinishTracks
<1>8. ASSUME NEW c \in Club, DeleteClub(t, c) PROVE Tracked(f)'
  <2>1. /\ Finish(t, drop[t] \cup Of(c)) /\ debris' = debris \cup (Stored(c) \ drop[t]) /\ place' = place
        /\ drop[t] \cup Of(c) \in SUBSET File /\ pc[t] = "collected"
        /\ \A g \in File : row'[g] = IF g \in Stored(c) \cup Of(c) THEN NoRow ELSE row[g]
    BY <1>1, <1>8 DEF DeleteClub, TypeInv, TypeOK, Of, Kept
  <2>2. file[t] # f
    BY <1>1, <2>1, FileAssumption DEF TypeInv, HandsTyped, Uploads
  <2>3. row[f] # NoRow => row'[f] # NoRow \/ f \in (drop[t] \cup Of(c)) \cup debris'
    BY <2>1
  <2> QED
    BY <2>1, <2>2, <2>3, FinishTracks
<1>9. CASE Abort(t)
  <2>1. /\ Finish(t, {file[t]} \ {NoFile}) /\ row' = row /\ debris' = debris /\ place' = place
        /\ {file[t]} \ {NoFile} \in SUBSET File /\ pc[t] # "unlinking"
    BY <1>1, <1>9 DEF Abort, dataVars, pastVars, TypeInv, TypeOK
  <2>2. f = file[t] => f \in {file[t]} \ {NoFile}
    BY FileAssumption
  <2> QED
    BY <2>1, <2>2, FinishTracks
<1>10. ASSUME NEW g \in File, Unlinked(t, g), debris' = debris \/ debris' = debris \cup {g},
              place' = [place EXCEPT ![g] = "none"] \/ (g \in debris' /\ place' = place)
       PROVE  Tracked(f)'
  <2>1. /\ OthersKept(t) /\ row' = row /\ file'[t] = file[t] /\ drop'[t] = drop[t] \ {g}
        /\ pc'[t] = IF drop[t] = {g} THEN "idle" ELSE "unlinking"
    BY <1>1, <1>10, UnlinkedEffect
  <2>2. \A u \in Txn \ {t} : file'[u] = file[u] /\ pc'[u] = pc[u] /\ drop'[u] = drop[u]
    BY <2>1 DEF OthersKept
  <2>3. CASE f = g
    BY <1>1, <1>10, <2>3 DEF Tracked, TypeInv, TypeOK
  <2>4. CASE f # g
    <3>1. place'[f] = place[f] /\ debris \subseteq debris'
      BY <1>1, <1>10, <2>4 DEF TypeInv, TypeOK
    <3>2. f \in drop[t] => f \in drop'[t] /\ pc'[t] = "unlinking"
      BY <2>1, <2>4
    <3> QED
      BY <2>1, <2>2, <3>1, <3>2 DEF Tracked, Kept
  <2> QED
    BY <2>3, <2>4
<1>11. CASE Uploading(t)
  BY <1>2, <1>3, <1>4, <1>5, <1>11 DEF Uploading
<1>12. CASE Removing(t)
  BY <1>6, <1>7, <1>8, <1>12 DEF Removing, RemoveFile, PurgeDocument, RemoveImage, CollectPaths
<1>13. ASSUME NEW g \in File, Unlink(t, g) \/ UnlinkFails(t, g) PROVE Tracked(f)'
  <2>1. CASE Unlink(t, g)
    <3>1. Unlinked(t, g) /\ debris' = debris /\ place' = [place EXCEPT ![g] = "none"]
      BY <2>1 DEF Unlink
    <3>2. debris' = debris \/ debris' = debris \cup {g}
      BY <3>1
    <3>3. place' = [place EXCEPT ![g] = "none"] \/ (g \in debris' /\ place' = place)
      BY <3>1
    <3> QED
      BY <1>10, <3>1, <3>2, <3>3, Zenon
  <2>2. CASE UnlinkFails(t, g)
    <3>1. Unlinked(t, g) /\ debris' = debris \cup {g} /\ place' = place
      BY <2>2 DEF UnlinkFails
    <3> QED
      BY <1>10, <3>1
  <2> QED
    BY <1>13, <2>1, <2>2
<1> QED
  BY <1>9, <1>11, <1>12, <1>13 DEF Moves

LEMMA DiskStep == FileInv /\ DiskInv /\ [Next]_vars => DiskInv'
<1> SUFFICES ASSUME FileInv, DiskInv, [Next]_vars PROVE DiskInv'
  OBVIOUS
<1>1. RowsHaveFiles /\ \A f \in File : Tracked(f)
  BY DEF DiskInv, Tracked
<1>2. CASE UNCHANGED vars
  BY <1>2 DEF vars, dataVars, txnVars, pastVars, DiskInv, RowsHaveFiles, Kept
<1>3. CASE Crash
  BY <1>1, <1>3 DEF Crash, dataVars, DiskInv, RowsHaveFiles, Kept
<1>4. ASSUME NEW t \in Txn, Moves(t) PROVE DiskInv'
  BY <1>1, <1>4, RowsKeepFiles, FilesKeepTrack DEF DiskInv, Tracked
<1> QED
  BY <1>2, <1>3, <1>4 DEF Next, Moves

LEMMA DiskInvariant == Spec => [](FileInv /\ DiskInv)
<1>1. Init => DiskInv
  BY DEF Init, DiskInv, RowsHaveFiles, Kept
<1> QED
  BY <1>1, FileInvariant, DiskStep, PTL DEF Spec

(* A committed row has its file, whatever is rolled back, fails or dies on   *)
(* the way, unless the commit was carried out and not acknowledged.          *)
THEOREM RowsAlwaysHaveFiles == Spec => []RowsHaveFiles
<1>1. DiskInv => RowsHaveFiles
  BY DEF DiskInv
<1> QED
  BY <1>1, DiskInvariant, PTL

(* A file on the disk has its row or someone who will see to it, or it is    *)
(* debris that the code is known to leave.                                   *)
THEOREM FilesAlwaysHaveRows == Spec => []FilesHaveRows
<1>1. DiskInv => FilesHaveRows
  BY DEF DiskInv, FilesHaveRows
<1> QED
  BY <1>1, DiskInvariant, PTL

-----------------------------------------------------------------------------
(* No strays *)

LEMMA StrayStep ==
  ASSUME FileInv, StrayInv, TypeInv', NEW t \in Txn, Moves(t)
  PROVE  StrayInv'
<1>1. TypeInv /\ LockInv /\ NewInv /\ DropInv /\ HandsOnly(t) /\ OthersKept(t)
  BY HandsMove, LocksMove DEF FileInv
\* A step that deletes nothing but rows.
<1>2. ASSUME gone' = gone, \A f \in File : row'[f] \in {row[f], NoRow},
             t \in Uploads' => target'[t] \notin gone,
             pc'[t] = "flushed" => ask'[t].club \notin gone
      PROVE  StrayInv'
  <2>1. NoStrayRows'
    BY <1>2 DEF StrayInv, NoStrayRows, Kept
  <2>2. ASSUME NEW u \in Txn, u # t
        PROVE  /\ u \in Uploads' => target'[u] \notin gone'
               /\ pc'[u] = "flushed" => ask'[u].club \notin gone'
    BY <1>1, <1>2, <2>2 DEF OthersKept, StrayInv, Uploads
  <2> QED
    BY <1>2, <2>1, <2>2 DEF StrayInv, Uploads
<1>3. CASE Uploading(t)
  <2>1. ASSUME NEW a \in Asks, NEW f \in File, BeginUpload(t, a, f) PROVE StrayInv'
    <3>1. a.subject \notin gone
      BY <2>1 DEF BeginUpload
    <3>2. gone' = gone /\ row' = row /\ target'[t] = a.subject /\ pc'[t] = "open"
      BY <1>1, <2>1, BeginUploadEffect
    <3> QED
      BY <1>2, <3>1, <3>2
  <2>2. CASE Settle(t) \/ Flush(t)
    <3>1. /\ gone' = gone /\ row' = row /\ target' = target /\ ask' = ask /\ t \in Uploads
          /\ (pc[t] = "open" /\ pc'[t] = "settled") \/ (pc[t] = "settled" /\ pc'[t] = "flushed")
      BY <1>1, <2>2, AdvanceEffect
    <3>2. target[t] \notin gone
      BY <3>1 DEF StrayInv
    <3>3. pc'[t] = "flushed" => ask[t].club \notin gone
      <4>1. CASE ask[t].slot = "image"
        <5>1. ask[t].club = target[t]
          BY <1>1, <3>1, <4>1, AskFields DEF TypeInv, HandsTyped
        <5> QED
          BY <3>2, <5>1
      <4>2. CASE ask[t].slot # "image"
        BY <2>2, <3>1, <4>2 DEF Settle, Flush
      <4> QED
        BY <4>1, <4>2
    <3> QED
      BY <1>2, <3>1, <3>2, <3>3
  <2>3. CASE CommitUpload(t) \/ CommitUnacknowledged(t)
    <3>1. Insert(t) /\ t \notin Uploads' /\ pc'[t] # "flushed"
      BY <1>1, <2>3, FinishEffect DEF CommitUpload, CommitUnacknowledged
    <3>2. /\ t \in Uploads /\ pc[t] = "flushed" /\ row'[file[t]] = ask[t] /\ gone' = gone
          /\ \A f \in File \ {file[t]} : row'[f] = IF f \in drop[t] THEN NoRow ELSE row[f]
      BY <1>1, <3>1, InsertHands
    <3>3. ask[t].subject \notin gone /\ ask[t].club \notin gone
      BY <1>1, <3>2 DEF StrayInv, TypeInv, HandsTyped
    <3>4. NoStrayRows'
      BY <3>2, <3>3 DEF StrayInv, NoStrayRows, Kept
    <3>5. ASSUME NEW u \in Txn, u # t
          PROVE  /\ u \in Uploads' => target'[u] \notin gone'
                 /\ pc'[u] = "flushed" => ask'[u].club \notin gone'
      BY <1>1, <3>2, <3>5 DEF OthersKept, StrayInv, Uploads
    <3> QED
      BY <3>1, <3>4, <3>5 DEF StrayInv, Uploads
  <2> QED
    BY <1>3, <2>1, <2>2, <2>3 DEF Uploading
<1>4. CASE CommitRemoval(t)
  <2>1. /\ Finish(t, drop[t]) /\ pc[t] \in {"removing", "purging"}
        /\ \A f \in File : row'[f] = IF f \in drop[t] THEN NoRow ELSE row[f]
        /\ gone' = IF pc[t] = "purging" THEN gone \cup {target[t]} ELSE gone
    BY <1>4 DEF CommitRemoval
  <2>2. t \notin Uploads' /\ pc'[t] # "flushed"
    BY <1>1, <2>1, FinishEffect
  <2>3. CASE pc[t] = "removing"
    BY <1>2, <2>1, <2>2, <2>3
  <2>4. CASE pc[t] = "purging"
    <3>1. target[t] \in Document /\ target[t] \in Locked(t) /\ target[t] \notin Club
      BY <1>1, <2>4, SubjectAssumption DEF TypeInv, HandsTyped, Locked
    <3>2. \A f \in Kept : row[f].subject = target[t] => f \in drop[t]
      BY <1>1, <2>4 DEF DropInv, DropRight, Of
    <3>3. \A f \in Kept : row[f].club \in Club
      BY <1>1, AskFields DEF TypeInv, TypeOK, Kept
    <3>4. NoStrayRows'
      BY <2>1, <2>4, <3>1, <3>2, <3>3 DEF StrayInv, NoStrayRows, Kept
    <3>5. ASSUME NEW u \in Txn, u # t, u \in Uploads'
          PROVE  /\ target'[u] \notin gone'
                 /\ pc'[u] = "flushed" => ask'[u].club \notin gone'
      <4>1. u \in Uploads /\ pc'[u] = pc[u] /\ target'[u] = target[u] /\ ask'[u] = ask[u]
        BY <1>1, <3>5 DEF OthersKept, Uploads
      <4>2. target[u] # target[t]
        <5>1. Locked(t) \cap Locked(u) = {}
          BY <1>1, <3>5 DEF LockInv
        <5>2. target[u] \in Rubric \/ target[u] \in Locked(u)
          BY <4>1 DEF Locked, Uploads
        <5> QED
          BY <3>1, <5>1, <5>2, SubjectAssumption
      <4>3. ask[u].club \in Club
        BY <1>1, <4>1, AskFields DEF TypeInv, HandsTyped
      <4> QED
        BY <2>1, <2>4, <3>1, <4>1, <4>2, <4>3 DEF StrayInv
    <3> QED
      BY <2>2, <3>4, <3>5 DEF StrayInv, Uploads
  <2> QED
    BY <2>1, <2>3, <2>4
<1>5. ASSUME NEW c \in Club, DeleteClub(t, c) PROVE StrayInv'
  <2>1. /\ Finish(t, drop[t] \cup Of(c)) /\ gone' = gone \cup Family(c)
        /\ \A s \in Family(c) : RowFree(s)
        /\ \A f \in File : row'[f] = IF f \in Stored(c) \cup Of(c) THEN NoRow ELSE row[f]
    BY <1>5 DEF DeleteClub
  <2>2. t \notin Uploads' /\ pc'[t] # "flushed"
    BY <1>1, <2>1, FinishEffect
  <2>3. ASSUME NEW f \in Kept, f \notin Stored(c), f \notin Of(c)
        PROVE  row[f].subject \notin Family(c) /\ row[f].club \notin Family(c)
    <3>1. row[f] \in Asks
      BY <1>1 DEF Kept, TypeInv, TypeOK
    <3>2. row[f].subject # c /\ (row[f].club = c => row[f].slot = "image")
      BY <2>3 DEF Stored, Of
    <3> QED
      BY <3>1, <3>2, AskFields, SubjectAssumption DEF Family
  <2>4. NoStrayRows'
    BY <2>1, <2>3 DEF StrayInv, NoStrayRows, Kept
  <2>5. ASSUME NEW u \in Txn, u # t, u \in Uploads'
        PROVE  /\ target'[u] \notin gone'
               /\ pc'[u] = "flushed" => ask'[u].club \notin gone'
    <3>1. u \in Uploads /\ pc'[u] = pc[u] /\ target'[u] = target[u] /\ ask'[u] = ask[u]
      BY <1>1, <2>5 DEF OthersKept, Uploads
    <3>2. ask[u] \in Asks /\ target[u] = ask[u].subject
      BY <1>1, <3>1 DEF TypeInv, HandsTyped
    <3>3. target[u] \notin Family(c)
      <4>1. target[u] \in Rubric \/ target[u] \in Locked(u)
        BY <3>1 DEF Locked, Uploads
      <4>2. \A s \in Family(c) : s \notin Rubric /\ s \notin Locked(u)
        BY <2>1, SubjectAssumption DEF Family, RowFree
      <4> QED
        BY <4>1, <4>2
    <3>4. pc[u] = "flushed" => ask[u].club \notin Family(c)
      <4>1. ask[u].club \in Family(c) => ask[u].club = c
        BY <3>2, AskFields, SubjectAssumption DEF Family
      <4>2. CASE ask[u].slot = "image"
        BY <3>2, <3>3, <4>2, AskFields
      <4>3. CASE ask[u].slot # "image"
        BY <2>1, <4>1, <4>3 DEF Family, RowFree, SharesClub
      <4> QED
        BY <4>2, <4>3
    <3> QED
      BY <2>1, <3>1, <3>3, <3>4 DEF StrayInv
  <2> QED
    BY <2>2, <2>4, <2>5 DEF StrayInv, Uploads
<1>6. ASSUME NEW step \in {"removing", "purging", "collected"}, NEW s, NEW P, Begin(t, step, s, P)
      PROVE  StrayInv'
  <2>1. t \notin Uploads' /\ pc'[t] # "flushed" /\ gone' = gone /\ row' = row
    BY <1>1, <1>6, BeginEffect
  <2> QED
    BY <1>2, <2>1
<1>7. CASE Removing(t)
  BY <1>4, <1>5, <1>6, <1>7 DEF Removing, RemoveFile, PurgeDocument, RemoveImage, CollectPaths
<1>8. CASE Abort(t)
  <2>1. Finish(t, {file[t]} \ {NoFile}) /\ gone' = gone /\ row' = row
    BY <1>8 DEF Abort, dataVars
  <2>2. t \notin Uploads' /\ pc'[t] # "flushed"
    BY <1>1, <2>1, FinishEffect
  <2> QED
    BY <1>2, <2>1, <2>2
<1>9. ASSUME NEW f \in File, Unlink(t, f) \/ UnlinkFails(t, f) PROVE StrayInv'
  <2>1. t \notin Uploads' /\ pc'[t] # "flushed" /\ gone' = gone /\ row' = row
    BY <1>1, <1>9, UnlinkedEffect DEF Unlink, UnlinkFails
  <2> QED
    BY <1>2, <2>1
<1> QED
  BY <1>3, <1>7, <1>8, <1>9 DEF Moves

LEMMA StrayInvariant == Spec => [](FileInv /\ StrayInv)
<1>1. Init => StrayInv
  BY DEF Init, StrayInv, NoStrayRows, Kept, Uploads
<1>2. FileInv /\ StrayInv /\ [Next]_vars => StrayInv'
  <2> SUFFICES ASSUME FileInv, StrayInv, [Next]_vars PROVE StrayInv'
    OBVIOUS
  <2>1. CASE UNCHANGED vars
    BY <2>1 DEF vars, dataVars, txnVars, StrayInv, NoStrayRows, Kept, Uploads
  <2>2. CASE Crash
    BY <2>2 DEF Crash, dataVars, StrayInv, NoStrayRows, Kept, Uploads
  <2>3. ASSUME NEW t \in Txn, Moves(t) PROVE StrayInv'
    BY <2>3, StrayStep, TypeStep DEF FileInv
  <2> QED
    BY <2>1, <2>2, <2>3 DEF Next, Moves
<1> QED
  BY <1>1, <1>2, FileInvariant, PTL DEF Spec

(* No row belongs to a document or a club that was deleted while it was      *)
(* uploaded, although the reference to the document is no foreign key.       *)
THEOREM NeverStray == Spec => []NoStrayRows
<1>1. StrayInv => NoStrayRows
  BY DEF StrayInv
<1> QED
  BY <1>1, StrayInvariant, PTL

-----------------------------------------------------------------------------
(* Limits *)

\* What queries return of rows that stay.
LEMMA SetsAreKept ==
  ASSUME NEW s
  PROVE  Stored(s) \in SUBSET Kept /\ Of(s) \in SUBSET Kept
BY DEF Stored, Of

LEMMA UsagesShrink ==
  ASSUME TypeInv, TypeInv', \A f \in File : row'[f] \in {row[f], NoRow}, NEW s
  PROVE  /\ Usage(Stored(s))' <= Usage(Stored(s)) /\ Usage(Stored(s))' \in Nat
         /\ Usage(Of(s))' <= Usage(Of(s)) /\ Usage(Of(s))' \in Nat
<1>1. Kept' \subseteq Kept /\ \A f \in Kept' : row'[f] = row[f]
  BY DEF Kept
<1>2. /\ Stored(s)' \subseteq Stored(s) /\ Stored(s)' \subseteq Kept' /\ Stored(s) \subseteq Kept
      /\ Of(s)' \subseteq Of(s) /\ Of(s)' \subseteq Kept' /\ Of(s) \subseteq Kept
  BY <1>1 DEF Stored, Of
<1>3. /\ \A f \in Stored(s)' : row'[f] = row[f]
      /\ \A f \in Of(s)' : row'[f] = row[f]
  BY <1>1, <1>2
<1>4. Usage(Stored(s))' <= Usage(Stored(s)) /\ Usage(Stored(s))' \in Nat
  BY <1>2, <1>3, UsageShrinks DEF Usage
<1>5. Usage(Of(s))' <= Usage(Of(s)) /\ Usage(Of(s))' \in Nat
  BY <1>2, <1>3, UsageShrinks DEF Usage
<1> QED
  BY <1>4, <1>5

\* What an INSERT adds.
LEMMA UsagesAdd ==
  ASSUME TypeInv, TypeInv', NEW t \in Txn, Insert(t), NEW s
  PROVE  /\ Usage(Stored(s))' \in Nat /\ Usage(Of(s))' \in Nat
         /\ Usage(Stored(s))' <= Usage(Stored(s)) + Size[ask[t].content]
         /\ ask[t].club # s \/ ask[t].slot = "image" => Usage(Stored(s))' <= Usage(Stored(s))
         /\ Usage(Of(s))' <= Usage(Of(s)) + Size[ask[t].content]
         /\ ask[t].subject # s => Usage(Of(s))' <= Usage(Of(s))
<1>1. /\ t \in Uploads /\ file[t] \in File /\ ask[t] \in Asks /\ row'[file[t]] = ask[t]
      /\ \A f \in File \ {file[t]} : row'[f] = IF f \in drop[t] THEN NoRow ELSE row[f]
  BY InsertTyped, InsertHands
<1>2. /\ \A f \in Kept' \ {file[t]} : f \in Kept /\ row'[f] = row[f]
      /\ Stored(s)' \subseteq Kept' /\ Stored(s) \subseteq Kept
      /\ Of(s)' \subseteq Kept' /\ Of(s) \subseteq Kept
  BY <1>1 DEF Kept, Stored, Of
<1>3. /\ Stored(s)' \subseteq Stored(s) \cup {file[t]}
      /\ \A f \in Stored(s)' \ {file[t]} : row'[f] = row[f]
      /\ Of(s)' \subseteq Of(s) \cup {file[t]}
      /\ \A f \in Of(s)' \ {file[t]} : row'[f] = row[f]
  BY <1>2 DEF Stored, Of
<1>4. /\ Usage(Stored(s))' <= Usage(Stored(s)) + Size[ask[t].content]
      /\ Usage(Stored(s))' \in Nat
  BY <1>1, <1>2, <1>3, UsageAdds DEF Usage
<1>5. /\ Usage(Of(s))' <= Usage(Of(s)) + Size[ask[t].content]
      /\ Usage(Of(s))' \in Nat
  BY <1>1, <1>2, <1>3, UsageAdds DEF Usage
<1>6. ASSUME ask[t].club # s \/ ask[t].slot = "image"
      PROVE  Usage(Stored(s))' <= Usage(Stored(s))
  <2>1. Stored(s)' \subseteq Stored(s) /\ \A f \in Stored(s)' : row'[f] = row[f]
    BY <1>1, <1>3, <1>6 DEF Stored
  <2> QED
    BY <1>2, <2>1, UsageShrinks DEF Usage
<1>7. ASSUME ask[t].subject # s
      PROVE  Usage(Of(s))' <= Usage(Of(s))
  <2>1. Of(s)' \subseteq Of(s) /\ \A f \in Of(s)' : row'[f] = row[f]
    BY <1>1, <1>3, <1>7 DEF Of
  <2> QED
    BY <1>2, <2>1, UsageShrinks DEF Usage
<1> QED
  BY <1>4, <1>5, <1>6, <1>7

\* Steps that insert nothing keep the limits.
LEMMA LimitShrinks ==
  ASSUME TypeInv, TypeInv', LimitInv, NEW t \in Txn, OthersKept(t),
         \A f \in File : row'[f] \in {row[f], NoRow},
         HoldsStorage(t)' => Fits(ask'[t]) /\ ~Duplicate(ask'[t]) /\ ask'[t] \in Asks,
         t \in Uploads' /\ target'[t] \in Document => Usage(Of(target'[t])) <= before'[t]
  PROVE  LimitInv'
<1>1. \A s : /\ Usage(Stored(s))' <= Usage(Stored(s)) /\ Usage(Stored(s))' \in Nat
             /\ Usage(Of(s))' <= Usage(Of(s)) /\ Usage(Of(s))' \in Nat
  BY UsagesShrink
<1>2. \A s : Usage(Stored(s)) \in Nat /\ Usage(Of(s)) \in Nat
  BY SetsAreKept, BlocksFinite
<1>3. QuotaKept' /\ CapKept'
  BY <1>1, <1>2, SizeAssumption DEF LimitInv, QuotaKept, CapKept
<1>4. NoDuplicateContent'
  BY DEF LimitInv, NoDuplicateContent, Kept
<1>5. ASSUME NEW a \in Asks, Fits(a), ~Duplicate(a)
      PROVE  Fits(a)' /\ ~Duplicate(a)'
  <2>1. Fits(a)'
    BY <1>1, <1>2, <1>5, AskFields, SizeAssumption DEF Fits
  <2>2. ~Duplicate(a)'
    BY <1>5 DEF Duplicate, Stored, Kept
  <2> QED
    BY <2>1, <2>2
<1>6. ASSUME NEW u \in Txn, HoldsStorage(u)'
      PROVE  (Fits(ask[u]) /\ ~Duplicate(ask[u]))'
  <2>1. CASE u = t
    BY <1>5, <1>6, <2>1
  <2>2. CASE u # t
    <3>1. HoldsStorage(u) /\ ask'[u] = ask[u] /\ ask[u] \in Asks
      BY <1>6, <2>2 DEF OthersKept, HoldsStorage, TypeInv, HandsTyped, Uploads
    <3>2. Fits(ask[u]) /\ ~Duplicate(ask[u])
      BY <3>1 DEF LimitInv
    <3> QED
      BY <1>5, <3>1, <3>2
  <2> QED
    BY <2>1, <2>2
<1>7. ASSUME NEW u \in Uploads', target'[u] \in Document
      PROVE  Usage(Of(target'[u])) <= before'[u] /\ before'[u] \in Nat
  <2>1. before'[u] \in Nat
    BY <1>7 DEF TypeInv, TypeOK, Uploads
  <2>2. CASE u # t
    <3>1. u \in Uploads /\ target'[u] = target[u] /\ before'[u] = before[u]
      BY <1>7, <2>2 DEF OthersKept, Uploads
    <3> QED
      BY <1>7, <2>1, <3>1 DEF LimitInv
  <2> QED
    BY <1>7, <2>1, <2>2
<1>8. ASSUME NEW u \in Uploads', target'[u] \in Document
      PROVE  (Usage(Of(target[u])) <= before[u])'
  <2>1. (Usage(Of(target[u])))' <= Usage(Of(target'[u]))
    BY <1>1
  <2> QED
    BY <1>1, <1>2, <1>7, <1>8, <2>1
<1> QED
  BY <1>3, <1>4, <1>6, <1>8 DEF LimitInv

\* Nor does what an INSERT adds exceed them.
LEMMA LimitInserts ==
  ASSUME TypeInv, TypeInv', LockInv, LimitInv, NEW t \in Txn, OthersKept(t), Insert(t), WithinCap(t),
         t \notin Uploads'
  PROVE  LimitInv'
<1>1. /\ t \in Uploads /\ pc[t] = "flushed" /\ HoldsStorage(t) /\ row'[file[t]] = ask[t]
      /\ \A f \in File \ {file[t]} : row'[f] = IF f \in drop[t] THEN NoRow ELSE row[f]
      /\ ask[t] \in Asks /\ file[t] \in File
  BY InsertHands, InsertTyped DEF HoldsStorage
<1>2. Fits(ask[t]) /\ ~Duplicate(ask[t])
  BY <1>1 DEF LimitInv
<1>3. ask[t] # NoRow /\ Size[ask[t].content] \in Nat /\ target[t] = ask[t].subject
  BY <1>1, AskFields DEF TypeInv, HandsTyped
<1>4. \A s : Usage(Stored(s)) \in Nat /\ Usage(Of(s)) \in Nat
  BY SetsAreKept, BlocksFinite
<1>5. ASSUME NEW c \in Club PROVE Usage(Stored(c))' <= Quota
  <2>1. /\ Usage(Stored(c))' \in Nat
        /\ Usage(Stored(c))' <= Usage(Stored(c)) + Size[ask[t].content]
        /\ ask[t].club # c \/ ask[t].slot = "image" => Usage(Stored(c))' <= Usage(Stored(c))
    BY UsagesAdd
  <2>2. Usage(Stored(c)) <= Quota
    BY DEF LimitInv, QuotaKept
  <2>3. ask[t].club = c /\ ask[t].slot # "image" => Usage(Stored(c)) + Size[ask[t].content] <= Quota
    BY <1>2 DEF Fits
  <2> QED
    BY <1>3, <1>4, <2>1, <2>2, <2>3, SizeAssumption
<1>6. ASSUME NEW d \in Document PROVE Usage(Of(d))' <= Cap
  <2>1. /\ Usage(Of(d))' \in Nat
        /\ Usage(Of(d))' <= Usage(Of(d)) + Size[ask[t].content]
        /\ ask[t].subject # d => Usage(Of(d))' <= Usage(Of(d))
    BY UsagesAdd
  <2>2. Usage(Of(d)) <= Cap
    BY DEF LimitInv, CapKept
  <2>3. ask[t].subject = d => /\ Usage(Of(d)) <= before[t]
                              /\ before[t] + Size[ask[t].content] <= Cap
    BY <1>1, <1>3 DEF LimitInv, WithinCap
  <2>4. before[t] \in Nat
    BY DEF TypeInv, TypeOK
  <2> QED
    BY <1>3, <1>4, <2>1, <2>2, <2>3, <2>4, SizeAssumption
<1>7. NoDuplicateContent'
  <2>1. ASSUME NEW g \in Kept', g # file[t],
               row'[g].slot = ask[t].slot, ask[t].slot \in {"photo", "eval"},
               row'[g].club = ask[t].club, row'[g].content = ask[t].content,
               ask[t].slot = "eval" => row'[g].subject = ask[t].subject
        PROVE  FALSE
    <3>1. g \in Kept /\ row'[g] = row[g]
      BY <1>1, <2>1 DEF Kept
    <3> QED
      BY <1>2, <2>1, <3>1 DEF Duplicate, Stored
  <2>2. ASSUME NEW f \in Kept', NEW g \in Kept', f # file[t], g # file[t],
               row'[f].slot = row'[g].slot, row'[f].slot \in {"photo", "eval"},
               row'[f].club = row'[g].club, row'[f].content = row'[g].content,
               row'[f].slot = "eval" => row'[f].subject = row'[g].subject
        PROVE  f = g
    <3>1. f \in Kept /\ g \in Kept /\ row'[f] = row[f] /\ row'[g] = row[g]
      BY <1>1, <2>2 DEF Kept
    <3> QED
      BY <2>2, <3>1 DEF LimitInv, NoDuplicateContent
  <2> QED
    BY <1>1, <2>1, <2>2 DEF NoDuplicateContent
<1>8. ASSUME NEW u \in Txn, HoldsStorage(u)' PROVE FALSE
  <2>1. u # t
    BY <1>8 DEF HoldsStorage, Uploads
  <2>2. HoldsStorage(u)
    BY <1>8, <2>1 DEF OthersKept, HoldsStorage
  <2> QED
    BY <1>1, <2>1, <2>2 DEF LockInv
<1>9. ASSUME NEW u \in Uploads', target'[u] \in Document
      PROVE  (Usage(Of(target[u])) <= before[u])'
  <2>1. u \in Txn /\ u # t /\ u \in Uploads /\ target'[u] = target[u] /\ before'[u] = before[u]
    BY <1>9 DEF OthersKept, Uploads
  <2>2. target[u] # target[t]
    <3>1. target[u] \in Locked(u) /\ target[u] \notin Rubric
      BY <1>9, <2>1, SubjectAssumption DEF Locked, Uploads
    <3>2. target[t] \in Rubric \/ target[t] \in Locked(t)
      BY <1>1 DEF Locked
    <3>3. Locked(t) \cap Locked(u) = {}
      BY <2>1 DEF LockInv
    <3> QED
      BY <3>1, <3>2, <3>3
  <2>3. Usage(Of(target[u])) <= before[u] /\ before[u] \in Nat
    BY <1>9, <2>1 DEF LimitInv, TypeInv, TypeOK
  <2>4. \A s : ask[t].subject # s => Usage(Of(s))' <= Usage(Of(s)) /\ Usage(Of(s))' \in Nat
    BY UsagesAdd
  <2>5. (Usage(Of(target[u])))' <= Usage(Of(target[u])) /\ (Usage(Of(target[u])))' \in Nat
    BY <1>3, <2>1, <2>2, <2>4
  <2> QED
    BY <1>4, <2>1, <2>3, <2>5
<1> QED
  BY <1>5, <1>6, <1>7, <1>8, <1>9 DEF LimitInv, QuotaKept, CapKept

LEMMA LimitMoves ==
  ASSUME FileInv, LimitInv, TypeInv', NEW t \in Txn, Moves(t)
  PROVE  LimitInv'
<1>1. TypeInv /\ LockInv /\ OthersKept(t)
  BY LocksMove DEF FileInv
<1>2. ASSUME \A f \in File : row'[f] \in {row[f], NoRow}, ~HoldsStorage(t)', t \notin Uploads'
      PROVE  LimitInv'
  BY <1>1, <1>2, LimitShrinks
<1>3. ASSUME NEW P, Finish(t, P), \A f \in File : row'[f] \in {row[f], NoRow}
      PROVE  LimitInv'
  <2>1. ~HoldsStorage(t)' /\ t \notin Uploads'
    BY <1>1, <1>3, FinishEffect
  <2> QED
    BY <1>2, <1>3, <2>1
<1>4. ASSUME NEW a \in Asks, NEW f \in File, BeginUpload(t, a, f) PROVE LimitInv'
  <2>1. /\ row' = row /\ ~HoldsStorage(t)' /\ target'[t] = a.subject
        /\ before'[t] = Usage(Of(a.subject))
    BY <1>1, <1>4, BeginUploadEffect
  <2>2. Usage(Of(a.subject)) \in Nat
    BY <1>1, SetsAreKept, BlocksFinite
  <2>3. Usage(Of(target'[t])) <= before'[t]
    BY <2>1, <2>2
  <2> QED
    BY <1>1, <2>1, <2>3, LimitShrinks
<1>5. ASSUME Settle(t) \/ Flush(t) PROVE LimitInv'
  <2>1. /\ row' = row /\ target' = target /\ before' = before /\ ask' = ask /\ t \in Uploads
    BY <1>1, <1>5, AdvanceEffect
  <2>2. Fits(ask[t]) /\ ~Duplicate(ask[t]) /\ ask[t] \in Asks
    <3>1. CASE Settle(t)
      BY <1>1, <2>1, <3>1 DEF Settle, TypeInv, HandsTyped
    <3>2. CASE Flush(t)
      BY <1>1, <2>1, <3>2 DEF Flush, HoldsStorage, LimitInv, TypeInv, HandsTyped
    <3> QED
      BY <1>5, <3>1, <3>2
  <2>3. target'[t] \in Document => Usage(Of(target'[t])) <= before'[t]
    BY <2>1 DEF LimitInv
  <2> QED
    BY <1>1, <2>1, <2>2, <2>3, LimitShrinks
<1>6. CASE CommitUpload(t) \/ CommitUnacknowledged(t)
  <2>1. Insert(t) /\ WithinCap(t) /\ \E P : Finish(t, P)
    BY <1>6 DEF CommitUpload, CommitUnacknowledged
  <2>2. t \notin Uploads'
    BY <1>1, <2>1, FinishEffect
  <2> QED
    BY <1>1, <2>1, <2>2, LimitInserts
<1>7. ASSUME NEW step \in {"removing", "purging", "collected"}, NEW s, NEW P, Begin(t, step, s, P)
      PROVE  LimitInv'
  <2>1. row' = row /\ ~HoldsStorage(t)' /\ t \notin Uploads'
    BY <1>1, <1>7, BeginEffect
  <2> QED
    BY <1>2, <2>1
<1>8. CASE CommitRemoval(t)
  <2>1. Finish(t, drop[t]) /\ \A f \in File : row'[f] \in {row[f], NoRow}
    BY <1>8 DEF CommitRemoval
  <2> QED
    BY <1>3, <2>1
<1>9. ASSUME NEW c \in Club, DeleteClub(t, c) PROVE LimitInv'
  <2>1. Finish(t, drop[t] \cup Of(c)) /\ \A f \in File : row'[f] \in {row[f], NoRow}
    BY <1>9 DEF DeleteClub
  <2> QED
    BY <1>3, <2>1
<1>10. CASE Removing(t)
  BY <1>7, <1>8, <1>9, <1>10 DEF Removing, RemoveFile, PurgeDocument, RemoveImage, CollectPaths
<1>11. CASE Abort(t)
  <2>1. Finish(t, {file[t]} \ {NoFile}) /\ row' = row
    BY <1>11 DEF Abort, dataVars
  <2> QED
    BY <1>3, <2>1
<1>12. ASSUME NEW f \in File, Unlink(t, f) \/ UnlinkFails(t, f) PROVE LimitInv'
  <2>1. row' = row /\ ~HoldsStorage(t)' /\ t \notin Uploads'
    BY <1>1, <1>12, UnlinkedEffect DEF Unlink, UnlinkFails
  <2> QED
    BY <1>2, <2>1
<1> QED
  BY <1>4, <1>5, <1>6, <1>10, <1>11, <1>12 DEF Moves, Uploading

LEMMA LimitStays ==
  ASSUME LimitInv, UNCHANGED vars \/ Crash
  PROVE  LimitInv'
<1>1. row' = row /\ (UNCHANGED vars \/ (Uploads' = {} /\ \A u \in Txn : ~HoldsStorage(u)'))
  BY DEF vars, dataVars, Crash, Uploads, HoldsStorage
<1>2. QuotaKept' /\ CapKept' /\ NoDuplicateContent'
  BY <1>1 DEF LimitInv, QuotaKept, CapKept, NoDuplicateContent, Usage, Blocks, Stored, Of, Kept
<1>3. CASE UNCHANGED vars
  <2>1. /\ \A t \in Txn : HoldsStorage(t)' => (Fits(ask[t]) /\ ~Duplicate(ask[t]))'
        /\ \A t \in Uploads' : target'[t] \in Document => (Usage(Of(target[t])) <= before[t])'
    BY <1>3 DEF vars, dataVars, txnVars, LimitInv, HoldsStorage, Uploads, Fits, Duplicate,
                Usage, Blocks, Stored, Of, Kept
  <2> QED
    BY <1>2, <2>1 DEF LimitInv
<1>4. CASE Uploads' = {} /\ \A u \in Txn : ~HoldsStorage(u)'
  BY <1>2, <1>4 DEF LimitInv
<1> QED
  BY <1>1, <1>3, <1>4

LEMMA LimitInit == Init => LimitInv
<1> SUFFICES ASSUME Init PROVE LimitInv
  OBVIOUS
<1>1. Kept = {} /\ Uploads = {} /\ \A t \in Txn : ~HoldsStorage(t)
  BY DEF Init, Kept, Uploads, HoldsStorage
<1>2. \A s : Blocks(Stored(s)) = {} /\ Blocks(Of(s)) = {}
  BY <1>1 DEF Blocks, Stored, Of
<1>3. \A s : Usage(Stored(s)) = 0 /\ Usage(Of(s)) = 0
  BY <1>2, FS_EmptySet DEF Usage
<1> QED
  BY <1>1, <1>3, SizeAssumption DEF LimitInv, QuotaKept, CapKept, NoDuplicateContent

LEMMA LimitInvariant == Spec => [](FileInv /\ LimitInv)
<1>1. FileInv /\ LimitInv /\ [Next]_vars => LimitInv'
  <2> SUFFICES ASSUME FileInv, LimitInv, [Next]_vars PROVE LimitInv'
    OBVIOUS
  <2>1. TypeInv'
    BY TypeStep DEF FileInv
  <2> QED
    BY <2>1, LimitStays, LimitMoves DEF Next, Moves
<1> QED
  BY <1>1, LimitInit, FileInvariant, PTL DEF Spec

(* What a club has stored never exceeds its quota, although every upload     *)
(* looks at the quota before the transfer and others are under way.          *)
THEOREM QuotaHolds == Spec => []QuotaKept
<1>1. LimitInv => QuotaKept
  BY DEF LimitInv
<1> QED
  BY <1>1, LimitInvariant, PTL

(* What a document has attached never exceeds its limit.                     *)
THEOREM CapHolds == Spec => []CapKept
<1>1. LimitInv => CapKept
  BY DEF LimitInv
<1> QED
  BY <1>1, LimitInvariant, PTL

(* A club never has the same photo twice, nor an evaluation item the same    *)
(* file: the storage lock sees to it before the unique indexes have to.      *)
THEOREM NeverTwice == Spec => []NoDuplicateContent
<1>1. LimitInv => NoDuplicateContent
  BY DEF LimitInv
<1> QED
  BY <1>1, LimitInvariant, PTL

(* Neither limit is passed.                                                  *)
THEOREM LimitsHold == Spec => []LimitsKept
<1>1. QuotaKept /\ CapKept => LimitsKept
  BY DEF LimitsKept
<1> QED
  BY <1>1, QuotaHolds, CapHolds, PTL

(* The table and the disk are in step.                                       *)
THEOREM RowsFilesMatch == Spec => []RowsMatchFiles
<1>1. RowsHaveFiles /\ FilesHaveRows => RowsMatchFiles
  BY DEF RowsMatchFiles
<1> QED
  BY <1>1, RowsAlwaysHaveFiles, FilesAlwaysHaveRows, PTL

(* No row is there twice, and none for what is gone.                         *)
THEOREM RecordsHold == Spec => []RecordsInv
<1>1. TypeOK /\ NoDuplicateContent /\ ImagesMatch /\ NoStrayRows => RecordsInv
  BY DEF RecordsInv
<1> QED
  BY <1>1, TypeOKHolds, NeverTwice, OneImage, NeverStray, PTL

-----------------------------------------------------------------------------
(* The requests implement the shelf *)

LEMMA SameCardinality ==
  ASSUME NEW S
  PROVE  Shelf!Cardinality(S) = Cardinality(S)
BY Zenon DEF Shelf!Cardinality, Cardinality

LEMMA SameSets ==
  ASSUME NEW s
  PROVE  /\ Shelf!Kept = Kept /\ Shelf!OfClub(s) = Stored(s) /\ Shelf!OfSubject(s) = Of(s)
         /\ \A S : Cardinality(Shelf!Blocks(S)) = Usage(S)
BY DEF Shelf!Kept, Shelf!OfClub, Shelf!OfSubject, Shelf!Blocks, Kept, Stored, Of, Blocks, Usage

LEMMA InsertPuts ==
  ASSUME FileInv, LimitInv, NEW t \in Txn, Insert(t), WithinCap(t)
  PROVE  Shelf!Put(file[t], ask[t])
<1>1. /\ t \in Uploads /\ file[t] \in File /\ ask[t] \in Asks /\ target[t] = ask[t].subject
      /\ HoldsStorage(t)
  BY InsertTyped, InsertHands DEF FileInv, TypeInv, HandsTyped, HoldsStorage
<1>2. file[t] \notin Shelf!Kept
  BY <1>1, SameSets DEF FileInv, NewInv, Kept
<1>3. Fits(ask[t]) /\ ~Duplicate(ask[t])
  BY <1>1 DEF LimitInv
<1>4. ask[t].slot # "image" =>
         Cardinality(Shelf!Blocks(Shelf!OfClub(ask[t].club))) + Size[ask[t].content] <= Quota
  BY <1>3, SameSets DEF Fits
<1>5. ask[t].subject \in Document =>
         Cardinality(Shelf!Blocks(Shelf!OfSubject(ask[t].subject))) + Size[ask[t].content] <= Cap
  <2>1. Usage(Of(ask[t].subject)) \in Nat /\ before[t] \in Nat /\ Size[ask[t].content] \in Nat
    BY <1>1, SetsAreKept, BlocksFinite, AskFields DEF FileInv, TypeInv, TypeOK
  <2>2. ask[t].subject \in Document => /\ Usage(Of(ask[t].subject)) <= before[t]
                                       /\ before[t] + Size[ask[t].content] <= Cap
    BY <1>1 DEF LimitInv, WithinCap
  <2> QED
    BY <2>1, <2>2, SameSets, SizeAssumption
<1>6. ask[t].slot \in {"photo", "eval"} =>
         \A g \in Shelf!Kept : ~(/\ row[g].content = ask[t].content /\ row[g].club = ask[t].club
                                 /\ row[g].slot = ask[t].slot
                                 /\ ask[t].slot = "eval" => row[g].subject = ask[t].subject)
  BY <1>3, SameSets DEF Duplicate, Stored
<1>7. drop[t] = IF ask[t].slot = "image" THEN Shelf!OfSubject(ask[t].subject) ELSE {}
  <2>1. drop[t] = IF ask[t].slot = "image" THEN {image[ask[t].club]} \ {NoFile} ELSE {}
    BY <1>1 DEF FileInv, DropInv, DropRight, Uploads
  <2>2. ask[t].slot = "image" => Of(ask[t].subject) = {image[ask[t].club]} \ {NoFile}
    BY <1>1, AskFields DEF FileInv, ImagesMatch
  <2> QED
    BY <2>1, <2>2, SameSets
<1>8. row' = [g \in File |-> IF g = file[t] THEN ask[t]
                             ELSE IF ask[t].slot = "image" /\ g \in Shelf!OfSubject(ask[t].subject)
                                  THEN NoRow ELSE row[g]]
  BY <1>7 DEF Insert
<1> QED
  BY <1>2, <1>4, <1>5, <1>6, <1>8, SameCardinality DEF Shelf!Put

LEMMA RemovalTakes ==
  ASSUME FileInv, NEW t \in Txn, CommitRemoval(t)
  PROVE  Shelf!Next
<1>1. row' = [f \in File |-> IF f \in drop[t] THEN NoRow ELSE row[f]] /\ DropRight(t)
  BY DEF CommitRemoval, FileInv, DropInv
<1>2. CASE pc[t] = "removing"
  <2>1. PICK f \in File : drop[t] = {f}
    BY <1>1, <1>2 DEF DropRight
  <2>2. Shelf!Take({f})
    BY <1>1, <2>1 DEF Shelf!Take
  <2> QED
    BY <2>2 DEF Shelf!Next
<1>3. CASE pc[t] = "purging"
  <2>1. /\ target[t] \in Document /\ Of(target[t]) \subseteq drop[t]
        /\ \A f \in drop[t] : row[f] = NoRow \/ row[f].subject = target[t]
    BY <1>1, <1>3 DEF DropRight, FileInv, TypeInv, HandsTyped
  <2>2. \A f \in File : f \in drop[t] => f \in Of(target[t]) \/ row[f] = NoRow
    BY <2>1 DEF Of, Kept
  <2>3. row' = [f \in File |-> IF f \in Of(target[t]) THEN NoRow ELSE row[f]]
    BY <1>1, <2>1, <2>2
  <2>4. Shelf!Take(Shelf!OfSubject(target[t]))
    BY <2>3, SameSets DEF Shelf!Take
  <2> QED
    BY <2>1, <2>4 DEF Shelf!Next
<1> QED
  BY <1>2, <1>3 DEF CommitRemoval

LEMMA ShelfStep ==
  ASSUME FileInv, LimitInv, [Next]_vars
  PROVE  [Shelf!Next]_row
<1>1. CASE UNCHANGED vars \/ Crash
  BY <1>1 DEF vars, dataVars, Crash
<1>2. ASSUME NEW t \in Txn, Uploading(t) PROVE [Shelf!Next]_row
  <2>1. CASE CommitUpload(t) \/ CommitUnacknowledged(t)
    <3>1. Insert(t) /\ WithinCap(t)
      BY <2>1 DEF CommitUpload, CommitUnacknowledged
    <3>2. file[t] \in File /\ ask[t] \in Asks /\ Shelf!Put(file[t], ask[t])
      BY <3>1, InsertTyped, InsertPuts DEF FileInv
    <3> QED
      BY <3>2 DEF Shelf!Next
  <2> QED
    BY <1>2, <2>1 DEF Uploading, BeginUpload, Settle, Flush, dataVars
<1>3. ASSUME NEW t \in Txn, Removing(t) PROVE [Shelf!Next]_row
  <2>1. CASE CommitRemoval(t)
    BY <2>1, RemovalTakes
  <2>2. ASSUME NEW c \in Club, DeleteClub(t, c) PROVE Shelf!Next
    <3>1. Shelf!Take(Shelf!OfClub(c) \cup Shelf!OfSubject(c))
      BY <2>2, SameSets DEF DeleteClub, Shelf!Take
    <3> QED
      BY <3>1 DEF Shelf!Next
  <2> QED
    BY <1>3, <2>1, <2>2 DEF Removing, RemoveFile, RemoveImage, PurgeDocument, CollectPaths, Begin, dataVars
<1>4. ASSUME NEW t \in Txn, Abort(t) \/ \E f \in File : Unlink(t, f) \/ UnlinkFails(t, f)
      PROVE  [Shelf!Next]_row
  BY <1>4 DEF Abort, Unlink, UnlinkFails, Unlinked, dataVars
<1> QED
  BY <1>1, <1>2, <1>3, <1>4 DEF Next

(* Whatever interleaving of locks, transfers, checks, commits, rollbacks,    *)
(* unlinks and crashes there is, the table changes as if every upload and    *)
(* every deletion happened in one step.                                      *)
THEOREM ShelfImplemented == Spec => ShelfSpec
<1>1. Init => Shelf!Init
  BY DEF Init, Shelf!Init
<1>2. FileInv /\ LimitInv /\ [Next]_vars => [Shelf!Next]_row
  BY ShelfStep
<1> QED
  BY <1>1, <1>2, LimitInvariant, PTL DEF Spec, ShelfSpec, Shelf!Spec
=============================================================================
