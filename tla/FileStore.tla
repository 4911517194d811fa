------------------------------ MODULE FileStore ------------------------------
(***************************************************************************)
(* Uploaded files: a row of the table files and a file on the disk that    *)
(* must come and go together, although only the row is transactional.  An  *)
(* upload locks the document it belongs to, writes the transfer to a part  *)
(* file, takes the storage lock to settle the club's quota, renames the    *)
(* part into place, inserts the row and commits; a deletion commits first  *)
(* and unlinks after.  A file whose transaction ends without a commit is   *)
(* unlinked.  The process can die between any two steps.                   *)
(***************************************************************************)
EXTENDS Integers, FiniteSets

CONSTANTS
    File,      \* the identities (uuid) of files
    Club,
    Document,  \* the rows files are attached to and that are locked first: activities
    OwnerOf,   \* the club of each document
    Rubric,    \* evaluation items, whose uploads lock no row
    Content,   \* what is uploaded, told apart by its hash
    Size,      \* of each content
    Asks,      \* what is uploaded: [club, subject, slot, content]
    Txn,       \* concurrent requests
    Quota,     \* of a club
    Cap,       \* of a document
    NoRow, NoFile, NoSubject

Subject == Document \cup Rubric \cup Club
Row == [club : Club, subject : Subject, slot : {"photo", "doc", "eval", "image"}, content : Content]

ASSUME FileAssumption == IsFiniteSet(File) /\ NoFile \notin File
ASSUME SubjectAssumption ==
    /\ Document \cap Rubric = {} /\ Document \cap Club = {} /\ Rubric \cap Club = {}
    /\ NoSubject \notin Subject
    /\ OwnerOf \in [Document -> Club]
ASSUME SizeAssumption == Size \in [Content -> Nat \ {0}] /\ Quota \in Nat /\ Cap \in Nat
ASSUME AskAssumption ==
    /\ Asks \subseteq Row /\ NoRow \notin Row
    /\ \A a \in Asks : CASE a.slot = "image" -> a.subject = a.club
                         [] a.slot = "eval" -> a.subject \in Rubric
                         [] OTHER -> a.subject \in Document /\ a.club = OwnerOf[a.subject]

VARIABLES
    row,     \* the committed rows of files
    place,   \* where each file is on the disk
    gone,    \* documents and clubs that were deleted
    image,   \* clubs.avatar_file_id
    pc,      \* where each request stands
    target,  \* the row it works on
    ask,     \* the row of files it is about to insert
    file,    \* the file it has written
    before,  \* how much its document held when it was locked
    drop,    \* the files whose rows it is to delete; then, the paths it unlinks
    debris,  \* history: files known to be left without a row
    unsure   \* history: files whose COMMIT was carried out but not acknowledged

dataVars == <<row, gone, image>>
txnVars == <<pc, target, ask, file, before, drop>>
pastVars == <<debris, unsure>>
vars == <<dataVars, place, txnVars, pastVars>>

TypeOK ==
    /\ row \in [File -> Asks \cup {NoRow}]
    /\ place \in [File -> {"none", "part", "placed"}]
    /\ gone \subseteq Document \cup Club
    /\ image \in [Club -> File \cup {NoFile}]
    /\ pc \in [Txn -> {"idle", "open", "settled", "flushed", "removing", "purging", "collected", "unlinking"}]
    /\ target \in [Txn -> Subject \cup {NoSubject}]
    /\ ask \in [Txn -> Asks \cup {NoRow}]
    /\ file \in [Txn -> File \cup {NoFile}]
    /\ before \in [Txn -> Nat]
    /\ drop \in [Txn -> SUBSET File]
    /\ debris \subseteq File /\ unsure \subseteq File

-----------------------------------------------------------------------------
(* What a query sees *)

Kept == {f \in File : row[f] # NoRow}
Of(s) == {f \in Kept : row[f].subject = s}

\* What counts against the club: images have no club_id.
Stored(c) == {f \in Kept : row[f].club = c /\ row[f].slot # "image"}

\* SUM(size): a file of size n is n blocks.
Blocks(files) == UNION {{f} \X (1 .. Size[row[f].content]) : f \in files}

Usage(files) == Cardinality(Blocks(files))

\* The club's quota has room for it.
Fits(a) == a.slot # "image" => Usage(Stored(a.club)) + Size[a.content] <= Quota

\* The same content: a photo of any of the club's documents, or a file of the
\* same evaluation item.
Duplicate(a) ==
    \E f \in Stored(a.club) :
        /\ a.slot \in {"photo", "eval"}
        /\ row[f].content = a.content /\ row[f].slot = a.slot
        /\ a.slot = "eval" => row[f].subject = a.subject

-----------------------------------------------------------------------------
(* Locks *)

\* The document or club row a request has locked with FOR UPDATE.
Locked(t) ==
    IF pc[t] \in {"open", "settled", "flushed", "removing", "purging"} THEN {target[t]} \ Rubric ELSE {}

HoldsStorage(t) == pc[t] \in {"settled", "flushed"}

\* The foreign key of an inserted row locks its club FOR KEY SHARE.
SharesClub(t, c) == pc[t] = "flushed" /\ ask[t].slot # "image" /\ ask[t].club = c

\* Mutants: the locks are not taken.
NoRowLock(s) == TRUE
NoStorageLock == TRUE

RowFree(s) == \A t \in Txn : s \notin Locked(t) /\ ~SharesClub(t, s)

\* pg_advisory_xact_lock(_STORAGE_LOCK_KEY)
StorageFree == \A t \in Txn : ~HoldsStorage(t)

\* uuid4
Fresh(f) ==
    /\ row[f] = NoRow /\ place[f] = "none" /\ f \notin debris \cup unsure
    /\ \A t \in Txn : f # file[t] /\ f \notin drop[t]

-----------------------------------------------------------------------------
(* Transactions *)

\* The transaction is over; these paths are unlinked next.
Finish(t, paths) ==
    /\ pc' = [pc EXCEPT ![t] = IF paths = {} THEN "idle" ELSE "unlinking"]
    /\ target' = [target EXCEPT ![t] = NoSubject]
    /\ ask' = [ask EXCEPT ![t] = NoRow]
    /\ file' = [file EXCEPT ![t] = NoFile]
    /\ before' = [before EXCEPT ![t] = 0]
    /\ drop' = [drop EXCEPT ![t] = paths]

\* A check that fails, an exception or a deadlock: the rows stay as they were
\* and the new file goes.
Abort(t) ==
    /\ pc[t] \notin {"idle", "unlinking"}
    /\ Finish(t, {file[t]} \ {NoFile})
    /\ UNCHANGED <<dataVars, place, pastVars>>

\* unlink_quiet, which gives up on an error of the system.
Unlinked(t, f) ==
    /\ f \in drop[t] /\ pc[t] = "unlinking"
    /\ drop' = [drop EXCEPT ![t] = @ \ {f}]
    /\ pc' = [pc EXCEPT ![t] = IF drop[t] = {f} THEN "idle" ELSE "unlinking"]
    /\ UNCHANGED <<dataVars, target, ask, file, before, unsure>>

Unlink(t, f) ==
    /\ Unlinked(t, f)
    /\ place' = [place EXCEPT ![f] = "none"]
    /\ UNCHANGED debris

UnlinkFails(t, f) ==
    /\ Unlinked(t, f)
    /\ place[f] # "none"
    /\ debris' = debris \cup {f}
    /\ UNCHANGED place

-----------------------------------------------------------------------------
(* Uploads *)

\* The row is locked and read, the quota looked at, the transfer written.  A
\* new image takes the place of the one the club has by then.
BeginUpload(t, a, f) ==
    /\ pc[t] = "idle"
    /\ a.subject \notin gone /\ a.club \notin gone
    /\ RowFree(a.subject)
    /\ Fits(a)
    /\ Fresh(f)
    /\ pc' = [pc EXCEPT ![t] = "open"]
    /\ target' = [target EXCEPT ![t] = a.subject]
    /\ ask' = [ask EXCEPT ![t] = a]
    /\ file' = [file EXCEPT ![t] = f]
    /\ before' = [before EXCEPT ![t] = Usage(Of(a.subject))]
    /\ drop' = [drop EXCEPT ![t] = IF a.slot = "image" THEN {image[a.club]} \ {NoFile} ELSE {}]
    /\ place' = [place EXCEPT ![f] = "part"]
    /\ UNCHANGED <<dataVars, pastVars>>

\* Under the storage lock the quota is looked at again.
Settle(t) ==
    /\ pc[t] = "open"
    /\ StorageFree
    /\ Fits(ask[t]) /\ ~Duplicate(ask[t])
    /\ place' = [place EXCEPT ![file[t]] = "placed"]
    /\ pc' = [pc EXCEPT ![t] = "settled"]
    /\ UNCHANGED <<dataVars, target, ask, file, before, drop, pastVars>>

\* INSERT: the club's row must be there and not be locked by someone else.
Flush(t) ==
    /\ pc[t] = "settled"
    /\ ask[t].slot # "image" => /\ ask[t].club \notin gone
                                /\ \A u \in Txn : ask[t].club \notin Locked(u)
    /\ pc' = [pc EXCEPT ![t] = "flushed"]
    /\ UNCHANGED <<dataVars, place, target, ask, file, before, drop, pastVars>>

Insert(t) ==
    /\ pc[t] = "flushed"
    /\ row' = [f \in File |-> IF f = file[t] THEN ask[t]
                              ELSE IF f \in drop[t] THEN NoRow ELSE row[f]]
    /\ image' = IF ask[t].slot = "image" THEN [image EXCEPT ![ask[t].club] = file[t]] ELSE image
    /\ UNCHANGED <<gone, place>>

WithinCap(t) == target[t] \in Document => before[t] + Size[ask[t].content] <= Cap

CommitUpload(t) ==
    /\ Insert(t)
    /\ WithinCap(t)
    /\ Finish(t, drop[t])
    /\ UNCHANGED pastVars

\* The connection breaks while the COMMIT is carried out: to the session it
\* has failed, so the new file goes and the old one stays.
CommitUnacknowledged(t) ==
    /\ Insert(t)
    /\ WithinCap(t)
    /\ Finish(t, {file[t]})
    /\ unsure' = unsure \cup {file[t]}
    /\ debris' = debris \cup drop[t]

-----------------------------------------------------------------------------
(* Deletions *)

Begin(t, step, s, files) ==
    /\ pc[t] = "idle"
    /\ pc' = [pc EXCEPT ![t] = step]
    /\ target' = [target EXCEPT ![t] = s]
    /\ drop' = [drop EXCEPT ![t] = files]
    /\ UNCHANGED <<dataVars, ask, file, before, pastVars>>

\* Mutant: the file goes before its row.
RemoveFileFirst(t, f) ==
    /\ row[f] # NoRow /\ row[f].slot # "image"
    /\ RowFree(row[f].subject)
    /\ Begin(t, "removing", row[f].subject, {f})
    /\ place' = [place EXCEPT ![f] = "none"]

\* A photo, an attachment, a file of an evaluation item.
RemoveFile(t, f) ==
    /\ row[f] # NoRow /\ row[f].slot # "image"
    /\ RowFree(row[f].subject)
    /\ Begin(t, "removing", row[f].subject, {f})
    /\ UNCHANGED place

RemoveImage(t, c) ==
    /\ image[c] # NoFile
    /\ RowFree(c)
    /\ Begin(t, "removing", c, {image[c]})
    /\ UNCHANGED place

\* purge
PurgeDocument(t, d) ==
    /\ d \notin gone
    /\ RowFree(d)
    /\ Begin(t, "purging", d, Of(d))
    /\ UNCHANGED place

CommitRemoval(t) ==
    /\ pc[t] \in {"removing", "purging"}
    /\ row' = [f \in File |-> IF f \in drop[t] THEN NoRow ELSE row[f]]
    /\ image' = [c \in Club |-> IF image[c] \in drop[t] THEN NoFile ELSE image[c]]
    /\ gone' = IF pc[t] = "purging" THEN gone \cup {target[t]} ELSE gone
    /\ Finish(t, drop[t])
    /\ UNCHANGED <<place, pastVars>>

\* delete_club lists the paths before it waits for the rows of the club.
CollectPaths(t, c) ==
    /\ c \notin gone
    /\ Begin(t, "collected", c, Stored(c) \cup Of(c))
    /\ UNCHANGED place

Family(c) == {c} \cup {d \in Document : OwnerOf[d] = c}

\* The rows there are by then go; of the images the paths are taken from the
\* statement that deletes them.
DeleteClub(t, c) ==
    /\ pc[t] = "collected" /\ target[t] = c
    /\ c \notin gone
    /\ \A s \in Family(c) : RowFree(s)
    /\ row' = [f \in File |-> IF f \in Stored(c) \cup Of(c) THEN NoRow ELSE row[f]]
    /\ image' = [image EXCEPT ![c] = NoFile]
    /\ gone' = gone \cup Family(c)
    /\ Finish(t, drop[t] \cup Of(c))
    /\ debris' = debris \cup (Stored(c) \ drop[t])
    /\ UNCHANGED <<place, unsure>>

-----------------------------------------------------------------------------
\* The process dies; the database rolls back what was not committed.
Crash ==
    /\ \E t \in Txn : pc[t] # "idle"
    /\ pc' = [t \in Txn |-> "idle"]
    /\ target' = [t \in Txn |-> NoSubject]
    /\ ask' = [t \in Txn |-> NoRow]
    /\ file' = [t \in Txn |-> NoFile]
    /\ before' = [t \in Txn |-> 0]
    /\ drop' = [t \in Txn |-> {}]
    /\ debris' = debris \cup {f \in File \ Kept : place[f] # "none"}
    /\ UNCHANGED <<dataVars, place, unsure>>

Init ==
    /\ row = [f \in File |-> NoRow]
    /\ place = [f \in File |-> "none"]
    /\ gone = {}
    /\ image = [c \in Club |-> NoFile]
    /\ pc = [t \in Txn |-> "idle"]
    /\ target = [t \in Txn |-> NoSubject]
    /\ ask = [t \in Txn |-> NoRow]
    /\ file = [t \in Txn |-> NoFile]
    /\ before = [t \in Txn |-> 0]
    /\ drop = [t \in Txn |-> {}]
    /\ debris = {} /\ unsure = {}

Uploading(t) ==
    \/ \E a \in Asks, f \in File : BeginUpload(t, a, f)
    \/ Settle(t)
    \/ Flush(t)
    \/ CommitUpload(t)
    \/ CommitUnacknowledged(t)

Removing(t) ==
    \/ \E f \in File : RemoveFile(t, f)
    \/ \E d \in Document : PurgeDocument(t, d)
    \/ CommitRemoval(t)
    \/ \E c \in Club : RemoveImage(t, c) \/ CollectPaths(t, c) \/ DeleteClub(t, c)

Next ==
    \/ \E t \in Txn : \/ Uploading(t) \/ Removing(t) \/ Abort(t)
                      \/ \E f \in File : Unlink(t, f) \/ UnlinkFails(t, f)
    \/ Crash

Spec == Init /\ [][Next]_vars

-----------------------------------------------------------------------------
(* Correctness *)

(* A row has its file at every moment, whatever is rolled back or dies on    *)
(* the way, unless its COMMIT was carried out without being acknowledged.    *)
RowsHaveFiles == \A f \in Kept \ unsure : place[f] = "placed"

(* A file has its row, or a request that will insert the row or unlink the   *)
(* file; the rest is what crashes, failed unlinks, broken connections and    *)
(* deletions of clubs are known to leave behind.                             *)
FilesHaveRows ==
    \A f \in File : place[f] # "none" =>
        f \in Kept \cup debris \/ \E t \in Txn : f = file[t] \/ f \in drop[t]

(* The table and the disk are in step, but for what is known to be left.     *)
RowsMatchFiles == RowsHaveFiles /\ FilesHaveRows

(* Uploads that began while there was room for each of them never exceed the *)
(* club's quota together.                                                    *)
QuotaKept == \A c \in Club : Usage(Stored(c)) <= Quota

(* The files of a document never exceed its limit together.                  *)
CapKept == \A d \in Document : Usage(Of(d)) <= Cap

(* Neither limit is passed by uploads that were judged before each other.    *)
LimitsKept == QuotaKept /\ CapKept

(* A club never has the same photo twice, nor an evaluation item the same    *)
(* file of a club.                                                           *)
NoDuplicateContent ==
    \A f, g \in Kept :
        /\ row[f].slot = row[g].slot /\ row[f].slot \in {"photo", "eval"}
        /\ row[f].club = row[g].club /\ row[f].content = row[g].content
        /\ row[f].slot = "eval" => row[f].subject = row[g].subject
        => f = g

(* The one image a club shows is the one image it has, however often it was  *)
(* replaced and removed at the same time.                                    *)
ImagesMatch ==
    \A c \in Club : Of(c) = {image[c]} \ {NoFile}

(* No row belongs to a document or a club that is gone, although the         *)
(* reference to the document is no foreign key.                              *)
NoStrayRows == \A f \in Kept : row[f].subject \notin gone /\ row[f].club \notin gone

(* The table has one row for what may be there once, and none for what is    *)
(* gone, whatever uploads, replacements and deletions cross each other.      *)
RecordsInv == TypeOK /\ NoDuplicateContent /\ ImagesMatch /\ NoStrayRows

(* The requests implement the shelf that changes in one step.                *)
Shelf == INSTANCE FileShelf WITH shelf <- row
ShelfSpec == Shelf!Spec

\* t cannot go on before u ends.
Waits(t, u) ==
    \/ pc[t] = "open" /\ HoldsStorage(u)
    \/ pc[t] = "settled" /\ ask[t].slot # "image" /\ ask[t].club \in Locked(u)

(* "Where row locks are needed, the order is always row lock, then advisory  *)
(* lock": no two requests wait for each other.                               *)
NoMutualWait == \A t, u \in Txn : ~(Waits(t, u) /\ Waits(u, t))

(* "Deletes all of its data, the files together with those on the disk": what *)
(* a club's deletion removes from the table it goes on to unlink.            *)
ClubTakesItsFiles ==
    [][\A c \in Club : c \in gone' \ gone =>
          \A f \in Stored(c) \cup Of(c) : \E t \in Txn : f \in drop'[t]]_vars
=============================================================================
