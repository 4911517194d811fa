# Verification of club-aio

TLA+ models, model checks and machine-checked proofs of club-aio, the system with which NTUST administers
its student clubs: of the backend, equipment lending, venue booking, the approval and closing of activities
and uploaded files; of the browser client, its booking pages, its cache, its session, and the pages on which
clubs and officials fill in and decide things. All paths below are relative to the root of the
repository; `app/` stands for `backend/app/` where Python files are meant and for `frontend/src/app/` where
TypeScript files are.

Contents: [the system](#1-the-system) · [what is hard about it](#2-what-is-hard-about-it) ·
[the modules](#3-the-modules) · [the runs](#4-the-runs) · [the theorems](#5-the-theorems) ·
[disagreements found](#6-disagreements-between-the-code-and-its-documents) ·
[not modelled](#7-what-is-not-modelled-and-why) · [next](#8-what-could-come-next)

## 1. The system

A FastAPI process (one uvicorn worker, asyncio) in front of PostgreSQL, a React client in the browser, cron jobs that share the services with the process, and a directory of uploaded files. Each
request runs in one database session and normally one transaction at READ COMMITTED
(`app/core/db.py:11-15`): an exception before `commit` rolls everything back. The concurrency is
that of transactions: requests of several clubs, several tabs of one club, several officials, the desk
staff and cron. It is controlled by

- **row locks** (`SELECT ... FOR UPDATE`, or `db.refresh(..., with_for_update=True)`), on the row being
  decided, and the locks an `UPDATE` takes;
- **advisory transaction locks** for "look first, write later" checks that span rows: one per equipment
  item (411001), venue (411002), club (411003), signup item (411004), and one for the storage
  (`docs/data-model.md` §3.10). The documented order is row lock before advisory lock, and no
  transaction holds two advisory locks;
- constraints of the schema, foreign keys included.

| Component | State it keeps | Operations that change it | What makes it correct |
|---|---|---|---|
| Equipment lending (`api/v1/bookings.py`, `admin_bookings.py`, `staff.py`, `admin_equipment.py`, `services/loan_expiry.py`) | items and their stock, loans with window, quantity and status, approval records | request, manual loan, approve, reject, revoke, cancel, check out, check in, sweep of unclaimed loans, change of stock, suspension | never more units promised for a day than there were; a trail that tells the status; settled loans stay settled; an unclaimed loan is revoked in the end |
| Venue booking (`bookings.py`, `admin_bookings.py`, `admin_rooms.py`, `admin_venues.py`, `admin_venue_rules.py`, `services/booking_service.py`) | venues, block rules, temporary bookings (one row per day), fixed weekly bookings, intake window | request (single, batch, weekly), manual entry, approve, reject, revoke, cancel, rules, flags, window | no period of a day of a venue given away twice across both tables; no duplicates of a club; quota of weekly slots |
| Activity workflow (`activities.py`, `admin_activities.py`, `services/activity_service.py`) | the activity, budget items, closing report, photos, approval records | create, save, submit, three stages of signing with grants, refuse, closing draft, photos, closing report and its review, lift of the deadline, deletion by either side | signatures, grants and report that support the status; what was submitted stays as it was submitted |
| Uploaded files (`services/files.py`, upload and delete handlers, `club_profile.py`, `admin_clubs.py`) | rows of `files`, files on the disk, `clubs.avatar_file_id` | upload, delete, replace the image, purge with the document, delete the club | row and file come and go together; quotas and caps under concurrency; no stray rows |
| Reminders (`services/loan_remind.py`, cron) | `last_reminded_at` | cron round, manual reminder | at most one reminder per interval, none lost for good |
| Preview conversion (`services/files.py:566-700`) | jobs in flight, memory of failures (process memory) | single-flight conversion on two threads | one job per picture, a bounded queue that refuses without remembering |
| Award signup (`signups.py`, `admin_signups.py`) | drafts, registrations, attendance | save, confirm, cancel, attend | limits of an item; one default session |
| Evaluation (`eval.py`, `viewer_eval.py`, `admin_eval.py`, `services/evaluation.py`, `scoring.py`) | rubric, groups, scores, adjustments | score, adjust, publish | totals and ranks from what is recorded |
| Applications and maintenance (`applications.py`, `admin_applications.py`, `admin_maintenance.py`) | forms with a status | submit, withdraw, decide | one decision per form |
| Violations, suspension (`admin_violations.py`, `staff.py`, `services/violation_service.py`) | violations, suspensions | record, suspend, lift | requests of a suspended club are refused |
| Settings (`admin_settings.py`, `services/settings_service.py`) | key/value rows | update with guards | a window is not moved under a round that has received requests |
| Login, permissions, rate limits, records, announcements, badges, audit, notifications, PDF, imports, scripts | see `PROJECT.json` | | |
| Client: booking pages (`frontend/src/features/bookings`) | what is chosen, the answers of the queries, marks of a refusal | move the chart, choose, submit, answers and failures of the queries, minute tick | what the form lets through was judged by the answer for what it asks |
| Client: cache (`frontend/src/api`, TanStack Query) | one entry per key: data, out of date, a fetch under way | show, hide, poll, fetch, request, drop keys | after a request the pages show what it changed |
| Client: session of a tab (`app/auth.tsx`, `api/client.ts`, `features/auth`) | user, start-up check, generation, path, cached data | start, login, logout, change of the password, any 401 | what is cached belongs to who is signed in; the tab never waits for nothing |
| Client: forms of an activity (`features/activities`) | fields, files chosen and sent, dialogs, a chain of requests | type, choose, withdraw, save, hand in, leave, answers lost | pressing again makes nothing twice; what closed itself was saved |
| Client: review window (`features/admin/ActivityReviewModal.tsx`, `ReviewPage.tsx`, `CloseReviewPage.tsx`) | the row it was opened on, the detail, what was typed | open, type, sign, refuse, delete, answers in any order | what is recorded is what was shown or typed, from a fresh answer where it is final |
| Client: settings, accounts, scoring, signups (`features/club-settings`, `AdminClubSettingsPage.tsx`, `AccountsPage.tsx`, `ViewerScorePage.tsx`, `SignupManagePage.tsx`, `SignupBuilderPage.tsx`) | forms, dialogs, the selected club, requests under way | see section 3 | no other person's change is undone; nothing irrevocable without its question |

How they interact: an activity that is approved licenses bookings and loans (they carry its id, and its
purge detaches them); a suspension stops requests of a club for equipment and venues; closing photos are
files whose upload locks the activity's row, so the file store and the workflow share that lock; every
decision appends to `approval_records` in its own transaction; notifications are sent after the commit
and change no row. The client talks to the backend by requests only. Its state is a copy that ages: a page is
filled from a cached answer, its user types while colleagues, other clubs and other tabs change the rows, and the
answers to its own requests come in any order or not at all.

## 2. What is hard about it

`PROJECT.json` lists the hazards at their lines. In short:

- *A state read before a lock and used after it.* The handlers of the activity workflow load the row without a
  lock, then lock it and read only `status` again; SQLAlchemy writes only the columns that changed relative
  to what was **loaded**. Requests for equipment read the total stock before they wait for the item's
  lock; approvals of a venue read its flags before they wait for the venue's lock.
- *Checks over several rows*: availability of an item, clashes across the two booking tables, quota of a
  club, storage of a club, duplicates of a photo.
- *Decisions in any order*: cancellation by the club, revocation by the office, the sweep and the desk.
- *Two stores and one transaction*: rows are transactional, the disk is not.
- *Waiting*: two sweeps over the same rows in different orders; a foreign key that takes a lock nobody wrote.
- *Copies that age*: a form filled once from an answer that is read again behind it; an answer for another key kept on the
  page so that it does not flicker; a detail of the cache that seeds what is then recorded for good.
- *Late answers*: a 401 for a session that has been replaced, two images and a save that write one entry of the cache, an
  answer that closes whatever dialog is open by now.
- *Lost answers*: the server has the row or the file, the form does not know it, and the user presses again.
- *Rounds*: a refused activity goes through the same stages again, signatures of earlier rounds remain on the trail.

## 3. The modules

Each component of the backend has a detailed module, in which a transaction is several steps (the unlocked reads, the wait for a
lock with what is read under it, the writes at the commit), an abstract module in which each change is one step,
an MC module with the instance for TLC, and a module of proofs.

| | abstract | detailed | instance | proofs |
|---|---|---|---|---|
| lending | `LoanLedger` | `EquipmentLoans` | `MCEquipmentLoans` | `EquipmentLoansProofs` |
| venues | `VenueCalendar` | `VenueBookings` | `MCVenueBookings` | `VenueBookingsProofs` |
| activities | `SignOff` | `ActivityWorkflow` | `MCActivityWorkflow` | `ActivityWorkflowProofs` |
| files | `FileShelf` | `FileStore` | `MCFileStore` | `FileStoreProofs` |

The client has one module per page or mechanism, without an abstract one:

| | module | instance | proofs |
|---|---|---|---|
| booking pages | `BookingDesk` | `MCBookingDesk` | `BookingDeskProofs` |
| cache | `ClientCache` | `MCClientCache` | `ClientCacheProofs` |
| session of a tab | `ClientSession` | `MCClientSession` | `ClientSessionProofs` |
| eight pages, side by side in `ClientPages` | `ProfileDesk`, `ClubSettings`, `AccountsDesk`, `ScoreDesk`, `ReviewDesk`, `SignupDesk`, `ActivityEditor`, `SignupBuilder` | `MCClientPages` | `ClientPagesProofs` |

`ClientPages` instantiates the eight modules over one set of variables: `page` says whose behaviour it is, and each module gives the
others its own meaning. Its properties are those of the modules, guarded by `page`.

Conventions of the backend's modules. What other transactions can see is in the data variables (`status`, `terms`, `trail`,
`row`...); what a transaction has read or is about to write is in variables indexed by `Txn`. A lock is not a
variable: who holds it follows from `pc`, since locks last until the end of the transaction. Every
transaction may be rolled back at any step (`Rollback`, `Abort`): a failed check, an exception and a lost
connection look the same. Several unlocked reads by one handler are one step where nothing they read can be told
apart by the properties. Operators marked `Mutant` are plausible wrong versions of the definition after
them, used only to see that the properties notice (`PROJECT.json`, `mutants`).

### 3.1 EquipmentLoans

`RequestLoan` / `RequestManualLoan` are the reads before the lock (total stock, suspension), `CheckAvailability`
the wait for the item's advisory lock and the availability query, `InsertLoan` the insert and commit. The
decisions start with `LockLoan` (`FOR UPDATE`, status checked under the lock) and end in `ApproveLoan`, `RejectLoan`,
`RevokeLoan`, `CancelLoan`, `CheckoutLoan` or `CheckinLoan`. The sweep is `SweepStart` (choose the candidates),
`SweepRow` (the single `UPDATE` re-checks each row as it locks it) and `SweepCommit`; two sweeps may meet in
opposite orders. `UpdateEquipment`, `SuspendClub`, `LiftClubSuspension` and `Midnight` change what the
others have read. A loan is attached to an approved activity in the code; that check is a
precondition of the enumerated requests.

`LoanLedger` promises that a loan is entered only when the units are there on every day of its
window, in one step, and then moves through its phases.

### 3.2 VenueBookings

`AskTemp` (a batch of days), `AskFixed` (weekly slots of the semester the open window is for), `CheckClub` (the
club's advisory lock: duplicates, quota, rules), `InsertBookings`; `AskManual`, `GrantManual` (the venue's lock),
`InsertManual`; `LockBooking`, `BeginApproval` (reads the venue), `GrantApproval` (the venue's lock, clashes in both
tables, rules), `ApproveBooking`; `RejectBooking`, `RevokeBooking`, `CancelBooking`; `UpdateVenue`,
`CreateRule`, `DeleteRule`, `GuardWindow` followed by `WriteWindow` (no lock between the two), `NextPeriod`,
`Midnight`. `VenueCalendar` claims the cells of a booking in one step when they are free.

Simplified: the binding to an activity and the late-period rule (a request for today's periods) are preconditions on the enumerated requests;
`NextSemester` is a constant function with the assumptions the calendar code guarantees.

### 3.3 ActivityWorkflow

One activity: no handler reads the row of another one (the rule against the same photo in two activities
is in `FileStore`; here an upload may fail). `Load` is the unlocked read and keeps the snapshot in `loaded`; each
handler of the club then works with `Locked`, a status read under the row lock, and writes what differs from the snapshot. The
handlers of the office lock the row at once. Budget items have identities, because a save deletes the
items it has loaded and inserts new ones. Time has the granularity of a day. `SignOff` is the chain of
signatures: a stage signs when the one before it has, never the same person twice in succession.

Left out: `school_approved`, remarks, `submitted_at`, attachments and the feedback forms (data no rule of the workflow depends on);
name and place behave like the date (each is required on submission). The super-user's keys
are instance data. Deletion with the club is in `FileStore`.

### 3.4 FileStore

An upload is `BeginUpload` (row lock of the document or club, under which the old image is read that a new one replaces, the
unlocked look at the quota, the transfer to a part file), `Settle` (the storage lock, the quota and duplicates again, the rename into place), `Flush` (the `INSERT`,
which through `files.club_id` needs the club's row `FOR KEY SHARE`) and `CommitUpload`. `Abort` is every way in which a
transaction ends without a commit, including the hooks of the session that unlink the new file
(`services/files.py:93-111`). `CommitUnacknowledged` is a COMMIT the server carries out and the connection does not report; the
session takes it for a failure and unlinks a file whose row is there. (A removal that is not
acknowledged looks like a commit whose unlinks fail.) Removals commit first and unlink after: `RemoveFile`, `RemoveImage`, `PurgeDocument`,
`CommitRemoval`, `Unlink`, `UnlinkFails`. `DeleteClub` deletes rows in a cascade; whatever is inserted meanwhile
makes the final `DELETE` of the club fail on a foreign key (409, `Abort`), so the cascade is one step, but
`CollectPaths` happens before the wait for the activities' rows. `Crash` ends the process between any two
steps. `FileShelf` puts and takes files in one step, within the limits.

The statuses that permit an upload or removal are in `ActivityWorkflow`. Limits are constants (they are settings read before
the lock; a change of settings during an upload admits at most what was allowed a moment ago). An identity is used again only
when nothing refers to it (uuid4). The unique indexes of `files` would catch duplicates even without the storage lock; they are
not modelled, so what is shown is that the lock suffices. Left out: archiving, the attachments of the forms, the gate on the disk's level
(it can only refuse, which is `Abort`), the preview beside a file.

### 3.5 The client's modules

Each has the page's state (what `useState`, `useRef`, the form and the query library keep), the requests that are under
way, and as much of the server as the page's properties speak of. An action is an event: a press, a keystroke, the
answer of a request, an effect that follows a change, a step of somebody else. An effect that React runs after every
render is part of the action that causes the render (`Correct`, `Switch` and `Seed` in `ClubSettings`, `Pruned` and `Checked` in
`BookingDesk`). A request is sent, acted on by the server, and answered, in three steps; it may be lost before or after the
server has acted. Sorting, search, paging, wording and layout are left out.

- **`BookingDesk`**: the chart with its three views, and the forms for a venue, for equipment and for a weekly room. A
  query's key is chosen on the page; `known` and `answer` are the answer for the key that is chosen, `prior` the one of
  another key which `keepPreviousData` leaves in its place. `Elapse` and `MinuteTick` are the clock and the redrawing once a
  minute that makes periods begin. `Press`, `Sweep` and `Release` are a selection by dragging.
- **`ClientCache`**: first a catalogue: every query of `frontend/src/api` with its key and the kinds of data its answer depends
  on, every request with the kinds it changes and the prefixes it invalidates, and which of them a page has open together
  (`ClubPages`, `AdminPages`, ...). The kinds a query or request touches are read off the handlers of the backend it calls: the deletion of an
  activity (`DeleteCall`) and the removal of a club (`RemovalCall`) change all that goes with them. Then the machine:
  one of these reads next to one of these requests, any pair that a session can run (`Pairs`), with fetches in flight, polls, other
  writers, pages that open and close, and requests of two steps. What the query library does (`Fetching` to `Leave`) is modelled from how the
  code uses it and marked external.
- **`ClientSession`**: the server keeps sessions and who must change the password (`Serve...`, `SessionEnds`); the tab has the user
  it believes in, the generation of its check (as `valid` of a request), the path with the routes' gates, and as whom the cached
  data was fetched. `Reply` gives any request's answer to `BootArrives`, `LoginArrives`, `DataArrives`, ...; a 401 of any request is heard by `Expire`.
- **`ActivityEditor`**: the application and the closing report. A save is a chain (`First`, `Onward`, `Upload`, `NextFile`) in one of the
  slots of `saves`; more than one runs when a held key opens two confirmations. `Lose` is an answer lost after the server has
  acted, `Refuse` a refusal or a loss before it. `Upload` includes the comparison with what the server holds which the next round begins with.
- **`ReviewDesk`**: the window opens on a list row (`listed`), then shows the cached detail, then the answered one; `Seeded` and the
  defaults are taken once. `Others` are a colleague's decisions, the club's resubmission with other lines, and a report.
  What each stage sends is `Payload`, what the server makes of it `Accepts`.
- **`ProfileDesk`** (a club's own settings), **`ClubSettings`** (the office's), **`AccountsDesk`** and **`ScoreDesk`**: the form or dialog, the
  requests of each kind (of which only the last is answered by the page: `Heard`), and the same data changed on another device.
- **`SignupDesk`**: the office's window on one activity's list: clubs are added, confirmed, removed and marked, sessions made and deleted. The server
  acts in one step (`WalkIn`, `SubmitSignup`, `Remove`, ...) except on a mark, which looks (`LookForMark`), waits for the activity's lock and finds or misses the
  session (`HoldSession`), and writes (`WriteMark`). `Other` is a second official, whose list may be of any age, and the clubs.
- **`SignupBuilder`**: the fields of the form that is being made, in the order shown; `over` is where the pointer last was with a field held. The page stays editable while
  it is published.

## 4. The runs

`tlc -config X.cfg M`; a passing run takes from a few seconds to about three minutes with two workers.

| run | module / cfg | distinct states | shows |
|---|---|---|---|
| `equipment_loans` | `MCEquipmentLoans` / `EquipmentLoans` | 335 k | `NoOverbooking`, `RecordsInv`, `SettledForGood`, `LedgerSpec` |
| `equipment_live` | `MCEquipmentLoans` / `EquipmentLoansLive` | 36 k | `UnclaimedIsRevoked` under `FairSpec` |
| `venue_bookings` | `MCVenueBookings` / `VenueBookings` | 595 k | `NoDoubleUse`, `ClubLimits`, `RecordsInv`, `SettledForGood`, `CalendarSpec` |
| `activity_workflow` | `MCActivityWorkflow` / `ActivityWorkflow` | 389 k | `SignaturesBackStatus`, `GrantsAreCovered`, `StatusIsBacked`, `HandedInStays`, `SignOffSpec` |
| `file_store` | `MCFileStore` / `FileStore` | 290 k | `RowsMatchFiles`, `LimitsKept`, `RecordsInv`, `ShelfSpec` |
| `booking_desk` | `MCBookingDesk` / `BookingDesk` | 330 k | `LoanIsJudged`, `ChoicesInv` |
| `client_cache` | `MCClientCache` / `ClientCache` | 2.02 M | `ReadYourWrites`, `CacheInv` |
| `client_session` | `MCClientSession` / `ClientSession` | 1.02 M | `SessionInv`, `CacheIsOwn`, `LeavingIsClean` |
| `client_records` | `MCClientPages` / `ClientRecords` | 1.57 M | profile: `ImagesStay`; settings: `RenameIsFollowed`, `OthersAreKept`; accounts: `OutsideKeysStay`, `AccountsAreShown`; making an activity: `FieldsStay`; `TypeOK` |
| `client_reviews` | `MCClientPages` / `ClientReviews` | 2.48 M | scoring: `ScoresOfTheirClub`, `NoClubIsLeftOut`; editor: `SavedOnceAndWhole`; review: `SignedAsShown`, `CloseIsJudgedFresh`; signups: `SignupsInv`, `SignupsStay` |
| `venue_next_round` | `MCVenueBookings` / `VenueNextRound` | violated | `NextRoundCanBeSet`, see section 6 |
| `client_late_401` | `MCClientSession` / `ClientLate401` | violated | `LateVerifyKeepsUser`, see section 6 |

Each property is a conjunction where several named parts speak of one thing: in the lending and venue runs `RecordsInv` is `TypeOK`, the
trail that tells the status, and what the transactions in progress rely on (section 5); `ClubLimits` is `NoDuplicates` and `SlotQuota`;
`StatusIsBacked` is `TypeOK`, `ClosureIsBacked` and `LiftedOnRecord`; `HandedInStays` is `SubmittedIsUntouched` and `ClosedForGood`; `RowsMatchFiles` is
`RowsHaveFiles` and `FilesHaveRows`; `LimitsKept` is `QuotaKept` and `CapKept`; `RecordsInv` of the files is
`TypeOK`, `ImagesMatch`, `NoStrayRows` and `NoDuplicateContent`. Of the client, `ChoicesInv` is `TypeOK`, `SlotsAreFree` and `BegunIsPruned`; `CacheInv` is `TypeOK` and
`HalfDoneIsShown`; `SessionInv` is `TypeOK`, `BootIsRunning` and `ChangedIsThrough`. The
properties of the pages are put together in `ClientPages` from those of their modules: `AccountsAreShown` from `NamesRecords` and `ShowsCreated`, `SavedOnceAndWhole` from
`SubmitCreatesOnce`, `KeptIsSentOnce` and `ClosedIsSaved`, `SignupsInv` from `OneSession` and `AddedOnce`, `SignupsStay` from `KeepsSubmitted` and `AddsShown`, `FieldsStay` from
`LandsWherePointed` and `MovesOne`.

**Bounds, and why they are enough.** Every conflict in this code is between two transactions over one or two rows, so two
transactions (`Txn`) and two loans or bookings are the least with which every race occurs; the theorems then cover any number.

- Lending: one item, one club and the office, two settings of the stock (one and two units), days `1..MaxDay` with `MaxDay = 2`,
  loans of at most two days. Stock that is lowered under loans, windows that overlap in one day and disjoint ones occur.
- Venues: one venue, weeks of two days (`DaysPerWeek`), one period a day, three days, semesters of two days: a weekly
  slot meets a temporary day, a batch meets a single day, a manual entry meets both; venue flags and one block rule.
  Weekly slots are limited to one per club in the passing run, so two concurrent requests exceed it if the club's lock is missing.
- Activity: officials `ann` (adviser, chief, closing) and `bob` (adviser, chief, dean): every pair of successive stages can be signed
  by two people, and by one if the rule fails. `MaxSaves`, `MaxRecords`, `MaxPhotos` and `MaxDay` cap saves,
  the trail, the photos and the clock; two rounds of refusal fit into the trail. The clock stops at `MaxDay`, so the run does not check deadlock.
- Files: three files, two documents of one club, one evaluation item, two contents, quota of two blocks and cap of
  one per document: each limit is reached and would be exceeded by two uploads at once. The club may be deleted, after which
  nothing is left to do: no deadlock check here either.

- Booking pages: two venues, a past day, today and a later one, two periods of which one is lent in runs only, a stock and a cap of two, two rows of a
  request: two keys for every query, a choice that fits one answer and not the other, a period that begins under an open form. One cell
  (`MaxTaken = 1`) is taken on a chart.
- Cache: every pair of read and request that shares a kind of data and a session, each by itself, with `MaxVersion = 3`
  changes: the request's one or two and another's, in any order. A pair is enough because one read's entry does not depend on another's.
- Session: a club's and an administrator's account in one tab, two sessions, two requests under way: two people one
  after the other, a late answer of the first, a password changed or reset elsewhere. Other tabs, which share the cookie, are left out.
- Pages of `ClientPages`: two clubs or accounts, one field or line, a picture and another file, and one or two requests, changes by others and
  losses, enough for an answer that is late, for a choice that has moved on, and for a change that lies in between. `HeldKeys = {"submit"}`: only
  the hand-in's button is held down on the keyboard. With the draft's button held as well `SavedOnceAndWhole` does not hold: see `FormCreatesOnce`
  in section 6, and its theorem assumes that this button is not held. A behaviour is of one page, since the pages share nothing but the server; the catalogue of `ClientCache` treats what one page's
  request does to another page's data. The page that makes an activity has three fields in any order, of which one is changed once (`MaxFields`, `MaxChanges`): the order does not depend on what a field holds. `MaxSaves = 1` and `MaxAsked = 1` are what the eight pages fit into a run with. They hide two cases that came
  up when the theorems were attempted, and that TLC shows with a bound of two. With two saves, a club's page that goes to a name from a list of before, and writes another club's former name back,
  ends on the other club: `RenameIsFollowed` therefore excepts a save made under a name its club no longer has (`failed` in `ClubSettings`). With amounts up to two, an amount that
  was migrated with more than is asked for is sent as what is asked for (`features/admin/ActivityReviewModal.tsx:420-423`):
  `GrantsAsShown` therefore speaks of the amount shown, up to the one asked for. The theorems hold without either bound.

The client's runs are of safety, and without fairness: the network and the user may stop at any time. They do not check deadlock, as
the bounds on requests and changes end every behaviour (`client_session` does: a tab can always be reloaded or served).

Symmetry (transactions, loans, bookings, files, and the venues of the booking pages) is used in the runs of safety properties only. `LedgerSpec`, `CalendarSpec`,
`SignOffSpec` and `ShelfSpec` contain no fairness, so symmetry is sound for them.

**Fairness.** Only `UnclaimedIsRevoked` needs it. `FairSpec` assumes that a transaction that can go on does (weak
fairness: the process runs, no handler waits for a user while it holds a lock), that a sweep starts again and again and gets through to the rows it has chosen
(strong fairness: it is started by cron on every workday and by each load of the desk's list,
`services/loan_expiry.py`, and the database breaks a deadlock of two sweeps by ending one), and that the office
does not for ever cut off the same sweep. Nothing is assumed of clubs, officials or the desk.

## 5. The theorems

Checked by TLAPS for all values of the constants that satisfy the named `ASSUME`s of the modules (finite sets, positive limits,
well-formed requests). `PROJECT.json` names them with the properties they establish. The theorems of a conjunction (`RecordsHold`, `LimitsHold`, `StatusBacked`, `HandedInKept`,
`RowsFilesMatch`) join those of its parts. The theorems about types (`TypeCorrect`, `TypeOKHolds`) and about an inductive invariant as a whole are not all listed; each is in its module. The arguments:

- **Lending.** `TypeInv` adds to `TypeOK` that existing loans and loans about to be inserted have terms.
  `NoOverbooking` is not inductive: between check and insert nothing in the rows says that the units are there.
  `AdmissionInv` is the missing part: whoever has checked holds the item's lock, and the units it asked
  for fit beside what occupies its window *now*; decisions only shrink occupancy (`Shrinks`), requests
  are kept out by the lock. `RowLockInv` does the same for decisions and gives `TrailMatchesStatus`
  and, with `LoanInv`, `SettledForGood` and `LedgerSpec`.
- **Venues.** `GrantInv` states that one approval at a time is inside the venue's lock and that the cells it found free
  stay free; with it `NoDoubleUse` is inductive. `ClubInv` = `NoDuplicates`, `QuotaInv` and `AdmittedInv` (the same idea under the club's
  lock) gives `NoDuplicates` and `SlotQuota` (`LimitsHold`). `RowInv` and `TxnInv` are the typing part. `CalendarSpec` follows by mapping each booking to
  its claimed cells.
- **Activities.** `WorkflowInv` joins `SignaturesBackStatus`, `GrantsAreCovered`, `PaidInv`, `ClosureIsBacked` and `LiftedOnRecord`: a stage may grant zero and end the chain
  only because grants are decided by then (`PaidInv`), and the next signer differs from the last because the trail ends with the last signature of
  this round (`ApprovalStands`, `RefusalVoids`). `SubmittedIsUntouched`, `ClosedForGood` and `SignOffSpec` are proved from it.
- **Files.** `FileInv` = `TypeInv`, `LockInv`, `NewInv`, `DropInv` and `ImagesMatch`. `LockInv` says that the locks exclude each other;
  `NewInv` that the file of an upload is nobody else's, without a row and in place from the rename on; `DropInv` what a request has on its list: the image it
  replaces, rows it has locked, or paths whose rows are gone. On it rest three invariants of their own: `DiskInv` (`RowsHaveFiles` and,
  with only the lists that are being worked off, `FilesHaveRows`), `StrayInv` (what an upload is about to refer to is there, because deletions wait for its locks) and
  `LimitInv` (under the storage lock the room and the novelty found stay; under the document's lock what it holds does not
  grow), which gives `QuotaKept`, `CapKept`, `NoDuplicateContent` and the refinement of `FileShelf`. Sums of sizes are cardinalities of sets of blocks,
  so `UsageShrinks` and `UsageAdds` follow from the library's facts on finite sets.


- **Booking pages.** `LoanIsJudged` is not inductive: the rule that holds a quantity against what is left does not apply while nothing is known. `LoanInv` is the missing part: an item stands in
  the form without an answer only while the page shows the list of the range before, and then it has no quantity, which was emptied with the range and is disabled. Beside it `QueryOK` says that an answer
  is one of the key it stands under, and a placeholder one of the key that was left, and `FlightOK` that what was sent belongs to the page that waits. `ChoicesInv` needs that
  every step which changes what the page knows, or the clock it is drawn by, prunes or checks the choice in the same render (`Pruned`, `Checked`).
- **Cache.** Two halves. `CatalogueIsComplete` is about the catalogue alone: for every pair of a read and a request in one session, of which one changes what the other depends on, the
  request drops the read's key if they can be on a page together or the read counts as fresh for a time, or it is one of the reads known to be left (`Unread`).
  Of the badges it says that two requests only leave them: an official's booking of equipment and the removal of a club (section 6). It goes group by group
  through the pages (`ClubPagesAreClean`, `AdminPagesAreClean`) and the shell (`ClubShell`, `AdminShell`, `OfficeShell`). `CacheIsSound` is about the machine: for a pair of that kind, what is cached without a mark, and
  what is under way and was not overtaken, is as new as everything the user was told is saved. `ReadYourWrites` and `CacheInv` follow for any
  number of changes by anyone.
- **Session of a tab.** `CacheIsOwn` says nothing of the answers that are under way, which a tab keeps receiving after it has signed
  out or in as somebody else. `Inv` adds them (`Fits`, and `Sound` of each request): a query whose answer counts was sent in the session the
  browser names, and an answer to a query names the owner of the session it was sent in; a session's owner is set once (`ServeLogin`), and is an account while the session is kept (`OwnerInv`). Clearing the cache voids the
  queries (`ClearedOut`), a new generation voids the checks (`NextGenerationOut`), and a page that is left changes neither (`ShowOut`). One check
  counts at most, exactly while the tab waits for it, and meanwhile nothing is under way that only somebody signed in could have sent. `SessionInv`, `CacheIsOwn` and `LeavingIsClean` follow, for any accounts, sessions and number of requests.
- **Eight pages** (`ClientPagesProofs`). Each module defines its inductive invariant `Inv` beside its properties; the proofs have for each a lemma for the initial
  states, one for a step, and the theorems. What makes each go through:
  - *scoring*: points carry the club they were given for (`Own`), so that `OwnInv` can say that the server, the detail, the panel and every save under way hold the points of their own club;
    for `NoClubIsLeftOut`, that only one save is answered by the panel, still that of its club, and that the clubs a list shows as scored are scored (`SavesInv`, `ScoredInv`).
  - *accounts*: a save replaces the keys as a whole, so `KeysInv` says of each copy (row, list, dialog, request) that it agrees with the server on the keys outside the catalogue;
    `RecordsInv` that a deletion with records under way was agreed to for that club; `CreatedInv` that no later request takes the answer to an account that is made, because the dialog's button waits for it.
  - *signups*: `RequestsInv` says that one request at most holds the activity's lock, and that it has found no session only where there still is none, so what it makes is the first. `NamesInv` says that the name in the field
    has no session yet unless the answer is on its way, and one request at most is about a new session.
  - *profile*: `FilledInv` says that what is shown was filled from the cache, so that an answer always has something to merge with (`KeepImages`, `MergeImage`).
  - *club settings*: `FollowInv` joins the names (no two alike), the list (as the server has it unless it is being loaded or a rename is unanswered) and the page (on the name its club has).
    The prover needs to know that the effects of a render (`Correct`, `Switch`, `Seed`) end on the club they began with.
  - *review*: `CopiesInv` says what a copy of any age has in common with the row: a line is never changed but for a new one, and before the first stage decided every copy of the line says so.
    `FreshInv` and `OneInv` tell a window's detail from the cached one and its request from another window's; `Sound` is what a request on its way is known to be. On them rest
    `SignedAsShown` and `CloseIsJudgedFresh`.
  - *the two forms of an activity*: `SavedOnceAndWhole` is about a chain of requests of which any answer may be lost. `ChainInv` says that one chain runs at a time, which step it can be at on which form, and
    that no dialog is open meanwhile. For the application, `MadeInv` says that while the form has no row of its own, every row made by its hand-in is one whose answer was lost: what the user cannot know of,
    and what `unsure` counts. For the report, `ReportInv` compares the form with the server: each copy the server keeps is listed, or of a file that was given up, or of the one file whose answer is
    awaited or was lost; in the last case the form is `unsettled`, and the next round looks before it sends. `CopiesInv` keeps apart the copies that are being removed. `FormsAreSavedOnce` assumes `"draft" \notin HeldKeys`, because
    the code does not hold without it (`FormCreatesOnce` in section 6); nothing is assumed of the button that hands in, which guards itself (`Held`).
  - *making an activity*: a move takes a field out of the list and puts it in again. What is at which place afterwards is arithmetic on places (`Came`, `Gone`), proved of `Without` and `Move` from the
    library's facts on `SubSeq` and concatenation (`BuilderRest`, `BuilderMove`). With `KeysInv` (a key is given once, so it names one place) and `OverInv` (the pointer is over another field, and
    both are still there) the field that is dragged lands where the pointer is, and a step that changes the order moves one field whole (`FieldsAreWherePut`).

What the constants are assumed to be is in the `ASSUME`s. Those of the client say that bounds are natural numbers, that the first rows are rows, that names of clubs differ, and that `None`
(and `Asked`, `NoName`) are not among the values they are compared with: in the code `undefined` and `null` are no objects.

Every property of the passing runs is a theorem but one: `UnclaimedIsRevoked` is only model-checked, as liveness and `ENABLED` are beyond the prover. The violated properties are shown by
the traces TLC prints. Both hold for the instances of section 4.

## 6. Disagreements between the code and its documents

Two are runs that TLC ends with a counterexample; `PROJECT.json` quotes the lines.

| run | what the repository says | what the model shows |
|---|---|---|
| `venue_next_round` | after this round is dealt with, the next window can be set (`app/api/v1/admin_settings.py:111`) | decided requests count too, and the window is refused until the semester is over |
| `client_late_401` | a check that is late must not sign out who has signed in meanwhile (`app/auth.tsx:34`) | `request()` broadcasts the 401 before the generation is looked at (`api/client.ts:138`), and `expire()` clears cache and user |

The others are formulas in the modules, named in the first column, that TLC refutes in the same way when they stand in the place of a passing
run's `INVARIANTS` or `PROPERTIES` (with `SYMMETRY` taken out).

| formula, cfg | what the repository says | what the model shows |
|---|---|---|
| `CheckoutKeepsOccupancy`, `EquipmentLoans` | handing a loan out does not change what occupies the units (`app/api/v1/staff.py:329`) | a loan handed out after its window is counted in every later one |
| `NoApprovalOfDisabledVenue`, `VenueBookings` | a venue that is switched off is not given out (`admin_bookings.py:191`) | an approval that has read the venue and waits for its lock still gives it out |
| `RoundKeepsItsSemester`, `VenueNextRound` | the window may not change a round's semester once requests were received (`admin_settings.py:86`) | the guard counts without a lock; a request commits between count and write |
| `SubmittedIsComplete`, `ActivityWorkflow` | drafts may be partial, completeness is enforced at the change of status (`activities.py:87`) | the form is checked as it was loaded; a partial save commits before the lock |
| `NoMutualWait`, `FileStore` | row locks before advisory locks, always (`docs/data-model.md:407`) | the foreign key's lock comes after the storage lock; a photo and a new image of one club deadlock |
| `ClubTakesItsFiles`, `FileStore` | a forced deletion takes the files on the disk with it (`admin_clubs.py:411`) | an upload that commits while the deletion waits leaves its file |
| `EntriesAreLoaded`, `BookingDesk` | days a kept answer does not cover are not loaded; showing 0 would be a lie (`api/bookings.ts:391`) | the day and venue tables keep the previous answer and draw missing cells as free |
| `SentSlotsAreJudged`, `BookingDesk` | no slots are sent that are bound to be refused (`FixedRoomPage.tsx:102`) | the button is enabled while the occupancy is loading |
| `MarkedIsAsSent`, `BookingDesk` | a marked row has not been touched (`VenueBookingPage.tsx:205`) | a row edited while the request is out is marked by the refusal that comes after |
| `BadgesFollow`, `ClientCache` | every request that changes the number of things to do drops the badges (`api/badges.ts:8`) | an official's own booking of equipment does not (`adminBookings.ts:543`), nor does the removal of a club (`adminClubs.ts:310`), which once confirmed deletes the club's activities, requests, loans, applications and violations (`admin_clubs.py:449`) while the sidebar of the same page counts them; the poll of a minute later does. The two are excepted by name in `Unread`, so `ReadYourWrites` does not claim them |
| `SentOnce`, `ClientReviews` | the next round first compares with what the server has (`ActivityClosePage.tsx:489`) | the comparison covers the files still on the form; one that was taken off and chosen again is sent again |
| `FormCreatesOnce`, `ClientReviews` with `HeldKeys = {"draft", "submit"}` | a held Enter stacks a second confirmation, which is guarded against (`ActivityFormPage.tsx:350`) | the confirmation of the draft has no such guard: two activities |
| `LaterStagesKeepLarge`, `ClientReviews` | only the first stage sends what it grants (`ReviewPage.tsx:355`) | what to send is decided by the old list row: a second stage takes the first one's recognition back |
| `ResetIsShown`, `ClientRecords` | the one-time password is in this answer only, and the page shows it (`api/adminClubs.ts:349`) | a second reset of the same kind takes the answer of the first |
| `DraftIsAsked`, `ClientRecords` | keys ticked and not saved are asked about (`AccountsPage.tsx:105`) | the answer to a save of another account's keys closes the dialog |
| `FormIsOfTheClub`, `ClientRecords` | the form is filled from the club that is chosen (`AdminClubSettingsPage.tsx:105`) | the answer to a save fills it, whichever club has been chosen since |
| `PresentationIsKept`, `ClientReviews` | a presentation nobody typed is left alone (`ViewerScorePage.tsx:338`) | one that appeared behind the panel counts as typed, and is taken back |
| `MarkedIsRegistered`, `ClientReviews` | attendance needs a row of the list (`admin_signups.py:328`) | a mark that has looked outlives the removal of the row, which does not wait for it |
| `UnmarkedIsRemovable`, `ClientReviews` | take the mark back first, then remove (`admin_signups.py:405`) | a mark taken back stays as a row and still counts: the entry cannot be removed |
| `PreviewIsSent`, `ClientRecords` | fields without a name are not sent, as in the preview (`SignupBuilderPage.tsx:138`) | the preview shows a name of blanks, the request leaves it out |
| `NextIsUnscored`, `ClientReviews` | go on to the next club that is not scored (`ViewerScorePage.tsx:65`) | the list is not read again before two quick saves: a club just scored comes up again |

Two more are not held against a text of the code: a club's own form keeps what it was filled with while the profile is read again behind it, so a save writes
fields nobody touched back (`UntouchedIsCurrent` of `ProfileDesk`), and a password reset for one club is shown under the club chosen
meanwhile (`PasswordIsNamed` of `ClubSettings`).

## 7. What is not modelled, and why

- *Password check, lockout, rate limits, permissions*: guards in front of every handler, without influence on the protocols above; the keys an official holds are constants.
- *Notifications*: sent after the commit, at most once, no row depends on them. *PDF, exports, public pages, audit log*: read-only or append-only.
- *Imports, migrations, scripts*: run by one person against a system at rest; imported rows are not initial states.
- *Reminders, previews, a club's own signup form with its drafts, evaluation on the server, applications*: not modelled yet, see below. Their hazards are in `PROJECT.json` with a note.
- *Of the client*: other tabs (which share the cookie of a session), files of the booking and maintenance forms, formats and validation messages, and the pages without a state of
  their own between a click and an answer; the reads and requests of the latter are in the catalogue of `ClientCache`.

## 8. What could come next

Done: the four components of the backend with their abstract specifications and theorems; the client's bookings, cache, session, forms, reviews and
records, with their theorems. Left, the most important first:

1. The club's own form of a signup: drafts from several devices, answers to fields the office changes.
2. `LoanReminders`: marks written before the messages are sent, manual and cron reminders against each other, crashes in between.
3. `Evaluation` on the server: groups, scores and adjustments; scoring and ranking as operators checked against a direct definition over bounded scores.
4. `PreviewCache`: one conversion per picture, the bound of the queue, memory of failures, deletion of the picture meanwhile.
5. Pure algorithms: the late-period rule and runs of periods, workdays, semesters, each against a day-by-day definition.
6. A second tab in `ClientSession`, which shares the cookie and not the state.
7. Liveness of the venue's locks (a request that waits for a lock gets on), in a small instance.
