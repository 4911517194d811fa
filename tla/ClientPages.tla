----------------------------- MODULE ClientPages ------------------------------
(***************************************************************************)
(* Eight pages of the client.  Each keeps a state of its own, which is     *)
(* dropped when it is left, and shares none with the others: a behaviour   *)
(* is that of one of the pages, which stand next to each other on the same *)
(* variables, each under names of its own.  What a page does not use is    *)
(* None.                                                                   *)
(***************************************************************************)
EXTENDS Naturals

CONSTANTS
    OpenPages,    \* the pages to be looked at
    MaxOthers,    \* bound: changes by others, on every page that has any
    MaxSent,      \* bound: requests, or saves, of the pages that count them
    None

CONSTANTS         \* a club's own settings
    Fields, Required, Inputs, Plain(_), Images, MaxImages, MaxOut

CONSTANTS         \* a club's settings at the office
    Numbers, Titles, Titled, MaxSaves

CONSTANTS         \* the accounts, and the clubs that have one
    Managed, ClubIds, AccountKeys, Catalogue, OwnKeys, AccountsAtStart

CONSTANTS         \* the scores
    ScoredInOrder, Items, Points, ScoresAtStart

CONSTANTS         \* the forms of an activity
    Files, Photos, Room, MinPhotos, HeldKeys, MaxText, MaxMade, MaxLost

CONSTANTS         \* the review of activities
    ReviewKeys, Checks, MaxAsked, MaxTurns, MaxOpened, MaxEdits, MaxUnanswered

CONSTANTS         \* the signups
    SessionNames, MaxFields, MaxChanges

VARIABLES page, server, known, held, form, asked, out, sent, others, way, past, count

vars == <<page, server, known, held, form, asked, out, sent, others, way, past, count>>

Profile == INSTANCE ProfileDesk WITH
    Slots <- Images,
    profile <- server, cache <- known, form <- form, saved <- held, dirty <- asked,
    out <- out, picks <- sent, others <- others

Settings == INSTANCE ClubSettings WITH
    Clubs <- Numbers, Names <- Titles, Named <- Titled,
    club <- server, list <- known, listing <- way, detail <- held, page <- form, save <- out,
    reset <- asked, saves <- sent, others <- others, chosen <- past, failed <- count

Accounts == INSTANCE AccountsDesk WITH
    Accounts <- Managed, Clubs <- ClubIds, Keys <- AccountKeys, Held <- OwnKeys, Start <- AccountsAtStart,
    row <- server, rows <- known, dialog <- form, ask <- asked, shown <- held, out <- out,
    sent <- sent, others <- others, agreed <- past

Score == INSTANCE ScoreDesk WITH
    Names <- ScoredInOrder, Start <- ScoresAtStart, MaxSaves <- MaxSent,
    score <- server, list <- known, club <- form, detail <- held, panel <- asked, out <- out,
    saves <- sent, others <- others

Editor == INSTANCE ActivityEditor WITH
    page <- past, at <- way, form <- form, busy <- known, dialogs <- asked, saves <- out,
    removals <- held, rows <- server, made <- sent, lost <- count, unsure <- others

Review == INSTANCE ReviewDesk WITH
    Keys <- ReviewKeys, MaxOut <- MaxUnanswered,
    page <- past, row <- server, signer <- count, turns <- others, listed <- held, cache <- known,
    fetch <- way, window <- form, opened <- sent, out <- out

Signups == INSTANCE SignupDesk WITH
    Clubs <- ClubIds, Names <- SessionNames,
    ask <- asked, walkIn <- held, typed <- form, lost <- way

Builder == INSTANCE SignupBuilder WITH
    MaxEdits <- MaxChanges,
    fields <- form, next <- asked, drag <- held, over <- way, complete <- known, items <- server,
    edits <- others, page <- past

ASSUME PagesAssumption ==
    /\ OpenPages \subseteq {"profile", "settings", "accounts", "score", "editor", "review", "signups", "builder"}
    /\ Profile!ProfileAssumption /\ Settings!ClubAssumption /\ Accounts!AccountsAssumption
    /\ Score!ScoreAssumption /\ Editor!EditorAssumption /\ Review!ReviewAssumption
    /\ Signups!SignupAssumption /\ Builder!BuilderAssumption

Init ==
    /\ page \in OpenPages
    /\ \/ page = "profile"  /\ Profile!Init /\ way = None /\ past = None /\ count = None
       \/ page = "settings" /\ Settings!Init
       \/ page = "accounts" /\ Accounts!Init /\ way = None /\ count = None
       \/ page = "score"    /\ Score!Init /\ way = None /\ past = None /\ count = None
       \/ page = "editor"   /\ Editor!Init
       \/ page = "review"   /\ Review!Init /\ asked = None
       \/ page = "signups"  /\ Signups!Init /\ past = None /\ count = None
       \/ page = "builder"  /\ Builder!Init /\ count = None

Next ==
    \/ page = "profile"  /\ Profile!Next  /\ UNCHANGED <<page, way, past, count>>
    \/ page = "settings" /\ Settings!Next /\ UNCHANGED page
    \/ page = "accounts" /\ Accounts!Next /\ UNCHANGED <<page, way, count>>
    \/ page = "score"    /\ Score!Next    /\ UNCHANGED <<page, way, past, count>>
    \/ page = "editor"   /\ Editor!Next   /\ UNCHANGED page
    \/ page = "review"   /\ Review!Next   /\ UNCHANGED <<page, asked>>
    \/ page = "signups"  /\ Signups!Next  /\ UNCHANGED <<page, past, count>>
    \/ page = "builder"  /\ Builder!Next  /\ UNCHANGED <<page, count>>

Spec == Init /\ [][Next]_vars

(***************************************************************************)
(* What must hold on each page, which the page's module explains.          *)
(***************************************************************************)
\* The types of the pages that keep records.
TypeOK ==
    /\ page = "profile"  => Profile!TypeOK
    /\ page = "settings" => Settings!TypeOK
    /\ page = "accounts" => Accounts!TypeOK

\* No answer takes back an image the page has shown since that image's own answer.
ImagesStay == [][page = "profile" => Profile!KeepsImages]_vars

\* The page of a club's settings stays with the club through a change of its name.
RenameIsFollowed == page = "settings" => Settings!RenameIsFollowed

\* A save of a club's settings keeps what another official has changed meanwhile.
OthersAreKept == [][page = "settings" => Settings!KeepsOthers]_vars

\* Keys the page does not know of outlive every save of an account's keys.
OutsideKeysStay == page = "accounts" => Accounts!OutsideKeysStay

\* A club with records is deleted only after a question that names them, and the password
\* made with an account, which is told once, is shown.
AccountsAreShown == [][page = "accounts" => Accounts!NamesRecords /\ Accounts!ShowsCreated]_vars

\* A field that is dragged lands where the pointer is, and the others stay in order.
FieldsStay ==
    /\ [](page = "builder" => Builder!TypeOK /\ Builder!LandsWherePointed)
    /\ [][page = "builder" => Builder!MovesOne]_vars

\* A club has only points that were given to it.
ScoresOfTheirClub == page = "score" => Score!TypeOK /\ Score!ScoresOfTheirClub

\* Going from club to club ends only when every club is scored.
NoClubIsLeftOut == [][page = "score" => Score!LeavesNoClubOut]_vars

\* However often it has to be pressed, and whatever was lost, handing in makes one
\* activity, and a file that stays on the report's form is sent once.  When the page
\* closes itself, the server has all that it showed.
SavedOnceAndWhole ==
    page = "editor" => /\ Editor!TypeOK
                       /\ Editor!SubmitCreatesOnce /\ Editor!KeptIsSentOnce /\ Editor!ClosedIsSaved

\* Attendance is kept in one session however many mark it at once, and a session that was
\* typed once is made once.
SignupsInv == page = "signups" => Signups!SignupsInv

\* What a club has sent itself stays on the list, whatever the office's windows still show,
\* and a club is added only as it is shown.
SignupsStay == [][page = "signups" => Signups!KeepsSubmitted /\ Signups!AddsShown]_vars

\* What a reviewer's window records is what they typed as a note, the amount it showed
\* for the line there is, and a prefilled source only for money.
SignedAsShown ==
    [][page = "review" => Review!WritesNote /\ Review!GrantsAsShown /\ Review!ZeroNamesNoSource']_vars

\* A closing report is judged by an answer that came after the window was opened.
CloseIsJudgedFresh == page = "review" => Review!CloseIsJudgedFresh

(***************************************************************************)
(* What a comment or a text of the code says and TLC refutes.              *)
(***************************************************************************)
\* A password that was reset is shown to whoever reset it.
ResetIsShown == [][page = "accounts" => Accounts!ShowsReset]_vars

\* Keys that were ticked are only given up after a question.
DraftIsAsked == [][page = "accounts" => Accounts!AsksOfDraft]_vars

\* The form of a club's settings is the one of the club that is shown.
FormIsOfTheClub == page = "settings" => Settings!FormIsOfTheClub

\* A presentation is changed only by one who typed in its field.
PresentationIsKept == [][page = "score" => Score!KeepsPresentation]_vars

\* The club that is gone on to is one without a score.
NextIsUnscored == [][page = "score" => Score!GoesOnToUnscored]_vars

\* No file is sent that the activity holds.
SentOnce == page = "editor" => Editor!SentOnce

\* A form makes one activity, whichever of its buttons is held down.
FormCreatesOnce == page = "editor" => Editor!FormCreatesOnce

\* A club that is marked is on the list.
MarkedIsRegistered == page = "signups" => Signups!MarkedIsRegistered

\* An entry without a mark can be removed.
UnmarkedIsRemovable == [][page = "signups" => Signups!UnmarkedIsRemovable]_vars

\* The fields that are sent are those of the preview.
PreviewIsSent == [][page = "builder" => Builder!PreviewIsSent]_vars

\* The signature of a later stage leaves the recognition alone.
LaterStagesKeepLarge == [][page = "review" => Review!KeepsLarge]_vars
=============================================================================
