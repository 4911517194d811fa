----------------------------- MODULE SignupDesk ------------------------------
(***************************************************************************)
(* The window in which an official keeps the list of one activity that     *)
(* clubs sign up for: the clubs, the attendance, the sessions.  Another    *)
(* official has the same window open, and the clubs sign up meanwhile.     *)
(* The two lists of the window, of the clubs and of the sessions, are read *)
(* together.  The days of the activity and of its sessions have come, and  *)
(* its window for signing up is open; its own data is left out.  A row     *)
(* written twice at once is refused by its unique key: what is written     *)
(* without a lock is one step.                                             *)
(***************************************************************************)
EXTENDS Naturals

CONSTANTS
    Clubs,
    Names,      \* what a session may be called
    MaxSent,    \* bound: requests of this window
    MaxOthers,  \* bound: requests of the others
    None

\* Where no name is typed, or none is given to a session.
NoName == "-"

SignupAssumption == None \notin Clubs /\ NoName \notin Names /\ {MaxSent, MaxOthers} \subseteq Nat

VARIABLES
    server,   \* [reg, sessions, next, review, based]: the rows, the next session's number,
              \* whether clubs are to be confirmed and sessions kept by hand
    known,    \* [reg, sessions], as the window shows them
    ask,      \* the question that is open: [what, of], or None
    walkIn,   \* the club chosen to be added, or None
    typed,    \* [now, used]: the name typed for a session, and those used up
    out,      \* requests under way
    sent, others,
    lost      \* history: a request or an answer was lost

vars == <<server, known, ask, walkIn, typed, out, sent, others, lost>>
window == <<known, ask, walkIn, typed>>

\* A club is not on the list, was added by an official without any people, or has
\* signed up itself and is or is not confirmed.
Registrations == {"none", "walkin", "pending", "club"}

\* A session, and who was marked there or had the mark taken back.
Session(id, name) == [id |-> id, name |-> name, yes |-> {}, no |-> {}]

Request(op, by, club, session, value) ==
    [op |-> op, by |-> by, nr |-> IF by = "us" THEN sent ELSE others, club |-> club, session |-> session, value |-> value,
     name |-> NoName, step |-> "sent", found |-> 0]

TypeOK ==
    /\ server.reg \in [Clubs -> Registrations] /\ known.reg \in [Clubs -> Registrations]
    /\ \A s \in server.sessions : s.yes \cup s.no \subseteq Clubs /\ s.yes \cap s.no = {}
    /\ \A s, t \in server.sessions : s.id = t.id => s = t
    /\ walkIn \in Clubs \cup {None} /\ typed.now \in Names \cup {NoName}
    /\ \A r \in out : r.step \in {"sent", "looked", "held", "done", "refused"}

\* The window opens with what was listed; only an activity that is reviewed has clubs to
\* confirm.
Init ==
    /\ server \in [reg: [Clubs -> Registrations], sessions: {{}}, next: {1}, review: BOOLEAN, based: BOOLEAN]
    /\ (\E c \in Clubs : server.reg[c] = "pending") => server.review
    /\ known = [reg |-> server.reg, sessions |-> {}] /\ ask = None /\ walkIn = None
    /\ typed = [now |-> NoName, used |-> {}]
    /\ out = {} /\ sent = 0 /\ others = 0 /\ lost = FALSE

Pending(op) == \E r \in out : r.op = op /\ r.by = "us"

Send(r) == sent < MaxSent /\ sent' = sent + 1 /\ out' = out \cup {r}

(***************************************************************************)
(* The window.  A question covers the rest.                                *)
(***************************************************************************)
Free == ask = None

Addable == {c \in Clubs : known.reg[c] = "none"}

PickWalkIn ==
    /\ Free /\ walkIn' \in (Addable \cup {None}) \ {walkIn}
    /\ UNCHANGED <<server, known, ask, typed, out, sent, others, lost>>

\* Mutant: looked up among all clubs.
WalkInAmongAll == walkIn

\* The menu shows the choice as long as the club can be added, and so does the button.
WalkInClub == IF walkIn \in Addable THEN walkIn ELSE None

AddWalkIn ==
    /\ Free /\ WalkInClub # None /\ ~Pending("walkin")
    /\ Send(Request("walkin", "us", WalkInClub, 0, TRUE))
    /\ UNCHANGED <<server, window, others, lost>>

\* All buttons of a kind wait for one answer.
ConfirmClub ==
    /\ Free /\ ~Pending("confirm")
    /\ \E c \in Clubs : known.reg[c] = "pending" /\ Send(Request("confirm", "us", c, 0, TRUE))
    /\ UNCHANGED <<server, window, others, lost>>

\* A box changes the mark it shows.
MarkClub ==
    /\ Free /\ ~Pending("mark")
    /\ \E c \in Clubs :
         /\ known.reg[c] # "none"
         /\ \/ /\ ~server.based
               /\ Send(Request("mark", "us", c, 0, \A s \in known.sessions : c \notin s.yes))
            \/ /\ server.based
               /\ \E s \in known.sessions : Send(Request("mark", "us", c, s.id, c \notin s.yes))
    /\ UNCHANGED <<server, window, others, lost>>

TypeName ==
    /\ Free /\ server.based /\ typed.now = NoName
    /\ \E n \in Names \ typed.used : typed' = [now |-> n, used |-> typed.used \cup {n}]
    /\ UNCHANGED <<server, known, ask, walkIn, out, sent, others, lost>>

\* The button and the Enter key wait for the answer.
CanAdd == ~Pending("session")

AddSession ==
    /\ Free /\ typed.now # NoName /\ CanAdd
    /\ Send([Request("session", "us", None, 0, TRUE) EXCEPT !.name = typed.now])
    /\ UNCHANGED <<server, window, others, lost>>

\* Only a club without people, and any session, after a question.
AskAway ==
    /\ Free
    /\ \/ \E c \in Clubs : known.reg[c] = "walkin" /\ ask' = [what |-> "remove", of |-> c]
       \/ \E s \in known.sessions : server.based /\ ask' = [what |-> "drop", of |-> s.id]
    /\ UNCHANGED <<server, known, walkIn, typed, out, sent, others, lost>>

Agree ==
    /\ ask # None /\ ask' = None
    /\ IF ask.what = "remove" THEN Send(Request("remove", "us", ask.of, 0, TRUE))
                              ELSE Send(Request("drop", "us", None, ask.of, TRUE))
    /\ UNCHANGED <<server, known, walkIn, typed, others, lost>>

Decline ==
    /\ ask # None /\ ask' = None
    /\ UNCHANGED <<server, known, walkIn, typed, out, sent, others, lost>>

(***************************************************************************)
(* The server.                                                             *)
(***************************************************************************)
\* Only this window waits for its answers.
To(r, step) ==
    out' = (out \ {r}) \cup IF r.by = "us" \/ step \in {"looked", "held"} THEN {[r EXCEPT !.step = step]} ELSE {}
Refused(r) == To(r, "refused") /\ UNCHANGED server
Adding(s) == server' = [server EXCEPT !.sessions = @ \cup {s}, !.next = @ + 1]

\* Mutant: the activity is not locked.
NoItemLock == TRUE

\* Held from the look for a session to the commit of the mark.
ItemLockFree == \A r \in out : r.step # "held"

\* One row for a club and an activity: by an official, without people, and confirmed.
WalkIn(r) ==
    /\ r.op = "walkin" /\ ItemLockFree
    /\ IF server.reg[r.club] = "none"
       THEN server' = [server EXCEPT !.reg[r.club] = "walkin"] /\ To(r, "done")
       ELSE Refused(r)

\* By the club itself: confirmed, or to be.
SubmitSignup(r) ==
    /\ r.op = "submit"
    /\ IF server.reg[r.club] = "none"
       THEN server' = [server EXCEPT !.reg[r.club] = IF server.review THEN "pending" ELSE "club"] /\ To(r, "done")
       ELSE Refused(r)

Marked(c) == \E s \in server.sessions : c \in s.yes \cup s.no

\* Mutant: only the window sees to it that there are no people.
RemovableAsShown(c) == server.reg[c] # "none" /\ ~Marked(c)

\* What a club has sent itself stays, and so does one with marks, also those taken back.
Removable(c) == server.reg[c] = "walkin" /\ ~Marked(c)

Remove(r) ==
    /\ r.op = "remove"
    /\ IF Removable(r.club)
       THEN server' = [server EXCEPT !.reg[r.club] = "none"] /\ To(r, "done")
       ELSE Refused(r)

Confirm(r) ==
    /\ r.op = "confirm"
    /\ IF server.reg[r.club] = "pending"
       THEN server' = [server EXCEPT !.reg[r.club] = "club"] /\ To(r, "done")
       ELSE Refused(r)

CreateSession(r) ==
    /\ r.op = "session"
    /\ Adding(Session(server.next, r.name)) /\ To(r, "done")

\* With all its marks.  The numbers of sessions that are left stay.
DeleteSession(r) ==
    /\ r.op = "drop"
    /\ LET gone == {s \in server.sessions : s.id = r.session} IN
         IF gone = {} THEN Refused(r)
         ELSE server' = [server EXCEPT !.sessions = @ \ gone] /\ To(r, "done")

\* The mark of a club: first whether the club is on the list and confirmed ...
LookForMark(r) ==
    /\ r.op = "mark"
    /\ IF server.reg[r.club] = "none" \/ (server.review /\ server.reg[r.club] = "pending")
       THEN Refused(r)
       ELSE To(r, "looked") /\ UNCHANGED server

\* ... then, without sessions kept by hand, the one there is or is to be, under the
\* activity's lock ...
HoldSession(r) ==
    /\ r.op = "mark" /\ r.session = 0 /\ ItemLockFree
    /\ out' = (out \ {r}) \cup {[r EXCEPT !.step = "held", !.found =
                 IF server.sessions = {} THEN 0 ELSE (CHOOSE s \in server.sessions : \A t \in server.sessions : s.id <= t.id).id]}
    /\ UNCHANGED server

\* ... and the mark.
Mark(s, c, yes) ==
    IF yes THEN [s EXCEPT !.yes = @ \cup {c}, !.no = @ \ {c}] ELSE [s EXCEPT !.yes = @ \ {c}, !.no = @ \cup {c}]

WriteMark(r) ==
    /\ r.op = "mark"
    /\ LET id == IF r.session # 0 THEN r.session ELSE r.found
           there == {s \in server.sessions : s.id = id}
       IN  IF id = 0 THEN Adding(Mark(Session(server.next, NoName), r.club, r.value)) /\ To(r, "done")
           ELSE IF there = {} THEN Refused(r)
           ELSE /\ server' = [server EXCEPT !.sessions = (@ \ there) \cup {Mark(s, r.club, r.value) : s \in there}]
                /\ To(r, "done")

Handle(r) ==
    \/ /\ r.step = "sent"
       /\ \/ WalkIn(r) \/ SubmitSignup(r) \/ Remove(r) \/ Confirm(r)
          \/ CreateSession(r) \/ DeleteSession(r) \/ LookForMark(r)
    \/ r.step = "looked" /\ r.session = 0 /\ HoldSession(r)
    \/ (r.step = "held" \/ (r.step = "looked" /\ r.session # 0)) /\ WriteMark(r)

Serve == /\ \E r \in out : Handle(r)
         /\ UNCHANGED <<window, sent, others, lost>>

\* A second official, whose lists may be of any age, and the clubs: what they ask for
\* arrives at once.
Asked(op, club, session, value) == Handle(Request(op, "other", club, session, value))

Other ==
    /\ others < MaxOthers /\ others' = others + 1
    /\ \/ \E op \in {"walkin", "remove", "confirm", "submit"}, c \in Clubs : Asked(op, c, 0, TRUE)
       \/ \E c \in Clubs, v \in BOOLEAN, n \in IF server.based THEN {s.id : s \in server.sessions} ELSE {0} :
            Asked("mark", c, n, v)
       \/ \E s \in server.sessions : server.based /\ Asked("drop", None, s.id, TRUE)
    /\ UNCHANGED <<window, sent, lost>>

(***************************************************************************)
(* The answers.                                                            *)
(***************************************************************************)
\* What was chosen or typed by now goes.
Arrive ==
    /\ \E r \in out :
         /\ r.step \in {"done", "refused"} /\ out' = out \ {r}
         /\ walkIn' = IF r.op = "walkin" /\ r.step = "done" THEN None ELSE walkIn
         /\ typed' = IF r.op = "session" /\ r.step = "done" THEN [typed EXCEPT !.now = NoName] ELSE typed
    /\ UNCHANGED <<server, known, ask, sent, others, lost>>

\* On the way there or back.
Lose ==
    /\ \E r \in out : r.by = "us" /\ r.step \in {"sent", "done"} /\ out' = out \ {r}
    /\ lost' = TRUE
    /\ UNCHANGED <<server, window, sent, others>>

\* After every answer that is no refusal, and whenever the lists are read again.
Load ==
    /\ known' = [reg |-> server.reg, sessions |-> server.sessions]
    /\ UNCHANGED <<server, ask, walkIn, typed, out, sent, others, lost>>

Next ==
    \/ PickWalkIn \/ AddWalkIn \/ ConfirmClub \/ MarkClub \/ TypeName \/ AddSession \/ AskAway \/ Agree \/ Decline
    \/ Serve \/ Other \/ Arrive \/ Lose \/ Load

Spec == Init /\ [][Next]_vars

(***************************************************************************)
(* What makes it hold.                                                     *)
(***************************************************************************)
Sessions == [id: Nat \ {0}, name: Names \cup {NoName}, yes: SUBSET Clubs, no: SUBSET Clubs]
Requests ==
    [op: {"walkin", "submit", "remove", "confirm", "mark", "session", "drop"}, by: {"us", "other"}, nr: Nat,
     club: Clubs \cup {None}, session: Nat, value: BOOLEAN, name: Names \cup {NoName},
     step: {"sent", "looked", "held", "done", "refused"}, found: Nat]

ListsInv ==
    /\ server \in [reg: [Clubs -> Registrations], sessions: SUBSET Sessions, next: Nat \ {0}, review: BOOLEAN, based: BOOLEAN]
    /\ \A s \in server.sessions : s.id < server.next /\ s.yes \cap s.no = {}
    /\ \A s, t \in server.sessions : s.id = t.id => s = t
    /\ known \in [reg: [Clubs -> Registrations], sessions: SUBSET Sessions]
    /\ ask # None => ask.of \in IF ask.what = "remove" THEN Clubs ELSE Nat
    /\ walkIn \in Clubs \cup {None} /\ typed \in [now: Names \cup {NoName}, used: SUBSET Names]
    /\ sent \in Nat /\ others \in Nat /\ lost \in BOOLEAN

\* A request is about a club or a session; a mark is about a session only where sessions
\* are kept by hand, and otherwise no session is there when the lock is held for the first.
Sound(r) ==
    /\ r.op \in {"walkin", "submit", "remove", "confirm", "mark"} => r.club \in Clubs
    /\ r.op = "mark" => (r.session = 0 <=> ~server.based)
    /\ r.step = "looked" => r.op = "mark"
    /\ r.step = "held" => r.op = "mark" /\ r.session = 0 /\ (r.found = 0 => server.sessions = {})
    /\ r.op = "session" => /\ r.by = "us" /\ r.step \in {"sent", "done"} /\ server.based
                          /\ r.name = typed.now /\ r.name \in Names

RequestsInv ==
    /\ out \subseteq Requests /\ \A r \in out : Sound(r)
    /\ \A r, q \in out : r.step = "held" /\ q.step = "held" => r = q
    /\ \A r, q \in out : r.op = "session" /\ q.op = "session" => r = q

\* Without sessions kept by hand there is one at most; and the name in the field has no
\* session yet, unless the answer is on its way.
NamesInv ==
    /\ ~server.based => \A s, t \in server.sessions : s = t
    /\ typed.now # NoName => server.based /\ typed.now \in typed.used
    /\ \A s \in server.sessions : s.name \in typed.used \cup {NoName}
    /\ ~lost => \A s, t \in server.sessions : s.name # NoName /\ s.name = t.name => s = t
    /\ ~lost => \A s \in server.sessions : s.name # NoName /\ s.name = typed.now
                  => \E r \in out : r.op = "session" /\ r.step = "done"

Inv == ListsInv /\ RequestsInv /\ NamesInv

(***************************************************************************)
(* What must hold.                                                         *)
(***************************************************************************)
\* Without sessions kept by hand the marks are all in one, which evaluation counts,
\* however many officials mark at once (admin_signups.py: _default_session).
OneSession == ~server.based => \A s, t \in server.sessions : s = t

\* A name that was typed once makes one session, however long the Enter key is held,
\* unless an answer was lost (SignupManagePage.tsx: addSession).
AddedOnce ==
    ~lost => \A s, t \in server.sessions : s.name \in Names /\ s.name = t.name => s = t

SignupsInv == TypeOK /\ OneSession /\ AddedOnce

\* What a club has sent itself stays, and is confirmed once and for all, also against a
\* removal pressed on a list that still shows an official's entry
\* (admin_signups.py: remove_registration).
KeepsSubmitted ==
    \A c \in Clubs : server.reg[c] \in {"pending", "club"} => server'.reg[c] \in {server.reg[c], "club"}

\* The club that is added is the one the menu shows, also when it came on the list after
\* it was chosen (SignupManagePage.tsx: walkInOptions).
AddsShown ==
    \A r \in out' \ out : r.op = "walkin" /\ r.by = "us" /\ r.step = "sent" => r.club = walkIn /\ known.reg[r.club] = "none"

\* "Attendance needs a row of the list" (admin_signups.py: add_registration).  It does
\* not: a mark that has looked outlives the removal of the row.
MarkedIsRegistered == \A s \in server.sessions : s.yes \subseteq {c \in Clubs : server.reg[c] # "none"}

\* "Take the mark back first, then remove" (admin_signups.py: remove_registration).  A mark
\* that was taken back still counts, and the entry cannot be removed.
UnmarkedIsRemovable ==
    \A r \in out : /\ r.op = "remove" /\ r.step = "sent" /\ server.reg[r.club] = "walkin"
                   /\ \A s \in server.sessions : r.club \notin s.yes
                   => [r EXCEPT !.step = "refused"] \notin out' \ out
=============================================================================
