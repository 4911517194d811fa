---------------------------- MODULE ClubSettings -----------------------------
(***************************************************************************)
(* An official's page of one club's settings: the choice of the club, by   *)
(* name and shared by several pages, and a form filled from the chosen     *)
(* club, of which a save sends what was changed.  The answers to a save, a *)
(* reset of the password and the loading of the list arrive while another  *)
(* club may have been chosen, and other officials change clubs too.        *)
(***************************************************************************)
EXTENDS Integers, FiniteSets

CONSTANTS
    Clubs,      \* numbers; the list begins with the smallest
    Names,
    Named,      \* the club's name at the start
    MaxSaves,   \* bound: saves
    MaxOthers,  \* bound: changes by other officials
    None

\* The values of the form, and a save of what was changed of them.
Values == [name: Names, active: BOOLEAN]
Changes == SUBSET {"name", "active"}
Saves == [id: Clubs, from: Names \cup {None}, values: Values, base: Values, fields: Changes, reply: Values \cup {None}]

\* Of the constants; assumed where they are given values.
ClubAssumption ==
    /\ Clubs \subseteq Nat \ {0} /\ Clubs # {} /\ IsFiniteSet(Clubs)
    /\ Named \in [Clubs -> Names] /\ \A c, d \in Clubs : Named[c] = Named[d] => c = d
    /\ MaxSaves \in Nat /\ MaxOthers \in Nat /\ None \notin Values \cup Saves

VARIABLES
    club,     \* the server's clubs: [name, active]
    list,     \* the names the browser knows, by club, or None
    listing,  \* the list is being loaded
    detail,   \* the clubs in the cache, or None each
    page,     \* what the page holds
    save,     \* a save on its way, or None
    reset,    \* the club whose new password is on its way, or None
    saves, others,
    chosen,   \* history: the club last chosen by the official or followed through a save; 0 at first, or for a name of before
    failed    \* history: once the list could not be loaded, a save failed, or one was made under a name of before

vars == <<club, list, listing, detail, page, save, reset, saves, others, chosen, failed>>

\* The page: the name that is chosen, the name the form belongs to, the form and the
\* values it was filled with, the club those are of, the questions being asked and the
\* password being shown.
Ask(what, to, back, id, request) == [what |-> what, to |-> to, back |-> back, id |-> id, request |-> request]

TypeOK ==
    /\ club \in [Clubs -> Values] /\ list \in [Clubs -> Names] \cup {None} /\ listing \in BOOLEAN
    /\ detail \in [Clubs -> Values \cup {None}]
    /\ page.club \in Names \cup {None} /\ page.last \in Names \cup {None}
    /\ page.form \in Values \cup {None} /\ page.saved \in Values \cup {None}
    /\ page.of \in Clubs \cup {0} /\ page.pw \in Clubs \cup {0}
    /\ \A a \in page.ask : a.what \in {"switch", "disable", "reset"}
    /\ saves \in 0 .. MaxSaves /\ others \in 0 .. MaxOthers /\ chosen \in Clubs \cup {0}

(***************************************************************************)
(* What follows from a change by itself.                                   *)
(***************************************************************************)
\* The club of a name, in the list as it is known; 0 is none.
IdOf(l, name) == IF l # None /\ \E c \in Clubs : l[c] = name THEN CHOOSE c \in Clubs : l[c] = name ELSE 0

Dirty(p) == p.form # None /\ p.saved # None /\ p.form # p.saved

FirstClub == CHOOSE c \in Clubs : \A d \in Clubs : c <= d

\* Mutant: a name the list does not know is given up at once.
CorrectAtOnce(p, l, loading) ==
    IF l # None /\ IdOf(l, p.club) = 0 THEN [p EXCEPT !.club = l[FirstClub]] ELSE p

\* A name the list does not know is given up for the first of the list, once it is loaded.
Correct(p, l, loading) ==
    IF ~loading /\ l # None /\ IdOf(l, p.club) = 0 THEN [p EXCEPT !.club = l[FirstClub]] ELSE p

ResetTo(p, name) == [p EXCEPT !.form = None, !.saved = None, !.of = 0, !.last = name]

\* Another club is chosen: the form is emptied, after a question if it has changes.
Switch(p) ==
    IF p.club = p.last THEN p
    ELSE IF Dirty(p) THEN [p EXCEPT !.ask = @ \cup {Ask("switch", p.club, p.last, 0, None)}]
    ELSE ResetTo(p, p.club)

\* An empty form is filled with what is known of its club.
Seed(p, l, d) ==
    LET id == IdOf(l, p.club) IN
    IF p.form # None \/ id = 0 \/ p.club # p.last THEN p
    ELSE IF d[id] = None THEN p
    ELSE [p EXCEPT !.form = d[id], !.saved = d[id], !.of = id]

Settled(p, l, loading, d) == Seed(Switch(Correct(p, l, loading)), l, d)

Shown == IdOf(list, page.club)
Current(name) == IdOf([c \in Clubs |-> club[c].name], name)
Free == page.ask = {} /\ page.pw = 0

\* The remembered name may be of a club that is called otherwise by now.
Init ==
    /\ club = [c \in Clubs |-> [name |-> Named[c], active |-> TRUE]]
    /\ list = None /\ listing = TRUE /\ detail = [c \in Clubs |-> None]
    /\ \E n \in Names \cup {None} :
         page = [club |-> n, last |-> n, form |-> None, saved |-> None, of |-> 0, ask |-> {}, pw |-> 0]
    /\ save = None /\ reset = None /\ saves = 0 /\ others = 0 /\ chosen = 0 /\ failed = FALSE

(***************************************************************************)
(* What is loaded.                                                         *)
(***************************************************************************)
\* The list, or the failure to load it: the old one is kept.
ListArrives ==
    /\ listing /\ listing' = FALSE
    /\ \/ list' = [c \in Clubs |-> club[c].name] /\ UNCHANGED failed
       \/ list' = list /\ failed' = TRUE
    /\ page' = Settled(page, list', FALSE, detail)
    /\ UNCHANGED <<club, detail, save, reset, saves, others, chosen>>

\* After a failure it is loaded again at the next occasion.
ListAgain ==
    /\ ~listing /\ listing' = TRUE
    /\ UNCHANGED <<club, list, detail, page, save, reset, saves, others, chosen, failed>>

\* The shown club, loaded again at any time; a form that is filled keeps what it has.
DetailArrives ==
    /\ Shown # 0 /\ detail' = [detail EXCEPT ![Shown] = club[Shown]]
    /\ page' = Settled(page, list, listing, detail')
    /\ UNCHANGED <<club, list, listing, save, reset, saves, others, chosen, failed>>

\* Another official lets a club in or out.
Other ==
    /\ others < MaxOthers /\ others' = others + 1
    /\ \E c \in Clubs : club' = [club EXCEPT ![c].active = ~@]
    /\ UNCHANGED <<list, listing, detail, page, save, reset, saves, chosen, failed>>

(***************************************************************************)
(* The official.                                                           *)
(***************************************************************************)
Pick ==
    /\ Free /\ list # None
    /\ \E c \in Clubs :
         /\ list[c] # page.club
         /\ page' = Settled([page EXCEPT !.club = list[c]], list, listing, detail)
         /\ chosen' = Current(list[c])
    /\ UNCHANGED <<club, list, listing, detail, save, reset, saves, others, failed>>

\* The question of a switch: the form is given up, or the choice.
AnswerSwitch ==
    /\ \E a \in page.ask :
         LET p == [page EXCEPT !.ask = @ \ {a}] IN
         /\ a.what = "switch"
         /\ \/ page' = Settled(ResetTo(p, a.to), list, listing, detail) /\ UNCHANGED chosen
            \/ /\ page' = Settled([p EXCEPT !.club = a.back], list, listing, detail)
               /\ chosen' = Current(a.back)
    /\ UNCHANGED <<club, list, listing, detail, save, reset, saves, others, failed>>

Type ==
    /\ Free /\ page.form # None
    /\ \E v \in Values : v # page.form /\ page' = [page EXCEPT !.form = v]
    /\ UNCHANGED <<club, list, listing, detail, save, reset, saves, others, chosen, failed>>

\* Mutant: the whole form is sent.
AllOf(p) == {"name", "active"}

\* What differs from what the form was filled with.
ChangesOf(p) == {f \in {"name", "active"} : p.form[f] # p.saved[f]}

\* To the club that is chosen, as it is when the save is asked for.
Request == [id |-> Shown, from |-> page.club, values |-> page.form, base |-> page.saved, fields |-> ChangesOf(page), reply |-> None]

Send(request) ==
    /\ save = None /\ saves < MaxSaves /\ saves' = saves + 1
    /\ save' = request /\ failed' = (failed \/ request.from # club[request.id].name)

\* A club is not let out before a question.
Save ==
    /\ Free /\ save = None /\ Shown # 0 /\ Dirty(page)
    /\ IF page.saved.active /\ ~page.form.active
       THEN page' = [page EXCEPT !.ask = {Ask("disable", None, None, 0, Request)}] /\ UNCHANGED <<save, saves, failed>>
       ELSE Send(Request) /\ UNCHANGED page
    /\ UNCHANGED <<club, list, listing, detail, reset, others, chosen>>

AskReset ==
    /\ Free /\ reset = None /\ Shown # 0 /\ page.form # None
    /\ page' = [page EXCEPT !.ask = {Ask("reset", None, None, Shown, None)}]
    /\ UNCHANGED <<club, list, listing, detail, save, reset, saves, others, chosen, failed>>

Confirm ==
    /\ \E a \in page.ask :
         /\ page' = [page EXCEPT !.ask = @ \ {a}]
         /\ \/ a.what = "disable" /\ Send(a.request) /\ UNCHANGED reset
            \/ a.what = "reset" /\ reset' = a.id /\ UNCHANGED <<save, saves, failed>>
            \/ a.what # "switch" /\ UNCHANGED <<save, saves, reset, failed>>
    /\ UNCHANGED <<club, list, listing, detail, others, chosen>>

ClosePassword ==
    /\ page.pw # 0 /\ page' = [page EXCEPT !.pw = 0]
    /\ UNCHANGED <<club, list, listing, detail, save, reset, saves, others, chosen, failed>>

(***************************************************************************)
(* The server and its answers.                                             *)
(***************************************************************************)
\* No two clubs have one name.
Serve ==
    /\ save # None /\ save.reply = None
    /\ LET new == [name   |-> IF "name" \in save.fields THEN save.values.name ELSE club[save.id].name,
                   active |-> IF "active" \in save.fields THEN save.values.active ELSE club[save.id].active]
       IN /\ \A c \in Clubs \ {save.id} : club[c].name # new.name
          /\ club' = [club EXCEPT ![save.id] = new] /\ save' = [save EXCEPT !.reply = new]
    /\ UNCHANGED <<list, listing, detail, page, reset, saves, others, chosen, failed>>

\* Whatever the answer, the form holds it; and a new name is followed.
SaveArrives ==
    /\ save # None /\ save.reply # None /\ save' = None
    /\ LET p == [page EXCEPT !.form = save.reply, !.saved = save.reply, !.of = save.id] IN
       IF save.reply.name # save.from
       THEN /\ page' = Settled([p EXCEPT !.club = save.reply.name, !.last = save.reply.name], list, TRUE, detail)
            /\ chosen' = save.id
       ELSE page' = Settled(p, list, TRUE, detail) /\ UNCHANGED chosen
    /\ listing' = TRUE
    /\ UNCHANGED <<club, list, detail, reset, saves, others, failed>>

\* Refused, or lost on the way there or back.
SaveFails ==
    /\ save # None /\ save' = None /\ failed' = TRUE
    /\ UNCHANGED <<club, list, listing, detail, page, reset, saves, others, chosen>>

\* The password is shown once, under the club that is chosen then.
ResetArrives ==
    /\ reset # None /\ reset' = None
    /\ \/ page' = [page EXCEPT !.pw = reset] /\ listing' = TRUE
       \/ UNCHANGED <<page, listing>>
    /\ UNCHANGED <<club, list, detail, save, saves, others, chosen, failed>>

Next ==
    \/ ListArrives \/ ListAgain \/ DetailArrives \/ Other
    \/ Pick \/ AnswerSwitch \/ Type \/ Save \/ AskReset \/ Confirm \/ ClosePassword
    \/ Serve \/ SaveArrives \/ SaveFails \/ ResetArrives

Spec == Init /\ [][Next]_vars

(***************************************************************************)
(* What makes it hold.                                                     *)
(***************************************************************************)
Asks ==
    [what: {"switch", "disable", "reset"}, to: Names \cup {None}, back: Names \cup {None}, id: Clubs \cup {0},
     request: Saves \cup {None}]
Pages ==
    [club: Names \cup {None}, last: Names \cup {None}, form: Values \cup {None}, saved: Values \cup {None},
     of: Clubs \cup {0}, ask: SUBSET Asks, pw: Clubs \cup {0}]

\* What is sent differs from what the form was filled with.
Sent(r) == r \in Saves /\ \A f \in r.fields : r.values[f] # r.base[f]

\* A question is about a save that is not sent yet, or about a club.
SoundAsk(a) == (a.what = "disable" => Sent(a.request) /\ a.request.reply = None) /\ (a.what = "reset" => a.id # 0)

PageInv ==
    /\ club \in [Clubs -> Values] /\ list \in [Clubs -> Names] \cup {None} /\ listing \in BOOLEAN
    /\ detail \in [Clubs -> Values \cup {None}] /\ page \in Pages
    /\ \A a \in page.ask : SoundAsk(a)
    /\ save # None => Sent(save)
    /\ reset \in Clubs \cup {None} /\ saves \in 0 .. MaxSaves /\ others \in 0 .. MaxOthers
    /\ chosen \in Clubs \cup {0} /\ failed \in BOOLEAN

\* A new name whose save has not been answered.
Renaming == save # None /\ save.reply # None /\ save.reply.name # save.from

\* A list that is not being loaded has the names there are, and the page the name of the
\* club that was chosen, except while a save has changed a name and is not answered.
FollowInv ==
    /\ \A c, d \in Clubs : club[c].name = club[d].name => c = d
    /\ ~failed /\ save # None => club[save.id].name = IF save.reply = None THEN save.from ELSE save.reply.name
    /\ ~failed /\ ~listing /\ ~Renaming => list = [c \in Clubs |-> club[c].name]
    /\ ~failed /\ chosen # 0 /\ ~Renaming => page.club = club[chosen].name

Inv == PageInv /\ FollowInv

(***************************************************************************)
(* What must hold.                                                         *)
(***************************************************************************)
\* The page stays with the club it was put on, also through a change of its name, while
\* the list still has the old one: unless something failed, or a club was saved under a
\* name it no longer had, it shows no other club once no save and no list are on their way
\* (features/admin/clubContext.tsx: AdminClubProvider).
RenameIsFollowed == ~failed /\ chosen # 0 /\ save = None /\ ~listing => Shown \in {0, chosen}

\* A save writes what its author changed, and nothing another official has changed since
\* the form was filled (AdminClubSettingsPage.tsx: doSave).
KeepsOthers ==
    save # None /\ save.reply = None /\ club' # club /\ save' # save
      => \A f \in {"name", "active"} : club'[save.id][f] # club[save.id][f] => save.values[f] # save.base[f]

\* The form is of the club that is chosen.  It is not: the answer to a save fills it,
\* whichever club has been chosen meanwhile.
FormIsOfTheClub == page.form # None /\ page.club = page.last /\ Shown # 0 => page.of = Shown

\* A password is shown under the club it is for.  It is not, if another has been chosen.
PasswordIsNamed == page.pw # 0 /\ Shown # 0 => page.pw = Shown
=============================================================================
