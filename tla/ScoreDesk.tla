------------------------------ MODULE ScoreDesk ------------------------------
(***************************************************************************)
(* The page on which a reviewer scores the clubs of an award.  A panel is  *)
(* filled from the club's detail once, when it appears; the detail is read *)
(* again behind it.  A save is answered by closing the panel or by going   *)
(* on to the next club that is not scored, and only while the panel is     *)
(* there.  The same reviewer may score on another device.  Files, comments *)
(* and totals are left out: a score stands for them.                       *)
(***************************************************************************)
EXTENDS Integers, Sequences, FiniteSets

CONSTANTS
    Names,      \* the clubs of the award, in the order of their names
    Items,      \* what is scored; the presentation is apart
    Points,
    Start,      \* the scores at the start
    MaxSaves,   \* bound: saves from this device
    MaxOthers,  \* bound: saves from another
    None

Clubs == {Names[i] : i \in DOMAIN Names}

\* Points say for which club they were given.
Given == (Clubs \X Points) \cup {None}
Scores == [items: [Items -> Given], pres: Given]
NoScore == [items |-> [i \in Items |-> None], pres |-> None]

\* Those a club may have: with points that were given to it.
Own(c) == LET given == ({c} \X Points) \cup {None} IN [items: [Items -> given], pres: given]

\* What is typed, and whether its save is on its way.
Panels == [items: [Items -> Given], pres: Given, touched: BOOLEAN, busy: BOOLEAN]

\* Of the constants; assumed where they are given values.
ScoreAssumption ==
    /\ Len(Names) = Cardinality(Clubs) /\ MaxSaves \in Nat /\ MaxOthers \in Nat
    /\ Start \in [Clubs -> Scores] /\ \A c \in Clubs : Start[c] \in Own(c)
    /\ None \notin Clubs \cup (Clubs \X Points) \cup Scores \cup Panels

VARIABLES
    score,   \* this reviewer's scores, as the server has them
    list,    \* the clubs the page shows as scored
    club,    \* the club whose window is open, or None
    detail,  \* its scores as they were last read, or None
    panel,   \* what is typed: [items, pres, touched, busy], or None
    out,     \* saves on their way
    saves, others

vars == <<score, list, club, detail, panel, out, saves, others>>

Saves ==
    [nr: 1 .. MaxSaves, of: Clubs, items: [Items -> Given], pres: Given, named: BOOLEAN, touched: BOOLEAN,
     next: BOOLEAN, seen: SUBSET Clubs, here: BOOLEAN, done: BOOLEAN]

TypeOK ==
    /\ score \in [Clubs -> Scores] /\ list \subseteq Clubs /\ club \in Clubs \cup {None}
    /\ detail = None \/ detail \in Scores
    /\ panel = None \/ (detail # None /\ panel \in Panels)
    /\ out \subseteq Saves /\ saves \in 0 .. MaxSaves /\ others \in 0 .. MaxOthers

Scored(c) == \A i \in Items : score[c].items[i] # None
ScoredClubs == {c \in Clubs : Scored(c)}

Init ==
    /\ score = Start /\ list = ScoredClubs /\ club = None /\ detail = None /\ panel = None
    /\ out = {} /\ saves = 0 /\ others = 0

\* Where a club stands on the page: those to be scored come first.
Place(scored, c) == (IF c \in scored THEN Len(Names) ELSE 0) + (CHOOSE i \in DOMAIN Names : Names[i] = c)

Seed(d) == [items |-> d.items, pres |-> d.pres, touched |-> FALSE, busy |-> FALSE]

\* The answers of a panel that is gone are not heard.
Unheard == {[r EXCEPT !.here = FALSE] : r \in out}

\* Mutant: the detail of the club before stands in until the next one is read.
SelectKeeping(c) ==
    /\ club' = c /\ UNCHANGED detail
    /\ panel' = IF detail = None THEN None ELSE Seed(detail)

Select(c) == club' = c /\ detail' = None /\ panel' = None

Open ==
    /\ club = None /\ \E c \in Clubs : Select(c)
    /\ UNCHANGED <<score, list, out, saves, others>>

CloseDesk == club' = None /\ detail' = None /\ panel' = None

Close ==
    /\ club # None /\ CloseDesk /\ out' = Unheard
    /\ UNCHANGED <<score, list, saves, others>>

\* Read at first, after a save, and whenever the browser comes back to the page.
Load ==
    /\ club # None /\ detail' = score[club]
    /\ panel' = IF panel = None THEN Seed(detail') ELSE panel
    /\ UNCHANGED <<score, list, club, out, saves, others>>

\* An error takes the place of the panel.
LoadFails ==
    /\ club # None /\ detail' = None /\ panel' = None /\ out' = Unheard
    /\ UNCHANGED <<score, list, club, saves, others>>

LoadList ==
    /\ list' = ScoredClubs
    /\ UNCHANGED <<score, club, detail, panel, out, saves, others>>

\* Fields stay open while a save is on its way.
Type ==
    /\ panel # None
    /\ \E p \in Points \cup {None} :
         LET given == IF p = None THEN None ELSE <<club, p>> IN
         \/ \E i \in Items : panel' = [panel EXCEPT !.items[i] = given]
         \/ panel' = [panel EXCEPT !.pres = given, !.touched = TRUE]
    /\ UNCHANGED <<score, list, club, detail, out, saves, others>>

\* The presentation is named only if it is not what was last read.
Submit ==
    /\ panel # None /\ ~panel.busy /\ saves < MaxSaves /\ saves' = saves + 1
    /\ \A i \in Items : panel.items[i] # None
    /\ \E next \in BOOLEAN :
         out' = out \cup {[nr |-> saves', of |-> club, items |-> panel.items, pres |-> panel.pres,
                           named |-> panel.pres # detail.pres, touched |-> panel.touched,
                           next |-> next, seen |-> list, here |-> TRUE, done |-> FALSE]}
    /\ panel' = [panel EXCEPT !.busy = TRUE]
    /\ UNCHANGED <<score, list, club, detail, others>>

\* Every item is replaced; a presentation that is not named stays.
Serve ==
    \E r \in out :
      /\ ~r.done
      /\ out' = (out \ {r}) \cup (IF r.here THEN {[r EXCEPT !.done = TRUE]} ELSE {})
      /\ score' = [score EXCEPT ![r.of].items = r.items, ![r.of].pres = IF r.named THEN r.pres ELSE @]
      /\ UNCHANGED <<list, club, detail, panel, saves, others>>

\* Mutant: only those further down the page.
Following(r) == {c \in Clubs \ (r.seen \cup {r.of}) : Place(r.seen, c) > Place(r.seen, r.of)}

\* The clubs to go on to, from the page as it was when the button was pressed ...
Ahead(r) == Clubs \ (r.seen \cup {r.of})

\* ... those further down first, then those further up.
Way(r, c) == (Place(r.seen, c) - Place(r.seen, r.of)) % (2 * Len(Names))
Nearest(r) == {c \in Ahead(r) : \A d \in Ahead(r) : Way(r, c) <= Way(r, d)}

Answered ==
    \E r \in out :
      /\ r.done /\ out' = out \ {r}
      /\ IF ~r.here THEN UNCHANGED <<club, detail, panel>>
         ELSE IF r.next /\ Ahead(r) # {} THEN \E c \in Nearest(r) : Select(c) ELSE CloseDesk
      /\ UNCHANGED <<score, list, saves, others>>

\* A save is lost on the way there or back, and the panel says so.
Lose ==
    \E r \in out :
      /\ out' = out \ {r}
      /\ panel' = IF r.here THEN [panel EXCEPT !.busy = FALSE] ELSE panel
      /\ UNCHANGED <<score, list, club, detail, saves, others>>

\* Where a presentation is recorded that was not there.
OtherDevice ==
    /\ others < MaxOthers /\ others' = others + 1
    /\ \E c \in {x \in Clubs : score[x].pres = None}, p \in Points :
         score' = [score EXCEPT ![c] = [items |-> [i \in Items |-> <<c, p>>], pres |-> <<c, p>>]]
    /\ UNCHANGED <<list, club, detail, panel, out, saves>>

Next ==
    \/ Open \/ Close \/ Load \/ LoadFails \/ LoadList \/ Type \/ Submit
    \/ Serve \/ Answered \/ Lose \/ OtherDevice

Spec == Init /\ [][Next]_vars

(***************************************************************************)
(* What makes it hold: every copy of a club's points is its own, and only  *)
(* one save is answered by the panel, which is still that of its club.     *)
(***************************************************************************)
OwnInv ==
    /\ \A c \in Clubs : score[c] \in Own(c)
    /\ detail # None => club # None /\ detail \in Own(club)
    /\ panel # None => [items |-> panel.items, pres |-> panel.pres] \in Own(club)
    /\ \A r \in out : [items |-> r.items, pres |-> r.pres] \in Own(r.of)

\* A club that is scored stays so, and the page knows none as scored that is not.
ScoredInv ==
    /\ list \subseteq ScoredClubs
    /\ \A r \in out : /\ r.seen \subseteq ScoredClubs /\ (r.done => Scored(r.of))
                      /\ \A i \in Items : r.items[i] # None

SavesInv ==
    /\ \A r \in out : r.nr <= saves /\ (r.here => club = r.of /\ panel # None /\ panel.busy)
    /\ \A r, q \in out : r.nr = q.nr \/ (r.here /\ q.here) => r = q

Inv == TypeOK /\ OwnInv /\ ScoredInv /\ SavesInv

(***************************************************************************)
(* What must hold.                                                         *)
(***************************************************************************)
\* A club has only points that were given to it, whatever is answered late and however
\* many clubs the reviewer goes through (ViewerScorePage.tsx: ScorePanel, gcTime).
ScoresOfTheirClub ==
    \A c \in Clubs : LET s == score[c] IN
      \A g \in {s.items[i] : i \in Items} \cup {s.pres} : g = None \/ g[1] = c

\* Going from club to club ends only when every club is scored
\* (ViewerScorePage.tsx: handleSaved).
LeavesNoClubOut ==
    (\E r \in out : r.next /\ r.here /\ out' = out \ {r}) /\ club # None /\ club' = None
         => \A c \in Clubs : Scored(c)

\* A presentation is changed only by one who typed in its field.  It is not: it is read
\* again behind the panel, and what the panel has then counts as typed.
KeepsPresentation ==
    \A c \in Clubs : score'[c].pres # score[c].pres
         => others' # others \/ \E r \in out : r.of = c /\ r.touched /\ r \notin out'

\* The next club is one to be scored.  It may be one this reviewer has just scored: the
\* list it is taken from was not yet read again.
GoesOnToUnscored ==
    club # None /\ club' # None /\ club' # club => ~Scored(club')
=============================================================================
