-------------------------- MODULE ClientPagesProofs ---------------------------
(***************************************************************************)
(* What holds on the eight pages of ClientPages, for all accounts, clubs,  *)
(* points, files, fields and bounds: for each page its inductive           *)
(* invariant, which its own module defines as Inv, one lemma for its       *)
(* first states and one for its steps, then the properties.                *)
(***************************************************************************)
EXTENDS ClientPages, Sequences, FiniteSetTheorems, SequenceTheorems, WellFoundedInduction, TLAPS

\* A page that is looked at stays the one it is.
LEMMA PageStays == ASSUME [Next]_vars PROVE page' = page  BY DEF Next, vars

(***************************************************************************)
(* The page on which a reviewer scores the clubs.                          *)
(***************************************************************************)
USE DEF Score!Inv

\* The list is the server's, and nothing is under way.
LEMMA ScoreInit == ASSUME Init, page = "score" PROVE Score!Inv
  <1>0. Score!ScoreAssumption /\ Score!Init  BY PagesAssumption DEF Init
  <1>1. Score!TypeOK
    <2>1. Score!ScoredClubs \subseteq Score!Clubs  BY DEF Score!ScoredClubs
    <2> QED  BY <1>0, <2>1 DEF Score!TypeOK, Score!Init, Score!ScoreAssumption
  <1>2. Score!OwnInv  BY <1>0 DEF Score!OwnInv, Score!Init, Score!ScoreAssumption
  <1>3. Score!ScoredInv  BY <1>0 DEF Score!ScoredInv, Score!Init
  <1>4. Score!SavesInv  BY <1>0 DEF Score!SavesInv, Score!Init
  <1> QED  BY <1>1, <1>2, <1>3, <1>4

\* A reading is of the type of what is read, and not taken for none.
LEMMA ScoreOwn ==
  ASSUME Score!ScoreAssumption, NEW c \in Score!Clubs, NEW s \in Score!Own(c)
  PROVE  /\ s \in Score!Scores /\ s # None
         /\ s = [items |-> s.items, pres |-> s.pres]
         /\ s.items \in [Items -> Score!Given] /\ s.pres \in Score!Given
  BY DEF Score!ScoreAssumption, Score!Own, Score!Scores, Score!Given

\* Every step keeps the state of the scoring page sound: what is read, typed and sent for a
\* club are that club's own points, and one save at most is answered by the panel, that of its club.
LEMMA ScoreStep ==
  ASSUME page = "score", Score!Inv, [Next]_vars
  PROVE  Score!Inv'
  <1>0. Score!ScoreAssumption /\ [Score!Next]_(Score!vars)
    BY PagesAssumption DEF Next, vars, Score!vars
  <1>t. /\ Score!TypeOK /\ Score!OwnInv /\ Score!ScoredInv /\ Score!SavesInv
    OBVIOUS
  <1>n. MaxSent \in Nat /\ MaxOthers \in Nat /\ None \notin Score!Clubs
    BY <1>0 DEF Score!ScoreAssumption
  \* Where nothing of the scores, the list and the saves changes but the panel.
  <1>quiet. ASSUME UNCHANGED <<server, known, out, sent, others>> PROVE Score!ScoredInv'
    BY <1>t, <1>quiet DEF Score!ScoredInv, Score!ScoredClubs, Score!Scored
  <1>unheard. ASSUME UNCHANGED <<server, known, sent, others>>, out' = Score!Unheard
              PROVE  /\ Score!ScoredInv' /\ Score!SavesInv' /\ out' \subseteq Score!Saves
                     /\ \A r \in out' : [items |-> r.items, pres |-> r.pres] \in Score!Own(r.of)
    <2>1. \A r \in out' : \E q \in out : r = [q EXCEPT !.here = FALSE]
      BY <1>unheard DEF Score!Unheard
    <2>2. out' \subseteq Score!Saves
      <3> SUFFICES ASSUME NEW r \in out' PROVE r \in Score!Saves  OBVIOUS
      <3>1. PICK q \in out : r = [q EXCEPT !.here = FALSE]  BY <2>1
      <3>2. q \in Score!Saves  BY <1>t DEF Score!TypeOK
      <3> QED  BY <3>1, <3>2 DEF Score!Saves
    <2>3. \A r \in out' : \E q \in out : /\ r = [q EXCEPT !.here = FALSE] /\ r.nr = q.nr /\ r.of = q.of /\ r.here = FALSE
                                          /\ r.items = q.items /\ r.pres = q.pres /\ r.seen = q.seen /\ r.done = q.done
      BY <1>t, <2>1 DEF Score!TypeOK, Score!Saves
    <2>4. Score!ScoredInv'
      BY <1>t, <1>unheard, <2>3 DEF Score!ScoredInv, Score!ScoredClubs, Score!Scored
    <2>5. Score!SavesInv'
      <3>1. \A r \in out' : r.nr <= sent' /\ ~r.here  BY <1>t, <1>unheard, <2>3 DEF Score!SavesInv
      <3>2. ASSUME NEW r \in out', NEW q \in out', r.nr = q.nr PROVE r = q
        <4>1. PICK a \in out : r = [a EXCEPT !.here = FALSE] /\ r.nr = a.nr  BY <2>3
        <4>2. PICK b \in out : q = [b EXCEPT !.here = FALSE] /\ q.nr = b.nr  BY <2>3
        <4>3. a = b  BY <1>t, <3>2, <4>1, <4>2 DEF Score!SavesInv
        <4> QED  BY <4>1, <4>2, <4>3
      <3> QED  BY <3>1, <3>2 DEF Score!SavesInv
    <2>6. \A r \in out' : [items |-> r.items, pres |-> r.pres] \in Score!Own(r.of)
      BY <1>t, <2>3 DEF Score!OwnInv
    <2> QED  BY <2>2, <2>4, <2>5, <2>6
  <1>1. CASE Score!Open
    <2>0. PICK c \in Score!Clubs : Score!Select(c)  BY <1>1 DEF Score!Open
    <2>1. form' = c /\ held' = None /\ asked' = None /\ form = None /\ UNCHANGED <<server, known, out, sent, others>>
      BY <1>1, <2>0 DEF Score!Open, Score!Select
    <2>2. Score!TypeOK'  BY <1>t, <2>1 DEF Score!TypeOK
    <2>3. Score!OwnInv'  BY <1>t, <2>1 DEF Score!OwnInv
    <2>4. Score!SavesInv'
      <3>1. asked = None  BY <1>t, <2>1 DEF Score!TypeOK, Score!OwnInv
      <3>2. \A r \in out : ~r.here  BY <1>t, <3>1 DEF Score!SavesInv
      <3> QED  BY <1>t, <2>1, <3>2 DEF Score!SavesInv
    <2> QED  BY <1>quiet, <2>1, <2>2, <2>3, <2>4
  <1>2. CASE Score!Close
    <2>1. /\ form' = None /\ held' = None /\ asked' = None /\ UNCHANGED <<server, known, sent, others>>
          /\ out' = Score!Unheard
      BY <1>2 DEF Score!Close, Score!CloseDesk
    <2>2. Score!TypeOK'  BY <1>t, <1>unheard, <2>1 DEF Score!TypeOK
    <2>3. Score!OwnInv'  BY <1>t, <1>unheard, <2>1 DEF Score!OwnInv
    <2> QED  BY <1>unheard, <2>1, <2>2, <2>3
  <1>3. CASE Score!Load
    <2>1. /\ form # None /\ held' = server[form] /\ UNCHANGED <<server, known, form, out, sent, others>>
          /\ asked' = IF asked = None THEN Score!Seed(held') ELSE asked
      BY <1>3 DEF Score!Load
    <2>2. form \in Score!Clubs  BY <1>t, <2>1 DEF Score!TypeOK
    <2>3. held' \in Score!Own(form)  BY <1>t, <2>1, <2>2 DEF Score!OwnInv
    <2>4. /\ held' \in Score!Scores /\ held' # None /\ held' = [items |-> held'.items, pres |-> held'.pres]
          /\ held'.items \in [Items -> Score!Given] /\ held'.pres \in Score!Given
      BY <1>0, <2>2, <2>3, ScoreOwn
    <2>5. Score!TypeOK'  BY <1>t, <2>1, <2>4 DEF Score!TypeOK, Score!Seed, Score!Panels
    <2>6. Score!OwnInv'  BY <1>t, <2>1, <2>3, <2>4 DEF Score!OwnInv, Score!Seed
    <2>7. Score!SavesInv'  BY <1>t, <2>1 DEF Score!SavesInv
    <2> QED  BY <1>quiet, <2>1, <2>5, <2>6, <2>7
  <1>4. CASE Score!LoadFails
    <2>1. /\ held' = None /\ asked' = None /\ UNCHANGED <<server, known, form, sent, others>>
          /\ out' = Score!Unheard
      BY <1>4 DEF Score!LoadFails
    <2>2. Score!TypeOK'  BY <1>t, <1>unheard, <2>1 DEF Score!TypeOK
    <2>3. Score!OwnInv'  BY <1>t, <1>unheard, <2>1 DEF Score!OwnInv
    <2> QED  BY <1>unheard, <2>1, <2>2, <2>3
  <1>5. CASE Score!LoadList
    <2>1. known' = Score!ScoredClubs /\ UNCHANGED <<server, form, held, asked, out, sent, others>>
      BY <1>5 DEF Score!LoadList
    <2>2. Score!TypeOK'  BY <1>t, <2>1 DEF Score!TypeOK, Score!ScoredClubs
    <2>3. Score!OwnInv'  BY <1>t, <2>1 DEF Score!OwnInv
    <2>4. Score!ScoredInv'  BY <1>t, <2>1 DEF Score!ScoredInv, Score!ScoredClubs, Score!Scored
    <2>5. Score!SavesInv'  BY <1>t, <2>1 DEF Score!SavesInv
    <2> QED  BY <2>2, <2>3, <2>4, <2>5
  <1>6. CASE Score!Type
    <2>0. asked # None /\ UNCHANGED <<server, known, form, held, out, sent, others>>
      BY <1>6 DEF Score!Type
    <2>1. form \in Score!Clubs /\ held # None
      BY <1>t, <2>0 DEF Score!TypeOK, Score!OwnInv
    <2>2. PICK p \in Points \cup {None} :
            LET given == IF p = None THEN None ELSE <<form, p>> IN
            \/ \E i \in Items : asked' = [asked EXCEPT !.items[i] = given]
            \/ asked' = [asked EXCEPT !.pres = given, !.touched = TRUE]
      BY <1>6 DEF Score!Type
    <2> DEFINE given == IF p = None THEN None ELSE <<form, p>>
               mine == ({form} \X Points) \cup {None}
    <2>3. given \in mine /\ given \in Score!Given  BY <2>1 DEF Score!Given
    <2>4. /\ asked \in Score!Panels
          /\ asked.items \in [Items -> mine] /\ asked.pres \in mine
      BY <1>t, <2>0 DEF Score!TypeOK, Score!OwnInv, Score!Own, Score!Panels
    <2> HIDE DEF given, mine
    <2>5. /\ asked' \in Score!Panels
          /\ asked'.items \in [Items -> mine] /\ asked'.pres \in mine /\ asked'.busy = asked.busy
      <3>1. CASE \E i \in Items : asked' = [asked EXCEPT !.items[i] = given]
        BY <2>3, <2>4, <3>1 DEF Score!Panels
      <3>2. CASE asked' = [asked EXCEPT !.pres = given, !.touched = TRUE]
        BY <2>3, <2>4, <3>2 DEF Score!Panels
      <3> QED  BY <2>2, <3>1, <3>2 DEF given
    <2>6. Score!TypeOK'  BY <1>t, <2>0, <2>1, <2>5 DEF Score!TypeOK
    <2>7. Score!OwnInv'
      <3>1. [items |-> asked'.items, pres |-> asked'.pres] \in Score!Own(form)
        BY <2>5 DEF Score!Own, mine
      <3> QED  BY <1>t, <2>0, <3>1 DEF Score!OwnInv
    <2>8. Score!SavesInv'
      <3>1. asked' # None  BY <2>5, <1>0 DEF Score!ScoreAssumption
      <3> QED  BY <1>t, <2>0, <2>5, <3>1 DEF Score!SavesInv
    <2> QED  BY <1>quiet, <2>0, <2>6, <2>7, <2>8
  <1>7. CASE Score!Submit
    <2>0. /\ asked # None /\ ~asked.busy /\ sent < MaxSent /\ sent' = sent + 1
          /\ \A i \in Items : asked.items[i] # None
          /\ asked' = [asked EXCEPT !.busy = TRUE]
          /\ UNCHANGED <<server, known, form, held, others>>
      BY <1>7 DEF Score!Submit
    <2>1. PICK next \in BOOLEAN :
            out' = out \cup {[nr |-> sent', of |-> form, items |-> asked.items, pres |-> asked.pres,
                              named |-> asked.pres # held.pres, touched |-> asked.touched,
                              next |-> next, seen |-> known, here |-> TRUE, done |-> FALSE]}
      BY <1>7 DEF Score!Submit
    <2> DEFINE new == [nr |-> sent', of |-> form, items |-> asked.items, pres |-> asked.pres,
                       named |-> asked.pres # held.pres, touched |-> asked.touched,
                       next |-> next, seen |-> known, here |-> TRUE, done |-> FALSE]
    <2>2. /\ form \in Score!Clubs /\ held # None /\ sent \in Nat /\ known \subseteq Score!Clubs
          /\ asked \in Score!Panels
      BY <1>t, <1>n, <2>0 DEF Score!TypeOK, Score!OwnInv
    <2>3. sent' \in 1 .. MaxSent  BY <1>n, <2>0, <2>2
    <2>4. new \in Score!Saves  BY <2>2, <2>3 DEF Score!Saves, Score!Panels
    <2>5. /\ asked' \in Score!Panels
          /\ asked'.items = asked.items /\ asked'.pres = asked.pres /\ asked'.busy
      BY <2>0, <2>2 DEF Score!Panels
    <2>6. Score!TypeOK'
      <3>1. sent' \in 0 .. MaxSent  BY <2>3
      <3> QED  BY <1>t, <2>0, <2>1, <2>2, <2>4, <2>5, <3>1 DEF Score!TypeOK
    <2>7. Score!OwnInv'  BY <1>t, <2>0, <2>1, <2>5 DEF Score!OwnInv
    <2>8. Score!ScoredInv'
      BY <1>t, <2>0, <2>1 DEF Score!ScoredInv, Score!ScoredClubs, Score!Scored
    <2>9. Score!SavesInv'
      <3>1. \A r \in out : r.nr \in Nat /\ r.nr # sent' /\ r.nr <= sent' /\ ~r.here
        BY <1>t, <2>0, <2>2, <1>n DEF Score!SavesInv, Score!TypeOK, Score!Saves
      <3>2. asked' # None  BY <2>5, <1>0 DEF Score!ScoreAssumption
      <3>3. new.nr = sent' /\ new.of = form /\ sent' \in Nat  BY <2>3
      <3> HIDE DEF new
      <3>4. out' = out \cup {new}  BY <2>1 DEF new
      <3>5. \A r \in out' : r.nr <= sent' /\ (r.here => form' = r.of /\ asked' # None /\ asked'.busy)
        BY <2>0, <2>5, <3>1, <3>2, <3>3, <3>4
      <3>6. \A r, q \in out' : r.nr = q.nr \/ (r.here /\ q.here) => r = q
        BY <1>t, <3>1, <3>3, <3>4 DEF Score!SavesInv
      <3> QED  BY <3>5, <3>6 DEF Score!SavesInv
    <2> QED  BY <2>6, <2>7, <2>8, <2>9
  <1>8. CASE Score!Serve
    <2>0. PICK r \in out :
            /\ ~r.done
            /\ out' = (out \ {r}) \cup (IF r.here THEN {[r EXCEPT !.done = TRUE]} ELSE {})
            /\ server' = [server EXCEPT ![r.of].items = r.items, ![r.of].pres = IF r.named THEN r.pres ELSE @]
            /\ UNCHANGED <<known, form, held, asked, sent, others>>
      BY <1>8 DEF Score!Serve
    <2> DEFINE new == [r EXCEPT !.done = TRUE]
    <2>1. /\ r \in Score!Saves /\ r.of \in Score!Clubs /\ server \in [Score!Clubs -> Score!Scores]
          /\ r.items \in [Items -> Score!Given] /\ r.pres \in Score!Given
      BY <1>t DEF Score!TypeOK, Score!Saves
    <2>2. /\ new \in Score!Saves /\ new.nr = r.nr /\ new.of = r.of /\ new.items = r.items /\ new.pres = r.pres
          /\ new.seen = r.seen /\ new.here = r.here
      BY <2>1 DEF Score!Saves
    <2>3. /\ server' \in [Score!Clubs -> Score!Scores]
          /\ \A c \in Score!Clubs \ {r.of} : server'[c] = server[c]
          /\ server'[r.of].items = r.items /\ server'[r.of].pres \in {r.pres, server[r.of].pres}
          /\ server'[r.of] \in Score!Scores
      BY <2>0, <2>1 DEF Score!Scores
    <2> HIDE DEF new
    <2>4. out' \subseteq (out \ {r}) \cup {new}  BY <2>0 DEF new
    <2>5. Score!TypeOK'
      <3>1. out' \subseteq Score!Saves  BY <1>t, <2>2, <2>4 DEF Score!TypeOK
      <3> QED  BY <1>t, <2>0, <2>3, <3>1 DEF Score!TypeOK
    <2>6. Score!OwnInv'
      <3>1. [items |-> r.items, pres |-> r.pres] \in Score!Own(r.of) /\ server[r.of] \in Score!Own(r.of)
        BY <1>t, <2>1 DEF Score!OwnInv
      <3>2. server'[r.of] \in Score!Own(r.of)
        BY <2>3, <3>1 DEF Score!Own, Score!Scores
      <3>3. \A c \in Score!Clubs : server'[c] \in Score!Own(c)
        BY <1>t, <2>3, <3>2 DEF Score!OwnInv
      <3>4. \A q \in out' : [items |-> q.items, pres |-> q.pres] \in Score!Own(q.of)
        BY <1>t, <2>2, <2>4, <3>1 DEF Score!OwnInv
      <3> QED  BY <1>t, <2>0, <3>3, <3>4 DEF Score!OwnInv
    <2>7. \A c \in Score!Clubs : Score!Scored(c) => Score!Scored(c)'
      BY <1>t, <2>1, <2>3 DEF Score!ScoredInv, Score!Scored
    <2>8. Score!Scored(r.of)'
      BY <1>t, <2>3 DEF Score!ScoredInv, Score!Scored
    <2>9. Score!ScoredInv'
      <3>1. Score!ScoredClubs \subseteq Score!ScoredClubs'  BY <2>7 DEF Score!ScoredClubs
      <3>2. \A q \in out : q.of \in Score!Clubs  BY <1>t DEF Score!TypeOK, Score!Saves
      <3> HIDE DEF Score!ScoredClubs
      <3>3. \A q \in out' : /\ q.seen \subseteq Score!ScoredClubs' /\ (q.done => Score!Scored(q.of)')
                             /\ \A i \in Items : q.items[i] # None
        BY <1>t, <2>2, <2>4, <2>7, <2>8, <3>1, <3>2 DEF Score!ScoredInv
      <3> QED  BY <1>t, <2>0, <3>1, <3>3 DEF Score!ScoredInv
    <2>10. Score!SavesInv'
      <3>1. \A q \in out' : q.nr <= sent' /\ (q.here => form' = q.of /\ asked' # None /\ asked'.busy)
        BY <1>t, <2>0, <2>2, <2>4 DEF Score!SavesInv
      <3>2. \A q, p \in out' : q.nr = p.nr \/ (q.here /\ p.here) => q = p
        BY <1>t, <2>2, <2>4 DEF Score!SavesInv
      <3> QED  BY <3>1, <3>2 DEF Score!SavesInv
    <2> QED  BY <2>5, <2>6, <2>9, <2>10
  <1>9. CASE Score!Answered
    <2>0. PICK r \in out :
            /\ r.done /\ out' = out \ {r}
            /\ IF ~r.here THEN UNCHANGED <<form, held, asked>>
               ELSE IF r.next /\ Score!Ahead(r) # {} THEN \E c \in Score!Nearest(r) : Score!Select(c) ELSE Score!CloseDesk
      BY <1>9 DEF Score!Answered
    <2>1. UNCHANGED <<server, known, sent, others>>  BY <1>9 DEF Score!Answered
    <2>2. \/ ~r.here /\ UNCHANGED <<form, held, asked>>
          \/ r.here /\ form' \in Score!Clubs \cup {None} /\ held' = None /\ asked' = None
      <3>1. \A c \in Score!Nearest(r) : c \in Score!Clubs  BY DEF Score!Nearest, Score!Ahead
      <3> QED  BY <2>0, <3>1 DEF Score!Select, Score!CloseDesk
    <2>3. Score!TypeOK'  BY <1>t, <2>0, <2>1, <2>2 DEF Score!TypeOK
    <2>4. Score!OwnInv'  BY <1>t, <2>0, <2>1, <2>2 DEF Score!OwnInv
    <2>5. Score!ScoredInv'
      BY <1>t, <2>0, <2>1 DEF Score!ScoredInv, Score!ScoredClubs, Score!Scored
    <2>6. Score!SavesInv'
      <3>1. r.here => \A q \in out' : ~q.here  BY <1>t, <2>0 DEF Score!SavesInv
      <3> QED  BY <1>t, <2>0, <2>1, <2>2, <3>1 DEF Score!SavesInv
    <2> QED  BY <2>3, <2>4, <2>5, <2>6
  <1>10. CASE Score!Lose
    <2>0. PICK r \in out :
            /\ out' = out \ {r}
            /\ asked' = IF r.here THEN [asked EXCEPT !.busy = FALSE] ELSE asked
            /\ UNCHANGED <<server, known, form, held, sent, others>>
      BY <1>10 DEF Score!Lose
    <2>1. r.here => asked # None  BY <1>t DEF Score!SavesInv
    <2>2. asked = None \/ asked \in Score!Panels  BY <1>t DEF Score!TypeOK
    <2>3. \/ ~r.here /\ asked' = asked
          \/ /\ r.here /\ asked' \in Score!Panels /\ asked # None
             /\ asked'.items = asked.items /\ asked'.pres = asked.pres
      BY <2>0, <2>1, <2>2 DEF Score!Panels
    <2>4. Score!TypeOK'  BY <1>t, <2>0, <2>3 DEF Score!TypeOK
    <2>5. Score!OwnInv'  BY <1>t, <2>0, <2>3 DEF Score!OwnInv
    <2>6. Score!ScoredInv'
      BY <1>t, <2>0 DEF Score!ScoredInv, Score!ScoredClubs, Score!Scored
    <2>7. Score!SavesInv'
      <3>1. r.here => \A q \in out' : ~q.here  BY <1>t, <2>0 DEF Score!SavesInv
      <3> QED  BY <1>t, <2>0, <2>3, <3>1 DEF Score!SavesInv
    <2> QED  BY <2>4, <2>5, <2>6, <2>7
  <1>11. CASE Score!OtherDevice
    <2>0. PICK c \in Score!Clubs, p \in Points :
            server' = [server EXCEPT ![c] = [items |-> [i \in Items |-> <<c, p>>], pres |-> <<c, p>>]]
      BY <1>11 DEF Score!OtherDevice
    <2>1. others' \in 0 .. MaxOthers /\ UNCHANGED <<known, form, held, asked, out, sent>>
      BY <1>11, <1>t, <1>n DEF Score!OtherDevice, Score!TypeOK
    <2>2. server \in [Score!Clubs -> Score!Scores]  BY <1>t DEF Score!TypeOK
    <2>3. <<c, p>> # None /\ <<c, p>> \in Score!Given
      BY <1>0 DEF Score!ScoreAssumption, Score!Given
    <2>4. /\ server'[c] = [items |-> [i \in Items |-> <<c, p>>], pres |-> <<c, p>>]
          /\ \A d \in Score!Clubs \ {c} : server'[d] = server[d]
      BY <2>0, <2>2
    <2>5. server' \in [Score!Clubs -> Score!Scores]
      BY <2>0, <2>2, <2>3 DEF Score!Scores
    <2>6. Score!TypeOK'  BY <1>t, <2>1, <2>5 DEF Score!TypeOK
    <2>7. Score!OwnInv'
      <3>1. server'[c] \in Score!Own(c)  BY <2>4 DEF Score!Own
      <3> QED  BY <1>t, <2>1, <2>4, <3>1 DEF Score!OwnInv
    <2>8. \A d \in Score!Clubs : Score!Scored(d) => Score!Scored(d)'
      BY <2>3, <2>4 DEF Score!Scored
    <2>9. Score!ScoredInv'
      <3>1. Score!ScoredClubs \subseteq Score!ScoredClubs'  BY <2>8 DEF Score!ScoredClubs
      <3>2. \A q \in out : q.of \in Score!Clubs  BY <1>t DEF Score!TypeOK, Score!Saves
      <3> QED  BY <1>t, <2>1, <2>8, <3>1, <3>2 DEF Score!ScoredInv
    <2>10. Score!SavesInv'  BY <1>t, <2>1 DEF Score!SavesInv
    <2> QED  BY <2>6, <2>7, <2>9, <2>10
  <1>12. CASE UNCHANGED Score!vars
    BY <1>t, <1>12 DEF Score!vars, Score!TypeOK, Score!OwnInv, Score!ScoredInv, Score!ScoredClubs, Score!Scored, Score!SavesInv
  <1> QED
    BY <1>0, <1>1, <1>2, <1>3, <1>4, <1>5, <1>6, <1>7, <1>8, <1>9, <1>10, <1>11, <1>12 DEF Score!Next

\* The state of the scoring page is sound for any clubs, items, points and bounds.
THEOREM ScoresAreSound == Spec => [](page = "score" => Score!Inv)
  <1>1. Init => (page = "score" => Score!Inv)  BY ScoreInit
  <1>2. (page = "score" => Score!Inv) /\ [Next]_vars => (page = "score" => Score!Inv)'
    BY ScoreStep, PageStays
  <1> QED  BY <1>1, <1>2, PTL DEF Spec

\* A club has only points that were given to it, whichever club the panel has gone on to
\* while a save was on its way.
THEOREM PointsAreOwn == Spec => []ScoresOfTheirClub
  <1>1. (page = "score" => Score!Inv) => ScoresOfTheirClub
    <2> SUFFICES ASSUME page = "score", Score!Inv PROVE Score!TypeOK /\ Score!ScoresOfTheirClub
      BY DEF ScoresOfTheirClub
    <2> SUFFICES ASSUME NEW c \in Score!Clubs,
                        NEW g \in {server[c].items[i] : i \in Items} \cup {server[c].pres}
                 PROVE  g = None \/ g[1] = c
      BY DEF Score!ScoresOfTheirClub
    <2> QED  BY DEF Score!OwnInv, Score!Own
  <1> QED  BY <1>1, ScoresAreSound, PTL

\* A step that ends the way from club to club finds every club scored.
LEMMA ScoreLeavesNoClubOut ==
  ASSUME page = "score", Score!Inv, [Next]_vars
  PROVE  Score!LeavesNoClubOut
  <1>0. [Score!Next]_(Score!vars)  BY DEF Next, vars, Score!vars
  <1> SUFFICES ASSUME NEW r \in out, r.next, r.here, out' = out \ {r}, form # None, form' = None,
                      NEW c \in Score!Clubs
               PROVE  Score!Scored(c)
    BY DEF Score!LeavesNoClubOut
  <1>1. CASE Score!Close
    <2>1. PICK q \in out' : q = [r EXCEPT !.here = FALSE]  BY <1>1 DEF Score!Close, Score!Unheard
    <2>2. q.nr = r.nr /\ q.here = FALSE  BY <2>1 DEF Score!TypeOK, Score!Saves
    <2> QED  BY <2>2 DEF Score!SavesInv
  <1>2. CASE Score!Answered
    <2>1. PICK q \in out :
            /\ q.done /\ out' = out \ {q}
            /\ IF ~q.here THEN UNCHANGED <<form, held, asked>>
               ELSE IF q.next /\ Score!Ahead(q) # {} THEN \E d \in Score!Nearest(q) : Score!Select(d) ELSE Score!CloseDesk
      BY <1>2 DEF Score!Answered
    <2>2. q = r  BY <2>1
    <2>3. \A d \in Score!Nearest(r) : d # None
      BY PagesAssumption DEF Score!Nearest, Score!Ahead, Score!ScoreAssumption
    <2>4. Score!Ahead(r) = {}  BY <2>1, <2>2, <2>3 DEF Score!Select
    <2>5. c \in r.seen \/ c = r.of  BY <2>4 DEF Score!Ahead
    <2> QED  BY <2>1, <2>2, <2>5 DEF Score!ScoredInv, Score!ScoredClubs
  <1>3. CASE Score!Open  BY <1>3 DEF Score!Open
  <1>4. CASE ~(Score!Close \/ Score!Answered \/ Score!Open)
    BY <1>0, <1>4 DEF Score!Next, Score!vars, Score!Load, Score!LoadFails, Score!LoadList, Score!Type, Score!Submit,
       Score!Serve, Score!Lose, Score!OtherDevice
  <1> QED  BY <1>1, <1>2, <1>3, <1>4

\* Going from club to club ends only when every club is scored.
THEOREM ReviewerIsLedThroughAll == Spec => NoClubIsLeftOut
  <1>1. (page = "score" => Score!Inv) /\ [Next]_vars => (page = "score" => Score!LeavesNoClubOut)
    BY ScoreLeavesNoClubOut
  <1> QED  BY <1>1, ScoresAreSound, PTL DEF Spec, NoClubIsLeftOut
HIDE DEF Score!Inv

(***************************************************************************)
(* The page of the accounts.                                               *)
(***************************************************************************)
USE DEF Accounts!Inv

\* The keys of an account that the page does not know of, as they were at the start.
Outside(a) == AccountsAtStart[a].keys \ Catalogue

\* The rows are the server's, and no dialog is open.
LEMMA AccountsInit == ASSUME Init, page = "accounts" PROVE Accounts!Inv
  <1>0. Accounts!AccountsAssumption /\ Accounts!Init  BY PagesAssumption DEF Init
  <1>1. Accounts!TypeOK  BY <1>0 DEF Accounts!TypeOK, Accounts!Init, Accounts!AccountsAssumption
  <1>2. Accounts!KeysInv  BY <1>0 DEF Accounts!KeysInv, Accounts!Init
  <1> QED  BY <1>0, <1>1, <1>2 DEF Accounts!RecordsInv, Accounts!CreatedInv, Accounts!Init

\* A request that is sent joins those on their way, of which only those of its own kind
\* are no longer listened to.
LEMMA AccountsSend ==
  ASSUME Accounts!AccountsAssumption, Accounts!Inv,
         NEW q \in Accounts!Requests, Accounts!Send(q),
         past \subseteq past', \A a \in asked' : a.what = "records" => a.of \in ClubIds,
         q.last, q.reply = None,
         q.what = <<"keys">> => q.of \in Managed /\ q.keys \ Catalogue = Outside(q.of),
         q.what[1] = "remove" /\ q.flag /\ q.of \in ClubIds => q.of \in past',
         q.what \in {<<"account">>, <<"create">>} => \A r \in out : r.what = q.what => ~(r.here /\ r.last)
  PROVE  /\ out' \subseteq Accounts!Requests /\ sent' \in 0 .. MaxSent
         /\ \A r \in out' : r.what = <<"keys">> => r.of \in Managed /\ r.keys \ Catalogue = Outside(r.of)
         /\ Accounts!RecordsInv' /\ Accounts!CreatedInv'
  <1>0. MaxSent \in Nat /\ sent \in 0 .. MaxSent /\ out \subseteq Accounts!Requests
    BY DEF Accounts!TypeOK, Accounts!AccountsAssumption
  <1>1. /\ sent < MaxSent /\ sent' = sent + 1
        /\ out' = {[r EXCEPT !.last = @ /\ r.what # q.what] : r \in out} \cup {q}
    BY DEF Accounts!Send
  <1>2. \A r \in out' : r = q \/ \E p \in out : r = [p EXCEPT !.last = @ /\ p.what # q.what]
    BY <1>1
  <1>3. ASSUME NEW r \in out', r # q
        PROVE  \E p \in out : /\ r \in Accounts!Requests /\ r.what = p.what /\ r.of = p.of /\ r.keys = p.keys /\ r.flag = p.flag
                              /\ r.here = p.here /\ r.reply = p.reply /\ (r.last <=> p.last /\ p.what # q.what)
    <2>1. PICK p \in out : r = [p EXCEPT !.last = @ /\ p.what # q.what]  BY <1>2, <1>3
    <2>2. p \in Accounts!Requests  BY <1>0
    <2> QED  BY <2>1, <2>2 DEF Accounts!Requests
  <1>4. out' \subseteq Accounts!Requests  BY <1>3
  <1>5. \A r \in out' : r.what = <<"keys">> => r.of \in Managed /\ r.keys \ Catalogue = Outside(r.of)
    BY <1>3 DEF Accounts!KeysInv, Outside
  <1>6. Accounts!RecordsInv'  BY <1>3 DEF Accounts!RecordsInv
  <1>7. Accounts!CreatedInv'  BY <1>3 DEF Accounts!CreatedInv
  <1> QED  BY <1>0, <1>1, <1>4, <1>5, <1>6, <1>7

\* Every step keeps the state of the accounts page sound: each copy of an account holds the
\* keys the page does not know of, records are deleted only where that was agreed to, and the
\* answer to an account that is made is taken by no later request.
LEMMA AccountsStep ==
  ASSUME page = "accounts", Accounts!Inv, [Next]_vars
  PROVE  Accounts!Inv'
  <1>0. Accounts!AccountsAssumption /\ [Accounts!Next]_(Accounts!vars)
    BY PagesAssumption DEF Next, vars, Accounts!vars
  <1>t. Accounts!TypeOK /\ Accounts!KeysInv /\ Accounts!RecordsInv /\ Accounts!CreatedInv
    OBVIOUS
  <1>n. /\ MaxSent \in Nat /\ MaxOthers \in Nat /\ Managed \cap ClubIds = {} /\ Catalogue \subseteq AccountKeys
        /\ None \notin Accounts!Dialogs /\ None \notin Accounts!Passwords
    BY <1>0 DEF Accounts!AccountsAssumption
  <1>y. /\ server \in [Accounts!Ids -> Accounts!Rows] /\ known \in [Accounts!Ids -> Accounts!Rows]
        /\ form \in Accounts!Dialogs \cup {None} /\ held \in Accounts!Passwords \cup {None}
        /\ \A q \in asked : q.of \in Accounts!Ids /\ q.what \in {"reset", "disable", "remove", "records", "leave"}
        /\ out \subseteq Accounts!Requests /\ sent \in 0 .. MaxSent /\ others \in 0 .. MaxOthers /\ past \subseteq ClubIds
    BY DEF Accounts!TypeOK
  \* A step that sends nothing and leaves the keys alone.
  <1>quiet. ASSUME UNCHANGED <<server, known, out, past>>,
                   form' = form \/ form' = None \/ form'.what # "keys",
                   \A a \in asked' : a.what = "records" => a.of \in ClubIds
            PROVE  Accounts!KeysInv' /\ Accounts!RecordsInv' /\ Accounts!CreatedInv'
    BY <1>t, <1>quiet DEF Accounts!KeysInv, Accounts!RecordsInv, Accounts!CreatedInv
  <1>1. CASE Accounts!Press
    <2>1. UNCHANGED <<server, known, form, held, out, sent, others, past>>
      BY <1>1 DEF Accounts!Press
    <2>2. \A q \in asked' : q.of \in Accounts!Ids /\ q.what \in {"reset", "disable", "remove", "records", "leave"}
      BY <1>1 DEF Accounts!Press, Accounts!Question
    <2>3. Accounts!TypeOK'  BY <1>y, <2>1, <2>2 DEF Accounts!TypeOK
    <2>4. \A a \in asked' : a.what # "records"  BY <1>1 DEF Accounts!Press, Accounts!Question
    <2> QED  BY <1>quiet, <2>1, <2>3, <2>4
  <1>2. CASE Accounts!Enable
    <2>0. PICK id \in Accounts!Ids : Accounts!Send(Accounts!Request(Accounts!KindOf("active", id), id, TRUE, {}))
      BY <1>2 DEF Accounts!Enable
    <2> DEFINE q == Accounts!Request(Accounts!KindOf("active", id), id, TRUE, {})
    <2>1. /\ q \in Accounts!Requests /\ q.last /\ q.reply = None /\ q.what # <<"keys">> /\ q.what # <<"account">> /\ q.what # <<"create">>
          /\ q.what[1] = "active"
      BY DEF Accounts!Request, Accounts!KindOf, Accounts!Requests, Accounts!Kinds, Accounts!Ids
    <2>2. UNCHANGED <<server, known, form, asked, held, others, past>>
      BY <1>2 DEF Accounts!Enable
    <2> HIDE DEF q
    <2>3. /\ out' \subseteq Accounts!Requests /\ sent' \in 0 .. MaxSent
          /\ \A r \in out' : r.what = <<"keys">> => r.of \in Managed /\ r.keys \ Catalogue = Outside(r.of)
          /\ Accounts!RecordsInv' /\ Accounts!CreatedInv'
      <3>1. Accounts!Send(q)  BY <2>0 DEF q
      <3>2. \A a \in asked' : a.what = "records" => a.of \in ClubIds  BY <1>t, <2>2 DEF Accounts!RecordsInv
      <3> QED  BY <1>0, <2>1, <2>2, <3>1, <3>2, AccountsSend
    <2>4. Accounts!TypeOK'  BY <1>y, <2>2, <2>3 DEF Accounts!TypeOK
    <2>5. Accounts!KeysInv'  BY <1>t, <2>2, <2>3 DEF Accounts!KeysInv, Outside
    <2> QED  BY <2>3, <2>4, <2>5
  <1>3. CASE Accounts!Confirm
    <2>0. PICK q \in asked :
      /\ asked' = asked \ {q}
      /\ \/ /\ q.what = "reset" /\ Accounts!Send(Accounts!Request(Accounts!KindOf("reset", q.of), q.of, TRUE, {}))
            /\ UNCHANGED <<form, past>>
         \/ /\ q.what = "disable" /\ Accounts!Send(Accounts!Request(Accounts!KindOf("active", q.of), q.of, FALSE, {}))
            /\ UNCHANGED <<form, past>>
         \/ /\ q.what = "remove" /\ Accounts!Send(Accounts!Request(Accounts!KindOf("remove", q.of), q.of, FALSE, {}))
            /\ UNCHANGED <<form, past>>
         \/ /\ q.what = "records" /\ Accounts!Send(Accounts!Request(Accounts!KindOf("remove", q.of), q.of, TRUE, {}))
            /\ past' = past \cup {q.of} /\ UNCHANGED form
         \/ /\ q.what = "leave" /\ form' = None
            /\ UNCHANGED <<out, sent, past>>
      BY <1>3 DEF Accounts!Confirm, Accounts!Remove
    <2>1. UNCHANGED <<server, known, held, others>>  BY <1>3 DEF Accounts!Confirm
    <2>2. q.of \in Accounts!Ids  BY <1>y
    <2>3. \A a \in asked' : a.what = "records" => a.of \in ClubIds  BY <1>t, <2>0 DEF Accounts!RecordsInv
    <2>4. \A a \in asked' : a.of \in Accounts!Ids /\ a.what \in {"reset", "disable", "remove", "records", "leave"}
      BY <1>y, <2>0
    <2>5. CASE q.what = "leave"
      <3>1. form' = None /\ UNCHANGED <<out, sent, past>>  BY <2>0, <2>5
      <3>2. Accounts!TypeOK'  BY <1>y, <2>1, <2>4, <3>1 DEF Accounts!TypeOK
      <3> QED  BY <1>quiet, <2>1, <2>3, <3>1, <3>2
    <2>6. CASE q.what # "leave"
      <3>1. PICK what \in {"reset", "active", "remove"}, flag \in BOOLEAN :
              /\ Accounts!Send(Accounts!Request(Accounts!KindOf(what, q.of), q.of, flag, {}))
              /\ UNCHANGED form /\ past \subseteq past' /\ past' \subseteq ClubIds
              /\ what = "remove" /\ flag => q.of \in past'
        BY <1>t, <1>y, <2>0, <2>6 DEF Accounts!RecordsInv
      <3> DEFINE r == Accounts!Request(Accounts!KindOf(what, q.of), q.of, flag, {})
      <3>2. /\ r \in Accounts!Requests /\ r.last /\ r.reply = None /\ r.of = q.of /\ r.flag = flag
            /\ r.what # <<"keys">> /\ r.what # <<"account">> /\ r.what # <<"create">> /\ r.what[1] = what
        BY <2>2 DEF Accounts!Request, Accounts!KindOf, Accounts!Requests, Accounts!Kinds, Accounts!Ids
      <3> HIDE DEF r
      <3>3. /\ out' \subseteq Accounts!Requests /\ sent' \in 0 .. MaxSent
            /\ \A x \in out' : x.what = <<"keys">> => x.of \in Managed /\ x.keys \ Catalogue = Outside(x.of)
            /\ Accounts!RecordsInv' /\ Accounts!CreatedInv'
        <4>1. Accounts!Send(r)  BY <3>1 DEF r
        <4> QED  BY <1>0, <2>3, <3>1, <3>2, <4>1, AccountsSend
      <3>4. Accounts!TypeOK'  BY <1>y, <2>1, <2>4, <3>1, <3>3 DEF Accounts!TypeOK
      <3>5. Accounts!KeysInv'  BY <1>t, <2>1, <3>1, <3>3 DEF Accounts!KeysInv, Outside
      <3> QED  BY <3>3, <3>4, <3>5
    <2> QED  BY <2>5, <2>6
  <1>4. CASE Accounts!Decline
    <2>1. asked' \subseteq asked /\ UNCHANGED <<server, known, form, held, out, sent, others, past>>
      BY <1>4 DEF Accounts!Decline
    <2>2. Accounts!TypeOK'  BY <1>y, <2>1 DEF Accounts!TypeOK
    <2>3. \A a \in asked' : a.what = "records" => a.of \in ClubIds  BY <1>t, <2>1 DEF Accounts!RecordsInv
    <2> QED  BY <1>quiet, <2>1, <2>2, <2>3
  <1>5. CASE Accounts!OpenDialog
    <2>1. UNCHANGED <<server, known, asked, held, out, sent, others, past>>  BY <1>5 DEF Accounts!OpenDialog
    <2>2. PICK id \in Accounts!Ids :
         \/ /\ id \in Managed
            /\ form' = Accounts!Dialog("keys", id, Accounts!Ticked(id), known[id].keys \ Catalogue)
         \/ form' = Accounts!Dialog("account", id, {}, {})
         \/ form' = Accounts!Dialog(IF id \in ClubIds THEN "found" ELSE "create", id, {}, {})
      BY <1>5 DEF Accounts!OpenDialog
    <2>3. known[id].keys \subseteq AccountKeys  BY <1>y DEF Accounts!Rows
    <2>4. form' \in Accounts!Dialogs
      BY <2>2, <2>3 DEF Accounts!Dialogs, Accounts!Dialog, Accounts!Ticked
    <2>5. form'.what = "keys" => form'.of = id /\ id \in Managed /\ form'.extra = known[id].keys \ Catalogue
      BY <2>2 DEF Accounts!Dialog
    <2>6. Accounts!TypeOK'  BY <1>y, <2>1, <2>4 DEF Accounts!TypeOK
    <2>7. Accounts!KeysInv'  BY <1>t, <2>1, <2>5 DEF Accounts!KeysInv
    <2> QED  BY <1>t, <2>1, <2>6, <2>7 DEF Accounts!RecordsInv, Accounts!CreatedInv
  <1>6. CASE Accounts!Tick
    <2>1. form # None /\ form.what = "keys" /\ UNCHANGED <<server, known, asked, held, out, sent, others, past>>
      BY <1>6 DEF Accounts!Tick
    <2>2. PICK k \in Catalogue : form' = [form EXCEPT !.draft = IF k \in @ THEN @ \ {k} ELSE @ \cup {k}]
      BY <1>6 DEF Accounts!Tick
    <2>3. form' \in Accounts!Dialogs /\ form'.of = form.of /\ form'.extra = form.extra
      BY <1>y, <2>1, <2>2 DEF Accounts!Dialogs
    <2>4. Accounts!TypeOK'  BY <1>y, <2>1, <2>3 DEF Accounts!TypeOK
    <2>5. Accounts!KeysInv'  BY <1>t, <2>1, <2>3 DEF Accounts!KeysInv
    <2> QED  BY <1>t, <2>1, <2>4, <2>5 DEF Accounts!RecordsInv, Accounts!CreatedInv
  <1>7. CASE Accounts!Submit
    <2> DEFINE r == Accounts!Request(<<form.what>>, form.of, TRUE, Accounts!KeysOf(form))
    <2>1. /\ form # None /\ Accounts!Ready(form.what) /\ Accounts!Send(r)
          /\ UNCHANGED <<server, known, form, asked, held, others, past>>
      BY <1>7 DEF Accounts!Submit
    <2>2. form \in Accounts!Dialogs  BY <1>y, <2>1
    <2>3. Accounts!KeysOf(form) \subseteq AccountKeys /\ Accounts!KeysOf(form) \ Catalogue = form.extra \ Catalogue
      BY <1>n, <2>2 DEF Accounts!Dialogs, Accounts!KeysOf
    <2>4. /\ r \in Accounts!Requests /\ r.last /\ r.reply = None /\ r.of = form.of
          /\ r.what = <<form.what>> /\ r.what[1] = form.what /\ r.what[1] # "remove" /\ r.keys = Accounts!KeysOf(form)
      BY <2>2, <2>3 DEF Accounts!Request, Accounts!Requests, Accounts!Kinds, Accounts!Dialogs
    <2> HIDE DEF r
    <2>5. r.what = <<"keys">> => r.of \in Managed /\ r.keys \ Catalogue = Outside(r.of)
      <3> SUFFICES ASSUME r.what = <<"keys">> PROVE r.of \in Managed /\ r.keys \ Catalogue = Outside(r.of)  OBVIOUS
      <3>1. form.what = "keys"  BY <2>4
      <3>2. form.of \in Managed /\ form.extra = Outside(form.of)  BY <1>t, <2>1, <3>1 DEF Accounts!KeysInv, Outside
      <3> QED  BY <2>3, <2>4, <3>2 DEF Outside
    <2>6. \A x \in out : x.what = r.what => ~(x.here /\ x.last)
      BY <2>1, <2>4 DEF Accounts!Ready, Accounts!Pending, Accounts!Heard
    <2>7. \A a \in asked' : a.what = "records" => a.of \in ClubIds  BY <1>t, <2>1 DEF Accounts!RecordsInv
    <2>8. /\ out' \subseteq Accounts!Requests /\ sent' \in 0 .. MaxSent
          /\ \A x \in out' : x.what = <<"keys">> => x.of \in Managed /\ x.keys \ Catalogue = Outside(x.of)
          /\ Accounts!RecordsInv' /\ Accounts!CreatedInv'
      BY <1>0, <2>1, <2>4, <2>5, <2>6, <2>7, AccountsSend
    <2>9. Accounts!TypeOK'  BY <1>y, <2>1, <2>8 DEF Accounts!TypeOK
    <2>10. Accounts!KeysInv'  BY <1>t, <2>1, <2>8 DEF Accounts!KeysInv, Outside
    <2> QED  BY <2>8, <2>9, <2>10
  <1>8. CASE Accounts!CloseDialog
    <2>1. /\ form # None /\ UNCHANGED <<server, known, held, out, sent, others, past>>
          /\ \/ asked' = {Accounts!Question("leave", form.of)} /\ form' = form
             \/ form' = None /\ asked' = asked
      BY <1>8 DEF Accounts!CloseDialog
    <2>2. form.of \in Accounts!Ids  BY <1>y, <2>1 DEF Accounts!Dialogs
    <2>3. \A a \in asked' : a.what = "records" => a.of \in ClubIds
      BY <1>t, <2>1 DEF Accounts!RecordsInv, Accounts!Question
    <2>4. Accounts!TypeOK'  BY <1>y, <2>1, <2>2 DEF Accounts!TypeOK, Accounts!Question
    <2> QED  BY <1>quiet, <2>1, <2>3, <2>4
  <1>9. CASE Accounts!ClosePassword
    <2>1. held' = None /\ UNCHANGED <<server, known, form, asked, out, sent, others, past>>
      BY <1>9 DEF Accounts!ClosePassword
    <2>2. Accounts!TypeOK'  BY <1>y, <2>1 DEF Accounts!TypeOK
    <2> QED  BY <1>t, <1>quiet, <2>1, <2>2 DEF Accounts!RecordsInv
  <1>10. CASE Accounts!Leave
    <2>1. out' = {[r EXCEPT !.here = FALSE] : r \in out} /\ UNCHANGED <<server, known, form, asked, held, sent, others, past>>
      BY <1>10 DEF Accounts!Leave
    <2>2. ASSUME NEW r \in out'
          PROVE  \E p \in out : /\ r \in Accounts!Requests /\ r.what = p.what /\ r.of = p.of /\ r.keys = p.keys
                                /\ r.flag = p.flag /\ r.here = FALSE /\ r.reply = p.reply
      <3>1. PICK p \in out : r = [p EXCEPT !.here = FALSE]  BY <2>1
      <3>2. p \in Accounts!Requests  BY <1>y
      <3> QED  BY <3>1, <3>2 DEF Accounts!Requests
    <2>3. Accounts!TypeOK'
      <3>1. out' \subseteq Accounts!Requests  BY <2>2
      <3> QED  BY <1>y, <2>1, <3>1 DEF Accounts!TypeOK
    <2>4. Accounts!KeysInv'
      <3>1. ASSUME NEW r \in out', r.what = <<"keys">> PROVE r.of \in Managed /\ r.keys \ Catalogue = Outside(r.of)
        <4>1. PICK p \in out : r.what = p.what /\ r.of = p.of /\ r.keys = p.keys  BY <2>2
        <4> QED  BY <1>t, <3>1, <4>1 DEF Accounts!KeysInv, Outside
      <3> QED  BY <1>t, <2>1, <3>1 DEF Accounts!KeysInv, Outside
    <2>5. Accounts!RecordsInv'
      <3>1. ASSUME NEW r \in out'
            PROVE  /\ r.of \in ClubIds /\ r.what[1] = "remove" /\ r.flag => r.of \in past
                   /\ r.reply # None /\ r.reply.code = "records" => r.of \in ClubIds
        <4>1. PICK p \in out : r.what = p.what /\ r.of = p.of /\ r.flag = p.flag /\ r.reply = p.reply  BY <2>2
        <4> QED  BY <1>t, <4>1 DEF Accounts!RecordsInv
      <3> QED  BY <1>t, <2>1, <3>1 DEF Accounts!RecordsInv
    <2>6. Accounts!CreatedInv'  BY <2>2 DEF Accounts!CreatedInv
    <2> QED  BY <2>3, <2>4, <2>5, <2>6
  <1>11. CASE Accounts!Serve
    <2>0. PICK r \in out :
      /\ r.reply = None
      /\ IF r.of \in Managed => server[r.of].keys \subseteq OwnKeys
         THEN \/ /\ Accounts!Possible(r, server[r.of])
                 /\ server' = [server EXCEPT ![r.of] = Accounts!After(r, @)]
                 /\ out' = (out \ {r}) \cup {[r EXCEPT !.reply = Accounts!Reply("done", server'[r.of].pw)]}
              \/ /\ ~Accounts!Possible(r, server[r.of]) /\ UNCHANGED server
                 /\ out' = (out \ {r}) \cup {[r EXCEPT !.reply =
                      Accounts!Reply(IF r.what = Accounts!KindOf("remove", r.of) /\ r.of \in ClubIds /\ server[r.of].data
                                     THEN "records" ELSE "refused", 0)]}
         ELSE UNCHANGED server /\ out' = (out \ {r}) \cup {[r EXCEPT !.reply = Accounts!Reply("refused", 0)]}
      BY <1>11 DEF Accounts!Serve
    <2>1. UNCHANGED <<known, form, asked, held, sent, others, past>>  BY <1>11 DEF Accounts!Serve
    <2>2. /\ r \in Accounts!Requests /\ r.what \in Accounts!Kinds /\ r.of \in Accounts!Ids
          /\ r.keys \subseteq AccountKeys /\ r.flag \in BOOLEAN
      BY <1>y DEF Accounts!Requests
    <2>3. \/ UNCHANGED server
          \/ server' = [server EXCEPT ![r.of] = Accounts!After(r, @)]
      BY <2>0
    <2>4. /\ Accounts!After(r, server[r.of]) \in Accounts!Rows
          /\ Accounts!After(r, server[r.of]).keys = IF r.what[1] = "keys" THEN r.keys ELSE server[r.of].keys
      <3> DEFINE x == server[r.of]
      <3>1. x \in Accounts!Rows  BY <1>y, <2>2
      <3>2. r.what[1] \in {"reset", "active", "remove", "keys", "account", "create", "found"}
        BY <2>2 DEF Accounts!Kinds
      <3>p. x.pw + 1 \in Nat  BY <3>1 DEF Accounts!Rows
      <3> HIDE DEF x
      <3> SUFFICES /\ Accounts!After(r, x) \in Accounts!Rows
                   /\ Accounts!After(r, x).keys = IF r.what[1] = "keys" THEN r.keys ELSE x.keys
        BY DEF x
      <3>3. CASE r.what[1] = "reset"  BY <3>1, <3>3 DEF Accounts!After, Accounts!Rows
      <3>4. CASE r.what[1] = "active"  BY <2>2, <3>1, <3>4 DEF Accounts!After, Accounts!Rows
      <3>5. CASE r.what[1] = "remove"  BY <3>1, <3>5 DEF Accounts!After, Accounts!Rows
      <3>6. CASE r.what[1] = "keys"  BY <2>2, <3>1, <3>6 DEF Accounts!After, Accounts!Rows
      <3>7. CASE r.what[1] = "account"
        <4>1. Accounts!After(r, x) = [x EXCEPT !.user = TRUE, !.pw = x.pw + 1]  BY <3>7 DEF Accounts!After
        <4> QED  BY <3>1, <3>7, <4>1, <3>p DEF Accounts!Rows
      <3>8. CASE r.what[1] = "create"
        <4>1. Accounts!After(r, x) = [x EXCEPT !.life = "there", !.active = TRUE, !.user = TRUE, !.pw = x.pw + 1]
          BY <3>8 DEF Accounts!After
        <4> QED  BY <3>1, <3>8, <4>1, <3>p DEF Accounts!Rows
      <3>9. CASE r.what[1] = "found"  BY <3>1, <3>9 DEF Accounts!After, Accounts!Rows
      <3> QED  BY <3>2, <3>3, <3>4, <3>5, <3>6, <3>7, <3>8, <3>9
    <2> HIDE DEF Accounts!After
    <2>5. /\ server' \in [Accounts!Ids -> Accounts!Rows]
          /\ \A a \in Accounts!Ids : server'[a].keys = server[a].keys \/ (a = r.of /\ r.what[1] = "keys" /\ server'[a].keys = r.keys)
      BY <1>y, <2>2, <2>3, <2>4
    <2>6. r.what[1] = "keys" => r.what = <<"keys">>  BY <2>2 DEF Accounts!Kinds
    <2>7. PICK code \in {"done", "records", "refused"}, pw \in Nat :
            /\ out' = (out \ {r}) \cup {[r EXCEPT !.reply = Accounts!Reply(code, pw)]}
            /\ code = "records" => r.of \in ClubIds
      <3>1. \A a \in Accounts!Ids : server'[a].pw \in Nat  BY <2>5 DEF Accounts!Rows
      <3>2. server'[r.of].pw \in Nat /\ 0 \in Nat  BY <2>2, <3>1
      <3> HIDE DEF Accounts!Possible, Accounts!KindOf, Accounts!Reply
      <3> QED  BY <2>0, <3>2
    <2> DEFINE new == [r EXCEPT !.reply = Accounts!Reply(code, pw)]
    <2>8. /\ new \in Accounts!Requests /\ new.what = r.what /\ new.of = r.of /\ new.keys = r.keys /\ new.flag = r.flag
          /\ new.here = r.here /\ new.last = r.last /\ new.reply.code = code
      BY <2>2 DEF Accounts!Requests, Accounts!Reply, Accounts!Replies
    <2>9. out' = (out \ {r}) \cup {new}  BY <2>7
    <2> HIDE DEF new
    <2>10. Accounts!TypeOK'
      <3>1. out' \subseteq Accounts!Requests  BY <1>y, <2>8, <2>9
      <3> QED  BY <1>y, <2>1, <2>5, <3>1 DEF Accounts!TypeOK
    <2>11. Accounts!KeysInv'
      <3>1. \A a \in Managed : server'[a].keys \ Catalogue = Outside(a)
        BY <1>t, <2>5, <2>6 DEF Accounts!KeysInv, Outside, Accounts!Ids
      <3> QED  BY <1>t, <2>1, <2>8, <2>9, <3>1 DEF Accounts!KeysInv, Outside
    <2>12. Accounts!RecordsInv'  BY <1>t, <2>1, <2>7, <2>8, <2>9 DEF Accounts!RecordsInv
    <2>13. Accounts!CreatedInv'  BY <1>t, <2>8, <2>9 DEF Accounts!CreatedInv
    <2> QED  BY <2>10, <2>11, <2>12, <2>13
  <1>12. CASE Accounts!Other
    <2>1. others' \in 0 .. MaxOthers /\ UNCHANGED <<known, form, asked, held, out, sent, past>>
      BY <1>12, <1>n, <1>y DEF Accounts!Other
    <2>2. PICK id \in Accounts!Ids :
            \/ server' = [server EXCEPT ![id].data = TRUE]
            \/ \E k \in Catalogue : server' = [server EXCEPT ![id].keys = IF k \in @ THEN @ \ {k} ELSE @ \cup {k}]
      BY <1>12 DEF Accounts!Other
    <2>3. server[id] \in Accounts!Rows  BY <1>y
    <2>4. /\ server'[id] \in Accounts!Rows /\ server'[id].keys \ Catalogue = server[id].keys \ Catalogue
          /\ \A a \in Accounts!Ids \ {id} : server'[a] = server[a]
          /\ server' \in [Accounts!Ids -> Accounts!Rows]
      <3>1. CASE server' = [server EXCEPT ![id].data = TRUE]
        BY <1>y, <2>3, <3>1 DEF Accounts!Rows
      <3>2. ASSUME NEW k \in Catalogue, server' = [server EXCEPT ![id].keys = IF k \in @ THEN @ \ {k} ELSE @ \cup {k}]
            PROVE  /\ server'[id] \in Accounts!Rows /\ server'[id].keys \ Catalogue = server[id].keys \ Catalogue
                   /\ \A a \in Accounts!Ids \ {id} : server'[a] = server[a]
                   /\ server' \in [Accounts!Ids -> Accounts!Rows]
        <4> DEFINE keys == IF k \in server[id].keys THEN server[id].keys \ {k} ELSE server[id].keys \cup {k}
        <4>1. keys \subseteq AccountKeys /\ keys \ Catalogue = server[id].keys \ Catalogue
          BY <1>n, <2>3, <3>2 DEF Accounts!Rows
        <4>2. server' = [server EXCEPT ![id].keys = keys]  BY <3>2
        <4> HIDE DEF keys
        <4> QED  BY <1>y, <2>3, <4>1, <4>2 DEF Accounts!Rows
      <3> QED  BY <2>2, <3>1, <3>2
    <2>5. Accounts!TypeOK'  BY <1>y, <2>1, <2>4 DEF Accounts!TypeOK
    <2>6. Accounts!KeysInv'
      <3>1. \A a \in Managed : server'[a].keys \ Catalogue = server[a].keys \ Catalogue
        BY <2>4 DEF Accounts!Ids
      <3> QED  BY <1>t, <2>1, <3>1 DEF Accounts!KeysInv
    <2> QED  BY <1>t, <2>1, <2>5, <2>6 DEF Accounts!RecordsInv, Accounts!CreatedInv
  <1>13. CASE Accounts!Load
    <2>1. known' = server /\ UNCHANGED <<server, form, asked, held, out, sent, others, past>>
      BY <1>13 DEF Accounts!Load
    <2>2. Accounts!TypeOK'  BY <1>y, <2>1 DEF Accounts!TypeOK
    <2>3. Accounts!KeysInv'  BY <1>t, <2>1 DEF Accounts!KeysInv
    <2> QED  BY <1>t, <2>1, <2>2, <2>3 DEF Accounts!RecordsInv, Accounts!CreatedInv
  <1>14. CASE Accounts!Arrive
    <2>0. PICK r \in out :
      /\ r.reply # None /\ out' = out \ {r}
      /\ IF ~Accounts!Heard(r) THEN UNCHANGED <<form, asked, held>>
         ELSE \/ /\ r.reply.code = "done" /\ Accounts!Close(r.what) /\ UNCHANGED asked
                 /\ held' = IF r.what[1] \in {"reset", "account", "create"}
                             THEN [of |-> r.of, pw |-> r.reply.pw] ELSE held
              \/ /\ r.reply.code = "records" /\ asked' = asked \cup {Accounts!Question("records", r.of)}
                 /\ UNCHANGED <<form, held>>
              \/ r.reply.code = "refused" /\ UNCHANGED <<form, asked, held>>
      BY <1>14 DEF Accounts!Arrive
    <2>1. UNCHANGED <<server, known, sent, others, past>>  BY <1>14 DEF Accounts!Arrive
    <2>2. r.of \in Accounts!Ids /\ r.reply.pw \in Nat  BY <1>y, <2>0 DEF Accounts!Requests, Accounts!Replies
    <2>3. form' = form \/ form' = None  BY <2>0 DEF Accounts!Close
    <2>4. held' \in Accounts!Passwords \cup {None}  BY <1>y, <2>0, <2>2 DEF Accounts!Passwords
    <2>5. \/ asked' = asked
          \/ r.reply.code = "records" /\ asked' = asked \cup {[what |-> "records", of |-> r.of]}
      BY <2>0 DEF Accounts!Question
    <2>6. r.reply.code = "records" => r.of \in ClubIds  BY <1>t, <2>0 DEF Accounts!RecordsInv
    <2>7. \A a \in asked' : /\ a.what = "records" => a.of \in ClubIds
                            /\ a.of \in Accounts!Ids /\ a.what \in {"reset", "disable", "remove", "records", "leave"}
      BY <1>t, <1>y, <2>2, <2>5, <2>6 DEF Accounts!RecordsInv
    <2>8. Accounts!TypeOK'  BY <1>y, <2>0, <2>1, <2>3, <2>4, <2>7 DEF Accounts!TypeOK
    <2>9. Accounts!KeysInv'  BY <1>t, <2>0, <2>1, <2>3 DEF Accounts!KeysInv
    <2>10. Accounts!RecordsInv'  BY <1>t, <2>0, <2>1, <2>7 DEF Accounts!RecordsInv
    <2>11. Accounts!CreatedInv'  BY <1>t, <2>0 DEF Accounts!CreatedInv
    <2> QED  BY <2>8, <2>9, <2>10, <2>11
  <1>15. CASE Accounts!Lose
    <2>1. out' \subseteq out /\ UNCHANGED <<server, known, form, asked, held, sent, others, past>>
      BY <1>15 DEF Accounts!Lose
    <2>2. Accounts!TypeOK'  BY <1>y, <2>1 DEF Accounts!TypeOK
    <2>3. Accounts!KeysInv'  BY <1>t, <2>1 DEF Accounts!KeysInv
    <2> QED  BY <1>t, <2>1, <2>2, <2>3 DEF Accounts!RecordsInv, Accounts!CreatedInv
  <1>16. CASE UNCHANGED Accounts!vars
    BY <1>t, <1>16 DEF Accounts!vars, Accounts!TypeOK, Accounts!KeysInv, Accounts!RecordsInv, Accounts!CreatedInv
  <1> QED
    BY <1>0, <1>1, <1>2, <1>3, <1>4, <1>5, <1>6, <1>7, <1>8, <1>9, <1>10, <1>11, <1>12, <1>13, <1>14, <1>15, <1>16
    DEF Accounts!Next

\* The state of the accounts page is sound for any accounts, keys and bounds.
THEOREM AccountsAreSound == Spec => [](page = "accounts" => Accounts!Inv)
  <1>1. Init => (page = "accounts" => Accounts!Inv)  BY AccountsInit
  <1>2. (page = "accounts" => Accounts!Inv) /\ [Next]_vars => (page = "accounts" => Accounts!Inv)'
    BY AccountsStep, PageStays
  <1> QED  BY <1>1, <1>2, PTL DEF Spec

\* Keys the page does not know of outlive every save of an account's keys, from a list of
\* any age.
THEOREM OutsideKeysAreKept == Spec => []OutsideKeysStay
  <1>1. (page = "accounts" => Accounts!Inv) => OutsideKeysStay
    BY DEF OutsideKeysStay, Accounts!OutsideKeysStay, Accounts!KeysInv
  <1> QED  BY <1>1, AccountsAreSound, PTL

\* A club with records goes only as agreed, and a password that was made is shown.
LEMMA AccountsTell ==
  ASSUME page = "accounts", Accounts!Inv, [Next]_vars
  PROVE  Accounts!NamesRecords /\ Accounts!ShowsCreated
  <1>0. Accounts!AccountsAssumption /\ [Accounts!Next]_(Accounts!vars)
    BY PagesAssumption DEF Next, vars, Accounts!vars
  <1>y. /\ server \in [Accounts!Ids -> Accounts!Rows] /\ out \subseteq Accounts!Requests
        /\ None \notin Accounts!Passwords
    BY <1>0 DEF Accounts!TypeOK, Accounts!AccountsAssumption
  <1>1. Accounts!NamesRecords
    <2> SUFFICES ASSUME NEW c \in ClubIds, server[c].data, server[c].life = "there", server'[c].life = "gone"
                 PROVE  c \in past
      BY DEF Accounts!NamesRecords
    <2>0. c \in Accounts!Ids  BY DEF Accounts!Ids
    <2>1. CASE Accounts!Serve
      <3>1. PICK r \in out : \/ UNCHANGED server
                             \/ /\ Accounts!Possible(r, server[r.of])
                                /\ server' = [server EXCEPT ![r.of] = Accounts!After(r, @)]
        BY <2>1 DEF Accounts!Serve
      <3>2. r \in Accounts!Requests /\ r.of \in Accounts!Ids /\ r.what \in Accounts!Kinds /\ server[r.of] \in Accounts!Rows
        BY <1>y DEF Accounts!Requests
      <3>3. Accounts!Possible(r, server[r.of]) /\ server' = [server EXCEPT ![r.of] = Accounts!After(r, @)]
        BY <3>1
      <3>4. r.of = c /\ server'[c] = Accounts!After(r, server[c])  BY <1>y, <2>0, <3>2, <3>3
      <3>5. r.what[1] = "remove"
        BY <3>2, <3>4 DEF Accounts!After, Accounts!Kinds, Accounts!Rows
      <3>6. r.flag  BY <3>3, <3>4, <3>5 DEF Accounts!Possible
      <3> QED  BY <3>4, <3>5, <3>6 DEF Accounts!RecordsInv
    <2>2. CASE Accounts!Other
      <3>1. PICK id \in Accounts!Ids :
            \/ server' = [server EXCEPT ![id].data = TRUE]
            \/ \E k \in Catalogue : server' = [server EXCEPT ![id].keys = IF k \in @ THEN @ \ {k} ELSE @ \cup {k}]
        BY <2>2 DEF Accounts!Other
      <3>2. server'[c].life = server[c].life  BY <1>y, <2>0, <3>1 DEF Accounts!Rows
      <3> QED  BY <3>2
    <2>3. CASE ~(Accounts!Serve \/ Accounts!Other)
      <3>1. UNCHANGED server
        BY <1>0, <2>3 DEF Accounts!Next, Accounts!vars, Accounts!Press, Accounts!Enable, Accounts!Confirm, Accounts!Decline,
           Accounts!OpenDialog, Accounts!Tick, Accounts!Submit, Accounts!CloseDialog, Accounts!ClosePassword,
           Accounts!Leave, Accounts!Load, Accounts!Arrive, Accounts!Lose
      <3> QED  BY <3>1
    <2> QED  BY <2>1, <2>2, <2>3
  <1>2. Accounts!ShowsCreated
    <2> SUFFICES ASSUME NEW r \in out, r.what[1] \in {"account", "create"}, r.here, r.reply # None, r.reply.code = "done",
                        Accounts!Arrive, r \notin out'
                 PROVE  held' # None /\ held'.of = r.of /\ held'.pw = r.reply.pw
      BY DEF Accounts!ShowsCreated
    <2>1. r \in Accounts!Requests /\ r.what \in {<<"account">>, <<"create">>}
      BY <1>y DEF Accounts!Requests, Accounts!Kinds
    <2>2. Accounts!Heard(r)  BY <2>1 DEF Accounts!CreatedInv, Accounts!Heard
    <2>3. held' = [of |-> r.of, pw |-> r.reply.pw]  BY <2>2 DEF Accounts!Arrive
    <2>4. held' \in Accounts!Passwords  BY <2>1, <2>3 DEF Accounts!Requests, Accounts!Replies, Accounts!Passwords
    <2> QED  BY <1>y, <2>3, <2>4
  <1> QED  BY <1>1, <1>2

\* A club with records is deleted only after a question that names them, and the password
\* made with an account, which is told once, is shown.
THEOREM OfficialsAreTold == Spec => AccountsAreShown
  <1>1. (page = "accounts" => Accounts!Inv) /\ [Next]_vars => (page = "accounts" => Accounts!NamesRecords /\ Accounts!ShowsCreated)
    BY AccountsTell
  <1> QED  BY <1>1, AccountsAreSound, PTL DEF Spec, AccountsAreShown
HIDE DEF Accounts!Inv

(***************************************************************************)
(* The window of an activity's signups.                                    *)
(***************************************************************************)
USE DEF Signups!Inv

\* There is no session yet, and nothing is under way.
LEMMA SignupsInit == ASSUME Init, page = "signups" PROVE Signups!Inv
  <1>0. Signups!SignupAssumption /\ Signups!Init  BY PagesAssumption DEF Init
  <1>1. PICK reg \in [ClubIds -> Signups!Registrations], review \in BOOLEAN, based \in BOOLEAN :
          server = [reg |-> reg, sessions |-> {}, next |-> 1, review |-> review, based |-> based]
    BY <1>0 DEF Signups!Init
  <1>2. Signups!ListsInv
    <2>1. known = [reg |-> reg, sessions |-> {}]  BY <1>0, <1>1 DEF Signups!Init
    <2>2. /\ asked = None /\ held = None /\ form = [now |-> Signups!NoName, used |-> {}]
          /\ sent = 0 /\ others = 0 /\ way = FALSE
      BY <1>0 DEF Signups!Init
    <2>3. /\ server \in [reg: [ClubIds -> Signups!Registrations], sessions: SUBSET Signups!Sessions, next: Nat \ {0},
                          review: BOOLEAN, based: BOOLEAN]
          /\ server.sessions = {}
      BY <1>1
    <2>4. known \in [reg: [ClubIds -> Signups!Registrations], sessions: SUBSET Signups!Sessions]  BY <2>1
    <2>5. form \in [now: SessionNames \cup {Signups!NoName}, used: SUBSET SessionNames]  BY <2>2
    <2> QED  BY <2>2, <2>3, <2>4, <2>5 DEF Signups!ListsInv
  <1>3. Signups!RequestsInv  BY <1>0 DEF Signups!RequestsInv, Signups!Init
  <1>4. Signups!NamesInv  BY <1>0, <1>1 DEF Signups!NamesInv, Signups!Init
  <1> QED  BY <1>2, <1>3, <1>4

\* Taking the mark of a club back or giving it keeps the session what it is.
LEMMA SignupsMark ==
  ASSUME NEW s \in Signups!Sessions, NEW c \in ClubIds, NEW yes \in BOOLEAN, s.yes \cap s.no = {}
  PROVE  LET m == Signups!Mark(s, c, yes) IN
         m \in Signups!Sessions /\ m.id = s.id /\ m.name = s.name /\ m.yes \cap m.no = {}
  <1>1. CASE yes  BY <1>1 DEF Signups!Mark, Signups!Sessions
  <1>2. CASE ~yes  BY <1>2 DEF Signups!Mark, Signups!Sessions
  <1> QED  BY <1>1, <1>2

\* Whatever a request asks for, the server keeps the sessions apart, and at most one where
\* they are not kept by hand.
LEMMA SignupsHandle ==
  ASSUME Signups!SignupAssumption, Signups!Inv, NEW r \in Signups!Requests, Signups!Sound(r),
         r \in out \/ (r.by = "other" /\ r.step = "sent"),
         Signups!Handle(r), UNCHANGED <<known, asked, held, form, way>>, sent' \in Nat, others' \in Nat
  PROVE  Signups!Inv'
  <1>t. Signups!ListsInv /\ Signups!RequestsInv /\ Signups!NamesInv
    OBVIOUS
  <1>y. /\ server \in [reg: [ClubIds -> Signups!Registrations], sessions: SUBSET Signups!Sessions, next: Nat \ {0},
                       review: BOOLEAN, based: BOOLEAN]
        /\ server.reg \in [ClubIds -> Signups!Registrations] /\ server.sessions \subseteq Signups!Sessions
        /\ server.next \in Nat \ {0} /\ server.based \in BOOLEAN
        /\ \A s \in server.sessions : s.id < server.next /\ s.yes \cap s.no = {}
        /\ \A s, t \in server.sessions : s.id = t.id => s = t
    BY <1>t DEF Signups!ListsInv
  <1>r. /\ out \subseteq Signups!Requests /\ \A q \in out : Signups!Sound(q)
        /\ \A q, p \in out : q.step = "held" /\ p.step = "held" => q = p
        /\ \A q, p \in out : q.op = "session" /\ p.op = "session" => q = p
    BY <1>t DEF Signups!RequestsInv
  <1>s. r.step \in {"sent", "looked", "held"}  BY DEF Signups!Handle
  \* What is to be shown of the lists, of the requests and of the names.
  <1>lists. ASSUME server' \in [reg: [ClubIds -> Signups!Registrations], sessions: SUBSET Signups!Sessions, next: Nat \ {0},
                                review: BOOLEAN, based: BOOLEAN],
                   \A s \in server'.sessions : s.id < server'.next /\ s.yes \cap s.no = {},
                   \A s, t \in server'.sessions : s.id = t.id => s = t
            PROVE  Signups!ListsInv'
    BY <1>t, <1>lists DEF Signups!ListsInv
  <1>requests. ASSUME NEW new \in Signups!Requests, new.op = r.op, server'.based = server.based,
                      out' \subseteq (out \ {r}) \cup {new}, Signups!Sound(new)',
                      \A q \in out : q.step = "held" /\ q # r /\ q.found = 0 => server'.sessions = {},
                      new.step = "held" => \A q \in out \ {r} : q.step # "held"
               PROVE  Signups!RequestsInv'
    <2>1. \A q \in out \ {r} : Signups!Sound(q)'
      BY <1>r, <1>requests DEF Signups!Sound
    <2>2. r.op = "session" => r \in out  BY DEF Signups!Sound
    <2>3. \A q, p \in out' : q.step = "held" /\ p.step = "held" => q = p  BY <1>r, <1>requests
    <2>4. \A q, p \in out' : q.op = "session" /\ p.op = "session" => q = p  BY <1>r, <1>requests, <2>2
    <2> QED  BY <1>r, <1>requests, <2>1, <2>3, <2>4 DEF Signups!RequestsInv
  <1>names. ASSUME server'.based = server.based, out \ {r} \subseteq out',
                   \A s \in server'.sessions : \E t \in server.sessions : s.id = t.id /\ s.name = t.name,
                   \A s, t \in server'.sessions : s.id = t.id => s = t
            PROVE  Signups!NamesInv'
    <2>1. ~server.based => \A s, t \in server'.sessions : s = t
      BY <1>t, <1>names DEF Signups!NamesInv
    <2>2. \A s \in server'.sessions : s.name \in form.used \cup {Signups!NoName}
      BY <1>t, <1>names DEF Signups!NamesInv
    <2>3. ~way => \A s, t \in server'.sessions : s.name # Signups!NoName /\ s.name = t.name => s = t
      BY <1>t, <1>names DEF Signups!NamesInv
    <2>4. ~way => \A s \in server'.sessions : s.name # Signups!NoName /\ s.name = form.now
                    => \E q \in out' : q.op = "session" /\ q.step = "done"
      BY <1>t, <1>s, <1>names DEF Signups!NamesInv
    <2> QED  BY <1>t, <1>names, <2>1, <2>2, <2>3, <2>4 DEF Signups!NamesInv
  \* A step that leaves the sessions alone.
  <1>same. ASSUME server'.sessions = server.sessions, server'.based = server.based,
                  server'.next = server.next,
                  server' \in [reg: [ClubIds -> Signups!Registrations], sessions: SUBSET Signups!Sessions, next: Nat \ {0},
                               review: BOOLEAN, based: BOOLEAN],
                  NEW step \in {"looked", "done", "refused"}, Signups!To(r, step),
                  step = "looked" => r.op = "mark", r.op = "session" => step = "done"
           PROVE  Signups!Inv'
    <2> DEFINE new == [r EXCEPT !.step = step]
    <2>1. /\ new \in Signups!Requests /\ new.op = r.op /\ new.step = step /\ new.by = r.by /\ new.club = r.club
          /\ new.session = r.session /\ new.name = r.name
      BY DEF Signups!Requests
    <2>2. out' \subseteq (out \ {r}) \cup {new} /\ out \ {r} \subseteq out'  BY <1>same DEF Signups!To
    <2> HIDE DEF new
    <2>3. Signups!Sound(new)'  BY <1>same, <2>1 DEF Signups!Sound
    <2>4. \A q \in out : q.step = "held" /\ q # r /\ q.found = 0 => server'.sessions = {}
      BY <1>r, <1>same DEF Signups!Sound
    <2>5. Signups!RequestsInv'  BY <1>same, <1>requests, <2>1, <2>2, <2>3, <2>4
    <2>6. Signups!ListsInv'  BY <1>y, <1>same, <1>lists
    <2>7. Signups!NamesInv'  BY <1>y, <1>same, <1>names, <2>2
    <2> QED  BY <2>5, <2>6, <2>7
  <1>refused. ASSUME Signups!Refused(r), r.op # "session" PROVE Signups!Inv'
    BY <1>y, <1>same, <1>refused DEF Signups!Refused
  \* One club's place on the list changes.
  <1>listed. ASSUME NEW c \in ClubIds, NEW place \in Signups!Registrations, server' = [server EXCEPT !.reg[c] = place],
                    Signups!To(r, "done")
             PROVE  Signups!Inv'
    <2>1. [server.reg EXCEPT ![c] = place] \in [ClubIds -> Signups!Registrations]  BY <1>y
    <2>2. server' = [server EXCEPT !.reg = [server.reg EXCEPT ![c] = place]]  BY <1>listed
    <2>3. /\ server' \in [reg: [ClubIds -> Signups!Registrations], sessions: SUBSET Signups!Sessions, next: Nat \ {0},
                         review: BOOLEAN, based: BOOLEAN]
          /\ server'.sessions = server.sessions /\ server'.based = server.based /\ server'.next = server.next
      BY <1>y, <2>1, <2>2
    <2> QED  BY <1>same, <1>listed, <2>3
  <1>1. CASE r.step = "sent" /\ (Signups!WalkIn(r) \/ Signups!SubmitSignup(r) \/ Signups!Remove(r) \/ Signups!Confirm(r))
    <2>1. r.club \in ClubIds /\ r.op # "session"
      BY <1>1 DEF Signups!Sound, Signups!WalkIn, Signups!SubmitSignup, Signups!Remove, Signups!Confirm
    <2>2. \/ Signups!Refused(r)
          \/ /\ Signups!To(r, "done")
             /\ \E place \in Signups!Registrations : server' = [server EXCEPT !.reg[r.club] = place]
      BY <1>1 DEF Signups!WalkIn, Signups!SubmitSignup, Signups!Remove, Signups!Confirm, Signups!Registrations
    <2> QED  BY <1>refused, <1>listed, <2>1, <2>2
  <1>2. CASE r.step = "sent" /\ Signups!CreateSession(r)
    <2> DEFINE s == Signups!Session(server.next, r.name)
               new == [r EXCEPT !.step = "done"]
    <2>1. r.op = "session" /\ Signups!Adding(s) /\ Signups!To(r, "done")  BY <1>2 DEF Signups!CreateSession
    <2>2. /\ r.by = "us" /\ server.based /\ r.name = form.now /\ r.name \in SessionNames /\ r \in out
      BY <2>1 DEF Signups!Sound
    <2>3. s \in Signups!Sessions /\ s.id = server.next /\ s.name = r.name /\ s.yes = {} /\ s.no = {}
      BY <1>y, <2>2 DEF Signups!Session, Signups!Sessions
    <2> HIDE DEF s
    <2>4. server' = [server EXCEPT !.sessions = server.sessions \cup {s}, !.next = server.next + 1]
      BY <2>1 DEF Signups!Adding
    <2>5. server.next + 1 \in Nat \ {0} /\ server.sessions \cup {s} \subseteq Signups!Sessions  BY <1>y, <2>3
    <2>6. /\ server' \in [reg: [ClubIds -> Signups!Registrations], sessions: SUBSET Signups!Sessions, next: Nat \ {0},
                         review: BOOLEAN, based: BOOLEAN]
          /\ server'.sessions = server.sessions \cup {s} /\ server'.next = server.next + 1 /\ server'.based = server.based
      BY <1>y, <2>4, <2>5
    <2>7. /\ \A x \in server'.sessions : x.id < server'.next /\ x.yes \cap x.no = {}
          /\ \A x, y \in server'.sessions : x.id = y.id => x = y
      <3>1. \A x \in server.sessions : x.id \in Nat /\ x.id < server.next  BY <1>y DEF Signups!Sessions
      <3> QED  BY <1>y, <2>3, <2>6, <3>1
    <2>8. Signups!ListsInv'  BY <1>lists, <2>6, <2>7
    <2>9. /\ new \in Signups!Requests /\ new.op = r.op /\ new.step = "done" /\ new.by = r.by /\ new.name = r.name
          /\ new.club = r.club /\ new.session = r.session
      BY DEF Signups!Requests
    <2>10. out' = (out \ {r}) \cup {new}  BY <2>1, <2>2 DEF Signups!To
    <2> HIDE DEF new
    <2>11. Signups!RequestsInv'
      <3>1. Signups!Sound(new)'  BY <2>1, <2>2, <2>6, <2>9 DEF Signups!Sound
      <3>2. \A q \in out : q.step # "held"  BY <1>r, <2>2 DEF Signups!Sound
      <3> QED  BY <1>requests, <2>6, <2>9, <2>10, <3>1, <3>2
    <2>12. Signups!NamesInv'
      <3>1. \A x \in server'.sessions : x.name \in form.used \cup {Signups!NoName}
        BY <1>t, <2>2, <2>3, <2>6 DEF Signups!NamesInv
      <3>2. ~way => \A x \in server.sessions : x.name # r.name
        <4>1. \A q \in out : q.op = "session" => q = r  BY <1>r, <2>1, <2>2
        <4>2. r.name # Signups!NoName  BY <2>2 DEF Signups!SignupAssumption
        <4> QED  BY <1>t, <1>2, <2>2, <4>1, <4>2 DEF Signups!NamesInv
      <3>3. ~way => \A x, y \in server'.sessions : x.name # Signups!NoName /\ x.name = y.name => x = y
        BY <1>t, <2>3, <2>6, <3>2 DEF Signups!NamesInv
      <3>4. \E q \in out' : q.op = "session" /\ q.step = "done"  BY <2>1, <2>9, <2>10
      <3> QED  BY <1>t, <2>2, <2>6, <3>1, <3>3, <3>4 DEF Signups!NamesInv
    <2> QED  BY <2>8, <2>11, <2>12
  <1>3. CASE r.step = "sent" /\ Signups!DeleteSession(r)
    <2> DEFINE gone == {s \in server.sessions : s.id = r.session}
               new == [r EXCEPT !.step = "done"]
    <2>0. r.op = "drop"  BY <1>3 DEF Signups!DeleteSession
    <2>1. CASE gone = {}  BY <1>3, <1>refused, <2>0, <2>1 DEF Signups!DeleteSession
    <2>2. CASE gone # {}
      <3>1. server' = [server EXCEPT !.sessions = @ \ gone] /\ Signups!To(r, "done")
        BY <1>3, <2>2 DEF Signups!DeleteSession
      <3>2. /\ server' \in [reg: [ClubIds -> Signups!Registrations], sessions: SUBSET Signups!Sessions, next: Nat \ {0},
                           review: BOOLEAN, based: BOOLEAN]
            /\ server'.sessions = server.sessions \ gone /\ server'.next = server.next /\ server'.based = server.based
        BY <1>y, <3>1
      <3> HIDE DEF gone
      <3>3. Signups!ListsInv'  BY <1>y, <1>lists, <3>2
      <3>4. new \in Signups!Requests /\ new.op = r.op /\ new.step = "done"
        BY DEF Signups!Requests
      <3>5. out' \subseteq (out \ {r}) \cup {new} /\ out \ {r} \subseteq out'  BY <3>1 DEF Signups!To
      <3> HIDE DEF new
      <3>6. Signups!RequestsInv'
        <4>1. Signups!Sound(new)'  BY <2>0, <3>4 DEF Signups!Sound
        <4>2. \A q \in out : q.step = "held" /\ q.found = 0 => server'.sessions = {}
          BY <1>r, <3>2 DEF Signups!Sound
        <4> QED  BY <1>requests, <3>2, <3>4, <3>5, <4>1, <4>2
      <3>7. Signups!NamesInv'  BY <1>y, <1>names, <3>2, <3>5
      <3> QED  BY <3>3, <3>6, <3>7
    <2> QED  BY <2>1, <2>2
  <1>4. CASE r.step = "sent" /\ Signups!LookForMark(r)
    <2>1. r.op = "mark" /\ (Signups!Refused(r) \/ (Signups!To(r, "looked") /\ UNCHANGED server))
      BY <1>4 DEF Signups!LookForMark
    <2> QED  BY <1>y, <1>refused, <1>same, <2>1
  <1>5. CASE r.step = "looked" /\ r.session = 0 /\ Signups!HoldSession(r)
    <2> DEFINE first == (CHOOSE s \in server.sessions : \A t \in server.sessions : s.id <= t.id).id
    <2>0. /\ r.op = "mark" /\ r \in out /\ ~server.based /\ \A q \in out : q.step # "held"
          /\ UNCHANGED server
      BY <1>5 DEF Signups!HoldSession, Signups!ItemLockFree, Signups!Sound
    <2>1. ASSUME NEW found \in Nat, found = 0 => server.sessions = {},
                 out' = (out \ {r}) \cup {[r EXCEPT !.step = "held", !.found = found]}
          PROVE  Signups!RequestsInv'
      <3> DEFINE new == [r EXCEPT !.step = "held", !.found = found]
      <3>1. /\ new \in Signups!Requests /\ new.op = r.op /\ new.step = "held" /\ new.found = found /\ new.club = r.club
            /\ new.session = r.session
        BY DEF Signups!Requests
      <3>2. out' = (out \ {r}) \cup {new}  BY <2>1
      <3> HIDE DEF new
      <3>3. Signups!Sound(new)'  BY <1>5, <2>0, <2>1, <3>1 DEF Signups!Sound
      <3> QED  BY <1>requests, <2>0, <3>1, <3>2, <3>3
    <2> DEFINE got == IF server.sessions = {} THEN 0 ELSE first
    <2>2. out' = (out \ {r}) \cup {[r EXCEPT !.step = "held", !.found = got]}
      BY <1>5, Zenon DEF Signups!HoldSession
    <2>3. Signups!RequestsInv'
      <3>1. CASE server.sessions = {}
        <4>1. got = 0  BY <3>1
        <4> HIDE DEF got
        <4> QED  BY <2>1, <2>2, <3>1, <4>1
      <3>2. CASE server.sessions # {}
        <4>1. PICK s \in server.sessions : TRUE  BY <3>2
        <4>2. server.sessions = {s}  BY <1>t, <2>0, <4>1 DEF Signups!NamesInv
        <4>3. s.id \in Nat /\ s.id # 0  BY <1>y, <4>1 DEF Signups!Sessions
        <4>4. first = s.id
          <5> DEFINE least == CHOOSE x \in server.sessions : \A t \in server.sessions : x.id <= t.id
          <5>1. \A k \in Nat : k <= k  OBVIOUS
          <5>2. s.id <= s.id  BY <4>3, <5>1
          <5>3. \E x \in server.sessions : \A t \in server.sessions : x.id <= t.id  BY <4>2, <5>2
          <5>4. least \in server.sessions  BY <5>3
          <5> HIDE DEF least
          <5>5. least = s  BY <4>2, <5>4
          <5> QED  BY <5>5 DEF least
        <4> HIDE DEF first
        <4>5. got \in Nat /\ got # 0  BY <3>2, <4>3, <4>4
        <4> HIDE DEF got
        <4> QED  BY <2>1, <2>2, <4>5
      <3> QED  BY <3>1, <3>2
    <2>4. out \ {r} \subseteq out'  BY <2>2
    <2>5. Signups!ListsInv'  BY <1>y, <1>lists, <2>0
    <2>6. Signups!NamesInv'  BY <1>y, <1>names, <2>0, <2>4
    <2> QED  BY <2>3, <2>5, <2>6
  <1>6. CASE (r.step = "held" \/ (r.step = "looked" /\ r.session # 0)) /\ Signups!WriteMark(r)
    <2> DEFINE id == IF r.session # 0 THEN r.session ELSE r.found
               there == {s \in server.sessions : s.id = id}
    <2>0. r.op = "mark" /\ r.club \in ClubIds /\ r.value \in BOOLEAN /\ r \in out
      BY <1>6 DEF Signups!WriteMark, Signups!Sound, Signups!Requests
    <2>h. \A q \in out : q.step = "held" => q = r
      BY <1>6, <1>r, <2>0 DEF Signups!Sound
    <2>1. CASE id = 0
      <3> DEFINE s == Signups!Mark(Signups!Session(server.next, Signups!NoName), r.club, r.value)
      <3>1. Signups!Adding(s) /\ Signups!To(r, "done")  BY <1>6, <2>1 DEF Signups!WriteMark
      <3>2. s \in Signups!Sessions /\ s.id = server.next /\ s.name = Signups!NoName /\ s.yes \cap s.no = {}
        <4> DEFINE empty == Signups!Session(server.next, Signups!NoName)
        <4>1. empty \in Signups!Sessions /\ empty.id = server.next /\ empty.name = Signups!NoName /\ empty.yes \cap empty.no = {}
          BY <1>y DEF Signups!Session, Signups!Sessions
        <4> HIDE DEF empty
        <4>2. s = Signups!Mark(empty, r.club, r.value)  BY DEF empty
        <4> QED  BY <2>0, <4>1, <4>2, SignupsMark
      <3> HIDE DEF s
      <3>3. server.sessions = {} /\ ~server.based
        BY <1>6, <2>1 DEF Signups!Sound
      <3>4. server' = [server EXCEPT !.sessions = server.sessions \cup {s}, !.next = server.next + 1]
        BY <3>1 DEF Signups!Adding
      <3>5. server.next + 1 \in Nat \ {0} /\ server.next < server.next + 1 /\ server.sessions \cup {s} \subseteq Signups!Sessions
        BY <1>y, <3>2
      <3>6. /\ server' \in [reg: [ClubIds -> Signups!Registrations], sessions: SUBSET Signups!Sessions, next: Nat \ {0},
                           review: BOOLEAN, based: BOOLEAN]
            /\ server'.sessions = {s} /\ server'.next = server.next + 1 /\ server'.based = server.based
        BY <1>y, <3>3, <3>4, <3>5
      <3>7. Signups!ListsInv'  BY <1>lists, <3>2, <3>5, <3>6
      <3> DEFINE new == [r EXCEPT !.step = "done"]
      <3>8. new \in Signups!Requests /\ new.op = r.op /\ new.step = "done" /\ new.club = r.club /\ new.session = r.session
        BY DEF Signups!Requests
      <3>9. out' \subseteq (out \ {r}) \cup {new}  BY <3>1 DEF Signups!To
      <3> HIDE DEF new
      <3>10. Signups!RequestsInv'
        <4>1. Signups!Sound(new)'  BY <2>0, <3>6, <3>8 DEF Signups!Sound
        <4> QED  BY <1>requests, <2>h, <3>6, <3>8, <3>9, <4>1
      <3>11. Signups!NamesInv'  BY <1>t, <3>2, <3>3, <3>6 DEF Signups!NamesInv
      <3> QED  BY <3>7, <3>10, <3>11
    <2>2. CASE id # 0 /\ there = {}  BY <1>6, <1>refused, <2>0, <2>2 DEF Signups!WriteMark
    <2>3. CASE id # 0 /\ there # {}
      <3> DEFINE marked == {Signups!Mark(s, r.club, r.value) : s \in there}
      <3>1. /\ server' = [server EXCEPT !.sessions = (@ \ there) \cup marked]
            /\ Signups!To(r, "done")
        BY <1>6, <2>3 DEF Signups!WriteMark
      <3>2. \A s \in there : s \in Signups!Sessions /\ s \in server.sessions /\ s.yes \cap s.no = {} /\ s.id = id  BY <1>y
      <3>3. \A m \in marked : /\ m \in Signups!Sessions /\ m.yes \cap m.no = {} /\ m.id = id
                              /\ \E s \in there : m.name = s.name /\ m = Signups!Mark(s, r.club, r.value)
        BY <2>0, <3>2, SignupsMark
      <3>4. \A m, n \in marked : m = n  BY <1>y, <3>2, <3>3
      <3>5. \A s \in server.sessions \ there : s.id # id  OBVIOUS
      <3> HIDE DEF marked, there
      <3>6. there \subseteq server.sessions  BY DEF there
      <3>7. (server.sessions \ there) \cup marked \subseteq Signups!Sessions  BY <1>y, <3>3
      <3>8. /\ server' \in [reg: [ClubIds -> Signups!Registrations], sessions: SUBSET Signups!Sessions, next: Nat \ {0},
                           review: BOOLEAN, based: BOOLEAN]
            /\ server'.sessions = (server.sessions \ there) \cup marked
            /\ server'.next = server.next /\ server'.based = server.based
        BY <1>y, <3>1, <3>7
      <3>9. \A s \in server'.sessions : \E t \in server.sessions : s.id = t.id /\ s.name = t.name
        BY <3>2, <3>3, <3>8
      <3>10. \A s, t \in server'.sessions : s.id = t.id => s = t
        BY <1>y, <3>3, <3>4, <3>5, <3>8
      <3>11. Signups!ListsInv'
        <4>1. \A s \in server'.sessions : s.id < server'.next /\ s.yes \cap s.no = {}
          BY <1>y, <3>3, <3>8, <3>9
        <4> QED  BY <1>lists, <3>8, <3>10, <4>1
      <3> DEFINE new == [r EXCEPT !.step = "done"]
      <3>12. new \in Signups!Requests /\ new.op = r.op /\ new.step = "done" /\ new.club = r.club /\ new.session = r.session
        BY DEF Signups!Requests
      <3>13. out' \subseteq (out \ {r}) \cup {new} /\ out \ {r} \subseteq out'  BY <3>1 DEF Signups!To
      <3> HIDE DEF new
      <3>14. Signups!RequestsInv'
        <4>1. Signups!Sound(new)'  BY <2>0, <3>8, <3>12 DEF Signups!Sound
        <4> QED  BY <1>requests, <2>h, <3>8, <3>12, <3>13, <4>1
      <3>15. Signups!NamesInv'  BY <1>names, <3>8, <3>9, <3>10, <3>13
      <3> QED  BY <3>11, <3>14, <3>15
    <2> QED  BY <2>1, <2>2, <2>3
  <1> QED  BY <1>1, <1>2, <1>3, <1>4, <1>5, <1>6 DEF Signups!Handle

\* What others ask for is sound: a mark of theirs names a session only where sessions are
\* kept by hand.
LEMMA SignupsOthers ==
  ASSUME Signups!ListsInv, Signups!Other
  PROVE  \E r \in Signups!Requests : Signups!Handle(r) /\ Signups!Sound(r) /\ r.by = "other" /\ r.step = "sent"
  <1>1. others \in Nat /\ \A s \in server.sessions : s.id \in Nat /\ s.id # 0
    BY DEF Signups!ListsInv, Signups!Sessions
  <1> DEFINE R(op, c, n, v) == Signups!Request(op, "other", c, n, v)
  <1>2. ASSUME NEW op \in {"walkin", "remove", "confirm", "submit", "mark", "drop"}, NEW c \in ClubIds \cup {None},
               NEW n \in Nat, NEW v \in BOOLEAN
        PROVE  /\ R(op, c, n, v) \in Signups!Requests
               /\ R(op, c, n, v).op = op /\ R(op, c, n, v).club = c /\ R(op, c, n, v).session = n
               /\ R(op, c, n, v).by = "other" /\ R(op, c, n, v).step = "sent"
    BY <1>1 DEF Signups!Request, Signups!Requests
  <1>3. ASSUME NEW op \in {"walkin", "remove", "confirm", "submit", "mark", "drop"}, NEW c \in ClubIds \cup {None},
               NEW n \in Nat, NEW v \in BOOLEAN, Signups!Handle(R(op, c, n, v)),
               op # "drop" => c \in ClubIds, op = "mark" => (n = 0 <=> ~server.based)
        PROVE  \E r \in Signups!Requests : Signups!Handle(r) /\ Signups!Sound(r) /\ r.by = "other" /\ r.step = "sent"
    <2> DEFINE r == R(op, c, n, v)
    <2>1. /\ r \in Signups!Requests /\ r.op = op /\ r.club = c /\ r.session = n
          /\ r.by = "other" /\ r.step = "sent" /\ Signups!Handle(r)
      BY <1>2, <1>3
    <2> HIDE DEF r
    <2>2. Signups!Sound(r)  BY <1>3, <2>1 DEF Signups!Sound
    <2> QED  BY <2>1, <2>2
  <1> HIDE DEF R
  <1>4. CASE \E op \in {"walkin", "remove", "confirm", "submit"}, c \in ClubIds : Signups!Asked(op, c, 0, TRUE)
    <2>1. PICK op \in {"walkin", "remove", "confirm", "submit"}, c \in ClubIds : Signups!Asked(op, c, 0, TRUE)  BY <1>4
    <2>2. Signups!Handle(R(op, c, 0, TRUE))  BY <2>1 DEF R, Signups!Asked
    <2> QED  BY <1>3, <2>1, <2>2
  <1>5. CASE \E c \in ClubIds, v \in BOOLEAN, n \in IF server.based THEN {s.id : s \in server.sessions} ELSE {0} :
               Signups!Asked("mark", c, n, v)
    <2>1. PICK c \in ClubIds, v \in BOOLEAN, n \in IF server.based THEN {s.id : s \in server.sessions} ELSE {0} :
            Signups!Asked("mark", c, n, v)
      BY <1>5
    <2>2. n \in Nat /\ (n = 0 <=> ~server.based)  BY <1>1, <2>1
    <2>3. Signups!Handle(R("mark", c, n, v))  BY <2>1 DEF R, Signups!Asked
    <2> QED  BY <1>3, <2>1, <2>2, <2>3
  <1>6. CASE \E s \in server.sessions : server.based /\ Signups!Asked("drop", None, s.id, TRUE)
    <2>1. PICK s \in server.sessions : Signups!Asked("drop", None, s.id, TRUE)  BY <1>6
    <2>2. Signups!Handle(R("drop", None, s.id, TRUE))  BY <2>1 DEF R, Signups!Asked
    <2> QED  BY <1>1, <1>3, <2>1, <2>2
  <1> QED  BY <1>4, <1>5, <1>6 DEF Signups!Other

\* Every step keeps the state of the signup window sound: one request at most holds the lock,
\* which finds no session only where there is none, and a name in the field is sent by one request at a time.
LEMMA SignupsStep ==
  ASSUME page = "signups", Signups!Inv, [Next]_vars
  PROVE  Signups!Inv'
  <1>0. Signups!SignupAssumption /\ [Signups!Next]_(Signups!vars)
    BY PagesAssumption DEF Next, vars, Signups!vars
  <1>t. Signups!ListsInv /\ Signups!RequestsInv /\ Signups!NamesInv
    OBVIOUS
  <1>y. /\ server \in [reg: [ClubIds -> Signups!Registrations], sessions: SUBSET Signups!Sessions, next: Nat \ {0},
                       review: BOOLEAN, based: BOOLEAN]
        /\ server.sessions \subseteq Signups!Sessions /\ known.sessions \subseteq Signups!Sessions
        /\ known \in [reg: [ClubIds -> Signups!Registrations], sessions: SUBSET Signups!Sessions]
        /\ form \in [now: SessionNames \cup {Signups!NoName}, used: SUBSET SessionNames]
        /\ sent \in Nat /\ others \in Nat /\ server.based \in BOOLEAN
    BY <1>t DEF Signups!ListsInv
  <1>r. /\ out \subseteq Signups!Requests /\ \A q \in out : Signups!Sound(q)
        /\ \A q, p \in out : q.step = "held" /\ p.step = "held" => q = p
        /\ \A q, p \in out : q.op = "session" /\ p.op = "session" => q = p
    BY <1>t DEF Signups!RequestsInv
  \* A request of the window joins those on their way.
  <1>send. ASSUME NEW r \in Signups!Requests, Signups!Send(r), UNCHANGED <<server, known, held, form, others, way>>,
                  Signups!Sound(r), r.step = "sent", r.op = "session" => ~Signups!Pending("session"),
                  asked' = asked \/ asked' = None
           PROVE  Signups!Inv'
    <2>1. out' = out \cup {r} /\ sent' \in Nat  BY <1>y, <1>send DEF Signups!Send
    <2>2. Signups!ListsInv'  BY <1>t, <1>send, <2>1 DEF Signups!ListsInv
    <2>3. \A q \in out' : Signups!Sound(q)'
      BY <1>r, <1>send, <2>1 DEF Signups!Sound
    <2>4. r.op = "session" => \A q \in out : q.op # "session"
      BY <1>r, <1>send DEF Signups!Pending, Signups!Sound
    <2>5. Signups!RequestsInv'
      <3>1. \A q, p \in out' : q.op = "session" /\ p.op = "session" => q = p  BY <1>r, <2>1, <2>4
      <3>2. \A q, p \in out' : q.step = "held" /\ p.step = "held" => q = p  BY <1>r, <1>send, <2>1
      <3> QED  BY <1>r, <2>1, <2>3, <3>1, <3>2 DEF Signups!RequestsInv
    <2>6. Signups!NamesInv'  BY <1>t, <1>send, <2>1 DEF Signups!NamesInv
    <2> QED  BY <2>2, <2>5, <2>6
  \* A step of the window that sends nothing.
  <1>quiet. ASSUME UNCHANGED <<server, form, out, sent, others, way>>,
                   known' \in [reg: [ClubIds -> Signups!Registrations], sessions: SUBSET Signups!Sessions],
                   asked' # None => asked'.of \in IF asked'.what = "remove" THEN ClubIds ELSE Nat,
                   held' \in ClubIds \cup {None}
            PROVE  Signups!Inv'
    <2>1. Signups!ListsInv'  BY <1>t, <1>quiet DEF Signups!ListsInv
    <2>2. Signups!RequestsInv'  BY <1>r, <1>quiet DEF Signups!RequestsInv, Signups!Sound
    <2>3. Signups!NamesInv'  BY <1>t, <1>quiet DEF Signups!NamesInv
    <2> QED  BY <2>1, <2>2, <2>3
  <1>1. CASE Signups!PickWalkIn
    <2>1. held' \in ClubIds \cup {None} /\ UNCHANGED <<server, known, asked, form, out, sent, others, way>>
      BY <1>1 DEF Signups!PickWalkIn, Signups!Addable
    <2> QED  BY <1>t, <1>y, <1>quiet, <2>1 DEF Signups!ListsInv
  <1>2. CASE Signups!AddWalkIn
    <2> DEFINE r == Signups!Request("walkin", "us", Signups!WalkInClub, 0, TRUE)
    <2>1. Signups!Send(r) /\ Signups!WalkInClub # None /\ UNCHANGED <<server, known, asked, held, form, others, way>>
      BY <1>2 DEF Signups!AddWalkIn, Signups!window
    <2>2. Signups!WalkInClub \in ClubIds  BY <2>1 DEF Signups!WalkInClub, Signups!Addable
    <2>3. r \in Signups!Requests /\ r.step = "sent" /\ r.op = "walkin" /\ r.club \in ClubIds
      BY <1>y, <2>2 DEF Signups!Request, Signups!Requests
    <2> HIDE DEF r
    <2> QED  BY <1>send, <2>1, <2>3 DEF Signups!Sound
  <1>3. CASE Signups!ConfirmClub
    <2>1. PICK c \in ClubIds : Signups!Send(Signups!Request("confirm", "us", c, 0, TRUE))
      BY <1>3 DEF Signups!ConfirmClub
    <2>2. UNCHANGED <<server, known, asked, held, form, others, way>>
      BY <1>3 DEF Signups!ConfirmClub, Signups!window
    <2> DEFINE r == Signups!Request("confirm", "us", c, 0, TRUE)
    <2>3. r \in Signups!Requests /\ r.step = "sent" /\ r.op = "confirm" /\ r.club \in ClubIds
      BY <1>y DEF Signups!Request, Signups!Requests
    <2>4. Signups!Send(r)  BY <2>1
    <2> HIDE DEF r
    <2> QED  BY <1>send, <2>2, <2>3, <2>4 DEF Signups!Sound
  <1>4. CASE Signups!MarkClub
    <2>1. UNCHANGED <<server, known, asked, held, form, others, way>>
      BY <1>4 DEF Signups!MarkClub, Signups!window
    <2>2. \A s \in known.sessions : s.id \in Nat /\ s.id # 0  BY <1>y DEF Signups!Sessions
    <2>3. PICK c \in ClubIds, n \in Nat, v \in BOOLEAN :
            Signups!Send(Signups!Request("mark", "us", c, n, v)) /\ (n = 0 <=> ~server.based)
      BY <1>4, <2>2 DEF Signups!MarkClub
    <2> DEFINE r == Signups!Request("mark", "us", c, n, v)
    <2>4. r \in Signups!Requests /\ r.step = "sent" /\ r.op = "mark" /\ r.club \in ClubIds /\ r.session = n
      BY <1>y DEF Signups!Request, Signups!Requests
    <2>5. Signups!Send(r)  BY <2>3
    <2> HIDE DEF r
    <2> QED  BY <1>send, <2>1, <2>3, <2>4, <2>5 DEF Signups!Sound
  <1>5. CASE Signups!TypeName
    <2>1. /\ server.based /\ form.now = Signups!NoName
          /\ UNCHANGED <<server, known, asked, held, out, sent, others, way>>
      BY <1>5 DEF Signups!TypeName
    <2>2. PICK n \in SessionNames \ form.used : form' = [now |-> n, used |-> form.used \cup {n}]
      BY <1>5 DEF Signups!TypeName
    <2>3. Signups!ListsInv'
      <3>1. form' \in [now: SessionNames \cup {Signups!NoName}, used: SUBSET SessionNames]  BY <1>y, <2>2
      <3> QED  BY <1>t, <2>1, <3>1 DEF Signups!ListsInv
    <2>4. \A q \in out : q.op # "session"
      BY <1>0, <1>r, <2>1 DEF Signups!Sound, Signups!SignupAssumption
    <2>5. Signups!RequestsInv'  BY <1>r, <2>1, <2>4 DEF Signups!RequestsInv, Signups!Sound
    <2>6. \A s \in server.sessions : s.name # n
      BY <1>0, <1>t, <2>2 DEF Signups!NamesInv, Signups!SignupAssumption
    <2>7. Signups!NamesInv'
      BY <1>t, <2>1, <2>2, <2>6 DEF Signups!NamesInv
    <2> QED  BY <2>3, <2>5, <2>7
  <1>6. CASE Signups!AddSession
    <2> DEFINE r == [Signups!Request("session", "us", None, 0, TRUE) EXCEPT !.name = form.now]
    <2>1. /\ form.now # Signups!NoName /\ ~Signups!Pending("session") /\ Signups!Send(r)
          /\ UNCHANGED <<server, known, asked, held, form, others, way>>
      BY <1>6 DEF Signups!AddSession, Signups!CanAdd, Signups!window
    <2>2. /\ r \in Signups!Requests /\ r.step = "sent" /\ r.op = "session" /\ r.by = "us" /\ r.name = form.now
      BY <1>y DEF Signups!Request, Signups!Requests
    <2> HIDE DEF r
    <2>3. Signups!Sound(r)  BY <1>t, <1>y, <2>1, <2>2 DEF Signups!Sound, Signups!NamesInv
    <2> QED  BY <1>send, <2>1, <2>2, <2>3
  <1>7. CASE Signups!AskAway
    <2>1. /\ UNCHANGED <<server, known, held, form, out, sent, others, way>>
          /\ \/ \E c \in ClubIds : asked' = [what |-> "remove", of |-> c]
             \/ \E s \in known.sessions : asked' = [what |-> "drop", of |-> s.id]
      BY <1>7 DEF Signups!AskAway
    <2>2. \A s \in known.sessions : s.id \in Nat  BY <1>y DEF Signups!Sessions
    <2>3. asked'.of \in IF asked'.what = "remove" THEN ClubIds ELSE Nat  BY <2>1, <2>2
    <2> QED  BY <1>t, <1>y, <1>quiet, <2>1, <2>3 DEF Signups!ListsInv
  <1>8. CASE Signups!Agree
    <2>1. /\ asked # None /\ asked' = None /\ UNCHANGED <<server, known, held, form, others, way>>
          /\ IF asked.what = "remove" THEN Signups!Send(Signups!Request("remove", "us", asked.of, 0, TRUE))
             ELSE Signups!Send(Signups!Request("drop", "us", None, asked.of, TRUE))
      BY <1>8 DEF Signups!Agree
    <2>2. asked.of \in IF asked.what = "remove" THEN ClubIds ELSE Nat  BY <1>t, <2>1 DEF Signups!ListsInv
    <2>3. CASE asked.what = "remove"
      <3> DEFINE r == Signups!Request("remove", "us", asked.of, 0, TRUE)
      <3>1. r \in Signups!Requests /\ r.step = "sent" /\ r.op = "remove" /\ r.club \in ClubIds
        BY <1>y, <2>2, <2>3 DEF Signups!Request, Signups!Requests
      <3>2. Signups!Send(r)  BY <2>1, <2>3
      <3> HIDE DEF r
      <3> QED  BY <1>send, <2>1, <3>1, <3>2 DEF Signups!Sound
    <2>4. CASE asked.what # "remove"
      <3> DEFINE r == Signups!Request("drop", "us", None, asked.of, TRUE)
      <3>1. r \in Signups!Requests /\ r.step = "sent" /\ r.op = "drop"
        BY <1>y, <2>2, <2>4 DEF Signups!Request, Signups!Requests
      <3>2. Signups!Send(r)  BY <2>1, <2>4
      <3> HIDE DEF r
      <3> QED  BY <1>send, <2>1, <3>1, <3>2 DEF Signups!Sound
    <2> QED  BY <2>3, <2>4
  <1>9. CASE Signups!Decline
    <2>1. asked' = None /\ UNCHANGED <<server, known, held, form, out, sent, others, way>>
      BY <1>9 DEF Signups!Decline
    <2> QED  BY <1>t, <1>y, <1>quiet, <2>1 DEF Signups!ListsInv
  <1>10. CASE Signups!Serve
    <2>1. PICK r \in out : Signups!Handle(r)  BY <1>10 DEF Signups!Serve
    <2>2. UNCHANGED <<known, asked, held, form, sent, others, way>>  BY <1>10 DEF Signups!Serve, Signups!window
    <2> QED  BY <1>0, <1>y, <1>r, <2>1, <2>2, SignupsHandle
  <1>11. CASE Signups!Other
    <2>1. /\ UNCHANGED <<known, asked, held, form, sent, way>> /\ others' \in Nat
      BY <1>11, <1>y DEF Signups!Other, Signups!window
    <2>2. PICK r \in Signups!Requests : Signups!Handle(r) /\ Signups!Sound(r) /\ r.by = "other" /\ r.step = "sent"
      BY <1>t, <1>11, SignupsOthers
    <2> QED  BY <1>0, <1>y, <2>1, <2>2, SignupsHandle
  <1>12. CASE Signups!Arrive
    <2>0. PICK r \in out :
         /\ r.step \in {"done", "refused"} /\ out' = out \ {r}
         /\ held' = IF r.op = "walkin" /\ r.step = "done" THEN None ELSE held
         /\ form' = IF r.op = "session" /\ r.step = "done" THEN [form EXCEPT !.now = Signups!NoName] ELSE form
      BY <1>12 DEF Signups!Arrive
    <2>1. UNCHANGED <<server, known, asked, sent, others, way>>  BY <1>12 DEF Signups!Arrive
    <2>2. /\ form' \in [now: SessionNames \cup {Signups!NoName}, used: SUBSET SessionNames]
          /\ form'.used = form.used /\ form'.now \in {form.now, Signups!NoName}
          /\ ~(r.op = "session" /\ r.step = "done") => form' = form
          /\ r.op = "session" /\ r.step = "done" => form'.now = Signups!NoName
      BY <1>y, <2>0
    <2>3. Signups!ListsInv'  BY <1>t, <2>0, <2>1, <2>2 DEF Signups!ListsInv
    <2>4. \A q \in out' : q.op = "session" => form' = form
      BY <1>r, <2>0, <2>2
    <2>5. Signups!RequestsInv'
      <3>1. \A q \in out' : Signups!Sound(q)'  BY <1>r, <2>0, <2>1, <2>4 DEF Signups!Sound
      <3> QED  BY <1>r, <2>0, <3>1 DEF Signups!RequestsInv
    <2>6. Signups!NamesInv'
      <3>1. ~way => \A s \in server.sessions : s.name # Signups!NoName /\ s.name = form'.now
                      => \E q \in out' : q.op = "session" /\ q.step = "done"
        BY <1>t, <2>0, <2>2 DEF Signups!NamesInv
      <3> QED  BY <1>t, <2>1, <2>2, <3>1 DEF Signups!NamesInv
    <2> QED  BY <2>3, <2>5, <2>6
  <1>13. CASE Signups!Lose
    <2>1. out' \subseteq out /\ way' = TRUE /\ UNCHANGED <<server, known, asked, held, form, sent, others>>
      BY <1>13 DEF Signups!Lose, Signups!window
    <2>2. Signups!ListsInv'  BY <1>t, <2>1 DEF Signups!ListsInv
    <2>3. Signups!RequestsInv'  BY <1>r, <2>1 DEF Signups!RequestsInv, Signups!Sound
    <2>4. Signups!NamesInv'  BY <1>t, <2>1 DEF Signups!NamesInv
    <2> QED  BY <2>2, <2>3, <2>4
  <1>14. CASE Signups!Load
    <2>1. /\ known' = [reg |-> server.reg, sessions |-> server.sessions]
          /\ UNCHANGED <<server, asked, held, form, out, sent, others, way>>
      BY <1>14 DEF Signups!Load
    <2>2. known' \in [reg: [ClubIds -> Signups!Registrations], sessions: SUBSET Signups!Sessions]  BY <1>y, <2>1
    <2> QED  BY <1>t, <1>quiet, <2>1, <2>2 DEF Signups!ListsInv
  <1>15. CASE UNCHANGED Signups!vars
    <2>1. UNCHANGED <<server, known, asked, held, form, out, sent, others, way>>  BY <1>15 DEF Signups!vars
    <2> QED  BY <1>t, <1>y, <1>quiet, <2>1 DEF Signups!ListsInv
  <1> QED
    BY <1>0, <1>1, <1>2, <1>3, <1>4, <1>5, <1>6, <1>7, <1>8, <1>9, <1>10, <1>11, <1>12, <1>13, <1>14, <1>15
    DEF Signups!Next

\* The state of the signup window is sound for any clubs, names and bounds.
THEOREM SignupsAreSound == Spec => [](page = "signups" => Signups!Inv)
  <1>1. Init => (page = "signups" => Signups!Inv)  BY SignupsInit
  <1>2. (page = "signups" => Signups!Inv) /\ [Next]_vars => (page = "signups" => Signups!Inv)'
    BY SignupsStep, PageStays
  <1> QED  BY <1>1, <1>2, PTL DEF Spec

\* Attendance is kept in one session however many mark it at once, and a session that was
\* typed once is made once.
THEOREM AttendanceIsOne == Spec => []SignupsInv
  <1>1. (page = "signups" => Signups!Inv) => SignupsInv
    <2> SUFFICES ASSUME page = "signups", Signups!Inv PROVE Signups!TypeOK /\ Signups!OneSession /\ Signups!AddedOnce
      BY DEF SignupsInv, Signups!SignupsInv
    <2>1. Signups!TypeOK
      BY DEF Signups!ListsInv, Signups!RequestsInv, Signups!TypeOK, Signups!Requests, Signups!Sessions
    <2>2. Signups!OneSession  BY DEF Signups!OneSession, Signups!NamesInv
    <2>3. Signups!AddedOnce
      BY PagesAssumption DEF Signups!AddedOnce, Signups!NamesInv, Signups!SignupAssumption
    <2> QED  BY <2>1, <2>2, <2>3
  <1> QED  BY <1>1, SignupsAreSound, PTL

\* What a club has sent stays through a step, and what is added is what is shown.
LEMMA SignupsKeep ==
  ASSUME page = "signups", Signups!Inv, [Next]_vars
  PROVE  Signups!KeepsSubmitted /\ Signups!AddsShown
  <1>0. [Signups!Next]_(Signups!vars)  BY DEF Next, vars, Signups!vars
  <1>y. /\ server \in [reg: [ClubIds -> Signups!Registrations], sessions: SUBSET Signups!Sessions, next: Nat \ {0},
                       review: BOOLEAN, based: BOOLEAN]
        /\ server.reg \in [ClubIds -> Signups!Registrations] /\ out \subseteq Signups!Requests
    BY DEF Signups!ListsInv, Signups!RequestsInv
  <1>1. ASSUME NEW r, Signups!Handle(r), NEW c \in ClubIds, server.reg[c] \in {"pending", "club"}
        PROVE  server'.reg[c] \in {server.reg[c], "club"}
    <2>1. CASE Signups!Refused(r) \/ UNCHANGED server  BY <1>1, <2>1 DEF Signups!Refused
    <2>2. CASE Signups!WalkIn(r) \/ Signups!SubmitSignup(r) \/ Signups!Remove(r)
      BY <1>1, <1>y, <2>1, <2>2 DEF Signups!WalkIn, Signups!SubmitSignup, Signups!Remove, Signups!Removable
    <2>3. CASE Signups!Confirm(r)  BY <1>1, <1>y, <2>1, <2>3 DEF Signups!Confirm
    <2>4. CASE Signups!CreateSession(r) \/ Signups!DeleteSession(r) \/ Signups!WriteMark(r)
      <3>1. server'.reg = server.reg
        BY <1>y, <2>4 DEF Signups!CreateSession, Signups!DeleteSession, Signups!WriteMark, Signups!Adding, Signups!Refused
      <3> QED  BY <1>1, <3>1
    <2>5. CASE Signups!LookForMark(r) \/ Signups!HoldSession(r)
      BY <2>1, <2>5 DEF Signups!LookForMark, Signups!HoldSession
    <2> QED  BY <1>1, <2>2, <2>3, <2>4, <2>5 DEF Signups!Handle
  <1>2. Signups!KeepsSubmitted
    <2>1. CASE Signups!Serve \/ Signups!Other
      <3>1. \E r : Signups!Handle(r)  BY <2>1, SignupsOthers DEF Signups!Serve
      <3> QED  BY <1>1, <3>1 DEF Signups!KeepsSubmitted
    <2>2. CASE ~(Signups!Serve \/ Signups!Other)
      <3>1. UNCHANGED server
        BY <1>0, <2>2 DEF Signups!Next, Signups!vars, Signups!PickWalkIn, Signups!AddWalkIn, Signups!ConfirmClub, Signups!MarkClub,
           Signups!TypeName, Signups!AddSession, Signups!AskAway, Signups!Agree, Signups!Decline, Signups!Arrive, Signups!Lose,
           Signups!Load
      <3> QED  BY <3>1 DEF Signups!KeepsSubmitted
    <2> QED  BY <2>1, <2>2
  <1>3. Signups!AddsShown
    <2> SUFFICES ASSUME NEW r \in out' \ out, r.op = "walkin", r.by = "us", r.step = "sent"
                 PROVE  r.club = held /\ known.reg[r.club] = "none"
      BY DEF Signups!AddsShown
    <2>1. CASE Signups!AddWalkIn
      <3>1. r = Signups!Request("walkin", "us", Signups!WalkInClub, 0, TRUE) /\ Signups!WalkInClub # None
        BY <2>1 DEF Signups!AddWalkIn, Signups!Send
      <3>2. r.club = Signups!WalkInClub  BY <3>1 DEF Signups!Request
      <3> QED  BY <3>1, <3>2 DEF Signups!WalkInClub, Signups!Addable
    <2>2. ASSUME NEW q, Signups!Handle(q), q \in Signups!Requests PROVE FALSE
      <3>1. ASSUME NEW step \in {"looked", "done", "refused"}, Signups!To(q, step) PROVE FALSE
        BY <2>2, <3>1 DEF Signups!To, Signups!Requests
      <3>2. CASE Signups!HoldSession(q)  BY <2>2, <3>2 DEF Signups!HoldSession, Signups!Requests
      <3> QED
        BY <2>2, <3>1, <3>2 DEF Signups!Handle, Signups!WalkIn, Signups!SubmitSignup, Signups!Remove, Signups!Confirm,
           Signups!CreateSession, Signups!DeleteSession, Signups!LookForMark, Signups!WriteMark, Signups!Refused
    <2>3. CASE Signups!Serve
      <3>1. PICK q \in out : Signups!Handle(q)  BY <2>3 DEF Signups!Serve
      <3> QED  BY <1>y, <2>2, <3>1
    <2>4. CASE Signups!Other
      <3>1. PICK q \in Signups!Requests : Signups!Handle(q)  BY <2>4, SignupsOthers
      <3> QED  BY <2>2, <3>1
    <2>5. CASE Signups!ConfirmClub \/ Signups!MarkClub \/ Signups!Agree
      BY <2>5 DEF Signups!ConfirmClub, Signups!MarkClub, Signups!Agree, Signups!Send, Signups!Request
    <2>6. CASE Signups!AddSession
      BY <2>6 DEF Signups!AddSession, Signups!Send, Signups!Request
    <2>7. CASE \/ Signups!PickWalkIn \/ Signups!TypeName \/ Signups!AskAway \/ Signups!Decline \/ Signups!Arrive
               \/ Signups!Lose \/ Signups!Load \/ UNCHANGED Signups!vars
      BY <2>7 DEF Signups!PickWalkIn, Signups!TypeName, Signups!AskAway, Signups!Decline, Signups!Arrive, Signups!Lose,
         Signups!Load, Signups!vars
    <2> QED  BY <1>0, <2>1, <2>3, <2>4, <2>5, <2>6, <2>7 DEF Signups!Next
  <1> QED  BY <1>2, <1>3

\* What a club has sent itself stays on the list, whatever the office's windows still show,
\* and a club is added only as it is shown.
THEOREM SignupsAreKept == Spec => SignupsStay
  <1>1. (page = "signups" => Signups!Inv) /\ [Next]_vars => (page = "signups" => Signups!KeepsSubmitted /\ Signups!AddsShown)
    BY SignupsKeep
  <1> QED  BY <1>1, SignupsAreSound, PTL DEF Spec, SignupsStay
HIDE DEF Signups!Inv

(***************************************************************************)
(* A club's own settings.                                                  *)
(***************************************************************************)
USE DEF Profile!Inv

\* The profile is the server's, and no form is filled yet.
LEMMA ProfileInit == ASSUME Init, page = "profile" PROVE Profile!Inv
  <1>0. Profile!ProfileAssumption /\ Profile!Init  BY PagesAssumption DEF Init
  <1>1. PICK t \in Profile!Texts : server = [text |-> t, image |-> [s \in Images |-> 0]]
    BY <1>0 DEF Profile!Init
  <1>2. server \in Profile!Profiles /\ sent \in [Images -> 0 .. MaxImages] /\ others \in 0 .. MaxOthers
    <2>1. sent = [s \in Images |-> 0] /\ others = 0  BY <1>0 DEF Profile!Init
    <2>2. MaxImages \in Nat /\ MaxOthers \in Nat  BY <1>0 DEF Profile!ProfileAssumption
    <2>3. server \in Profile!Profiles  BY <1>1, <2>2 DEF Profile!Profiles
    <2> QED  BY <2>1, <2>2, <2>3
  <1>3. known = None /\ form = None /\ held = None /\ asked = {} /\ out = {}
    BY <1>0 DEF Profile!Init
  <1> QED
    BY <1>3, <1>2 DEF Profile!TypeOK, Profile!RequestsInv, Profile!FilledInv, Profile!Shown

\* Every step keeps the state of a club's own settings sound: a request has what it is about,
\* and what is shown was filled from the cache.
LEMMA ProfileStep ==
  ASSUME page = "profile", Profile!Inv, [Next]_vars
  PROVE  Profile!Inv'
  <1>0. Profile!ProfileAssumption /\ [Profile!Next]_(Profile!vars)
    BY PagesAssumption DEF Next, vars, Profile!vars
  <1>t. Profile!TypeOK /\ Profile!RequestsInv /\ Profile!FilledInv
    OBVIOUS
  <1>y. /\ server \in Profile!Profiles /\ known \in Profile!Profiles \cup {None}
        /\ form \in Profile!Texts \cup {None} /\ held \in Profile!Texts \cup {None} /\ asked \subseteq Fields
        /\ sent \in [Images -> 0 .. MaxImages] /\ others \in 0 .. MaxOthers
        /\ out \subseteq Profile!Requests
        /\ \A r \in out : (r.what = "save" => r.sent \in Profile!Texts) /\ (r.what = "image" => r.slot \in Images)
    BY <1>t DEF Profile!TypeOK, Profile!RequestsInv
  <1>f. \A p \in Profile!Profiles : p.text \in Profile!Texts /\ p.image \in [Images -> 0 .. MaxImages]
    BY DEF Profile!Profiles
  <1>n. MaxImages \in Nat /\ MaxOthers \in Nat /\ \A v \in Inputs : Plain(v) \in Inputs
    BY <1>0 DEF Profile!ProfileAssumption
  <1>out. ASSUME out' \subseteq Profile!Requests,
                 \A r \in out' : (r.what = "save" => r.sent \in Profile!Texts) /\ (r.what = "image" => r.slot \in Images),
                 server' \in Profile!Profiles, known' \in Profile!Profiles \cup {None},
                 form' \in Profile!Texts \cup {None}, held' \in Profile!Texts \cup {None}, asked' \subseteq Fields,
                 sent' \in [Images -> 0 .. MaxImages], others' \in 0 .. MaxOthers,
                 form' # None => known' \in Profile!Profiles /\ form' \in Profile!Texts /\ held' \in Profile!Texts
          PROVE  Profile!Inv'
    <2>1. Profile!TypeOK'
      <3>1. \A r \in Profile!Requests : r.what \in {"load", "save", "image"} /\ r.reply \in Profile!Profiles \cup {None}
        BY DEF Profile!Requests
      <3> QED  BY <1>out, <3>1 DEF Profile!TypeOK
    <2> QED  BY <1>out, <2>1 DEF Profile!RequestsInv, Profile!FilledInv, Profile!Shown
  <1>s. form # None => known \in Profile!Profiles /\ form \in Profile!Texts /\ held \in Profile!Texts
    BY <1>t DEF Profile!FilledInv, Profile!Shown
  <1>1. CASE Profile!Open
    <2>1. Profile!Request("load", None, None, 0) \in Profile!Requests /\ Profile!Request("load", None, None, 0).what = "load"
      BY <1>n DEF Profile!Request, Profile!Requests
    <2>2. /\ out' \subseteq Profile!Requests
          /\ \A r \in out' : (r.what = "save" => r.sent \in Profile!Texts) /\ (r.what = "image" => r.slot \in Images)
      BY <1>1, <1>y, <2>1 DEF Profile!Open, Profile!Send
    <2>3. UNCHANGED <<server, known, sent, others>>  BY <1>1 DEF Profile!Open
    <2>4. CASE known = None
      BY <1>1, <1>y, <1>s, <1>out, <2>2, <2>3, <2>4 DEF Profile!Open
    <2>5. CASE known # None
      <3>1. form' = known.text /\ held' = known.text /\ asked' = {}  BY <1>1, <2>5 DEF Profile!Open, Profile!Fill
      <3> QED  BY <1>y, <1>f, <1>out, <2>2, <2>3, <2>5, <3>1
    <2> QED  BY <2>4, <2>5
  <1>2. CASE Profile!Leave
    <2>1. out' = {[r EXCEPT !.here = FALSE] : r \in out}  BY <1>2 DEF Profile!Leave
    <2>2. \A r \in Profile!Requests : /\ [r EXCEPT !.here = FALSE] \in Profile!Requests
                                     /\ [r EXCEPT !.here = FALSE].what = r.what /\ [r EXCEPT !.here = FALSE].sent = r.sent
                                     /\ [r EXCEPT !.here = FALSE].slot = r.slot
      BY DEF Profile!Requests
    <2>3. out' \subseteq Profile!Requests
      BY <1>y, <2>1, <2>2
    <2>4. ASSUME NEW q \in out' PROVE (q.what = "save" => q.sent \in Profile!Texts) /\ (q.what = "image" => q.slot \in Images)
      <3>1. PICK r \in out : q = [r EXCEPT !.here = FALSE]  BY <2>1
      <3> QED  BY <1>y, <2>2, <3>1
    <2>5. form' = None /\ held' = None /\ asked' = {} /\ UNCHANGED <<server, known, sent, others>>
      BY <1>2 DEF Profile!Leave
    <2> QED  BY <1>y, <1>out, <2>3, <2>4, <2>5
  <1>3. CASE Profile!Type
    <2>1. PICK g \in Fields, v \in Inputs : form' = [form EXCEPT ![g] = v]  BY <1>3 DEF Profile!Type
    <2>2. /\ form # None /\ asked' = Profile!Changed(form', held) /\ UNCHANGED <<server, known, held, out, sent, others>>
      BY <1>3 DEF Profile!Type, Profile!Shown
    <2>3. form' \in Profile!Texts /\ asked' \subseteq Fields
      BY <1>s, <2>1, <2>2 DEF Profile!Texts, Profile!Changed
    <2> QED  BY <1>y, <1>s, <1>out, <2>2, <2>3
  <1>4. CASE Profile!Save
    <2>1. /\ form # None /\ out' = out \cup {Profile!Request("save", None, form, 0)}
          /\ UNCHANGED <<server, known, form, held, asked, sent, others>>
      BY <1>4 DEF Profile!Save, Profile!Send, Profile!Shown
    <2> DEFINE r == Profile!Request("save", None, form, 0)
    <2>2. r \in Profile!Requests /\ r.what = "save" /\ r.sent \in Profile!Texts
      BY <1>n, <1>s, <2>1 DEF Profile!Request, Profile!Requests
    <2> HIDE DEF r
    <2>3. out' = out \cup {r}  BY <2>1 DEF r
    <2> QED  BY <1>y, <1>s, <1>out, <2>1, <2>2, <2>3
  <1>5. CASE Profile!Pick
    <2>1. UNCHANGED <<server, known, form, held, asked, others>>  BY <1>5 DEF Profile!Pick
    <2>2. PICK s \in Images : \/ /\ sent[s] < MaxImages /\ sent' = [sent EXCEPT ![s] = @ + 1]
                                 /\ out' = out \cup {Profile!Request("image", s, None, sent[s] + 1)}
                              \/ sent' = sent /\ out' = out \cup {Profile!Request("image", s, None, 0)}
      BY <1>5 DEF Profile!Pick, Profile!Send
    <2>3. PICK i \in 0 .. MaxImages : out' = out \cup {Profile!Request("image", s, None, i)}
      BY <1>n, <1>y, <2>2
    <2>4. sent' \in [Images -> 0 .. MaxImages]
      <3>1. sent[s] \in 0 .. MaxImages  BY <1>y
      <3>2. sent[s] < MaxImages => sent[s] + 1 \in 0 .. MaxImages  BY <1>n, <3>1
      <3> QED  BY <1>y, <2>2, <3>2
    <2> DEFINE r == Profile!Request("image", s, None, i)
    <2>5. r \in Profile!Requests /\ r.what = "image" /\ r.slot = s
      BY DEF Profile!Request, Profile!Requests
    <2> HIDE DEF r
    <2>6. out' = out \cup {r}  BY <2>3 DEF r
    <2> QED  BY <1>y, <1>s, <1>out, <2>1, <2>4, <2>5, <2>6
  <1>6. CASE Profile!Serve
    <2>1. UNCHANGED <<known, form, held, asked, sent, others>>  BY <1>6 DEF Profile!Serve
    <2>2. PICK r \in out : server' = Profile!After(r) /\ out' = (out \ {r}) \cup {[r EXCEPT !.reply = server']}
      BY <1>6 DEF Profile!Serve
    <2>3. r \in Profile!Requests /\ (r.what = "save" => r.sent \in Profile!Texts) /\ (r.what = "image" => r.slot \in Images)
          /\ r.what \in {"load", "save", "image"} /\ r.image \in 0 .. MaxImages
      BY <1>y, <2>2 DEF Profile!Requests
    <2>4. server' \in Profile!Profiles
      <3>1. CASE r.what = "save"
        <4>1. [f \in Fields |-> Plain(r.sent[f])] \in Profile!Texts  BY <1>n, <2>3, <3>1 DEF Profile!Texts
        <4>2. server' = [server EXCEPT !.text = [f \in Fields |-> Plain(r.sent[f])]]  BY <2>2, <3>1 DEF Profile!After
        <4> QED  BY <1>y, <4>1, <4>2 DEF Profile!Profiles
      <3>2. CASE r.what = "image"
        <4>1. server' = [server EXCEPT !.image[r.slot] = r.image]  BY <2>2, <3>2 DEF Profile!After
        <4> QED  BY <1>y, <2>3, <3>2, <4>1 DEF Profile!Profiles
      <3>3. CASE r.what = "load"  BY <1>y, <2>2, <3>3 DEF Profile!After
      <3> QED  BY <2>3, <3>1, <3>2, <3>3
    <2> DEFINE q == [r EXCEPT !.reply = server']
    <2>5. q \in Profile!Requests /\ q.what = r.what /\ q.sent = r.sent /\ q.slot = r.slot
      BY <2>3, <2>4 DEF Profile!Requests
    <2> HIDE DEF q
    <2>6. out' = (out \ {r}) \cup {q}  BY <2>2 DEF q
    <2> QED  BY <1>y, <1>s, <1>out, <2>1, <2>3, <2>4, <2>5, <2>6
  <1>7. CASE Profile!Other
    <2>1. PICK g \in Fields, v \in Inputs : server' = [server EXCEPT !.text[g] = Plain(v)]  BY <1>7 DEF Profile!Other
    <2>2. others < MaxOthers /\ others' = others + 1 /\ UNCHANGED <<known, form, held, asked, out, sent>>
      BY <1>7 DEF Profile!Other
    <2>3. server' \in Profile!Profiles  BY <1>y, <1>n, <2>1 DEF Profile!Profiles, Profile!Texts
    <2>4. others' \in 0 .. MaxOthers  BY <1>y, <1>n, <2>2
    <2> QED  BY <1>y, <1>s, <1>out, <2>2, <2>3, <2>4
  <1>8. CASE Profile!Answers
    <2>1. UNCHANGED <<server, sent, others>>  BY <1>8 DEF Profile!Answers
    <2>2. out' \subseteq out
      BY <1>8 DEF Profile!Answers, Profile!LoadArrives, Profile!SaveArrives, Profile!ImageArrives
    <2>3. \A r \in out : r.reply \in Profile!Profiles \cup {None}  BY <1>y DEF Profile!Requests
    <2>4. /\ known' \in Profile!Profiles \cup {None}
          /\ \/ UNCHANGED <<known, form, held, asked>>
             \/ UNCHANGED <<form, held, asked>> /\ known' \in Profile!Profiles
             \/ known' \in Profile!Profiles /\ form' \in Profile!Texts /\ held' = form' /\ asked' = {}
      <3>1. CASE Profile!LoadArrives
        BY <1>y, <1>f, <2>3, <3>1 DEF Profile!LoadArrives, Profile!Fill
      <3>2. CASE Profile!SaveArrives
        <4>1. \A p \in Profile!Profiles : Profile!KeepImages(p) \in Profile!Profiles
          BY <1>y DEF Profile!KeepImages, Profile!Profiles
        <4> QED  BY <1>y, <1>f, <2>3, <3>2, <4>1 DEF Profile!SaveArrives, Profile!Fill
      <3>3. CASE Profile!ImageArrives
        <4>1. \A p \in Profile!Profiles, s \in Images : Profile!MergeImage(s, p) \in Profile!Profiles
          BY <1>y DEF Profile!MergeImage, Profile!Profiles
        <4> QED  BY <1>y, <2>3, <3>3, <4>1 DEF Profile!ImageArrives
      <3> QED  BY <1>8, <3>1, <3>2, <3>3 DEF Profile!Answers
    <2> QED  BY <1>y, <1>s, <1>out, <2>1, <2>2, <2>4
  <1>9. CASE UNCHANGED Profile!vars
    BY <1>9, <1>y, <1>s, <1>out DEF Profile!vars
  <1> QED
    BY <1>0, <1>1, <1>2, <1>3, <1>4, <1>5, <1>6, <1>7, <1>8, <1>9 DEF Profile!Next

\* The state of a club's own settings is sound for any slots, texts and bounds.
THEOREM ProfileIsSound == Spec => [](page = "profile" => Profile!Inv)
  <1>1. Init => (page = "profile" => Profile!Inv)  BY ProfileInit
  <1>2. (page = "profile" => Profile!Inv) /\ [Next]_vars => (page = "profile" => Profile!Inv)'
    BY ProfileStep, PageStays
  <1> QED  BY <1>1, <1>2, PTL DEF Spec

\* An image changes by its own answer or a load.
LEMMA ProfileKeepsImages ==
  ASSUME page = "profile", Profile!Inv, [Next]_vars
  PROVE  Profile!KeepsImages
  <1>0. [Profile!Next]_(Profile!vars)  BY DEF Next, vars, Profile!vars
  <1> SUFFICES ASSUME NEW s \in Images, known # None, known'.image[s] # known.image[s]
               PROVE  \E r \in out : r.reply # None /\ r \notin out' /\ (r.what = "load" \/ (r.what = "image" /\ r.slot = s))
    BY DEF Profile!KeepsImages
  <1>1. known \in Profile!Profiles /\ \A r \in out : r.reply \in Profile!Profiles \cup {None}
    BY DEF Profile!TypeOK
  <1>2. Profile!Answers
    BY <1>0 DEF Profile!Next, Profile!vars, Profile!Open, Profile!Leave, Profile!Type, Profile!Save, Profile!Pick,
       Profile!Serve, Profile!Other
  <1>3. CASE Profile!LoadArrives  BY <1>3 DEF Profile!LoadArrives
  <1>4. CASE Profile!SaveArrives
    <2>1. PICK r \in out : r.reply # None /\ known' = Profile!KeepImages(r.reply)  BY <1>4 DEF Profile!SaveArrives
    <2>2. known'.image = known.image  BY <1>1, <2>1 DEF Profile!KeepImages, Profile!Profiles
    <2> QED  BY <2>2
  <1>5. CASE Profile!ImageArrives
    <2>1. PICK r \in out : /\ r.what = "image" /\ out' = out \ {r} /\ r.reply # None
                           /\ known' = Profile!MergeImage(r.slot, r.reply)
      BY <1>5 DEF Profile!ImageArrives
    <2>2. known' = [known EXCEPT !.image[r.slot] = r.reply.image[r.slot]]  BY <2>1 DEF Profile!MergeImage
    <2>3. r.slot # s => known'.image[s] = known.image[s]  BY <1>1, <2>2 DEF Profile!Profiles
    <2> QED  BY <2>1, <2>3
  <1> QED  BY <1>2, <1>3, <1>4, <1>5 DEF Profile!Answers

\* While the profile is shown, an image of the cache is changed by a load or by that image's
\* own answer only, in whatever order the answers come.
THEOREM ImagesAreKept == Spec => ImagesStay
  <1>1. (page = "profile" => Profile!Inv) /\ [Next]_vars => (page = "profile" => Profile!KeepsImages)
    BY ProfileKeepsImages
  <1> QED  BY <1>1, ProfileIsSound, PTL DEF Spec, ImagesStay
HIDE DEF Profile!Inv

(***************************************************************************)
(* A club's settings at the office.                                        *)
(***************************************************************************)
USE DEF Settings!Inv

Lists == [Numbers -> Titles]
Details == [Numbers -> Settings!Values \cup {None}]
SoundAsks(p) == \A a \in p.ask : Settings!SoundAsk(a)

\* The club of a name is one of the list's, or none.
LEMMA SettingsIdOf ==
  ASSUME NEW l \in Lists \cup {None}, NEW n
  PROVE  /\ Settings!IdOf(l, n) \in Numbers \cup {0}
         /\ Settings!IdOf(l, n) # 0 => Settings!IdOf(l, n) \in Numbers /\ l # None /\ l[Settings!IdOf(l, n)] = n
         /\ l # None /\ Settings!IdOf(l, n) = 0 => \A c \in Numbers : l[c] # n
  <1>0. 0 \notin Numbers  BY PagesAssumption DEF Settings!ClubAssumption
  <1>1. CASE l # None /\ \E c \in Numbers : l[c] = n
    <2>1. Settings!IdOf(l, n) = CHOOSE c \in Numbers : l[c] = n  BY <1>1 DEF Settings!IdOf
    <2>2. Settings!IdOf(l, n) \in Numbers /\ l[Settings!IdOf(l, n)] = n  BY <1>1, <2>1
    <2> QED  BY <1>0, <1>1, <2>2
  <1>2. CASE ~(l # None /\ \E c \in Numbers : l[c] = n)  BY <1>2 DEF Settings!IdOf
  <1> QED  BY <1>1, <1>2

\* There is a first club: the least of their numbers.
LEMMA SettingsFirst == Settings!FirstClub \in Numbers
  <1>1. Numbers \subseteq Nat /\ Numbers # {}  BY PagesAssumption DEF Settings!ClubAssumption
  <1> DEFINE R == OpToRel(<, Nat)
  <1>2. \A m, n \in Nat : <<m, n>> \in R <=> m < n  BY DEF OpToRel
  <1>3. IsWellFoundedOn(R, Nat)  BY NatLessThanWellFounded
  <1> HIDE DEF R
  <1>4. PICK m \in Numbers : \A n \in Numbers : <<n, m>> \notin R  BY <1>1, <1>3, WFMin
  <1>5. ASSUME NEW n \in Numbers PROVE m <= n
    <2>1. m \in Nat /\ n \in Nat  BY <1>1, <1>4
    <2>2. ~(n < m)  BY <1>2, <1>4, <2>1
    <2> QED  BY <2>1, <2>2
  <1> QED  BY <1>5 DEF Settings!FirstClub

\* A club the list does not have is replaced by one it has; what is typed is left alone.
LEMMA SettingsCorrect ==
  ASSUME NEW p \in Settings!Pages, NEW l \in Lists \cup {None}, NEW loading \in BOOLEAN
  PROVE  LET q == Settings!Correct(p, l, loading) IN
         /\ q \in Settings!Pages /\ q.ask = p.ask
         /\ q.club = p.club \/ (~loading /\ l # None /\ \A c \in Numbers : l[c] # p.club)
  <1>1. CASE ~loading /\ l # None /\ Settings!IdOf(l, p.club) = 0
    <2>1. \A c \in Numbers : l[c] # p.club  BY <1>1, SettingsIdOf
    <2>2. l[Settings!FirstClub] \in Titles  BY <1>1, SettingsFirst DEF Lists
    <2>3. Settings!Correct(p, l, loading) = [p EXCEPT !.club = l[Settings!FirstClub]]
      BY <1>1 DEF Settings!Correct
    <2> QED  BY <1>1, <2>1, <2>2, <2>3 DEF Settings!Pages
  <1>2. CASE ~(~loading /\ l # None /\ Settings!IdOf(l, p.club) = 0)  BY <1>2 DEF Settings!Correct
  <1> QED  BY <1>1, <1>2

\* The form is emptied for a club, and the page stays with its club.
LEMMA SettingsResetTo ==
  ASSUME NEW p \in Settings!Pages, NEW n \in Titles \cup {None}
  PROVE  LET q == Settings!ResetTo(p, n) IN q \in Settings!Pages /\ q.ask = p.ask /\ q.club = p.club
  BY DEF Settings!ResetTo, Settings!Pages

\* Going to another club may ask of what was typed, and asks of nothing else.
LEMMA SettingsSwitch ==
  ASSUME NEW p \in Settings!Pages
  PROVE  LET q == Settings!Switch(p) IN
         q \in Settings!Pages /\ q.club = p.club /\ \A a \in q.ask : a \in p.ask \/ a.what = "switch"
  <1>1. p.club \in Titles \cup {None} /\ p.last \in Titles \cup {None} /\ p.ask \subseteq Settings!Asks
    BY DEF Settings!Pages
  <1>2. CASE p.club = p.last  BY <1>2 DEF Settings!Switch
  <1>3. CASE p.club # p.last /\ Settings!Dirty(p)
    <2> DEFINE b == Settings!Ask("switch", p.club, p.last, 0, None)
    <2>1. b \in Settings!Asks /\ b.what = "switch"  BY <1>1 DEF Settings!Ask, Settings!Asks
    <2>2. Settings!Switch(p) = [p EXCEPT !.ask = @ \cup {b}]  BY <1>3 DEF Settings!Switch
    <2> HIDE DEF b
    <2> QED  BY <1>1, <2>1, <2>2 DEF Settings!Pages
  <1>4. CASE p.club # p.last /\ ~Settings!Dirty(p)
    BY <1>1, <1>4, SettingsResetTo DEF Settings!Switch
  <1> QED  BY <1>2, <1>3, <1>4

\* The form is filled with what the server said of the club it is for.
LEMMA SettingsSeed ==
  ASSUME NEW p \in Settings!Pages, NEW l \in Lists \cup {None}, NEW d \in Details
  PROVE  LET q == Settings!Seed(p, l, d) IN q \in Settings!Pages /\ q.club = p.club /\ q.ask = p.ask
  <1> DEFINE i == Settings!IdOf(l, p.club)
  <1>1. CASE p.form # None \/ i = 0 \/ p.club # p.last \/ d[i] = None  BY <1>1 DEF Settings!Seed
  <1>2. CASE ~(p.form # None \/ i = 0 \/ p.club # p.last \/ d[i] = None)
    <2>1. i \in Numbers  BY <1>2, SettingsIdOf
    <2>2. d[i] \in Settings!Values  BY <1>2, <2>1 DEF Details
    <2>3. Settings!Seed(p, l, d) = [p EXCEPT !.form = d[i], !.saved = d[i], !.of = i]
      BY <1>2 DEF Settings!Seed
    <2> HIDE DEF i
    <2> QED  BY <2>1, <2>2, <2>3 DEF Settings!Pages
  <1> QED  BY <1>1, <1>2

\* What a page does on its own after a step leaves it with its club or corrects it.
LEMMA SettingsSettled ==
  ASSUME NEW p \in Settings!Pages, SoundAsks(p), NEW l \in Lists \cup {None}, NEW loading \in BOOLEAN, NEW d \in Details
  PROVE  LET q == Settings!Settled(p, l, loading, d) IN
         /\ q \in Settings!Pages /\ SoundAsks(q)
         /\ q.club = p.club \/ (~loading /\ l # None /\ \A c \in Numbers : l[c] # p.club)
  <1> DEFINE q == Settings!Correct(p, l, loading)  r == Settings!Switch(q)  s == Settings!Seed(r, l, d)
  <1>1. /\ q \in Settings!Pages /\ q.ask = p.ask
        /\ q.club = p.club \/ (~loading /\ l # None /\ \A c \in Numbers : l[c] # p.club)
    BY SettingsCorrect
  <1> HIDE DEF q
  <1>2. r \in Settings!Pages /\ r.club = q.club /\ \A a \in r.ask : a \in q.ask \/ a.what = "switch"
    BY <1>1, SettingsSwitch
  <1> HIDE DEF r
  <1>3. s \in Settings!Pages /\ s.club = r.club /\ s.ask = r.ask  BY <1>2, SettingsSeed
  <1>4. s = Settings!Settled(p, l, loading, d)  BY DEF q, r, Settings!Settled
  <1> HIDE DEF s
  <1> QED  BY <1>1, <1>2, <1>3, <1>4 DEF SoundAsks, Settings!SoundAsk

\* The first list is on its way, and the page shows no club.
LEMMA SettingsInit == ASSUME Init, page = "settings" PROVE Settings!Inv
  <1>0. Settings!ClubAssumption /\ Settings!Init  BY PagesAssumption DEF Init
  <1>1. /\ server = [c \in Numbers |-> [name |-> Titled[c], active |-> TRUE]]
        /\ known = None /\ way = TRUE /\ held = [c \in Numbers |-> None]
        /\ out = None /\ asked = None /\ sent = 0 /\ others = 0 /\ past = 0 /\ count = FALSE
    BY <1>0 DEF Settings!Init
  <1>2. PICK n \in Titles \cup {None} :
          form = [club |-> n, last |-> n, form |-> None, saved |-> None, of |-> 0, ask |-> {}, pw |-> 0]
    BY <1>0 DEF Settings!Init
  <1>3. form \in Settings!Pages /\ form.ask = {}  BY <1>2 DEF Settings!Pages
  <1>4. server \in [Numbers -> Settings!Values]  BY <1>0, <1>1 DEF Settings!Values, Settings!ClubAssumption
  <1>5. MaxSaves \in Nat /\ MaxOthers \in Nat  BY <1>0 DEF Settings!ClubAssumption
  <1>6. Settings!PageInv
    <2>1. held \in [Numbers -> Settings!Values \cup {None}]  BY <1>1
    <2>2. sent \in 0 .. MaxSaves /\ others \in 0 .. MaxOthers  BY <1>1, <1>5
    <2> QED  BY <1>1, <1>3, <1>4, <2>1, <2>2 DEF Settings!PageInv
  <1>7. Settings!FollowInv
    <2>1. \A c, d \in Numbers : server[c].name = server[d].name => c = d
      BY <1>0, <1>1 DEF Settings!ClubAssumption
    <2> QED  BY <1>1, <2>1 DEF Settings!FollowInv
  <1> QED  BY <1>6, <1>7

\* The page stays with the club that was chosen, unless its name is given up as one a
\* list that is loaded does not have.
LEMMA SettingsFollow ==
  ASSUME Settings!FollowInv, NEW n, past' \in Numbers \cup {0}, UNCHANGED <<server, out>>,
         count' = count \/ count' = TRUE,
         ~count' /\ ~way' /\ ~Settings!Renaming => known' = [c \in Numbers |-> server[c].name],
         ~count' /\ past' # 0 /\ ~Settings!Renaming => server[past'].name = n,
         form'.club = n \/ (~way' /\ known' # None /\ \A c \in Numbers : known'[c] # n)
  PROVE  Settings!FollowInv'
  <1>1. Settings!Renaming' = Settings!Renaming  BY DEF Settings!Renaming
  <1>2. ASSUME ~count', past' # 0, ~Settings!Renaming PROVE form'.club = server[past'].name
    <2>1. CASE form'.club = n  BY <1>2, <2>1
    <2>2. CASE ~way' /\ known' # None /\ \A c \in Numbers : known'[c] # n
      <3>1. known'[past'] = server[past'].name  BY <1>2, <2>2
      <3> QED  BY <1>2, <2>2, <3>1
    <2> QED  BY <2>1, <2>2
  <1> QED  BY <1>1, <1>2 DEF Settings!FollowInv

\* Every step keeps the state of the clubs' settings sound: while nothing has failed, the
\* list that is loaded has the names the clubs have, but for the one being renamed.
LEMMA SettingsStep ==
  ASSUME page = "settings", Settings!Inv, [Next]_vars
  PROVE  Settings!Inv'
  <1>0. Settings!ClubAssumption /\ [Settings!Next]_(Settings!vars)
    BY PagesAssumption DEF Next, vars, Settings!vars
  <1>t. Settings!PageInv /\ Settings!FollowInv
    OBVIOUS
  <1>y. /\ server \in [Numbers -> Settings!Values] /\ known \in Lists \cup {None} /\ way \in BOOLEAN
        /\ held \in Details /\ form \in Settings!Pages /\ SoundAsks(form)
        /\ out # None => Settings!Sent(out)
        /\ asked \in Numbers \cup {None} /\ sent \in 0 .. MaxSaves /\ others \in 0 .. MaxOthers
        /\ past \in Numbers \cup {0} /\ count \in BOOLEAN
    BY <1>t DEF Settings!PageInv, Lists, Details, SoundAsks
  <1>f. /\ \A c, d \in Numbers : server[c].name = server[d].name => c = d
        /\ ~count /\ out # None => server[out.id].name = IF out.reply = None THEN out.from ELSE out.reply.name
        /\ ~count /\ ~way /\ ~Settings!Renaming => known = [c \in Numbers |-> server[c].name]
        /\ ~count /\ past # 0 /\ ~Settings!Renaming => form.club = server[past].name
    BY <1>t DEF Settings!FollowInv
  <1>p. ASSUME server' \in [Numbers -> Settings!Values], known' \in Lists \cup {None}, way' \in BOOLEAN,
               held' \in Details, form' \in Settings!Pages, SoundAsks(form'), out' # None => Settings!Sent(out'),
               asked' \in Numbers \cup {None}, sent' \in 0 .. MaxSaves, others' \in 0 .. MaxOthers,
               past' \in Numbers \cup {0}, count' \in BOOLEAN
        PROVE  Settings!PageInv'
    BY <1>p DEF Settings!PageInv, Settings!Sent, Settings!SoundAsk, Lists, Details, SoundAsks
  <1>n. MaxSaves \in Nat /\ MaxOthers \in Nat /\ None \notin Settings!Values \cup Settings!Saves /\ 0 \notin Numbers
    BY <1>0 DEF Settings!ClubAssumption
  <1>g. /\ form.club \in Titles \cup {None} /\ form.last \in Titles \cup {None} /\ form.ask \subseteq Settings!Asks
        /\ form.form \in Settings!Values \cup {None} /\ form.saved \in Settings!Values \cup {None}
    BY <1>y DEF Settings!Pages
  <1>c. ASSUME NEW n PROVE
          /\ Settings!Current(n) \in Numbers \cup {0}
          /\ Settings!Current(n) # 0 => server[Settings!Current(n)].name = n
    <2> DEFINE l == [c \in Numbers |-> server[c].name]
    <2>1. l \in Lists  BY <1>y DEF Lists, Settings!Values
    <2>2. Settings!Current(n) = Settings!IdOf(l, n)  BY DEF Settings!Current
    <2>3. \A c \in Numbers : l[c] = server[c].name  OBVIOUS
    <2> HIDE DEF l
    <2> QED  BY <2>1, <2>2, <2>3, SettingsIdOf
  <1>h. Settings!Shown # 0 => Settings!Shown \in Numbers
    BY <1>y, SettingsIdOf DEF Settings!Shown
  <1>1. CASE Settings!ListArrives
    <2>1. /\ way' = FALSE /\ form' = Settings!Settled(form, known', FALSE, held)
          /\ \/ known' = [c \in Numbers |-> server[c].name] /\ count' = count
             \/ known' = known /\ count' = TRUE
          /\ UNCHANGED <<server, held, out, asked, sent, others, past>>
      BY <1>1 DEF Settings!ListArrives
    <2>2. known' \in Lists \cup {None}
      <3>1. [c \in Numbers |-> server[c].name] \in Lists  BY <1>y DEF Lists, Settings!Values
      <3> QED  BY <1>y, <2>1, <3>1
    <2>3. /\ form' \in Settings!Pages /\ SoundAsks(form')
          /\ form'.club = form.club \/ (known' # None /\ \A c \in Numbers : known'[c] # form.club)
      BY <1>y, <2>1, <2>2, SettingsSettled
    <2>4. Settings!PageInv'  BY <1>y, <1>p, <2>1, <2>2, <2>3
    <2>5. Settings!FollowInv'  BY <1>t, <1>y, <1>f, <2>1, <2>3, SettingsFollow
    <2> QED  BY <2>4, <2>5
  <1>2. CASE Settings!ListAgain
    <2>1. way' = TRUE /\ UNCHANGED <<server, known, held, form, out, asked, sent, others, past, count>>
      BY <1>2 DEF Settings!ListAgain
    <2>2. Settings!PageInv'  BY <1>y, <1>p, <2>1
    <2>3. Settings!FollowInv'  BY <1>t, <1>y, <1>f, <2>1, SettingsFollow
    <2> QED  BY <2>2, <2>3
  <1>3. CASE Settings!DetailArrives
    <2>1. /\ Settings!Shown # 0 /\ held' = [held EXCEPT ![Settings!Shown] = server[Settings!Shown]]
          /\ form' = Settings!Settled(form, known, way, held')
          /\ UNCHANGED <<server, known, way, out, asked, sent, others, past, count>>
      BY <1>3 DEF Settings!DetailArrives
    <2>2. held' \in Details  BY <1>y, <1>h, <2>1 DEF Details
    <2>3. /\ form' \in Settings!Pages /\ SoundAsks(form')
          /\ form'.club = form.club \/ (~way /\ known # None /\ \A c \in Numbers : known[c] # form.club)
      BY <1>y, <2>1, <2>2, SettingsSettled
    <2>4. Settings!PageInv'  BY <1>y, <1>p, <2>1, <2>2, <2>3
    <2>5. Settings!FollowInv'  BY <1>t, <1>y, <1>f, <2>1, <2>3, SettingsFollow
    <2> QED  BY <2>4, <2>5
  <1>4. CASE Settings!Other
    <2>1. PICK c \in Numbers : server' = [server EXCEPT ![c].active = ~@]  BY <1>4 DEF Settings!Other
    <2>2. /\ others < MaxOthers /\ others' = others + 1
          /\ UNCHANGED <<known, way, held, form, out, asked, sent, past, count>>
      BY <1>4 DEF Settings!Other
    <2>3. server' \in [Numbers -> Settings!Values] /\ \A d \in Numbers : server'[d].name = server[d].name
      BY <1>y, <2>1 DEF Settings!Values
    <2>4. others' \in 0 .. MaxOthers  BY <1>n, <1>y, <2>2
    <2>5. Settings!PageInv'  BY <1>y, <1>p, <2>2, <2>3, <2>4
    <2>6. Settings!FollowInv'
      <3>1. out # None => out.id \in Numbers  BY <1>y DEF Settings!Sent, Settings!Saves
      <3>2. [d \in Numbers |-> server'[d].name] = [d \in Numbers |-> server[d].name]  BY <2>3
      <3>3. Settings!Renaming' = Settings!Renaming  BY <2>2 DEF Settings!Renaming
      <3> QED  BY <1>f, <1>y, <2>2, <2>3, <3>1, <3>2, <3>3 DEF Settings!FollowInv
    <2> QED  BY <2>5, <2>6
  <1>5. CASE Settings!Pick
    <2>1. PICK c \in Numbers : /\ form' = Settings!Settled([form EXCEPT !.club = known[c]], known, way, held)
                              /\ past' = Settings!Current(known[c])
      BY <1>5 DEF Settings!Pick
    <2>2. known # None /\ UNCHANGED <<server, known, way, held, out, asked, sent, others, count>>
      BY <1>5 DEF Settings!Pick
    <2> DEFINE p == [form EXCEPT !.club = known[c]]
    <2>3. p \in Settings!Pages /\ p.ask = form.ask /\ p.club = known[c]
      BY <1>y, <2>2 DEF Settings!Pages, Lists
    <2>4. form' = Settings!Settled(p, known, way, held)  BY <2>1
    <2> HIDE DEF p
    <2>5. SoundAsks(p)  BY <1>y, <2>3 DEF SoundAsks
    <2>6. /\ form' \in Settings!Pages /\ SoundAsks(form')
          /\ form'.club = known[c] \/ (~way /\ known # None /\ \A d \in Numbers : known[d] # known[c])
      BY <1>y, <2>3, <2>4, <2>5, SettingsSettled
    <2>7. past' \in Numbers \cup {0} /\ (past' # 0 => server[past'].name = known[c])  BY <1>c, <2>1
    <2>8. Settings!PageInv'  BY <1>y, <1>p, <2>2, <2>6, <2>7
    <2>9. Settings!FollowInv'  BY <1>t, <1>y, <1>f, <2>2, <2>6, <2>7, SettingsFollow
    <2> QED  BY <2>8, <2>9
  <1>6. CASE Settings!AnswerSwitch
    <2>1. PICK a \in form.ask :
            \/ /\ form' = Settings!Settled(Settings!ResetTo([form EXCEPT !.ask = @ \ {a}], a.to), known, way, held)
               /\ past' = past
            \/ /\ form' = Settings!Settled([[form EXCEPT !.ask = @ \ {a}] EXCEPT !.club = a.back], known, way, held)
               /\ past' = Settings!Current(a.back)
      BY <1>6 DEF Settings!AnswerSwitch
    <2>2. UNCHANGED <<server, known, way, held, out, asked, sent, others, count>>  BY <1>6 DEF Settings!AnswerSwitch
    <2>3. a.to \in Titles \cup {None} /\ a.back \in Titles \cup {None}  BY <1>g, <2>1 DEF Settings!Asks
    <2> DEFINE p == [form EXCEPT !.ask = @ \ {a}]
    <2>4. p \in Settings!Pages /\ p.ask \subseteq form.ask /\ p.club = form.club
      BY <1>y DEF Settings!Pages
    <2>5. \/ form' = Settings!Settled(Settings!ResetTo(p, a.to), known, way, held) /\ past' = past
          \/ form' = Settings!Settled([p EXCEPT !.club = a.back], known, way, held) /\ past' = Settings!Current(a.back)
      BY <2>1
    <2> HIDE DEF p
    <2>6. PICK q, n : /\ q \in Settings!Pages /\ q.ask \subseteq form.ask /\ q.club = n
                      /\ form' = Settings!Settled(q, known, way, held)
                      /\ past' \in Numbers \cup {0}
                      /\ ~count /\ past' # 0 /\ ~Settings!Renaming => server[past'].name = n
      <3>1. CASE form' = Settings!Settled(Settings!ResetTo(p, a.to), known, way, held) /\ past' = past
        <4> DEFINE q == Settings!ResetTo(p, a.to)
        <4>1. q \in Settings!Pages /\ q.ask = p.ask /\ q.club = form.club  BY <2>3, <2>4, SettingsResetTo
        <4>2. form' = Settings!Settled(q, known, way, held)  BY <3>1
        <4> HIDE DEF q
        <4> QED  BY <1>y, <1>f, <2>4, <3>1, <4>1, <4>2
      <3>2. CASE form' = Settings!Settled([p EXCEPT !.club = a.back], known, way, held) /\ past' = Settings!Current(a.back)
        <4> DEFINE q == [p EXCEPT !.club = a.back]
        <4>1. q \in Settings!Pages /\ q.ask = p.ask /\ q.club = a.back  BY <2>3, <2>4 DEF Settings!Pages
        <4>2. form' = Settings!Settled(q, known, way, held)  BY <3>2
        <4> HIDE DEF q
        <4> QED  BY <1>c, <2>4, <3>2, <4>1, <4>2
      <3> QED  BY <2>5, <3>1, <3>2
    <2>7. SoundAsks(q)  BY <1>y, <2>6 DEF SoundAsks
    <2>8. /\ form' \in Settings!Pages /\ SoundAsks(form')
          /\ form'.club = n \/ (~way /\ known # None /\ \A d \in Numbers : known[d] # n)
      <3> DEFINE f == Settings!Settled(q, known, way, held)
      <3>1. q \in Settings!Pages /\ SoundAsks(q)  BY <2>6, <2>7
      <3>2. known \in Lists \cup {None} /\ way \in BOOLEAN /\ held \in Details  BY <1>y
      <3>3. /\ f \in Settings!Pages /\ SoundAsks(f)
            /\ f.club = q.club \/ (~way /\ known # None /\ \A d \in Numbers : known[d] # q.club)
        BY <3>1, <3>2, SettingsSettled
      <3>4. form' = f /\ q.club = n  BY <2>6
      <3> HIDE DEF f
      <3> QED  BY <3>3, <3>4
    <2>9. Settings!PageInv'  BY <1>y, <1>p, <2>2, <2>6, <2>8
    <2>10. Settings!FollowInv'  BY <1>t, <1>y, <1>f, <2>2, <2>6, <2>8, SettingsFollow
    <2> QED  BY <2>9, <2>10
  <1>7. CASE Settings!Type
    <2>1. PICK v \in Settings!Values : form' = [form EXCEPT !.form = v]  BY <1>7 DEF Settings!Type
    <2>2. UNCHANGED <<server, known, way, held, out, asked, sent, others, past, count>>  BY <1>7 DEF Settings!Type
    <2>3. form' \in Settings!Pages /\ form'.club = form.club /\ form'.ask = form.ask  BY <1>y, <2>1 DEF Settings!Pages
    <2>4. Settings!PageInv'  BY <1>y, <1>p, <2>2, <2>3 DEF SoundAsks
    <2>5. Settings!FollowInv'  BY <1>t, <1>y, <1>f, <2>2, <2>3, SettingsFollow
    <2> QED  BY <2>4, <2>5
  <1>send. ASSUME NEW r, Settings!Sent(r), r.reply = None, Settings!Send(r), form' \in Settings!Pages, SoundAsks(form'),
                  form'.club = form.club, UNCHANGED <<server, known, way, held, asked, others, past>>
           PROVE  Settings!Inv'
    <2>1. /\ out = None /\ sent < MaxSaves /\ sent' = sent + 1 /\ out' = r
          /\ count' = (count \/ r.from # server[r.id].name)
      BY <1>send DEF Settings!Send
    <2>2. sent' \in 0 .. MaxSaves  BY <1>n, <1>y, <2>1
    <2>3. Settings!PageInv'  BY <1>y, <1>p, <1>send, <2>1, <2>2
    <2>4. ~Settings!Renaming /\ ~Settings!Renaming'  BY <1>send, <2>1 DEF Settings!Renaming
    <2>5. Settings!FollowInv'  BY <1>f, <1>y, <1>send, <2>1, <2>4 DEF Settings!FollowInv
    <2> QED  BY <2>3, <2>5
  <1>8. CASE Settings!Save
    <2> DEFINE r == Settings!Request
    <2>1. r.reply = None /\ Settings!Sent(r)
      <3>1. /\ Settings!Shown \in Numbers /\ form.form \in Settings!Values /\ form.saved \in Settings!Values
        BY <1>8, <1>g, <1>h DEF Settings!Save, Settings!Dirty
      <3>2. /\ Settings!ChangesOf(form) \in Settings!Changes
            /\ \A f \in Settings!ChangesOf(form) : form.form[f] # form.saved[f]
        BY DEF Settings!ChangesOf, Settings!Changes
      <3> QED  BY <1>g, <3>1, <3>2 DEF Settings!Request, Settings!Sent, Settings!Saves
    <2>2. /\ \/ /\ form' = [form EXCEPT !.ask = {Settings!Ask("disable", None, None, 0, r)}]
                /\ UNCHANGED <<out, sent, count>>
             \/ Settings!Send(r) /\ form' = form
          /\ UNCHANGED <<server, known, way, held, asked, others, past>>
      BY <1>8 DEF Settings!Save
    <2> HIDE DEF r
    <2>3. CASE Settings!Send(r) /\ form' = form  BY <1>send, <1>y, <2>1, <2>2, <2>3
    <2>4. CASE form' = [form EXCEPT !.ask = {Settings!Ask("disable", None, None, 0, r)}] /\ UNCHANGED <<out, sent, count>>
      <3> DEFINE b == Settings!Ask("disable", None, None, 0, r)
      <3>1. b \in Settings!Asks /\ b.what = "disable" /\ b.request = r
        BY <2>1 DEF Settings!Ask, Settings!Asks, Settings!Sent
      <3>2. form' = [form EXCEPT !.ask = {b}]  BY <2>4
      <3> HIDE DEF b
      <3>3. form' \in Settings!Pages /\ form'.club = form.club /\ form'.ask = {b}  BY <1>y, <3>1, <3>2 DEF Settings!Pages
      <3>4. SoundAsks(form')  BY <2>1, <3>1, <3>3 DEF SoundAsks, Settings!SoundAsk
      <3>5. Settings!PageInv'  BY <1>y, <1>p, <2>2, <2>4, <3>3, <3>4
      <3>6. Settings!FollowInv'  BY <1>t, <1>y, <1>f, <2>2, <2>4, <3>3, SettingsFollow
      <3> QED  BY <3>5, <3>6
    <2> QED  BY <2>2, <2>3, <2>4
  <1>9. CASE Settings!AskReset
    <2> DEFINE b == Settings!Ask("reset", None, None, Settings!Shown, None)
    <2>1. /\ Settings!Shown # 0 /\ form' = [form EXCEPT !.ask = {b}]
          /\ UNCHANGED <<server, known, way, held, out, asked, sent, others, past, count>>
      BY <1>9 DEF Settings!AskReset
    <2>2. b \in Settings!Asks /\ b.what = "reset" /\ b.id # 0
      BY <1>h, <2>1 DEF Settings!Ask, Settings!Asks
    <2> HIDE DEF b
    <2>3. form' \in Settings!Pages /\ form'.club = form.club /\ form'.ask = {b}  BY <1>y, <2>1, <2>2 DEF Settings!Pages
    <2>4. SoundAsks(form')  BY <2>2, <2>3 DEF SoundAsks, Settings!SoundAsk
    <2>5. Settings!PageInv'  BY <1>y, <1>p, <2>1, <2>3, <2>4
    <2>6. Settings!FollowInv'  BY <1>t, <1>y, <1>f, <2>1, <2>3, SettingsFollow
    <2> QED  BY <2>5, <2>6
  <1>10. CASE Settings!Confirm
    <2>1. PICK a \in form.ask : /\ form' = [form EXCEPT !.ask = @ \ {a}]
                               /\ \/ a.what = "disable" /\ Settings!Send(a.request) /\ asked' = asked
                                  \/ a.what = "reset" /\ asked' = a.id /\ UNCHANGED <<out, sent, count>>
                                  \/ UNCHANGED <<out, sent, asked, count>>
      BY <1>10 DEF Settings!Confirm
    <2>2. UNCHANGED <<server, known, way, held, others, past>>  BY <1>10 DEF Settings!Confirm
    <2>3. form' \in Settings!Pages /\ form'.club = form.club /\ form'.ask \subseteq form.ask
      BY <1>y, <2>1 DEF Settings!Pages
    <2>4. SoundAsks(form') /\ Settings!SoundAsk(a)  BY <1>y, <2>1, <2>3 DEF SoundAsks
    <2>5. CASE a.what = "disable" /\ Settings!Send(a.request) /\ asked' = asked
      BY <1>send, <2>2, <2>3, <2>4, <2>5 DEF Settings!SoundAsk
    <2>6. CASE asked' \in {asked, a.id} /\ (a.what = "reset" \/ asked' = asked) /\ UNCHANGED <<out, sent, count>>
      <3>1. a.id \in Numbers \cup {0} /\ (a.what = "reset" => a.id # 0)
        BY <1>g, <2>1, <2>4 DEF Settings!Asks, Settings!SoundAsk
      <3>2. asked' \in Numbers \cup {None}  BY <1>y, <2>6, <3>1
      <3>3. Settings!PageInv'  BY <1>y, <1>p, <2>2, <2>3, <2>4, <2>6, <3>2
      <3>4. Settings!FollowInv'  BY <1>t, <1>y, <1>f, <2>2, <2>3, <2>6, SettingsFollow
      <3> QED  BY <3>3, <3>4
    <2> QED  BY <2>1, <2>5, <2>6
  <1>11. CASE Settings!ClosePassword
    <2>1. form' = [form EXCEPT !.pw = 0] /\ UNCHANGED <<server, known, way, held, out, asked, sent, others, past, count>>
      BY <1>11 DEF Settings!ClosePassword
    <2>2. form' \in Settings!Pages /\ form'.club = form.club /\ form'.ask = form.ask  BY <1>y, <2>1 DEF Settings!Pages
    <2>3. Settings!PageInv'  BY <1>y, <1>p, <2>1, <2>2 DEF SoundAsks
    <2>4. Settings!FollowInv'  BY <1>t, <1>y, <1>f, <2>1, <2>2, SettingsFollow
    <2> QED  BY <2>3, <2>4
  <1>12. CASE Settings!Serve
    <2> DEFINE new == [name   |-> IF "name" \in out.fields THEN out.values.name ELSE server[out.id].name,
                       active |-> IF "active" \in out.fields THEN out.values.active ELSE server[out.id].active]
    <2>1. /\ out # None /\ out.reply = None /\ \A c \in Numbers \ {out.id} : server[c].name # new.name
          /\ server' = [server EXCEPT ![out.id] = new] /\ out' = [out EXCEPT !.reply = new]
          /\ UNCHANGED <<known, way, held, form, asked, sent, others, past, count>>
      BY <1>12 DEF Settings!Serve
    <2>2. /\ out \in Settings!Saves /\ out.id \in Numbers /\ out.values \in Settings!Values
          /\ \A f \in out.fields : out.values[f] # out.base[f]
      BY <1>y, <2>1 DEF Settings!Sent, Settings!Saves
    <2>3. new \in Settings!Values  BY <1>y, <2>2 DEF Settings!Values
    <2> HIDE DEF new
    <2>4. server' \in [Numbers -> Settings!Values]  BY <1>y, <2>1, <2>3
    <2>5. /\ out' \in Settings!Saves /\ out'.id = out.id /\ out'.from = out.from /\ out'.reply = new
          /\ out'.values = out.values /\ out'.base = out.base /\ out'.fields = out.fields
      BY <2>1, <2>2, <2>3 DEF Settings!Saves
    <2>6. Settings!Sent(out')  BY <2>2, <2>5 DEF Settings!Sent
    <2>7. Settings!PageInv'  BY <1>y, <1>p, <2>1, <2>4, <2>6
    <2>8. Settings!FollowInv'
      <3>1. new # None  BY <1>n, <2>3
      <3>2. server'[out.id] = new /\ \A c \in Numbers \ {out.id} : server'[c] = server[c]  BY <1>y, <2>1, <2>2
      <3>3. \A c, d \in Numbers : server'[c].name = server'[d].name => c = d  BY <1>f, <2>1, <3>2
      <3>4. ~Settings!Renaming  BY <2>1 DEF Settings!Renaming
      <3>5. ASSUME ~count, ~Settings!Renaming' PROVE \A c \in Numbers : server'[c].name = server[c].name
        <4>1. out' # None => new.name = out.from  BY <3>1, <3>5, <2>5 DEF Settings!Renaming
        <4>2. server[out.id].name = out.from  BY <1>f, <2>1, <3>5
        <4>3. out' # None  BY <1>n, <2>5
        <4> QED  BY <3>2, <4>1, <4>2, <4>3
      <3>6. ASSUME ~count, ~Settings!Renaming'
            PROVE  [c \in Numbers |-> server'[c].name] = [c \in Numbers |-> server[c].name]
        BY <3>5, <3>6
      <3> QED  BY <1>f, <1>y, <2>1, <2>5, <3>1, <3>2, <3>3, <3>4, <3>5, <3>6 DEF Settings!FollowInv
    <2> QED  BY <2>7, <2>8
  <1>13. CASE Settings!SaveArrives
    <2> DEFINE p == [form EXCEPT !.form = out.reply, !.saved = out.reply, !.of = out.id]
    <2>1. /\ out # None /\ out.reply # None /\ out' = None /\ way' = TRUE
          /\ IF out.reply.name # out.from
             THEN /\ form' = Settings!Settled([p EXCEPT !.club = out.reply.name, !.last = out.reply.name], known, TRUE, held)
                  /\ past' = out.id
             ELSE form' = Settings!Settled(p, known, TRUE, held) /\ past' = past
          /\ UNCHANGED <<server, known, held, asked, sent, others, count>>
      BY <1>13 DEF Settings!SaveArrives
    <2>2. out.reply \in Settings!Values /\ out.id \in Numbers /\ out.reply.name \in Titles
      BY <1>y, <2>1 DEF Settings!Sent, Settings!Saves, Settings!Values
    <2>3. p \in Settings!Pages /\ p.ask = form.ask /\ p.club = form.club  BY <1>y, <2>2 DEF Settings!Pages
    <2> HIDE DEF p
    <2>4. ~Settings!Renaming'  BY <2>1 DEF Settings!Renaming
    <2>5. CASE out.reply.name # out.from
      <3> DEFINE q == [p EXCEPT !.club = out.reply.name, !.last = out.reply.name]
      <3>1. q \in Settings!Pages /\ q.ask = form.ask /\ q.club = out.reply.name  BY <2>2, <2>3 DEF Settings!Pages
      <3>2. form' = Settings!Settled(q, known, TRUE, held) /\ past' = out.id  BY <2>1, <2>5
      <3> HIDE DEF q
      <3>3. SoundAsks(q)  BY <1>y, <3>1 DEF SoundAsks
      <3>4. form' \in Settings!Pages /\ SoundAsks(form') /\ form'.club = out.reply.name
        BY <1>y, <3>1, <3>2, <3>3, SettingsSettled
      <3>5. Settings!PageInv'  BY <1>y, <1>p, <2>1, <2>2, <3>2, <3>4
      <3>6. Settings!FollowInv'  BY <1>f, <2>1, <2>4, <3>2, <3>4 DEF Settings!FollowInv
      <3> QED  BY <3>5, <3>6
    <2>6. CASE out.reply.name = out.from
      <3>1. form' = Settings!Settled(p, known, TRUE, held) /\ past' = past  BY <2>1, <2>6
      <3>2. SoundAsks(p)  BY <1>y, <2>3 DEF SoundAsks
      <3>3. form' \in Settings!Pages /\ SoundAsks(form') /\ form'.club = form.club
        BY <1>y, <2>3, <3>1, <3>2, SettingsSettled
      <3>4. Settings!PageInv'  BY <1>y, <1>p, <2>1, <3>1, <3>3
      <3>5. ~Settings!Renaming  BY <2>6 DEF Settings!Renaming
      <3>6. Settings!FollowInv'  BY <1>f, <2>1, <2>4, <3>1, <3>3, <3>5 DEF Settings!FollowInv
      <3> QED  BY <3>4, <3>6
    <2> QED  BY <2>5, <2>6
  <1>14. CASE Settings!SaveFails
    <2>1. out' = None /\ count' = TRUE /\ UNCHANGED <<server, known, way, held, form, asked, sent, others, past>>
      BY <1>14 DEF Settings!SaveFails
    <2>2. Settings!PageInv'  BY <1>y, <1>p, <2>1
    <2>3. Settings!FollowInv'  BY <1>f, <2>1 DEF Settings!FollowInv
    <2> QED  BY <2>2, <2>3
  <1>15. CASE Settings!ResetArrives
    <2>1. /\ asked # None /\ asked' = None
          /\ \/ form' = [form EXCEPT !.pw = asked] /\ way' = TRUE
             \/ UNCHANGED <<form, way>>
          /\ UNCHANGED <<server, known, held, out, sent, others, past, count>>
      BY <1>15 DEF Settings!ResetArrives
    <2>2. form' \in Settings!Pages /\ form'.club = form.club /\ form'.ask = form.ask  BY <1>y, <2>1 DEF Settings!Pages
    <2>3. Settings!PageInv'  BY <1>y, <1>p, <2>1, <2>2 DEF SoundAsks
    <2>4. Settings!FollowInv'  BY <1>t, <1>y, <1>f, <2>1, <2>2, SettingsFollow
    <2> QED  BY <2>3, <2>4
  <1>16. CASE UNCHANGED Settings!vars
    <2>1. UNCHANGED <<server, known, way, held, form, out, asked, sent, others, past, count>>
      BY <1>16 DEF Settings!vars
    <2>2. Settings!PageInv'  BY <1>y, <1>p, <2>1
    <2>3. Settings!FollowInv'  BY <1>t, <1>y, <1>f, <2>1, SettingsFollow
    <2> QED  BY <2>2, <2>3
  <1> QED
    BY <1>0, <1>1, <1>2, <1>3, <1>4, <1>5, <1>6, <1>7, <1>8, <1>9, <1>10, <1>11, <1>12, <1>13, <1>14, <1>15, <1>16
    DEF Settings!Next

\* The state of the clubs' settings at the office is sound for any clubs, names and bounds.
THEOREM SettingsAreSound == Spec => [](page = "settings" => Settings!Inv)
  <1>1. Init => (page = "settings" => Settings!Inv)  BY SettingsInit
  <1>2. (page = "settings" => Settings!Inv) /\ [Next]_vars => (page = "settings" => Settings!Inv)'
    BY SettingsStep, PageStays
  <1> QED  BY <1>1, <1>2, PTL DEF Spec

\* The page of a club's settings stays with the club through a change of its name, unless
\* something failed or a club was saved under a name it no longer had.
THEOREM ClubIsFollowed == Spec => []RenameIsFollowed
  <1>1. (page = "settings" => Settings!Inv) => RenameIsFollowed
    <2> SUFFICES ASSUME page = "settings", Settings!Inv, ~count, past # 0, out = None, ~way PROVE Settings!Shown \in {0, past}
      BY DEF RenameIsFollowed, Settings!RenameIsFollowed
    <2>1. /\ past \in Numbers /\ known \in Lists \cup {None} /\ server \in [Numbers -> Settings!Values]
      BY DEF Settings!PageInv, Lists
    <2>2. ~Settings!Renaming  BY DEF Settings!Renaming
    <2>3. /\ known = [c \in Numbers |-> server[c].name] /\ form.club = server[past].name
          /\ \A c, d \in Numbers : server[c].name = server[d].name => c = d
      BY <2>2 DEF Settings!FollowInv
    <2>4. ASSUME Settings!Shown # 0 PROVE Settings!Shown = past
      <3>1. Settings!Shown \in Numbers /\ known[Settings!Shown] = form.club
        BY <2>1, <2>4, SettingsIdOf DEF Settings!Shown
      <3> QED  BY <2>1, <2>3, <3>1
    <2> QED  BY <2>4
  <1> QED  BY <1>1, SettingsAreSound, PTL

\* The server writes only what the save's author changed.
LEMMA SettingsKeepOthers ==
  ASSUME page = "settings", Settings!Inv, [Next]_vars
  PROVE  Settings!KeepsOthers
  <1>0. [Settings!Next]_(Settings!vars)  BY DEF Next, vars, Settings!vars
  <1> SUFFICES ASSUME out # None, out.reply = None, server' # server, out' # out, NEW f \in {"name", "active"},
                      server'[out.id][f] # server[out.id][f]
               PROVE  out.values[f] # out.base[f]
    BY DEF Settings!KeepsOthers
  <1>1. Settings!Serve
    BY <1>0 DEF Settings!Next, Settings!vars, Settings!ListArrives, Settings!ListAgain, Settings!DetailArrives, Settings!Other,
       Settings!Pick, Settings!AnswerSwitch, Settings!Type, Settings!Save, Settings!AskReset, Settings!Confirm,
       Settings!ClosePassword, Settings!SaveArrives, Settings!SaveFails, Settings!ResetArrives
  <1>2. /\ server \in [Numbers -> Settings!Values] /\ out.id \in Numbers
        /\ \A g \in out.fields : out.values[g] # out.base[g]
    BY DEF Settings!PageInv, Settings!Sent, Settings!Saves
  <1> DEFINE new == [name   |-> IF "name" \in out.fields THEN out.values.name ELSE server[out.id].name,
                     active |-> IF "active" \in out.fields THEN out.values.active ELSE server[out.id].active]
  <1>3. server' = [server EXCEPT ![out.id] = new]  BY <1>1 DEF Settings!Serve
  <1>4. f \notin out.fields => new[f] = server[out.id][f]
    <2>1. CASE f = "name"  BY <2>1
    <2>2. CASE f = "active"  BY <2>2
    <2> QED  BY <2>1, <2>2
  <1> HIDE DEF new
  <1>5. server'[out.id] = new  BY <1>2, <1>3
  <1> QED  BY <1>2, <1>4, <1>5

\* A save of a club's settings keeps what another official has changed meanwhile.
THEOREM ColleaguesAreKept == Spec => OthersAreKept
  <1>1. (page = "settings" => Settings!Inv) /\ [Next]_vars => (page = "settings" => Settings!KeepsOthers)
    BY SettingsKeepOthers
  <1> QED  BY <1>1, SettingsAreSound, PTL DEF Spec, OthersAreKept
HIDE DEF Settings!Inv

(***************************************************************************)
(* The review of activities.                                               *)
(***************************************************************************)
USE DEF Review!Inv

\* The list shows the activity as it is, and there is no window.
LEMMA ReviewInit == ASSUME Init, page = "review" PROVE Review!Inv
  <1>0. Review!ReviewAssumption /\ Review!Init  BY PagesAssumption DEF Init
  <1>1. /\ server \in Review!Activities
        /\ past = "apply" => server.status \in Review!Pending
        /\ past \in {"apply", "close"}
        /\ past = "close" => server.status = "closing_pending"
        /\ held = server /\ known \in {None, server} /\ way = Review!Fetch("idle") /\ form = None
        /\ sent = 0 /\ others = 0 /\ out = {}
    BY <1>0 DEF Review!Init
  <1>2. server \in Review!Rows /\ server.item = 0 /\ server.report = 0 /\ server.fund = "" /\ server.asked \in Review!Amounts
    <2> DEFINE x == server
    <2>0. x \in Review!Activities  BY <1>1
    <2>1. x.status \in Review!Statuses  BY <2>0 DEF Review!Activities, Review!Statuses, Review!Pending
    <2>2. x.asked \in Review!Amounts /\ x.granted \in {None} \cup Review!Amounts
      BY <2>0 DEF Review!Activities, Review!Amounts
    <2>3. x.note \in Review!Notes /\ x.fund \in Review!Funds /\ x.large \in BOOLEAN
      BY <2>0 DEF Review!Activities, Review!Notes, Review!Funds
    <2>4. x.full \in SUBSET Checks /\ x.flags \in SUBSET Checks  BY <2>0 DEF Review!Activities
    <2>5. x.item = 0 /\ x.report = 0 /\ x.fund = ""  BY <2>0 DEF Review!Activities
    <2>6. x = [status |-> x.status, item |-> x.item, asked |-> x.asked, granted |-> x.granted, fund |-> x.fund,
               note |-> x.note, large |-> x.large, report |-> x.report, full |-> x.full, flags |-> x.flags]
      BY <2>0 DEF Review!Activities
    <2>7. x \in Review!Rows
      <3>0. \A k : k = 0 => k \in Nat  OBVIOUS
      <3>1. x.item \in Nat /\ x.report \in Nat  BY <2>5, <3>0, Zenon
      <3> HIDE DEF x
      <3> QED  BY <2>1, <2>2, <2>3, <2>4, <2>6, <3>1 DEF Review!Rows
    <2> QED  BY <2>2, <2>5, <2>7
  <1>3. way \in [at: {"idle", "failed", "sent", "served"}, detail: Review!Rows \cup {None}] /\ way.at = "idle"
    BY <1>1 DEF Review!Fetch
  <1>4. Review!TypeInv  BY <1>1, <1>2, <1>3 DEF Review!TypeInv
  <1>5. Review!CopiesInv
    <2> DEFINE n == server.report
               m == server.item
    <2>0. n = 0 /\ m = 0  BY <1>2
    <2>1. n <= n /\ m <= m
      <3> HIDE DEF n, m
      <3> QED  BY <2>0
    <2>2. Review!Copy(server)  BY <1>2, <2>1 DEF Review!Copy
    <2> QED  BY <1>1, <1>2, <1>3, <2>2 DEF Review!CopiesInv
  <1>6. Review!FreshInv /\ Review!OneInv  BY <1>1 DEF Review!FreshInv, Review!OneInv
  <1> QED  BY <1>1, <1>4, <1>5, <1>6

\* What is asked for and what is granted are amounts, and so is the least of them.
LEMMA ReviewAmounts ==
  ASSUME NEW a \in Review!Amounts, NEW b \in Review!Amounts
  PROVE  Review!AtMost(a, b) \in Review!Amounts /\ Review!AtMost(a, b) <= b
  <1>1. MaxAsked \in Nat  BY PagesAssumption DEF Review!ReviewAssumption
  <1> QED  BY <1>1 DEF Review!AtMost, Review!Amounts

\* The activity changes by what the others do, or by a request that is accepted: its
\* reports are numbered upwards, a line asks for what it asked for, and comes to its
\* first stage only by being replaced.
Moves ==
    /\ server' \in Review!Rows
    /\ server'.report >= server.report /\ server'.item >= server.item
    /\ server'.item = server.item => /\ server'.asked = server.asked
                                     /\ server'.status = "pending_advisor" => server' = server
    /\ server'.item > server.item /\ server'.status = "pending_advisor" => server'.fund = "" /\ server'.granted = None
    /\ server'.fund = "school" => server'.granted # None /\ server'.granted > 0

\* Such a step leaves every copy of the activity a copy, and what is sent sound.
LEMMA ReviewMoves ==
  ASSUME Review!TypeInv, Review!CopiesInv, Moves
  PROVE  /\ server'.status = "pending_advisor" => server'.fund = "" /\ (server'.granted # None => server'.item = 0)
         /\ server'.fund = "school" => server'.granted # None /\ server'.granted > 0
         /\ \A x : Review!Copy(x) => Review!Copy(x)'
         /\ \A r \in Review!Sendable : Review!Sound(r) => Review!Sound(r)'
  <1>1. server \in Review!Rows /\ server' \in Review!Rows  BY DEF Review!TypeInv, Moves
  <1>2. /\ server.item \in Nat /\ server'.item \in Nat /\ server.report \in Nat /\ server'.report \in Nat
        /\ server.asked \in Review!Amounts
    BY <1>1 DEF Review!Rows
  <1>3. server'.item >= server.item /\ server'.report >= server.report  BY DEF Moves
  <1>4. server'.item = server.item \/ server'.item > server.item  BY <1>2, <1>3
  <1>5. /\ server.status = "pending_advisor" => server.fund = "" /\ (server.granted # None => server.item = 0)
        /\ server.fund = "school" => server.granted # None /\ server.granted > 0
    BY DEF Review!CopiesInv
  <1>6. server'.item = server.item => server'.asked = server.asked  BY DEF Moves
  <1>7. server'.item = server.item /\ server'.status = "pending_advisor" => server' = server  BY DEF Moves
  <1>8. server'.item > server.item /\ server'.status = "pending_advisor" => server'.fund = "" /\ server'.granted = None
    BY DEF Moves
  <1>9. server'.fund = "school" => server'.granted # None /\ server'.granted > 0  BY DEF Moves
  <1>10. server'.status = "pending_advisor" => server'.fund = "" /\ (server'.granted # None => server'.item = 0)
    BY <1>4, <1>5, <1>7, <1>8
  <1>11. ASSUME NEW x, Review!Copy(x) PROVE Review!Copy(x)'
    <2>1. x \in Review!Rows /\ x.report <= server.report /\ x.item <= server.item  BY <1>11 DEF Review!Copy
    <2>2. x.item \in Nat /\ x.report \in Nat  BY <2>1 DEF Review!Rows
    <2>3. x.report <= server'.report /\ x.item <= server'.item  BY <1>2, <1>3, <2>1, <2>2
    <2>4. x.item = server'.item => server'.item = server.item  BY <1>2, <1>3, <2>1, <2>2
    <2>5. x.item = server.item => x.asked = server.asked  BY <1>11 DEF Review!Copy
    <2>6. x.item = server.item /\ server.status = "pending_advisor" => x.status = "pending_advisor" /\ x.fund = ""
      BY <1>11 DEF Review!Copy
    <2> QED  BY <1>6, <1>7, <2>1, <2>3, <2>4, <2>5, <2>6 DEF Review!Copy
  <1>12. ASSUME NEW r \in Review!Sendable, Review!Sound(r) PROVE Review!Sound(r)'
    <2>1. r.op = "close_approve" => r.judged >= r.since  BY <1>12 DEF Review!Sound
    <2>2. r.note # None => r.noted  BY <1>12 DEF Review!Sound
    <2>3. r.op = "approve" /\ r.item = None
            => r.amount = None /\ r.fund = "" /\ (server'.status # "pending_advisor" \/ server'.granted = None)
      <3>1. SUFFICES ASSUME r.op = "approve", r.item = None
                     PROVE  r.amount = None /\ r.fund = "" /\ (server'.status = "pending_advisor" => server'.granted = None)
        OBVIOUS
      <3>2. r.amount = None /\ r.fund = "" /\ (server.status # "pending_advisor" \/ server.granted = None)
        BY <1>12, <3>1 DEF Review!Sound
      <3>3. CASE server'.item = server.item  BY <1>7, <3>2, <3>3
      <3>4. CASE server'.item > server.item  BY <1>8, <3>2, <3>4
      <3> QED  BY <1>4, <3>3, <3>4
    <2>4. ASSUME r.op = "approve", r.item # None
          PROVE  /\ r.item <= server'.item /\ {r.amount, r.shown} \subseteq Review!Amounts
                 /\ r.item = server'.item => r.amount = Review!AtMost(r.shown, server'.asked)
                 /\ r.item = server'.item /\ server'.status = "pending_advisor" /\ r.fund = "school" => r.amount > 0
      <3>1. r.item \in Nat  BY <2>4 DEF Review!Sendable
      <3>2. r.item <= server.item /\ {r.amount, r.shown} \subseteq Review!Amounts  BY <1>12, <2>4 DEF Review!Sound
      <3>3. r.item = server.item => r.amount = Review!AtMost(r.shown, server.asked)  BY <1>12, <2>4 DEF Review!Sound
      <3>4. r.item = server.item /\ server.status = "pending_advisor" /\ r.fund = "school" => r.amount > 0
        BY <1>12, <2>4 DEF Review!Sound
      <3>5. r.item <= server'.item /\ (r.item = server'.item => server'.item = server.item)
        BY <1>2, <1>3, <3>1, <3>2
      <3> QED  BY <1>6, <1>7, <3>2, <3>3, <3>4, <3>5
    <2> QED  BY <2>1, <2>2, <2>3, <2>4 DEF Review!Sound, Review!Amounts, Review!AtMost
  <1> QED  BY <1>9, <1>10, <1>11, <1>12

\* A request is answered, or is not touched: what is sent stays sound.
LEMMA ReviewAnswered ==
  ASSUME Review!Inv, NEW r \in out, NEW wire \in {"sent", "ok", "no"},
         out' = (out \ {r}) \cup {[r EXCEPT !.wire = wire]}, UNCHANGED <<form, sent>>
  PROVE  out' \subseteq Review!Sendable /\ (\A q \in out' : Review!Sound(q)) /\ Review!OneInv'
  <1> DEFINE new == [r EXCEPT !.wire = wire]
  <1>1. r \in Review!Sendable /\ Review!Sound(r)  BY DEF Review!TypeInv
  <1>2. new \in Review!Sendable  BY <1>1 DEF Review!Sendable
  <1>3. /\ new.op = r.op /\ new.id = r.id /\ new.note = r.note /\ new.fund = r.fund /\ new.item = r.item
        /\ new.amount = r.amount /\ new.noted = r.noted /\ new.judged = r.judged /\ new.since = r.since /\ new.shown = r.shown
    BY <1>1 DEF Review!Sendable
  <1> HIDE DEF new
  <1>4. Review!Sound(new)  BY <1>1, <1>3 DEF Review!Sound
  <1>5. out' = (out \ {r}) \cup {new}  BY DEF new
  <1>6. \A q \in out' : (q \in out /\ q # r) \/ q = new  BY <1>5
  <1>7. out' \subseteq Review!Sendable  BY <1>2, <1>6 DEF Review!TypeInv
  <1>8. \A q \in out' : Review!Sound(q)  BY <1>4, <1>6
  <1>9. \A q \in out' : q.id <= sent'  BY <1>3, <1>6 DEF Review!OneInv
  <1>10. form' # None => form'.id <= sent' /\ (form'.fundTouched => form'.fund = "typed")  BY DEF Review!OneInv
  <1>11. \A q \in out' : q.op # "delete" /\ form' # None /\ q.id = form'.id => form'.submitting
    BY <1>3, <1>6 DEF Review!OneInv
  <1>12. ASSUME NEW p \in out', NEW q \in out', p.op # "delete", q.op # "delete", p.id = q.id PROVE p = q
    <2>1. \A x, y \in out : x.op # "delete" /\ y.op # "delete" /\ x.id = y.id => x = y  BY DEF Review!OneInv
    <2> QED  BY <1>3, <1>6, <1>12, <2>1
  <1> QED  BY <1>7, <1>8, <1>9, <1>10, <1>11, <1>12 DEF Review!OneInv

\* A step of the server leaves the window with copies that are sound, and not older than it.
LEMMA ReviewRow ==
  ASSUME Review!Inv, Moves, UNCHANGED <<past, held, known, way, form, sent>>, others' \in Nat,
         out' \subseteq Review!Sendable, \A q \in out' : Review!Sound(q), Review!OneInv'
  PROVE  Review!Inv'
  <1>1. /\ server'.status = "pending_advisor" => server'.fund = "" /\ (server'.granted # None => server'.item = 0)
        /\ server'.fund = "school" => server'.granted # None /\ server'.granted > 0
        /\ \A x : Review!Copy(x) => Review!Copy(x)'
        /\ \A r \in Review!Sendable : Review!Sound(r) => Review!Sound(r)'
    BY ReviewMoves
  <1>2. Review!TypeInv'  BY DEF Review!TypeInv, Moves
  <1>3. Review!CopiesInv'
    <2>1. /\ Review!Copy(held) /\ (known # None => Review!Copy(known)) /\ (way.at = "served" => Review!Copy(way.detail))
          /\ form # None => Review!Copy(form.row)
      BY DEF Review!CopiesInv
    <2>2. /\ Review!Copy(held)' /\ (known # None => Review!Copy(known)') /\ (way.at = "served" => Review!Copy(way.detail)')
          /\ form # None => Review!Copy(form.row)'
      BY <1>1, <2>1
    <2> QED  BY <1>1, <2>2 DEF Review!CopiesInv
  <1>4. Review!FreshInv'
    <2>1. SUFFICES ASSUME form # None PROVE form.since <= server'.report
      BY DEF Review!FreshInv
    <2>2. form.since <= server.report  BY <2>1 DEF Review!FreshInv
    <2>3. form.since \in Nat  BY <2>1 DEF Review!TypeInv, Review!Windows
    <2>4. server.report \in Nat /\ server'.report \in Nat  BY DEF Review!TypeInv, Moves, Review!Rows
    <2>5. server'.report >= server.report  BY DEF Moves
    <2> QED  BY <2>2, <2>3, <2>4, <2>5
  <1>5. \A q \in out' : Review!Sound(q)'  BY <1>1
  <1> QED  BY <1>2, <1>3, <1>4, <1>5

\* The fields of an activity, and of a request that is sent.
LEMMA ReviewFields ==
  ASSUME Review!Inv
  PROVE  /\ server \in Review!Rows /\ server.status \in Review!Statuses /\ server.item \in Nat /\ server.asked \in Review!Amounts
         /\ server.granted \in {None} \cup Review!Amounts /\ server.fund \in Review!Funds /\ server.note \in Review!Notes
         /\ server.large \in BOOLEAN /\ server.report \in Nat /\ server.full \in SUBSET Checks /\ server.flags \in SUBSET Checks
         /\ server.status = "pending_advisor" => server.fund = "" /\ (server.granted # None => server.item = 0)
         /\ server.fund = "school" => server.granted # None /\ server.granted > 0
  <1>1. server \in Review!Rows  BY DEF Review!TypeInv
  <1>2. /\ server.status = "pending_advisor" => server.fund = "" /\ (server.granted # None => server.item = 0)
        /\ server.fund = "school" => server.granted # None /\ server.granted > 0
    BY DEF Review!CopiesInv
  <1>3. /\ server.status \in Review!Statuses /\ server.item \in Nat /\ server.asked \in Review!Amounts
        /\ server.granted \in {None} \cup Review!Amounts /\ server.fund \in Review!Funds /\ server.note \in Review!Notes
        /\ server.large \in BOOLEAN /\ server.report \in Nat /\ server.full \in SUBSET Checks /\ server.flags \in SUBSET Checks
    BY <1>1 DEF Review!Rows
  <1> QED  BY <1>1, <1>2, <1>3

\* A signature leaves the line and the report, and goes beyond the first stage.
LEMMA ReviewSigned ==
  ASSUME Review!Inv, server' \in Review!Rows, server'.status # "pending_advisor",
         server'.item = server.item, server'.report = server.report, server'.asked = server.asked,
         server'.fund = "school" => server'.granted # None /\ server'.granted > 0
  PROVE  Moves
  <1>1. server.item \in Nat /\ server.report \in Nat  BY ReviewFields
  <1>2. \A k \in Nat : k >= k /\ ~(k > k)  OBVIOUS
  <1>3. server'.report >= server.report /\ server'.item >= server.item /\ ~(server'.item > server.item)
    BY <1>1, <1>2
  <1> QED  BY <1>3 DEF Moves

\* What nothing is granted to is done; the rest goes on to the next stage.
LEMMA ReviewSettles ==
  ASSUME NEW granted, NEW status
  PROVE  Review!Settles(granted, status) \in Review!Statuses \ {"pending_advisor"}
  BY DEF Review!Settles, Review!NextStatus, Review!Statuses, Review!Pending

\* Colleagues and the club, meanwhile, move the activity in that way.
LEMMA ReviewOthers == ASSUME Review!Inv, Review!Others PROVE Moves
  <1>0. /\ server \in Review!Rows /\ server.status \in Review!Statuses /\ server.item \in Nat /\ server.asked \in Review!Amounts
        /\ server.granted \in {None} \cup Review!Amounts /\ server.fund \in Review!Funds /\ server.note \in Review!Notes
        /\ server.large \in BOOLEAN /\ server.report \in Nat /\ server.full \in SUBSET Checks /\ server.flags \in SUBSET Checks
    BY ReviewFields
  <1>f. server.fund = "school" => server.granted # None /\ server.granted > 0  BY ReviewFields
  <1>n. \A k \in Nat : k >= k /\ ~(k > k) /\ k + 1 \in Nat /\ k + 1 >= k /\ k + 1 > k /\ k + 1 # k  OBVIOUS
  <1>1. CASE Review!ColleagueApproves
    <2>1. PICK g \in 0 .. server.asked, large \in BOOLEAN :
            LET first == server.status = "pending_advisor"
                granted == IF first THEN g ELSE server.granted IN
            server' = [server EXCEPT !.granted = granted, !.note = "theirs", !.large = IF first THEN large ELSE @,
                                     !.fund = IF first /\ g > 0 THEN "typed" ELSE @,
                                     !.status = Review!Settles(granted, server.status)]
      BY <1>1 DEF Review!ColleagueApproves
    <2> DEFINE first == server.status = "pending_advisor"
               granted == IF first THEN g ELSE server.granted
               fund == IF first /\ g > 0 THEN "typed" ELSE server.fund
               status == Review!Settles(granted, server.status)
               broad == IF first THEN large ELSE server.large
    <2>2. g \in Review!Amounts
      <3>1. MaxAsked \in Nat  BY PagesAssumption DEF Review!ReviewAssumption
      <3>2. server.asked \in 0 .. MaxAsked  BY <1>0 DEF Review!Amounts
      <3> DEFINE m == server.asked
      <3>3. m \in 0 .. MaxAsked /\ g \in 0 .. m  BY <3>2
      <3> HIDE DEF m
      <3>4. g \in 0 .. MaxAsked  BY <3>1, <3>3
      <3> QED  BY <3>4 DEF Review!Amounts
    <2>3. /\ granted \in {None} \cup Review!Amounts /\ broad \in BOOLEAN /\ "theirs" \in Review!Notes
          /\ fund \in Review!Funds
      BY <1>0, <2>2 DEF Review!Notes, Review!Funds
    <2>4. fund = "school" => granted # None /\ granted > 0
      <3>0. first => server.fund = ""  BY ReviewFields
      <3>1. fund = "school" => ~first  BY <3>0
      <3>2. ~first => granted = server.granted /\ fund = server.fund  OBVIOUS
      <3> HIDE DEF fund, granted, first
      <3> QED  BY <3>1, <3>2, <1>f
    <2>5. status \in Review!Statuses \ {"pending_advisor"}  BY ReviewSettles
    <2>6. server' = [server EXCEPT !.granted = granted, !.note = "theirs", !.large = broad, !.fund = fund, !.status = status]
      BY <2>1
    <2> HIDE DEF status, granted, fund, broad
    <2>7. server' \in Review!Rows  BY <1>0, <2>3, <2>5, <2>6 DEF Review!Rows
    <2>8. /\ server'.item = server.item /\ server'.report = server.report /\ server'.asked = server.asked
          /\ server'.status = status /\ server'.fund = fund /\ server'.granted = granted
      BY <1>0, <2>6 DEF Review!Rows
    <2> QED  BY <2>4, <2>5, <2>7, <2>8, ReviewSigned
  <1>2. CASE Review!ColleagueRejects
    <2>1. server' = [server EXCEPT !.status = "rejected"]  BY <1>2 DEF Review!ColleagueRejects
    <2>2. "rejected" \in Review!Statuses \ {"pending_advisor"}  BY DEF Review!Statuses
    <2>3. server' \in Review!Rows  BY <1>0, <2>1, <2>2 DEF Review!Rows
    <2>4. /\ server'.item = server.item /\ server'.report = server.report /\ server'.asked = server.asked
          /\ server'.status # "pending_advisor" /\ server'.fund = server.fund /\ server'.granted = server.granted
      BY <1>0, <2>1, <2>2 DEF Review!Rows
    <2> QED  BY <1>f, <2>3, <2>4, ReviewSigned
  <1>3. CASE Review!ClubResubmits
    <2>1. PICK asked_ \in Review!Amounts :
            server' = [server EXCEPT !.status = "pending_advisor", !.item = @ + 1, !.asked = asked_, !.granted = None, !.fund = ""]
      BY <1>3 DEF Review!ClubResubmits, Review!Amounts
    <2> DEFINE next == server.item + 1
    <2>2. next \in Nat /\ next > server.item /\ next >= server.item /\ next # server.item  BY <1>0, <1>n
    <2>3. server' = [server EXCEPT !.status = "pending_advisor", !.item = next, !.asked = asked_, !.granted = None, !.fund = ""]
      BY <2>1
    <2> HIDE DEF next
    <2>4. "pending_advisor" \in Review!Statuses /\ "" \in Review!Funds  BY DEF Review!Statuses, Review!Pending, Review!Funds
    <2>5. server' \in Review!Rows  BY <1>0, <2>2, <2>3, <2>4 DEF Review!Rows
    <2>6. server'.item = next /\ server'.report = server.report /\ server'.fund = "" /\ server'.granted = None
      BY <1>0, <2>3 DEF Review!Rows
    <2>7. server'.report >= server.report
      <3> QED  BY <1>0, <1>n, <2>6, Zenon
    <2> QED  BY <2>2, <2>5, <2>6, <2>7 DEF Moves
  <1>4. CASE Review!ColleagueCloses
    <2>0. "approved" \in Review!Statuses \ {"pending_advisor"} /\ "closed" \in Review!Statuses \ {"pending_advisor"}
      BY DEF Review!Statuses
    <2>1. PICK status \in Review!Statuses \ {"pending_advisor"}, flags \in SUBSET Checks :
            server' = [server EXCEPT !.status = status, !.flags = flags]
      <3>1. CASE server' = [server EXCEPT !.status = "approved"]
        <4>1. server' = [server EXCEPT !.status = "approved", !.flags = server.flags]  BY <1>0, <3>1 DEF Review!Rows
        <4> QED  BY <1>0, <2>0, <4>1
      <3>2. CASE \E flags \in SUBSET Checks : server' = [server EXCEPT !.status = "closed", !.flags = flags]
        <4>1. PICK flags \in SUBSET Checks : server' = [server EXCEPT !.status = "closed", !.flags = flags]
          BY <3>2
        <4> QED  BY <2>0, <4>1
      <3> QED  BY <1>4, <3>1, <3>2 DEF Review!ColleagueCloses
    <2>2. server' \in Review!Rows  BY <1>0, <2>1 DEF Review!Rows
    <2>3. /\ server'.item = server.item /\ server'.report = server.report /\ server'.asked = server.asked
          /\ server'.status # "pending_advisor" /\ server'.fund = server.fund /\ server'.granted = server.granted
      BY <1>0, <2>1 DEF Review!Rows
    <2> QED  BY <1>f, <2>2, <2>3, ReviewSigned
  <1>5. CASE Review!ClubReports
    <2>1. PICK full \in SUBSET Checks :
            server' = [server EXCEPT !.status = "closing_pending", !.report = @ + 1, !.full = full]
      BY <1>5 DEF Review!ClubReports
    <2> DEFINE next == server.report + 1
    <2>2. next \in Nat /\ next >= server.report  BY <1>0, <1>n
    <2>3. server' = [server EXCEPT !.status = "closing_pending", !.report = next, !.full = full]  BY <2>1
    <2> HIDE DEF next
    <2>4. "closing_pending" \in Review!Statuses  BY DEF Review!Statuses
    <2>5. server' \in Review!Rows  BY <1>0, <2>2, <2>3, <2>4 DEF Review!Rows
    <2>6. /\ server'.item = server.item /\ server'.report = next /\ server'.fund = server.fund /\ server'.granted = server.granted
          /\ server'.asked = server.asked /\ server'.status = "closing_pending"
      BY <1>0, <2>3 DEF Review!Rows
    <2>7. server'.item >= server.item /\ ~(server'.item > server.item)
      <3> QED  BY <1>0, <1>n, <2>6, Zenon
    <2>8. server'.fund = "school" => server'.granted # None /\ server'.granted > 0
      <3> QED  BY <2>6, <1>f
    <2> QED  BY <2>2, <2>5, <2>6, <2>7, <2>8 DEF Moves
  <1> QED  BY <1>1, <1>2, <1>3, <1>4, <1>5 DEF Review!Others

\* What the first stage decides is what a request for the line there is decides: the
\* source that is prefilled comes with an amount.
LEMMA ReviewFirstStage ==
  ASSUME Review!Inv, NEW r \in out, r.op = "approve", server.status = "pending_advisor", Review!FirstStage(r)
  PROVE  /\ Moves
         /\ server'.note # server.note => r.noted
         /\ server.asked > 0 => r.item = server.item /\ server'.granted = Review!AtMost(r.shown, server.asked)
  <1>0. /\ server \in Review!Rows /\ server.status \in Review!Statuses /\ server.item \in Nat /\ server.asked \in Review!Amounts
        /\ server.granted \in {None} \cup Review!Amounts /\ server.fund \in Review!Funds /\ server.note \in Review!Notes
        /\ server.large \in BOOLEAN /\ server.report \in Nat /\ server.full \in SUBSET Checks /\ server.flags \in SUBSET Checks
        /\ server.fund = ""
    BY ReviewFields
  <1>1. /\ r \in Review!Sendable /\ r.note \in Review!Notes \cup {None} /\ r.fund \in Review!Funds
        /\ r.amount \in Review!Amounts \cup {None}
    BY DEF Review!TypeInv, Review!Sendable
  <1>2. MaxAsked \in Nat /\ None \notin Review!Amounts /\ Review!Amounts \subseteq Nat
    <2>1. MaxAsked \in Nat /\ None \notin Nat  BY PagesAssumption DEF Review!ReviewAssumption
    <2> QED  BY <2>1 DEF Review!Amounts
  <1> DEFINE granted == IF server.asked = 0 THEN 0 ELSE IF r.amount # None THEN r.amount ELSE server.granted
             fund == IF r.fund # "" THEN r.fund ELSE server.fund
             note == IF r.note # None THEN r.note ELSE server.note
             large == r.large = TRUE
             status == Review!Settles(granted, server.status)
  <1>3. /\ r.item # None => r.item = server.item /\ r.amount <= server.asked
        /\ granted # None
        /\ server' = [server EXCEPT !.granted = granted, !.fund = fund, !.note = note, !.large = large, !.status = status]
    BY <1>0 DEF Review!FirstStage, Review!Rows
  <1>4. /\ r.note # None => r.noted
        /\ r.item = None => r.amount = None /\ r.fund = "" /\ server.granted = None
        /\ r.item = server.item /\ r.item # None =>
             /\ r.amount \in Review!Amounts /\ r.amount = Review!AtMost(r.shown, server.asked)
             /\ r.fund = "school" => r.amount > 0
    <2>1. Review!Sound(r)  OBVIOUS
    <2>2. r.note # None => r.noted  BY <2>1 DEF Review!Sound
    <2>3. r.item = None => r.amount = None /\ r.fund = "" /\ server.granted = None  BY <2>1 DEF Review!Sound
    <2>4. r.item = server.item /\ r.item # None =>
            r.amount \in Review!Amounts /\ r.amount = Review!AtMost(r.shown, server.asked)
      BY <2>1 DEF Review!Sound
    <2>5. r.item = server.item /\ r.item # None => (r.fund = "school" => r.amount > 0)  BY <2>1 DEF Review!Sound
    <2> QED  BY <2>2, <2>3, <2>4, <2>5
  <1>5. 0 \in Review!Amounts /\ granted \in {None} \cup Review!Amounts
    <2>1. 0 \in Review!Amounts  BY <1>2 DEF Review!Amounts
    <2> QED  BY <1>0, <1>1, <2>1
  <1>6. fund = "school" => granted # None /\ granted > 0
    <2>1. SUFFICES ASSUME fund = "school" PROVE granted > 0
      BY <1>3
    <2>2. r.fund = "school"  BY <1>0, <2>1
    <2>3. r.item # None  BY <1>4, <2>2
    <2>4. r.item = server.item  BY <1>3, <2>3
    <2>5. r.amount \in Review!Amounts /\ r.amount > 0  BY <1>4, <2>2, <2>3, <2>4
    <2>6. r.amount <= server.asked  BY <1>3, <2>3
    <2>7. server.asked # 0
      <3> DEFINE a == r.amount
                 m == server.asked
      <3>0. a \in Nat /\ m \in Nat  BY <1>0, <1>2, <2>5
      <3>1. a > 0 /\ a <= m  BY <2>5, <2>6
      <3> HIDE DEF a, m
      <3>2. m # 0  BY <3>0, <3>1
      <3> QED  BY <3>2 DEF m
    <2>8. granted = r.amount  BY <1>2, <2>5, <2>7
    <2> QED  BY <2>5, <2>8
  <1>7. fund \in Review!Funds /\ note \in Review!Notes /\ large \in BOOLEAN  BY <1>0, <1>1
  <1>8. status \in Review!Statuses \ {"pending_advisor"}  BY ReviewSettles
  <1>9. server'.note = note /\ server'.granted = granted  BY <1>0, <1>3 DEF Review!Rows
  <1>10. server.asked > 0 => r.item = server.item /\ granted = Review!AtMost(r.shown, server.asked)
    <2>1. SUFFICES ASSUME server.asked > 0
                   PROVE  r.item = server.item /\ granted = Review!AtMost(r.shown, server.asked)
      OBVIOUS
    <2>2. server.asked # 0
      <3> DEFINE m == server.asked
      <3>0. m \in Nat  BY <1>0, <1>2
      <3>1. m > 0  BY <2>1
      <3> HIDE DEF m
      <3>2. m # 0  BY <3>0, <3>1
      <3> QED  BY <3>2 DEF m
    <2>3. r.item # None  BY <1>3, <1>4, <2>2
    <2>4. r.item = server.item  BY <1>3, <2>3
    <2> QED  BY <1>2, <1>4, <2>2, <2>3, <2>4
  <1>11. note # server.note => r.noted  BY <1>4
  <1> HIDE DEF granted, fund, note, large, status
  <1>12. Moves
    <2>1. server' \in Review!Rows  BY <1>0, <1>3, <1>5, <1>7, <1>8 DEF Review!Rows
    <2>2. /\ server'.item = server.item /\ server'.report = server.report /\ server'.asked = server.asked
          /\ server'.status = status /\ server'.fund = fund
      BY <1>0, <1>3 DEF Review!Rows
    <2> QED  BY <1>6, <1>8, <1>9, <2>1, <2>2, ReviewSigned
  <1> QED  BY <1>9, <1>10, <1>11, <1>12

\* What is accepted at the later stages, and of closing reports, leaves the line alone.
LEMMA ReviewAccepts ==
  ASSUME Review!Inv, NEW r \in out, Review!Accepts(r)
  PROVE  Moves /\ (server'.note # server.note => r.noted)
  <1>0. /\ server \in Review!Rows /\ server.status \in Review!Statuses /\ server.item \in Nat /\ server.asked \in Review!Amounts
        /\ server.granted \in {None} \cup Review!Amounts /\ server.fund \in Review!Funds /\ server.note \in Review!Notes
        /\ server.large \in BOOLEAN /\ server.report \in Nat /\ server.full \in SUBSET Checks /\ server.flags \in SUBSET Checks
    BY ReviewFields
  <1>f. server.fund = "school" => server.granted # None /\ server.granted > 0  BY ReviewFields
  <1>1. /\ r \in Review!Sendable /\ r.note \in Review!Notes \cup {None} /\ r.large \in BOOLEAN \cup {None}
        /\ r.flags \in SUBSET Checks /\ r.op \in {"approve", "reject", "close_approve", "close_reject", "delete"}
    BY DEF Review!TypeInv, Review!Sendable
  <1>2. r.note # None => r.noted
    <2>1. Review!Sound(r)  OBVIOUS
    <2> QED  BY <2>1 DEF Review!Sound
  <1>3. CASE r.op = "approve"
    <2>1. CASE server.status = "pending_advisor"
      <3>1. Review!FirstStage(r)  BY <1>3, <2>1 DEF Review!Accepts
      <3> QED  BY <1>3, <2>1, <3>1, ReviewFirstStage
    <2>2. CASE server.status # "pending_advisor"
      <3> DEFINE status == Review!Settles(server.granted, server.status)
                 note == IF r.note # None THEN r.note ELSE server.note
                 large == IF r.large # None THEN r.large ELSE server.large
      <3>1. Review!LaterStage(r)  BY <1>3, <2>2 DEF Review!Accepts
      <3>2. server' = [server EXCEPT !.note = note, !.large = large, !.status = status]
        BY <1>0, <3>1 DEF Review!LaterStage, Review!Rows
      <3>3. status \in Review!Statuses \ {"pending_advisor"}  BY ReviewSettles
      <3>4. note \in Review!Notes /\ large \in BOOLEAN /\ (note # server.note => r.noted)  BY <1>0, <1>1, <1>2
      <3> HIDE DEF status, note, large
      <3>5. server' \in Review!Rows  BY <1>0, <3>2, <3>3, <3>4 DEF Review!Rows
      <3>6. /\ server'.note = note /\ server'.item = server.item /\ server'.report = server.report /\ server'.asked = server.asked
            /\ server'.status = status /\ server'.fund = server.fund /\ server'.granted = server.granted
        BY <1>0, <3>2 DEF Review!Rows
      <3>7. Moves  BY <1>f, <3>3, <3>5, <3>6, ReviewSigned
      <3> QED  BY <3>4, <3>6, <3>7
    <2> QED  BY <2>1, <2>2
  <1>4. CASE r.op # "approve"
    <2>0. \A s \in {"rejected", "approved", "closed", "gone"} : s \in Review!Statuses \ {"pending_advisor"}
      BY DEF Review!Statuses
    <2>1. PICK status \in Review!Statuses \ {"pending_advisor"}, flags \in SUBSET Checks :
            server' = [server EXCEPT !.status = status, !.flags = flags]
      <3>1. CASE r.op = "close_approve"
        <4>1. server' = [server EXCEPT !.status = "closed", !.flags = r.flags]  BY <3>1 DEF Review!Accepts
        <4> QED  BY <1>1, <2>0, <4>1
      <3>2. CASE r.op # "close_approve"
        <4>1. PICK status \in {"rejected", "approved", "gone"} : server' = [server EXCEPT !.status = status]
          BY <1>1, <1>4, <3>2 DEF Review!Accepts
        <4>2. server' = [server EXCEPT !.status = status, !.flags = server.flags]  BY <1>0, <4>1 DEF Review!Rows
        <4> QED  BY <1>0, <2>0, <4>2
      <3> QED  BY <3>1, <3>2
    <2>2. server'.note = server.note  BY <1>0, <2>1 DEF Review!Rows
    <2>3. server' \in Review!Rows  BY <1>0, <2>1 DEF Review!Rows
    <2>4. /\ server'.item = server.item /\ server'.report = server.report /\ server'.asked = server.asked
          /\ server'.status # "pending_advisor" /\ server'.fund = server.fund /\ server'.granted = server.granted
      BY <1>0, <2>1 DEF Review!Rows
    <2>5. Moves  BY <1>f, <2>3, <2>4, ReviewSigned
    <2> QED  BY <2>2, <2>5
  <1> QED  BY <1>3, <1>4

\* The activity stays as it is: so do its copies, and what is sound.
LEMMA ReviewKept ==
  ASSUME UNCHANGED server
  PROVE  (\A x : Review!Copy(x) => Review!Copy(x)') /\ (\A r : Review!Sound(r) => Review!Sound(r)')
  BY DEF Review!Copy, Review!Sound

\* What the reviewer types, and closing the window, leave what it was opened on.
LEMMA ReviewWindow ==
  ASSUME Review!Inv, form # None, form' \in Review!Windows, form'.since = form.since, form'.id = form.id,
         form'.row = form.row, form.submitting => form'.submitting, form'.fundTouched => form'.fund = "typed",
         UNCHANGED <<past, server, others, held, known, way, sent, out>>
  PROVE  Review!Inv'
  <1>1. Review!TypeInv'  BY DEF Review!TypeInv
  <1>2. Review!CopiesInv'
    <2>1. /\ server.status = "pending_advisor" => server.fund = "" /\ (server.granted # None => server.item = 0)
          /\ server.fund = "school" => server.granted # None /\ server.granted > 0
      BY ReviewFields
    <2>2. /\ Review!Copy(held) /\ (known # None => Review!Copy(known)) /\ (way.at = "served" => Review!Copy(way.detail))
          /\ Review!Copy(form.row)
      BY DEF Review!CopiesInv
    <2>3. /\ Review!Copy(held)' /\ (known # None => Review!Copy(known)') /\ (way.at = "served" => Review!Copy(way.detail)')
          /\ Review!Copy(form.row)'
      BY <2>2, ReviewKept
    <2> QED  BY <2>1, <2>3 DEF Review!CopiesInv
  <1>3. Review!FreshInv'  BY DEF Review!FreshInv
  <1>4. \A r \in out' : Review!Sound(r)'  BY ReviewKept
  <1>5. Review!OneInv'  BY DEF Review!OneInv
  <1> QED  BY <1>1, <1>2, <1>3, <1>4, <1>5

\* One thing typed or ticked.
LEMMA ReviewEdit ==
  ASSUME Review!Inv, form # None, NEW w \in Review!Windows, w.since = form.since, w.id = form.id, w.row = form.row,
         w.submitting = form.submitting, w.fundTouched => w.fund = "typed", Review!Edit(w), UNCHANGED past
  PROVE  Review!Inv'
  <1>1. form \in Review!Windows /\ form.edits \in Nat  BY DEF Review!TypeInv, Review!Windows
  <1> DEFINE n == w.edits + 1
  <1>2. w.edits \in Nat  BY DEF Review!Windows
  <1>3. n \in Nat  BY <1>2
  <1>4. form' = [w EXCEPT !.edits = n] /\ UNCHANGED <<server, others, held, known, way, sent, out>>  BY DEF Review!Edit
  <1> HIDE DEF n
  <1>5. /\ form' \in Review!Windows /\ form'.since = w.since /\ form'.id = w.id /\ form'.row = w.row
        /\ form'.submitting = w.submitting /\ form'.fundTouched = w.fundTouched /\ form'.fund = w.fund
    BY <1>3, <1>4 DEF Review!Windows
  <1> QED  BY <1>4, <1>5, ReviewWindow

\* All that can be typed or ticked.
LEMMA ReviewEdits ==
  ASSUME Review!Inv, UNCHANGED past,
         \/ Review!WriteNote \/ Review!TypeFund \/ Review!TickLarge \/ Review!TypeAmount \/ Review!TickCheck
  PROVE  Review!Inv'
  <1>1. form # None
    BY DEF Review!WriteNote, Review!TypeFund, Review!TickLarge, Review!TypeAmount, Review!TickCheck
  <1>2. form \in Review!Windows /\ (form.fundTouched => form.fund = "typed")  BY <1>1 DEF Review!TypeInv, Review!OneInv
  <1> DEFINE Kept(w) == /\ w \in Review!Windows /\ w.since = form.since /\ w.id = form.id /\ w.row = form.row
                        /\ w.submitting = form.submitting /\ (w.fundTouched => w.fund = "typed")
  <1>3. CASE Review!WriteNote
    <2> DEFINE w == [form EXCEPT !.note = "mine", !.noteTouched = TRUE]
    <2>1. Review!Edit(w)  BY <1>3 DEF Review!WriteNote
    <2>2. Kept(w)  BY <1>2 DEF Review!Windows, Review!Notes
    <2> HIDE DEF w
    <2> QED  BY <1>1, <2>1, <2>2, ReviewEdit
  <1>4. CASE Review!TypeFund
    <2> DEFINE w == [form EXCEPT !.fund = "typed", !.fundTouched = TRUE]
    <2>1. Review!Edit(w)  BY <1>4 DEF Review!TypeFund
    <2>2. Kept(w)  BY <1>2 DEF Review!Windows, Review!Funds
    <2> HIDE DEF w
    <2> QED  BY <1>1, <2>1, <2>2, ReviewEdit
  <1>5. CASE Review!TickLarge
    <2> DEFINE w == [form EXCEPT !.large = ~@]
    <2>1. Review!Edit(w)  BY <1>5 DEF Review!TickLarge
    <2>2. Kept(w)  BY <1>2 DEF Review!Windows
    <2> HIDE DEF w
    <2> QED  BY <1>1, <2>1, <2>2, ReviewEdit
  <1>6. CASE Review!TypeAmount
    <2>1. known \in Review!Rows  BY <1>6 DEF Review!TypeAmount, Review!Detailed, Review!TypeInv
    <2>2. Review!Item = known /\ known.item \in Nat /\ known.asked \in Review!Amounts
      BY <1>6, <2>1 DEF Review!TypeAmount, Review!Detailed, Review!Item, Review!Rows
    <2>3. PICK v \in 0 .. known.asked : Review!Edit([form EXCEPT !.amount = [item |-> known.item, value |-> v]])
      BY <1>6, <2>2 DEF Review!TypeAmount
    <2>4. v \in Review!Amounts
      <3>1. MaxAsked \in Nat  BY PagesAssumption DEF Review!ReviewAssumption
      <3> DEFINE m == known.asked
      <3>2. m \in 0 .. MaxAsked /\ v \in 0 .. m  BY <2>2 DEF Review!Amounts
      <3> HIDE DEF m
      <3>3. v \in 0 .. MaxAsked  BY <3>1, <3>2
      <3> QED  BY <3>3 DEF Review!Amounts
    <2> DEFINE line == [item |-> known.item, value |-> v]
               w == [form EXCEPT !.amount = line]
    <2>5. line \in [item: Nat, value: Review!Amounts]  BY <2>2, <2>4
    <2> HIDE DEF line
    <2>6. Kept(w)  BY <1>2, <2>5 DEF Review!Windows
    <2>7. Review!Edit(w)  BY <2>3 DEF line
    <2> HIDE DEF w
    <2> QED  BY <1>1, <2>6, <2>7, ReviewEdit
  <1>7. CASE Review!TickCheck
    <2>1. PICK c \in Checks, b \in BOOLEAN : Review!Edit([form EXCEPT !.override[c] = b])
      BY <1>7 DEF Review!TickCheck
    <2> DEFINE ticks == [form.override EXCEPT ![c] = b]
               w == [form EXCEPT !.override = ticks]
    <2>2. form.override \in [Checks -> BOOLEAN \cup {None}]  BY <1>2 DEF Review!Windows
    <2>3. ticks \in [Checks -> BOOLEAN \cup {None}]  BY <2>2
    <2>4. Review!Edit(w)  BY <2>1
    <2> HIDE DEF ticks
    <2>5. Kept(w)  BY <1>2, <2>3 DEF Review!Windows
    <2> HIDE DEF w
    <2> QED  BY <1>1, <2>4, <2>5, ReviewEdit
  <1> QED  BY <1>3, <1>4, <1>5, <1>6, <1>7

\* Closing the window, and asking whether to reject.
LEMMA ReviewLeaves ==
  ASSUME Review!Inv, UNCHANGED past, Review!Close \/ Review!AskReject \/ Review!CancelReject
  PROVE  Review!Inv'
  <1>1. form # None /\ UNCHANGED <<server, others, held, known, way, sent, out>>
    BY DEF Review!Close, Review!AskReject, Review!CancelReject, Review!Showing
  <1>2. form \in Review!Windows /\ (form.fundTouched => form.fund = "typed")  BY <1>1 DEF Review!TypeInv, Review!OneInv
  <1>3. \/ form' = [form EXCEPT !.open = FALSE]
        \/ \E b \in BOOLEAN : form' = [form EXCEPT !.rejecting = b]
    BY DEF Review!Close, Review!AskReject, Review!CancelReject
  <1>4. /\ form' \in Review!Windows /\ form'.since = form.since /\ form'.id = form.id /\ form'.row = form.row
        /\ form'.submitting = form.submitting /\ form'.fundTouched = form.fundTouched /\ form'.fund = form.fund
    BY <1>2, <1>3 DEF Review!Windows
  <1> QED  BY <1>1, <1>2, <1>4, ReviewWindow

\* A step of the client alone.
LEMMA ReviewClient ==
  ASSUME Review!Inv, UNCHANGED <<past, server, others, out>>, sent' \in Nat,
         way' \in [at: {"idle", "failed", "sent", "served"}, detail: Review!Rows \cup {None}],
         Review!Copy(held'), known' # None => Review!Copy(known'), way'.at = "served" => Review!Copy(way'.detail),
         form' # None => form' \in Review!Windows /\ Review!Copy(form'.row), Review!FreshInv', Review!OneInv'
  PROVE  Review!Inv'
  <1>1. Review!TypeInv'
    <2>1. held' \in Review!Rows /\ (known' # None => known' \in Review!Rows)  BY DEF Review!Copy
    <2> QED  BY <2>1 DEF Review!TypeInv
  <1>2. Review!CopiesInv'
    <2>1. /\ server.status = "pending_advisor" => server.fund = "" /\ (server.granted # None => server.item = 0)
          /\ server.fund = "school" => server.granted # None /\ server.granted > 0
      BY ReviewFields
    <2>2. \A x : Review!Copy(x) => Review!Copy(x)'  BY ReviewKept
    <2>3. /\ Review!Copy(held)' /\ (known' # None => Review!Copy(known)') /\ (way'.at = "served" => Review!Copy(way.detail)')
          /\ form' # None => Review!Copy(form.row)'
      BY <2>2
    <2> QED  BY <2>1, <2>3 DEF Review!CopiesInv
  <1>3. \A r \in out' : Review!Sound(r)'  BY ReviewKept
  <1> QED  BY <1>1, <1>2, <1>3

\* The activity itself is a copy of it.
LEMMA ReviewSelf == ASSUME Review!Inv PROVE Review!Copy(server)
  <1>1. server \in Review!Rows /\ server.report \in Nat /\ server.item \in Nat  BY ReviewFields
  <1>2. server.status = "pending_advisor" => server.fund = ""  BY ReviewFields
  <1>3. \A k \in Nat : k <= k  OBVIOUS
  <1>4. server.report <= server.report /\ server.item <= server.item  BY <1>1, <1>3
  <1> QED  BY <1>1, <1>2, <1>4 DEF Review!Copy

\* The window closes for good, and the copies of the cache and the list come and go.
LEMMA ReviewLoads ==
  ASSUME Review!Inv, UNCHANGED past,
         \/ Review!AfterClose \/ Review!Forget \/ Review!LoadList
         \/ Review!Served \/ Review!DetailArrives \/ Review!DetailFails \/ Review!RetryDetail
  PROVE  Review!Inv'
  <1>1. /\ Review!Copy(held) /\ (known # None => Review!Copy(known)) /\ (way.at = "served" => Review!Copy(way.detail))
        /\ form # None => Review!Copy(form.row)
    BY DEF Review!CopiesInv
  <1>2. /\ way \in [at: {"idle", "failed", "sent", "served"}, detail: Review!Rows \cup {None}] /\ sent \in Nat
        /\ form # None => form \in Review!Windows
    BY DEF Review!TypeInv
  <1>3. Review!Copy(server) /\ server \in Review!Rows  BY ReviewSelf, ReviewFields
  <1>4. UNCHANGED <<past, server, others, out, sent>> /\ (form' = form \/ form' = None)
    BY DEF Review!AfterClose, Review!Forget, Review!LoadList, Review!Served, Review!DetailArrives, Review!DetailFails,
           Review!RetryDetail
  <1>5. Review!OneInv'  BY <1>4 DEF Review!OneInv
  <1>6. CASE Review!AfterClose
    <2>1. form' = None /\ UNCHANGED <<held, known, way>>  BY <1>6 DEF Review!AfterClose
    <2>2. Review!FreshInv'  BY <2>1 DEF Review!FreshInv
    <2> QED  BY <1>1, <1>2, <1>4, <1>5, <2>1, <2>2, ReviewClient
  <1>7. CASE Review!Forget
    <2>1. known' = None /\ UNCHANGED <<held, form, way>>  BY <1>7 DEF Review!Forget
    <2>2. Review!FreshInv'  BY <1>4, <2>1 DEF Review!FreshInv
    <2> QED  BY <1>1, <1>2, <1>4, <1>5, <2>1, <2>2, ReviewClient
  <1>8. CASE Review!LoadList
    <2>1. held' = server /\ UNCHANGED <<known, form, way>>  BY <1>8 DEF Review!LoadList
    <2>2. Review!FreshInv'  BY <1>4, <2>1 DEF Review!FreshInv
    <2> QED  BY <1>1, <1>2, <1>3, <1>4, <1>5, <2>1, <2>2, ReviewClient
  <1>9. CASE Review!Served
    <2>1. way' = [at |-> "served", detail |-> server] /\ UNCHANGED <<held, known, form>>  BY <1>9 DEF Review!Served
    <2>2. /\ way' \in [at: {"idle", "failed", "sent", "served"}, detail: Review!Rows \cup {None}]
          /\ way'.at = "served" /\ way'.detail = server
      BY <1>3, <2>1
    <2>3. Review!FreshInv'  BY <1>4, <2>1, <2>2 DEF Review!FreshInv
    <2> QED  BY <1>1, <1>2, <1>3, <1>4, <1>5, <2>1, <2>2, <2>3, ReviewClient
  <1>10. CASE Review!DetailArrives
    <2>1. /\ way.at = "served" /\ known' = way.detail /\ way' = Review!Fetch("idle") /\ UNCHANGED <<held, form>>
      BY <1>10 DEF Review!DetailArrives
    <2>2. /\ way' \in [at: {"idle", "failed", "sent", "served"}, detail: Review!Rows \cup {None}] /\ way'.at = "idle"
      BY <2>1 DEF Review!Fetch
    <2>3. Review!FreshInv'  BY <1>4, <2>1, <2>2 DEF Review!FreshInv
    <2> QED  BY <1>1, <1>2, <1>4, <1>5, <2>1, <2>2, <2>3, ReviewClient
  <1>11. CASE Review!DetailFails \/ Review!RetryDetail
    <2>1. PICK at \in {"failed", "sent"} : way' = Review!Fetch(at)
      BY <1>11 DEF Review!DetailFails, Review!RetryDetail
    <2>2. UNCHANGED <<held, known, form>>  BY <1>11 DEF Review!DetailFails, Review!RetryDetail
    <2>3. way' \in [at: {"idle", "failed", "sent", "served"}, detail: Review!Rows \cup {None}] /\ way'.at \in {"failed", "sent"}
      BY <2>1 DEF Review!Fetch
    <2>4. Review!FreshInv'  BY <1>4, <2>2, <2>3 DEF Review!FreshInv
    <2> QED  BY <1>1, <1>2, <1>4, <1>5, <2>2, <2>3, <2>4, ReviewClient
  <1> QED  BY <1>6, <1>7, <1>8, <1>9, <1>10, <1>11

\* A window that opens waits for a detail that is not older than itself: the one that is
\* on its way, or the one it has asked for.
LEMMA ReviewOpens == ASSUME Review!Inv, UNCHANGED past, Review!OpenRow PROVE Review!Inv'
  <1>1. /\ Review!Copy(held) /\ (known # None => Review!Copy(known)) /\ (way.at = "served" => Review!Copy(way.detail))
        /\ form # None => Review!Copy(form.row)
    BY DEF Review!CopiesInv
  <1>2. /\ way \in [at: {"idle", "failed", "sent", "served"}, detail: Review!Rows \cup {None}] /\ sent \in Nat
        /\ form # None => form \in Review!Windows
        /\ held \in Review!Rows
    BY DEF Review!TypeInv
  <1>3. UNCHANGED <<past, server, others, out, held, known>> /\ sent' = sent + 1  BY DEF Review!OpenRow
  <1>4. sent' \in Nat /\ (\A k \in Nat : k <= sent => k <= sent') /\ (\A k \in Nat : k <= sent => k # sent') /\ sent' <= sent'
    BY <1>2, <1>3
  <1>5. \A r \in out' : r.id <= sent' /\ r.id # sent'
    <2>1. \A r \in out : r.id \in Nat /\ r.id <= sent  BY DEF Review!TypeInv, Review!Sendable, Review!OneInv
    <2> QED  BY <1>3, <1>4, <2>1
  <1>6. \A r, q \in out' : r.op # "delete" /\ q.op # "delete" /\ r.id = q.id => r = q  BY <1>3 DEF Review!OneInv
  <1>7. CASE form # None
    <2>1. form' = [form EXCEPT !.row = held, !.open = TRUE] /\ way' = way  BY <1>7 DEF Review!OpenRow
    <2>2. /\ form' \in Review!Windows /\ form'.since = form.since /\ form'.id = form.id /\ form'.row = held
          /\ form'.submitting = form.submitting /\ form'.fundTouched = form.fundTouched /\ form'.fund = form.fund
      BY <1>2, <1>7, <2>1 DEF Review!Windows
    <2>3. form.id \in Nat /\ form.id <= sent  BY <1>2, <1>7 DEF Review!Windows, Review!OneInv
    <2>4. form'.id <= sent'  BY <1>4, <2>2, <2>3
    <2>5. \A r \in out' : r.op # "delete" /\ form' # None /\ r.id = form'.id => form'.submitting
      BY <1>3, <1>7, <2>2 DEF Review!OneInv
    <2>6. form'.fundTouched => form'.fund = "typed"  BY <1>7, <2>2 DEF Review!OneInv
    <2>7. Review!OneInv'  BY <1>5, <1>6, <2>4, <2>5, <2>6 DEF Review!OneInv
    <2>8. Review!FreshInv'  BY <1>3, <1>7, <2>1, <2>2 DEF Review!FreshInv
    <2> QED  BY <1>1, <1>2, <1>3, <1>4, <2>1, <2>2, <2>7, <2>8, ReviewClient
  <1>8. CASE form = None
    <2> DEFINE item == IF known # None THEN known ELSE held
               new == Review!Seeded(held, item)
    <2>1. form' = new /\ way' = IF way.at \in {"idle", "failed"} THEN Review!Fetch("sent") ELSE way
      BY <1>8 DEF Review!OpenRow
    <2>2. item \in Review!Rows  BY <1>1 DEF Review!Copy
    <2>3. item.large \in BOOLEAN /\ item.note \in Review!Notes /\ Review!SeedFund(item) \in Review!Funds
      BY <2>2 DEF Review!Rows, Review!SeedFund, Review!Funds
    <2> DEFINE since == IF way.at = "served" THEN way.detail.report ELSE server.report
    <2>4. since \in Nat /\ since <= server.report /\ (way.at = "served" => since = way.detail.report)
      <3>1. CASE way.at = "served"
        <4>1. way.detail \in Review!Rows /\ way.detail.report <= server.report  BY <1>1, <3>1 DEF Review!Copy
        <4>2. way.detail.report \in Nat  BY <4>1 DEF Review!Rows
        <4> QED  BY <3>1, <4>1, <4>2
      <3>2. CASE way.at # "served"
        <4>1. server.report <= server.report  BY ReviewSelf DEF Review!Copy
        <4>2. server.report \in Nat  BY ReviewFields
        <4> QED  BY <3>2, <4>1, <4>2
      <3> QED  BY <3>1, <3>2
    <2> DEFINE ticks == [c \in Checks |-> None]
    <2>5. ticks \in [Checks -> BOOLEAN \cup {None}]  OBVIOUS
    <2>6. new = [row |-> held, open |-> TRUE, large |-> item.large, fund |-> Review!SeedFund(item), fundTouched |-> FALSE,
                 note |-> item.note, noteTouched |-> FALSE, override |-> ticks, amount |-> None, submitting |-> FALSE,
                 rejecting |-> FALSE, edits |-> 0, since |-> since, id |-> sent']
      BY <1>3 DEF Review!Seeded
    <2>7. 0 \in Nat  OBVIOUS
    <2>8. way' \in [at: {"idle", "failed", "sent", "served"}, detail: Review!Rows \cup {None}]
          /\ (way'.at = "served" => way' = way) /\ way'.at # "idle"
      BY <1>2, <2>1 DEF Review!Fetch
    <2> HIDE DEF item, since, ticks, new
    <2>9. /\ new \in Review!Windows /\ new.since = since /\ new.id = sent' /\ new.row = held
          /\ new.fundTouched = FALSE
      BY <1>2, <1>4, <2>3, <2>4, <2>5, <2>6, <2>7 DEF Review!Windows
    <2>10. form'.id <= sent' /\ (form'.fundTouched => form'.fund = "typed")  BY <1>4, <2>1, <2>9
    <2>11. \A r \in out' : r.op # "delete" /\ form' # None /\ r.id = form'.id => form'.submitting
      BY <1>5, <2>1, <2>9
    <2>12. Review!OneInv'  BY <1>5, <1>6, <2>10, <2>11 DEF Review!OneInv
    <2>13. Review!FreshInv'
      <3>1. form'.since <= server'.report  BY <1>3, <2>1, <2>4, <2>9
      <3>2. \A k \in Nat : k <= k  OBVIOUS
      <3>3. way'.at = "served" => form'.since <= way'.detail.report  BY <2>1, <2>4, <2>8, <2>9, <3>2
      <3> QED  BY <2>8, <3>1, <3>3 DEF Review!FreshInv
    <2>14. way'.at = "served" => Review!Copy(way'.detail)  BY <1>1, <2>8
    <2> QED  BY <1>1, <1>2, <1>3, <1>4, <2>1, <2>8, <2>9, <2>12, <2>13, <2>14, ReviewClient
  <1> QED  BY <1>7, <1>8

\* What the window shows is a copy of the activity, with amounts.
LEMMA ReviewShown ==
  ASSUME Review!Inv, form # None
  PROVE  /\ Review!Copy(Review!Item) /\ Review!Item \in Review!Rows /\ Review!Item.report \in Nat
         /\ Review!Item.item \in Nat /\ Review!Item.asked \in Review!Amounts /\ Review!Item.fund \in Review!Funds
         /\ Review!Amount(Review!Item) \in Review!Amounts
  <1> DEFINE item == Review!Item
  <1>1. Review!Copy(item)  BY DEF Review!CopiesInv, Review!Item
  <1>2. item \in Review!Rows  BY <1>1 DEF Review!Copy
  <1> HIDE DEF item
  <1>3. /\ item.report \in Nat /\ item.item \in Nat /\ item.asked \in Review!Amounts /\ item.fund \in Review!Funds
        /\ item.granted \in Review!Amounts \cup {None}
    BY <1>2 DEF Review!Rows
  <1>4. form.amount \in {None} \cup [item: Nat, value: Review!Amounts]  BY DEF Review!TypeInv, Review!Windows
  <1>5. Review!Amount(item) \in Review!Amounts
    BY <1>3, <1>4 DEF Review!Amount, Review!Prefill
  <1> QED  BY <1>1, <1>2, <1>3, <1>5 DEF item

\* A request carries which window sent it and what was shown there.
LEMMA ReviewRequest ==
  ASSUME Review!Inv, form # None, NEW op \in {"approve", "reject", "close_approve", "close_reject", "delete"}
  PROVE  LET r == Review!Request(op) IN
         /\ r \in Review!Sendable
         /\ r.op = op /\ r.id = form.id /\ r.note = None /\ r.fund = "" /\ r.item = None /\ r.amount = None
         /\ r.noted = form.noteTouched /\ r.judged = Review!Item.report /\ r.since = form.since
         /\ Review!Detailed => r.shown = Review!Amount(Review!Item)
  <1> DEFINE judged == Review!Item.report
             shown == IF Review!Detailed THEN Review!Amount(Review!Item) ELSE None
             stage == Review!StageOf(Review!Item.status)
             r == Review!Request(op)
  <1>1. judged \in Nat /\ shown \in Review!Amounts \cup {None}  BY ReviewShown
  <1>2. stage \in Review!Stages \cup {None}  BY DEF Review!StageOf, Review!Stages
  <1>3. form.id \in Nat /\ form.noteTouched \in BOOLEAN /\ form.since \in Nat  BY DEF Review!TypeInv, Review!Windows
  <1>4. r = [op |-> op, id |-> form.id, wire |-> "sent", note |-> None, fund |-> "", item |-> None, amount |-> None,
             large |-> None, flags |-> {}, noted |-> form.noteTouched, judged |-> judged, since |-> form.since,
             shown |-> shown, stage |-> stage]
    BY DEF Review!Request
  <1>5. Review!Detailed => shown = Review!Amount(Review!Item)  OBVIOUS
  <1> HIDE DEF judged, shown, stage, r
  <1>6. r \in Review!Sendable  BY <1>1, <1>2, <1>3, <1>4 DEF Review!Sendable, Review!Funds
  <1>7. /\ r.op = op /\ r.id = form.id /\ r.note = None /\ r.fund = "" /\ r.item = None /\ r.amount = None
        /\ r.noted = form.noteTouched /\ r.judged = judged /\ r.since = form.since /\ r.shown = shown
    BY <1>4
  <1> QED  BY <1>5, <1>6, <1>7 DEF r, judged

\* A request that is sound is sent; the window that sends it has no other under way.
LEMMA ReviewSend ==
  ASSUME Review!Inv, UNCHANGED past, form # None, NEW r \in Review!Sendable, Review!Sound(r), r.id = form.id,
         ~form.submitting, Review!Send(r)
  PROVE  Review!Inv'
  <1>1. /\ out' = out \cup {r} /\ form' = [form EXCEPT !.submitting = TRUE]
        /\ UNCHANGED <<past, server, others, held, known, way, sent>>
    BY DEF Review!Send
  <1>2. form \in Review!Windows /\ (form.fundTouched => form.fund = "typed") /\ form.id <= sent
    BY DEF Review!TypeInv, Review!OneInv
  <1>3. /\ form' \in Review!Windows /\ form'.since = form.since /\ form'.id = form.id /\ form'.row = form.row
        /\ form'.submitting = TRUE /\ form'.fundTouched = form.fundTouched /\ form'.fund = form.fund
    BY <1>1, <1>2 DEF Review!Windows
  <1>4. \A q \in out' : q \in out \/ q = r  BY <1>1
  <1>5. Review!TypeInv'  BY <1>1, <1>3, <1>4 DEF Review!TypeInv
  <1>6. Review!CopiesInv'
    <2>1. /\ server.status = "pending_advisor" => server.fund = "" /\ (server.granted # None => server.item = 0)
          /\ server.fund = "school" => server.granted # None /\ server.granted > 0
      BY ReviewFields
    <2>2. /\ Review!Copy(held) /\ (known # None => Review!Copy(known)) /\ (way.at = "served" => Review!Copy(way.detail))
          /\ Review!Copy(form.row)
      BY DEF Review!CopiesInv
    <2>3. \A x : Review!Copy(x) => Review!Copy(x)'  BY <1>1, ReviewKept
    <2>4. /\ Review!Copy(held)' /\ (known' # None => Review!Copy(known)') /\ (way'.at = "served" => Review!Copy(way.detail)')
          /\ Review!Copy(form.row)'
      BY <1>1, <1>3, <2>2, <2>3
    <2> QED  BY <1>1, <2>1, <2>4 DEF Review!CopiesInv
  <1>7. Review!FreshInv'  BY <1>1, <1>3 DEF Review!FreshInv
  <1>8. \A q \in out' : Review!Sound(q)'
    <2>1. \A q \in out' : Review!Sound(q)  BY <1>4
    <2> QED  BY <1>1, <2>1, ReviewKept
  <1>9. Review!OneInv'
    <2>1. \A q \in out' : q.id <= sent'  BY <1>1, <1>2, <1>4 DEF Review!OneInv
    <2>2. \A q \in out : q.op # "delete" => q.id # r.id  BY DEF Review!OneInv
    <2>3. \A p, q \in out : p.op # "delete" /\ q.op # "delete" /\ p.id = q.id => p = q  BY DEF Review!OneInv
    <2>4. \A p, q \in out' : p.op # "delete" /\ q.op # "delete" /\ p.id = q.id => p = q  BY <1>4, <2>2, <2>3
    <2> QED  BY <1>1, <1>2, <1>3, <2>1, <2>4 DEF Review!OneInv
  <1> QED  BY <1>5, <1>6, <1>7, <1>8, <1>9

\* Deleting is not held back by a request that is under way.
LEMMA ReviewDeletes == ASSUME Review!Inv, UNCHANGED past, Review!Delete PROVE Review!Inv'
  <1> DEFINE r == Review!Request("delete")
  <1>1. /\ form # None /\ out' = out \cup {r} /\ UNCHANGED <<past, server, others, held, known, way, form, sent>>
    BY DEF Review!Delete, Review!Showing, Review!clientVars
  <1>2. r \in Review!Sendable /\ r.op = "delete" /\ r.id = form.id /\ r.note = None  BY <1>1, ReviewRequest
  <1> HIDE DEF r
  <1>3. Review!Sound(r)  BY <1>2 DEF Review!Sound
  <1>4. \A q \in out' : q \in out \/ q = r  BY <1>1
  <1>5. Review!TypeInv'  BY <1>1, <1>2, <1>4 DEF Review!TypeInv
  <1>6. Review!CopiesInv'
    <2>1. /\ server.status = "pending_advisor" => server.fund = "" /\ (server.granted # None => server.item = 0)
          /\ server.fund = "school" => server.granted # None /\ server.granted > 0
      BY ReviewFields
    <2>2. /\ Review!Copy(held) /\ (known # None => Review!Copy(known)) /\ (way.at = "served" => Review!Copy(way.detail))
          /\ Review!Copy(form.row)
      BY <1>1 DEF Review!CopiesInv
    <2>3. \A x : Review!Copy(x) => Review!Copy(x)'  BY <1>1, ReviewKept
    <2>4. /\ Review!Copy(held)' /\ (known' # None => Review!Copy(known)') /\ (way'.at = "served" => Review!Copy(way.detail)')
          /\ Review!Copy(form.row)'
      BY <1>1, <2>2, <2>3
    <2> QED  BY <1>1, <2>1, <2>4 DEF Review!CopiesInv
  <1>7. Review!FreshInv'  BY <1>1 DEF Review!FreshInv
  <1>8. \A q \in out' : Review!Sound(q)'
    <2>1. \A q \in out' : Review!Sound(q)  BY <1>3, <1>4
    <2> QED  BY <1>1, <2>1, ReviewKept
  <1>9. Review!OneInv'  BY <1>1, <1>2, <1>4 DEF Review!OneInv
  <1> QED  BY <1>5, <1>6, <1>7, <1>8, <1>9

\* Rejecting needs nothing but the window.
LEMMA ReviewRejects == ASSUME Review!Inv, UNCHANGED past, Review!Reject PROVE Review!Inv'
  <1>1. PICK op \in {"close_reject", "reject"} : Review!Send(Review!Request(op)) /\ form # None /\ ~form.submitting
    BY DEF Review!Reject
  <1> DEFINE r == Review!Request(op)
  <1>2. r \in Review!Sendable /\ r.op = op /\ r.id = form.id /\ r.note = None  BY <1>1, ReviewRequest
  <1>3. Review!Send(r)  BY <1>1
  <1> HIDE DEF r
  <1>4. Review!Sound(r)  BY <1>2 DEF Review!Sound
  <1> QED  BY <1>1, <1>2, <1>3, <1>4, ReviewSend

\* A report is judged by the detail that is shown when no query of it is under way or failed.
LEMMA ReviewCloses == ASSUME Review!Inv, UNCHANGED past, Review!ApproveClose PROVE Review!Inv'
  <1> DEFINE q == Review!Request("close_approve")
             confirmed == Review!Confirmed
             r == [q EXCEPT !.flags = confirmed]
  <1>1. form # None /\ ~form.submitting /\ known # None /\ way.at = "idle" /\ Review!Item = known /\ Review!Send(r)
    BY DEF Review!ApproveClose, Review!Showing, Review!Detailed, Review!Stale, Review!Item
  <1>2. q \in Review!Sendable /\ q.op = "close_approve" /\ q.id = form.id /\ q.note = None /\ q.judged = Review!Item.report
        /\ q.since = form.since
    BY <1>1, ReviewRequest
  <1>3. confirmed \in SUBSET Checks  BY DEF Review!Confirmed
  <1> HIDE DEF q, confirmed
  <1>4. r \in Review!Sendable /\ r.op = "close_approve" /\ r.id = form.id /\ r.note = None /\ r.judged = Review!Item.report
        /\ r.since = form.since
    BY <1>2, <1>3 DEF Review!Sendable
  <1>5. form.since <= known.report  BY <1>1 DEF Review!FreshInv
  <1>6. form.since \in Nat /\ known.report \in Nat  BY <1>1 DEF Review!TypeInv, Review!Windows, Review!Rows
  <1>7. known.report >= form.since  BY <1>5, <1>6
  <1> HIDE DEF r
  <1>8. r.judged >= r.since  BY <1>1, <1>4, <1>7
  <1>9. Review!Sound(r)  BY <1>4, <1>8 DEF Review!Sound
  <1> QED  BY <1>1, <1>4, <1>9, ReviewSend

\* An approval that says nothing of a line can do nothing where an amount is to be
\* decided; one that does says what the window shows for it, and names the source that
\* was prefilled only with money.
LEMMA ReviewApproves == ASSUME Review!Inv, UNCHANGED past, Review!Approve PROVE Review!Inv'
  <1> DEFINE q == Review!Request("approve")
             note == Review!NoteSent
             item == Review!Item
             shown == Review!Amount(item)
             amount == Review!AtMost(shown, item.asked)
             fund == Review!Source
             whole == [q EXCEPT !.note = note, !.fund = fund, !.item = item.item, !.amount = amount, !.large = form.large]
             bare == [q EXCEPT !.note = note]
             r == Review!Payload
  <1>1. form # None /\ ~form.submitting /\ Review!Detailed /\ Review!Send(r)
    BY DEF Review!Approve, Review!Showing
  <1>2. /\ q \in Review!Sendable /\ q.op = "approve" /\ q.id = form.id /\ q.note = None /\ q.fund = "" /\ q.item = None
        /\ q.amount = None /\ q.noted = form.noteTouched /\ q.shown = shown
    BY <1>1, ReviewRequest
  <1>3. /\ Review!Copy(item) /\ item.item \in Nat /\ item.asked \in Review!Amounts /\ item.fund \in Review!Funds
        /\ shown \in Review!Amounts
    BY <1>1, ReviewShown
  <1>4. amount \in Review!Amounts  BY <1>3, ReviewAmounts
  <1>5. form.fund \in Review!Funds /\ form.note \in Review!Notes /\ form.large \in BOOLEAN
    BY <1>1 DEF Review!TypeInv, Review!Windows
  <1>6. fund \in Review!Funds  BY <1>3, <1>5 DEF Review!Source
  <1>7. note \in Review!Notes \cup {None} /\ (note # None => form.noteTouched)  BY <1>5 DEF Review!NoteSent
  <1>8. None \notin Nat  BY PagesAssumption DEF Review!ReviewAssumption
  <1>9. /\ server.status = "pending_advisor" => (server.granted # None => server.item = 0)
        /\ server.item \in Nat
    BY ReviewFields
  <1>10. CASE form.row.status = "pending_advisor"
    <2>1. r = whole
      BY <1>10 DEF Review!Payload, Review!Granted
    <2>2. fund = IF amount > 0 \/ form.fundTouched THEN form.fund ELSE item.fund
      BY DEF Review!Source, Review!Granted
    <2>3. form.fundTouched => form.fund = "typed"  BY <1>1 DEF Review!OneInv
    <2>4. item.item <= server.item /\ (item.item = server.item => item.asked = server.asked)  BY <1>3 DEF Review!Copy
    <2>5. item.item = server.item /\ server.status = "pending_advisor" => item.fund = ""  BY <1>3 DEF Review!Copy
    <2>6. item.item = server.item => amount = Review!AtMost(shown, server.asked)  BY <2>4
    <2>7. item.item = server.item /\ server.status = "pending_advisor" /\ fund = "school" => amount > 0
      BY <2>2, <2>3, <2>5
    <2> DEFINE line == item.item
    <2>8. line \in Nat  BY <1>3
    <2> HIDE DEF q, note, shown, amount, fund, item, line, r
    <2>9. whole \in Review!Sendable  BY <1>2, <1>4, <1>5, <1>6, <1>7, <2>8 DEF Review!Sendable, line
    <2>10. /\ whole.op = "approve" /\ whole.id = form.id /\ whole.note = note /\ whole.fund = fund /\ whole.item = line
           /\ whole.amount = amount /\ whole.noted = form.noteTouched /\ whole.shown = shown
      BY <1>2 DEF Review!Sendable, line
    <2> HIDE DEF whole
    <2>11. line <= server.item /\ (line = server.item => amount = Review!AtMost(shown, server.asked))
           /\ (line = server.item /\ server.status = "pending_advisor" /\ fund = "school" => amount > 0)
      BY <2>4, <2>6, <2>7 DEF line
    <2>12. line # None  BY <1>8, <2>8
    <2>13. {whole.amount, whole.shown} \subseteq Review!Amounts  BY <1>3, <1>4, <2>10
    <2>14. Review!Sound(whole)
      <3>1. whole.item <= server.item /\ whole.item # None /\ (whole.note # None => whole.noted) /\ whole.op # "close_approve"
        BY <1>7, <2>10, <2>11, <2>12
      <3>2. whole.item = server.item => whole.amount = Review!AtMost(whole.shown, server.asked)  BY <2>10, <2>11
      <3>3. whole.item = server.item /\ server.status = "pending_advisor" /\ whole.fund = "school" => whole.amount > 0
        BY <2>10, <2>11
      <3> QED  BY <2>13, <3>1, <3>2, <3>3 DEF Review!Sound
    <2> QED  BY <1>1, <2>1, <2>9, <2>10, <2>14, ReviewSend
  <1>11. CASE form.row.status # "pending_advisor"
    <2>1. r = bare
      BY <1>11 DEF Review!Payload
    <2> HIDE DEF q, note, shown, amount, fund, item, r
    <2>2. bare \in Review!Sendable  BY <1>2, <1>7 DEF Review!Sendable
    <2>3. /\ bare.op = "approve" /\ bare.id = form.id /\ bare.note = note /\ bare.item = None
          /\ bare.amount = None /\ bare.fund = "" /\ bare.noted = form.noteTouched
      BY <1>2 DEF Review!Sendable
    <2> HIDE DEF bare
    <2>4. ASSUME server.status = "pending_advisor" PROVE server.granted = None
      <3> DEFINE w == form.row
      <3>1. Review!Copy(w)  BY <1>1 DEF Review!CopiesInv
      <3>2. w.item \in Nat /\ w.item <= server.item  BY <3>1 DEF Review!Copy, Review!Rows
      <3>3. w.item # server.item  BY <1>11, <2>4, <3>1 DEF Review!Copy
      <3> DEFINE n == w.item
                 m == server.item
      <3>4. n \in Nat /\ m \in Nat /\ n # m  BY <1>9, <3>2, <3>3
      <3>5. n <= m  BY <3>2
      <3> HIDE DEF n, m
      <3>6. m # 0  BY <3>4, <3>5
      <3> QED  BY <1>9, <2>4, <3>6 DEF m
    <2>5. Review!Sound(bare)  BY <1>7, <2>3, <2>4 DEF Review!Sound
    <2> QED  BY <1>1, <2>1, <2>2, <2>3, <2>5, ReviewSend
  <1> QED  BY <1>10, <1>11

\* An answer frees the window that asked, which then has no request under way, and has
\* what is shown loaded again.
LEMMA ReviewAnswers ==
  ASSUME Review!Inv, UNCHANGED past, NEW r \in out, Review!Answer(r)
  PROVE  Review!Inv'
  <1>1. /\ out' = out \ {r} /\ UNCHANGED <<past, server, others, held, known, sent>>
        /\ way' = way \/ (way' = Review!Fetch("sent") /\ form # None)
    BY DEF Review!Answer
  <1>2. /\ way \in [at: {"idle", "failed", "sent", "served"}, detail: Review!Rows \cup {None}] /\ sent \in Nat
        /\ form # None => form \in Review!Windows
    BY DEF Review!TypeInv
  <1>3. /\ way' \in [at: {"idle", "failed", "sent", "served"}, detail: Review!Rows \cup {None}]
        /\ way' = way \/ way'.at = "sent"
    BY <1>1, <1>2 DEF Review!Fetch
  <1>4. /\ form = None => form' = None
        /\ form # None => /\ form' \in Review!Windows /\ form'.since = form.since /\ form'.id = form.id /\ form'.row = form.row
                          /\ form'.fundTouched = form.fundTouched /\ form'.fund = form.fund
                          /\ form.submitting /\ (r.op = "delete" \/ form.id # r.id) => form'.submitting
    <2>1. CASE form = None  BY <2>1 DEF Review!Answer
    <2>2. CASE form # None
      <3> DEFINE open == form.open /\ r.wire = "no"
                 submitting == form.submitting /\ (r.op = "delete" \/ form.id # r.id)
                 rejecting == IF form.id = r.id /\ r.wire = "ok" THEN FALSE ELSE form.rejecting
      <3>1. form' = [form EXCEPT !.open = open, !.submitting = submitting, !.rejecting = rejecting]
        BY <2>2 DEF Review!Answer
      <3>2. open \in BOOLEAN /\ submitting \in BOOLEAN /\ rejecting \in BOOLEAN
        BY <1>2, <2>2 DEF Review!Windows
      <3>3. form.submitting /\ (r.op = "delete" \/ form.id # r.id) => submitting  OBVIOUS
      <3> HIDE DEF open, submitting, rejecting
      <3> QED  BY <1>2, <2>2, <3>1, <3>2, <3>3 DEF Review!Windows
    <2> QED  BY <2>1, <2>2
  <1>5. \A q \in out' : q \in out /\ q # r  BY <1>1
  <1>6. Review!TypeInv'
    <2>1. out' \subseteq Review!Sendable  BY <1>5 DEF Review!TypeInv
    <2>2. form' # None => form' \in Review!Windows  BY <1>4
    <2> QED  BY <1>1, <1>3, <2>1, <2>2 DEF Review!TypeInv
  <1>7. Review!CopiesInv'
    <2>1. /\ server.status = "pending_advisor" => server.fund = "" /\ (server.granted # None => server.item = 0)
          /\ server.fund = "school" => server.granted # None /\ server.granted > 0
      BY ReviewFields
    <2>2. /\ Review!Copy(held) /\ (known # None => Review!Copy(known)) /\ (way.at = "served" => Review!Copy(way.detail))
          /\ form # None => Review!Copy(form.row)
      BY DEF Review!CopiesInv
    <2>3. \A x : Review!Copy(x) => Review!Copy(x)'  BY <1>1, ReviewKept
    <2>4. /\ Review!Copy(held)' /\ (known' # None => Review!Copy(known)') /\ (way'.at = "served" => Review!Copy(way.detail)')
          /\ form' # None => Review!Copy(form.row)'
      BY <1>1, <1>3, <1>4, <2>2, <2>3
    <2> QED  BY <1>1, <2>1, <2>4 DEF Review!CopiesInv
  <1>8. Review!FreshInv'  BY <1>1, <1>3, <1>4 DEF Review!FreshInv
  <1>9. \A q \in out' : Review!Sound(q)'
    <2>1. \A q \in out' : Review!Sound(q)  BY <1>5
    <2> QED  BY <1>1, <2>1, ReviewKept
  <1>10. Review!OneInv'
    <2>1. \A p, q \in out : p.op # "delete" /\ q.op # "delete" /\ p.id = q.id => p = q  BY DEF Review!OneInv
    <2>2. \A p, q \in out' : p.op # "delete" /\ q.op # "delete" /\ p.id = q.id => p = q  BY <1>5, <2>1
    <2>3. \A q \in out' : q.id <= sent'  BY <1>1, <1>5 DEF Review!OneInv
    <2>4. form' # None => form'.id <= sent' /\ (form'.fundTouched => form'.fund = "typed")
      BY <1>1, <1>4 DEF Review!OneInv
    <2>5. ASSUME NEW q \in out', q.op # "delete", form' # None, q.id = form'.id PROVE form'.submitting
      <3>1. form # None /\ q.id = form.id /\ q \in out /\ q # r  BY <1>4, <1>5, <2>5
      <3>2. form.submitting  BY <2>5, <3>1 DEF Review!OneInv
      <3>3. r.op = "delete" \/ form.id # r.id  BY <2>1, <2>5, <3>1
      <3> QED  BY <1>4, <3>1, <3>2, <3>3
    <2> QED  BY <2>2, <2>3, <2>4, <2>5 DEF Review!OneInv
  <1> QED  BY <1>6, <1>7, <1>8, <1>9, <1>10

\* Every step keeps the review sound.
LEMMA ReviewStep == ASSUME Review!Inv, Review!Next \/ UNCHANGED vars, UNCHANGED page PROVE Review!Inv'
  <1>1. CASE Review!Others
    <2>1. UNCHANGED <<past, held, known, way, form, sent, out>> /\ others' = others + 1
      BY <1>1 DEF Review!Others, Review!clientVars
    <2>2. others' \in Nat
      <3>1. others \in Nat  BY DEF Review!TypeInv
      <3> QED  BY <2>1, <3>1
    <2>3. Moves  BY <1>1, ReviewOthers
    <2>4. out' \subseteq Review!Sendable /\ (\A q \in out' : Review!Sound(q))  BY <2>1 DEF Review!TypeInv
    <2>5. Review!OneInv'  BY <2>1 DEF Review!OneInv
    <2> QED  BY <2>1, <2>2, <2>3, <2>4, <2>5, ReviewRow
  <1>2. CASE Review!Requests
    <2>1. PICK r \in out : Review!Handle(r) \/ Review!Refuse(r) \/ Review!Answer(r)  BY <1>2 DEF Review!Requests
    <2>2. CASE Review!Answer(r)
      <3>1. UNCHANGED past  BY <2>2 DEF Review!Answer
      <3> QED  BY <2>2, <3>1, ReviewAnswers
    <2>3. CASE Review!Handle(r) \/ Review!Refuse(r)
      <3>1. PICK wire \in {"ok", "no"} : Review!Answered(r, wire)  BY <2>3 DEF Review!Handle, Review!Refuse
      <3>2. /\ out' = (out \ {r}) \cup {[r EXCEPT !.wire = wire]}
            /\ UNCHANGED <<past, others, held, known, way, form, sent>>
        BY <3>1 DEF Review!Answered, Review!clientVars
      <3>3. out' \subseteq Review!Sendable /\ (\A q \in out' : Review!Sound(q)) /\ Review!OneInv'
        BY <3>2, ReviewAnswered
      <3>4. others' \in Nat  BY <3>2 DEF Review!TypeInv
      <3>5. Moves
        <4>1. CASE Review!Handle(r)  BY <4>1, ReviewAccepts DEF Review!Handle
        <4>2. CASE Review!Refuse(r)
          <5>1. server' = server  BY <4>2 DEF Review!Refuse
          <5>2. server \in Review!Rows /\ server.item \in Nat /\ server.report \in Nat  BY ReviewFields
          <5>3. server.fund = "school" => server.granted # None /\ server.granted > 0  BY ReviewFields
          <5>4. \A k \in Nat : k >= k /\ ~(k > k)  OBVIOUS
          <5>5. server'.report >= server.report /\ server'.item >= server.item /\ ~(server'.item > server.item)
            BY <5>1, <5>2, <5>4
          <5> QED  BY <5>1, <5>2, <5>3, <5>5 DEF Moves
        <4> QED  BY <2>3, <4>1, <4>2
      <3> QED  BY <3>2, <3>3, <3>4, <3>5, ReviewRow
    <2> QED  BY <2>1, <2>2, <2>3
  <1>3. CASE Review!OpenRow  BY <1>3, ReviewOpens DEF Review!OpenRow
  <1>4. CASE Review!Close \/ Review!AskReject \/ Review!CancelReject
    BY <1>4, ReviewLeaves DEF Review!Close, Review!AskReject, Review!CancelReject
  <1>5. CASE \/ Review!AfterClose \/ Review!Forget \/ Review!LoadList
             \/ Review!Served \/ Review!DetailArrives \/ Review!DetailFails \/ Review!RetryDetail
    <2>1. UNCHANGED past
      BY <1>5 DEF Review!AfterClose, Review!Forget, Review!LoadList, Review!Served, Review!DetailArrives,
                  Review!DetailFails, Review!RetryDetail
    <2> QED  BY <1>5, <2>1, ReviewLoads
  <1>6. CASE Review!WriteNote \/ Review!TypeFund \/ Review!TickLarge \/ Review!TypeAmount \/ Review!TickCheck
    <2>1. UNCHANGED past
      BY <1>6 DEF Review!WriteNote, Review!TypeFund, Review!TickLarge, Review!TypeAmount, Review!TickCheck, Review!Edit
    <2> QED  BY <1>6, <2>1, ReviewEdits
  <1>7. CASE Review!Approve \/ Review!ApproveClose \/ Review!Reject \/ Review!Delete
    <2>1. UNCHANGED past  BY <1>7 DEF Review!Approve, Review!ApproveClose, Review!Reject, Review!Delete, Review!Send
    <2> QED  BY <1>7, <2>1, ReviewApproves, ReviewCloses, ReviewRejects, ReviewDeletes
  <1>8. CASE UNCHANGED vars
    <2>1. UNCHANGED <<past, server, others, held, known, way, form, sent, out>>  BY <1>8 DEF vars
    <2>2. Review!TypeInv' /\ Review!FreshInv' /\ Review!OneInv'
      BY <2>1 DEF Review!TypeInv, Review!FreshInv, Review!OneInv
    <2>3. Review!CopiesInv'  BY <2>1 DEF Review!CopiesInv, Review!Copy
    <2>4. \A r \in out' : Review!Sound(r)'  BY <2>1 DEF Review!Sound
    <2> QED  BY <2>2, <2>3, <2>4
  <1> QED  BY <1>1, <1>2, <1>3, <1>4, <1>5, <1>6, <1>7, <1>8 DEF Review!Next

\* A request that has been applied, and is not a deletion, was accepted in this step: no
\* other of its window is under way that its trace could be mistaken for.
LEMMA ReviewApplied ==
  ASSUME Review!Inv, Review!Next, NEW r \in out, Review!Applied(r), server' # server \/ r.op # "delete"
  PROVE  Review!Handle(r)
  <1>1. r \notin out' /\ [r EXCEPT !.wire = "ok"] \in out'  BY DEF Review!Applied
  <1>2. Review!Requests
    <2>1. CASE Review!Others  BY <1>1, <2>1 DEF Review!Others
    <2>2. CASE \/ Review!OpenRow \/ Review!Close \/ Review!AfterClose \/ Review!Forget \/ Review!LoadList
               \/ Review!Served \/ Review!DetailArrives \/ Review!DetailFails \/ Review!RetryDetail
               \/ Review!AskReject \/ Review!CancelReject
      BY <1>1, <2>2 DEF Review!OpenRow, Review!Close, Review!AfterClose, Review!Forget, Review!LoadList, Review!Served,
                        Review!DetailArrives, Review!DetailFails, Review!RetryDetail, Review!AskReject, Review!CancelReject
    <2>3. CASE Review!WriteNote \/ Review!TypeFund \/ Review!TickLarge \/ Review!TypeAmount \/ Review!TickCheck
      BY <1>1, <2>3 DEF Review!WriteNote, Review!TypeFund, Review!TickLarge, Review!TypeAmount, Review!TickCheck, Review!Edit
    <2>4. CASE Review!Approve \/ Review!ApproveClose \/ Review!Reject \/ Review!Delete
      BY <1>1, <2>4 DEF Review!Approve, Review!ApproveClose, Review!Reject, Review!Delete, Review!Send
    <2> QED  BY <2>1, <2>2, <2>3, <2>4 DEF Review!Next
  <1>3. PICK q \in out : Review!Handle(q) \/ Review!Refuse(q) \/ Review!Answer(q)  BY <1>2 DEF Review!Requests
  <1>4. q = r
    <2>1. \E x : out' = (out \ {q}) \cup x
      <3>1. CASE Review!Answer(q)
        <4>1. out' = (out \ {q}) \cup {}  BY <3>1 DEF Review!Answer
        <4> QED  BY <4>1
      <3>2. CASE Review!Handle(q) \/ Review!Refuse(q)
        BY <3>2 DEF Review!Handle, Review!Refuse, Review!Answered
      <3> QED  BY <1>3, <3>1, <3>2
    <2> QED  BY <1>1, <2>1
  <1>5. CASE server' # server
    BY <1>3, <1>4, <1>5 DEF Review!Refuse, Review!Answer
  <1>6. CASE r.op # "delete"
    <2> DEFINE ok == [r EXCEPT !.wire = "ok"]
    <2>1. r \in Review!Sendable /\ r.wire \in {"sent", "ok", "no"}  BY DEF Review!TypeInv, Review!Sendable
    <2>2. ok.op = r.op /\ ok.id = r.id /\ ok.wire = "ok"  BY <2>1 DEF Review!Sendable
    <2>3. ok \in out'  BY <1>1
    <2> HIDE DEF ok
    <2>4. ok \notin out \/ ok = r  BY <1>6, <2>2 DEF Review!OneInv
    <2>5. ~Review!Answer(r)
      <3>1. SUFFICES ASSUME out' = out \ {r} PROVE FALSE
        BY DEF Review!Answer
      <3> QED  BY <2>3, <2>4, <3>1
    <2>6. ~Review!Refuse(r)
      <3> DEFINE no == [r EXCEPT !.wire = "no"]
      <3>1. SUFFICES ASSUME out' = (out \ {r}) \cup {no} PROVE FALSE
        BY DEF Review!Refuse, Review!Answered
      <3>2. no.wire = "no"  BY <2>1 DEF Review!Sendable
      <3> HIDE DEF no
      <3>3. ok # no  BY <2>2, <3>2
      <3> QED  BY <2>3, <2>4, <3>1, <3>3
    <2> QED  BY <1>3, <1>4, <2>5, <2>6
  <1> QED  BY <1>5, <1>6

\* What a window sends is about the line it has shown, whatever else happens to the
\* activity, and whatever copies of it the list, the cache and a query under way hold.
THEOREM ReviewIsSound == Spec => [](page = "review" => Review!Inv)
  <1>1. Init => (page = "review" => Review!Inv)  BY ReviewInit
  <1>2. (page = "review" => Review!Inv) /\ [Next]_vars => (page = "review" => Review!Inv)'
    <2> SUFFICES ASSUME page = "review" => Review!Inv, [Next]_vars, page' = "review" PROVE Review!Inv'
      OBVIOUS
    <2>1. page' = page  BY PageStays
    <2>2. Review!Next \/ UNCHANGED vars  BY <2>1 DEF Next
    <2> QED  BY <2>1, <2>2, ReviewStep
  <1> QED  BY <1>1, <1>2, PTL DEF Spec

\* A closing report is judged by an answer that came after the window was opened.
THEOREM CloseIsFresh == Spec => []CloseIsJudgedFresh
  <1>1. (page = "review" => Review!Inv) => CloseIsJudgedFresh
    <2> SUFFICES ASSUME Review!Inv, NEW r \in out, r.op = "close_approve" PROVE r.judged >= r.since
      BY DEF CloseIsJudgedFresh, Review!CloseIsJudgedFresh
    <2>1. Review!Sound(r)  OBVIOUS
    <2> QED  BY <2>1 DEF Review!Sound
  <1> QED  BY <1>1, ReviewIsSound, PTL

\* What a reviewer's window records is what they typed as a note, the amount it showed
\* for the line there is, and a prefilled source only for money.
THEOREM SignedAsTheyShow == Spec => SignedAsShown
  <1>1. (page = "review" => Review!Inv) /\ (page = "review" => Review!Inv)' /\ [Next]_vars
          => [page = "review" => Review!WritesNote /\ Review!GrantsAsShown /\ Review!ZeroNamesNoSource']_vars
    <2> SUFFICES ASSUME page = "review", Review!Inv, Review!Inv', Review!Next
                 PROVE  Review!WritesNote /\ Review!GrantsAsShown /\ Review!ZeroNamesNoSource'
      BY PageStays DEF Next
    <2>1. Review!WritesNote
      <3> SUFFICES ASSUME NEW r \in out, Review!Applied(r), server'.note # server.note PROVE r.noted
        BY DEF Review!WritesNote
      <3>1. Review!Handle(r)  BY ReviewApplied
      <3> QED  BY <3>1, ReviewAccepts DEF Review!Handle
    <2>2. Review!GrantsAsShown
      <3> SUFFICES ASSUME NEW r \in out, Review!Applied(r), r.op = "approve", server.status = "pending_advisor",
                          server.asked > 0
                   PROVE  r.item = server.item /\ server'.granted = Review!AtMost(r.shown, server.asked)
        BY DEF Review!GrantsAsShown
      <3>1. Review!Handle(r)  BY ReviewApplied
      <3>2. Review!FirstStage(r)  BY <3>1 DEF Review!Handle, Review!Accepts
      <3> QED  BY <3>2, ReviewFirstStage
    <2>3. Review!ZeroNamesNoSource'  BY DEF Review!ZeroNamesNoSource, Review!CopiesInv
    <2> QED  BY <2>1, <2>2, <2>3
  <1> QED  BY <1>1, ReviewIsSound, PTL DEF Spec, SignedAsShown
HIDE DEF Review!Inv

(***************************************************************************)
(* The pages that keep records.                                            *)
(***************************************************************************)
\* The type of the clubs' settings follows from the invariant of their page.
LEMMA SettingsTyped == ASSUME Settings!Inv PROVE Settings!TypeOK
  <1>1. Settings!PageInv  BY DEF Settings!Inv
  <1>2. form \in Settings!Pages  BY <1>1 DEF Settings!PageInv
  <1>3. /\ form.club \in Titles \cup {None} /\ form.last \in Titles \cup {None}
        /\ form.form \in Settings!Values \cup {None} /\ form.saved \in Settings!Values \cup {None}
        /\ form.of \in Numbers \cup {0} /\ form.pw \in Numbers \cup {0} /\ form.ask \subseteq Settings!Asks
    BY <1>2 DEF Settings!Pages
  <1>4. \A a \in form.ask : a.what \in {"switch", "disable", "reset"}  BY <1>3 DEF Settings!Asks
  <1> QED  BY <1>1, <1>3, <1>4 DEF Settings!PageInv, Settings!TypeOK

\* What these pages keep, show and send is of its type, for any constants.
THEOREM RecordsAreTyped == Spec => []TypeOK
  <1>1. /\ (page = "profile" => Profile!Inv) /\ (page = "settings" => Settings!Inv) /\ (page = "accounts" => Accounts!Inv)
        => TypeOK
    BY SettingsTyped DEF TypeOK, Profile!Inv, Accounts!Inv
  <1> QED  BY <1>1, ProfileIsSound, SettingsAreSound, AccountsAreSound, PTL

(***************************************************************************)
(* The two forms of an activity.                                           *)
(***************************************************************************)
LEMMA EditorAssumed == Editor!EditorAssumption
  BY PagesAssumption

LEMMA EditorCounts == ASSUME NEW S PROVE Editor!Cardinality(S) = Cardinality(S)
  BY DEF Editor!Cardinality, Cardinality

\* The form as it is opened, new or for the row there is, is sound.
LEMMA EditorInit == ASSUME Editor!Init PROVE Editor!Inv
  <1>0. MaxText \in Nat \ {0} /\ MaxMade \in Nat /\ MaxLost \in Nat  BY EditorAssumed DEF Editor!EditorAssumption
  <1>1. /\ server = <<>> \/ server = <<Editor!Row(1, None)>>
        /\ past \in {"apply", "close"} /\ (past = "close" => server # <<>>)
        /\ form = [target |-> Len(server), text |-> Len(server), files |-> {}, listed |-> {}, checking |-> {}, unsettled |-> FALSE, forgone |-> {}]
        /\ way = "form" /\ known = None /\ asked = <<>> /\ held = {} /\ sent = 0 /\ count = 0 /\ others = 0
        /\ out = [s \in Editor!Slots |-> None]
    BY DEF Editor!Init
  <1>2. Editor!Row(1, None) \in Editor!Rows /\ Editor!Row(1, None).by # "submit" /\ Editor!Row(1, None).files = {}
    BY <1>0, EditorAssumed DEF Editor!Row, Editor!Rows, Editor!EditorAssumption
  <1>3. server \in Seq(Editor!Rows) /\ Len(server) \in {0, 1} /\ (server # <<>> => Len(server) = 1 /\ server[1] = Editor!Row(1, None))
        /\ DOMAIN server = 1 .. Len(server)
    <2>1. CASE server = <<>>  BY <2>1
    <2>2. CASE server = <<Editor!Row(1, None)>>
      <3>1. server \in Seq(Editor!Rows)  BY <1>2, <2>2
      <3>2. Len(server) = 1 /\ server[1] = Editor!Row(1, None) /\ DOMAIN server = 1 .. 1  BY <2>2
      <3> QED  BY <3>1, <3>2
    <2> QED  BY <1>1, <2>1, <2>2
  <1>4. Editor!TypeInv
    <2>1. form \in [target: 0 .. Len(server), text: 0 .. MaxText, files: SUBSET Files, listed: SUBSET Editor!Copies,
                    checking: SUBSET Files, unsettled: BOOLEAN, forgone: SUBSET Files]
      BY <1>0, <1>1, <1>3
    <2>2. out \in [Editor!Slots -> Editor!Chains \cup {None}]  BY <1>1
    <2>3. form.listed = {} /\ sent \in 0 .. MaxMade /\ count \in 0 .. MaxLost /\ others \in 0 .. count  BY <1>0, <1>1
    <2>4. held \subseteq [copy: Editor!Copies, target: DOMAIN server, wire: {"sent", "handled"}]  BY <1>1
    <2>5. past \in {"apply", "close"} /\ way \in {"form", "list", "away"} /\ known \in {"draft", "submit", None} /\ asked = <<>>
      BY <1>1
    <2>6. server \in Seq(Editor!Rows)  BY <1>3
    <2> QED  BY <2>1, <2>2, <2>3, <2>4, <2>5, <2>6 DEF Editor!TypeInv
  <1>5. Editor!ChainInv  BY <1>1 DEF Editor!ChainInv, Editor!Slots
  <1>6. Editor!MadeInv
    <2>1. Editor!ByHandIn = {}  BY <1>1, <1>2, <1>3 DEF Editor!ByHandIn
    <2> QED  BY <1>1, <2>1, FS_EmptySet, EditorCounts DEF Editor!MadeInv
  <1>7. past = "close" => Editor!CopiesInv /\ Editor!ReportInv /\ Editor!ClosedIsSaved
    BY <1>1, <1>2, <1>3 DEF Editor!CopiesInv, Editor!ReportInv, Editor!ClosedIsSaved, Editor!Kept, Editor!InFlight, Editor!Slots
  <1> QED  BY <1>4, <1>5, <1>6, <1>7 DEF Editor!Inv

\* One of the files that are left is the next to be sent.
LEMMA EditorNext == ASSUME NEW todo, todo # {} PROVE Editor!NextFile(todo) \in todo
  <1>1. \E f \in todo : todo \cap Photos # {} => f \in Photos  OBVIOUS
  <1> QED  BY <1>1 DEF Editor!NextFile

\* What follows a saved row is an upload or the hand-in, of the same chain.
LEMMA EditorOnward ==
  ASSUME NEW save \in Editor!Chains, NEW todo \in SUBSET Files
  PROVE  /\ todo # {} => /\ Editor!Onward(save, todo) \in Editor!Chains
                         /\ Editor!Onward(save, todo) = [save EXCEPT !.op = "send", !.file = Editor!NextFile(todo), !.todo = todo, !.wire = "sent"]
                         /\ Editor!NextFile(todo) \in todo
         /\ todo = {} /\ past = "close" /\ save.by = "draft" => Editor!Onward(save, todo).op = "done"
         /\ todo = {} /\ ~(past = "close" /\ save.by = "draft") =>
                         /\ Editor!Onward(save, todo) \in Editor!Chains
                         /\ Editor!Onward(save, todo) = [save EXCEPT !.op = "submit", !.file = None, !.todo = {}, !.wire = "sent"]
  BY EditorNext DEF Editor!Onward, Editor!Chains

\* Where the rows stay whoever made them, as many are handed in.
LEMMA EditorSameRows ==
  ASSUME DOMAIN server' = DOMAIN server, \A i \in DOMAIN server : server'[i].by = server[i].by
  PROVE  Editor!ByHandIn' = Editor!ByHandIn
  BY DEF Editor!ByHandIn

\* Editing the form: what it shows as uploaded stays, and no file is chosen that it shows; what is
\* taken off it after a failed upload is remembered; and nothing is edited that is being saved.
LEMMA EditorEdit ==
  ASSUME Editor!Inv, UNCHANGED <<past, way, known, asked, out, held, server, sent, count, others>>, way = "form",
         form' \in [target: {form.target}, text: 0 .. MaxText, files: SUBSET Files, listed: {form.listed},
                    checking: SUBSET Files, unsettled: {form.unsettled}, forgone: SUBSET Files],
         form.forgone \subseteq form'.forgone,
         past = "close" =>
           /\ asked # <<>> \/ out[1] # None =>
                form'.text = form.text /\ form'.checking = form.checking /\ form'.files = form.files
           /\ \A f \in form'.files : f \in form.files \/ \A c \in form.listed : c.file # f
           /\ \A f \in form.files \ form'.files : form.unsettled => f \in form'.forgone
  PROVE  Editor!Inv'
  <1>t. Editor!TypeInv /\ Editor!ChainInv /\ Editor!MadeInv /\ (past = "close" => Editor!CopiesInv /\ Editor!ReportInv /\ Editor!ClosedIsSaved)  BY DEF Editor!Inv
  <1>0. form'.target = form.target /\ form'.listed = form.listed /\ form'.unsettled = form.unsettled
    OBVIOUS
  <1>1. Editor!TypeInv'  BY <1>t, <1>0 DEF Editor!TypeInv
  <1>2. Editor!ChainInv'  BY <1>t, <1>0 DEF Editor!ChainInv, Editor!Creates, Editor!HasRow
  <1>3. Editor!MadeInv'  BY <1>t, <1>0 DEF Editor!MadeInv, Editor!ByHandIn, Editor!Creates
  <1>4. CASE past = "close"
    <2>1. Editor!CopiesInv'  BY <1>t, <1>0, <1>4 DEF Editor!CopiesInv
    <2>2. Editor!InFlight' = Editor!InFlight /\ Editor!Kept' = Editor!Kept  BY <1>0 DEF Editor!InFlight, Editor!Kept
    <2>3. Editor!ReportInv'
      <3>1. form.target \in DOMAIN server /\ \A c \in form.listed : c.file \notin form'.files
        BY <1>t, <1>4 DEF Editor!ReportInv
      <3>2. \A c \in Editor!Kept : \/ c \in form.listed \/ c.file \in form'.forgone
                                   \/ c.file \in form'.files /\ (form.unsettled \/ (Editor!InFlight /\ c.file = out[1].file))
        BY <1>t, <1>4 DEF Editor!ReportInv, Editor!InFlight
      <3>3. asked # <<>> => form'.checking = {} /\ asked[1].text = form'.text
        BY <1>t, <1>4 DEF Editor!ReportInv
      <3>4. out[1] # None => form'.text = form.text /\ form'.checking = form.checking /\ form'.files = form.files
        BY <1>4
      <3> QED  BY <1>t, <1>0, <1>4, <2>2, <3>1, <3>2, <3>3, <3>4 DEF Editor!ReportInv
    <2>4. Editor!ClosedIsSaved'  BY DEF Editor!ClosedIsSaved
    <2> QED  BY <1>1, <1>2, <1>3, <2>1, <2>3, <2>4 DEF Editor!Inv
  <1> QED  BY <1>1, <1>2, <1>3, <1>4 DEF Editor!Inv

\* Typing, choosing files, and what becomes of a file that has been read.
LEMMA EditorEdits ==
  ASSUME Editor!Inv, Editor!TypeApplication \/ Editor!TypeReport \/ \E f \in Files : Editor!Choose(f) \/ Editor!Hashed(f) \/ Editor!Unchoose(f)
  PROVE  Editor!Inv'
  <1>t. Editor!TypeInv /\ Editor!ChainInv /\ (past = "close" => Editor!ReportInv)  BY DEF Editor!Inv
  <1>form. form \in [target: 0 .. Len(server), text: 0 .. MaxText, files: SUBSET Files, listed: SUBSET Editor!Copies,
                     checking: SUBSET Files, unsettled: BOOLEAN, forgone: SUBSET Files]
    BY <1>t DEF Editor!TypeInv
  <1>editable. ASSUME Editor!Editable PROVE way = "form" /\ asked = <<>> /\ (past = "close" => out[1] = None)
    BY <1>t, <1>editable DEF Editor!Editable, Editor!Open, Editor!ChainInv
  <1>1. CASE Editor!Typed
    <2>1. /\ UNCHANGED <<past, way, known, asked, out, held, server, sent, count, others>>
          /\ Editor!Editable /\ form.text < MaxText /\ form' = [form EXCEPT !.text = @ + 1]
      BY <1>1 DEF Editor!Typed, Editor!serverVars
    <2>2. form.text + 1 \in 0 .. MaxText  BY <1>form, <2>1, EditorAssumed DEF Editor!EditorAssumption
    <2> QED  BY <1>t, <1>form, <1>editable, <2>1, <2>2, EditorEdit DEF Editor!ReportInv
  <1>2. ASSUME NEW f \in Files, Editor!Choose(f) PROVE Editor!Inv'
    <2>1. /\ UNCHANGED <<past, way, known, asked, out, held, server, sent, count, others>>
          /\ Editor!Editable /\ form' = [form EXCEPT !.checking = @ \cup {f}]
      BY <1>2 DEF Editor!Choose, Editor!serverVars
    <2> QED  BY <1>t, <1>form, <1>editable, <2>1, EditorEdit DEF Editor!ReportInv
  <1>3. ASSUME NEW f \in Files, Editor!Hashed(f) PROVE Editor!Inv'
    <2>0. PICK taken \in IF f \in Editor!Known THEN {{}} ELSE {{}, {f}} :
            form' = [form EXCEPT !.checking = @ \ {f}, !.files = @ \cup taken]
      BY <1>3 DEF Editor!Hashed
    <2>1. /\ UNCHANGED <<past, way, known, asked, out, held, server, sent, count, others>>
          /\ way = "form" /\ f \in form.checking
      BY <1>3 DEF Editor!Hashed, Editor!serverVars
    <2>2. taken \subseteq {f} /\ (taken # {} => f \notin Editor!Known)  BY <2>0
    <2>3. past = "close" => asked = <<>> /\ out[1] = None  BY <1>t, <2>1 DEF Editor!ReportInv
    <2>4. past = "close" => \A g \in form'.files : g \in form.files \/ \A c \in form.listed : c.file # g
      BY <1>form, <2>0, <2>2 DEF Editor!Known
    <2> QED  BY <1>form, <2>0, <2>1, <2>2, <2>3, <2>4, EditorEdit
  <1>4. ASSUME NEW f \in Files, Editor!Unchoose(f) PROVE Editor!Inv'
    <2>1. /\ UNCHANGED <<past, way, known, asked, out, held, server, sent, count, others>>
          /\ Editor!Editable /\ f \in form.files
          /\ form' = [form EXCEPT !.files = @ \ {f}, !.forgone = IF form.unsettled THEN @ \cup {f} ELSE @]
      BY <1>4 DEF Editor!Unchoose, Editor!serverVars
    <2> QED  BY <1>t, <1>form, <1>editable, <2>1, EditorEdit DEF Editor!ReportInv
  <1> QED  BY <1>1, <1>2, <1>3, <1>4 DEF Editor!TypeApplication, Editor!TypeReport

\* A removal is of a copy that is shown.
LEMMA EditorWithdraw == ASSUME Editor!Inv, NEW c \in form.listed, Editor!Withdraw(c) PROVE Editor!Inv'
  <1>t. Editor!TypeInv /\ Editor!ChainInv /\ Editor!MadeInv /\ (past = "close" => Editor!CopiesInv /\ Editor!ReportInv /\ Editor!ClosedIsSaved)  BY DEF Editor!Inv
  <1>1. /\ UNCHANGED <<past, way, form, known, asked, out, server, sent, count, others>> /\ Editor!Editable
        /\ held' = held \cup {[copy |-> c, target |-> form.target, wire |-> "sent"]}
        /\ \A r \in held : r.copy # c
    BY DEF Editor!Withdraw, Editor!pageVars, Editor!serverVars
  <1>2. c \in Editor!Copies /\ form.target \in DOMAIN server  BY <1>t DEF Editor!TypeInv
  <1>3. Editor!TypeInv'
    <2>1. held' \subseteq [copy: Editor!Copies, target: DOMAIN server, wire: {"sent", "handled"}]
      BY <1>t, <1>1, <1>2 DEF Editor!TypeInv
    <2> QED  BY <1>t, <1>1, <2>1 DEF Editor!TypeInv
  <1>4. Editor!ChainInv' /\ Editor!MadeInv'  BY <1>t, <1>1 DEF Editor!ChainInv, Editor!MadeInv, Editor!ByHandIn, Editor!Creates, Editor!HasRow
  <1>5. CASE past = "close"
    <2>1. out[1] = None  BY <1>t, <1>1, <1>5 DEF Editor!Editable, Editor!Open, Editor!ChainInv
    <2>2. Editor!CopiesInv'  BY <1>t, <1>1, <1>2, <1>5 DEF Editor!CopiesInv
    <2>3. Editor!ReportInv'  BY <1>t, <1>1, <1>5, <2>1 DEF Editor!ReportInv, Editor!Kept, Editor!InFlight
    <2>4. Editor!ClosedIsSaved'  BY <1>t, <1>1, <1>5 DEF Editor!ClosedIsSaved
    <2> QED  BY <1>3, <1>4, <2>2, <2>3, <2>4 DEF Editor!Inv
  <1> QED  BY <1>1, <1>3, <1>4, <1>5 DEF Editor!Inv

\* A chain begins from the form as it is, with no other running, and with a request of its own kind.
LEMMA EditorFirst ==
  ASSUME Editor!Inv, NEW by \in {"draft", "submit"}, NEW text \in 0 .. MaxText, NEW todo \in SUBSET Files,
         past = "close" => form.text = text /\ form.checking = {}
  PROVE  LET save == Editor!First(by, text, todo) IN
         /\ save \in Editor!Chains /\ save.wire = "sent" /\ save.by = by /\ save.text = text /\ save.target = form.target
         /\ save.new <=> form.target = 0
         /\ past = "apply" => save.op = IF form.target = 0 THEN "create" ELSE "update"
         /\ past = "close" =>
              \/ by = "draft" /\ save.op = "text"
              \/ by = "submit" /\ form.unsettled /\ save.op = "look"
              \/ /\ by = "submit" /\ ~form.unsettled /\ save.todo = form.files
                 /\ \/ save.op = "send" /\ save.file \in save.todo
                    \/ save.op = "submit" /\ form.files = {}
  <1>t. Editor!TypeInv  BY DEF Editor!Inv
  <1>0. form.target \in Nat /\ form.files \subseteq Files /\ form.unsettled \in BOOLEAN /\ past \in {"apply", "close"}
    BY <1>t DEF Editor!TypeInv
  <1>1. CASE past = "apply"
    BY <1>0, <1>1 DEF Editor!First, Editor!Request, Editor!Chains
  <1>2. CASE past = "close" /\ by = "draft"
    <2> DEFINE req == Editor!Request(by, form.target, text, {}, "text", None)
    <2>1. /\ req \in Editor!Chains /\ req.wire = "sent" /\ req.by = by /\ req.text = text /\ req.target = form.target
          /\ req.new <=> form.target = 0
          /\ req.op = "text"
      BY <1>0 DEF Editor!Request, Editor!Chains
    <2>2. Editor!First(by, text, todo) = req  BY <1>2 DEF Editor!First
    <2> HIDE DEF req
    <2> QED  BY <1>2, <2>1, <2>2
  <1>3. CASE past = "close" /\ by = "submit"
    <2> DEFINE req == Editor!Request(by, form.target, text, {}, "text", None)
    <2>1. /\ req \in Editor!Chains /\ req.wire = "sent" /\ req.by = by /\ req.text = text /\ req.target = form.target
          /\ req.new <=> form.target = 0
      BY <1>0 DEF Editor!Request, Editor!Chains
    <2>2. Editor!First(by, text, todo) = Editor!Upload(req)  BY <1>3 DEF Editor!First
    <2>3. CASE form.unsettled
      <3>1. Editor!Upload(req) = [req EXCEPT !.op = "look", !.wire = "sent"]  BY <2>3 DEF Editor!Upload
      <3> HIDE DEF req
      <3>2. /\ Editor!Upload(req) \in Editor!Chains /\ Editor!Upload(req).by = by /\ Editor!Upload(req).text = text /\ Editor!Upload(req).target = form.target
            /\ Editor!Upload(req).new <=> form.target = 0
            /\ Editor!Upload(req).op = "look" /\ Editor!Upload(req).wire = "sent"
        BY <2>1, <3>1 DEF Editor!Chains
      <3> QED  BY <1>3, <2>2, <2>3, <3>2
    <2>4. CASE ~form.unsettled
      <3>1. Editor!Upload(req) = Editor!Onward(req, form.files)  BY <2>4 DEF Editor!Upload
      <3> HIDE DEF req
      <3>2. CASE form.files # {}
        <4>1. Editor!Onward(req, form.files) = [req EXCEPT !.op = "send", !.file = Editor!NextFile(form.files), !.todo = form.files, !.wire = "sent"]
              /\ Editor!NextFile(form.files) \in form.files /\ Editor!Onward(req, form.files) \in Editor!Chains
          BY <1>0, <2>1, <3>2, EditorOnward
        <4>2. /\ Editor!Onward(req, form.files) \in Editor!Chains /\ Editor!Onward(req, form.files).by = by /\ Editor!Onward(req, form.files).text = text
              /\ Editor!Onward(req, form.files).target = form.target /\ Editor!Onward(req, form.files).wire = "sent"
              /\ Editor!Onward(req, form.files).new <=> form.target = 0
              /\ Editor!Onward(req, form.files).op = "send"
              /\ Editor!Onward(req, form.files).todo = form.files /\ Editor!Onward(req, form.files).file \in form.files
          BY <2>1, <3>2, <4>1 DEF Editor!Chains
        <4> QED  BY <1>3, <2>2, <2>4, <3>1, <3>2, <4>2
      <3>3. CASE form.files = {}
        <4>1. Editor!Onward(req, form.files) = [req EXCEPT !.op = "submit", !.file = None, !.todo = {}, !.wire = "sent"]
              /\ Editor!Onward(req, form.files) \in Editor!Chains
          BY <1>0, <1>3, <2>1, <3>3, EditorOnward
        <4>2. /\ Editor!Onward(req, form.files) \in Editor!Chains /\ Editor!Onward(req, form.files).by = by /\ Editor!Onward(req, form.files).text = text
              /\ Editor!Onward(req, form.files).target = form.target /\ Editor!Onward(req, form.files).wire = "sent"
              /\ Editor!Onward(req, form.files).new <=> form.target = 0
              /\ Editor!Onward(req, form.files).op = "submit"
              /\ Editor!Onward(req, form.files).todo = form.files
          BY <2>1, <3>3, <4>1 DEF Editor!Chains
        <4> QED  BY <1>3, <2>2, <2>4, <3>1, <3>3, <4>2
      <3> QED  BY <3>2, <3>3
    <2> QED  BY <2>3, <2>4
  <1> QED  BY <1>0, <1>1, <1>2, <1>3

\* One chain at most is there to go on.
LEMMA EditorOne ==
  ASSUME Editor!TypeInv, Editor!ChainInv, NEW s \in Editor!Slots
  PROVE  /\ out[s] # None => s = 1
         /\ Editor!Free(s) /\ out[1] = None => s = 1
         /\ \A x : [out EXCEPT ![1] = x][1] = x /\ [out EXCEPT ![1] = x][2] = None
         /\ \A x \in Editor!Chains \cup {None} : [out EXCEPT ![1] = x] \in [Editor!Slots -> Editor!Chains \cup {None}]
  BY DEF Editor!Slots, Editor!ChainInv, Editor!TypeInv, Editor!Free

\* A save that is begun is the only one.
LEMMA EditorStart ==
  ASSUME Editor!Inv, out[1] = None, way = "form",
         NEW by \in {"draft", "submit"}, NEW text \in 0 .. MaxText, NEW todo \in SUBSET Files,
         past = "close" => form.text = text /\ form.checking = {},
         Editor!Start(by, text, todo), asked' = <<>>, UNCHANGED <<past, way, form, held, server, sent, count, others>>
  PROVE  Editor!Inv'
  <1>t. Editor!TypeInv /\ Editor!ChainInv /\ Editor!MadeInv /\ (past = "close" => Editor!CopiesInv /\ Editor!ReportInv /\ Editor!ClosedIsSaved)  BY DEF Editor!Inv
  <1> DEFINE save == Editor!First(by, text, todo)
  <1>1. /\ save \in Editor!Chains /\ save.wire = "sent" /\ save.by = by /\ save.text = text /\ save.target = form.target
        /\ save.new <=> form.target = 0
        /\ past = "apply" => save.op = IF form.target = 0 THEN "create" ELSE "update"
        /\ past = "close" =>
             \/ by = "draft" /\ save.op = "text"
             \/ by = "submit" /\ form.unsettled /\ save.op = "look"
             \/ /\ by = "submit" /\ ~form.unsettled /\ save.todo = form.files
                /\ \/ save.op = "send" /\ save.file \in save.todo
                   \/ save.op = "submit" /\ form.files = {}
    BY EditorFirst
  <1>2. out' = [out EXCEPT ![1] = save] /\ known' = by
    <2>1. PICK s \in Editor!Slots : Editor!Free(s) /\ out' = [out EXCEPT ![s] = Editor!First(by, text, todo)]  BY DEF Editor!Start
    <2>2. s = 1  BY <1>t, <2>1, EditorOne
    <2> QED  BY <2>1, <2>2 DEF Editor!Start
  <1> HIDE DEF save
  <1>3. out'[1] = save /\ out'[2] = None /\ save # None /\ out' \in [Editor!Slots -> Editor!Chains \cup {None}]
    <2>1. 1 \in Editor!Slots  BY DEF Editor!Slots
    <2> QED  BY <1>t, <1>1, <1>2, <2>1, EditorOne, EditorAssumed DEF Editor!EditorAssumption
  <1>4. Editor!TypeInv'  BY <1>t, <1>2, <1>3 DEF Editor!TypeInv
  <1>5. form.target \in 0 .. Len(server) /\ server \in Seq(Editor!Rows) /\ past \in {"apply", "close"}  BY <1>t DEF Editor!TypeInv
  <1>6. save.op = "create" \/ form.target \in DOMAIN server
    BY <1>t, <1>1, <1>5 DEF Editor!ReportInv
  <1>7. past = "close" => form.target # 0  BY <1>t, <1>5 DEF Editor!ReportInv
  <1>8. Editor!ChainInv'
    <2>1. by # None  BY EditorAssumed DEF Editor!EditorAssumption
    <2>2. /\ save.op = "create" => save.new /\ past = "apply"
          /\ save.op = "update" => past = "apply"
          /\ save.op \in {"text", "look"} => past = "close"
          /\ past = "apply" /\ save.op \in {"send", "submit"} => save.by = "submit"
          /\ save.op = "send" => save.file \in save.todo
          /\ past = "close" /\ save.op = "text" => save.by = "draft"
      BY <1>1, <1>5
    <2> QED  BY <1>t, <1>1, <1>2, <1>3, <1>6, <2>1, <2>2 DEF Editor!ChainInv, Editor!Creates, Editor!HasRow
  <1>9. Editor!MadeInv'  BY <1>t, <1>3 DEF Editor!MadeInv, Editor!ByHandIn, Editor!Creates
  <1>10. CASE past = "close"
    <2>1. Editor!CopiesInv'  BY <1>t, <1>10 DEF Editor!CopiesInv
    <2>2. ~Editor!InFlight /\ ~Editor!InFlight' /\ Editor!Kept' = Editor!Kept  BY <1>1, <1>3 DEF Editor!InFlight, Editor!Kept
    <2>3. Editor!ReportInv'  BY <1>t, <1>1, <1>3, <1>10, <2>2 DEF Editor!ReportInv
    <2>4. Editor!ClosedIsSaved'  BY DEF Editor!ClosedIsSaved
    <2> QED  BY <1>4, <1>8, <1>9, <2>1, <2>3, <2>4 DEF Editor!Inv
  <1> QED  BY <1>4, <1>8, <1>9, <1>10 DEF Editor!Inv

\* What only opens or closes a confirmation.
LEMMA EditorAsk ==
  ASSUME Editor!Inv, UNCHANGED <<past, way, form, known, out, held, server, sent, count, others>>,
         \/ asked' = <<>>
         \/ /\ way = "form" /\ out[1] = None
            /\ \E d \in [by: {"draft", "submit"}, text: {form.text}, todo: SUBSET Files] : asked' = <<d>>
            /\ past = "close" => form.checking = {}
  PROVE  Editor!Inv'
  <1>t. Editor!TypeInv /\ Editor!ChainInv /\ Editor!MadeInv /\ (past = "close" => Editor!CopiesInv /\ Editor!ReportInv /\ Editor!ClosedIsSaved)  BY DEF Editor!Inv
  <1>1. Editor!TypeInv'
    <2>1. asked' = <<>> \/ \E d \in [by: {"draft", "submit"}, text: 0 .. MaxText, todo: SUBSET Files] : asked' = <<d>>
      BY <1>t DEF Editor!TypeInv
    <2> QED  BY <1>t, <2>1 DEF Editor!TypeInv
  <1>2. Editor!ChainInv'  BY <1>t DEF Editor!ChainInv, Editor!Creates, Editor!HasRow
  <1>3. Editor!MadeInv'  BY <1>t DEF Editor!MadeInv, Editor!ByHandIn, Editor!Creates
  <1>4. CASE past = "close"
    <2>1. Editor!CopiesInv'  BY <1>t, <1>4 DEF Editor!CopiesInv
    <2>2. Editor!InFlight' = Editor!InFlight /\ Editor!Kept' = Editor!Kept  BY DEF Editor!InFlight, Editor!Kept
    <2>3. asked' # <<>> => form.checking = {} /\ asked'[1].text = form.text  BY <1>4
    <2>4. Editor!ReportInv'  BY <1>t, <1>4, <2>2, <2>3 DEF Editor!ReportInv
    <2>5. Editor!ClosedIsSaved'  BY <1>t, <1>4 DEF Editor!ClosedIsSaved
    <2> QED  BY <1>1, <1>2, <1>3, <2>1, <2>4, <2>5 DEF Editor!Inv
  <1> QED  BY <1>1, <1>2, <1>3, <1>4 DEF Editor!Inv

\* Asking, confirming, and leaving the form: of the buttons that are held down, only the hand-in's
\* remembers that it has asked.
LEMMA EditorSaves ==
  ASSUME Editor!Inv, "draft" \notin HeldKeys,
         Editor!Confirm \/ Editor!Cancel \/ Editor!Leave \/ \E by \in {"draft", "submit"} : Editor!Press(by)
  PROVE  Editor!Inv'
  <1>t. Editor!TypeInv /\ Editor!ChainInv /\ Editor!MadeInv /\ (past = "close" => Editor!CopiesInv /\ Editor!ReportInv /\ Editor!ClosedIsSaved)  BY DEF Editor!Inv
  <1>form. form.text \in 0 .. MaxText /\ form.files \subseteq Files  BY <1>t DEF Editor!TypeInv
  <1>asked. ASSUME asked # <<>>
            PROVE  /\ Editor!Top.by \in {"draft", "submit"} /\ Editor!Top.text \in 0 .. MaxText
                   /\ Editor!Top.todo \in SUBSET Files /\ Editor!Top = asked[1]
                   /\ Editor!Below = <<>> /\ way = "form" /\ out[1] = None
    <2>1. PICK d \in [by: {"draft", "submit"}, text: 0 .. MaxText, todo: SUBSET Files] : asked = <<d>>
      BY <1>t, <1>asked DEF Editor!TypeInv
    <2>2. Len(asked) = 1 /\ asked[1] = d /\ Editor!Top = d /\ Editor!Below = <<>>
      BY <2>1 DEF Editor!Top, Editor!Below
    <2> QED  BY <1>t, <1>asked, <2>1, <2>2 DEF Editor!ChainInv
  <1>1. CASE Editor!Confirm
    <2>1. /\ asked # <<>> /\ asked' = Editor!Below /\ UNCHANGED <<past, way, form, held, server, sent, count, others>>
          /\ Editor!Start(Editor!Top.by, Editor!Top.text, Editor!Top.todo)
      BY <1>1 DEF Editor!Confirm, Editor!serverVars
    <2>2. past = "close" => form.text = Editor!Top.text /\ form.checking = {}
      BY <1>t, <1>asked, <2>1 DEF Editor!ReportInv
    <2> QED  BY <1>asked, <2>1, <2>2, EditorStart
  <1>2. CASE Editor!Cancel
    BY <1>2, <1>asked, EditorAsk DEF Editor!Cancel, Editor!serverVars
  <1>3. CASE Editor!Leave
    <2>1. /\ way = "form" /\ asked = <<>> /\ way' = "away" /\ known' = None
          /\ UNCHANGED <<past, form, asked, out, held, server, sent, count, others>>
      BY <1>3 DEF Editor!Leave, Editor!Open, Editor!serverVars
    <2>2. Editor!TypeInv'  BY <1>t, <2>1 DEF Editor!TypeInv
    <2>3. Editor!ChainInv'  BY <1>t, <2>1 DEF Editor!ChainInv, Editor!Creates, Editor!HasRow
    <2>4. Editor!MadeInv'  BY <1>t, <2>1 DEF Editor!MadeInv, Editor!ByHandIn, Editor!Creates
    <2>5. past = "close" => Editor!CopiesInv'  BY <1>t, <2>1 DEF Editor!CopiesInv
    <2>6. past = "close" => Editor!ReportInv'  BY <1>t, <2>1 DEF Editor!ReportInv, Editor!Kept, Editor!InFlight
    <2>7. Editor!ClosedIsSaved'  BY <2>1 DEF Editor!ClosedIsSaved
    <2> QED  BY <2>1, <2>2, <2>3, <2>4, <2>5, <2>6, <2>7 DEF Editor!Inv
  <1>4. ASSUME NEW by \in {"draft", "submit"}, Editor!Press(by) PROVE Editor!Inv'
    <2>1. /\ way = "form" /\ known = None /\ (asked = <<>> \/ Editor!Held(by)) /\ ~Editor!Asking(by)
          /\ past = "close" => form.checking = {}
          /\ UNCHANGED <<past, way, form, held, server, sent, count, others>>
      BY <1>4 DEF Editor!Press, Editor!Complete, Editor!serverVars
    <2>2. out[1] = None  BY <1>t, <2>1 DEF Editor!ChainInv
    <2>3. asked = <<>>
      <3> SUFFICES ASSUME Editor!Held(by) PROVE FALSE  BY <2>1
      <3>1. by \in HeldKeys /\ Len(asked) = 1 /\ asked[1].by = by  BY DEF Editor!Held
      <3>2. by = "submit"  BY <3>1
      <3>3. 1 \in DOMAIN asked  BY <1>t, <3>1 DEF Editor!TypeInv
      <3> QED  BY <2>1, <3>1, <3>2, <3>3 DEF Editor!Asking
    <2>4. CASE Editor!Confirmed(by)
      <3>1. /\ asked' = Append(asked, [by |-> by, text |-> form.text, todo |-> IF by = "submit" THEN form.files ELSE {}])
            /\ UNCHANGED <<out, known>>
        BY <1>4, <2>4 DEF Editor!Press
      <3>2. [by |-> by, text |-> form.text, todo |-> IF by = "submit" THEN form.files ELSE {}]
              \in [by: {"draft", "submit"}, text: {form.text}, todo: SUBSET Files]
        BY <1>form
      <3>3. asked' = <<[by |-> by, text |-> form.text, todo |-> IF by = "submit" THEN form.files ELSE {}]>>
        BY <2>3, <3>1
      <3> QED  BY <2>1, <2>2, <3>1, <3>2, <3>3, EditorAsk
    <2>5. CASE ~Editor!Confirmed(by)
      <3>1. Editor!Start(by, form.text, {}) /\ asked' = <<>>  BY <1>4, <2>3, <2>5 DEF Editor!Press
      <3> QED  BY <1>form, <2>1, <2>2, <3>1, EditorStart
    <2> QED  BY <2>4, <2>5
  <1> QED  BY <1>1, <1>2, <1>3, <1>4

\* A removal that the server has acted on, and one that is answered or fails.
LEMMA EditorRemoval ==
  ASSUME Editor!Inv, NEW r \in held, Editor!HandleRemoval(r) \/ Editor!AnswerRemoval(r)
  PROVE  Editor!Inv'
  <1>t. Editor!TypeInv /\ Editor!ChainInv /\ Editor!MadeInv /\ (past = "close" => Editor!CopiesInv /\ Editor!ReportInv /\ Editor!ClosedIsSaved)  BY DEF Editor!Inv
  <1>r. r.copy \in Editor!Copies /\ r.target \in DOMAIN server /\ r = [copy |-> r.copy, target |-> r.target, wire |-> r.wire]
    BY <1>t DEF Editor!TypeInv
  <1>1. CASE Editor!HandleRemoval(r)
    <2>1. /\ server' = [server EXCEPT ![r.target].files = @ \ {r.copy}]
          /\ held' = (held \ {r}) \cup {[r EXCEPT !.wire = "handled"]}
          /\ UNCHANGED <<past, way, form, known, asked, out, sent, count, others>>
      BY <1>1 DEF Editor!HandleRemoval, Editor!pageVars
    <2>2. server[r.target] \in Editor!Rows /\ server \in Seq(Editor!Rows)  BY <1>t, <1>r DEF Editor!TypeInv
    <2>3. /\ server' \in Seq(Editor!Rows) /\ DOMAIN server' = DOMAIN server /\ Len(server') = Len(server)
          /\ \A i \in DOMAIN server : /\ server'[i].by = server[i].by /\ server'[i].text = server[i].text
                                      /\ server'[i].files = IF i = r.target THEN server[i].files \ {r.copy} ELSE server[i].files
      <3>1. [server[r.target] EXCEPT !.files = @ \ {r.copy}] \in Editor!Rows  BY <2>2 DEF Editor!Rows
      <3>2. server' = [server EXCEPT ![r.target] = [server[r.target] EXCEPT !.files = @ \ {r.copy}]]  BY <2>1
      <3>3. server' \in Seq(Editor!Rows) /\ DOMAIN server' = DOMAIN server /\ Len(server') = Len(server)
        BY <1>r, <2>2, <3>1, <3>2, ExceptSeq
      <3>4. \A i \in DOMAIN server : server[i] \in Editor!Rows  BY <2>2
      <3> QED  BY <1>r, <3>2, <3>3, <3>4 DEF Editor!Rows
    <2>4. \A q \in held' : \E p \in held : q.copy = p.copy /\ q.target = p.target /\ (p = r \/ q = p)
      BY <1>r, <2>1
    <2>5. held' \subseteq [copy: Editor!Copies, target: DOMAIN server, wire: {"sent", "handled"}]
      BY <1>t, <1>r, <2>1 DEF Editor!TypeInv
    <2>6. Editor!TypeInv'  BY <1>t, <2>1, <2>3, <2>5 DEF Editor!TypeInv
    <2>7. Editor!ChainInv'  BY <1>t, <2>1, <2>3 DEF Editor!ChainInv, Editor!Creates, Editor!HasRow
    <2>8. Editor!MadeInv'
      <3>1. Editor!ByHandIn' = Editor!ByHandIn  BY <2>3, EditorSameRows
      <3> QED  BY <1>t, <2>1, <3>1 DEF Editor!MadeInv, Editor!Creates
    <2>9. CASE past = "close"
      <3>0. r.target = form.target /\ form.target \in DOMAIN server  BY <1>t, <2>9 DEF Editor!CopiesInv, Editor!ReportInv
      <3>1. Editor!Kept' = Editor!Kept \ {r.copy} /\ Editor!InFlight' = Editor!InFlight  BY <2>1, <2>3, <3>0 DEF Editor!Kept, Editor!InFlight
      <3>2. Editor!CopiesInv'
        <4>1. (\A i \in DOMAIN server' : \A c \in server'[i].files : c.id <= sent) /\ \A c \in form.listed : c.id <= sent
          BY <1>t, <2>3, <2>9 DEF Editor!CopiesInv
        <4>2. ASSUME NEW q \in held'
              PROVE  /\ q.copy.id <= sent /\ q.target = form.target /\ q.copy \in form.listed
                     /\ q.wire = "handled" => q.copy \notin server'[q.target].files
                     /\ \A p \in held' : p.copy = q.copy => p = q
          <5>1. q.copy.id <= sent /\ q.target = form.target /\ q.copy \in form.listed
            BY <1>t, <2>4, <2>9 DEF Editor!CopiesInv
          <5>2. q.wire = "handled" => q.copy \notin server'[q.target].files
            BY <1>t, <1>r, <2>1, <2>3, <2>9 DEF Editor!CopiesInv
          <5>3. \A p \in held' : p.copy = q.copy => p = q
            BY <1>t, <1>r, <2>1, <2>9 DEF Editor!CopiesInv
          <5> QED  BY <5>1, <5>2, <5>3
        <4> QED  BY <2>1, <4>1, <4>2 DEF Editor!CopiesInv
      <3>3. Editor!ReportInv'
        <4>1. \A c \in Editor!Kept' : \/ c \in form.listed
                                      \/ c.file \in form.forgone
                                      \/ c.file \in form.files /\ (form.unsettled \/ (Editor!InFlight /\ c.file = out[1].file))
          BY <1>t, <2>9, <3>1 DEF Editor!ReportInv
        <4>2. \A c, d \in Editor!Kept' : c.file = d.file /\ c # d => c.file \in form.forgone
          BY <1>t, <2>9, <3>1 DEF Editor!ReportInv
        <4>3. out[1] # None =>
                LET save == out[1] IN
                /\ save.by = "draft" /\ (save.op # "text" \/ save.wire = "handled") => server'[save.target].text = save.text
                /\ save.op = "submit" /\ save.wire = "handled" => server'[save.target].text = save.text
                /\ save.op = "look" /\ save.wire = "handled" =>
                     /\ Editor!Kept' \subseteq save.seen /\ \A c \in save.seen : c.id <= sent
                     /\ \A c, d \in save.seen : c.file = d.file /\ c # d => c.file \in form.forgone
                /\ Editor!InFlight => \E c \in Editor!Kept' : c.file = save.file /\ \A q \in held' : q.copy # c
          <5>1. out[1] # None => server'[out[1].target].text = server[out[1].target].text
            BY <1>t, <2>3, <2>9, <3>0 DEF Editor!ReportInv
          <5>2. ASSUME out[1] # None, Editor!InFlight
                PROVE  \E c \in Editor!Kept' : c.file = out[1].file /\ \A q \in held' : q.copy # c
            <6>1. PICK c \in Editor!Kept : c.file = out[1].file /\ \A q \in held : q.copy # c
              BY <1>t, <2>9, <5>2 DEF Editor!ReportInv
            <6>2. c \in Editor!Kept'  BY <3>1, <6>1
            <6>3. \A q \in held' : q.copy # c  BY <2>4, <6>1
            <6> QED  BY <6>1, <6>2, <6>3
          <5>3. out[1] # None =>
                  LET save == out[1] IN
                  save.op = "look" /\ save.wire = "handled" =>
                     /\ Editor!Kept' \subseteq save.seen /\ \A c \in save.seen : c.id <= sent
                     /\ \A c, d \in save.seen : c.file = d.file /\ c # d => c.file \in form.forgone
            BY <1>t, <2>9, <3>1 DEF Editor!ReportInv
          <5> QED  BY <1>t, <2>9, <5>1, <5>2, <5>3 DEF Editor!ReportInv
        <4>4. /\ form.target \in DOMAIN server' /\ \A c \in form.listed : c.file \notin form.files
              /\ asked # <<>> => form.checking = {} /\ asked[1].text = form.text
              /\ out[1] # None =>
                   LET save == out[1] IN
                   /\ form.checking = {} /\ save.text = form.text /\ save.target = form.target
                   /\ save.op \in {"send", "submit"} => ~form.unsettled /\ save.todo = form.files
                   /\ save.op = "submit" => save.by = "submit" /\ form.files = {}
          BY <1>t, <2>3, <2>9 DEF Editor!ReportInv
        <4>5. (\A c \in Editor!Kept : \/ c \in form.listed
                                      \/ c.file \in form.forgone
                                      \/ c.file \in form.files /\ (form.unsettled \/ (Editor!InFlight /\ c.file = out[1].file)))'
          BY <2>1, <3>1, <4>1
        <4> HIDE DEF Editor!Kept, Editor!InFlight
        <4> QED  BY <2>1, <3>1, <4>2, <4>3, <4>4, <4>5 DEF Editor!ReportInv
      <3>4. Editor!ClosedIsSaved'  BY <1>t, <2>1, <2>3, <2>9, <3>0 DEF Editor!ClosedIsSaved
      <3> QED  BY <2>6, <2>7, <2>8, <3>2, <3>3, <3>4 DEF Editor!Inv
    <2> QED  BY <2>1, <2>6, <2>7, <2>8, <2>9 DEF Editor!Inv
  <1>2. CASE Editor!AnswerRemoval(r)
    <2>1. /\ held' = held \ {r} /\ UNCHANGED <<past, way, known, asked, out, server, sent, others>>
          /\ \/ form' = form
             \/ r.wire = "handled" /\ form' = [form EXCEPT !.listed = @ \ {r.copy}]
          /\ count' = count \/ (count < MaxLost /\ count' = count + 1)
      BY <1>2 DEF Editor!AnswerRemoval, Editor!serverVars
    <2>2. form \in [target: 0 .. Len(server), text: 0 .. MaxText, files: SUBSET Files, listed: SUBSET Editor!Copies,
                    checking: SUBSET Files, unsettled: BOOLEAN, forgone: SUBSET Files]
      BY <1>t DEF Editor!TypeInv
    <2>3. /\ form' \in [target: {form.target}, text: {form.text}, files: {form.files}, listed: SUBSET form.listed,
                        checking: {form.checking}, unsettled: {form.unsettled}, forgone: {form.forgone}]
          /\ form'.listed = form.listed \/ (r.wire = "handled" /\ form'.listed = form.listed \ {r.copy})
      BY <2>1, <2>2
    <2>4. count' \in 0 .. MaxLost /\ others \in 0 .. count'  BY <1>t, <2>1, EditorAssumed DEF Editor!TypeInv, Editor!EditorAssumption
    <2>5. Editor!TypeInv'
      <3>1. form' \in [target: 0 .. Len(server), text: 0 .. MaxText, files: SUBSET Files, listed: SUBSET Editor!Copies,
                       checking: SUBSET Files, unsettled: BOOLEAN, forgone: SUBSET Files]
        BY <2>2, <2>3
      <3> QED  BY <1>t, <2>1, <2>3, <2>4, <3>1 DEF Editor!TypeInv
    <2>6. Editor!ChainInv' /\ Editor!MadeInv'  BY <1>t, <2>1, <2>3 DEF Editor!ChainInv, Editor!Creates, Editor!HasRow, Editor!MadeInv, Editor!ByHandIn
    <2>7. CASE past = "close"
      <3>1. Editor!CopiesInv'  BY <1>t, <2>1, <2>3, <2>7 DEF Editor!CopiesInv
      <3>2. Editor!Kept' = Editor!Kept /\ Editor!InFlight' = Editor!InFlight  BY <2>1, <2>3 DEF Editor!Kept, Editor!InFlight
      <3>3. r.wire = "handled" => r.copy \notin Editor!Kept  BY <1>t, <2>7 DEF Editor!CopiesInv, Editor!Kept
      <3>4. Editor!ReportInv'  BY <1>t, <2>1, <2>3, <2>7, <3>2, <3>3 DEF Editor!ReportInv
      <3>5. Editor!ClosedIsSaved'  BY <1>t, <2>1, <2>3, <2>7 DEF Editor!ClosedIsSaved
      <3> QED  BY <2>5, <2>6, <3>1, <3>4, <3>5 DEF Editor!Inv
    <2> QED  BY <2>1, <2>5, <2>6, <2>7 DEF Editor!Inv
  <1> QED  BY <1>1, <1>2

\* What the form may be while a save goes on: of the same activity and text, with what has been sent
\* among the uploaded.
FormGoesOn ==
    /\ form' \in [target: {form.target}, text: {form.text}, files: SUBSET form.files, listed: SUBSET Editor!Copies,
                  checking: {form.checking}, unsettled: BOOLEAN, forgone: {form.forgone}]
    /\ form'.listed # {} => form.target \in DOMAIN server
    /\ past = "close" =>
         /\ form.listed \subseteq form'.listed
         /\ \A c \in form'.listed : c.file \notin form'.files /\ c.id <= sent
         /\ \A c \in Editor!Kept : c \in form'.listed \/ c.file \in form.forgone \/ (c.file \in form'.files /\ form'.unsettled)

\* A chain that has its answer and goes on.
LEMMA EditorProceed ==
  ASSUME Editor!Inv, out[1] # None, ~Editor!Creates(out[1]), FormGoesOn, NEW next \in Editor!Chains,
         out' = [out EXCEPT ![1] = next],
         UNCHANGED <<past, way, known, asked, held, server, sent, count, others>>,
         /\ next.by = out[1].by /\ next.target = out[1].target /\ next.text = out[1].text /\ next.wire = "sent"
         /\ next.new <=> out[1].new
         /\ \/ next.op = "look" /\ past = "close"
            \/ next.op = "send" /\ next.file \in next.todo
            \/ next.op = "submit" /\ next.by = "submit"
         /\ past = "apply" => next.by = "submit"
         /\ past = "close" =>
              /\ next.op \in {"send", "submit"} => ~form'.unsettled /\ next.todo = form'.files
              /\ next.op = "submit" => form'.files = {}
              /\ next.by = "draft" => server[next.target].text = next.text
  PROVE  Editor!Inv'
  <1>t. Editor!TypeInv /\ Editor!ChainInv /\ Editor!MadeInv /\ (past = "close" => Editor!CopiesInv /\ Editor!ReportInv /\ Editor!ClosedIsSaved)  BY DEF Editor!Inv
  <1>1. out'[1] = next /\ out'[2] = None /\ next # None /\ out' \in [Editor!Slots -> Editor!Chains \cup {None}]
    <2>1. 1 \in Editor!Slots  BY DEF Editor!Slots
    <2> QED  BY <1>t, <2>1, EditorOne, EditorAssumed DEF Editor!EditorAssumption
  <1>2. form \in [target: 0 .. Len(server), text: 0 .. MaxText, files: SUBSET Files, listed: SUBSET Editor!Copies,
                  checking: SUBSET Files, unsettled: BOOLEAN, forgone: SUBSET Files]
    BY <1>t DEF Editor!TypeInv
  <1>3. form' \in [target: 0 .. Len(server), text: 0 .. MaxText, files: SUBSET Files, listed: SUBSET Editor!Copies,
                   checking: SUBSET Files, unsettled: BOOLEAN, forgone: SUBSET Files]
    BY <1>2 DEF FormGoesOn
  <1>4. /\ form'.target = form.target /\ form'.text = form.text /\ form'.checking = form.checking /\ form'.forgone = form.forgone
        /\ form'.files \subseteq form.files
        /\ form'.listed # {} => form.target \in DOMAIN server
    BY DEF FormGoesOn
  <1>5. Editor!TypeInv'  BY <1>t, <1>1, <1>3, <1>4 DEF Editor!TypeInv
  <1>6. next.target \in DOMAIN server  BY <1>t DEF Editor!ChainInv, Editor!HasRow
  <1>7. Editor!ChainInv'
    <2>1. past \in {"apply", "close"}  BY <1>t DEF Editor!TypeInv
    <2>2. /\ next.op # "create" /\ next.op # "update" /\ next.op # "text"
          /\ next.op = "look" => past = "close"
      OBVIOUS
    <2> QED  BY <1>t, <1>1, <1>4, <1>6, <2>1, <2>2 DEF Editor!ChainInv, Editor!Creates, Editor!HasRow
  <1>8. Editor!MadeInv'
    <2>1. ~Editor!Creates(out[1])' /\ Editor!ByHandIn' = Editor!ByHandIn  BY <1>1 DEF Editor!Creates, Editor!ByHandIn
    <2> QED  BY <1>t, <1>1, <2>1 DEF Editor!MadeInv
  <1>9. CASE past = "close"
    <2>1. Editor!CopiesInv'
      <3>1. form.listed \subseteq form'.listed /\ \A c \in form'.listed : c.id <= sent  BY <1>9 DEF FormGoesOn
      <3> QED  BY <1>t, <1>4, <1>9, <3>1 DEF Editor!CopiesInv
    <2>2. Editor!Kept' = Editor!Kept /\ ~Editor!InFlight'  BY <1>1, <1>4 DEF Editor!Kept, Editor!InFlight
    <2>3. Editor!ReportInv'
      <3>1. /\ \A c \in form'.listed : c.file \notin form'.files
            /\ \A c \in Editor!Kept : c \in form'.listed \/ c.file \in form.forgone \/ (c.file \in form'.files /\ form'.unsettled)
        BY <1>9 DEF FormGoesOn
      <3>2. asked = <<>>  BY <1>t DEF Editor!ChainInv
      <3>3. /\ form.target \in DOMAIN server /\ \A c, d \in Editor!Kept : c.file = d.file /\ c # d => c.file \in form.forgone
            /\ form.checking = {} /\ next.text = form.text /\ next.target = form.target
        BY <1>t, <1>9 DEF Editor!ReportInv
      <3> QED  BY <1>1, <1>4, <1>9, <2>2, <3>1, <3>2, <3>3 DEF Editor!ReportInv
    <2>4. Editor!ClosedIsSaved'  BY <1>t DEF Editor!ClosedIsSaved, Editor!ChainInv
    <2> QED  BY <1>5, <1>7, <1>8, <2>1, <2>3, <2>4 DEF Editor!Inv
  <1> QED  BY <1>5, <1>7, <1>8, <1>9 DEF Editor!Inv

\* A chain that has come to its end.
LEMMA EditorSucceed ==
  ASSUME Editor!Inv, out[1] # None, FormGoesOn, Editor!Succeed(1, form'),
         UNCHANGED <<past, held, server, sent, count, others>>,
         past = "close" => form'.files = {} /\ server[form.target].text = form.text
  PROVE  Editor!Inv'
  <1>t. Editor!TypeInv /\ Editor!ChainInv /\ Editor!MadeInv /\ (past = "close" => Editor!CopiesInv /\ Editor!ReportInv /\ Editor!ClosedIsSaved)  BY DEF Editor!Inv
  <1>0. /\ out' = [out EXCEPT ![1] = None] /\ known' = None /\ asked' = asked
        /\ way' = IF past = "apply" \/ way = "form" THEN "list" ELSE way
    BY DEF Editor!Succeed, Editor!Arrive, Editor!Here
  <1>1. out'[1] = None /\ out'[2] = None /\ out' \in [Editor!Slots -> Editor!Chains \cup {None}]
    <2>1. 1 \in Editor!Slots  BY DEF Editor!Slots
    <2> QED  BY <1>t, <1>0, <2>1, EditorOne
  <1>2. form \in [target: 0 .. Len(server), text: 0 .. MaxText, files: SUBSET Files, listed: SUBSET Editor!Copies,
                  checking: SUBSET Files, unsettled: BOOLEAN, forgone: SUBSET Files]
    BY <1>t DEF Editor!TypeInv
  <1>3. form' \in [target: 0 .. Len(server), text: 0 .. MaxText, files: SUBSET Files, listed: SUBSET Editor!Copies,
                   checking: SUBSET Files, unsettled: BOOLEAN, forgone: SUBSET Files]
    BY <1>2 DEF FormGoesOn
  <1>4. /\ form'.target = form.target /\ form'.text = form.text /\ form'.checking = form.checking /\ form'.forgone = form.forgone
        /\ form'.listed # {} => form.target \in DOMAIN server
    BY DEF FormGoesOn
  <1>5. Editor!TypeInv'  BY <1>t, <1>0, <1>1, <1>3, <1>4 DEF Editor!TypeInv
  <1>6. Editor!ChainInv'  BY <1>t, <1>0, <1>1 DEF Editor!ChainInv
  <1>7. Editor!MadeInv'
    <2>1. form.target = 0 => way' = "list"
      <3>1. past = "close" => form.target \in DOMAIN server  BY <1>t DEF Editor!ReportInv
      <3>2. server \in Seq(Editor!Rows) /\ past \in {"apply", "close"}  BY <1>t DEF Editor!TypeInv
      <3> QED  BY <1>0, <3>1, <3>2
    <2> QED  BY <1>t, <1>4, <2>1 DEF Editor!MadeInv, Editor!ByHandIn
  <1>8. CASE past = "close"
    <2>1. Editor!CopiesInv'
      <3>1. form.listed \subseteq form'.listed /\ \A c \in form'.listed : c.id <= sent  BY <1>8 DEF FormGoesOn
      <3> QED  BY <1>t, <1>4, <1>8, <3>1 DEF Editor!CopiesInv
    <2>2. Editor!Kept' = Editor!Kept /\ ~Editor!InFlight'  BY <1>1, <1>4 DEF Editor!Kept, Editor!InFlight
    <2>3. form.checking = {} /\ asked = <<>>  BY <1>t, <1>8 DEF Editor!ReportInv, Editor!ChainInv
    <2>4. Editor!ReportInv'
      <3>1. /\ \A c \in form'.listed : c.file \notin form'.files
            /\ \A c \in Editor!Kept : c \in form'.listed \/ c.file \in form.forgone \/ (c.file \in form'.files /\ form'.unsettled)
        BY <1>8 DEF FormGoesOn
      <3> QED  BY <1>t, <1>0, <1>1, <1>4, <1>8, <2>2, <2>3, <3>1 DEF Editor!ReportInv
    <2>5. Editor!ClosedIsSaved'  BY <1>4, <1>8, <2>3 DEF Editor!ClosedIsSaved
    <2> QED  BY <1>5, <1>6, <1>7, <2>1, <2>4, <2>5 DEF Editor!Inv
  <1> QED  BY <1>5, <1>6, <1>7, <1>8 DEF Editor!Inv

\* An answer takes the chain on, or to its end.
LEMMA EditorAnswer ==
  ASSUME Editor!Inv, NEW s \in Editor!Slots, Editor!Answer(s)
  PROVE  Editor!Inv'
  <1>t. Editor!TypeInv /\ Editor!ChainInv /\ Editor!MadeInv /\ (past = "close" => Editor!CopiesInv /\ Editor!ReportInv /\ Editor!ClosedIsSaved)  BY DEF Editor!Inv
  <1> DEFINE save == out[1]
  <1>0. /\ s = 1 /\ save # None /\ save.wire = "handled" /\ ~Editor!Creates(save)
        /\ UNCHANGED <<past, held, server, sent, count, others>>
    <2>1. out[s] # None /\ out[s].wire = "handled" /\ UNCHANGED <<past, held, server, sent, count, others>>
      BY DEF Editor!Answer, Editor!serverVars
    <2>2. s = 1  BY <1>t, <2>1, EditorOne
    <2> QED  BY <2>1, <2>2 DEF Editor!Creates
  <1>1. save \in Editor!Chains
    <2>1. 1 \in Editor!Slots  BY DEF Editor!Slots
    <2> QED  BY <1>t, <1>0, <2>1 DEF Editor!TypeInv
  <1>2. form \in [target: 0 .. Len(server), text: 0 .. MaxText, files: SUBSET Files, listed: SUBSET Editor!Copies,
                  checking: SUBSET Files, unsettled: BOOLEAN, forgone: SUBSET Files]
        /\ past \in {"apply", "close"} /\ server \in Seq(Editor!Rows)
        /\ (form.listed # {} => form.target \in DOMAIN server)
    BY <1>t DEF Editor!TypeInv
  <1>3. save.target \in DOMAIN server /\ server[save.target] \in Editor!Rows  BY <1>t, <1>0, <1>2 DEF Editor!ChainInv, Editor!HasRow
  <1>4. past = "close" => /\ save.target = form.target /\ save.text = form.text /\ form.target \in DOMAIN server
                          /\ Editor!Kept = server[save.target].files
    BY <1>t, <1>0 DEF Editor!ReportInv, Editor!Kept
  \* Where the answer changes nothing on the form.
  <1>same. ASSUME form' = form, past = "close" => ~Editor!InFlight PROVE FormGoesOn
    BY <1>t, <1>2, <1>same DEF FormGoesOn, Editor!CopiesInv, Editor!ReportInv
  <1>last. ASSUME Editor!Succeed(1, form), past = "close" => save.op = "submit" \/ (save.op = "text" /\ form.files = {})
           PROVE  Editor!Inv'
    <2>1. form' = form  BY <1>last DEF Editor!Succeed
    <2>2. past = "close" => ~Editor!InFlight  BY <1>last DEF Editor!InFlight
    <2>3. past = "close" => form.files = {} /\ server[form.target].text = form.text
      BY <1>t, <1>0, <1>1, <1>4, <1>last DEF Editor!ReportInv, Editor!ChainInv
    <2> QED  BY <1>0, <1>same, <1>last, <2>1, <2>2, <2>3, EditorSucceed
  <1>5. CASE save.op \in {"create", "update"} /\ save.by = "draft"
    <2>1. Editor!Succeed(1, form)  BY <1>0, <1>5 DEF Editor!Answer
    <2>2. past # "close"  BY <1>t, <1>0, <1>2, <1>5 DEF Editor!ChainInv
    <2> QED  BY <1>last, <2>1, <2>2
  <1>6. CASE save.op \in {"create", "update"} /\ save.by = "submit"
    <2> DEFINE next == Editor!Onward(save, save.todo)
    <2>1. Editor!Proceed(1, next, form)  BY <1>0, <1>6 DEF Editor!Answer
    <2>2. past = "apply"  BY <1>t, <1>0, <1>2, <1>6 DEF Editor!ChainInv
    <2>3. /\ next \in Editor!Chains /\ next.by = "submit" /\ next.target = save.target /\ next.text = save.text /\ next.wire = "sent"
          /\ next.new <=> save.new
          /\ (next.op = "send" /\ next.file \in next.todo) \/ next.op = "submit"
      <3>1. save.todo \in SUBSET Files  BY <1>1 DEF Editor!Chains
      <3>2. CASE save.todo # {}
        <4>1. /\ next \in Editor!Chains /\ Editor!NextFile(save.todo) \in save.todo
              /\ next = [save EXCEPT !.op = "send", !.file = Editor!NextFile(save.todo), !.todo = save.todo, !.wire = "sent"]
          BY <1>1, <3>1, <3>2, EditorOnward
        <4> HIDE DEF next, save
        <4> QED  BY <1>1, <1>6, <4>1 DEF Editor!Chains
      <3>3. CASE save.todo = {}
        <4>1. /\ next \in Editor!Chains
              /\ next = [save EXCEPT !.op = "submit", !.file = None, !.todo = {}, !.wire = "sent"]
          BY <1>1, <2>2, <3>1, <3>3, EditorOnward
        <4> HIDE DEF next, save
        <4> QED  BY <1>1, <1>6, <4>1 DEF Editor!Chains
      <3> QED  BY <3>2, <3>3
    <2> HIDE DEF next
    <2>4. out' = [out EXCEPT ![1] = next] /\ form' = form /\ UNCHANGED <<way, known, asked>>
      BY <2>1, <2>3 DEF Editor!Proceed
    <2> QED  BY <1>0, <1>6, <1>same, <2>2, <2>3, <2>4, EditorProceed
  <1>7. CASE save.op = "text"
    <2>1. Editor!Proceed(1, Editor!Upload(save), form)  BY <1>0, <1>7 DEF Editor!Answer
    <2>2. /\ past = "close" /\ save.by = "draft" /\ ~Editor!InFlight /\ server[save.target].text = save.text
          /\ form.files \in SUBSET Files
      BY <1>t, <1>0, <1>2, <1>7 DEF Editor!ChainInv, Editor!ReportInv, Editor!InFlight
    <2>3. CASE form.unsettled
      <3> DEFINE next == [save EXCEPT !.op = "look", !.wire = "sent"]
      <3>1. Editor!Upload(save) = next  BY <2>3 DEF Editor!Upload
      <3>2. /\ next \in Editor!Chains /\ next.by = save.by /\ next.target = save.target /\ next.text = save.text /\ next.wire = "sent"
            /\ next.new <=> save.new
            /\ next.op = "look"
        <4> HIDE DEF save
        <4> QED  BY <1>1 DEF Editor!Chains
      <3> HIDE DEF next
      <3>3. out' = [out EXCEPT ![1] = next] /\ form' = form /\ UNCHANGED <<way, known, asked>>
        BY <2>1, <3>1, <3>2 DEF Editor!Proceed
      <3> QED  BY <1>0, <1>same, <2>2, <3>2, <3>3, EditorProceed
    <2>4. CASE ~form.unsettled /\ form.files # {}
      <3> DEFINE next == Editor!Onward(save, form.files)
      <3>1. Editor!Upload(save) = next  BY <2>4 DEF Editor!Upload
      <3>2. /\ next \in Editor!Chains /\ next.by = save.by /\ next.target = save.target /\ next.text = save.text /\ next.wire = "sent"
            /\ next.new <=> save.new
            /\ next.op = "send" /\ next.file \in next.todo /\ next.todo = form.files
        <4>1. /\ next \in Editor!Chains /\ Editor!NextFile(form.files) \in form.files
              /\ next = [save EXCEPT !.op = "send", !.file = Editor!NextFile(form.files), !.todo = form.files, !.wire = "sent"]
          BY <1>1, <2>2, <2>4, EditorOnward
        <4> HIDE DEF save, next
        <4> QED  BY <1>1, <4>1 DEF Editor!Chains
      <3> HIDE DEF next
      <3>3. out' = [out EXCEPT ![1] = next] /\ form' = form /\ UNCHANGED <<way, known, asked>>
        BY <2>1, <3>1, <3>2 DEF Editor!Proceed
      <3> QED  BY <1>0, <1>same, <2>2, <2>4, <3>2, <3>3, EditorProceed
    <2>5. CASE ~form.unsettled /\ form.files = {}
      <3>1. Editor!Onward(save, form.files).op = "done"  BY <1>1, <2>2, <2>5, EditorOnward
      <3>2. Editor!Succeed(1, form)  BY <2>1, <2>5, <3>1 DEF Editor!Proceed, Editor!Upload
      <3> QED  BY <1>7, <1>last, <2>5, <3>2
    <2> QED  BY <1>2, <2>3, <2>4, <2>5
  \* An answer about files: what is left is sent next, and nothing left ends the chain.
  <1>files. ASSUME NEW shown, FormGoesOn, form' = shown, past = "close" => ~shown.unsettled,
                   NEW todo \in SUBSET Files, past = "close" => todo = shown.files,
                   past = "close" => save.op \in {"look", "send"}, past = "apply" => save.by = "submit",
                   Editor!Proceed(1, Editor!Onward(save, todo), shown)
            PROVE  Editor!Inv'
    <2> DEFINE next == Editor!Onward(save, todo)
    <2>1. past = "close" /\ save.by = "draft" => server[save.target].text = save.text
      BY <1>t, <1>0, <1>files DEF Editor!ReportInv
    <2>2. CASE todo # {}
      <3>1. /\ next \in Editor!Chains /\ Editor!NextFile(todo) \in todo
            /\ next = [save EXCEPT !.op = "send", !.file = Editor!NextFile(todo), !.todo = todo, !.wire = "sent"]
        BY <1>1, <2>2, EditorOnward
      <3>2. /\ next.by = save.by /\ next.target = save.target /\ next.text = save.text /\ next.wire = "sent"
            /\ next.new <=> save.new
            /\ next.op = "send" /\ next.file \in next.todo /\ next.todo = todo
        <4> HIDE DEF save, next
        <4> QED  BY <1>1, <3>1 DEF Editor!Chains
      <3> HIDE DEF next
      <3>3. out' = [out EXCEPT ![1] = next] /\ UNCHANGED <<way, known, asked>>
        BY <1>files, <3>2 DEF Editor!Proceed, next
      <3> QED  BY <1>0, <1>2, <1>files, <2>1, <3>1, <3>2, <3>3, EditorProceed
    <2>3. CASE todo = {} /\ ~(past = "close" /\ save.by = "draft")
      <3>1. /\ next \in Editor!Chains
            /\ next = [save EXCEPT !.op = "submit", !.file = None, !.todo = {}, !.wire = "sent"]
        BY <1>1, <2>3, EditorOnward
      <3>2. /\ next.by = save.by /\ next.target = save.target /\ next.text = save.text /\ next.wire = "sent"
            /\ next.new <=> save.new
            /\ next.op = "submit" /\ next.todo = {}
        <4> HIDE DEF save, next
        <4> QED  BY <1>1, <3>1 DEF Editor!Chains
      <3>3. save.by = "submit"  BY <1>1, <1>2, <1>files, <2>3 DEF Editor!Chains
      <3> HIDE DEF next
      <3>4. out' = [out EXCEPT ![1] = next] /\ UNCHANGED <<way, known, asked>>
        BY <1>files, <3>2 DEF Editor!Proceed, next
      <3> QED  BY <1>0, <1>2, <1>files, <2>1, <2>3, <3>1, <3>2, <3>3, <3>4, EditorProceed
    <2>4. CASE todo = {} /\ past = "close" /\ save.by = "draft"
      <3>1. next.op = "done"  BY <1>1, <2>4, EditorOnward
      <3>2. Editor!Succeed(1, shown)  BY <1>files, <3>1 DEF Editor!Proceed
      <3> QED  BY <1>0, <1>4, <1>files, <2>1, <2>4, <3>2, EditorSucceed
    <2> QED  BY <2>2, <2>3, <2>4
  <1>8. CASE save.op = "look"
    <2> DEFINE shown == [Editor!Settled(save, Editor!Matches(save)) EXCEPT !.unsettled = FALSE]
    <2>0. past = "close"  BY <1>t, <1>0, <1>8 DEF Editor!ChainInv
    <2>1. Editor!Proceed(1, Editor!Onward(save, shown.files), shown)  BY <1>0, <1>8 DEF Editor!Answer
    <2>2. Editor!Matches(save) \subseteq save.seen /\ save.seen \subseteq Editor!Copies  BY <1>1 DEF Editor!Matches, Editor!Chains
    <2>3. shown = [form EXCEPT !.files = @ \ {c.file : c \in Editor!Matches(save)}, !.listed = @ \cup Editor!Matches(save), !.unsettled = FALSE]
      BY <1>2, <2>0 DEF Editor!Settled
    <2> HIDE DEF shown, save
    <2>4. shown \in [target: {form.target}, text: {form.text}, files: SUBSET form.files, listed: SUBSET Editor!Copies,
                     checking: {form.checking}, unsettled: {FALSE}, forgone: {form.forgone}]
          /\ shown.files = form.files \ {c.file : c \in Editor!Matches(save)} /\ shown.listed = form.listed \cup Editor!Matches(save)
      BY <1>2, <2>2, <2>3
    <2>5. form' = shown  BY <2>1 DEF Editor!Proceed, Editor!Succeed
    <2>6. FormGoesOn
      <3>1. \A c \in shown.listed : c.file \notin shown.files /\ c.id <= sent
        BY <1>t, <1>0, <1>8, <2>0, <2>2, <2>4 DEF Editor!CopiesInv, Editor!ReportInv, save
      <3>2. ASSUME NEW c \in Editor!Kept PROVE c \in shown.listed \/ c.file \in form.forgone
        <4> SUFFICES ASSUME c \notin form.listed, c.file \notin form.forgone PROVE c \in Editor!Matches(save)  BY <2>4
        <4>1. c.file \in form.files /\ c \in save.seen
          BY <1>t, <1>0, <1>8, <2>0 DEF Editor!ReportInv, Editor!InFlight, save
        <4>2. \A d \in save.seen : d.file = c.file => d = c  BY <1>t, <1>0, <1>8, <2>0, <4>1 DEF Editor!ReportInv, save
        <4>3. c.id <= c.id  BY <2>2, <4>1 DEF Editor!Copies
        <4> QED  BY <4>1, <4>2, <4>3 DEF Editor!Matches
      <3> QED  BY <1>4, <2>0, <2>4, <2>5, <3>1, <3>2 DEF FormGoesOn
    <2>7. ~shown.unsettled /\ shown.files \in SUBSET Files  BY <1>2, <2>4
    <2> QED  BY <1>8, <1>files, <2>0, <2>1, <2>5, <2>6, <2>7
  <1>9. CASE save.op = "send"
    <2> DEFINE copies == {c \in server[save.target].files : c.file = save.file}
               shown == Editor!Settled(save, copies)
               todo == save.todo \ {save.file}
    <2>1. Editor!Proceed(1, Editor!Onward(save, todo), shown)  BY <1>0, <1>9 DEF Editor!Answer
    <2>2. copies \subseteq Editor!Copies /\ todo \in SUBSET Files  BY <1>1, <1>3 DEF Editor!Rows, Editor!Chains
    <2>3. shown = [form EXCEPT !.files = @ \ {c.file : c \in copies}, !.listed = IF past = "close" THEN @ \cup copies ELSE @]
      BY DEF Editor!Settled
    <2>4. past = "close" => /\ ~form.unsettled /\ save.todo = form.files
                            /\ \E c \in Editor!Kept : c.file = save.file
      BY <1>t, <1>0, <1>9 DEF Editor!ReportInv, Editor!InFlight
    <2>5. past = "close" => {c.file : c \in copies} = {save.file}  BY <1>4, <2>4
    <2>6. past = "close" => \A c \in copies : c.id <= sent  BY <1>t, <1>3 DEF Editor!CopiesInv
    <2>7. past = "apply" => save.by = "submit"  BY <1>t, <1>0, <1>9 DEF Editor!ChainInv
    <2> HIDE DEF shown, save, copies, todo
    <2>8. shown \in [target: {form.target}, text: {form.text}, files: SUBSET form.files, listed: SUBSET Editor!Copies,
                     checking: {form.checking}, unsettled: {form.unsettled}, forgone: {form.forgone}]
          /\ shown.files = form.files \ {c.file : c \in copies}
          /\ shown.listed = IF past = "close" THEN form.listed \cup copies ELSE form.listed
      BY <1>2, <2>2, <2>3
    <2>9. form' = shown  BY <2>1 DEF Editor!Proceed, Editor!Succeed
    <2>10. past = "close" => shown.files = todo
      BY <2>4, <2>5, <2>8 DEF todo
    <2>11. FormGoesOn
      <3>1. form'.listed # {} => form.target \in DOMAIN server  BY <1>2, <1>4, <2>8, <2>9
      <3>2. CASE past = "close"
        <4>1. \A c \in copies : c.file = save.file  BY DEF copies
        <4>2. \A c \in shown.listed : c.file \notin shown.files /\ c.id <= sent
          BY <1>t, <2>5, <2>6, <2>8, <3>2, <4>1 DEF Editor!CopiesInv, Editor!ReportInv
        <4>3. ASSUME NEW c \in Editor!Kept PROVE c \in shown.listed \/ c.file \in form.forgone
          <5>1. c \in form.listed \/ c.file \in form.forgone \/ c.file = save.file
            BY <1>t, <2>4, <3>2 DEF Editor!ReportInv, save
          <5>2. c.file = save.file => c \in copies  BY <1>4, <3>2 DEF copies
          <5> QED  BY <2>8, <3>2, <5>1, <5>2
        <4> QED  BY <1>2, <2>8, <2>9, <3>1, <3>2, <4>2, <4>3 DEF FormGoesOn
      <3>3. CASE past # "close"  BY <1>2, <2>8, <2>9, <3>1, <3>3 DEF FormGoesOn
      <3> QED  BY <3>2, <3>3
    <2> QED  BY <1>9, <1>files, <2>1, <2>2, <2>4, <2>7, <2>8, <2>9, <2>10, <2>11
  <1>10. CASE save.op = "submit"
    <2>1. Editor!Succeed(1, form)  BY <1>0, <1>10 DEF Editor!Answer
    <2> QED  BY <1>10, <1>last, <2>1
  <1> QED  BY <1>1, <1>5, <1>6, <1>7, <1>8, <1>9, <1>10 DEF Editor!Chains

\* A chain that stops: the form turns into the editing of the row it has made, or remembers that an
\* upload of the report failed.
LEMMA EditorStop ==
  ASSUME Editor!Inv, NEW s \in Editor!Slots, Editor!Refuse(s) \/ Editor!Lose(s)
  PROVE  Editor!Inv'
  <1>t. Editor!TypeInv /\ Editor!ChainInv /\ Editor!MadeInv /\ (past = "close" => Editor!CopiesInv /\ Editor!ReportInv /\ Editor!ClosedIsSaved)  BY DEF Editor!Inv
  <1> DEFINE save == out[1]
  <1>0. /\ s = 1 /\ save # None /\ Editor!Stop(1) /\ UNCHANGED <<past, held, server, sent>>
        /\ \/ save.wire = "sent" /\ others' = others /\ (count' = count \/ (count < MaxLost /\ count' = count + 1))
           \/ /\ save.wire = "handled" /\ count < MaxLost /\ count' = count + 1
              /\ others' = IF save.op = "create" THEN others + 1 ELSE others
    <2>1. out[s] # None  BY DEF Editor!Refuse, Editor!Lose
    <2>2. s = 1  BY <1>t, <2>1, EditorOne
    <2> QED  BY <2>1, <2>2 DEF Editor!Refuse, Editor!Lose, Editor!serverVars
  <1>1. save \in Editor!Chains
    <2>1. 1 \in Editor!Slots  BY DEF Editor!Slots
    <2> QED  BY <1>t, <1>0, <2>1 DEF Editor!TypeInv
  <1>2. form \in [target: 0 .. Len(server), text: 0 .. MaxText, files: SUBSET Files, listed: SUBSET Editor!Copies,
                  checking: SUBSET Files, unsettled: BOOLEAN, forgone: SUBSET Files]
        /\ past \in {"apply", "close"} /\ server \in Seq(Editor!Rows) /\ others \in 0 .. count /\ count \in 0 .. MaxLost
        /\ (form.listed # {} => form.target \in DOMAIN server)
    BY <1>t DEF Editor!TypeInv
  <1>3. out' = [out EXCEPT ![1] = None] /\ known' = None /\ asked' = asked  BY <1>0 DEF Editor!Stop
  <1>4. out'[1] = None /\ out'[2] = None /\ out' \in [Editor!Slots -> Editor!Chains \cup {None}]
    <2>1. 1 \in Editor!Slots  BY DEF Editor!Slots
    <2> QED  BY <1>t, <1>3, <2>1, EditorOne
  <1>5. asked = <<>> /\ way # "list" /\ way \in {"form", "list", "away"}  BY <1>t, <1>0 DEF Editor!ChainInv, Editor!TypeInv
  <1>6. count' \in 0 .. MaxLost /\ others' \in 0 .. count'
    BY <1>0, <1>2, EditorAssumed DEF Editor!EditorAssumption
  <1>7. Editor!ByHandIn' = Editor!ByHandIn /\ Cardinality(Editor!ByHandIn) <= 1 + others'
    <2>1. Editor!ByHandIn' = Editor!ByHandIn  BY <1>0 DEF Editor!ByHandIn
    <2>2. IsFiniteSet(Editor!ByHandIn)
      <3>1. Len(server) \in Nat /\ DOMAIN server = 1 .. Len(server)  BY <1>2
      <3>2. IsFiniteSet(1 .. Len(server)) /\ Editor!ByHandIn \subseteq 1 .. Len(server)  BY <3>1, FS_Interval DEF Editor!ByHandIn
      <3> QED  BY <3>2, FS_Subset
    <2>3. Cardinality(Editor!ByHandIn) \in Nat  BY <2>2, FS_CardinalityType
    <2> QED  BY <1>t, <1>0, <1>2, <2>1, <2>3, EditorCounts DEF Editor!MadeInv
  <1>8. CASE Editor!Turns(save) /\ (save.new \/ ~Editor!Here)
    <2>1. form' = Editor!Opened(save.target) /\ way' = "form"  BY <1>0, <1>8 DEF Editor!Stop
    <2>2. past = "apply" /\ save.op \in {"send", "submit"}  BY <1>8 DEF Editor!Turns
    <2>3. save.target \in DOMAIN server /\ save.target \in 1 .. Len(server) /\ save.target # 0
      BY <1>t, <1>0, <1>2, <2>2 DEF Editor!ChainInv, Editor!Creates, Editor!HasRow
    <2>4. server[save.target] \in Editor!Rows  BY <1>2, <2>3
    <2>5. form' \in [target: 0 .. Len(server), text: 0 .. MaxText, files: SUBSET Files, listed: SUBSET Editor!Copies,
                     checking: SUBSET Files, unsettled: BOOLEAN, forgone: SUBSET Files]
          /\ form'.target = save.target
      <3> DEFINE target == save.target
      <3>1. target \in 0 .. Len(server) /\ target # 0 /\ target \in DOMAIN server /\ server[target] \in Editor!Rows  BY <2>3, <2>4
      <3> HIDE DEF target
      <3>2. server[target].text \in 0 .. MaxText /\ server[target].files \in SUBSET Editor!Copies  BY <3>1 DEF Editor!Rows
      <3>3. form' = [target |-> target, text |-> server[target].text, files |-> {}, listed |-> server[target].files,
                     checking |-> {}, unsettled |-> FALSE, forgone |-> {}]
        BY <2>1, <3>1 DEF Editor!Opened, target
      <3> QED  BY <3>1, <3>2, <3>3 DEF target
    <2>6. Editor!TypeInv'  BY <1>t, <1>0, <1>3, <1>4, <1>6, <2>1, <2>3, <2>5 DEF Editor!TypeInv
    <2>7. Editor!ChainInv'  BY <1>3, <1>4, <1>5, <2>1 DEF Editor!ChainInv
    <2>8. Editor!MadeInv'  BY <1>7, <2>3, <2>5, EditorCounts DEF Editor!MadeInv
    <2> QED  BY <1>0, <2>2, <2>6, <2>7, <2>8 DEF Editor!Inv
  <1>9. CASE ~(Editor!Turns(save) /\ (save.new \/ ~Editor!Here))
    <2>1. form' = [form EXCEPT !.unsettled = @ \/ (past = "close" /\ save.op = "send")] /\ way' = way
      BY <1>0, <1>9 DEF Editor!Stop
    <2>2. form' \in [target: {form.target}, text: {form.text}, files: {form.files}, listed: {form.listed},
                     checking: {form.checking}, unsettled: BOOLEAN, forgone: {form.forgone}]
          /\ (form'.unsettled <=> form.unsettled \/ (past = "close" /\ save.op = "send"))
      <3> HIDE DEF save
      <3> QED  BY <1>2, <2>1
    <2>3. form' \in [target: 0 .. Len(server), text: 0 .. MaxText, files: SUBSET Files, listed: SUBSET Editor!Copies,
                     checking: SUBSET Files, unsettled: BOOLEAN, forgone: SUBSET Files]
          /\ form'.target = form.target /\ form'.listed = form.listed
      BY <1>2, <2>2
    <2>4. Editor!TypeInv'  BY <1>t, <1>0, <1>3, <1>4, <1>6, <2>1, <2>3 DEF Editor!TypeInv
    <2>5. Editor!ChainInv'  BY <1>3, <1>4, <1>5, <2>1 DEF Editor!ChainInv
    <2>6. Editor!MadeInv'
      <3>1. form.target = 0 => save.op = "create"
        <4>1. past = "close" => form.target \in DOMAIN server  BY <1>t DEF Editor!ReportInv
        <4>2. form.target = 0 => past = "apply" /\ save.new  BY <1>t, <1>0, <1>2, <4>1 DEF Editor!ChainInv
        <4>3. past = "apply" /\ save.new => save.op \notin {"send", "submit"}  BY <1>9 DEF Editor!Turns
        <4> QED  BY <1>t, <1>0, <1>1, <4>2, <4>3 DEF Editor!ChainInv, Editor!Chains
      <3>2. form.target = 0 => Cardinality(Editor!ByHandIn) <= others'
        BY <1>t, <1>0, <1>2, <1>5, <1>7, <3>1, EditorCounts DEF Editor!MadeInv, Editor!Creates
      <3> QED  BY <1>7, <2>3, <3>2, EditorCounts DEF Editor!MadeInv
    <2>7. CASE past = "close"
      <3>1. Editor!CopiesInv'  BY <1>t, <1>0, <2>3, <2>7 DEF Editor!CopiesInv
      <3>2. Editor!Kept' = Editor!Kept /\ ~Editor!InFlight'  BY <1>0, <1>4, <2>3 DEF Editor!Kept, Editor!InFlight
      <3>3. Editor!InFlight => form'.unsettled  BY <2>2, <2>7 DEF Editor!InFlight
      <3>4. Editor!ReportInv'  BY <1>t, <1>0, <1>3, <1>4, <1>5, <2>2, <2>7, <3>2, <3>3 DEF Editor!ReportInv
      <3>5. Editor!ClosedIsSaved'  BY <1>5, <2>1 DEF Editor!ClosedIsSaved
      <3> QED  BY <2>4, <2>5, <2>6, <3>1, <3>4, <3>5 DEF Editor!Inv
    <2> QED  BY <1>0, <2>4, <2>5, <2>6, <2>7 DEF Editor!Inv
  <1> QED  BY <1>8, <1>9

\* The server acts: it makes the row, or changes the one there is, and numbers the copy it makes.
LEMMA EditorHandle ==
  ASSUME Editor!Inv, NEW s \in Editor!Slots, Editor!Handle(s)
  PROVE  Editor!Inv'
  <1>t. Editor!TypeInv /\ Editor!ChainInv /\ Editor!MadeInv /\ (past = "close" => Editor!CopiesInv /\ Editor!ReportInv /\ Editor!ClosedIsSaved)  BY DEF Editor!Inv
  <1> DEFINE save == out[1]
             next == out'[1]
             seen == IF save.op = "look" THEN server[save.target].files ELSE {}
             target == IF save.op = "create" THEN Len(server) + 1 ELSE save.target
  <1>0. /\ s = 1 /\ save # None /\ save.wire = "sent" /\ Editor!Effect(save)
        /\ out' = [out EXCEPT ![1].wire = "handled", ![1].target = target, ![1].seen = seen]
        /\ UNCHANGED <<past, way, form, known, asked, held, count, others>>
    <2>1. out[s] # None  BY DEF Editor!Handle
    <2>2. s = 1  BY <1>t, <2>1, EditorOne
    <2> QED  BY <2>1, <2>2 DEF Editor!Handle, Editor!pageVars
  <1>1. save \in Editor!Chains /\ 1 \in Editor!Slots
    <2>1. 1 \in Editor!Slots  BY DEF Editor!Slots
    <2> QED  BY <1>t, <1>0, <2>1 DEF Editor!TypeInv
  <1>2. server \in Seq(Editor!Rows) /\ sent \in 0 .. MaxMade /\ past \in {"apply", "close"} /\ asked = <<>> /\ way # "list"
    BY <1>t, <1>0 DEF Editor!TypeInv, Editor!ChainInv
  <1>3. save.op # "create" => save.target \in DOMAIN server /\ server[save.target] \in Editor!Rows
    BY <1>t, <1>0, <1>2 DEF Editor!ChainInv, Editor!Creates, Editor!HasRow
  <1>4. seen \subseteq Editor!Copies /\ target \in Nat
    <2>1. Len(server) + 1 \in Nat  BY <1>2
    <2>2. save.target \in Nat  BY <1>1 DEF Editor!Chains
    <2>3. save.op = "look" => server[save.target].files \subseteq Editor!Copies  BY <1>3 DEF Editor!Rows
    <2> QED  BY <2>1, <2>2, <2>3
  <1>5. /\ next \in Editor!Chains /\ next.by = save.by /\ next.text = save.text /\ next.todo = save.todo /\ next.op = save.op
        /\ next.file = save.file /\ next.wire = "handled" /\ next.target = target /\ next.seen = seen
        /\ next.new <=> save.new
    <2>1. out' = [out EXCEPT ![1] = [save EXCEPT !.wire = "handled", !.target = target, !.seen = seen]]
      BY <1>0
    <2>2. next = [save EXCEPT !.wire = "handled", !.target = target, !.seen = seen]
      BY <1>t, <1>1, <2>1 DEF Editor!TypeInv
    <2> HIDE DEF save, next, target, seen
    <2> QED  BY <1>1, <1>4, <2>2 DEF Editor!Chains
  <1>6. out' \in [Editor!Slots -> Editor!Chains \cup {None}] /\ out'[2] = None /\ next # None
    <2>1. out' = [out EXCEPT ![1] = next]  BY <1>t, <1>0, <1>1 DEF Editor!TypeInv
    <2> HIDE DEF next
    <2> QED  BY <1>t, <1>1, <1>5, <2>1, EditorOne, EditorAssumed DEF Editor!EditorAssumption
  <1>7. form \in [target: 0 .. Len(server), text: 0 .. MaxText, files: SUBSET Files, listed: SUBSET Editor!Copies,
                  checking: SUBSET Files, unsettled: BOOLEAN, forgone: SUBSET Files]
        /\ (form.listed # {} => form.target \in DOMAIN server)
    BY <1>t DEF Editor!TypeInv
  <1>8. CASE save.op = "create"
    <2> DEFINE row == Editor!Row(save.text, save.by)
    <2>1. server' = Append(server, row) /\ sent' = sent  BY <1>0, <1>8 DEF Editor!Effect
    <2>2. row \in Editor!Rows /\ row.by = save.by
      <3> HIDE DEF save
      <3> QED  BY <1>1 DEF Editor!Row, Editor!Rows, Editor!Chains
    <2> HIDE DEF row
    <2>3. /\ server' \in Seq(Editor!Rows) /\ Len(server') = Len(server) + 1 /\ DOMAIN server = 1 .. Len(server) /\ DOMAIN server' = 1 .. (Len(server) + 1)
          /\ \A i \in DOMAIN server : server'[i] = server[i]
          /\ server'[Len(server) + 1] = row
      BY <1>2, <2>1, <2>2
    <2>4. past = "apply" /\ save.new /\ form.target = 0  BY <1>t, <1>0, <1>8 DEF Editor!ChainInv
    <2>5. Editor!TypeInv'
      <3>1. held' \subseteq [copy: Editor!Copies, target: DOMAIN server', wire: {"sent", "handled"}]
        <4>1. DOMAIN server \subseteq DOMAIN server'  BY <1>2, <2>3
        <4> QED  BY <1>t, <1>0, <4>1 DEF Editor!TypeInv
      <3>2. form' \in [target: 0 .. Len(server'), text: 0 .. MaxText, files: SUBSET Files, listed: SUBSET Editor!Copies,
                       checking: SUBSET Files, unsettled: BOOLEAN, forgone: SUBSET Files]
            /\ form'.listed = {}
        BY <1>0, <1>2, <1>7, <2>3, <2>4
      <3> QED  BY <1>t, <1>0, <1>6, <2>1, <2>3, <3>1, <3>2 DEF Editor!TypeInv
    <2>6. Editor!ChainInv'
      <3>1. Editor!HasRow(out[1])'  BY <1>2, <1>5, <1>8, <2>3 DEF Editor!HasRow
      <3> QED  BY <1>t, <1>0, <1>5, <1>6, <1>8, <2>4, <3>1 DEF Editor!ChainInv
    <2>7. Editor!MadeInv'
      <3>1. IsFiniteSet(Editor!ByHandIn)
        <4>1. IsFiniteSet(1 .. Len(server)) /\ Editor!ByHandIn \subseteq 1 .. Len(server)  BY <1>2, FS_Interval DEF Editor!ByHandIn
        <4> QED  BY <4>1, FS_Subset
      <3>2. Cardinality(Editor!ByHandIn) \in Nat /\ others \in Nat  BY <1>t, <3>1, FS_CardinalityType DEF Editor!TypeInv
      <3>3. Cardinality(Editor!ByHandIn) <= others  BY <1>t, <1>0, <1>2, <1>8, <2>4, EditorCounts DEF Editor!MadeInv, Editor!Creates
      <3>4. Editor!ByHandIn' = Editor!ByHandIn \/ Editor!ByHandIn' = Editor!ByHandIn \cup {Len(server) + 1}  BY <1>2, <2>3 DEF Editor!ByHandIn
      <3>5. Cardinality(Editor!ByHandIn') <= Cardinality(Editor!ByHandIn) + 1
        <4>1. Cardinality(Editor!ByHandIn \cup {Len(server) + 1}) \in {Cardinality(Editor!ByHandIn), Cardinality(Editor!ByHandIn) + 1}
          BY <3>1, FS_AddElement
        <4>2. CASE Editor!ByHandIn' = Editor!ByHandIn  BY <3>2, <4>2
        <4>3. CASE Editor!ByHandIn' = Editor!ByHandIn \cup {Len(server) + 1}  BY <3>2, <4>1, <4>3
        <4> QED  BY <3>4, <4>2, <4>3
      <3>6. IsFiniteSet(Editor!ByHandIn') /\ Cardinality(Editor!ByHandIn') \in Nat
        <4>1. IsFiniteSet(Editor!ByHandIn \cup {Len(server) + 1})  BY <3>1, FS_AddElement
        <4>2. IsFiniteSet(Editor!ByHandIn')  BY <3>1, <3>4, <4>1
        <4> QED  BY <4>2, FS_CardinalityType
      <3>7. out'[1] # None /\ ~Editor!Creates(out[1])'  BY <1>5, <1>6 DEF Editor!Creates
      <3> QED  BY <1>0, <3>2, <3>3, <3>5, <3>6, <3>7, EditorCounts DEF Editor!MadeInv
    <2> QED  BY <1>0, <2>4, <2>5, <2>6, <2>7 DEF Editor!Inv
  <1>9. CASE save.op # "create"
    <2> DEFINE t == save.target
    <2>1. t \in DOMAIN server /\ server[t] \in Editor!Rows /\ target = t  BY <1>3, <1>9
    <2>2. \E row \in Editor!Rows :
            /\ server' = [server EXCEPT ![t] = row] /\ row.by = server[t].by
            /\ row.files = IF save.op = "send" THEN server[t].files \cup {Editor!Copy(save)} ELSE server[t].files
            /\ save.op = "text" \/ (save.op = "submit" /\ past = "close") => row.text = save.text
            /\ save.op \in {"send", "look"} => row.text = server[t].text
            /\ sent' = IF save.op = "send" THEN sent + 1 ELSE sent
            /\ save.op = "send" => sent < MaxMade
      <3> DEFINE text == save.text
      <3>0. text \in 0 .. MaxText  BY <1>1 DEF Editor!Chains
      <3>1. CASE save.op \in {"update", "text"}
        <4>1. server' = [server EXCEPT ![t].text = text] /\ sent' = sent  BY <1>0, <3>1 DEF Editor!Effect
        <4> DEFINE row == [server[t] EXCEPT !.text = text]
        <4>2. server' = [server EXCEPT ![t] = row]  BY <4>1
        <4> HIDE DEF text, t
        <4>3. row \in Editor!Rows /\ row.by = server[t].by /\ row.files = server[t].files /\ row.text = text  BY <2>1, <3>0 DEF Editor!Rows
        <4> HIDE DEF row
        <4> QED  BY <3>1, <4>1, <4>2, <4>3 DEF text
      <3>2. CASE save.op = "send"
        <4>1. server' = [server EXCEPT ![t].files = @ \cup {Editor!Copy(save)}] /\ sent < MaxMade /\ sent' = sent + 1
          BY <1>0, <3>2 DEF Editor!Effect
        <4> DEFINE row == [server[t] EXCEPT !.files = @ \cup {Editor!Copy(save)}]
        <4>2. server' = [server EXCEPT ![t] = row]  BY <4>1
        <4>3. Editor!Copy(save) \in Editor!Copies
          <5>1. save.file \in Files /\ sent + 1 \in Nat \ {0}
            BY <1>t, <1>0, <1>1, <1>2, <3>2, EditorAssumed DEF Editor!ChainInv, Editor!Chains, Editor!EditorAssumption
          <5> QED  BY <5>1 DEF Editor!Copy, Editor!Copies
        <4> HIDE DEF t
        <4>4. row \in Editor!Rows /\ row.by = server[t].by /\ row.files = server[t].files \cup {Editor!Copy(save)} /\ row.text = server[t].text
          <5> HIDE DEF save
          <5> QED  BY <2>1, <4>3 DEF Editor!Rows
        <4> HIDE DEF row
        <4> QED  BY <3>2, <4>1, <4>2, <4>4
      <3>3. CASE save.op = "submit"
        <4>1. server' = [server EXCEPT ![t].status = "handed in", ![t].text = IF past = "close" THEN text ELSE @] /\ sent' = sent
          BY <1>0, <3>3 DEF Editor!Effect
        <4> DEFINE row == [server[t] EXCEPT !.status = "handed in", !.text = IF past = "close" THEN text ELSE @]
        <4>2. server' = [server EXCEPT ![t] = row]  BY <2>1, <4>1
        <4> HIDE DEF text, t
        <4>3. row \in Editor!Rows /\ row.by = server[t].by /\ row.files = server[t].files /\ (past = "close" => row.text = text)
          BY <2>1, <3>0 DEF Editor!Rows
        <4> HIDE DEF row
        <4> QED  BY <3>3, <4>1, <4>2, <4>3 DEF text
      <3>4. CASE save.op = "look"
        <4>1. server' = server /\ sent' = sent  BY <1>0, <3>4 DEF Editor!Effect, Editor!serverVars
        <4>2. server' = [server EXCEPT ![t] = server[t]]  BY <1>2, <4>1
        <4> QED  BY <2>1, <3>4, <4>1, <4>2
      <3> QED  BY <1>1, <1>9, <3>1, <3>2, <3>3, <3>4 DEF Editor!Chains
    <2>3. PICK row \in Editor!Rows :
            /\ server' = [server EXCEPT ![t] = row] /\ row.by = server[t].by
            /\ row.files = IF save.op = "send" THEN server[t].files \cup {Editor!Copy(save)} ELSE server[t].files
            /\ save.op = "text" \/ (save.op = "submit" /\ past = "close") => row.text = save.text
            /\ save.op \in {"send", "look"} => row.text = server[t].text
            /\ sent' = IF save.op = "send" THEN sent + 1 ELSE sent
            /\ save.op = "send" => sent < MaxMade
      BY <2>2
    <2>4. /\ server' \in Seq(Editor!Rows) /\ DOMAIN server' = DOMAIN server /\ Len(server') = Len(server)
          /\ \A i \in DOMAIN server : server'[i] = IF i = t THEN row ELSE server[i]
      BY <1>2, <2>1, <2>3, ExceptSeq
    <2>5. sent' \in 0 .. MaxMade /\ sent <= sent'  BY <1>2, <2>3, EditorAssumed DEF Editor!EditorAssumption
    <2>6. Editor!TypeInv'  BY <1>t, <1>0, <1>6, <2>4, <2>5 DEF Editor!TypeInv
    <2>7. Editor!ChainInv'
      <3>1. Editor!HasRow(out[1])'  BY <1>5, <2>1, <2>4 DEF Editor!HasRow
      <3> QED  BY <1>t, <1>0, <1>5, <1>6, <1>9, <3>1 DEF Editor!ChainInv
    <2>8. Editor!MadeInv'
      <3>1. Editor!ByHandIn' = Editor!ByHandIn  BY <2>1, <2>3, <2>4, EditorSameRows
      <3>2. out'[1] # None /\ ~Editor!Creates(out[1])'  BY <1>5, <1>6 DEF Editor!Creates
      <3> QED  BY <1>t, <1>0, <3>1, <3>2 DEF Editor!MadeInv
    <2>9. CASE past = "close"
      <3>0. /\ t = form.target /\ Editor!Kept = server[t].files /\ Editor!Kept' = row.files /\ ~Editor!InFlight /\ save.text = form.text
            /\ Editor!InFlight' <=> save.op = "send"
        BY <1>t, <1>0, <1>5, <1>6, <2>1, <2>4, <2>9 DEF Editor!ReportInv, Editor!Kept, Editor!InFlight
      <3>1. Editor!CopiesInv'
        <4>1. Editor!Copy(save).id = sent + 1  BY DEF Editor!Copy
        <4>2. \A i \in DOMAIN server' : \A c \in server'[i].files : c.id <= sent'
          <5>1. \A i \in DOMAIN server : \A c \in server[i].files : c.id \in Nat /\ c.id <= sent
            <6>1. \A i \in DOMAIN server : server[i] \in Editor!Rows  BY <1>2
            <6>2. \A i \in DOMAIN server : \A c \in server[i].files : c \in Editor!Copies  BY <6>1 DEF Editor!Rows
            <6> QED  BY <1>t, <2>9, <6>2 DEF Editor!CopiesInv, Editor!Copies
          <5> QED  BY <1>2, <2>1, <2>3, <2>4, <2>5, <4>1, <5>1
        <4>3. \A c \in form.listed : c.id <= sent'
          <5>1. \A c \in form.listed : c.id \in Nat /\ c.id <= sent  BY <1>t, <1>7, <2>9 DEF Editor!CopiesInv, Editor!Copies
          <5> QED  BY <1>2, <2>5, <5>1
        <4>4. ASSUME NEW r \in held
              PROVE  r.copy.id <= sent' /\ (r.wire = "handled" => r.copy \notin server'[r.target].files)
          <5>1. r.copy.id \in Nat /\ r.copy.id <= sent /\ r.target = t  BY <1>t, <2>9, <3>0 DEF Editor!CopiesInv, Editor!TypeInv, Editor!Copies
          <5>2. r.copy # Editor!Copy(save)  BY <1>2, <4>1, <5>1
          <5> QED  BY <1>t, <1>2, <2>1, <2>3, <2>4, <2>5, <2>9, <5>1, <5>2 DEF Editor!CopiesInv
        <4> QED  BY <1>t, <1>0, <2>9, <4>2, <4>3, <4>4 DEF Editor!CopiesInv
      <3>2. ASSUME NEW c \in Editor!Kept'
            PROVE  \/ c \in form.listed
                   \/ c.file \in form.forgone
                   \/ c.file \in form.files /\ (form.unsettled \/ (save.op = "send" /\ c.file = save.file))
        <4>1. CASE c \in Editor!Kept  BY <1>t, <2>9, <3>0, <4>1 DEF Editor!ReportInv
        <4>2. CASE save.op = "send" /\ c = Editor!Copy(save)
          BY <1>t, <1>0, <2>9, <4>2 DEF Editor!ReportInv, Editor!ChainInv, Editor!Copy
        <4> QED  BY <2>3, <3>0, <4>1, <4>2
      <3>3. \A c, d \in Editor!Kept' : c.file = d.file /\ c # d => c.file \in form.forgone
        <4>1. save.op = "send" => \A c \in Editor!Kept : c.file = save.file => c.file \in form.forgone
          BY <1>t, <1>0, <2>9, <3>0 DEF Editor!ReportInv, Editor!ChainInv
        <4>2. Editor!Copy(save).file = save.file  BY DEF Editor!Copy
        <4>3. \A c \in Editor!Kept' : c \in Editor!Kept \/ (save.op = "send" /\ c = Editor!Copy(save))  BY <2>3, <3>0
        <4>4. \A c, d \in Editor!Kept : c.file = d.file /\ c # d => c.file \in form.forgone  BY <1>t, <2>9 DEF Editor!ReportInv
        <4> QED  BY <4>1, <4>2, <4>3, <4>4
      <3>4. /\ form.checking = {}
            /\ save.op \in {"send", "submit"} => ~form.unsettled /\ save.todo = form.files
            /\ save.op = "submit" => save.by = "submit" /\ form.files = {}
            /\ save.by = "draft" => row.text = save.text
            /\ save.op = "submit" => row.text = save.text
        BY <1>t, <1>0, <1>1, <1>9, <2>1, <2>3, <2>9, <3>0 DEF Editor!ReportInv, Editor!ChainInv, Editor!Chains
      <3>5. save.op = "look" =>
              /\ Editor!Kept' \subseteq seen /\ \A c \in seen : c.id <= sent'
              /\ \A c, d \in seen : c.file = d.file /\ c # d => c.file \in form.forgone
        BY <1>t, <2>1, <2>3, <2>9, <3>0 DEF Editor!CopiesInv, Editor!ReportInv
      <3>6. save.op = "send" => \E c \in Editor!Kept' : c.file = save.file /\ \A r \in held : r.copy # c
        <4>1. Editor!Copy(save).file = save.file /\ Editor!Copy(save).id = sent + 1  BY DEF Editor!Copy
        <4>2. \A r \in held : r.copy # Editor!Copy(save)
          <5>1. \A r \in held : r.copy.id \in Nat /\ r.copy.id <= sent  BY <1>t, <2>9 DEF Editor!CopiesInv, Editor!TypeInv, Editor!Copies
          <5> QED  BY <1>2, <4>1, <5>1
        <4> QED  BY <2>3, <3>0, <4>1, <4>2
      <3>7. Editor!ReportInv'
        <4>1. form.target \in DOMAIN server' /\ \A c \in form.listed : c.file \notin form.files
          BY <1>t, <2>4, <2>9 DEF Editor!ReportInv
        <4>2. server'[next.target].text = row.text /\ next.target = form.target  BY <1>5, <2>1, <2>4, <3>0
        <4> HIDE DEF Editor!Kept, Editor!InFlight, next, save, seen, t
        <4> QED  BY <1>0, <1>2, <1>5, <3>0, <3>2, <3>3, <3>4, <3>5, <3>6, <4>1, <4>2 DEF Editor!ReportInv, next
      <3>8. Editor!ClosedIsSaved'  BY <1>0, <1>2 DEF Editor!ClosedIsSaved
      <3> QED  BY <2>6, <2>7, <2>8, <3>1, <3>7, <3>8 DEF Editor!Inv
    <2> QED  BY <1>0, <1>2, <2>6, <2>7, <2>8, <2>9 DEF Editor!Inv
  <1> QED  BY <1>8, <1>9

\* Every step keeps the state of the form sound.
LEMMA EditorStep ==
  ASSUME page = "editor", "draft" \notin HeldKeys, Editor!Inv, [Next]_vars
  PROVE  Editor!Inv'
  <1>1. CASE Editor!Next
    <2>1. CASE Editor!TypeApplication \/ Editor!TypeReport \/ \E f \in Files : Editor!Choose(f) \/ Editor!Hashed(f) \/ Editor!Unchoose(f)
      BY <2>1, EditorEdits
    <2>2. CASE Editor!Confirm \/ Editor!Cancel \/ Editor!Leave \/ \E by \in {"draft", "submit"} : Editor!Press(by)
      BY <2>2, EditorSaves
    <2>3. ASSUME NEW c \in form.listed, Editor!Withdraw(c) PROVE Editor!Inv'  BY <2>3, EditorWithdraw
    <2>4. ASSUME NEW s \in Editor!Slots, Editor!Handle(s) PROVE Editor!Inv'  BY <2>4, EditorHandle
    <2>5. ASSUME NEW s \in Editor!Slots, Editor!Answer(s) PROVE Editor!Inv'  BY <2>5, EditorAnswer
    <2>6. ASSUME NEW s \in Editor!Slots, Editor!Refuse(s) \/ Editor!Lose(s) PROVE Editor!Inv'  BY <2>6, EditorStop
    <2>7. ASSUME NEW r \in held, Editor!HandleRemoval(r) \/ Editor!AnswerRemoval(r) PROVE Editor!Inv'  BY <2>7, EditorRemoval
    <2> QED  BY <1>1, <2>1, <2>2, <2>3, <2>4, <2>5, <2>6, <2>7 DEF Editor!Next
  <1>2. CASE UNCHANGED vars
    BY <1>2 DEF vars, Editor!Inv, Editor!TypeInv, Editor!ChainInv, Editor!MadeInv, Editor!CopiesInv, Editor!ReportInv,
                Editor!ClosedIsSaved, Editor!Creates, Editor!HasRow, Editor!ByHandIn, Editor!Kept, Editor!InFlight
  <1> QED  BY <1>1, <1>2 DEF Next

\* What the form knows of the server is right, whatever request failed or had its answer lost, for a
\* user who holds down no other button than the hand-in's (the draft's opens a second confirmation,
\* and both make an activity).
THEOREM FormsAreSound ==
  ASSUME "draft" \notin HeldKeys
  PROVE  Spec => [](page = "editor" => Editor!Inv)
  <1>1. Init => (page = "editor" => Editor!Inv)  BY EditorInit DEF Init
  <1>2. (page = "editor" => Editor!Inv) /\ [Next]_vars => (page = "editor" => Editor!Inv)'
    BY EditorStep, PageStays
  <1> QED  BY <1>1, <1>2, PTL DEF Spec

\* A sound state is one in which what has been handed in is one activity, the report sends no file
\* twice that stays on it, and a form that has closed itself has been saved.
LEMMA EditorSound == ASSUME page = "editor", Editor!Inv PROVE SavedOnceAndWhole
  <1>t. /\ Editor!TypeInv /\ Editor!ChainInv /\ Editor!MadeInv
        /\ past = "close" => Editor!ReportInv /\ Editor!ClosedIsSaved
    BY DEF Editor!Inv
  <1>1. Editor!TypeOK
    <2>1. form \in [target: 0 .. Len(server), text: 0 .. MaxText, files: SUBSET Files, listed: SUBSET Editor!Copies,
                    checking: SUBSET Files, unsettled: BOOLEAN, forgone: SUBSET Files]
          /\ server \in Seq(Editor!Rows)
      BY <1>t DEF Editor!TypeInv
    <2>2. Len(asked) <= 2
      <3>1. asked = <<>> \/ \E d \in [by: {"draft", "submit"}, text: 0 .. MaxText, todo: SUBSET Files] : asked = <<d>>
        BY <1>t DEF Editor!TypeInv
      <3>2. CASE asked = <<>>  BY <3>2
      <3>3. ASSUME NEW d, asked = <<d>> PROVE Len(asked) <= 2
        <4>1. Len(asked) = 1  BY <3>3
        <4> QED  BY <4>1
      <3> QED  BY <3>1, <3>2, <3>3
    <2>3. \A s \in Editor!Slots : out[s] # None => out[s].target \in 0 .. Len(server)
      BY <1>t, <2>1, EditorOne DEF Editor!ChainInv, Editor!HasRow
    <2> QED  BY <1>t, <2>1, <2>2, <2>3 DEF Editor!TypeInv, Editor!TypeOK
  <1>2. Editor!SubmitCreatesOnce  BY <1>t DEF Editor!MadeInv, Editor!SubmitCreatesOnce, Editor!ByHandIn
  <1>3. Editor!KeptIsSentOnce
    <2> SUFFICES ASSUME NEW s \in Editor!Slots, Editor!Resent(s) PROVE out[s].file \in form.forgone
      BY DEF Editor!KeptIsSentOnce
    <2>1. s = 1 /\ past = "close" /\ out[1] # None /\ out[1].op = "send" /\ out[1].wire = "sent"
      BY <1>t, EditorOne DEF Editor!Resent
    <2>2. PICK c \in server[out[1].target].files : c.file = out[1].file  BY <2>1 DEF Editor!Resent
    <2>3. /\ out[1].target = form.target /\ ~form.unsettled /\ out[1].file \in form.files
      BY <1>t, <2>1 DEF Editor!ReportInv, Editor!ChainInv
    <2>4. c \in Editor!Kept /\ ~Editor!InFlight  BY <2>1, <2>2, <2>3 DEF Editor!Kept, Editor!InFlight
    <2>5. c \notin form.listed  BY <1>t, <2>1, <2>2, <2>3 DEF Editor!ReportInv
    <2> QED  BY <1>t, <2>1, <2>2, <2>3, <2>4, <2>5 DEF Editor!ReportInv
  <1>4. Editor!ClosedIsSaved  BY <1>t DEF Editor!ClosedIsSaved
  <1> QED  BY <1>1, <1>2, <1>3, <1>4 DEF SavedOnceAndWhole

\* Handing an application in makes one activity, the report never sends a file twice that stays on
\* it, and a report that has closed itself is on the server whole: whatever answers are lost.
THEOREM FormsAreSavedOnce ==
  ASSUME "draft" \notin HeldKeys
  PROVE  Spec => []SavedOnceAndWhole
  <1>1. (page = "editor" => Editor!Inv) => SavedOnceAndWhole  BY EditorSound DEF SavedOnceAndWhole
  <1> QED  BY <1>1, FormsAreSound, PTL

(***************************************************************************)
(* The page on which the office makes an activity to sign up for.          *)
(***************************************************************************)
LEMMA BuilderAssumed == Builder!BuilderAssumption
  BY PagesAssumption

\* Of what is at place i after a move, where it was; and of what was at place k, where it is.
Came(from, to, i) ==
    IF i = to THEN from ELSE IF (IF i < to THEN i ELSE i - 1) < from THEN (IF i < to THEN i ELSE i - 1) ELSE (IF i < to THEN i ELSE i - 1) + 1
Gone(from, to, k) == Came(to, from, k)

LEMMA BuilderPlaces ==
  ASSUME NEW n \in Nat, NEW from \in 1 .. n, NEW to \in 1 .. n
  PROVE  /\ \A i \in 1 .. n : Came(from, to, i) \in 1 .. n /\ Gone(from, to, Came(from, to, i)) = i
         /\ \A k \in 1 .. n : Gone(from, to, k) \in 1 .. n /\ Came(from, to, Gone(from, to, k)) = k
         /\ \A i, j \in 1 .. n : i < j /\ i # from /\ j # from => Gone(from, to, i) < Gone(from, to, j)
  BY DEF Came, Gone

\* What is left when a field is taken out.
LEMMA BuilderRest ==
  ASSUME NEW S, form \in Seq(S), NEW from \in DOMAIN form
  PROVE  /\ Builder!Without(from) \in Seq(S) /\ Len(Builder!Without(from)) = Len(form) - 1
         /\ \A i \in 1 .. Len(form) - 1 : Builder!Without(from)[i] = IF i < from THEN form[i] ELSE form[i + 1]
  <1> DEFINE n == Len(form)
             rest == Builder!Without(from)
             a == SubSeq(form, 1, from - 1)
             b == SubSeq(form, from + 1, n)
  <1>0. n \in Nat /\ DOMAIN form = 1 .. n /\ from \in 1 .. n  OBVIOUS
  <1>1. a \in Seq(S) /\ Len(a) = from - 1 /\ \A i \in 1 .. from - 1 : a[i] = form[i]
    BY <1>0
  <1>2. b \in Seq(S) /\ Len(b) = n - from /\ \A i \in 1 .. n - from : b[i] = form[from + i]
    BY <1>0
  <1>3. rest = a \o b  BY DEF Builder!Without
  <1> HIDE DEF a, b, rest
  <1>4. rest \in Seq(S) /\ Len(rest) = n - 1
    <2>1. rest \in Seq(S) /\ Len(rest) = Len(a) + Len(b)  BY <1>1, <1>2, <1>3, ConcatProperties
    <2> QED  BY <1>0, <1>1, <1>2, <2>1
  <1>5. ASSUME NEW i \in 1 .. n - 1 PROVE rest[i] = IF i < from THEN form[i] ELSE form[i + 1]
    <2> HIDE DEF n
    <2>1. CASE i < from
      <3>1. rest[i] = a[i]  BY <1>0, <1>1, <1>2, <1>3, <2>1
      <3> QED  BY <1>0, <1>1, <2>1, <3>1
    <2>2. CASE ~(i < from)
      <3>1. rest[i] = b[i - (from - 1)]  BY <1>0, <1>1, <1>2, <1>3, <2>2
      <3>2. i - (from - 1) \in 1 .. n - from /\ from + (i - (from - 1)) = i + 1  BY <1>0, <2>2
      <3> QED  BY <1>2, <2>2, <3>1, <3>2
    <2> QED  BY <2>1, <2>2
  <1> QED  BY <1>4, <1>5 DEF rest

\* A move takes the field out and puts it in again.
LEMMA BuilderMove ==
  ASSUME NEW S, form \in Seq(S), NEW from \in DOMAIN form, NEW to \in DOMAIN form
  PROVE  /\ Builder!Move(from, to) \in Seq(S) /\ DOMAIN Builder!Move(from, to) = DOMAIN form
         /\ \A i \in DOMAIN form : Builder!Move(from, to)[i] = form[Came(from, to, i)]
  <1> DEFINE n == Len(form)
             rest == Builder!Without(from)
             c == SubSeq(rest, 1, to - 1)
             d == SubSeq(rest, to, Len(rest))
  <1>0. n \in Nat /\ DOMAIN form = 1 .. n /\ from \in 1 .. n /\ to \in 1 .. n  OBVIOUS
  <1>4. /\ rest \in Seq(S) /\ Len(rest) = n - 1
        /\ \A i \in 1 .. n - 1 : rest[i] = IF i < from THEN form[i] ELSE form[i + 1]
    BY <1>0, BuilderRest
  <1> HIDE DEF rest, n
  <1>5. c \in Seq(S) /\ Len(c) = to - 1 /\ \A i \in 1 .. to - 1 : c[i] = rest[i]
    BY <1>0, <1>4
  <1>6. d \in Seq(S) /\ Len(d) = n - to /\ \A i \in 1 .. n - to : d[i] = rest[to + i - 1]
    BY <1>0, <1>4
  <1>7. form[from] \in S  BY <1>0
  <1>8. Builder!Move(from, to) = c \o <<form[from]>> \o d  BY DEF Builder!Move, rest
  <1> HIDE DEF c, d
  <1> DEFINE e == c \o <<form[from]>>
  <1>9. e \in Seq(S) /\ Len(e) = to /\ e[to] = form[from] /\ \A i \in 1 .. to - 1 : e[i] = c[i]
    BY <1>0, <1>5, <1>7
  <1>10. Builder!Move(from, to) = e \o d  BY <1>8
  <1> HIDE DEF e
  <1>11. Builder!Move(from, to) \in Seq(S) /\ Len(Builder!Move(from, to)) = n
    <2>1. Builder!Move(from, to) \in Seq(S) /\ Len(Builder!Move(from, to)) = Len(e) + Len(d)  BY <1>6, <1>9, <1>10, ConcatProperties
    <2> QED  BY <1>0, <1>6, <1>9, <2>1
  <1>12. ASSUME NEW i \in 1 .. n PROVE Builder!Move(from, to)[i] = form[Came(from, to, i)]
    <2>1. CASE i = to
      <3>1. Builder!Move(from, to)[i] = e[i]  BY <1>0, <1>6, <1>9, <1>10, <2>1
      <3> QED  BY <1>9, <2>1, <3>1 DEF Came
    <2>2. CASE i < to
      <3>1. Builder!Move(from, to)[i] = e[i]  BY <1>0, <1>6, <1>9, <1>10, <2>2
      <3>2. i \in 1 .. to - 1 /\ i \in 1 .. n - 1  BY <1>0, <2>2
      <3> QED  BY <1>0, <1>4, <1>5, <1>9, <2>2, <3>1, <3>2 DEF Came
    <2>3. CASE i > to
      <3>1. Builder!Move(from, to)[i] = d[i - to]  BY <1>0, <1>6, <1>9, <1>10, <2>3
      <3>2. i - to \in 1 .. n - to /\ to + (i - to) - 1 = i - 1 /\ i - 1 \in 1 .. n - 1  BY <1>0, <2>3
      <3>3. Builder!Move(from, to)[i] = rest[i - 1]  BY <1>6, <3>1, <3>2
      <3>4. rest[i - 1] = IF i - 1 < from THEN form[i - 1] ELSE form[(i - 1) + 1]  BY <1>4, <3>2
      <3>5. Came(from, to, i) = IF i - 1 < from THEN i - 1 ELSE (i - 1) + 1  BY <1>0, <2>3 DEF Came
      <3> HIDE DEF Came
      <3> QED  BY <3>3, <3>4, <3>5
    <2> QED  BY <1>0, <2>1, <2>2, <2>3
  <1> QED  BY <1>0, <1>11, <1>12

\* What a sound page has: keys that tell its fields apart.
LEMMA BuilderKeys ==
  ASSUME Builder!Inv
  PROVE  /\ form \in Seq([key: Builder!Keys, label: Builder!Labels, kind: Builder!Kinds]) /\ asked \in 1 .. MaxFields + 1
         /\ \A i \in DOMAIN form : /\ form[i] \in [key: Builder!Keys, label: Builder!Labels, kind: Builder!Kinds]
                                   /\ form[i].key < asked /\ Builder!At(form[i].key) = i /\ Builder!Shown(form[i].key)
         /\ \A i, j \in DOMAIN form : form[i].key = form[j].key => i = j
         /\ \A key : Builder!Shown(key) => Builder!At(key) \in DOMAIN form /\ form[Builder!At(key)].key = key
  <1>1. form \in Seq([key: Builder!Keys, label: Builder!Labels, kind: Builder!Kinds]) /\ asked \in 1 .. MaxFields + 1  BY DEF Builder!Inv, Builder!TypeOK
  <1>2. \A i, j \in DOMAIN form : form[i].key = form[j].key => i = j
    BY DEF Builder!Inv, Builder!TypeOK, Builder!IsInjective
  <1>3. ASSUME NEW i \in DOMAIN form
        PROVE  form[i] \in [key: Builder!Keys, label: Builder!Labels, kind: Builder!Kinds] /\ form[i].key < asked
    <2>1. form[i].key < asked  BY DEF Builder!Inv, Builder!KeysInv
    <2>2. form[i] \in [key: Builder!Keys, label: Builder!Labels, kind: Builder!Kinds]
      <3> DEFINE F == [key: Builder!Keys, label: Builder!Labels, kind: Builder!Kinds]
      <3>1. form \in Seq(F)  BY <1>1
      <3> HIDE DEF F
      <3>2. form[i] \in F  BY <3>1
      <3> QED  BY <3>2 DEF F
    <2> QED  BY <2>1, <2>2
  <1>4. ASSUME NEW i \in DOMAIN form PROVE Builder!At(form[i].key) = i  BY <1>2 DEF Builder!At
  <1>5. ASSUME NEW key, Builder!Shown(key) PROVE Builder!At(key) \in DOMAIN form /\ form[Builder!At(key)].key = key
    BY <1>5 DEF Builder!Shown, Builder!At
  <1> QED  BY <1>1, <1>2, <1>3, <1>4, <1>5 DEF Builder!Shown

\* The fields of a page stay sound where no key is taken twice.
LEMMA BuilderFields ==
  ASSUME Builder!Inv, form' \in Seq([key: Builder!Keys, label: Builder!Labels, kind: Builder!Kinds]), asked' \in 1 .. MaxFields + 1,
         held' \in Builder!Keys \cup {None}, known' \in BOOLEAN, UNCHANGED <<server, past, out>>,
         \A i \in DOMAIN form' : form'[i].key < asked',
         \A i, j \in DOMAIN form' : form'[i].key = form'[j].key => i = j
  PROVE  Builder!TypeOK' /\ Builder!KeysInv' /\ Builder!SentInv'
  <1>1. Builder!IsInjective([i \in DOMAIN form' |-> form'[i].key])  BY DEF Builder!IsInjective
  <1>0. Builder!SentInv' BY DEF Builder!Inv, Builder!SentInv, Builder!Named, Builder!Range
  <1>2. past' \in {"open", "left"} /\ \A i \in DOMAIN server' : \A j \in DOMAIN server'[i] : Builder!Named(server'[i][j]) /\ server'[i][j].kind # "bare"
    BY DEF Builder!Inv, Builder!TypeOK
  <1>3. Builder!TypeOK'  BY <1>1, <1>2 DEF Builder!TypeOK, Builder!Named
  <1> QED  BY <1>0, <1>3 DEF Builder!KeysInv

\* A move takes no field away and none along: who was at a place is at the place it has gone to.
LEMMA BuilderMoved ==
  ASSUME Builder!Inv, NEW from \in DOMAIN form, NEW to \in DOMAIN form, form' = Builder!Move(from, to),
         UNCHANGED <<asked, held, known, server, past, out>>
  PROVE  /\ Builder!TypeOK' /\ Builder!KeysInv' /\ Builder!SentInv'
         /\ DOMAIN form' = DOMAIN form /\ Builder!Range(form') = Builder!Range(form)
         /\ \A k \in DOMAIN form : Gone(from, to, k) \in DOMAIN form /\ form'[Gone(from, to, k)] = form[k]
         /\ \A k \in DOMAIN form, key \in Builder!Keys : form[k].key = key => Builder!At(key)' = Gone(from, to, k)
         /\ \A key : Builder!Shown(key) => Builder!Shown(key)'
  <1> DEFINE F == [key: Builder!Keys, label: Builder!Labels, kind: Builder!Kinds]
             n == Len(form)
  <1>1. form \in Seq(F) /\ asked \in 1 .. MaxFields + 1  BY BuilderKeys
  <1>2. DOMAIN form = 1 .. n /\ n \in Nat /\ from \in 1 .. n /\ to \in 1 .. n  BY <1>1
  <1>3. form' \in Seq(F) /\ DOMAIN form' = DOMAIN form /\ \A i \in DOMAIN form : form'[i] = form[Came(from, to, i)]
    BY <1>1, BuilderMove
  <1> HIDE DEF F, n
  <1>4. /\ \A i \in 1 .. n : Came(from, to, i) \in 1 .. n /\ Gone(from, to, Came(from, to, i)) = i
        /\ \A k \in 1 .. n : Gone(from, to, k) \in 1 .. n /\ Came(from, to, Gone(from, to, k)) = k
    BY <1>2, BuilderPlaces
  <1>5. \A k \in DOMAIN form : Gone(from, to, k) \in DOMAIN form /\ form'[Gone(from, to, k)] = form[k]
    BY <1>2, <1>3, <1>4
  <1>6. \A i, j \in DOMAIN form' : form'[i].key = form'[j].key => i = j
    <2> SUFFICES ASSUME NEW i \in 1 .. n, NEW j \in 1 .. n, form'[i].key = form'[j].key PROVE i = j
      BY <1>2, <1>3
    <2>1. form[Came(from, to, i)].key = form[Came(from, to, j)].key  BY <1>2, <1>3
    <2>2. Came(from, to, i) = Came(from, to, j)  BY <1>2, <1>4, <2>1, BuilderKeys
    <2> QED  BY <1>4, <2>2
  <1>7. \A i \in DOMAIN form' : form'[i].key < asked  BY <1>2, <1>3, <1>4, BuilderKeys
  <1>8. held \in Builder!Keys \cup {None} /\ known \in BOOLEAN  BY DEF Builder!Inv, Builder!TypeOK
  <1>9. Builder!TypeOK' /\ Builder!KeysInv' /\ Builder!SentInv'  BY <1>1, <1>3, <1>6, <1>7, <1>8, BuilderFields DEF F
  <1>10. Builder!Range(form') = Builder!Range(form)
    <2>1. \A f : f \in Builder!Range(form') <=> \E i \in DOMAIN form : f = form'[i]  BY <1>3 DEF Builder!Range
    <2>2. \A f : f \in Builder!Range(form) <=> \E i \in DOMAIN form : f = form[i]  BY DEF Builder!Range
    <2>3. \A i \in DOMAIN form : form'[i] \in Builder!Range(form)  BY <1>2, <1>3, <1>4, <2>2
    <2>4. \A i \in DOMAIN form : form[i] \in Builder!Range(form')  BY <1>2, <1>5, <2>1
    <2> QED  BY <2>1, <2>2, <2>3, <2>4
  <1>11. \A k \in DOMAIN form, key \in Builder!Keys : form[k].key = key => Builder!At(key)' = Gone(from, to, k)
    <2> SUFFICES ASSUME NEW k \in DOMAIN form, NEW key \in Builder!Keys, form[k].key = key
                 PROVE  (CHOOSE i \in DOMAIN form' : form'[i].key = key) = Gone(from, to, k)
      BY DEF Builder!At
    <2>1. Gone(from, to, k) \in DOMAIN form' /\ form'[Gone(from, to, k)].key = key  BY <1>3, <1>5
    <2>2. \A i \in DOMAIN form' : form'[i].key = key => i = Gone(from, to, k)  BY <1>6, <2>1
    <2> QED  BY <2>1, <2>2
  <1>12. \A key : Builder!Shown(key) => Builder!Shown(key)'
    BY <1>3, <1>5 DEF Builder!Shown
  <1> QED  BY <1>3, <1>5, <1>9, <1>10, <1>11, <1>12

LEMMA BuilderInit == ASSUME Builder!Init PROVE Builder!Inv
  <1>1. /\ form = <<>> /\ asked = 1 /\ held = None /\ way = None /\ known = FALSE
        /\ out = None /\ server = <<>> /\ past = "open"
    BY DEF Builder!Init
  <1>2. form \in Seq([key: Builder!Keys, label: Builder!Labels, kind: Builder!Kinds]) /\ DOMAIN form = {} /\ DOMAIN server = {}  BY <1>1
  <1>3. asked \in 1 .. MaxFields + 1  BY <1>1, BuilderAssumed DEF Builder!BuilderAssumption
  <1>4. Builder!TypeOK  BY <1>1, <1>2, <1>3 DEF Builder!TypeOK, Builder!IsInjective
  <1> QED  BY <1>1, <1>2, <1>4 DEF Builder!Inv, Builder!KeysInv, Builder!OverInv, Builder!SentInv, Builder!Range, Builder!LandsWherePointed

\* Where a field is held over another, it is put next to it on the side of the pointer.
LEMMA BuilderLands ==
  ASSUME NEW n \in Nat, NEW from \in 1 .. n, NEW to \in 1 .. n, from # to, NEW after \in BOOLEAN
  PROVE  /\ Builder!Place(from, to, after) \in 1 .. n
         /\ Gone(from, Builder!Place(from, to, after), from) =
              IF after THEN Gone(from, Builder!Place(from, to, after), to) + 1 ELSE Gone(from, Builder!Place(from, to, after), to) - 1
  BY DEF Builder!Place, Gone, Came

\* Every step keeps the page sound.
LEMMA BuilderStep ==
  ASSUME Builder!Inv, [Builder!Next]_(Builder!vars)
  PROVE  Builder!Inv'
  <1> DEFINE F == [key: Builder!Keys, label: Builder!Labels, kind: Builder!Kinds]
  <1>k. /\ form \in Seq(F) /\ asked \in 1 .. MaxFields + 1
        /\ \A i \in DOMAIN form : form[i] \in F /\ form[i].key < asked /\ Builder!At(form[i].key) = i
        /\ \A i, j \in DOMAIN form : form[i].key = form[j].key => i = j
        /\ \A key : Builder!Shown(key) => Builder!At(key) \in DOMAIN form /\ form[Builder!At(key)].key = key
    BY BuilderKeys
  <1> HIDE DEF F
  <1>t. held \in Builder!Keys \cup {None} /\ known \in BOOLEAN /\ Builder!OverInv /\ Builder!SentInv /\ Builder!LandsWherePointed
    BY DEF Builder!Inv, Builder!TypeOK
  <1>n. MaxFields \in Nat  BY BuilderAssumed DEF Builder!BuilderAssumption
  \* Where the fields stay as they are, and where the pointer was is forgotten.
  <1>forgets. ASSUME way' = None PROVE Builder!OverInv' /\ Builder!LandsWherePointed'  BY <1>forgets DEF Builder!OverInv, Builder!LandsWherePointed
  <1>1. CASE Builder!AddField
    <2>1. /\ asked \in Builder!Keys /\ asked' = asked + 1 /\ form' = Append(form, Builder!FieldOf(asked, "", "text")) /\ way' = None
          /\ UNCHANGED <<held, known, server, past, out>>
      BY <1>1 DEF Builder!AddField, Builder!request
    <2> DEFINE f == Builder!FieldOf(asked, "", "text")
    <2>2. f \in F /\ f.key = asked  BY <2>1 DEF Builder!FieldOf, Builder!Labels, Builder!Kinds, F
    <2>3. form' = Append(form, f)  BY <2>1
    <2> HIDE DEF f
    <2>4. /\ form' \in Seq(F) /\ DOMAIN form' = DOMAIN form \cup {Len(form) + 1} /\ Len(form) + 1 \notin DOMAIN form
          /\ form'[Len(form) + 1] = f /\ \A i \in DOMAIN form : form'[i] = form[i]
      <3>1. form' \in Seq(F) /\ Len(form') = Len(form) + 1  BY <1>k, <2>2, <2>3
      <3>2. form'[Len(form) + 1] = f /\ \A i \in 1 .. Len(form) : form'[i] = form[i]  BY <1>k, <2>2, <2>3, AppendProperties
      <3>3. Len(form) \in Nat /\ DOMAIN form = 1 .. Len(form) /\ DOMAIN form' = 1 .. Len(form')  BY <1>k, <3>1
      <3> QED  BY <3>1, <3>2, <3>3
    <2>5. /\ asked \in Nat /\ asked' \in 1 .. MaxFields + 1 /\ asked' = asked + 1
          /\ \A i \in DOMAIN form : form[i].key \in Nat /\ form[i].key < asked
      <3> HIDE DEF f
      <3>1. asked \in 1 .. MaxFields /\ asked' = asked + 1  BY <2>1 DEF Builder!Keys
      <3>2. \A i \in DOMAIN form : form[i].key \in Builder!Keys  BY <1>k DEF F
      <3> QED  BY <1>k, <1>n, <3>1, <3>2 DEF Builder!Keys
    <2>6. \A i \in DOMAIN form' : form'[i].key < asked'  BY <2>2, <2>4, <2>5
    <2>7. \A i, j \in DOMAIN form' : form'[i].key = form'[j].key => i = j  BY <1>k, <2>2, <2>4, <2>5
    <2>8. Builder!TypeOK' /\ Builder!KeysInv' /\ Builder!SentInv'  BY <1>t, <2>1, <2>4, <2>5, <2>6, <2>7, BuilderFields DEF F
    <2> QED  BY <1>forgets, <2>1, <2>8 DEF Builder!Inv
  <1>2. CASE Builder!RemoveField
    <2>1. PICK p \in DOMAIN form : form' = Builder!Without(p)  BY <1>2 DEF Builder!RemoveField
    <2>2. way' = None /\ UNCHANGED <<asked, held, known, server, past, out>>  BY <1>2 DEF Builder!RemoveField, Builder!request
    <2>3. /\ form' \in Seq(F) /\ DOMAIN form' = 1 .. Len(form) - 1
          /\ \A i \in 1 .. Len(form) - 1 : form'[i] = IF i < p THEN form[i] ELSE form[i + 1]
      BY <1>k, <2>1, BuilderRest
    <2>4. \A i \in DOMAIN form' : \E k \in DOMAIN form : form'[i] = form[k] /\ k = IF i < p THEN i ELSE i + 1
      BY <1>k, <2>3
    <2>5. \A i \in DOMAIN form' : form'[i].key < asked  BY <1>k, <2>4
    <2>6. \A i, j \in DOMAIN form' : form'[i].key = form'[j].key => i = j
      <3> SUFFICES ASSUME NEW i \in DOMAIN form', NEW j \in DOMAIN form', form'[i].key = form'[j].key PROVE i = j
        OBVIOUS
      <3>1. PICK k \in DOMAIN form : form'[i] = form[k] /\ k = IF i < p THEN i ELSE i + 1  BY <2>4
      <3>2. PICK l \in DOMAIN form : form'[j] = form[l] /\ l = IF j < p THEN j ELSE j + 1  BY <2>4
      <3>3. k = l  BY <1>k, <3>1, <3>2
      <3>4. i \in Nat /\ j \in Nat /\ p \in Nat  BY <1>k, <2>3
      <3> QED  BY <3>1, <3>2, <3>3, <3>4
    <2>7. Builder!TypeOK' /\ Builder!KeysInv' /\ Builder!SentInv'  BY <1>k, <1>t, <2>2, <2>3, <2>5, <2>6, BuilderFields DEF F
    <2> QED  BY <1>forgets, <2>2, <2>7 DEF Builder!Inv
  <1>3. CASE Builder!Update
    <2>1. PICK p \in DOMAIN form, f \in [label: Builder!Labels, kind: Builder!Kinds] :
            form' = [form EXCEPT ![p].label = f.label, ![p].kind = f.kind]
      BY <1>3 DEF Builder!Update
    <2>2. UNCHANGED <<asked, held, way, known, server, past, out>>  BY <1>3 DEF Builder!Update, Builder!request
    <2>3. form[p] \in F /\ f.label \in Builder!Labels /\ f.kind \in Builder!Kinds  BY <1>k
    <2> DEFINE g == [[form[p] EXCEPT !.label = f.label] EXCEPT !.kind = f.kind]
    <2>4. g \in F /\ g.key = form[p].key  BY <2>3 DEF F
    <2>5. form' = [form EXCEPT ![p] = g]  BY <1>k, <2>1
    <2> HIDE DEF g
    <2>6. form' \in Seq(F) /\ DOMAIN form' = DOMAIN form /\ \A i \in DOMAIN form : form'[i] = IF i = p THEN g ELSE form[i]
      BY <1>k, <2>4, <2>5, ExceptSeq
    <2>7. \A i \in DOMAIN form : form'[i].key = form[i].key  BY <2>4, <2>6
    <2>8. Builder!TypeOK' /\ Builder!KeysInv' /\ Builder!SentInv'
      <3>1. \A i \in DOMAIN form' : form'[i].key < asked  BY <1>k, <2>6, <2>7
      <3>2. \A i, j \in DOMAIN form' : form'[i].key = form'[j].key => i = j  BY <1>k, <2>6, <2>7
      <3> QED  BY <1>k, <1>t, <2>2, <2>6, <3>1, <3>2, BuilderFields DEF F
    <2>9. \A key : (Builder!Shown(key)' <=> Builder!Shown(key)) /\ Builder!At(key)' = Builder!At(key)
      <3> TAKE key
      <3>1. \A i : (i \in DOMAIN form' /\ form'[i].key = key) <=> (i \in DOMAIN form /\ form[i].key = key)  BY <2>6, <2>7
      <3> QED  BY <3>1 DEF Builder!Shown, Builder!At
    <2> QED  BY <1>t, <2>2, <2>8, <2>9 DEF Builder!Inv, Builder!OverInv, Builder!LandsWherePointed
  \* Where a field is held over another.
  <1>4. CASE Builder!DragOver
    <2>1. PICK to \in DOMAIN form, after \in BOOLEAN :
            /\ form[to].key # held
            /\ way' = IF Builder!Shown(held) THEN [key |-> form[to].key, after |-> after] ELSE None
            /\ form' = IF Builder!Shown(held) THEN Builder!Move(Builder!At(held), Builder!Place(Builder!At(held), to, after)) ELSE form
      BY <1>4 DEF Builder!DragOver
    <2>2. held # None /\ UNCHANGED <<asked, held, known, server, past, out>>  BY <1>4 DEF Builder!DragOver, Builder!request
    <2>3. CASE ~Builder!Shown(held)
      <3>1. way' = None /\ form' = form  BY <2>1, <2>3
      <3>2. Builder!TypeOK' /\ Builder!KeysInv' /\ Builder!SentInv'  BY <1>k, <1>t, <2>2, <3>1, BuilderFields DEF F
      <3> QED  BY <1>forgets, <3>1, <3>2 DEF Builder!Inv
    <2>4. CASE Builder!Shown(held)
      <3> DEFINE from == Builder!At(held)
                 place == Builder!Place(from, to, after)
      <3>1. from \in DOMAIN form /\ form[from].key = held /\ from # to  BY <1>k, <2>1, <2>4
      <3>2. DOMAIN form = 1 .. Len(form) /\ Len(form) \in Nat  BY <1>k
      <3>3. way' = [key |-> form[to].key, after |-> after] /\ form' = Builder!Move(from, place)  BY <2>1, <2>4
      <3> HIDE DEF from
      <3>4. /\ place \in DOMAIN form
            /\ Gone(from, place, from) = IF after THEN Gone(from, place, to) + 1 ELSE Gone(from, place, to) - 1
        BY <3>1, <3>2, BuilderLands
      <3> HIDE DEF place
      <3>5. /\ Builder!TypeOK' /\ Builder!KeysInv' /\ Builder!SentInv'
            /\ \A k \in DOMAIN form, key \in Builder!Keys : form[k].key = key => Builder!At(key)' = Gone(from, place, k)
            /\ \A key : Builder!Shown(key) => Builder!Shown(key)'
        BY <2>2, <3>1, <3>3, <3>4, BuilderMoved
      <3>6. Builder!Shown(form[to].key) /\ form[to].key \in Builder!Keys /\ held \in Builder!Keys
        <4>1. form[to] \in F /\ form[from] \in F  BY <1>k, <3>1
        <4> QED  BY <3>1, <4>1 DEF Builder!Shown, F
      <3>7. Builder!OverInv'
        <4>1. way'.key = form[to].key  BY <3>3
        <4>2. held' # None /\ way'.key # held'  BY <2>1, <2>2, <4>1
        <4>3. Builder!Shown(held)'  BY <2>2, <2>4, <3>5
        <4>4. Builder!Shown(way.key)'
          <5> DEFINE key == form[to].key
          <5>1. Builder!Shown(key)  BY <3>6
          <5> QED  BY <3>5, <4>1, <5>1 DEF Builder!Shown
        <4> QED  BY <4>2, <4>3, <4>4 DEF Builder!OverInv
      <3>8. Builder!LandsWherePointed'
        <4> SUFFICES Builder!At(held)' = IF way'.after THEN Builder!At(way.key)' + 1 ELSE Builder!At(way.key)' - 1
          BY DEF Builder!LandsWherePointed
        <4>1. way'.key = form[to].key /\ way'.after = after /\ held' = held  BY <2>2, <3>3
        <4>2. \A key : Builder!At(key)' = CHOOSE i \in DOMAIN form' : form'[i].key = key  BY DEF Builder!At
        <4>3. Builder!At(held)' = Gone(from, place, from)
          <5> DEFINE key == form[from].key
          <5> HIDE DEF key
          <5>1. (CHOOSE i \in DOMAIN form' : form'[i].key = held) = Gone(from, place, from)
            BY <3>1, <3>5, <3>6, <4>2
          <5> QED  BY <4>1, <5>1 DEF Builder!At
        <4>4. Builder!At(way.key)' = Gone(from, place, to)
          <5>1. (CHOOSE i \in DOMAIN form' : form'[i].key = form[to].key) = Gone(from, place, to)
            BY <3>5, <3>6, <4>2
          <5> QED  BY <4>1, <5>1 DEF Builder!At
        <4> QED  BY <3>4, <4>1, <4>3, <4>4
      <3> QED  BY <3>5, <3>7, <3>8 DEF Builder!Inv
    <2> QED  BY <2>3, <2>4
  <1>5. CASE Builder!MoveField
    <2>1. PICK from \in DOMAIN form, to \in DOMAIN form : form' = Builder!Move(from, to)  BY <1>5 DEF Builder!MoveField
    <2>2. way' = None /\ UNCHANGED <<asked, held, known, server, past, out>>  BY <1>5 DEF Builder!MoveField, Builder!request
    <2>3. Builder!TypeOK' /\ Builder!KeysInv' /\ Builder!SentInv'  BY <2>1, <2>2, BuilderMoved
    <2> QED  BY <1>forgets, <2>2, <2>3 DEF Builder!Inv
  \* Where the fields stay as they are.
  <1>6. CASE Builder!Complete \/ Builder!Grab \/ Builder!LetGo
    <2>1. UNCHANGED <<form, asked, server, past, out>> /\ known' \in BOOLEAN
      BY <1>t, <1>6 DEF Builder!Complete, Builder!Grab, Builder!LetGo, Builder!request
    <2>2. held' \in Builder!Keys \cup {None}
      <3>1. \A i \in DOMAIN form : form[i].key \in Builder!Keys  BY <1>k DEF F
      <3> QED  BY <1>t, <1>6, <3>1 DEF Builder!Complete, Builder!Grab, Builder!LetGo
    <2>3. Builder!TypeOK' /\ Builder!KeysInv' /\ Builder!SentInv'  BY <1>k, <2>1, <2>2, BuilderFields DEF F
    <2>4. way' = None \/ (way' = way /\ held' = held)  BY <1>6 DEF Builder!Complete, Builder!Grab, Builder!LetGo
    <2>5. Builder!OverInv' /\ Builder!LandsWherePointed'
      <3>1. CASE way' = way /\ held' = held  BY <1>t, <2>1, <3>1 DEF Builder!OverInv, Builder!LandsWherePointed, Builder!Shown, Builder!At
      <3> QED  BY <1>forgets, <2>4, <3>1
    <2> QED  BY <2>3, <2>5 DEF Builder!Inv
  <1>7. CASE Builder!Publish \/ Builder!Serve \/ Builder!Arrive \/ Builder!Lose
    <2>1. UNCHANGED <<form, asked, held, way, known>>  BY <1>7 DEF Builder!Publish, Builder!Serve, Builder!Arrive, Builder!Lose
    <2>2. Builder!SentInv' /\ past' \in {"open", "left"}
          /\ \A i \in DOMAIN server' : \A j \in DOMAIN server'[i] : Builder!Named(server'[i][j]) /\ server'[i][j].kind # "bare"
      <3>0. past \in {"open", "left"} /\ \A i \in DOMAIN server : \A j \in DOMAIN server[i] : Builder!Named(server[i][j]) /\ server[i][j].kind # "bare"
        BY DEF Builder!Inv, Builder!TypeOK
      <3>1. CASE Builder!Publish
        <4> DEFINE named == {i \in DOMAIN form : Builder!Named(form[i])}
        <4>1. /\ \A i \in named : form[i].kind # "bare"
              /\ out' = [step |-> "sent", fields |-> [i \in named |-> form[i]]] /\ UNCHANGED <<server, past>>
          BY <3>1 DEF Builder!Publish
        <4>2. out'.fields = [i \in named |-> form[i]]  BY <4>1
        <4> QED  BY <1>t, <3>0, <4>1, <4>2 DEF Builder!SentInv, Builder!Named, Builder!Range
      <3>2. CASE Builder!Serve
        <4>1. /\ out # None /\ past' = past
              /\ \/ server' = Append(server, out.fields) /\ out' = [out EXCEPT !.step = "done"]
                 \/ server' = server /\ out' = [out EXCEPT !.step = "refused"]
          BY <3>2 DEF Builder!Serve
        <4>2. out' = [out EXCEPT !.step = "done"] \/ out' = [out EXCEPT !.step = "refused"]  BY <4>1
        <4>3. out'.fields = out.fields /\ out' = [step |-> out'.step, fields |-> out'.fields]
          <5>1. out = [step |-> out.step, fields |-> out.fields]  BY <1>t, <4>1 DEF Builder!SentInv
          <5>2. \A x : [out EXCEPT !.step = x] = [step |-> x, fields |-> out.fields]  BY <5>1
          <5>3. PICK x \in {"done", "refused"} : out' = [step |-> x, fields |-> out.fields]  BY <4>2, <5>2
          <5> QED  BY <5>3
        <4>4. \A i \in DOMAIN out.fields : Builder!Named(out.fields[i]) /\ out.fields[i].kind # "bare"  BY <1>t, <4>1 DEF Builder!SentInv
        <4>5. CASE server' = server
          <5>1. server' \in Seq(Builder!Range(server'))  BY <1>t, <4>5 DEF Builder!SentInv, Builder!Range
          <5>2. Builder!SentInv'  BY <4>3, <4>4, <5>1 DEF Builder!SentInv, Builder!Named
          <5> QED  BY <3>0, <4>1, <4>5, <5>2
        <4>6. CASE server' = Append(server, out.fields)
          <5> DEFINE S == Builder!Range(server)
                     T == S \cup {out.fields}
          <5>1. server \in Seq(S)  BY <1>t DEF Builder!SentInv
          <5>2. S \subseteq T /\ out.fields \in T  OBVIOUS
          <5>3. S = {server[i] : i \in DOMAIN server}  BY DEF Builder!Range
          <5> HIDE DEF S, T
          <5>4. server \in Seq(T)  BY <5>1, <5>2
          <5>5. /\ server' \in Seq(T) /\ DOMAIN server' = DOMAIN server \cup {Len(server) + 1}
                /\ server'[Len(server) + 1] = out.fields /\ \A i \in DOMAIN server : server'[i] = server[i]
            <6>1. server' \in Seq(T) /\ Len(server') = Len(server) + 1  BY <4>6, <5>2, <5>4
            <6>2. server'[Len(server) + 1] = out.fields /\ \A i \in 1 .. Len(server) : server'[i] = server[i]
              BY <4>6, <5>2, <5>4, AppendProperties
            <6>3. Len(server) \in Nat /\ DOMAIN server = 1 .. Len(server) /\ DOMAIN server' = 1 .. Len(server')  BY <5>4, <6>1
            <6> QED  BY <6>1, <6>2, <6>3
          <5>6. {server'[i] : i \in DOMAIN server'} = T  BY <5>3, <5>5 DEF T
          <5>7. server' \in Seq(Builder!Range(server'))  BY <5>5, <5>6 DEF Builder!Range
          <5>8. Builder!SentInv'  BY <4>3, <4>4, <5>7 DEF Builder!SentInv, Builder!Named
          <5> QED  BY <3>0, <4>1, <4>4, <5>5, <5>8
        <4> QED  BY <4>1, <4>5, <4>6
      <3>3. CASE Builder!Arrive \/ Builder!Lose
        BY <1>t, <3>0, <3>3 DEF Builder!Arrive, Builder!Lose, Builder!SentInv, Builder!Range
      <3> QED  BY <1>7, <3>1, <3>2, <3>3
    <2>3. Builder!TypeOK'  BY <1>k, <2>1, <2>2 DEF Builder!TypeOK, Builder!Inv
    <2> QED  BY <1>t, <2>1, <2>2, <2>3 DEF Builder!Inv, Builder!KeysInv, Builder!OverInv, Builder!LandsWherePointed, Builder!Shown, Builder!At
  <1>8. CASE UNCHANGED Builder!vars
    BY <1>8 DEF Builder!vars, Builder!Inv, Builder!TypeOK, Builder!KeysInv, Builder!OverInv, Builder!SentInv, Builder!Range, Builder!LandsWherePointed, Builder!Shown, Builder!At, Builder!Named
  <1> QED  BY <1>1, <1>2, <1>3, <1>4, <1>5, <1>6, <1>7, <1>8 DEF Builder!Next

\* A move is of one field.
LEMMA BuilderMovesOne ==
  ASSUME Builder!Inv, NEW from \in DOMAIN form, NEW to \in DOMAIN form, form' = Builder!Move(from, to),
         UNCHANGED <<asked, held, known, server, past, out>>
  PROVE  Builder!MovesOne
  <1>1. /\ Builder!Range(form') = Builder!Range(form) /\ DOMAIN form' = DOMAIN form
        /\ \A k \in DOMAIN form : Gone(from, to, k) \in DOMAIN form /\ form'[Gone(from, to, k)] = form[k]
    BY BuilderMoved
  <1>2. DOMAIN form = 1 .. Len(form) /\ Len(form) \in Nat  BY BuilderKeys
  <1>3. \A i, j \in DOMAIN form : i < j /\ i # from /\ j # from => Gone(from, to, i) < Gone(from, to, j)
    BY <1>2, BuilderPlaces
  <1> DEFINE key == form[from].key
  <1>4. key \in Builder!Keys  BY BuilderKeys
  <1>5. ASSUME NEW a \in Builder!Keys \ {key}, NEW b \in Builder!Keys \ {key}, Builder!Before(a, b) PROVE Builder!Before(a, b)'
    <2>1. PICK i \in DOMAIN form, j \in DOMAIN form : i < j /\ form[i].key = a /\ form[j].key = b
      BY <1>5 DEF Builder!Before
    <2>2. i # from /\ j # from  BY <1>5, <2>1
    <2>3. /\ Gone(from, to, i) \in DOMAIN form' /\ Gone(from, to, j) \in DOMAIN form'
          /\ form'[Gone(from, to, i)].key = a /\ form'[Gone(from, to, j)].key = b
      BY <1>1, <2>1
    <2>4. Gone(from, to, i) < Gone(from, to, j)  BY <1>3, <2>1, <2>2
    <2> QED  BY <2>3, <2>4 DEF Builder!Before
  <1> HIDE DEF key
  <1>6. \E k \in Builder!Keys : \A a, b \in Builder!Keys \ {k} : Builder!Before(a, b) => Builder!Before(a, b)'  BY <1>4, <1>5
  <1> QED  BY <1>1, <1>6 DEF Builder!MovesOne

\* What changes the order without a move gives or takes a key.
LEMMA BuilderOrders ==
  ASSUME Builder!Inv, [Builder!Next]_(Builder!vars)
  PROVE  Builder!MovesOne
  <1>k. /\ form \in Seq([key: Builder!Keys, label: Builder!Labels, kind: Builder!Kinds])
        /\ \A i \in DOMAIN form : form[i].key < asked /\ form[i].key \in Builder!Keys
        /\ \A i, j \in DOMAIN form : form[i].key = form[j].key => i = j
        /\ \A key : Builder!Shown(key) => Builder!At(key) \in DOMAIN form /\ form[Builder!At(key)].key = key
    BY BuilderKeys
  <1>l. DOMAIN form = 1 .. Len(form) /\ Len(form) \in Nat  BY <1>k
  <1>o. /\ Builder!Range(Builder!Order) = {form[i].key : i \in DOMAIN form}
        /\ Builder!Range(Builder!Order)' = {form'[i].key : i \in DOMAIN form'}
    BY DEF Builder!Range, Builder!Order
  <1>same. ASSUME Builder!Order' = Builder!Order PROVE Builder!MovesOne  BY <1>same DEF Builder!MovesOne
  <1>1. CASE Builder!AddField
    <2>1. asked \in Builder!Keys /\ form' = Append(form, Builder!FieldOf(asked, "", "text"))  BY <1>1 DEF Builder!AddField
    <2> DEFINE f == Builder!FieldOf(asked, "", "text")
    <2>2. f.key = asked  BY DEF Builder!FieldOf
    <2>3. f \in {f} \cup [key: Builder!Keys, label: Builder!Labels, kind: Builder!Kinds]  OBVIOUS
    <2> HIDE DEF f
    <2>4. Len(form) + 1 \in DOMAIN form' /\ form'[Len(form) + 1] = f
      <3> DEFINE S == [key: Builder!Keys, label: Builder!Labels, kind: Builder!Kinds]
                 T == {f} \cup S
      <3>1. form \in Seq(S) /\ form' = Append(form, f)  BY <1>k, <2>1 DEF f
      <3> HIDE DEF S
      <3>2. form \in Seq(T) /\ f \in T  BY <3>1
      <3> HIDE DEF T
      <3>3. Len(form') = Len(form) + 1 /\ form' \in Seq(T)  BY <3>1, <3>2, AppendProperties
      <3>4. form'[Len(form) + 1] = f  BY <3>1, <3>2, AppendProperties
      <3> QED  BY <1>l, <3>3, <3>4
    <2>5. asked \in Builder!Range(Builder!Order)'  BY <1>o, <2>2, <2>4
    <2>6. asked \notin Builder!Range(Builder!Order)
      <3>1. ASSUME NEW i \in DOMAIN form PROVE form[i].key # asked
        <4>1. form[i].key \in Builder!Keys /\ form[i].key < asked  BY <1>k
        <4>2. ~(asked < asked)
          <5>1. MaxFields \in Nat /\ asked \in 1 .. MaxFields  BY <2>1, BuilderAssumed DEF Builder!BuilderAssumption, Builder!Keys
          <5> QED  BY <5>1
        <4> QED  BY <4>1, <4>2
      <3> QED  BY <1>o, <3>1
    <2> QED  BY <2>5, <2>6 DEF Builder!MovesOne
  <1>2. CASE Builder!RemoveField
    <2>1. PICK p \in DOMAIN form : form' = Builder!Without(p)  BY <1>2 DEF Builder!RemoveField
    <2>2. /\ DOMAIN form' = 1 .. Len(form) - 1
          /\ \A i \in 1 .. Len(form) - 1 : form'[i] = IF i < p THEN form[i] ELSE form[i + 1]
      <3> DEFINE F == [key: Builder!Keys, label: Builder!Labels, kind: Builder!Kinds]
      <3>1. form \in Seq(F)  BY <1>k
      <3> HIDE DEF F
      <3>2. form' \in Seq(F) /\ Len(form') = Len(form) - 1  BY <2>1, <3>1, BuilderRest
      <3>3. \A i \in 1 .. Len(form) - 1 : form'[i] = IF i < p THEN form[i] ELSE form[i + 1]
        BY <2>1, <3>1, BuilderRest
      <3> QED  BY <3>2, <3>3
    <2>3. \A i \in DOMAIN form' : \E k \in DOMAIN form : form'[i] = form[k] /\ k # p
      BY <1>l, <2>2
    <2>4. form[p].key \in Builder!Range(Builder!Order)  BY <1>o
    <2>5. \A i \in DOMAIN form' : form'[i].key # form[p].key  BY <1>k, <2>3
    <2>6. form[p].key \notin {form'[i].key : i \in DOMAIN form'}  BY <2>5
    <2>7. Builder!Range(Builder!Order') # Builder!Range(Builder!Order)  BY <1>o, <2>4, <2>6 DEF Builder!Range
    <2> QED  BY <2>7 DEF Builder!MovesOne
  <1>3. CASE Builder!Update
    <2>1. PICK p \in DOMAIN form, f \in [label: Builder!Labels, kind: Builder!Kinds] :
            form' = [form EXCEPT ![p].label = f.label, ![p].kind = f.kind]
      BY <1>3 DEF Builder!Update
    <2>2. DOMAIN form' = DOMAIN form /\ \A i \in DOMAIN form : form'[i].key = form[i].key
      <3>1. form[p] \in [key: Builder!Keys, label: Builder!Labels, kind: Builder!Kinds]  BY BuilderKeys
      <3>2. [[form[p] EXCEPT !.label = f.label] EXCEPT !.kind = f.kind].key = form[p].key  BY <3>1
      <3>3. form' = [form EXCEPT ![p] = [[form[p] EXCEPT !.label = f.label] EXCEPT !.kind = f.kind]]
        BY <1>k, <2>1
      <3> QED  BY <3>2, <3>3
    <2> QED  BY <1>same, <2>2 DEF Builder!Order
  <1>4. CASE Builder!DragOver
    <2>1. PICK to \in DOMAIN form, after \in BOOLEAN :
            /\ form[to].key # held
            /\ form' = IF Builder!Shown(held) THEN Builder!Move(Builder!At(held), Builder!Place(Builder!At(held), to, after)) ELSE form
      BY <1>4 DEF Builder!DragOver
    <2>2. UNCHANGED <<asked, held, known, server, past, out>>  BY <1>4 DEF Builder!DragOver, Builder!request
    <2>3. CASE ~Builder!Shown(held)
      <3>1. form' = form  BY <2>1, <2>3
      <3> QED  BY <1>same, <3>1 DEF Builder!Order
    <2>4. CASE Builder!Shown(held)
      <3> DEFINE from == Builder!At(held)
      <3>1. from \in DOMAIN form /\ from # to  BY <1>k, <2>1, <2>4
      <3>2. form' = Builder!Move(from, Builder!Place(from, to, after))  BY <2>1, <2>4
      <3> HIDE DEF from
      <3>3. Builder!Place(from, to, after) \in DOMAIN form  BY <1>l, <3>1, BuilderLands
      <3> QED  BY <2>2, <3>1, <3>2, <3>3, BuilderMovesOne
    <2> QED  BY <2>3, <2>4
  <1>5. CASE Builder!MoveField
    <2>1. PICK from \in DOMAIN form, to \in DOMAIN form : form' = Builder!Move(from, to)  BY <1>5 DEF Builder!MoveField
    <2> QED  BY <1>5, <2>1, BuilderMovesOne DEF Builder!MoveField, Builder!request
  <1>6. CASE UNCHANGED form  BY <1>same, <1>6 DEF Builder!Order
  <1> QED  BY <1>1, <1>2, <1>3, <1>4, <1>5, <1>6
           DEF Builder!Next, Builder!vars, Builder!request, Builder!Complete, Builder!Grab, Builder!LetGo, Builder!Publish, Builder!Serve, Builder!Arrive, Builder!Lose

\* The fields are where they have been put, in every reachable state of the page that makes an activity.
THEOREM BuilderIsSound == Spec => [](page = "builder" => Builder!Inv)
  <1>1. Init => (page = "builder" => Builder!Inv)  BY BuilderInit DEF Init
  <1>2. (page = "builder" => Builder!Inv) /\ [Next]_vars => (page = "builder" => Builder!Inv)'
    <2> SUFFICES ASSUME page = "builder", Builder!Inv, [Next]_vars PROVE Builder!Inv'  BY PageStays
    <2>1. [Builder!Next]_(Builder!vars)  BY DEF Next, vars, Builder!vars
    <2> QED  BY <2>1, BuilderStep
  <1> QED  BY <1>1, <1>2, PTL DEF Spec

\* A field that is dragged lands where the pointer is, and no step moves more than one field, for any
\* number of fields, changes and requests.
THEOREM FieldsAreWherePut == Spec => FieldsStay
  <1>1. (page = "builder" => Builder!Inv) => (page = "builder" => Builder!TypeOK /\ Builder!LandsWherePointed)
    BY DEF Builder!Inv
  <1>2. (page = "builder" => Builder!Inv) /\ [Next]_vars => (page = "builder" => Builder!MovesOne)
    <2> SUFFICES ASSUME page = "builder", Builder!Inv, [Next]_vars PROVE Builder!MovesOne  OBVIOUS
    <2>1. [Builder!Next]_(Builder!vars)  BY DEF Next, vars, Builder!vars
    <2> QED  BY <2>1, BuilderOrders
  <1> QED  BY <1>1, <1>2, BuilderIsSound, PTL DEF Spec, FieldsStay
===============================================================================
