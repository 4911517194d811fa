------------------------- MODULE ClientSessionProofs -------------------------
(***************************************************************************)
(* Theorems of ClientSession, for any accounts, sessions and requests.     *)
(***************************************************************************)
EXTENDS ClientSession, TLAPS

Kinds == {"boot", "login", "logout", "change", "refresh", "data", "public"}
Replies == [is: {"ok", "401", "403", "422", "failed"}, account: Accounts \cup {None, Nobody}, must: BOOLEAN]
Requests == [what: Kinds, sid: 0 .. MaxLogins, acc: Accounts \cup {None}, here: BOOLEAN, valid: BOOLEAN,
             reply: {None} \cup Replies]

IsQuery(r) == r.what \in {"data", "public"}
IsOk(r) == r.reply # None /\ r.reply.is = "ok"

\* What is known of a request while the browser names session ck and the sessions
\* belong to ow: a check says who it is or 401, who is to be signed in is an account, and a query that counts
\* names this session, and is answered about its owner or about nobody.
Sound(r, ck, ow) ==
    /\ r.what = "login" => r.acc \in Accounts
    /\ r.what = "boot" /\ r.reply # None => r.reply.is \in {"ok", "401"}
    /\ r.what \in {"boot", "refresh", "login"} /\ IsOk(r) => r.reply.account \in Accounts
    /\ IsQuery(r) /\ r.valid => r.sid = ck
    /\ IsQuery(r) /\ IsOk(r) /\ r.reply.account # Nobody
         => r.sid # 0 /\ r.reply.account \in Accounts /\ r.reply.account = ow[r.sid]

OwnerInv == \A s \in alive : owner[s] \in Accounts

\* A check whose answer counts.
Counts(r) == r.what = "boot" /\ r.valid

\* The requests R fit what the tab believes.  The generation: one check at most
\* counts, exactly while the tab waits for it.  While the tab does not know who is
\* signed in, nothing is under way that only someone who is could have sent.  The
\* page that says the password is changed waits for the account.
Fits(R, ck, ow, waits, error, who, says) ==
    /\ R \subseteq Requests
    /\ \A r \in R : Sound(r, ck, ow)
    /\ waits => \E r \in R : Counts(r)
    /\ \A r \in R : Counts(r) => waits
    /\ \A r, q \in R : Counts(r) /\ Counts(q) => r = q
    /\ waits \/ error => who = None /\ \A r \in R : r.what \in {"boot", "login", "public"}
    /\ says # None => \E r \in R : r.what = "refresh" /\ r.acc # None

Inv == TypeOK /\ OwnerInv /\ CacheIsOwn /\ Fits(out, cookie, owner, booting, bootError, user, told)

-----------------------------------------------------------------------------
(* Requests that differ in where they came from, and the two ways to void. *)

Like(x, q) == x.what = q.what /\ x.sid = q.sid /\ x.acc = q.acc /\ x.valid = q.valid /\ x.reply = q.reply

\* What a page that is left does to the requests: they are the same but for "here".
LEMMA ShowOut ==
  ASSUME NEW requests \in SUBSET Requests, NEW u, NEW b, NEW e, NEW p, Show(u, b, e, p, requests)
  PROVE  /\ out' \subseteq Requests
         /\ \A x \in out' : \E q \in requests : Like(x, q)
         /\ \A q \in requests : \E x \in out' : Like(x, q)
<1>1. CASE out' = requests
  BY <1>1 DEF Like
<1>2. CASE out' = {[r EXCEPT !.here = FALSE] : r \in requests}
  <2>1. \A q \in requests : LET x == [q EXCEPT !.here = FALSE] IN x \in Requests /\ Like(x, q)
    BY DEF Requests, Like
  <2> QED
    BY <1>2, <2>1
<1> QED
  BY <1>1, <1>2 DEF Show

\* The same of two requests of one image of "here": a check that counts stays single.
LEMMA ShowSingle ==
  ASSUME NEW requests \in SUBSET Requests, NEW u, NEW b, NEW e, NEW p, Show(u, b, e, p, requests),
         \A r, q \in requests : Counts(r) /\ Counts(q) => r = q
  PROVE  \A r, q \in out' : Counts(r) /\ Counts(q) => r = q
<1>1. CASE out' = requests
  BY <1>1
<1>2. CASE out' = {[r EXCEPT !.here = FALSE] : r \in requests}
  <2>1. \A q \in requests : Counts([q EXCEPT !.here = FALSE]) => Counts(q)
    BY DEF Requests, Counts
  <2> SUFFICES ASSUME NEW x \in requests, NEW y \in requests,
                      Counts([x EXCEPT !.here = FALSE]), Counts([y EXCEPT !.here = FALSE])
               PROVE  [x EXCEPT !.here = FALSE] = [y EXCEPT !.here = FALSE]
    BY <1>2
  <2> QED
    BY <2>1
<1> QED
  BY <1>1, <1>2 DEF Show

\* Of a cleared cache: the queries do not count any more, the rest is as it was.
LEMMA ClearedOut ==
  ASSUME NEW requests \in SUBSET Requests
  PROVE  /\ Cleared(requests) \subseteq Requests
         /\ \A x \in Cleared(requests) : IsQuery(x) => ~x.valid
         /\ \A x \in Cleared(requests) : \E q \in requests : IF IsQuery(q)
              THEN x.what = q.what /\ x.sid = q.sid /\ x.acc = q.acc /\ x.reply = q.reply ELSE x = q
         /\ \A q \in requests : ~IsQuery(q) => q \in Cleared(requests)
<1> DEFINE Void(q) == [q EXCEPT !.valid = @ /\ q.what \notin {"data", "public"}]
<1>1. \A q \in requests : Void(q) \in Requests /\ Void(q).what = q.what /\ Void(q).sid = q.sid
                          /\ Void(q).acc = q.acc /\ Void(q).reply = q.reply
  BY DEF Requests
<1>2. \A q \in requests : IsQuery(q) => ~Void(q).valid
  BY DEF Requests, IsQuery
<1>3. \A q \in requests : ~IsQuery(q) => Void(q) = q
  BY DEF Requests, IsQuery
<1>4. Cleared(requests) = {Void(q) : q \in requests}
  BY DEF Cleared
<1> HIDE DEF Void
<1> QED
  BY <1>1, <1>2, <1>3, <1>4 DEF IsQuery

\* Of a new generation: no check counts any more, the rest is as it was.
LEMMA NextGenerationOut ==
  ASSUME NEW requests \in SUBSET Requests
  PROVE  /\ NextGeneration(requests) \subseteq Requests
         /\ \A x \in NextGeneration(requests) : ~Counts(x)
         /\ \A x \in NextGeneration(requests) : \E q \in requests : IF q.what = "boot"
              THEN x.what = q.what /\ x.sid = q.sid /\ x.acc = q.acc /\ x.reply = q.reply ELSE x = q
         /\ \A q \in requests : q.what # "boot" => q \in NextGeneration(requests)
<1> DEFINE Void(q) == [q EXCEPT !.valid = @ /\ q.what # "boot"]
<1>1. \A q \in requests : Void(q) \in Requests /\ Void(q).what = q.what /\ Void(q).sid = q.sid
                          /\ Void(q).acc = q.acc /\ Void(q).reply = q.reply
  BY DEF Requests
<1>2. \A q \in requests : q.what = "boot" => ~Void(q).valid
  BY DEF Requests
<1>3. \A q \in requests : q.what # "boot" => Void(q) = q
  BY DEF Requests
<1>4. NextGeneration(requests) = {Void(q) : q \in requests}
  BY DEF NextGeneration
<1> HIDE DEF Void
<1> QED
  BY <1>1, <1>2, <1>3, <1>4 DEF Counts

-----------------------------------------------------------------------------
(* Sets of requests that fit. *)

LEMMA ShowFits ==
  ASSUME NEW R, NEW ck, NEW ow, NEW b, NEW e, NEW u, NEW says, NEW p,
         Fits(R, ck, ow, b, e, u, says), Show(u, b, e, p, R)
  PROVE  Fits(out', ck, ow, b, e, u, says)
<1>1. R \in SUBSET Requests
  BY DEF Fits
<1>2. /\ out' \subseteq Requests
      /\ \A x \in out' : \E q \in R : Like(x, q)
      /\ \A q \in R : \E x \in out' : Like(x, q)
  BY <1>1, ShowOut
<1>3. \A r, q \in out' : Counts(r) /\ Counts(q) => r = q
  BY <1>1, ShowSingle DEF Fits
<1>4. \A x \in out' : Sound(x, ck, ow)
  BY <1>2 DEF Fits, Like, Sound, IsQuery, IsOk
<1>5. (b => \E r \in out' : Counts(r)) /\ \A r \in out' : Counts(r) => b
  BY <1>2 DEF Fits, Like, Counts
<1>6. b \/ e => u = None /\ \A r \in out' : r.what \in {"boot", "login", "public"}
  BY <1>2 DEF Fits, Like
<1>7. says # None => \E r \in out' : r.what = "refresh" /\ r.acc # None
  BY <1>2 DEF Fits, Like
<1> QED
  BY <1>2, <1>3, <1>4, <1>5, <1>6, <1>7 DEF Fits

\* A request may go that nobody waits for.
LEMMA RemoveFits ==
  ASSUME NEW R, NEW ck, NEW ow, NEW b, NEW e, NEW u, NEW says, NEW r,
         Fits(R, ck, ow, b, e, u, says), ~Counts(r),
         says # None => ~(r.what = "refresh" /\ r.acc # None)
  PROVE  Fits(R \ {r}, ck, ow, b, e, u, says)
BY DEF Fits

\* With the queries voided the browser may name another session.
LEMMA ClearedFits ==
  ASSUME NEW R, NEW ck, NEW ow, NEW b, NEW e, NEW u, NEW says, NEW ck2,
         Fits(R, ck, ow, b, e, u, says)
  PROVE  Fits(Cleared(R), ck2, ow, b, e, u, says)
<1>1. R \in SUBSET Requests
  BY DEF Fits
<1>2. /\ Cleared(R) \subseteq Requests
      /\ \A x \in Cleared(R) : IsQuery(x) => ~x.valid
      /\ \A x \in Cleared(R) : \E q \in R : IF IsQuery(q)
           THEN x.what = q.what /\ x.sid = q.sid /\ x.acc = q.acc /\ x.reply = q.reply ELSE x = q
      /\ \A q \in R : ~IsQuery(q) => q \in Cleared(R)
  BY <1>1, ClearedOut
<1>3. \A x \in Cleared(R) : Sound(x, ck2, ow)
  <2> SUFFICES ASSUME NEW x \in Cleared(R) PROVE Sound(x, ck2, ow)
    OBVIOUS
  <2>1. PICK q \in R : IF IsQuery(q)
           THEN x.what = q.what /\ x.sid = q.sid /\ x.acc = q.acc /\ x.reply = q.reply ELSE x = q
    BY <1>2
  <2>2. Sound(q, ck, ow)
    BY DEF Fits
  <2> QED
    BY <1>2, <2>1, <2>2 DEF Sound, IsQuery, IsOk
<1>4. \A x \in Cleared(R) : Counts(x) => x \in R
  BY <1>2 DEF Counts, IsQuery
<1>5. \A q \in R : Counts(q) \/ q.what = "refresh" => q \in Cleared(R)
  BY <1>2 DEF Counts, IsQuery
<1>6. b \/ e => u = None /\ \A r \in Cleared(R) : r.what \in {"boot", "login", "public"}
  BY <1>2 DEF Fits
<1> QED
  BY <1>2, <1>3, <1>4, <1>5, <1>6 DEF Fits

\* With the checks voided the tab waits for none.
LEMMA NextGenerationFits ==
  ASSUME NEW R, NEW ck, NEW ow, NEW b, NEW e, NEW u, NEW says, Fits(R, ck, ow, b, e, u, says)
  PROVE  Fits(NextGeneration(R), ck, ow, FALSE, e, u, says)
<1>1. R \in SUBSET Requests
  BY DEF Fits
<1>2. /\ NextGeneration(R) \subseteq Requests
      /\ \A x \in NextGeneration(R) : ~Counts(x)
      /\ \A x \in NextGeneration(R) : \E q \in R : IF q.what = "boot"
           THEN x.what = q.what /\ x.sid = q.sid /\ x.acc = q.acc /\ x.reply = q.reply ELSE x = q
      /\ \A q \in R : q.what # "boot" => q \in NextGeneration(R)
  BY <1>1, NextGenerationOut
<1>3. \A x \in NextGeneration(R) : Sound(x, ck, ow)
  <2> SUFFICES ASSUME NEW x \in NextGeneration(R) PROVE Sound(x, ck, ow)
    OBVIOUS
  <2>1. PICK q \in R : IF q.what = "boot"
           THEN x.what = q.what /\ x.sid = q.sid /\ x.acc = q.acc /\ x.reply = q.reply ELSE x = q
    BY <1>2
  <2>2. Sound(q, ck, ow)
    BY DEF Fits
  <2> QED
    BY <2>1, <2>2 DEF Sound, IsQuery, IsOk
<1>4. e => u = None /\ \A r \in NextGeneration(R) : r.what \in {"boot", "login", "public"}
  BY <1>2 DEF Fits
<1> QED
  BY <1>2, <1>3, <1>4 DEF Fits

\* Who is known and waited for does not matter where nobody waits.
LEMMA SignedFits ==
  ASSUME NEW R, NEW ck, NEW ow, NEW e, NEW u, NEW says, NEW u2, Fits(R, ck, ow, FALSE, e, u, says)
  PROVE  Fits(R, ck, ow, FALSE, FALSE, u2, None)
BY DEF Fits

-----------------------------------------------------------------------------
(* Steps of the tab. *)

Users == {None} \cup [account: Accounts, must: BOOLEAN]

LEMMA LandInPaths ==
  ASSUME SessionAssumption, NEW p \in Paths, NEW u \in Users, NEW b, NEW e
  PROVE  Land(p, u, b, e) \in Paths
<1>1. \A q \in Paths : Gate(q, u, b, e) \in Paths
  BY DEF Gate, ClubArea, RequireRole, RequireAuth, HomeOf, Paths
<1> QED
  BY <1>1 DEF Land

\* A page that is shown keeps the invariant if the requests it is shown with fit.
LEMMA ShownInv ==
  ASSUME SessionAssumption, TypeOK, OwnerInv, UNCHANGED server,
         NEW u \in Users, NEW b \in BOOLEAN, NEW e \in BOOLEAN, NEW p \in Paths, NEW R,
         Show(u, b, e, p, R), Fits(R, cookie', owner, b, e, u, told'),
         cookie' \in 0 .. MaxLogins, cache' \subseteq Accounts \cup {Nobody}, told' \in Accounts \cup {None},
         CacheIsOwn'
  PROVE  Inv'
<1>1. Fits(out', cookie', owner, b, e, u, told')
  BY ShowFits
<1>2. user' = u /\ booting' = b /\ bootError' = e /\ path' \in Paths
  BY LandInPaths DEF Show
<1>3. out' \subseteq Requests
  BY <1>1 DEF Fits
<1>4. \A r \in out' : r.what \in Kinds
  BY <1>3 DEF Requests
<1>5. TypeOK'
  BY <1>2, <1>4 DEF TypeOK, server, Users, Kinds
<1>6. OwnerInv'
  BY DEF OwnerInv, server
<1>7. Fits(out, cookie, owner, booting, bootError, user, told)'
  BY <1>1, <1>2 DEF server
<1> QED
  BY <1>5, <1>6, <1>7 DEF Inv

\* What the server does keeps it if the requests still fit.
LEMMA HeldInv ==
  ASSUME TypeOK, CacheIsOwn, UNCHANGED <<cookie, user, bootError, path, cache>>,
         booting' \in BOOLEAN, told' \in Accounts \cup {None},
         alive' \subseteq Sids, owner' \in [Sids -> Accounts \cup {None}], must' \subseteq Accounts, OwnerInv',
         \A s \in Sids : owner[s] # None => owner'[s] = owner[s], None \notin Accounts,
         Fits(out', cookie, owner', booting', bootError, user, told')
  PROVE  Inv'
<1>1. out' \subseteq Requests
  BY DEF Fits
<1>2. \A r \in out' : r.what \in Kinds
  BY <1>1 DEF Requests
<1>3. TypeOK'
  BY <1>2 DEF TypeOK, Kinds
<1>4. CacheIsOwn'
  <2> SUFFICES ASSUME NEW a \in cache \ {Nobody} PROVE cookie # 0 /\ owner'[cookie] = a
    BY DEF CacheIsOwn
  <2>1. cookie # 0 /\ owner[cookie] = a /\ a \in Accounts /\ cookie \in Sids
    BY DEF CacheIsOwn, TypeOK, Sids
  <2> QED
    BY <2>1
<1> QED
  BY <1>3, <1>4 DEF Inv

LEMMA ExpireInv ==
  ASSUME SessionAssumption, Inv, UNCHANGED <<server, cookie>>, NEW b \in BOOLEAN, NEW e \in BOOLEAN, NEW R,
         Fits(R, cookie, owner, b, e, user, told), Expire(R, b, e)
  PROVE  Inv' /\ (user # None => cache' = {})
<1> USE DEF Inv
<1>1. CASE user = None
  <2>1. Show(None, b, e, path, R) /\ UNCHANGED <<cache, told>>
    BY <1>1 DEF Expire
  <2>2. CacheIsOwn'
    BY <2>1 DEF CacheIsOwn, server
  <2>3. None \in Users /\ path \in Paths /\ cookie' \in 0 .. MaxLogins
        /\ cache' \subseteq Accounts \cup {Nobody} /\ told' \in Accounts \cup {None}
    BY <2>1 DEF TypeOK, Users
  <2>4. Fits(R, cookie', owner, b, e, None, told')
    BY <1>1, <2>1
  <2> QED
    BY <1>1, <2>1, <2>2, <2>3, <2>4, ShownInv
<1>2. CASE user # None
  <2>1. Show(None, b, FALSE, path, Cleared(R)) /\ cache' = {} /\ told' = None
    BY <1>2 DEF Expire
  <2>2. Fits(Cleared(R), cookie', owner, b, e, user, told)
    BY ClearedFits
  <2>3. Fits(Cleared(R), cookie', owner, b, FALSE, None, told')
    BY <2>1, <2>2 DEF Fits
  <2>4. CacheIsOwn'
    BY <2>1 DEF CacheIsOwn
  <2>5. None \in Users /\ path \in Paths /\ cookie' \in 0 .. MaxLogins
        /\ cache' \subseteq Accounts \cup {Nobody} /\ told' \in Accounts \cup {None}
    BY <2>1 DEF TypeOK, Users
  <2> QED
    BY <2>1, <2>3, <2>4, <2>5, ShownInv
<1> QED
  BY <1>1, <1>2

\* A tab that starts waits for the check it sends.
LEMMA StartFits ==
  ASSUME SessionAssumption, cookie \in 0 .. MaxLogins, NEW ow
  PROVE  Boot \in Requests /\ Counts(Boot) /\ Fits({Boot}, cookie, ow, TRUE, FALSE, None, None)
<1>1. Boot.what = "boot" /\ Boot.reply = None /\ Boot.valid /\ Boot \in Requests
  BY DEF Boot, Request, Requests, Kinds
<1> QED
  BY <1>1 DEF Fits, Sound, Counts, IsQuery, IsOk

LEMMA StartInv ==
  ASSUME SessionAssumption, Inv, UNCHANGED <<server, cookie>>, NEW p \in Paths, Start(p)
  PROVE  Inv'
<1>1. Fits(out', cookie, owner, TRUE, FALSE, None, None)
  BY StartFits DEF Start, Inv, TypeOK
<1>2. out' \subseteq Requests
  BY <1>1 DEF Fits
<1>3. \A r \in out' : r.what \in Kinds
  BY <1>2 DEF Requests
<1>4. TypeOK'
  BY <1>3 DEF Start, Inv, TypeOK, Kinds, server
<1>5. CacheIsOwn' /\ OwnerInv'
  BY DEF Start, Inv, CacheIsOwn, OwnerInv, server
<1> QED
  BY <1>1, <1>4, <1>5 DEF Start, Inv, server

\* The requests without one whose answer nobody waits for.
LEMMA RestFits ==
  ASSUME Inv, NEW r \in out, ~Counts(r), ~(r.what = "refresh" /\ r.acc # None)
  PROVE  Fits(out \ {r}, cookie, owner, booting, bootError, user, told)
BY RemoveFits DEF Inv

\* A success is the server's.
LEMMA ReplyTyped ==
  ASSUME NEW r \in Requests, NEW reply \in Reply(r)
  PROVE  reply \in Replies /\ (reply.is = "ok" => reply = r.reply /\ IsOk(r))
<1>1. Says("failed") \in Replies /\ Says("failed").is = "failed"
  BY DEF Says, Replies
<1>2. CASE reply = Says("failed")
  BY <1>1, <1>2
<1>3. CASE r.reply # None /\ reply = r.reply
  <2>1. r.reply \in Replies
    BY <1>3 DEF Requests
  <2> QED
    BY <1>3, <2>1 DEF IsOk
<1> QED
  BY <1>2, <1>3 DEF Reply

-----------------------------------------------------------------------------
(* The answers. *)

LEMMA BootStep ==
  ASSUME SessionAssumption, Inv, BootArrives
  PROVE  Inv' /\ (user # None /\ user' = None => cache' \subseteq {Nobody})
<1> DEFINE Boots(r, reply) ==
         LET rest == out \ {r} IN
         /\ r.what = "boot"
         /\ IF reply.is = "401"
            THEN IF r.valid THEN Expire(rest, FALSE, FALSE) ELSE Expire(rest, booting, bootError)
            ELSE /\ IF ~r.valid THEN Show(user, booting, bootError, path, rest)
                    ELSE IF reply.is = "failed" THEN Show(None, FALSE, TRUE, path, rest)
                    ELSE Show(AsUser(reply), FALSE, FALSE, path, rest)
                 /\ UNCHANGED <<cache, told>>
<1>0. PICK r \in out : \E reply \in Reply(r) : Boots(r, reply)
  BY DEF BootArrives
<1>1. PICK reply \in Reply(r) : Boots(r, reply)
  BY <1>0
<1>2. UNCHANGED <<server, cookie>>
  BY DEF BootArrives
<1>3. r \in Requests /\ Sound(r, cookie, owner) /\ TypeOK /\ OwnerInv /\ CacheIsOwn
  BY DEF Inv, Fits
<1>4. reply \in Replies /\ (reply.is = "ok" => reply = r.reply /\ IsOk(r))
  BY <1>3, ReplyTyped
<1>5. cookie' \in 0 .. MaxLogins /\ path \in Paths /\ booting \in BOOLEAN /\ bootError \in BOOLEAN /\ user \in Users
      /\ cache \subseteq Accounts \cup {Nobody} /\ told \in Accounts \cup {None}
  BY <1>2, <1>3 DEF TypeOK, Users
<1>6. CASE ~r.valid
  <2>1. Fits(out \ {r}, cookie, owner, booting, bootError, user, told)
    BY <1>1, <1>6, RestFits DEF Counts
  <2>2. CASE reply.is = "401"
    <3>1. Expire(out \ {r}, booting, bootError)
      BY <1>1, <1>6, <2>2
    <3>2. Inv' /\ (user # None => cache' = {})
      BY <1>2, <1>5, <2>1, <3>1, ExpireInv
    <3> QED
      BY <3>2
  <2>3. CASE reply.is # "401"
    <3>1. Show(user, booting, bootError, path, out \ {r}) /\ UNCHANGED <<cache, told>>
      BY <1>1, <1>6, <2>3
    <3>2. user' = user
      BY <3>1 DEF Show
    <3>3. CacheIsOwn'
      BY <1>2, <1>3, <3>1 DEF CacheIsOwn, server
    <3>4. Inv'
      BY <1>2, <1>3, <1>5, <2>1, <3>1, <3>3, ShownInv
    <3> QED
      BY <3>2, <3>4
  <2> QED
    BY <2>2, <2>3
<1>7. CASE r.valid
  <2>1. booting /\ user = None
    BY <1>1, <1>7 DEF Inv, Fits, Counts
  <2>2. \A e \in BOOLEAN, u \in Users : (e => u = None) => Fits(out \ {r}, cookie, owner, FALSE, e, u, told)
    BY <1>1, <1>7, <2>1 DEF Inv, Fits, Counts
  <2>3. CASE reply.is = "401"
    <3>1. Expire(out \ {r}, FALSE, FALSE)
      BY <1>1, <1>7, <2>3
    <3>2. Fits(out \ {r}, cookie, owner, FALSE, FALSE, user, told)
      BY <1>5, <2>2
    <3>3. Inv'
      BY <1>2, <3>1, <3>2, ExpireInv
    <3> QED
      BY <2>1, <3>3
  <2>4. CASE reply.is # "401" /\ reply.is = "failed"
    <3>1. Show(None, FALSE, TRUE, path, out \ {r}) /\ UNCHANGED <<cache, told>>
      BY <1>1, <1>7, <2>4
    <3>2. Fits(out \ {r}, cookie', owner, FALSE, TRUE, None, told') /\ None \in Users /\ CacheIsOwn'
      BY <1>2, <1>3, <2>2, <3>1 DEF Users, CacheIsOwn, server
    <3>3. Inv'
      BY <1>2, <1>3, <1>5, <3>1, <3>2, ShownInv
    <3> QED
      BY <2>1, <3>3
  <2>5. CASE reply.is # "401" /\ reply.is # "failed"
    <3>1. Show(AsUser(reply), FALSE, FALSE, path, out \ {r}) /\ UNCHANGED <<cache, told>>
      BY <1>1, <1>7, <2>5
    <3>2. reply = r.reply /\ IsOk(r)
      BY <1>1, <1>3, <1>4, <2>5 DEF Sound, Reply, Says, IsOk
    <3>3. AsUser(reply) \in Users
      BY <1>1, <1>3, <1>4, <3>2 DEF Sound, AsUser, Users, Replies
    <3>4. Fits(out \ {r}, cookie', owner, FALSE, FALSE, AsUser(reply), told') /\ CacheIsOwn'
      BY <1>2, <1>3, <2>2, <3>1, <3>3 DEF CacheIsOwn, server
    <3>5. Inv'
      BY <1>2, <1>3, <1>5, <3>1, <3>3, <3>4, ShownInv
    <3> QED
      BY <2>1, <3>5
  <2> QED
    BY <2>3, <2>4, <2>5
<1> QED
  BY <1>6, <1>7

LEMMA LoginStep ==
  ASSUME SessionAssumption, Inv, LoginArrives
  PROVE  Inv' /\ (user # None /\ user' = None => cache' \subseteq {Nobody})
<1> DEFINE Logs(r, reply) ==
         /\ r.what = "login"
         /\ IF reply.is = "ok"
            THEN SignIn(AsUser(reply), out \ {r}) /\ cookie' = r.sid /\ told' = None
            ELSE out' = out \ {r} /\ UNCHANGED <<cookie, user, booting, bootError, path, cache, told>>
<1>0. PICK r \in out : \E reply \in Reply(r) : Logs(r, reply)
  BY DEF LoginArrives
<1>1. PICK reply \in Reply(r) : Logs(r, reply)
  BY <1>0
<1>2. UNCHANGED server
  BY DEF LoginArrives
<1>3. r \in Requests /\ Sound(r, cookie, owner) /\ TypeOK /\ OwnerInv /\ CacheIsOwn
  BY DEF Inv, Fits
<1>4. reply \in Replies /\ (reply.is = "ok" => reply = r.reply /\ IsOk(r))
  BY <1>3, ReplyTyped
<1>5. Fits(out \ {r}, cookie, owner, booting, bootError, user, told)
  BY <1>1, RestFits DEF Counts
<1>6. CASE reply.is = "ok"
  <2> DEFINE next == AsUser(reply)
  <2>1. next \in [account: Accounts, must: BOOLEAN]
    BY <1>1, <1>3, <1>4, <1>6 DEF Sound, AsUser, Replies
  <2>2. Landing(next) \in Paths /\ next \in Users
    BY <2>1 DEF Landing, HomeOf, Paths, Users
  <2>3. Fits(Cleared(out \ {r}), r.sid, owner, booting, bootError, user, told)
    BY <1>5, ClearedFits
  <2>4. Fits(NextGeneration(Cleared(out \ {r})), r.sid, owner, FALSE, bootError, user, told)
    BY <2>3, NextGenerationFits
  <2>5. Fits(NextGeneration(Cleared(out \ {r})), r.sid, owner, FALSE, FALSE, next, None)
    BY <2>4, SignedFits
  <2>6. /\ Show(next, FALSE, FALSE, Landing(next), NextGeneration(Cleared(out \ {r})))
        /\ cache' = {} /\ cookie' = r.sid /\ told' = None
    BY <1>1, <1>6 DEF SignIn
  <2>7. CacheIsOwn' /\ cookie' \in 0 .. MaxLogins
    BY <1>3, <2>6 DEF CacheIsOwn, Requests
  <2> HIDE DEF next
  <2>8. Inv'
    BY <1>2, <1>3, <2>2, <2>5, <2>6, <2>7, ShownInv
  <2> QED
    BY <2>6, <2>8
<1>7. CASE reply.is # "ok"
  <2>1. out' = out \ {r} /\ UNCHANGED <<cookie, user, booting, bootError, path, cache, told>>
    BY <1>1, <1>7
  <2>2. Inv'
    BY <1>2, <1>3, <1>5, <2>1, HeldInv DEF TypeOK, OwnerInv, server, SessionAssumption
  <2> QED
    BY <2>1, <2>2
<1> QED
  BY <1>6, <1>7

LEMMA LogoutStep ==
  ASSUME SessionAssumption, Inv, LogoutArrives
  PROVE  Inv' /\ cache' = {}
<1>1. PICK r \in out : \E reply \in Reply(r) :
         /\ r.what = "logout"
         /\ SignOut(out \ {r}) /\ told' = None
         /\ cookie' = IF reply.is = "ok" THEN 0 ELSE cookie
  BY DEF LogoutArrives
<1>2. UNCHANGED server
  BY DEF LogoutArrives
<1>3. TypeOK /\ OwnerInv
  BY DEF Inv
<1>4. Fits(out \ {r}, cookie, owner, booting, bootError, user, told)
  BY <1>1, RestFits DEF Counts
<1>5. Fits(Cleared(out \ {r}), cookie', owner, booting, bootError, user, told)
  BY <1>4, ClearedFits
<1>6. Fits(NextGeneration(Cleared(out \ {r})), cookie', owner, FALSE, bootError, user, told)
  BY <1>5, NextGenerationFits
<1>7. Fits(NextGeneration(Cleared(out \ {r})), cookie', owner, FALSE, FALSE, None, None)
  BY <1>6, SignedFits
<1>8. Show(None, FALSE, FALSE, "/login", NextGeneration(Cleared(out \ {r}))) /\ cache' = {} /\ told' = None
  BY <1>1 DEF SignOut
<1>9. CacheIsOwn' /\ cookie' \in 0 .. MaxLogins /\ None \in Users /\ "/login" \in Paths
  BY <1>1, <1>3, <1>8 DEF CacheIsOwn, TypeOK, Users, Paths
<1>10. Inv'
  BY <1>2, <1>3, <1>7, <1>8, <1>9, ShownInv
<1> QED
  BY <1>8, <1>10

LEMMA ChangeStep ==
  ASSUME SessionAssumption, Inv, ChangeArrives
  PROVE  Inv' /\ (user # None /\ user' = None => cache' \subseteq {Nobody})
<1> DEFINE Changes(r, reply) ==
         LET rest == out \ {r} IN
         /\ r.what = "change"
         /\ IF reply.is = "ok"
            THEN /\ told' = IF r.acc # None THEN r.acc ELSE told
                 /\ out' = rest \cup {[Request("refresh", r.acc) EXCEPT !.here = r.here]}
                 /\ UNCHANGED <<user, booting, bootError, path, cache>>
            ELSE IF reply.is = "401" THEN Expire(rest, booting, bootError)
            ELSE out' = rest /\ UNCHANGED <<user, booting, bootError, path, cache, told>>
<1>0. PICK r \in out : \E reply \in Reply(r) : Changes(r, reply)
  BY DEF ChangeArrives
<1>1. PICK reply \in Reply(r) : Changes(r, reply)
  BY <1>0
<1>2. UNCHANGED <<server, cookie>>
  BY DEF ChangeArrives
<1>3. r \in Requests /\ TypeOK /\ OwnerInv /\ CacheIsOwn
  BY DEF Inv, Fits
<1>4. Fits(out \ {r}, cookie, owner, booting, bootError, user, told)
  BY <1>1, RestFits DEF Counts
<1>5. CASE reply.is = "ok"
  <2> DEFINE new == [Request("refresh", r.acc) EXCEPT !.here = r.here]
  <2>1. new \in Requests /\ new.what = "refresh" /\ new.acc = r.acc /\ new.reply = None
    BY <1>3 DEF Request, Requests, TypeOK, Kinds
  <2>2. Sound(new, cookie, owner) /\ ~Counts(new)
    BY <2>1 DEF Sound, Counts, IsQuery, IsOk
  <2>3. ~booting /\ ~bootError
    BY <1>1 DEF Inv, Fits
  <2>4. out' = (out \ {r}) \cup {new} /\ told' = (IF r.acc # None THEN r.acc ELSE told)
        /\ UNCHANGED <<user, booting, bootError, path, cache>>
    BY <1>1, <1>5
  <2> HIDE DEF new
  <2>5. Fits(out', cookie, owner, booting, bootError, user, told')
    BY <1>4, <2>1, <2>2, <2>3, <2>4 DEF Fits
  <2>6. told' \in Accounts \cup {None}
    BY <1>3, <2>4 DEF Requests, TypeOK
  <2>7. Inv'
    BY <1>2, <1>3, <2>4, <2>5, <2>6, HeldInv DEF TypeOK, OwnerInv, server, SessionAssumption
  <2> QED
    BY <2>4, <2>7
<1>6. CASE reply.is = "401"
  <2>1. Expire(out \ {r}, booting, bootError)
    BY <1>1, <1>6
  <2>2. Inv' /\ (user # None => cache' = {})
    BY <1>2, <1>3, <1>4, <2>1, ExpireInv DEF TypeOK
  <2> QED
    BY <2>2
<1>7. CASE reply.is \notin {"ok", "401"}
  <2>1. out' = out \ {r} /\ UNCHANGED <<user, booting, bootError, path, cache, told>>
    BY <1>1, <1>7
  <2>2. Inv'
    BY <1>2, <1>3, <1>4, <2>1, HeldInv DEF TypeOK, OwnerInv, server, SessionAssumption
  <2> QED
    BY <2>1, <2>2
<1> QED
  BY <1>5, <1>6, <1>7

LEMMA RefreshStep ==
  ASSUME SessionAssumption, Inv, RefreshArrives
  PROVE  Inv' /\ (user # None /\ user' = None => cache' \subseteq {Nobody})
<1> DEFINE Refreshes(r, reply) ==
         LET rest == out \ {r} IN
         /\ r.what = "refresh"
         /\ IF reply.is = "ok"
            THEN Show(AsUser(reply), booting, bootError, IF r.acc = None THEN path ELSE HomeOf(r.acc), rest) /\ told' = None /\ UNCHANGED cache
            ELSE IF r.acc # None THEN GivesUp(r.acc)
            ELSE IF reply.is = "401" THEN Expire(rest, booting, bootError)
            ELSE out' = rest /\ UNCHANGED <<user, booting, bootError, path, cache, told>>
<1>0. PICK r \in out : \E reply \in Reply(r) : Refreshes(r, reply)
  BY DEF RefreshArrives
<1>1. PICK reply \in Reply(r) : Refreshes(r, reply)
  BY <1>0
<1>2. UNCHANGED <<server, cookie>>
  BY DEF RefreshArrives
<1>3. r \in Requests /\ Sound(r, cookie, owner) /\ TypeOK /\ OwnerInv /\ CacheIsOwn
  BY DEF Inv, Fits
<1>4. reply \in Replies /\ (reply.is = "ok" => reply = r.reply /\ IsOk(r))
  BY <1>3, ReplyTyped
<1>5. booting = FALSE /\ bootError = FALSE
  BY <1>1, <1>3 DEF Inv, Fits, TypeOK
<1>6. CASE reply.is = "ok"
  <2> DEFINE next == AsUser(reply)
             to == IF r.acc = None THEN path ELSE HomeOf(r.acc)
  <2>1. next \in [account: Accounts, must: BOOLEAN]
    BY <1>1, <1>3, <1>4, <1>6 DEF Sound, AsUser, Replies
  <2>2. to \in Paths /\ next \in Users
    BY <1>3, <2>1 DEF HomeOf, Paths, Users, TypeOK
  <2>3. Show(next, FALSE, FALSE, to, out \ {r}) /\ told' = None /\ UNCHANGED cache
    BY <1>1, <1>5, <1>6
  <2>4. Fits(out \ {r}, cookie, owner, booting, bootError, user, None)
    BY <1>1 DEF Inv, Fits, Counts
  <2>5. Fits(out \ {r}, cookie, owner, FALSE, FALSE, next, None)
    BY <1>5, <2>4, SignedFits
  <2>6. CacheIsOwn' /\ cookie' \in 0 .. MaxLogins /\ cache' \subseteq Accounts \cup {Nobody}
    BY <1>2, <1>3, <2>3 DEF CacheIsOwn, server, TypeOK
  <2> HIDE DEF next, to
  <2>7. Inv'
    BY <1>2, <1>3, <2>2, <2>3, <2>5, <2>6, ShownInv
  <2>8. user' # None
    BY <2>1, <2>3 DEF Show, SessionAssumption
  <2> QED
    BY <2>7, <2>8
<1>7. CASE reply.is # "ok" /\ r.acc # None
  <2>1. Start(HomeOf(r.acc)) /\ HomeOf(r.acc) \in Paths
    BY <1>1, <1>7 DEF GivesUp, HomeOf, Paths
  <2>2. Inv'
    BY <1>2, <2>1, StartInv
  <2> QED
    BY <2>1, <2>2 DEF Start
<1>8. CASE reply.is # "ok" /\ r.acc = None
  <2>1. Fits(out \ {r}, cookie, owner, booting, bootError, user, told)
    BY <1>1, <1>8, RestFits DEF Counts
  <2>2. CASE reply.is = "401"
    <3>1. Expire(out \ {r}, booting, bootError)
      BY <1>1, <1>8, <2>2
    <3>2. Inv' /\ (user # None => cache' = {})
      BY <1>2, <1>3, <2>1, <3>1, ExpireInv DEF TypeOK
    <3> QED
      BY <3>2
  <2>3. CASE reply.is # "401"
    <3>1. out' = out \ {r} /\ UNCHANGED <<user, booting, bootError, path, cache, told>>
      BY <1>1, <1>8, <2>3
    <3>2. Inv'
      BY <1>2, <1>3, <2>1, <3>1, HeldInv DEF TypeOK, OwnerInv, server, SessionAssumption
    <3> QED
      BY <3>1, <3>2
  <2> QED
    BY <2>2, <2>3
<1> QED
  BY <1>6, <1>7, <1>8

LEMMA DataStep ==
  ASSUME SessionAssumption, Inv, DataArrives
  PROVE  Inv' /\ (user # None /\ user' = None => cache' \subseteq {Nobody})
<1> DEFINE Fills(r, reply) ==
         LET rest == out \ {r} IN
         /\ r.what \in {"data", "public"}
         /\ IF reply.is = "401" THEN Expire(rest, booting, bootError)
            ELSE /\ out' = rest
                 /\ cache' = IF r.valid /\ reply.is = "ok" THEN cache \cup {reply.account} ELSE cache
                 /\ UNCHANGED <<user, booting, bootError, path, told>>
<1>0. PICK r \in out : \E reply \in Reply(r) : Fills(r, reply)
  BY DEF DataArrives
<1>1. PICK reply \in Reply(r) : Fills(r, reply)
  BY <1>0
<1>2. UNCHANGED <<server, cookie>>
  BY DEF DataArrives
<1>3. r \in Requests /\ Sound(r, cookie, owner) /\ TypeOK /\ OwnerInv /\ CacheIsOwn
  BY DEF Inv, Fits
<1>4. reply \in Replies /\ (reply.is = "ok" => reply = r.reply /\ IsOk(r))
  BY <1>3, ReplyTyped
<1>5. Fits(out \ {r}, cookie, owner, booting, bootError, user, told)
  BY <1>1, RestFits DEF Counts
<1>6. CASE reply.is = "401"
  <2>1. Expire(out \ {r}, booting, bootError)
    BY <1>1, <1>6
  <2>2. Inv' /\ (user # None => cache' = {})
    BY <1>2, <1>3, <1>5, <2>1, ExpireInv DEF TypeOK
  <2> QED
    BY <2>2
<1>7. CASE reply.is # "401"
  <2>1. /\ out' = out \ {r} /\ UNCHANGED <<user, booting, bootError, path, told>>
        /\ cache' = IF r.valid /\ reply.is = "ok" THEN cache \cup {reply.account} ELSE cache
    BY <1>1, <1>7
  <2>2. \A a \in cache' \ cache : a = Nobody \/ (a \in Accounts /\ cookie # 0 /\ owner[cookie] = a)
    BY <1>1, <1>3, <1>4, <2>1 DEF Sound, IsQuery
  <2>3. CacheIsOwn' /\ cache' \subseteq Accounts \cup {Nobody}
    BY <1>2, <1>3, <2>2 DEF CacheIsOwn, TypeOK, server
  <2>4. out' \subseteq Requests
    BY <1>5, <2>1 DEF Fits
  <2>5. TypeOK'
    BY <1>2, <1>3, <2>1, <2>3, <2>4 DEF TypeOK, server, Requests, Kinds
  <2>6. Inv'
    BY <1>2, <1>3, <1>5, <2>1, <2>3, <2>5 DEF Inv, OwnerInv, server
  <2> QED
    BY <2>1, <2>6
<1> QED
  BY <1>6, <1>7

-----------------------------------------------------------------------------
(* The server. *)

\* A request that is served is the same but for its session, if it signs in, and
\* its answer.
LEMMA AnsweredFits ==
  ASSUME Inv, NEW r \in out, NEW x \in Requests, NEW ow,
         x.what = r.what, x.acc = r.acc, x.valid = r.valid, Sound(x, cookie, ow),
         \A q \in out : Sound(q, cookie, ow), out' = (out \ {r}) \cup {x}
  PROVE  Fits(out', cookie, ow, booting, bootError, user, told)
<1>1. Fits(out, cookie, owner, booting, bootError, user, told)
  BY DEF Inv
<1>2. Counts(x) <=> Counts(r)
  BY DEF Counts
<1>3. booting => \E q \in out' : Counts(q)
  BY <1>1, <1>2 DEF Fits
<1>4. \A q \in out' : Counts(q) => booting
  BY <1>1, <1>2 DEF Fits
<1>5. \A p, q \in out' : Counts(p) /\ Counts(q) => p = q
  BY <1>1, <1>2 DEF Fits
<1>6. booting \/ bootError => user = None /\ \A q \in out' : q.what \in {"boot", "login", "public"}
  BY <1>1 DEF Fits
<1>7. told # None => \E q \in out' : q.what = "refresh" /\ q.acc # None
  BY <1>1 DEF Fits
<1>8. out' \subseteq Requests /\ \A q \in out' : Sound(q, cookie, ow)
  BY <1>1 DEF Fits
<1> QED
  BY <1>3, <1>4, <1>5, <1>6, <1>7, <1>8 DEF Fits

tab == <<cookie, user, booting, bootError, path, cache, told>>

\* An answer of the server that changes at most who must change the password and
\* ends sessions.
LEMMA AnswerInv ==
  ASSUME SessionAssumption, Inv, UNCHANGED tab, UNCHANGED owner, alive' \subseteq alive, must' \subseteq Accounts,
         NEW r \in out, NEW reply \in Replies, Answered(r, reply),
         r.what = "boot" => reply.is \in {"ok", "401"},
         r.what \in {"boot", "refresh"} /\ reply.is = "ok" => reply.account \in Accounts,
         r.what # "login",
         IsQuery(r) /\ reply.is = "ok" /\ reply.account # Nobody
           => r.sid # 0 /\ reply.account \in Accounts /\ reply.account = owner[r.sid]
  PROVE  Inv'
<1> DEFINE x == [r EXCEPT !.reply = reply]
<1>1. r \in Requests /\ Sound(r, cookie, owner) /\ \A q \in out : Sound(q, cookie, owner)
  BY DEF Inv, Fits
<1>2. /\ x \in Requests /\ x.reply = reply
      /\ x.what = r.what /\ x.acc = r.acc /\ x.valid = r.valid /\ x.sid = r.sid
  BY <1>1 DEF Requests
<1>3. out' = (out \ {r}) \cup {x}
  BY DEF Answered
<1> HIDE DEF x
<1>4. Sound(x, cookie, owner)
  BY <1>1, <1>2 DEF Sound, IsQuery, IsOk
<1>5. Fits(out', cookie, owner, booting, bootError, user, told)
  BY <1>1, <1>2, <1>3, <1>4, AnsweredFits
<1>6. OwnerInv'
  BY DEF Inv, OwnerInv
<1> QED
  BY <1>5, <1>6, HeldInv DEF Inv, TypeOK, tab, SessionAssumption

LEMMA MeTyped ==
  ASSUME NEW a \in Accounts
  PROVE  Me(a) \in Replies /\ Me(a).is = "ok" /\ Me(a).account = a
BY DEF Me, Replies

LEMMA LoginServed ==
  ASSUME SessionAssumption, Inv, ServeLogin, UNCHANGED tab
  PROVE  Inv'
<1>1. PICK r \in out :
         /\ Unserved(r) /\ r.what = "login"
         /\ \/ Answered(r, Says("401")) /\ UNCHANGED server
            \/ \E s \in Sids :
                 /\ owner[s] = None
                 /\ alive' = alive \cup {s} /\ owner' = [owner EXCEPT ![s] = r.acc]
                 /\ out' = (out \ {r}) \cup {[r EXCEPT !.sid = s, !.reply = Me(r.acc)]}
                 /\ UNCHANGED must
  BY Zenon DEF ServeLogin
<1>0. r.what = "login"
  BY <1>1, Zenon
<1>2. r \in Requests /\ Sound(r, cookie, owner) /\ TypeOK /\ OwnerInv /\ \A q \in out : Sound(q, cookie, owner)
  BY DEF Inv, Fits
<1>3. CASE Answered(r, Says("401")) /\ UNCHANGED server
  <2> DEFINE x == [r EXCEPT !.reply = Says("401")]
  <2>1. Says("401") \in Replies /\ Says("401").is = "401"
    BY DEF Says, Replies
  <2>2. x \in Requests /\ x.reply = Says("401") /\ x.what = r.what /\ x.acc = r.acc /\ x.valid = r.valid
    BY <1>2, <2>1 DEF Requests
  <2>3. out' = (out \ {r}) \cup {x}
    BY <1>3 DEF Answered
  <2> HIDE DEF x
  <2>4. Sound(x, cookie, owner)
    BY <1>0, <1>2, <2>1, <2>2 DEF Sound, IsQuery, IsOk
  <2>5. Fits(out', cookie, owner', booting, bootError, user, told)
    BY <1>2, <1>3, <2>2, <2>3, <2>4, AnsweredFits DEF server
  <2> QED
    BY <1>2, <1>3, <2>5, HeldInv DEF Inv, TypeOK, OwnerInv, server, tab, SessionAssumption
<1>4. ASSUME NEW s \in Sids, owner[s] = None,
             alive' = alive \cup {s}, owner' = [owner EXCEPT ![s] = r.acc],
             out' = (out \ {r}) \cup {[r EXCEPT !.sid = s, !.reply = Me(r.acc)]}, UNCHANGED must
      PROVE  Inv'
  <2> DEFINE x == [r EXCEPT !.sid = s, !.reply = Me(r.acc)]
  <2>1. r.acc \in Accounts
    BY <1>0, <1>2 DEF Sound
  <2>2. Me(r.acc) \in Replies /\ Me(r.acc).is = "ok" /\ Me(r.acc).account = r.acc
    BY <2>1, MeTyped
  <2>3. s \in 0 .. MaxLogins
    BY DEF Sids, SessionAssumption
  <2>4. x \in Requests /\ x.reply = Me(r.acc) /\ x.what = r.what /\ x.acc = r.acc /\ x.valid = r.valid
    BY <1>2, <2>2, <2>3 DEF Requests
  <2>5. out' = (out \ {r}) \cup {x}
    BY <1>4
  <2> HIDE DEF x
  <2>6. owner' \in [Sids -> Accounts \cup {None}] /\ (\A t \in Sids : t # s => owner'[t] = owner[t]) /\ owner'[s] \in Accounts
    BY <1>2, <1>4, <2>1 DEF TypeOK
  <2>7. \A t \in Sids : owner[t] # None => owner'[t] = owner[t]
    BY <1>4, <2>6
  <2>8. ASSUME NEW q \in out PROVE Sound(q, cookie, owner')
    <3>1. Sound(q, cookie, owner) /\ q \in Requests
      BY <1>2 DEF Inv, Fits
    <3>2. q.sid # 0 => q.sid \in Sids
      BY <3>1 DEF Requests, Sids, SessionAssumption
    <3>3. None \notin Accounts
      BY DEF SessionAssumption
    <3> QED
      BY <2>7, <3>1, <3>2, <3>3 DEF Sound, IsQuery, IsOk
  <2>9. Sound(x, cookie, owner')
    BY <1>0, <2>1, <2>2, <2>4 DEF Sound, IsQuery, IsOk
  <2>10. Fits(out', cookie, owner', booting, bootError, user, told)
    BY <2>4, <2>5, <2>8, <2>9, AnsweredFits
  <2>11. OwnerInv' /\ alive' \subseteq Sids
    BY <1>2, <1>4, <2>6 DEF OwnerInv, TypeOK
  <2> QED
    BY <1>2, <1>4, <2>6, <2>7, <2>10, <2>11, HeldInv DEF Inv, TypeOK, tab, SessionAssumption
<1> QED
  BY <1>1, <1>3, <1>4, Zenon

LEMMA ServeInv ==
  ASSUME SessionAssumption, Inv, Serve, UNCHANGED tab
  PROVE  Inv'
<1>1. TypeOK /\ OwnerInv /\ out \subseteq Requests /\ \A a \in Accounts : Me(a) \in Replies /\ Me(a).is = "ok" /\ Me(a).account = a
  BY MeTyped DEF Inv, Fits
<1>2. \A status \in {"ok", "401", "403", "422"} : Says(status) \in Replies /\ Says(status).is = status
  BY DEF Says, Replies
<1>3. CASE Refuse
  <2>1. PICK r \in out : /\ r.what \in {"boot", "refresh", "logout", "change", "data"}
                         /\ Answered(r, Says("401")) /\ UNCHANGED server
    BY <1>3 DEF Refuse
  <2> QED
    BY <1>1, <1>2, <2>1, AnswerInv DEF server, TypeOK
<1>4. CASE ServeMe
  <2>1. PICK r \in out : /\ r.what \in {"boot", "refresh"} /\ r.sid \in alive
                         /\ Answered(r, Me(owner[r.sid])) /\ UNCHANGED server
    BY <1>4 DEF ServeMe
  <2>2. owner[r.sid] \in Accounts
    BY <1>1, <2>1 DEF OwnerInv
  <2>3. ~IsQuery(r)
    BY <2>1 DEF IsQuery
  <2> QED
    BY <1>1, <2>1, <2>2, <2>3, AnswerInv DEF server, TypeOK
<1>5. CASE ServeData
  <2> DEFINE Given(r) == IF r.sid \notin alive THEN [Says("ok") EXCEPT !.account = Nobody]
                         ELSE IF r.what = "data" /\ owner[r.sid] \in must THEN Says("403") ELSE Me(owner[r.sid])
  <2>1. PICK r \in out : r.what \in {"data", "public"} /\ Answered(r, Given(r)) /\ UNCHANGED server
    BY <1>5 DEF ServeData
  <2>2. CASE r.sid \notin alive
    <3>1. Given(r) \in Replies /\ Given(r).account = Nobody
      BY <2>2 DEF Says, Replies
    <3> QED
      BY <1>1, <2>1, <3>1, AnswerInv DEF server, TypeOK
  <2>3. CASE r.sid \in alive
    <3>a. r.sid \in Sids
      BY <1>1, <2>3 DEF TypeOK
    <3>b. 0 \notin Sids
      BY SessionAssumption DEF Sids
    <3>0. r.sid \in Sids /\ 0 \notin Sids
      BY <3>a, <3>b
    <3>1. owner[r.sid] \in Accounts /\ r.sid # 0
      BY <1>1, <2>3, <3>0 DEF OwnerInv
    <3>2. Given(r) \in Replies /\ (Given(r).is = "ok" => Given(r).account = owner[r.sid])
      BY <1>1, <1>2, <2>3, <3>1
    <3> HIDE DEF Given
    <3> QED
      BY <1>1, <2>1, <3>1, <3>2, AnswerInv DEF server, TypeOK
  <2> QED
    BY <2>2, <2>3
<1>6. CASE ServeLogin
  BY <1>6, LoginServed
<1>7. CASE ServeLogout
  <2>1. PICK r \in out : r.what = "logout" /\ alive' = alive \ {r.sid} /\ Answered(r, Says("ok")) /\ UNCHANGED <<owner, must>>
    BY <1>7 DEF ServeLogout
  <2>2. ~IsQuery(r)
    BY <2>1 DEF IsQuery
  <2> QED
    BY <1>1, <1>2, <2>1, <2>2, AnswerInv DEF TypeOK
<1>8. CASE ServeChange
  <2>1. PICK r \in out :
          /\ r.what = "change"
          /\ \/ Answered(r, Says("422")) /\ UNCHANGED server
             \/ /\ must' = must \ {owner[r.sid]}
                /\ alive' = alive \ OthersOf(owner[r.sid], r.sid)
                /\ Answered(r, Says("ok")) /\ UNCHANGED owner
    BY <1>8 DEF ServeChange
  <2>2. ~IsQuery(r)
    BY <2>1 DEF IsQuery
  <2>3. UNCHANGED owner /\ alive' \subseteq alive /\ must' \subseteq Accounts
    BY <1>1, <2>1 DEF server, TypeOK
  <2> QED
    BY <1>1, <1>2, <2>1, <2>2, <2>3, AnswerInv
<1> QED
  BY <1>3, <1>4, <1>5, <1>6, <1>7, <1>8 DEF Serve

-----------------------------------------------------------------------------
(* The person, and what happens elsewhere. *)

\* A request that is sent, which is no check.
LEMMA SendFits ==
  ASSUME SessionAssumption, Inv, NEW what \in Kinds \ {"boot"}, NEW acc \in Accounts \cup {None},
         what = "login" => acc \in Accounts,
         booting \/ bootError => what \in {"login", "public"},
         Send(Request(what, acc))
  PROVE  Fits(out', cookie, owner, booting, bootError, user, told)
<1> DEFINE new == Request(what, acc)
<1>1. new \in Requests /\ new.what = what /\ new.acc = acc /\ new.reply = None /\ new.sid = cookie
  BY DEF Request, Requests, Inv, TypeOK
<1>2. Sound(new, cookie, owner) /\ ~Counts(new)
  BY <1>1 DEF Sound, Counts, IsQuery, IsOk
<1>3. out' = out \cup {new}
  BY DEF Send
<1> HIDE DEF new
<1> QED
  BY <1>1, <1>2, <1>3 DEF Inv, Fits

LEMMA PersonInv ==
  ASSUME SessionAssumption, Inv, Person
  PROVE  Inv' /\ (user # None /\ user' = None => cache' \subseteq {Nobody})
<1>1. TypeOK /\ OwnerInv /\ CacheIsOwn /\ Fits(out, cookie, owner, booting, bootError, user, told)
  BY DEF Inv
<1>2. ASSUME UNCHANGED <<server, cookie, user, booting, bootError, path, cache, told>>,
             Fits(out', cookie, owner, booting, bootError, user, told)
      PROVE  Inv'
  BY <1>1, <1>2, HeldInv DEF TypeOK, OwnerInv, server, SessionAssumption
<1>3. CASE RetryBoot
  <2>1. Fits(NextGeneration(out), cookie, owner, FALSE, bootError, user, told)
    BY <1>1, NextGenerationFits
  <2>2. /\ \A r \in NextGeneration(out) : ~Counts(r)
        /\ \A r \in NextGeneration(out) : \E q \in out : r.what = q.what
    BY <1>1, NextGenerationOut DEF Fits
  <2>3. Boot \in Requests /\ Counts(Boot) /\ Sound(Boot, cookie, owner)
    BY <1>1, StartFits DEF TypeOK, Fits
  <2>4. out' = NextGeneration(out) \cup {Boot} /\ bootError /\ booting'
        /\ UNCHANGED <<server, cookie, user, bootError, path, cache, told>>
    BY <1>3 DEF RetryBoot
  <2>5. Boot.what = "boot"
    BY <2>3 DEF Counts
  <2>6. Fits(out', cookie, owner, TRUE, bootError, user, told)
    BY <1>1, <2>1, <2>2, <2>3, <2>4, <2>5 DEF Fits
  <2>7. booting' = TRUE
    BY <1>3 DEF RetryBoot
  <2>8. Inv'
    BY <1>1, <2>4, <2>6, <2>7, HeldInv DEF TypeOK, OwnerInv, server, SessionAssumption
  <2> QED
    BY <2>4, <2>8
<1>4. CASE SubmitLogin
  <2>1. PICK a \in Accounts : Send(Request("login", a))
    BY <1>4 DEF SubmitLogin
  <2>2. Fits(out', cookie, owner, booting, bootError, user, told)
    BY <2>1, SendFits DEF Kinds
  <2> QED
    BY <1>2, <1>4, <2>2 DEF SubmitLogin
<1>5. CASE Logout
  <2>1. Send(Request("logout", None)) /\ ~booting /\ ~bootError
    BY <1>5 DEF Logout, Signed
  <2>2. Fits(out', cookie, owner, booting, bootError, user, told)
    BY <2>1, SendFits DEF Kinds
  <2> QED
    BY <1>2, <1>5, <2>2 DEF Logout
<1>6. CASE ChangePassword
  <2>1. user # None /\ ~booting /\ ~bootError
        /\ (Send(Request("change", user.account)) \/ Send(Request("change", None)))
    BY <1>6 DEF ChangePassword
  <2>2. user.account \in Accounts
    BY <1>1, <2>1 DEF TypeOK
  <2>3. Fits(out', cookie, owner, booting, bootError, user, told)
    BY <2>1, <2>2, SendFits DEF Kinds
  <2> QED
    BY <1>2, <1>6, <2>3 DEF ChangePassword
<1>7. CASE Read
  <2>1. (Send(Request("data", None)) /\ ~booting /\ ~bootError) \/ Send(Request("public", None))
    BY <1>7 DEF Read, Signed
  <2>2. Fits(out', cookie, owner, booting, bootError, user, told)
    BY <2>1, SendFits DEF Kinds
  <2> QED
    BY <1>2, <1>7, <2>2 DEF Read
<1>8. CASE Go
  <2>1. PICK p \in Menu(user) : Show(user, booting, bootError, p, out)
    BY <1>8 DEF Go
  <2>2. UNCHANGED <<server, cookie, cache, told>>
    BY <1>8 DEF Go
  <2>3. user \in Users /\ booting \in BOOLEAN /\ bootError \in BOOLEAN /\ cookie' \in 0 .. MaxLogins
        /\ cache' \subseteq Accounts \cup {Nobody} /\ told' \in Accounts \cup {None}
    BY <1>1, <2>2 DEF TypeOK, Users
  <2>4. p \in Paths
    BY <2>3 DEF Menu, HomeOf, Paths
  <2>5. CacheIsOwn' /\ Fits(out, cookie', owner, booting, bootError, user, told')
    BY <1>1, <2>2 DEF CacheIsOwn, server
  <2>6. Inv'
    BY <1>1, <2>1, <2>2, <2>3, <2>4, <2>5, ShownInv
  <2> QED
    BY <2>1, <2>6 DEF Show
<1>9. CASE Reload
  <2>1. PICK p \in Paths : Start(p)
    BY <1>9 DEF Reload
  <2>2. Inv'
    BY <1>9, <2>1, StartInv DEF Reload
  <2> QED
    BY <2>1, <2>2 DEF Start
<1> QED
  BY <1>3, <1>4, <1>5, <1>6, <1>7, <1>8, <1>9 DEF Person, RetryBoot, SubmitLogin, Logout, ChangePassword, Read

LEMMA ElsewhereInv ==
  ASSUME SessionAssumption, Inv, Elsewhere
  PROVE  Inv' /\ UNCHANGED user
<1>1. alive' \subseteq alive /\ must' \subseteq Accounts
  BY DEF Elsewhere, SessionEnds, OthersOf, Inv, TypeOK
<1>2. UNCHANGED <<owner, cookie, user, booting, bootError, path, cache, told, out>>
  BY DEF Elsewhere
<1>3. TypeOK' /\ OwnerInv' /\ CacheIsOwn'
  BY <1>1, <1>2 DEF Inv, TypeOK, OwnerInv, CacheIsOwn
<1> QED
  BY <1>2, <1>3 DEF Inv

-----------------------------------------------------------------------------
(* The theorems. *)

LEMMA InitInv ==
  ASSUME SessionAssumption, Init
  PROVE  Inv
<1>1. 1 \in Sids /\ cookie \in 0 .. MaxLogins
  BY DEF Init, Sids, SessionAssumption
<1>2. \A s \in alive : s = 1
  <2>1. cookie \in {0, 1} /\ alive \subseteq {cookie} /\ alive # {0}
    BY DEF Init
  <2>2. CASE cookie = 0
    <3>1. 0 \notin alive
      <4>1. SUFFICES ASSUME 0 \in alive PROVE FALSE
        OBVIOUS
      <4>2. alive = {0}
        BY <2>1, <2>2, <4>1
      <4> QED
        BY <2>1, <4>2
    <3> QED
      BY <2>1, <2>2, <3>1
  <2>3. CASE cookie = 1
    BY <2>1, <2>3
  <2> QED
    BY <2>1, <2>2, <2>3
<1>3. PICK a \in Accounts : owner = [s \in Sids |-> IF s = 1 THEN a ELSE None]
  BY DEF Init
<1>4. OwnerInv /\ alive \subseteq Sids
  BY <1>1, <1>2, <1>3 DEF OwnerInv
<1>5. Fits(out, cookie, owner, booting, bootError, user, told)
  BY <1>1, StartFits DEF Init
<1>6. out \subseteq Requests
  BY <1>5 DEF Fits
<1>7. TypeOK
  BY <1>1, <1>3, <1>4, <1>6 DEF Init, TypeOK, Requests, Kinds
<1> QED
  BY <1>4, <1>5, <1>7 DEF Init, Inv, CacheIsOwn

\* One step keeps the invariant, and leaves nothing behind of who is signed out.
LEMMA StepInv ==
  ASSUME SessionAssumption, Inv, [Next]_vars
  PROVE  Inv' /\ (user # None /\ user' = None => cache' \subseteq {Nobody})
<1>1. CASE Person
  BY <1>1, PersonInv
<1>2. CASE Serve /\ UNCHANGED <<cookie, user, booting, bootError, path, cache, told>>
  BY <1>2, ServeInv DEF tab
<1>3. CASE Answers
  BY <1>3, BootStep, LoginStep, LogoutStep, ChangeStep, RefreshStep, DataStep DEF Answers
<1>4. CASE Elsewhere
  BY <1>4, ElsewhereInv
<1>5. CASE UNCHANGED vars
  <2>1. UNCHANGED <<alive, owner, must, cookie, user, booting, bootError, path, cache, told, out>>
    BY <1>5 DEF vars, server
  <2>2. TypeOK' /\ OwnerInv' /\ CacheIsOwn'
    BY <2>1 DEF Inv, TypeOK, OwnerInv, CacheIsOwn
  <2> QED
    BY <2>1, <2>2 DEF Inv
<1> QED
  BY <1>1, <1>2, <1>3, <1>4, <1>5 DEF Next

\* A tab that waits has under way what ends its waiting, whatever was answered late
\* and whoever signed in or out meanwhile (app/auth.tsx: verify, ChangePasswordPage).
THEOREM SessionHolds == Spec => []SessionInv
<1>1. Inv => SessionInv
  <2>1. Inv => BootIsRunning
    BY DEF Inv, Fits, Counts, BootIsRunning
  <2>2. Inv => ChangedIsThrough
    <3> SUFFICES ASSUME Inv, user # None, told = user.account
                 PROVE  \E r \in out : r.what = "refresh"
      BY DEF ChangedIsThrough
    <3>1. user.account \in Accounts
      BY DEF Inv, TypeOK
    <3>2. told # None
      BY <3>1, SessionAssumption
    <3> QED
      BY <3>2 DEF Inv, Fits
  <2> QED
    BY <2>1, <2>2 DEF Inv, SessionInv
<1>2. Init => Inv
  BY InitInv, SessionAssumption
<1>3. Inv /\ [Next]_vars => Inv'
  BY StepInv, SessionAssumption
<1> QED
  BY <1>1, <1>2, <1>3, PTL DEF Spec

\* What is cached of an account was fetched in the session the browser names: whoever
\* signs in next does not find it (app/auth.tsx: login, logout, expire).
THEOREM CacheStaysOwn == Spec => []CacheIsOwn
<1>1. Inv => CacheIsOwn
  BY DEF Inv
<1>2. Init => Inv
  BY InitInv, SessionAssumption
<1>3. Inv /\ [Next]_vars => Inv'
  BY StepInv, SessionAssumption
<1> QED
  BY <1>1, <1>2, <1>3, PTL DEF Spec

\* When the tab stops believing someone signed in, nothing fetched as them stays
\* (app/auth.tsx: logout, expire).
THEOREM LeavesNothing == Spec => LeavingIsClean
<1>1. Inv /\ [Next]_vars => [user # None /\ user' = None => cache' \subseteq {Nobody}]_vars
  BY StepInv, SessionAssumption
<1>2. Init => Inv
  BY InitInv, SessionAssumption
<1>3. Inv /\ [Next]_vars => Inv'
  BY StepInv, SessionAssumption
<1> QED
  BY <1>1, <1>2, <1>3, PTL DEF Spec, LeavingIsClean
=============================================================================
