---------------------------- MODULE ClientSession ----------------------------
(***************************************************************************)
(* Who one browser tab believes is signed in.  The tab asks the server at  *)
(* start-up, signs in and out, changes passwords, and is told by any       *)
(* request answered 401 that its session is over; the answers arrive in    *)
(* any order, or never, while sessions end and passwords are reset         *)
(* elsewhere.  What the cache holds was fetched as someone, and must not   *)
(* outlive them.  Other tabs do not share the cookie here.                 *)
(***************************************************************************)
EXTENDS Naturals, FiniteSets

CONSTANTS
    Accounts,
    Clubs,      \* the accounts of clubs; the others are administrators'
    MaxLogins,  \* bound: sessions ever made
    MaxOut,     \* bound: requests that are not answered
    None

ASSUME SessionAssumption ==
    /\ Clubs \subseteq Accounts /\ None \notin Accounts /\ None \notin [account: Accounts, must: BOOLEAN]
    /\ MaxLogins \in Nat \ {0} /\ MaxOut \in Nat \ {0}

VARIABLES
    alive,      \* the sessions the server keeps
    owner,      \* whose each session is or was
    must,       \* the accounts that have to change their password first
    cookie,     \* the session the browser names in its requests; 0 is none
    user,       \* whom the tab believes signed in: [account, must], or None
    booting,    \* the tab does not know yet, and shows nothing
    bootError,  \* it could not find out
    path,
    cache,      \* as whom the data in the cache was fetched
    told,       \* the account whose password the tab says is changed, while it reads the account again
    out         \* requests on their way

server == <<alive, owner, must>>
vars == <<server, cookie, user, booting, bootError, path, cache, told, out>>

Nobody == "nobody"     \* as whom the public pages are fetched without a session
Sids == 1 .. MaxLogins
Paths == {"/", "/availability", "/login", "/change-password", "/admin"}

\* A request: the session it names; the account it is about; whether the page that
\* sent it is still there; whether its answer still counts (the generation of a
\* start-up check, the query of data); and the answer, once the server has served it.
Request(what, acc) == [what |-> what, sid |-> cookie, acc |-> acc, here |-> what \in {"login", "change"}, valid |-> TRUE, reply |-> None]
Boot == Request("boot", None)

TypeOK ==
    /\ alive \subseteq Sids /\ owner \in [Sids -> Accounts \cup {None}] /\ must \subseteq Accounts /\ cookie \in 0 .. MaxLogins
    /\ user = None \/ user \in [account: Accounts, must: BOOLEAN]
    /\ booting \in BOOLEAN /\ bootError \in BOOLEAN /\ path \in Paths
    /\ cache \subseteq Accounts \cup {Nobody} /\ told \in Accounts \cup {None}
    /\ \A r \in out : r.what \in {"boot", "login", "logout", "change", "refresh", "data", "public"}

(***************************************************************************)
(* Where one is let in.                                                    *)
(***************************************************************************)
HomeOf(account) == IF account \in Clubs THEN "/" ELSE "/admin"

\* A page of one role: without an account to the login page, to the change of the
\* password first, and from another role's page to one's own.
RequireRole(accounts, p, u, b, e) ==
    IF e \/ b THEN p
    ELSE IF u = None THEN "/login"
    ELSE IF u.must THEN "/change-password"
    ELSE IF u.account \notin accounts THEN HomeOf(u.account) ELSE p

RequireAuth(p, u, b, e) == IF ~e /\ ~b /\ u = None THEN "/login" ELSE p

\* The clubs' home is a public page while nobody is signed in.
ClubArea(p, u, b, e) == IF ~b /\ u = None /\ p = "/" THEN p ELSE RequireRole(Clubs, p, u, b, e)

Gate(p, u, b, e) ==
    CASE p = "/" -> ClubArea(p, u, b, e)
      [] p = "/admin" -> RequireRole(Accounts \ Clubs, p, u, b, e)
      [] p = "/change-password" -> RequireAuth(p, u, b, e)
      [] OTHER -> p

Land(p, u, b, e) == Gate(Gate(p, u, b, e), u, b, e)

\* What the tab believes and where it is, after which a page it has left is gone.
Show(u, b, e, p, requests) ==
    /\ user' = u /\ booting' = b /\ bootError' = e
    /\ path' = Land(p, u, b, e)
    /\ out' = IF path' = path THEN requests ELSE {[r EXCEPT !.here = FALSE] : r \in requests}

\* Inside the shell of one's role.
Signed == user # None /\ ~booting /\ ~bootError /\ path \in {"/", "/admin"}

(***************************************************************************)
(* The cache, cleared: queries on their way are gone with it.              *)
(***************************************************************************)
Cleared(requests) == {[r EXCEPT !.valid = @ /\ r.what \notin {"data", "public"}] : r \in requests}

\* The generation moves on: start-up checks on their way no longer count.
NextGeneration(requests) == {[r EXCEPT !.valid = @ /\ r.what # "boot"] : r \in requests}

(***************************************************************************)
(* The tab starts at any address, with a session of before or none.        *)
(***************************************************************************)
Start(p) ==
    /\ user' = None /\ booting' = TRUE /\ bootError' = FALSE /\ path' = p
    /\ cache' = {} /\ told' = None /\ out' = {Boot}

Init ==
    /\ cookie \in {0, 1} /\ alive \in (SUBSET {cookie}) \ {{0}} /\ must = {}
    /\ \E a \in Accounts : owner = [s \in Sids |-> IF s = 1 THEN a ELSE None]
    /\ user = None /\ booting = TRUE /\ bootError = FALSE
    /\ path \in Paths /\ cache = {} /\ told = None /\ out = {Boot}

Reload == /\ \E p \in Paths : Start(p)
          /\ UNCHANGED <<server, cookie>>

(***************************************************************************)
(* The server.                                                             *)
(***************************************************************************)
Unserved(r) == r \in out /\ r.reply = None
Answered(r, reply) == out' = (out \ {r}) \cup {[r EXCEPT !.reply = reply]}

\* An answer: its status, and the account it is about or was given to.
Says(status) == [is |-> status, account |-> None, must |-> FALSE]
Me(account) == [is |-> "ok", account |-> account, must |-> account \in must]

\* A session that has ended is refused.
Refuse ==
    \E r \in out :
      /\ Unserved(r) /\ r.what \in {"boot", "refresh", "logout", "change", "data"} /\ r.sid \notin alive
      /\ Answered(r, Says("401")) /\ UNCHANGED server

ServeMe ==
    \E r \in out :
      /\ Unserved(r) /\ r.what \in {"boot", "refresh"} /\ r.sid \in alive
      /\ Answered(r, Me(owner[r.sid])) /\ UNCHANGED server

\* A public page's data is given to anyone, with one's own marked for who is known.
ServeData ==
    \E r \in out :
      /\ Unserved(r) /\ r.what \in {"data", "public"}
      /\ r.what = "data" => r.sid \in alive
      /\ Answered(r, IF r.sid \notin alive THEN [Says("ok") EXCEPT !.account = Nobody]
                     ELSE IF r.what = "data" /\ owner[r.sid] \in must THEN Says("403") ELSE Me(owner[r.sid]))
      /\ UNCHANGED server

ServeLogin ==
    \E r \in out :
      /\ Unserved(r) /\ r.what = "login"
      /\ \/ Answered(r, Says("401")) /\ UNCHANGED server
         \/ \E s \in Sids :
              /\ owner[s] = None
              /\ alive' = alive \cup {s} /\ owner' = [owner EXCEPT ![s] = r.acc]
              /\ out' = (out \ {r}) \cup {[r EXCEPT !.sid = s, !.reply = Me(r.acc)]}
              /\ UNCHANGED must

ServeLogout ==
    \E r \in out :
      /\ Unserved(r) /\ r.what = "logout" /\ r.sid \in alive
      /\ alive' = alive \ {r.sid} /\ Answered(r, Says("ok")) /\ UNCHANGED <<owner, must>>

OthersOf(account, s) == {t \in alive : owner[t] = account /\ t # s}

\* The other sessions of the account end with its old password.
ServeChange ==
    \E r \in out :
      /\ Unserved(r) /\ r.what = "change" /\ r.sid \in alive
      /\ \/ Answered(r, Says("422")) /\ UNCHANGED server
         \/ /\ must' = must \ {owner[r.sid]}
            /\ alive' = alive \ OthersOf(owner[r.sid], r.sid)
            /\ Answered(r, Says("ok")) /\ UNCHANGED owner

Serve == Refuse \/ ServeMe \/ ServeData \/ ServeLogin \/ ServeLogout \/ ServeChange

\* A session expires; or the account's password is reset by an official, or changed
\* on another device, which ends all of its sessions.
SessionEnds ==
    \/ \E s \in alive : alive' = alive \ {s} /\ UNCHANGED must
    \/ \E a \in Accounts : /\ alive' = alive \ OthersOf(a, 0) /\ alive' # alive
                           /\ must' \in {must \cup {a}, must \ {a}}

Elsewhere == SessionEnds /\ UNCHANGED <<owner, cookie, user, booting, bootError, path, cache, told, out>>

(***************************************************************************)
(* What the person does.                                                   *)
(***************************************************************************)
Send(request) ==
    /\ Cardinality(out) < MaxOut
    /\ out' = out \cup {request}

\* A form is disabled while what it sent is on its way.
Submitting == \E r \in out : r.here /\ r.what \in {"login", "change", "refresh"}

\* "Retry", where nobody could be asked who is signed in.
RetryBoot ==
    /\ bootError /\ ~booting /\ path \notin {"/login", "/availability"} /\ ~(path = "/" /\ user = None)
    /\ booting' = TRUE
    /\ out' = NextGeneration(out) \cup {Boot}
    /\ UNCHANGED <<server, cookie, user, bootError, path, cache, told>>

\* Anyone may open the login page, whoever is signed in.
SubmitLogin ==
    /\ path = "/login" /\ ~Submitting
    /\ \E a \in Accounts : Send(Request("login", a))
    /\ UNCHANGED <<server, cookie, user, booting, bootError, path, cache, told>>

Logout ==
    /\ Signed \/ (path = "/change-password" /\ user # None /\ ~booting /\ ~bootError)
    /\ Send(Request("logout", None))
    /\ UNCHANGED <<server, cookie, user, booting, bootError, path, cache, told>>

\* On the page, for which the account's home is remembered, or in the dialog of the shell.
ChangePassword ==
    /\ ~Submitting /\ user # None /\ ~booting /\ ~bootError
    /\ \/ path = "/change-password" /\ Send(Request("change", user.account))
       \/ Signed /\ Send(Request("change", None))
    /\ UNCHANGED <<server, cookie, user, booting, bootError, path, cache, told>>

\* A page reads its data.
Read ==
    /\ \/ Signed /\ Send(Request("data", None))
       \/ path = "/availability" /\ Send(Request("public", None))
    /\ UNCHANGED <<server, cookie, user, booting, bootError, path, cache, told>>

\* A link, an item of the menu, the way back.
Menu(u) == {"/", "/availability", "/login"} \cup (IF u = None THEN {} ELSE {HomeOf(u.account)})

Go ==
    /\ \E p \in Menu(user) \ {path} : Show(user, booting, bootError, p, out)
    /\ UNCHANGED <<server, cookie, cache, told>>

(***************************************************************************)
(* The answers.  An answer is the server's, or a failure of the way there  *)
(* or back.                                                                *)
(***************************************************************************)
Reply(r) == {Says("failed")} \cup (IF r.reply = None THEN {} ELSE {r.reply})

AsUser(reply) == [account |-> reply.account, must |-> reply.must]

\* Any request answered 401 says so to the tab, at once: if someone is signed in, they
\* are no longer, and what was fetched as them is gone.
Expire(requests, b, e) ==
    IF user = None
    THEN Show(None, b, e, path, requests) /\ UNCHANGED <<cache, told>>
    ELSE Show(None, b, FALSE, path, Cleared(requests)) /\ cache' = {} /\ told' = None

\* Of a start-up check, the answer of the current generation counts.
BootArrives ==
    /\ \E r \in out : \E reply \in Reply(r) :
         LET rest == out \ {r} IN
         /\ r.what = "boot"
         /\ IF reply.is = "401"
            THEN IF r.valid THEN Expire(rest, FALSE, FALSE) ELSE Expire(rest, booting, bootError)
            ELSE /\ IF ~r.valid THEN Show(user, booting, bootError, path, rest)
                    ELSE IF reply.is = "failed" THEN Show(None, FALSE, TRUE, path, rest)
                    ELSE Show(AsUser(reply), FALSE, FALSE, path, rest)
                 /\ UNCHANGED <<cache, told>>
    /\ UNCHANGED <<server, cookie>>

Landing(next) == IF next.must THEN "/change-password" ELSE HomeOf(next.account)

\* Mutant: signing in leaves the blank of the start-up.
SignInStaysBlank(next, requests) ==
    Show(next, booting, FALSE, Landing(next), NextGeneration(Cleared(requests))) /\ cache' = {}

\* Mutant: the cache of whoever was there before is kept.
SignInKeepsCache(next, requests) ==
    Show(next, FALSE, FALSE, Landing(next), NextGeneration(requests)) /\ UNCHANGED cache

SignIn(next, requests) ==
    Show(next, FALSE, FALSE, Landing(next), NextGeneration(Cleared(requests))) /\ cache' = {}

\* The tab has a new user; or the login page says what was wrong.
LoginArrives ==
    /\ \E r \in out : \E reply \in Reply(r) :
         /\ r.what = "login"
         /\ IF reply.is = "ok"
            THEN SignIn(AsUser(reply), out \ {r}) /\ cookie' = r.sid /\ told' = None
            ELSE out' = out \ {r} /\ UNCHANGED <<cookie, user, booting, bootError, path, cache, told>>
    /\ UNCHANGED server

\* Mutant: whoever leaves, leaves the cache as it is.
SignOutKeepsCache(requests) ==
    Show(None, FALSE, FALSE, "/login", NextGeneration(requests)) /\ UNCHANGED cache

SignOut(requests) == Show(None, FALSE, FALSE, "/login", NextGeneration(Cleared(requests))) /\ cache' = {}

\* Signed out, whatever the server answered.
LogoutArrives ==
    /\ \E r \in out : \E reply \in Reply(r) :
         /\ r.what = "logout"
         /\ SignOut(out \ {r}) /\ told' = None
         /\ cookie' = IF reply.is = "ok" THEN 0 ELSE cookie
    /\ UNCHANGED server

\* Changed: the account is read again, the page waiting for it.
ChangeArrives ==
    /\ \E r \in out : \E reply \in Reply(r) :
         LET rest == out \ {r} IN
         /\ r.what = "change"
         /\ IF reply.is = "ok"
            THEN /\ told' = IF r.acc # None THEN r.acc ELSE told
                 /\ out' = rest \cup {[Request("refresh", r.acc) EXCEPT !.here = r.here]}
                 /\ UNCHANGED <<user, booting, bootError, path, cache>>
            ELSE IF reply.is = "401" THEN Expire(rest, booting, bootError)
            ELSE out' = rest /\ UNCHANGED <<user, booting, bootError, path, cache, told>>
    /\ UNCHANGED <<server, cookie>>

\* Without the account, the page loads everything again.
GivesUp(account) == Start(HomeOf(account))

\* The account as it is now, whoever is signed in by then.
RefreshArrives ==
    /\ \E r \in out : \E reply \in Reply(r) :
         LET rest == out \ {r} IN
         /\ r.what = "refresh"
         /\ IF reply.is = "ok"
            THEN Show(AsUser(reply), booting, bootError, IF r.acc = None THEN path ELSE HomeOf(r.acc), rest) /\ told' = None /\ UNCHANGED cache
            ELSE IF r.acc # None THEN GivesUp(r.acc)
            ELSE IF reply.is = "401" THEN Expire(rest, booting, bootError)
            ELSE out' = rest /\ UNCHANGED <<user, booting, bootError, path, cache, told>>
    /\ UNCHANGED <<server, cookie>>

\* Data whose query is gone goes nowhere; but its 401 is heard.
DataArrives ==
    /\ \E r \in out : \E reply \in Reply(r) :
         LET rest == out \ {r} IN
         /\ r.what \in {"data", "public"}
         /\ IF reply.is = "401" THEN Expire(rest, booting, bootError)
            ELSE /\ out' = rest
                 /\ cache' = IF r.valid /\ reply.is = "ok" THEN cache \cup {reply.account} ELSE cache
                 /\ UNCHANGED <<user, booting, bootError, path, told>>
    /\ UNCHANGED <<server, cookie>>

Person == RetryBoot \/ SubmitLogin \/ Logout \/ ChangePassword \/ Read \/ Go \/ Reload
Answers == BootArrives \/ LoginArrives \/ LogoutArrives \/ ChangeArrives \/ RefreshArrives \/ DataArrives

Next ==
    \/ Person
    \/ Serve /\ UNCHANGED <<cookie, user, booting, bootError, path, cache, told>>
    \/ Answers
    \/ Elsewhere

Spec == Init /\ [][Next]_vars

(***************************************************************************)
(* What must hold.                                                         *)
(***************************************************************************)
\* The blank of the start-up ends: while the tab shows nothing (app/auth.tsx: booting),
\* a check whose answer counts is on its way, whatever signing in or out and a retry
\* have done to the generation meanwhile.
BootIsRunning == booting => \E r \in out : r.what = "boot" /\ r.valid

\* Whatever is cached of an account was fetched in the session the browser now names:
\* who signs in after another, on the page that never asked who was there, does not
\* find the other's data, not even an answer that was on its way (app/auth.tsx: login).
CacheIsOwn == \A a \in cache \ {Nobody} : cookie # 0 /\ owner[cookie] = a

\* When the tab stops believing someone signed in, by signing out, by a 401 of any
\* request or by starting again, nothing fetched as them stays for whoever looks next
\* (app/auth.tsx: expire, logout).
LeavingIsClean == [][user # None /\ user' = None => cache' \subseteq {Nobody}]_vars

\* Who is told that the password is changed is let in: the tab goes on believing that it
\* has to be changed only while the account is being read again
\* (features/auth/ChangePasswordPage.tsx: submit).
ChangedIsThrough ==
    user # None /\ user.must /\ told = user.account => \E r \in out : r.what = "refresh"

\* A tab that waits has under way what ends its waiting.
SessionInv == TypeOK /\ BootIsRunning /\ ChangedIsThrough

\* The answer of a start-up check that no longer counts signs nobody out.  It does: its
\* 401 is heard before the generation is looked at.
LateVerifyKeepsUser ==
    [][\A r \in out : r.what = "boot" /\ ~r.valid /\ user # None /\ out \ out' = {r}
                        => user' # None \/ booting']_vars
=============================================================================
