---------------------------- MODULE MCClientPages ----------------------------
(***************************************************************************)
(* Eight pages of the client for TLC: what cannot be written in a          *)
(* configuration.  One field that is required and kept by the server as it *)
(* was typed or otherwise; two clubs for each of the pages about clubs.    *)
(***************************************************************************)
EXTENDS ClientPages, TLC

\* A value the server keeps differently.
PlainOf(v) == IF v = "X" THEN "x" ELSE v

\* Two clubs, and a third name to give to either.
TwoTitles == <<"a", "b">>

\* An account with a key the page does not know of, one not yet made, a club with
\* records and one without an account.
Account(life, user, data, keys) ==
    [life |-> life, active |-> life = "there", user |-> user, data |-> data, keys |-> keys, pw |-> 0]
FourAccounts ==
    "official" :> Account("there", TRUE, FALSE, {"k", "x"}) @@ "reader" :> Account("unmade", FALSE, FALSE, {})
    @@ "chess" :> Account("there", TRUE, TRUE, {}) @@ "choir" :> Account("there", FALSE, FALSE, {})

\* Two clubs, neither of them scored.
ChessAndChoir == <<"chess", "choir">>
NoScores == [c \in {"chess", "choir"} |-> [items |-> "plan" :> None, pres |-> None]]
=============================================================================
