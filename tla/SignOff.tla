------------------------------- MODULE SignOff -------------------------------
(***************************************************************************)
(* What the signing of an activity promises, without its transactions:     *)
(* three officials sign one after the other, neighbours are different      *)
(* people, a refusal voids every signature, and an activity for which no   *)
(* money is granted is settled by the first.  ActivityWorkflow implements  *)
(* it.                                                                     *)
(***************************************************************************)
CONSTANTS
    Official,
    Keys       \* the stages each official may sign

VARIABLES
    phase,
    signed,    \* the standing signatures: <<stage, official>>
    paid       \* money is granted

signOffVars == <<phase, signed, paid>>

Init == phase = "open" /\ signed = {} /\ paid = FALSE

Ask ==
    /\ phase = "open"
    /\ phase' = "review"
    /\ UNCHANGED <<signed, paid>>

SignFirst(u) ==
    /\ phase = "review" /\ signed = {} /\ "advisor" \in Keys[u]
    /\ signed' = {<<"advisor", u>>}
    /\ paid' \in BOOLEAN
    /\ phase' = IF paid' THEN "review" ELSE "granted"

SignSecond(u) ==
    /\ phase = "review" /\ "chief" \in Keys[u]
    /\ \E a \in Official \ {u} : /\ signed = {<<"advisor", a>>}
                                 /\ signed' = signed \cup {<<"chief", u>>}
    /\ UNCHANGED <<phase, paid>>

SignLast(u) ==
    /\ phase = "review" /\ "dean" \in Keys[u]
    /\ \E a \in Official, c \in Official \ {u} :
          /\ signed = {<<"advisor", a>>, <<"chief", c>>}
          /\ signed' = signed \cup {<<"dean", u>>}
    /\ phase' = "granted"
    /\ UNCHANGED paid

Refuse ==
    /\ phase = "review"
    /\ phase' = "open" /\ signed' = {} /\ paid' = FALSE

\* The closing report is handed in, sent back, accepted.
Close ==
    /\ <<phase, phase'>> \in {<<"granted", "closing">>, <<"closing", "granted">>, <<"closing", "closed">>}
    /\ UNCHANGED <<signed, paid>>

Remove == phase' = "gone" /\ signed' = {} /\ paid' = FALSE

Next ==
    \/ Ask \/ Refuse \/ Close \/ Remove
    \/ \E u \in Official : SignFirst(u) \/ SignSecond(u) \/ SignLast(u)

Spec == Init /\ [][Next]_signOffVars
=============================================================================
