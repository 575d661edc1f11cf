------------------------------ MODULE JobVerdict ------------------------------
(***************************************************************************)
(* What a public job promises to everybody who looks at it: it announces   *)
(* the truth about its formula or nothing, and only its owner takes an     *)
(* announcement back.                                                      *)
(***************************************************************************)
CONSTANTS Satisfiable,  \* whether the uploaded formula has a model
          Parses        \* whether what was uploaded is a formula at all

VARIABLE verdict

Truth == IF ~Parses THEN "INVALID" ELSE IF Satisfiable THEN "SAT" ELSE "UNSAT"

TypeOK == verdict \in {"OPEN", Truth, "CANCELLED", "DELETED"}

Init == verdict = "OPEN"

\* A verification under way when the owner cancels may still be announced.
Announce ==
    /\ verdict \in {"OPEN", "CANCELLED"}
    /\ verdict' = Truth

Cancel ==
    /\ verdict # "DELETED"
    /\ verdict' = "CANCELLED"

Expire == verdict' = "DELETED"

Next == Announce \/ Cancel \/ Expire

Spec == Init /\ [][Next]_verdict

=============================================================================
