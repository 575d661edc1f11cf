------------------------------- MODULE Judge -------------------------------
(***************************************************************************)
(* What a verifier promises: whoever asks about a piece of evidence gets   *)
(* the same answer, and the answer is "valid" only if the claim holds.     *)
(***************************************************************************)
CONSTANT Rejections      \* the answers that are not "valid"

VARIABLES
  claim,       \* whether the claim holds
  answers      \* the answers given so far

Init == claim \in BOOLEAN /\ answers = {}

Answer(a) ==
  /\ answers = {}
  /\ a = "valid" => claim
  /\ answers' = {a}
  /\ UNCHANGED claim

Next == \E a \in Rejections \cup {"valid"} : Answer(a)

Spec == Init /\ [][Next]_<<claim, answers>>
=============================================================================
