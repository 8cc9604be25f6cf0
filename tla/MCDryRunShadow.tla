--------------------------- MODULE MCDryRunShadow ---------------------------
(***************************************************************************)
(* One order evaluated twice, and one whose evaluation is not approved.    *)
(***************************************************************************)
EXTENDS DryRunShadowOrders, TLC

CONSTANTS first, again, refused, order, other, s1, s2

MCEvaluations == {first, again, refused}
MCApproved == {first, again}
MCIntentHash == (first :> order) @@ (again :> order) @@ (refused :> other)
MCSymmetry == Permutations({first, again}) \cup Permutations({s1, s2})
=============================================================================
