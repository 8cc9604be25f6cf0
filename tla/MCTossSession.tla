--------------------------- MODULE MCTossSession ---------------------------
(***************************************************************************)
(* Symmetry of the requests of TossSession.  Not for liveness.             *)
(***************************************************************************)
EXTENDS TossSession, TLC

MCSymmetry == Permutations(Requests)
=============================================================================
