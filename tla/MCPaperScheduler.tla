-------------------------- MODULE MCPaperScheduler --------------------------
(***************************************************************************)
(* Symmetry of the invocations of PaperScheduler, which are never compared *)
(* with anything but each other.                                           *)
(***************************************************************************)
EXTENDS PaperScheduler, TLC

MCSymmetry == Permutations(Invocations)
=============================================================================
