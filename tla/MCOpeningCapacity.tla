------------------------- MODULE MCOpeningCapacity -------------------------
(***************************************************************************)
(* Symmetry of the portfolios of OpeningCapacity.                          *)
(***************************************************************************)
EXTENDS OpeningCapacity, TLC

MCSymmetry == Permutations(Portfolios)
=============================================================================
