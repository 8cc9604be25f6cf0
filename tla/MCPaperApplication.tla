------------------------- MODULE MCPaperApplication -------------------------
(***************************************************************************)
(* Values for the constants of PaperApplication.  A decision that fills    *)
(* one order, and a choice between one without any step and a longer one   *)
(* with a rejection, a fill and a no-op.                                   *)
(***************************************************************************)
EXTENDS PaperApplicationInvariants

MCFill == {<<"filled">>}
MCDecisions == {<<>>, <<"rejected", "filled", "noOp">>}

MCRunSymmetry == Permutations(Runs)
=============================================================================
