---------------------- MODULE MCPaperApplicationLedger ----------------------
(***************************************************************************)
(* Constants for checking that the file protocol implements the ledger.    *)
(***************************************************************************)
EXTENDS PaperApplicationLedger

MCDecisions == {<<"filled">>}
=============================================================================
