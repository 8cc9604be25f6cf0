--------------------- MODULE ValuationApplicationLedger ---------------------
(***************************************************************************)
(* The repositories of ValuationApplication implement ValuationLedger.     *)
(* The commit point of a valuation is the transaction file of the          *)
(* aggregate repository, that of a single event is its complete line.      *)
(***************************************************************************)
EXTENDS ValuationApplication

Ledger == INSTANCE ValuationLedger WITH Readers <- Procs, logs <- Committed

(* Every behaviour of the files, faults and repeated calls included, is    *)
(* one of the ledger: a valuation appears as a whole and on the heads it   *)
(* was computed from, and no reader sees a part of one.                    *)
ImplementsLedger == Ledger!Spec
=============================================================================
