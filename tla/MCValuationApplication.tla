----------------------- MODULE MCValuationApplication -----------------------
(***************************************************************************)
(* Values for the constants of ValuationApplication: times, and the        *)
(* position that is changed.                                               *)
(***************************************************************************)
EXTENDS ValuationApplicationInvariants, ValuationApplicationLedger

CONSTANTS x, y

(* Runs value, marks are stored and equity events happen at 2, position    *)
(* events at 1: times that are tied, and times that are not.               *)
MCAsOf == [p \in Procs |-> IF p \in PositionWriters THEN 1 ELSE 2]
MCItemOf == [p \in PositionWriters |-> x]
=============================================================================
