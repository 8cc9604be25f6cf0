----------------------- MODULE PaperApplicationLedger -----------------------
(***************************************************************************)
(* The file protocol of PaperApplication implements PortfolioLedger.  The  *)
(* commit point is the journal append: an intact entry is a revision of    *)
(* the ledger, a torn last line is not.                                    *)
(***************************************************************************)
EXTENDS PaperApplication

Intact == IF journal # <<>> /\ Last(journal) = Torn THEN Front(journal)
                                                   ELSE journal

LedgerOrigin == IF Intact = <<>> THEN projection ELSE Intact[1].basis
LedgerRevisions ==
  [i \in DOMAIN Intact |-> [portfolio |-> Intact[i].portfolio,
                            signed |-> Intact[i].application]]

(* A revision hash stands for its position in the ledger.                  *)
PositionOf(revision) == IF revision = NoRevision THEN 0 ELSE revision[1]
ObservedBy(p) == [portfolio |-> seen[p].portfolio,
                  length |-> PositionOf(seen[p].revision)]

Ledger == INSTANCE PortfolioLedger WITH
  Runners <- Runs,
  RevisionClients <- SnapshotUpdates,
  ValueClients <- ValueUpdates,
  BlindClients <- Writers,
  Unsigned <- NoApplication,
  origin <- LedgerOrigin,
  ledger <- LedgerRevisions,
  observed <- [p \in Procs |-> ObservedBy(p)]

(* Every behaviour of the file protocol, faults included, is one of the    *)
(* ledger: readers only ever observe its current value, and every update   *)
(* appends in one step to what it was entitled to append to; a revision    *)
(* signed by a run rests on the very revision that run observed.           *)
ImplementsLedger == Ledger!Spec
=============================================================================
