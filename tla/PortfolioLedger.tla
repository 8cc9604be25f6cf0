-------------------------- MODULE PortfolioLedger --------------------------
(***************************************************************************)
(* What the portfolio store promises its clients, without files, locks or  *)
(* failures: one ledger of portfolio values that grows by whole revisions, *)
(* each appended by one client in one step.  A client may look at the      *)
(* ledger at any time; an update that compares appends only if the ledger  *)
(* still is what the client saw.  Which part of it is compared is what     *)
(* distinguishes the operations of the store.                              *)
(***************************************************************************)
EXTENDS Naturals, Sequences

CONSTANTS
  Runners,          \* compare the whole revision and sign theirs
  RevisionClients,  \* compare the whole revision
  ValueClients,     \* compare the portfolio value only
  BlindClients,     \* compare nothing
  Portfolios, NoPortfolio, Unsigned

Clients == Runners \cup RevisionClients \cup ValueClients \cup BlindClients

VARIABLES
  origin,     \* the portfolio value that precedes the ledger
  ledger,     \* the committed revisions, oldest first: value and signature
  observed    \* what each client saw: a value and the length of the ledger

vars == <<origin, ledger, observed>>

Current == IF ledger = <<>> THEN origin ELSE ledger[Len(ledger)].portfolio
Observation == [portfolio |-> Current, length |-> Len(ledger)]

Init ==
  /\ origin \in Portfolios \cup {NoPortfolio}
  /\ ledger = <<>>
  /\ observed = [c \in Clients |-> [portfolio |-> NoPortfolio, length |-> 0]]

(* readSnapshot *)
Observe(c) ==
  /\ observed' = [observed EXCEPT ![c] = Observation]
  /\ UNCHANGED <<origin, ledger>>

UpToDate(c) ==
  /\ c \in Runners \cup RevisionClients => observed[c] = Observation
  /\ c \in ValueClients => observed[c].portfolio = Current

Signature(c) == IF c \in Runners THEN c ELSE Unsigned

(* write, withExclusiveUpdate, withExclusiveSnapshotUpdate and             *)
(* withLoggedPreparedApplication, seen as one step                         *)
Commit(c) ==
  /\ UpToDate(c)
  /\ \E v \in Portfolios :
       ledger' = Append(ledger, [portfolio |-> v, signed |-> Signature(c)])
  /\ UNCHANGED <<origin, observed>>

Next == \E c \in Clients : Observe(c) \/ Commit(c)

Spec == Init /\ [][Next]_vars
=============================================================================
