------------------------ MODULE PreparedApplication ------------------------
(***************************************************************************)
(* What one approved AI decision turns into: the prepared application      *)
(* record fixes, before anything is written, which records go to which     *)
(* execution log.  The pipeline appends them one at a time, interleaving   *)
(* the three logs; the completion receipt later demands the exact suffix   *)
(* of every log.  The two orders are translated separately, so that a      *)
(* disagreement between them would be visible.                             *)
(***************************************************************************)
EXTENDS Naturals, Sequences, SequencesExt

(* The three execution logs, ranked by their canonical paths:              *)
(* audit-events.jsonl, virtual-decisions.jsonl, virtual-trades.jsonl.      *)
Logs == {"audit", "decision", "trade"}
LogRank == [audit |-> 1, decision |-> 2, trade |-> 3]

(* What the order engine makes of one decision item: a risk rejection, an  *)
(* approval without a fill (no-op), or an approval with a paper trade.     *)
StepKinds == {"rejected", "noOp", "filled"}

Events == {"DECISION", "TRADE", "VIRTUAL_DECISION_RECORDED",
           "VIRTUAL_RISK_APPROVED", "VIRTUAL_RISK_REJECTED",
           "PAPER_ORDER_FILLED"}
Effects == [log : Logs, event : Events]

Effect(l, e) == [log |-> l, event |-> e]

RiskEvent(kind) == IF kind = "rejected" THEN "VIRTUAL_RISK_REJECTED"
                                        ELSE "VIRTUAL_RISK_APPROVED"

(* Defect: the order is filled before its risk decision is recorded.       *)
StepScriptFillFirst(kind) ==
  (IF kind = "filled"
     THEN <<Effect("trade", "TRADE"), Effect("audit", "PAPER_ORDER_FILLED")>>
     ELSE <<>>) \o
  <<Effect("audit", RiskEvent(kind))>>

(* applyPreparedApplication: decision first, then the recorded audit, then *)
(* per step the risk audit and, for a fill, the trade and its audit.       *)
StepScript(kind) ==
  <<Effect("audit", RiskEvent(kind))>> \o
  (IF kind = "filled"
     THEN <<Effect("trade", "TRADE"), Effect("audit", "PAPER_ORDER_FILLED")>>
     ELSE <<>>)

ApplicationScript(decision) ==
  <<Effect("decision", "DECISION"),
    Effect("audit", "VIRTUAL_DECISION_RECORDED")>> \o
  FlattenSeq([i \in DOMAIN decision |-> StepScript(decision[i])])

(* The suffix verifySuffix expects of each log: the audit events in the    *)
(* order preparePaperApplication built them, the one decision, the trades  *)
(* of the steps that have one.                                             *)
StepAudits(kind) ==
  <<RiskEvent(kind)>> \o
  (IF kind = "filled" THEN <<"PAPER_ORDER_FILLED">> ELSE <<>>)

StepTrades(kind) == IF kind = "filled" THEN <<"TRADE">> ELSE <<>>

ExpectedSuffix(decision, l) ==
  CASE l = "audit" ->
         <<"VIRTUAL_DECISION_RECORDED">> \o
         FlattenSeq([i \in DOMAIN decision |-> StepAudits(decision[i])])
    [] l = "decision" -> <<"DECISION">>
    [] l = "trade" ->
         FlattenSeq([i \in DOMAIN decision |-> StepTrades(decision[i])])
=============================================================================
