-------------------------- MODULE MCDecisionProcess --------------------------
(* One run a day on two days; a stream may carry one byte more than its    *)
(* limit, and one byte of stdout is already a valid answer.                *)
EXTENDS DecisionProcess

MCLimit == [s \in Streams |-> IF s = "stdout" THEN 2 ELSE 1]
MCMaxWritten == [s \in Streams |-> MCLimit[s] + 1]

=============================================================================
