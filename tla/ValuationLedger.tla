-------------------------- MODULE ValuationLedger --------------------------
(***************************************************************************)
(* What the repositories of a bucket promise together, without files,      *)
(* locks or failures: three logs; a valuation enters all of them in one    *)
(* step, and only while the position heads are those it was computed from; *)
(* anything else enters one log at its end.  A reader sees the logs as     *)
(* they are, any of them on its own or all at the same moment.             *)
(***************************************************************************)
EXTENDS Integers, SequencesExt

CONSTANTS Readers, Items

VARIABLES
  logs,   \* the marks, equity events and position events, oldest first
  seen    \* the logs as each reader last saw them

vars == <<logs, seen>>

Names == {"mark", "equity", "position"}

IsHead(i, x) ==
  /\ logs["position"][i].item = x
  /\ \A j \in DOMAIN logs["position"] :
       logs["position"][j].item = x => j <= i

New(l) == SubSeq(logs'[l], Len(logs[l]) + 1, Len(logs'[l]))
Grows == \A l \in Names : IsPrefix(logs[l], logs'[l])

Init ==
  /\ logs["mark"] = <<>>
  /\ \A r \in Readers : seen[r] = logs

(* The valuation m: one equity event after the last one, one event after   *)
(* the head of each position, and the mark itself unless it is stored.     *)
Value ==
  \E m \in Range(logs'["mark"]) :
    /\ Grows
    /\ \A x \in Items : IsHead(m.heads[x], x)
    /\ New("mark") = IF m \in Range(logs["mark"]) THEN <<>> ELSE <<m>>
    /\ Len(New("equity")) = 1 /\ New("equity")[1].by = m
    /\ New("equity")[1].prev = Len(logs["equity"])
    /\ Len(New("position")) = Cardinality(Items)
    /\ {e.item : e \in Range(New("position"))} = Items
    /\ \A e \in Range(New("position")) :
         e.by = m /\ e.prev = m.heads[e.item]
    /\ UNCHANGED seen

(* One line of one log; an event follows the head it names.                *)
Add(l) ==
  /\ Grows /\ Len(logs'[l]) = Len(logs[l]) + 1
  /\ \A k \in Names \ {l} : logs'[k] = logs[k]
  /\ LET e == logs'[l][Len(logs'[l])]
     IN /\ l = "mark" => \A m \in Range(logs["mark"]) : m.asOf # e.asOf
        /\ l = "equity" => e.prev = Len(logs["equity"])
        /\ l = "position" => IsHead(e.prev, e.item)
  /\ UNCHANGED seen

Look(r) ==
  /\ \E look \in SUBSET Names :
       seen' = [seen EXCEPT ![r] =
                  [l \in Names |-> IF l \in look THEN logs[l] ELSE @[l]]]
  /\ UNCHANGED logs

Next ==
  \/ Value
  \/ \E l \in Names : Add(l)
  \/ \E r \in Readers : Look(r)

Spec == Init /\ [][Next]_vars
=============================================================================
