---------------------------- MODULE ShadowOrders ----------------------------
(***************************************************************************)
(* What the dry-run router promises its caller, without handles, snapshots *)
(* and tombstones: per lineage one order of each identity with a status    *)
(* that only moves forward, changed in one step by whoever asks; permits   *)
(* that are good for one attempt at one identity; and the results given    *)
(* out.  Every operation acts on the lineage as it is, there is no old     *)
(* state to act on.                                                        *)
(***************************************************************************)
EXTENDS Naturals, Sequences

CONSTANTS
  Lineages,     \* names for what createDryRunShadowState returns
  Identities,   \* scenarios with intent hashes
  Permissible   \* the identities of which an evaluation was approved

VARIABLES
  orders,   \* function of the lineages that exist: status of every identity
  permits,  \* approvals handed out, oldest first
  results   \* what routeDryRunOrder has returned

vars == <<orders, permits, results>>

None == "created"

(* The only status from which each status is reached.                      *)
Before == [reserved |-> None, completed |-> "reserved",
           timeoutUnknown |-> "reserved", reconciled |-> "timeoutUnknown"]

Init == orders = [l \in {} |-> None] /\ permits = <<>> /\ results = <<>>

(* createDryRunShadowState *)
Open(l) ==
  /\ l \notin DOMAIN orders
  /\ orders' = [k \in DOMAIN orders \cup {l} |->
                  IF k = l THEN [id \in Identities |-> None] ELSE orders[k]]
  /\ UNCHANGED <<permits, results>>

(* reserveDryRunShadow and the transitions                                 *)
Advance(l, id, status) ==
  /\ orders[l][id] = Before[status]
  /\ orders' = [orders EXCEPT ![l][id] = status]

(* createSyntheticDryRunApprovalFixture *)
Permit(id) ==
  /\ permits' = Append(permits, [identity |-> id, used |-> FALSE])
  /\ UNCHANGED <<orders, results>>

Use(a) ==
  /\ ~permits[a].used
  /\ permits' = [permits EXCEPT ![a].used = TRUE]

Return(a, l, outcome) ==
  results' = Append(results, [approval |-> a, lineage |-> l,
                              identity |-> permits[a].identity,
                              outcome |-> outcome])

(* routeDryRunOrder: the order is reserved, or there is one already.       *)
Validate(a, l) ==
  /\ Use(a)
  /\ Advance(l, permits[a].identity, "reserved")
  /\ Return(a, l, "reserved")

Repeat(a, l) ==
  /\ Use(a)
  /\ orders[l][permits[a].identity] # None
  /\ Return(a, l, "duplicateRejected")
  /\ UNCHANGED orders

(* routeDryRunOrder that throws once the approval is consumed              *)
Waste(a) == Use(a) /\ UNCHANGED <<orders, results>>

Next ==
  \/ \E l \in Lineages : Open(l)
  \/ \E l \in DOMAIN orders, id \in Identities, status \in DOMAIN Before :
       Advance(l, id, status) /\ UNCHANGED <<permits, results>>
  \/ \E id \in Permissible : Permit(id)
  \/ \E a \in DOMAIN permits :
       \/ Waste(a)
       \/ \E l \in DOMAIN orders : Validate(a, l) \/ Repeat(a, l)

Spec == Init /\ [][Next]_vars
=============================================================================
