------------------------- MODULE DryRunShadowOrders -------------------------
(***************************************************************************)
(* The router of DryRunShadow implements ShadowOrders.  The orders of a    *)
(* lineage are the records of its one handle that is still active.         *)
(***************************************************************************)
EXTENDS DryRunShadow

LineageNames == {handles[h].lineage : h \in DOMAIN handles}

ActiveHandle(l) ==
  CHOOSE h \in DOMAIN handles : handles[h].active /\ handles[h].lineage = l

Orders ==
  [l \in LineageNames |->
     [id \in Identities |-> handles[ActiveHandle(l)].records[id].status]]

IdentityOf(a) ==
  <<approvals[a].scenario, IntentHash[approvals[a].evaluation]>>

Permits ==
  [a \in DOMAIN approvals |->
     [identity |-> IdentityOf(a), used |-> ~approvals[a].active]]

Shadow == INSTANCE ShadowOrders WITH
  Lineages <- 1 .. MaxHandles,
  Permissible <- {<<s, IntentHash[e]>> : s \in Scenarios, e \in Approved},
  orders <- Orders,
  permits <- Permits,
  results <- routed

(* However a caller mixes old and new handles, what it sees is the orders  *)
(* of each lineage changing one at a time, never backwards: a handle that  *)
(* is used again changes nothing, a duplicate changes nothing, and a       *)
(* result is "reserved" exactly when its own step reserved the order       *)
(* (dryRunShadowState.ts 90-256, dryRunOrderRouter.ts 109-164).            *)
ImplementsOrders == Shadow!Spec
=============================================================================
