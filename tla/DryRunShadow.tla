---------------------------- MODULE DryRunShadow ----------------------------
(***************************************************************************)
(* The dry-run order router: risk authorities, one-time approvals and the  *)
(* shadow state.  A shadow state is an opaque handle on a frozen snapshot; *)
(* an operation on it mints the handle of the next snapshot and consumes   *)
(* its own, so that the handles that come from one createDryRunShadowState *)
(* (a lineage) should form a chain.  All of it is synchronous: the only    *)
(* adversary is a caller that uses old handles and old approvals again.    *)
(***************************************************************************)
EXTENDS Naturals, Sequences, SequencesExt

CONSTANTS
  Evaluations,  \* calls of evaluateLiveRiskAuthority, each with its own
                \* frozen intent and authority
  Approved,     \* those whose decision is approved
  IntentHash,   \* function of Evaluations: the hash of the intent evaluated
  Scenarios,    \* scenario ids, which stand for their refs as well
  MaxHandles, MaxApprovals   \* bounds on what is minted

ASSUME RouterAssumption ==
  /\ Approved \subseteq Evaluations
  /\ DOMAIN IntentHash = Evaluations
  /\ {MaxHandles, MaxApprovals} \subseteq Nat

VARIABLES
  handles,    \* every shadow handle minted; active until it is consumed
  approvals,  \* every approval fixture minted
  routed      \* history: results returned by routeDryRunOrder

vars == <<handles, approvals, routed>>

-----------------------------------------------------------------------------
Identities == Scenarios \X {IntentHash[e] : e \in Evaluations}
Statuses == {"reserved", "completed", "timeoutUnknown", "reconciled"}
Records == [status : Statuses \cup {"created"}, version : Nat]
Events == [identity : Identities, event : Statuses \cup {"duplicateRejected"},
           from : Statuses \cup {"created"}]

Handle(h) == h \in DOMAIN handles /\ handles[h].active

(* No record and no tombstone: what a snapshot knows of other identities.  *)
NoRecord == [status |-> "created", version |-> 0]

Reserved(snapshot, id) == snapshot.tombstones[id] # 0

(* Defect: consumeState leaves the handle active.                          *)
MintKeepingHandle(h, next) == Append(handles, next)

(* mintState for the next snapshot, consumeState for the handle.           *)
Mint(h, next) == Append([handles EXCEPT ![h].active = FALSE], next)

Logged(h, id, event) ==
  Append(handles[h].audit,
         [identity |-> id, event |-> event,
          from |-> handles[h].records[id].status])

-----------------------------------------------------------------------------
(* dryRunShadowState.ts *)

Create ==
  /\ Len(handles) < MaxHandles
  /\ handles' = Append(handles,
       [lineage |-> Len(handles) + 1, active |-> TRUE, audit |-> <<>>,
        records |-> [id \in Identities |-> NoRecord],
        tombstones |-> [id \in Identities |-> 0]])
  /\ UNCHANGED <<approvals, routed>>

(* Defect: a completed order may be reserved again.                        *)
SnapshotReservingAgain(h, id) ==
  IF handles[h].records[id].status \in {"reserved", "timeoutUnknown"}
  THEN [handles[h] EXCEPT !.audit = Logged(h, id, "duplicateRejected")]
  ELSE [handles[h] EXCEPT !.records[id] = [status |-> "reserved", version |-> 1],
                          !.tombstones[id] = Len(handles[h].audit) + 1,
                          !.audit = Logged(h, id, "reserved")]

(* Whatever has become of the record, its tombstone refuses a second       *)
(* reservation; the refusal is an event of its own.                        *)
SnapshotAfterReserve(h, id) ==
  IF Reserved(handles[h], id)
  THEN [handles[h] EXCEPT !.audit = Logged(h, id, "duplicateRejected")]
  ELSE [handles[h] EXCEPT !.records[id] = [status |-> "reserved", version |-> 1],
                          !.tombstones[id] = Len(handles[h].audit) + 1,
                          !.audit = Logged(h, id, "reserved")]

ReserveOutcome(h, id) == Last(SnapshotAfterReserve(h, id).audit).event

Reserve(h, id) ==
  /\ Handle(h)
  /\ Len(handles) < MaxHandles
  /\ handles' = Mint(h, SnapshotAfterReserve(h, id))

(* Defect: an order is reconciled although it never timed out.             *)
StatusBeforeReserved(next) == "reserved"

(* completeDryRunShadow, markDryRunShadowTimeoutUnknown and                *)
(* reconcileDryRunShadowNoExternalEffect, by the status they lead to.      *)
StatusBefore(next) ==
  IF next = "reconciled" THEN "timeoutUnknown" ELSE "reserved"

Transition(h, id, next) ==
  /\ Handle(h)
  /\ Len(handles) < MaxHandles
  /\ Reserved(handles[h], id)
  /\ handles[h].records[id].status = StatusBefore(next)
  /\ handles' = Mint(h,
       [handles[h] EXCEPT !.records[id].status = next,
                          !.records[id].version = @ + 1,
                          !.audit = Logged(h, id, next)])
  /\ UNCHANGED <<approvals, routed>>

-----------------------------------------------------------------------------
(* dryRunOrderRouter.ts and liveRiskAuthority.ts *)

(* verifyLiveRiskAuthority: the authority belongs to exactly this intent   *)
(* and its decision is approved.                                           *)
Verified(authority, intent) == authority = intent /\ intent \in Approved

CreateApproval(s, intent, authority) ==
  /\ Len(approvals) < MaxApprovals
  /\ Verified(authority, intent)
  /\ approvals' = Append(approvals,
       [scenario |-> s, evaluation |-> intent, active |-> TRUE])
  /\ UNCHANGED <<handles, routed>>

(* Defect: the scenario of the approval is not compared.                   *)
BindsIntentOnly(a, s, intent, authority) ==
  /\ approvals[a].evaluation = intent
  /\ Verified(authority, intent)

Binds(a, s, intent, authority) ==
  /\ approvals[a].evaluation = intent
  /\ approvals[a].scenario = s
  /\ Verified(authority, intent)

(* The approval is consumed before the shadow is reserved: with a handle   *)
(* that is stale the call throws and the approval is gone all the same.    *)
Route(a, s, intent, authority, h) ==
  LET id == <<s, IntentHash[intent]>> IN
  /\ approvals[a].active
  /\ Binds(a, s, intent, authority)
  /\ approvals' = [approvals EXCEPT ![a].active = FALSE]
  /\ \/ /\ Reserve(h, id)
        /\ routed' = Append(routed,
             [approval |-> a, lineage |-> handles[h].lineage, identity |-> id,
              outcome |-> ReserveOutcome(h, id)])
     \/ /\ ~Handle(h)
        /\ UNCHANGED <<handles, routed>>

ReserveDirectly(h, id) == Reserve(h, id) /\ UNCHANGED <<approvals, routed>>

-----------------------------------------------------------------------------
Init == handles = <<>> /\ approvals = <<>> /\ routed = <<>>

Next ==
  \/ Create
  \/ \E h \in DOMAIN handles, id \in Identities :
       \/ ReserveDirectly(h, id)
       \/ \E next \in Statuses \ {"reserved"} : Transition(h, id, next)
  \/ \E s \in Scenarios, intent, authority \in Evaluations :
       \/ CreateApproval(s, intent, authority)
       \/ \E a \in DOMAIN approvals, h \in DOMAIN handles :
            Route(a, s, intent, authority, h)

Spec == Init /\ [][Next]_vars

-----------------------------------------------------------------------------
(* Type invariant *)

Snapshots == [lineage : Nat, active : BOOLEAN, audit : Seq(Events),
              records : [Identities -> Records],
              tombstones : [Identities -> Nat]]

TypeOK ==
  /\ handles \in Seq(Snapshots)
  /\ approvals \in Seq([scenario : Scenarios, evaluation : Evaluations,
                        active : BOOLEAN])
  /\ routed \in Seq([approval : DOMAIN approvals, lineage : Nat,
                     identity : Identities,
                     outcome : {"reserved", "duplicateRejected"}])

-----------------------------------------------------------------------------
(* Properties *)

(* "dry-run shadow state handles are single-use across branching retries"  *)
(* (dryRunShadowState.test.ts 99): of two snapshots of one lineage the     *)
(* later one continues the audit of the earlier one.                       *)
LineageIsLinear ==
  \A i, j \in DOMAIN handles :
    i < j /\ handles[i].lineage = handles[j].lineage
      => IsPrefix(handles[i].audit, handles[j].audit)

(* The positions of the events that changed the record of an identity, and *)
(* the status such events leave behind.                                    *)
EventsOf(snapshot, id) ==
  {n \in DOMAIN snapshot.audit :
     /\ snapshot.audit[n].identity = id
     /\ snapshot.audit[n].event # "duplicateRejected"}

StatusAfter(snapshot, positions) ==
  IF positions = {} THEN "created" ELSE snapshot.audit[Max(positions)].event

(* The audit is enough to tell every record: its status and version are    *)
(* those of the last event of its identity, each event starts where the    *)
(* one before it ended, and the tombstone names the one reservation.       *)
AuditExplainsRecords ==
  \A h \in DOMAIN handles, id \in Identities :
    LET s == handles[h]
        changes == EventsOf(s, id)
    IN /\ s.records[id].version = Cardinality(changes)
       /\ s.records[id].status = StatusAfter(s, changes)
       /\ \A n \in changes :
            s.audit[n].from = StatusAfter(s, {m \in changes : m < n})
       /\ \A n \in DOMAIN s.audit :
            s.audit[n].identity = id /\ s.audit[n].event = "reserved"
              <=> s.tombstones[id] = n

(* Within a lineage an order is validated at most once, however often its  *)
(* intent is evaluated, approved and routed again, and whatever became of  *)
(* the first reservation.                                                  *)
ValidatedOnce ==
  \A i, j \in DOMAIN routed :
    /\ routed[i].outcome = "reserved" /\ routed[j].outcome = "reserved"
    /\ routed[i].lineage = routed[j].lineage
    /\ routed[i].identity = routed[j].identity
    => i = j

(* An approval leads to at most one result, which is for the scenario and  *)
(* the approved evaluation it was given for; then it is spent.             *)
ApprovalSpentOnce ==
  \A i \in DOMAIN routed :
    LET a == routed[i].approval IN
    /\ ~approvals[a].active
    /\ approvals[a].evaluation \in Approved
    /\ routed[i].identity =
         <<approvals[a].scenario, IntentHash[approvals[a].evaluation]>>
    /\ \A j \in DOMAIN routed : routed[j].approval = a => i = j
=============================================================================
