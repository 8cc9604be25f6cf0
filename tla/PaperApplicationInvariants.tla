--------------------- MODULE PaperApplicationInvariants ---------------------
(***************************************************************************)
(* The inductive invariant behind the safety of PaperApplication: which    *)
(* locks a process holds at each step, and what a run can have written by  *)
(* then.                                                                   *)
(***************************************************************************)
EXTENDS PaperApplicationLedger

PortfolioStates == ReadStates \cup BarrierStates \cup {"unlock"}
BatchStates == {"applyWait", "applyCheck"} \cup BarrierStates
DecidedStates == {"logWait", "applyWait", "applyCheck", "intent", "plan",
                  "apply"}
AppliedStates == {"seal", "stage", "journal", "rename"}

(* Before its first append, and after a refusal, a run has done nothing.   *)
EarlyStates == {"idle", "auditing", "deciding", "intent", "plan"} \cup
               ReadStates \cup WaitStates

HoldsAllLogs(r) == \A l \in Logs : logLock[l] = r
Untouched(r) == done[r] = 0 /\ ~dirty[r] /\ ~HasEffects(r) /\ ~Committed(r)

(* The values that later steps need are there.                             *)
ValuesInv ==
  /\ \A r \in Runs :
       /\ pc[r] \in DecidedStates => decision[r] \in Decisions
       /\ pc[r] = "apply" => done[r] < Len(ApplicationScript(decision[r]))
  /\ \A p \in Procs :
       pc[p] \in BarrierStates \ {"intent"} => target[p] \in Portfolios

(* Who is inside a locked section owns its locks.                          *)
LocksInv ==
  /\ \A p \in Procs : pc[p] \in PortfolioStates => portfolioLock = p
  /\ \A r \in Runs :
       /\ pc[r] \in BatchStates => HoldsAllLogs(r)
       /\ pc[r] = "auditing" => logLock["audit"] = r

(* What a run has written, step by step.                                   *)
ProgressInv ==
  \A r \in Runs :
    /\ pc[r] \in EarlyStates => Untouched(r)
    /\ pc[r] \in {"apply", "seal", "stage", "journal"} => ~Committed(r)
    /\ pc[r] \in AppliedStates => dirty[r]
    /\ HasEffects(r) /\ pc[r] \notin EndStates => dirty[r]
    /\ pc[r] = "rename" => Committed(r)

(* A committed run gives its locks back only as a success, audit last; a   *)
(* run that gives them back otherwise has done nothing.                    *)
ReleaseInv ==
  \A r \in Runs :
    /\ pc[r] \in {"unlock", "unlogs"} =>
         /\ Committed(r) \/ ~HasEffects(r)
         /\ outcome[r] = "stale" => Untouched(r)
         /\ Committed(r) => outcome[r] = "committed" /\ logLock["audit"] = r
    /\ pc[r] = "unlock" /\ Committed(r) => dirty[r] /\ HoldsAllLogs(r)
    /\ pc[r] = "ended" /\ outcome[r] # "committed" /\ Committed(r) =>
         logLock["audit"] = r

(* A torn line is behind the lock of a process that is gone.               *)
TornInv ==
  \A l \in Logs : \A i \in DOMAIN log[l] :
    log[l][i] = Torn => logLock[l] \in Runs /\ pc[logLock[l]] \in EndStates

(* Effects without their revision are behind all the locks.                *)
FenceInv ==
  \A r \in Runs :
    HasEffects(r) => Committed(r) \/ (portfolioLock = r /\ HoldsAllLogs(r))

(* Every process stays within its locks, and nothing of an application is  *)
(* outside them before it is committed: the strengthening under which      *)
(* EffectsFenced and RetryableMeansUnapplied are inductive                 *)
(* (virtualPortfolioFileStore.ts 104-124, 174-208;                         *)
(* paperExecutionLogLocks.ts 47-80).                                       *)
Discipline ==
  /\ ValuesInv /\ LocksInv /\ ProgressInv /\ ReleaseInv /\ TornInv /\ FenceInv

-----------------------------------------------------------------------------
(* The effects of a run in the logs *)

(* The events that a script appends to one log.                            *)
OnLog(l, script) ==
  FlattenSeq([i \in DOMAIN script |->
                IF script[i].log = l THEN <<script[i].event>> ELSE <<>>])

(* The part of its script that run r has done.                             *)
Applied(r) == SubSeq(ApplicationScript(decision[r]), 1, done[r])

(* While a run applies, each log is what its plan found and the effects    *)
(* done so far, in the order of the script                                 *)
(* (paperDecisionPipeline.ts 150-178).                                     *)
LogsApplied(r) ==
  \A l \in Logs :
    LET effects == OnLog(l, Applied(r)) IN
    /\ Len(log[l]) = plan[r][l] + Len(effects)
    /\ \A i \in 1 .. Len(effects) :
         log[l][plan[r][l] + i] = [by |-> r, event |-> effects[i]]

Applying(r) ==
  /\ pc[r] \in {"plan", "apply", "seal"} =>
       intent[r].decision = decision[r] /\ decision[r] \in Decisions
  /\ pc[r] \in {"apply", "seal"} => plan[r] \in [Logs -> Nat] /\ LogsApplied(r)
  /\ pc[r] = "seal" => done[r] = Len(ApplicationScript(decision[r]))
AppliedInv == \A r \in Runs : Applying(r)

-----------------------------------------------------------------------------
(* Who holds which locks while others may wait for them.                   *)

(* States that a run enters only without a log lock.                       *)
LoglessStates == {"idle", "packetWait", "packetRead", "snapshotWait",
                  "snapshotRead", "deciding", "auditWait"}

(* A lock is held inside its section, or for good; the leases a run has    *)
(* while it waits for another one precede that one.                        *)
HoldersInv ==
  /\ portfolioLock # Nobody =>
       /\ pc[portfolioLock] \in PortfolioStates \cup {"unlogs"} \cup EndStates
       /\ pc[portfolioLock] = "unlogs" => outcome[portfolioLock] # "stale"
  /\ \A r \in Runs : \A l \in Logs : logLock[l] = r =>
       /\ pc[r] \notin LoglessStates
       /\ pc[r] = "auditing" => l = "audit"
       /\ pc[r] = "logWait" =>
            \A k \in Logs : LogRank[k] < LogRank[l] => logLock[k] = r

-----------------------------------------------------------------------------
(* The history of revisions *)

(* The portfolio lock is that of a process that will not give it back.     *)
Blocked ==
  /\ portfolioLock # Nobody
  /\ pc[portfolioLock] \in {"unlogs"} \cup EndStates

(* An entry on its place, and all that it refers to.                       *)
EntryVerifies(i) ==
  /\ journal[i] # Torn /\ PredecessorVerifies(i)
  /\ journal[i].application # NoApplication =>
       /\ OriginVerifies(journal[i])
       /\ ReceiptVerifies(journal[i].application)

(* Every entry verifies; at most the last one is torn, in a blocked store. *)
ChainInv ==
  \A i \in DOMAIN journal :
    EntryVerifies(i) \/ (journal[i] = Torn /\ i = Len(journal) /\ Blocked)

(* The projection is the head, but between the append and the rename.      *)
HeadInv ==
  journal # <<>> =>
    \/ journal[Len(journal)] # Torn /\ journal[Len(journal)].portfolio = projection
    \/ Blocked \/ \E p \in Procs : pc[p] = "rename"

(* What was checked under the portfolio lock still holds at the append.    *)
Checked(p) ==
  /\ pc[p] \in BarrierStates \ {"rename"} =>
       /\ stored[p] = StoredHead /\ ExpectationHolds(p)
       /\ p \in Runs => ObservationCurrent(p)
  /\ pc[p] = "rename" =>
       journal # <<>> /\ journal[Len(journal)] = NewEntry(p)
CheckedInv == \A p \in Procs : Checked(p)

(* The records of a run exist once it goes on.                             *)
Records(r) ==
  /\ pc[r] \in {"plan", "apply", "seal", "stage", "journal"} =>
       /\ intent[r] \in Applications
       /\ intent[r].expected = seen[r] /\ intent[r].portfolio = target[r]
  /\ pc[r] \in {"apply", "seal"} => plan[r] \in [Logs -> Nat]
  /\ pc[r] \in {"stage", "journal"} => ReceiptVerifies(r)
RecordsInv == \A r \in Runs : Records(r)

(* A committed run is linked to what it saw; one that has only begun saw   *)
(* whatever is committed.                                                  *)
SeenInv ==
  /\ \A i \in DOMAIN journal :
       journal[i] # Torn /\ journal[i].application # NoApplication =>
         journal[i].previous = seen[journal[i].application].revision
  /\ \A r \in Runs : HasEffects(r) /\ ~Committed(r) =>
       \A i \in DOMAIN journal :
         journal[i] # Torn => i <= PositionOf(seen[r].revision)

(* The history always is what its readers verify, or the store is blocked  *)
(* (virtualPortfolioRevisionJournal.ts 46-127, virtualPortfolioFileStore.ts*)
(* 104-208).                                                               *)
History == ChainInv /\ HeadInv /\ CheckedInv /\ RecordsInv /\ SeenInv

-----------------------------------------------------------------------------
(* How far a process is from its end *)

(* A stale run has nothing to do but to tell so, and its notice is about   *)
(* that, not the one about its packet; no intent is on disk before a run   *)
(* writes it; a run that waits for a log lock lacks one, one that gives    *)
(* its log locks back has one.                                             *)
Course(r) ==
  /\ outcome[r] = "stale" =>
       /\ pc[r] \in {"unlock", "unlogs", "auditWait", "auditing"} \cup EndStates
       /\ notice[r] # "MARKET_PACKET_CREATED" /\ intent[r] = NoRecord
  /\ pc[r] \in EarlyStates \ {"plan"} => intent[r] = NoRecord
  /\ pc[r] = "logWait" => ~HoldsAllLogs(r)
  /\ pc[r] = "unlogs" => HoldsLogs(r)
CourseInv == \A r \in Runs : Course(r)

StageRank ==
  [idle |-> 24, packetWait |-> 23, packetRead |-> 22, auditWait |-> 21,
   auditing |-> 20, snapshotWait |-> 19, snapshotRead |-> 18, deciding |-> 17,
   logWait |-> 16, applyWait |-> 15, applyCheck |-> 14, intent |-> 13,
   plan |-> 12, apply |-> 11, seal |-> 10, stage |-> 9, journal |-> 8,
   rename |-> 7, unlock |-> 6, unlogs |-> 5, ended |-> 0, crashed |-> 0]

(* The notice with which a run ends, not the one about its packet.         *)
LastNotice(p) ==
  p \in Runs /\ pc[p] \in {"auditWait", "auditing"}
             /\ notice[p] # "MARKET_PACKET_CREATED"

(* The stages a process has before it, and what is left to do in this one: *)
(* effects to append, log locks to take or to give back.                   *)
Stage(p) == StageRank[pc[p]] - (IF LastNotice(p) THEN 19 ELSE 0)

One(holds) == IF holds THEN 1 ELSE 0
LocksHeld(r) ==
  One(logLock["audit"] = r) + One(logLock["decision"] = r)
                            + One(logLock["trade"] = r)

Rest(p) ==
  CASE p \in Runs /\ pc[p] = "apply" ->
         Len(ApplicationScript(decision[p])) - done[p]
    [] p \in Runs /\ pc[p] = "logWait" -> 3 - LocksHeld(p)
    [] p \in Runs /\ pc[p] = "unlogs" -> LocksHeld(p)
    [] OTHER -> 0

MeasuresInv == \A p \in Procs : Stage(p) \in Nat /\ Rest(p) \in Nat

Descends(p) ==
  Stage(p)' < Stage(p) \/ (Stage(p)' = Stage(p) /\ Rest(p)' < Rest(p))
ComesCloser(p) == Stage(p)' \in Nat /\ Rest(p)' \in Nat /\ Descends(p)

(* Every step brings one process nearer to its end, in an order without    *)
(* infinite descent, and sets no other one back: nothing is ever begun     *)
(* again, by a failure as little as by a success                           *)
(* (paperDecisionPipeline.ts 96-197, virtualPortfolioFileStore.ts 87-208). *)
OneComesCloser ==
  [][\E p \in Procs :
       /\ ComesCloser(p)
       /\ \A q \in Procs \ {p} : UNCHANGED <<Stage(q), Rest(q)>>]_vars
=============================================================================
