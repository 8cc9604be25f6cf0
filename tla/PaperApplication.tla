-------------------------- MODULE PaperApplication --------------------------
(***************************************************************************)
(* The paper portfolio store and the decision pipeline that writes through *)
(* it.  Several processes share one directory: paper runs, which turn an   *)
(* AI decision into log records and a new portfolio revision, and the      *)
(* other writers the store offers.  They coordinate only through lock      *)
(* directories (one per execution log, one for the portfolio) that nobody  *)
(* ever takes over, and through the revision observed before the provider  *)
(* was called.  Any I/O operation may fail and any process may die between *)
(* any two steps; what was being written is then on disk in full, in part  *)
(* ("torn") or not at all.                                                 *)
(*                                                                         *)
(* Files are variables: projection (virtual-portfolio.json), journal       *)
(* (.revisions.jsonl), log (the three execution logs), intent, plan and    *)
(* receipt (the write-once records named by hash; an application is named  *)
(* by the run that prepared it).                                           *)
(***************************************************************************)
EXTENDS PreparedApplication

CONSTANTS
  Runs,             \* paper runs: one runPaperDecisionOnce each
  Writers,          \* processes calling write
  ValueUpdates,     \* processes calling withExclusiveUpdate (value CAS)
  SnapshotUpdates,  \* processes calling withExclusiveSnapshotUpdate
  Portfolios,       \* portfolio values
  InitialPortfolio, \* createInitialPortfolio, used while no file exists
  Decisions,        \* approved decisions: sequences of step kinds
  NoPortfolio, NoRevision, NoApplication, NoRecord, Nobody, Abandoned, Torn

Updates == ValueUpdates \cup SnapshotUpdates
Procs == Runs \cup Writers \cup Updates

ASSUME InitialAssumption == InitialPortfolio \in Portfolios
ASSUME DecisionAssumption == Decisions \subseteq Seq(StepKinds)
ASSUME ProcAssumption ==
  /\ Runs \cap (Writers \cup Updates) = {}
  /\ Writers \cap Updates = {} /\ ValueUpdates \cap SnapshotUpdates = {}
  /\ {Nobody, Abandoned, NoApplication} \cap Procs = {}
ASSUME NullAssumption ==
  /\ NoPortfolio \notin Portfolios
  /\ Nobody # Abandoned

VARIABLES
  pc, outcome,           \* control state of each process, how it will end
  packet, decision,      \* a run's packet portfolio and its AI decision
  notice,                \* the lone audit event a run is about to append
  seen, stored, target,  \* observed snapshot; head read under the lock; value
                         \* to write
  done, dirty,           \* effects appended; has a batch append started
  portfolioLock, logLock,
  projection, journal, log, intent, plan, receipt

local == <<packet, decision, notice, seen, stored, target, done>>
locks == <<portfolioLock, logLock>>
files == <<projection, journal, log, intent, plan, receipt>>
vars == <<pc, outcome, local, dirty, locks, files>>

-----------------------------------------------------------------------------
(* Values *)

Notices == {"MARKET_PACKET_CREATED", "PAPER_PORTFOLIO_STATE_CHANGED",
            "AI_DECISION_FAILED", "VIRTUAL_DECISION_REJECTED"}

(* A revision hash covers its whole entry; position, value and application *)
(* tell apart any two entries the store can produce.                       *)
Revisions == (Nat \ {0}) \X Portfolios \X (Runs \cup {NoApplication})
RevisionOrNone == Revisions \cup {NoRevision}
PortfolioOrNone == Portfolios \cup {NoPortfolio}

Snapshots == [portfolio : PortfolioOrNone, revision : RevisionOrNone]
Heads == [portfolio : PortfolioOrNone, revision : RevisionOrNone,
          sequence : Nat]
Entries == [sequence : Nat \ {0}, previous : RevisionOrNone,
            basis : PortfolioOrNone, portfolio : Portfolios,
            application : Runs \cup {NoApplication}]
Applications == [expected : Snapshots, decision : Decisions,
                 portfolio : Portfolios]
LogRecords == [by : Runs, event : Events \cup Notices]

ASSUME TornAssumption ==
  Torn \notin LogRecords /\ Torn \notin Entries
ASSUME RecordAssumption ==
  /\ NoRevision \notin Revisions
  /\ NoRecord \notin Applications /\ NoRecord \notin [Logs -> Nat]

NoSnapshot == [portfolio |-> NoPortfolio, revision |-> NoRevision]
NoHead == [portfolio |-> NoPortfolio, revision |-> NoRevision, sequence |-> 0]

RevisionHash(e) == <<e.sequence, e.portfolio, e.application>>

ReadStates == {"packetRead", "snapshotRead", "applyCheck"}
WaitStates == {"packetWait", "auditWait", "snapshotWait", "logWait",
               "applyWait"}
BarrierStates == {"intent", "plan", "apply", "seal", "stage", "journal",
                  "rename"}
EndStates == {"ended", "crashed"}
PcStates == {"idle", "auditing", "deciding", "unlock", "unlogs"} \cup
            ReadStates \cup WaitStates \cup BarrierStates \cup EndStates
Outcomes == {"none", "committed", "stale", "refused", "failed"}

-----------------------------------------------------------------------------
(* Reading the store: readPortfolioRevisionJournal and what it verifies    *)

HeadRevision ==
  IF journal = <<>> THEN NoRevision ELSE RevisionHash(journal[Len(journal)])

StoredHead == [portfolio |-> projection, revision |-> HeadRevision,
               sequence |-> Len(journal)]

(* sequence, previousRevisionHash and previousPortfolioHash of entry i.    *)
PredecessorVerifies(i) ==
  /\ journal[i].sequence = i
  /\ IF i = 1 THEN journal[i].previous = NoRevision
     ELSE /\ journal[i].previous = RevisionHash(journal[i - 1])
          /\ journal[i].basis = journal[i - 1].portfolio

(* The intent file exists and is the origin of the revision.               *)
OriginVerifies(e) ==
  LET a == intent[e.application]
  IN /\ a # NoRecord
     /\ a.expected = [portfolio |-> e.basis, revision |-> e.previous]
     /\ a.portfolio = e.portfolio

(* verifySuffix: records from .. upto of log l are exactly the effects of  *)
(* run r's application.                                                    *)
SuffixVerifies(r, l, from, upto) ==
  /\ upto <= Len(log[l])
  /\ SubSeq(log[l], from + 1, upto) =
       [i \in DOMAIN ExpectedSuffix(intent[r].decision, l) |->
          [by |-> r, event |-> ExpectedSuffix(intent[r].decision, l)[i]]]

(* Plan and receipt files exist and the current logs still agree.          *)
ReceiptVerifies(r) ==
  /\ plan[r] # NoRecord /\ receipt[r] # NoRecord
  /\ \A l \in Logs : SuffixVerifies(r, l, plan[r][l], receipt[r][l])

JournalVerifies ==
  journal # <<>> =>
    /\ \A i \in DOMAIN journal :
         /\ journal[i] # Torn
         /\ PredecessorVerifies(i)
         /\ journal[i].application # NoApplication =>
              /\ OriginVerifies(journal[i])
              /\ ReceiptVerifies(journal[i].application)
    /\ journal[Len(journal)].portfolio = projection

(* parseLines rejects a torn or unparsable line anywhere in the prefix.    *)
LogsParse == \A l \in Logs : \A i \in DOMAIN log[l] : log[l][i] # Torn

-----------------------------------------------------------------------------
(* Control helpers *)

Goto(p, there) == pc' = [pc EXCEPT ![p] = there]
End(p, how) == outcome' = [outcome EXCEPT ![p] = how]

HoldsLogs(p) == \E l \in Logs : logLock[l] = p

(* Defect: the paths are locked in the order the caller named them.        *)
NextLogUnsorted(p, l) == logLock[l] # p

(* The next lock of a batch: leases are acquired in canonical path order.  *)
NextLog(p, l) ==
  /\ logLock[l] # p
  /\ \A k \in Logs : LogRank[k] < LogRank[l] => logLock[k] = p

(* Defect: the leases are released in the order they were acquired.        *)
LastLogForward(p, l) ==
  /\ logLock[l] = p
  /\ \A k \in Logs : LogRank[k] < LogRank[l] => logLock[k] # p

(* The next lease released: the reverse order.                             *)
LastLog(p, l) ==
  /\ logLock[l] = p
  /\ \A k \in Logs : LogRank[k] > LogRank[l] => logLock[k] # p

(* Where a process continues after its portfolio lock is gone, and after   *)
(* an unfenced batch has given back its last log lock.                     *)
AfterPortfolio(p) == IF HoldsLogs(p) THEN "unlogs" ELSE "ended"
AfterBatch(p) == IF outcome[p] = "stale" THEN "auditWait" ELSE "ended"

-----------------------------------------------------------------------------
(* Entering the store *)

Start(p) ==
  /\ pc[p] = "idle"
  /\ Goto(p, CASE p \in Runs -> "packetWait"
               [] p \in Updates -> "snapshotWait"
               [] p \in Writers -> "applyWait")
  /\ UNCHANGED <<outcome, local, dirty, locks, files>>

(* withLock: mkdir of the lock directory succeeds.                         *)
AcquirePortfolio(p) ==
  /\ pc[p] \in {"packetWait", "snapshotWait", "applyWait"}
  /\ portfolioLock = Nobody
  /\ portfolioLock' = p
  /\ Goto(p, CASE pc[p] = "packetWait" -> "packetRead"
               [] pc[p] = "snapshotWait" -> "snapshotRead"
               [] pc[p] = "applyWait" -> "applyCheck")
  /\ UNCHANGED <<outcome, local, dirty, logLock, files>>

(* Defect: a process that already holds the batch waits without deadline.  *)
TimeoutPortfolioOutsideBatch(p) ==
  /\ pc[p] \in {"packetWait", "snapshotWait", "applyWait"}
  /\ portfolioLock # Nobody /\ ~HoldsLogs(p)
  /\ End(p, "failed")
  /\ Goto(p, "ended")
  /\ UNCHANGED <<local, dirty, locks, files>>

(* withLock: EEXIST until the deadline.  A held batch is given back: no    *)
(* append of it has started.                                               *)
TimeoutPortfolio(p) ==
  /\ pc[p] \in {"packetWait", "snapshotWait", "applyWait"}
  /\ portfolioLock # Nobody
  /\ End(p, "failed")
  /\ Goto(p, AfterPortfolio(p))
  /\ UNCHANGED <<local, dirty, locks, files>>

(* read, and the packet built from what it returned.                       *)
ReadPacket(r) ==
  /\ pc[r] = "packetRead"
  /\ JournalVerifies
  /\ packet' = [packet EXCEPT ![r] =
       IF projection = NoPortfolio THEN InitialPortfolio ELSE projection]
  /\ notice' = [notice EXCEPT ![r] = "MARKET_PACKET_CREATED"]
  /\ portfolioLock' = Nobody
  /\ Goto(r, "auditWait")
  /\ UNCHANGED <<outcome, decision, seen, stored, target, done, dirty,
                 logLock, files>>

(* readSnapshot, and in a run the comparison with the packet.              *)
ReadSnapshot(p) ==
  /\ pc[p] = "snapshotRead"
  /\ JournalVerifies
  /\ seen' = [seen EXCEPT ![p] =
                [portfolio |-> projection, revision |-> HeadRevision]]
  /\ portfolioLock' = Nobody
  /\ \/ /\ p \in Updates
        /\ Goto(p, "applyWait")
        /\ UNCHANGED <<outcome, notice>>
     \/ /\ p \in Runs
        /\ projection \in {NoPortfolio, packet[p]}
        /\ Goto(p, "deciding")
        /\ UNCHANGED <<outcome, notice>>
     \/ /\ p \in Runs
        /\ projection \notin {NoPortfolio, packet[p]}
        /\ notice' = [notice EXCEPT ![p] = "PAPER_PORTFOLIO_STATE_CHANGED"]
        /\ End(p, "stale")
        /\ Goto(p, "auditWait")
  /\ UNCHANGED <<packet, decision, stored, target, done, dirty, logLock,
                 files>>

-----------------------------------------------------------------------------
(* A lone audit append: a batch of one log around one record *)

AcquireAudit(r) ==
  /\ pc[r] = "auditWait"
  /\ logLock["audit"] = Nobody
  /\ logLock' = [logLock EXCEPT !["audit"] = r]
  /\ Goto(r, "auditing")
  /\ UNCHANGED <<outcome, local, dirty, portfolioLock, files>>

NoticeRecord(r) == [by |-> r, event |-> notice[r]]

AppendNotice(r) ==
  /\ pc[r] = "auditing"
  /\ log' = [log EXCEPT !["audit"] = Append(@, NoticeRecord(r))]
  /\ logLock' = [logLock EXCEPT !["audit"] = Nobody]
  /\ Goto(r, IF notice[r] = "MARKET_PACKET_CREATED" THEN "snapshotWait"
                                                    ELSE "ended")
  /\ UNCHANGED <<outcome, local, dirty, portfolioLock, projection, journal,
                 intent, plan, receipt>>

-----------------------------------------------------------------------------
(* The provider, called with no lock held *)

Decide(r) ==
  /\ pc[r] = "deciding"
  /\ \/ /\ \E d \in Decisions : decision' = [decision EXCEPT ![r] = d]
        /\ Goto(r, "logWait")
        /\ UNCHANGED <<outcome, notice>>
     \/ /\ \E n \in {"AI_DECISION_FAILED", "VIRTUAL_DECISION_REJECTED"} :
             notice' = [notice EXCEPT ![r] = n]
        /\ End(r, "refused")
        /\ Goto(r, "auditWait")
        /\ UNCHANGED decision
  /\ UNCHANGED <<packet, seen, stored, target, done, dirty, locks, files>>

-----------------------------------------------------------------------------
(* withPaperExecutionLogBatch around withLock *)

AcquireLog(r) ==
  /\ pc[r] = "logWait"
  /\ \E l \in Logs :
       /\ NextLog(r, l)
       /\ logLock[l] = Nobody
       /\ logLock' = [logLock EXCEPT ![l] = r]
       /\ Goto(r, IF \A k \in Logs \ {l} : logLock[k] = r THEN "applyWait"
                                                          ELSE "logWait")
  /\ UNCHANGED <<outcome, local, dirty, portfolioLock, files>>

(* The log lock a process is waiting for is held until its deadline.       *)
TimeoutLog(r) ==
  /\ \/ /\ pc[r] = "logWait"
        /\ \E l \in Logs : NextLog(r, l) /\ logLock[l] # Nobody
     \/ pc[r] = "auditWait" /\ logLock["audit"] # Nobody
  /\ End(r, "failed")
  /\ Goto(r, AfterPortfolio(r))
  /\ UNCHANGED <<local, dirty, locks, files>>

(* Defect: the value is compared, the revision is not.                     *)
ObservationCurrentByValue(p) == seen[p].portfolio = projection

(* The snapshot observed earlier is the one stored now, value and revision.*)
ObservationCurrent(p) ==
  seen[p] = [portfolio |-> projection, revision |-> HeadRevision]

(* preparedUpdate compares the snapshot observed before the provider call  *)
(* with the one stored now.                                                *)
CheckApplication(r) ==
  /\ r \in Runs /\ pc[r] = "applyCheck"
  /\ JournalVerifies
  /\ stored' = [stored EXCEPT ![r] = StoredHead]
  /\ IF ObservationCurrent(r)
       THEN /\ Goto(r, "intent")
            /\ UNCHANGED <<outcome, notice>>
       ELSE /\ notice' = [notice EXCEPT ![r] =
                            "PAPER_PORTFOLIO_STATE_CHANGED"]
            /\ End(r, "stale")
            /\ Goto(r, "unlock")
  /\ UNCHANGED <<packet, decision, seen, target, done, dirty, locks, files>>

(* Defect: a snapshot update compares the value only.                      *)
ExpectationHoldsByValue(p) ==
  p \in Updates => seen[p].portfolio = projection

(* update: the value alone (withExclusiveUpdate) or value and revision     *)
(* (withExclusiveSnapshotUpdate); write: no expectation at all.            *)
ExpectationHolds(p) ==
  /\ p \in ValueUpdates => seen[p].portfolio = projection
  /\ p \in SnapshotUpdates => ObservationCurrent(p)

CheckWrite(p) ==
  /\ p \in Writers \cup Updates /\ pc[p] = "applyCheck"
  /\ JournalVerifies
  /\ stored' = [stored EXCEPT ![p] = StoredHead]
  /\ \/ /\ ExpectationHolds(p)
        /\ \E v \in Portfolios : target' = [target EXCEPT ![p] = v]
        /\ Goto(p, "stage")
        /\ UNCHANGED outcome
     \/ /\ ~ExpectationHolds(p)
        /\ End(p, "stale")
        /\ Goto(p, "unlock")
        /\ UNCHANGED target
  /\ UNCHANGED <<packet, decision, notice, seen, done, dirty, locks, files>>

-----------------------------------------------------------------------------
(* Applying a prepared application under both kinds of lock *)

Prepared(r, v) == [expected |-> seen[r], decision |-> decision[r],
                   portfolio |-> v]

(* preparePaperApplication and the exclusive create of its intent file;    *)
(* what the order engine makes of the packet is any portfolio value.       *)
WriteIntent(r) ==
  /\ pc[r] = "intent"
  /\ intent[r] = NoRecord
  /\ \E v \in Portfolios :
       /\ intent' = [intent EXCEPT ![r] = Prepared(r, v)]
       /\ target' = [target EXCEPT ![r] = v]
  /\ Goto(r, "plan")
  /\ UNCHANGED <<outcome, packet, decision, notice, seen, stored, done, dirty,
                 locks, projection, journal, log, plan, receipt>>

LogLengths == [l \in Logs |-> Len(log[l])]

(* preparePaperApplicationLogPlan: the prefix of each log before any       *)
(* effect; the logs only grow, so its length identifies it.                *)
WritePlan(r) ==
  /\ pc[r] = "plan"
  /\ LogsParse
  /\ plan' = [plan EXCEPT ![r] = LogLengths]
  /\ Goto(r, "apply")
  /\ UNCHANGED <<outcome, local, dirty, locks, projection, journal, log,
                 intent, receipt>>

NextEffect(r) == ApplicationScript(decision[r])[done[r] + 1]
EffectRecord(r) == [by |-> r, event |-> NextEffect(r).event]

(* applyPreparedApplication: one durable append, queued in the batch.      *)
AppendEffect(r) ==
  /\ pc[r] = "apply"
  /\ log' = [log EXCEPT ![NextEffect(r).log] = Append(@, EffectRecord(r))]
  /\ done' = [done EXCEPT ![r] = @ + 1]
  /\ dirty' = [dirty EXCEPT ![r] = TRUE]
  /\ Goto(r, IF done[r] + 1 = Len(ApplicationScript(decision[r]))
               THEN "seal" ELSE "apply")
  /\ UNCHANGED <<outcome, packet, decision, notice, seen, stored, target,
                 locks, projection, journal, intent, plan, receipt>>

LogsComplete(r) ==
  \A l \in Logs : SuffixVerifies(r, l, plan[r][l], Len(log[l]))

(* completePaperApplicationLogs: seal, verify every suffix, write the      *)
(* receipt.                                                                *)
CompleteLogs(r) ==
  /\ pc[r] = "seal"
  /\ LogsComplete(r)
  /\ receipt' = [receipt EXCEPT ![r] = LogLengths]
  /\ Goto(r, "stage")
  /\ UNCHANGED <<outcome, local, dirty, locks, projection, journal, log,
                 intent, plan>>

-----------------------------------------------------------------------------
(* writeStored: temporary file, journal entry, rename *)

StagePortfolio(p) ==
  /\ pc[p] = "stage"
  /\ Goto(p, "journal")
  /\ UNCHANGED <<outcome, local, dirty, locks, files>>

NewEntry(p) ==
  [sequence |-> stored[p].sequence + 1,
   previous |-> stored[p].revision,
   basis |-> stored[p].portfolio,
   portfolio |-> target[p],
   application |-> IF p \in Runs THEN p ELSE NoApplication]

(* appendPortfolioRevision creates the journal exclusively for the first   *)
(* entry.                                                                  *)
AppendRevision(p) ==
  /\ pc[p] = "journal"
  /\ stored[p].sequence = 0 => journal = <<>>
  /\ journal' = Append(journal, NewEntry(p))
  /\ Goto(p, "rename")
  /\ UNCHANGED <<outcome, local, dirty, locks, projection, log, intent, plan,
                 receipt>>

ReplaceProjection(p) ==
  /\ pc[p] = "rename"
  /\ projection' = target[p]
  /\ End(p, "committed")
  /\ Goto(p, "unlock")
  /\ UNCHANGED <<local, dirty, locks, journal, log, intent, plan, receipt>>

-----------------------------------------------------------------------------
(* Giving the locks back *)

ReleasePortfolio(p) ==
  /\ pc[p] = "unlock"
  /\ portfolioLock' = Nobody
  /\ Goto(p, AfterPortfolio(p))
  /\ UNCHANGED <<outcome, local, dirty, logLock, files>>

ReleaseLog(r) ==
  /\ pc[r] = "unlogs"
  /\ \E l \in Logs :
       /\ LastLog(r, l)
       /\ logLock' = [logLock EXCEPT ![l] = Nobody]
       /\ Goto(r, IF \E k \in Logs \ {l} : logLock[k] = r
                    THEN "unlogs" ELSE AfterBatch(r))
  /\ UNCHANGED <<outcome, local, dirty, portfolioLock, files>>

-----------------------------------------------------------------------------
(* Faults *)

(* What an interrupted write may leave on disk besides nothing: a torn     *)
(* line, or all of it (the error came from a later fsync).                 *)
LeavesNotice(r) ==
  /\ pc[r] = "auditing"
  /\ \E rec \in {Torn, NoticeRecord(r)} :
       log' = [log EXCEPT !["audit"] = Append(@, rec)]
  /\ UNCHANGED <<projection, journal, intent, plan, receipt>>

LeavesIntent(r) ==
  /\ pc[r] = "intent"
  /\ \E v \in Portfolios : intent' = [intent EXCEPT ![r] = Prepared(r, v)]
  /\ UNCHANGED <<projection, journal, log, plan, receipt>>

LeavesPlan(r) ==
  /\ pc[r] = "plan"
  /\ plan' = [plan EXCEPT ![r] = LogLengths]
  /\ UNCHANGED <<projection, journal, log, intent, receipt>>

LeavesEffect(r) ==
  /\ pc[r] = "apply"
  /\ \E rec \in {Torn, EffectRecord(r)} :
       log' = [log EXCEPT ![NextEffect(r).log] = Append(@, rec)]
  /\ UNCHANGED <<projection, journal, intent, plan, receipt>>

LeavesReceipt(r) ==
  /\ pc[r] = "seal" /\ LogsComplete(r)
  /\ receipt' = [receipt EXCEPT ![r] = LogLengths]
  /\ UNCHANGED <<projection, journal, log, intent, plan>>

LeavesRevision(p) ==
  /\ pc[p] = "journal"
  /\ \E e \in {Torn, NewEntry(p)} : journal' = Append(journal, e)
  /\ UNCHANGED <<projection, log, intent, plan, receipt>>

LeavesProjection(p) ==
  /\ pc[p] = "rename"
  /\ projection' = target[p]
  /\ UNCHANGED <<journal, log, intent, plan, receipt>>

Interrupted(p) ==
  \/ UNCHANGED files
  \/ LeavesRevision(p) \/ LeavesProjection(p)
  \/ /\ p \in Runs
     /\ \/ LeavesNotice(p) \/ LeavesIntent(p) \/ LeavesPlan(p)
        \/ LeavesEffect(p) \/ LeavesReceipt(p)

(* Defect: a failed rename is cleaned up like a failed temporary file.     *)
UnfencedStatesWithRename(p) ==
  ReadStates \cup {"rename"} \cup (IF p \in Writers THEN {"stage"} ELSE {})

(* Where an error leaves no barrier: while reading or preparing, and while *)
(* a plain write stages its temporary file.                                *)
UnfencedStates(p) ==
  ReadStates \cup (IF p \in Writers THEN {"stage"} ELSE {})

CleanFailure(p) ==
  /\ pc[p] \in UnfencedStates(p)
  /\ End(p, "failed")
  /\ Goto(p, "unlock")
  /\ UNCHANGED <<local, dirty, locks, files>>

(* Defect: the batch is marked dirty after the append instead of before.   *)
BatchDirtyLate(p) == dirty[p]

(* The batch has started an append, be it one that is failing now.         *)
BatchDirty(p) == dirty[p] \/ pc[p] = "apply"

(* preserveBarrier, or a lock that could not be initialised or removed:    *)
(* the portfolio lock stays.  The log locks stay only once the batch is    *)
(* dirty; the ownership check that precedes an append may fail before.     *)
FencedFailure(p) ==
  /\ \/ pc[p] \in ReadStates \cup {"unlock"}
     \/ pc[p] \in BarrierStates \ UnfencedStates(p)
  /\ \/ /\ Interrupted(p)
        /\ dirty' = [dirty EXCEPT ![p] = BatchDirty(p)]
     \/ UNCHANGED <<files, dirty>>
  /\ End(p, "failed")
  /\ Goto(p, IF dirty'[p] THEN "ended" ELSE AfterPortfolio(p))
  /\ UNCHANGED <<local, locks>>

(* A lone append failed after its lock was taken: its lock stays, unless   *)
(* the append had not started.                                             *)
AuditFailure(r) ==
  /\ pc[r] = "auditing"
  /\ \/ Interrupted(r) /\ UNCHANGED logLock
     \/ logLock' = [logLock EXCEPT !["audit"] = Nobody] /\ UNCHANGED files
  /\ End(r, "failed")
  /\ Goto(r, "ended")
  /\ UNCHANGED <<local, dirty, portfolioLock>>

(* The provider throws, or a lock path cannot be resolved or its directory *)
(* not be made: no new lock, and those held are given back.                *)
EntryFailure(p) ==
  /\ pc[p] \in WaitStates \cup {"deciding"}
  /\ End(p, "failed")
  /\ Goto(p, AfterPortfolio(p))
  /\ UNCHANGED <<local, dirty, locks, files>>

(* A log lock directory was made but not its owner file: that directory    *)
(* stays without an owner, the leases already held are given back.         *)
LogInitFailure(r) ==
  /\ pc[r] = "logWait"
  /\ \E l \in Logs :
       /\ NextLog(r, l)
       /\ logLock[l] = Nobody
       /\ logLock' = [logLock EXCEPT ![l] = Abandoned]
  /\ End(r, "failed")
  /\ Goto(r, AfterPortfolio(r))
  /\ UNCHANGED <<local, dirty, portfolioLock, files>>

(* Removing a log lock failed: it and the leases after it stay.            *)
ReleaseFailure(r) ==
  /\ pc[r] = "unlogs"
  /\ End(r, "failed")
  /\ Goto(r, "ended")
  /\ UNCHANGED <<local, dirty, locks, files>>

(* The process dies.  Its locks stay, nobody takes them over.              *)
Crash(p) ==
  /\ pc[p] \notin EndStates \cup {"idle"}
  /\ Interrupted(p)
  /\ Goto(p, "crashed")
  /\ UNCHANGED <<outcome, local, dirty, locks>>

-----------------------------------------------------------------------------
(* Specification *)

Init ==
  /\ pc = [p \in Procs |-> "idle"]
  /\ outcome = [p \in Procs |-> "none"]
  /\ packet = [r \in Runs |-> NoPortfolio]
  /\ decision = [r \in Runs |-> <<>>]
  /\ notice = [r \in Runs |-> "MARKET_PACKET_CREATED"]
  /\ seen = [p \in Procs |-> NoSnapshot]
  /\ stored = [p \in Procs |-> NoHead]
  /\ target = [p \in Procs |-> NoPortfolio]
  /\ done = [r \in Runs |-> 0]
  /\ dirty = [p \in Procs |-> FALSE]
  /\ portfolioLock = Nobody
  /\ logLock = [l \in Logs |-> Nobody]
  /\ projection \in PortfolioOrNone   \* a legacy file may precede the journal
  /\ journal = <<>>
  /\ log = [l \in Logs |-> <<>>]
  /\ intent = [r \in Runs |-> NoRecord]
  /\ plan = [r \in Runs |-> NoRecord]
  /\ receipt = [r \in Runs |-> NoRecord]

RunStep(r) ==
  \/ ReadPacket(r) \/ AcquireAudit(r) \/ AppendNotice(r) \/ Decide(r)
  \/ AcquireLog(r) \/ TimeoutLog(r) \/ CheckApplication(r)
  \/ WriteIntent(r) \/ WritePlan(r) \/ AppendEffect(r) \/ CompleteLogs(r)
  \/ ReleaseLog(r)

StoreStep(p) ==
  \/ AcquirePortfolio(p) \/ TimeoutPortfolio(p) \/ ReadSnapshot(p)
  \/ CheckWrite(p) \/ StagePortfolio(p) \/ AppendRevision(p)
  \/ ReplaceProjection(p) \/ ReleasePortfolio(p)

(* Everything a process that has started goes on to do by itself.          *)
Step(p) == StoreStep(p) \/ (p \in Runs /\ RunStep(p))

Fault(p) ==
  \/ CleanFailure(p) \/ FencedFailure(p) \/ EntryFailure(p) \/ Crash(p)
  \/ p \in Runs /\ (AuditFailure(p) \/ LogInitFailure(p) \/ ReleaseFailure(p))

Next == \E p \in Procs : Start(p) \/ Step(p) \/ Fault(p)

Spec == Init /\ [][Next]_vars

(* The event loop and the lock deadlines keep a live process going; the    *)
(* provider answers or is stopped by its own timeout.  Nothing obliges a   *)
(* process to start, to fail or to crash.                                  *)
FairSpec == Spec /\ \A p \in Procs : WF_vars(Step(p))

-----------------------------------------------------------------------------
(* Type invariant *)

TypeOK ==
  /\ pc \in [Procs -> PcStates]
  /\ outcome \in [Procs -> Outcomes]
  /\ packet \in [Runs -> PortfolioOrNone]
  /\ decision \in [Runs -> Decisions \cup {<<>>}]
  /\ notice \in [Runs -> Notices]
  /\ seen \in [Procs -> Snapshots]
  /\ stored \in [Procs -> Heads]
  /\ target \in [Procs -> PortfolioOrNone]
  /\ done \in [Runs -> Nat]
  /\ dirty \in [Procs -> BOOLEAN]
  /\ portfolioLock \in Procs \cup {Nobody}
  /\ logLock \in [Logs -> Runs \cup {Nobody, Abandoned}]
  /\ projection \in PortfolioOrNone
  /\ journal \in Seq(Entries \cup {Torn})
  /\ log \in [Logs -> Seq(LogRecords \cup {Torn})]
  /\ intent \in [Runs -> Applications \cup {NoRecord}]
  /\ plan \in [Runs -> [Logs -> Nat] \cup {NoRecord}]
  /\ receipt \in [Runs -> [Logs -> Nat] \cup {NoRecord}]

-----------------------------------------------------------------------------
(* Safety *)

Committed(r) ==
  \E i \in DOMAIN journal : journal[i] # Torn /\ journal[i].application = r

IsEffectOf(rec, r) == rec # Torn /\ rec.by = r /\ rec.event \in Events
HasEffects(r) ==
  \E l \in Logs : \E i \in DOMAIN log[l] : IsEffectOf(log[l][i], r)

(* Whoever gets the portfolio lock finds a history that verifies: readers  *)
(* never meet a torn or unlinked journal, a projection that is not the     *)
(* head, or a receipt the logs contradict                                  *)
(* (virtualPortfolioRevisionJournal.ts 46-83).                             *)
HistoryReadable == portfolioLock = Nobody => JournalVerifies

(* A decision, trade or audit record of an application is on disk only if  *)
(* its revision is committed, or behind the locks its run keeps; a torn    *)
(* line is always behind its log lock (virtualPortfolioFileStore.ts 67-70, *)
(* paperExecutionLogLocks.ts 43-46).                                       *)
EffectsFenced ==
  \A l \in Logs : \A i \in DOMAIN log[l] :
    /\ log[l][i] = Torn => logLock[l] # Nobody
    /\ \A r \in Runs : IsEffectOf(log[l][i], r) =>
         Committed(r) \/ (portfolioLock = r /\ \A k \in Logs : logLock[k] = r)

(* Two runs never both apply to the same observed revision: of two runners *)
(* racing from one portfolio only one trades, and a retry behind a failed  *)
(* one does not trade again.                                               *)
OneApplicationPerRevision ==
  \A r, s \in Runs :
    r # s /\ HasEffects(r) /\ HasEffects(s) =>
      seen[r].revision # seen[s].revision

(* A run that reports anything but success, and left the store open for    *)
(* another attempt, has applied nothing: a failed cleanup never turns a    *)
(* committed application into a retryable error                            *)
(* (virtualPortfolioFileStore.ts 201-203).                                 *)
RetryableMeansUnapplied ==
  \A r \in Runs :
    /\ pc[r] = "ended" /\ outcome[r] # "committed"
    /\ portfolioLock = Nobody /\ logLock["audit"] = Nobody
    => ~Committed(r) /\ ~HasEffects(r)

(* Once its effects are appended a run gets its receipt: what the pipeline *)
(* appended, log by log, is the suffix that the prepared application       *)
(* demands, whatever was in the logs before and whoever wants to append    *)
(* (paperApplicationLogReceipts.ts 61-81, 133-141).                        *)
SealNeverRefused == \A r \in Runs : pc[r] = "seal" => LogsComplete(r)

(* Whatever a live process comes to, it can go on: no check in the code    *)
(* refuses what the process itself or others before it have made, there    *)
(* is a next lock to wait for and a last one to give back.  With the lock  *)
(* deadlines this leaves no process without a step                         *)
(* (virtualPortfolioRevisionJournal.ts 46-127,                             *)
(* paperApplicationLogReceipts.ts 41-81, paperExecutionLogLocks.ts 47-80). *)
NeverStuck ==
  /\ \A p \in Procs :
       /\ pc[p] \in ReadStates => JournalVerifies
       /\ pc[p] = "journal" /\ stored[p].sequence = 0 => journal = <<>>
  /\ \A r \in Runs :
       /\ pc[r] = "logWait" => \E l \in Logs : NextLog(r, l)
       /\ pc[r] = "intent" => intent[r] = NoRecord
       /\ pc[r] = "plan" => LogsParse
       /\ pc[r] = "unlogs" => \E l \in Logs : LastLog(r, l)
  /\ SealNeverRefused

(* p waits for a lock that q holds.                                        *)
WaitsOn(p, q) ==
  \/ pc[p] \in {"packetWait", "snapshotWait", "applyWait"} /\ portfolioLock = q
  \/ pc[p] = "logWait" /\ \E l \in Logs : NextLog(p, l) /\ logLock[l] = q
  \/ pc[p] = "auditWait" /\ logLock["audit"] = q

(* No set of processes waits only on each other: the order logs in path    *)
(* order, then portfolio excludes a deadlock that only deadlines would     *)
(* resolve.                                                                *)
NoWaitCycle ==
  \A S \in (SUBSET Procs) \ {{}} : \E p \in S : \A q \in S : ~WaitsOn(p, q)

(* A revision is appended by a run or a snapshot update only onto the very *)
(* revision it observed, also when the portfolio value has come back to    *)
(* the observed one in between (ABA).                                      *)
AppendsOntoObserved ==
  [][\A p \in Runs \cup SnapshotUpdates :
       journal' # journal /\ portfolioLock = p =>
         ObservationCurrent(p)]_vars

-----------------------------------------------------------------------------
(* Liveness *)

(* Every started process ends or crashes, also behind a barrier that is    *)
(* never lifted.                                                           *)
EveryStartEnds == \A p \in Procs : pc[p] # "idle" ~> pc[p] \in EndStates
=============================================================================
