------------------------ MODULE ValuationApplication ------------------------
(***************************************************************************)
(* A valuation of one bucket spans three append-only logs (marks, equity   *)
(* events, position events) and two state documents projected from them.   *)
(* The aggregate repository applies it behind a transaction file while it  *)
(* holds the locks of every repository involved; the repositories of the   *)
(* single logs append behind a transaction of their own (equity, position) *)
(* or behind none (marks).  Any I/O may fail after part of its effect and  *)
(* any process may die between two steps.  A failing call gives its locks  *)
(* back and leaves the transaction to whoever comes next; the locks of a   *)
(* dead process stay until an operator removes them.                       *)
(*                                                                         *)
(* A hash of a log prefix is that prefix; a state document is the event    *)
(* prefix it projects; an event refers to its predecessor by position.     *)
(***************************************************************************)
EXTENDS Integers, Sequences, FiniteSets, Functions

CONSTANTS
  Runs,             \* processes calling runBucketValuationOnce
  Markers,          \* processes appending one mark on its own
  EquityWriters,    \* processes appending one equity event on its own
  PositionWriters,  \* processes appending one position event on its own
  Items,            \* the active positions of the bucket
  ItemOf,           \* the position a position writer changes
  AsOf,             \* the time each process gives its record or event
  Nobody, Abandoned, Origin,
  MaxAttempts,      \* calls per process, the retries included
  MaxFaults         \* failing operations and crashes, all together

Writers == EquityWriters \cup PositionWriters
Procs == Runs \cup Markers \cup Writers
Journaled == {"equity", "position"}
Logs == {"mark"} \cup Journaled
Locks == Logs \cup {"evidence"}
None == <<>>      \* no transaction, no torn line

(* lockPaths, sorted by file name.                                         *)
LockOrder == <<"equity", "position", "mark", "evidence">>

ASSUME ProcAssumption ==
  /\ Runs \cap Markers = {} /\ (Runs \cup Markers) \cap Writers = {}
  /\ EquityWriters \cap PositionWriters = {}
  /\ {Nobody, Abandoned, Origin} \cap Procs = {} /\ Nobody # Abandoned
ASSUME ValueAssumption ==
  /\ Items # {} /\ IsFiniteSet(Items)
  /\ AsOf \in [Procs -> Nat] /\ ItemOf \in [PositionWriters -> Items]
  /\ MaxAttempts \in Nat /\ MaxFaults \in Nat

(* A valuation record: its time, and the head of every position it was     *)
(* computed from.  An event is by a process, the origin or a valuation.    *)
Marks == [asOf : Nat, heads : [Items -> Nat]]
ASSUME RecordAssumption == (Procs \cup {Origin}) \cap Marks = {}

VARIABLES
  pc, goal,         \* control state; the call under way: "read" a snapshot,
                    \* read the "evidence", "write"
  attempts, outcome,
  got,              \* how many of its locks a process has
  seen,             \* the logs each process read last
  tx,               \* the transaction a process is working on
  lock, file, doc,
  application,      \* the aggregate transaction file
  single,           \* the transaction files of the journaled repositories
  faults

local == <<goal, attempts, outcome, seen>>
disk == <<file, doc, application, single>>
vars == <<pc, local, got, tx, lock, disk, faults>>

-----------------------------------------------------------------------------
(* Logs and what folding them accepts *)

(* The last event of a position, by its place in the log.                  *)
HeadOf(positions, x) ==
  CHOOSE i \in DOMAIN positions :
    /\ positions[i].item = x
    /\ \A j \in DOMAIN positions : positions[j].item = x => j <= i
HeadsOf(positions) == [x \in Items |-> HeadOf(positions, x)]

(* foldBucketEquityHistory accepts e after the history s.                  *)
EquityFollows(s, e) == e.prev = Len(s) /\ s[Len(s)].asOf <= e.asOf

(* foldBucketPositionMarkHeadHistory accepts e after the history s.        *)
PositionFollows(s, e) ==
  LET h == HeadOf(s, e.item)
  IN /\ e.prev = h
     /\ s[h].asOf <= e.asOf /\ (e.by \notin Procs => s[h].asOf < e.asOf)
     /\ \A i \in DOMAIN s : s[i].item = e.item => s[i].by # e.by

MarkedAt(marks, t) == {m \in Range(marks) : m.asOf = t}

(* The next line of log l may be e: no other mark has its origin, the      *)
(* event continues its chain.                                              *)
Accepts(l, s, e) ==
  CASE l = "mark" -> MarkedAt(s, e.asOf) = {}
    [] l = "equity" -> EquityFollows(s, e)
    [] l = "position" -> PositionFollows(s, e)

Whole(s) == [lines |-> s, torn |-> None]

(* What an append of the lines "added" to the log "prev" may leave:        *)
(* nothing, everything, some lines, or some lines and a torn one.          *)
Partials(prev, added) ==
  {Whole(prev), Whole(prev \o added)} \cup
  {Whole(prev \o SubSeq(added, 1, k)) : k \in 1..(Len(added) - 1)} \cup
  {[lines |-> prev \o SubSeq(added, 1, k - 1), torn |-> added[k]] :
     k \in 1..Len(added)}

(* readSnapshotUnderLocks, readEventLogUnderLock with                      *)
(* assertStoredStateMatchesReplay, readAllUnderLock.                       *)
Readable(l) ==
  /\ file[l].torn = None
  /\ l \in Journaled => doc[l] = file[l].lines

-----------------------------------------------------------------------------
(* The aggregate transaction *)

(* The stored record of the same origin, or one for the heads just seen.   *)
RecordOf(p) ==
  IF MarkedAt(seen[p]["mark"], AsOf[p]) # {}
    THEN CHOOSE m \in MarkedAt(seen[p]["mark"], AsOf[p]) : TRUE
    ELSE [asOf |-> AsOf[p], heads |-> HeadsOf(seen[p]["position"])]

EventsBy(l, r) == {i \in DOMAIN file[l].lines : file[l].lines[i].by = r}

(* Defect: a record computed from heads that have moved is accepted.       *)
ApplicableToAnyHeads(r) ==
  LET positions == file["position"].lines
      equity == file["equity"].lines
      risk == equity[Len(equity)].asOf
  IN /\ risk <= r.asOf
     /\ \A x \in Items : positions[HeadOf(positions, x)].asOf < r.asOf

(* resolveBucketValuationApplication: the record was computed from the     *)
(* current heads, advances them, and the risk state lies between.          *)
Applicable(r) ==
  LET positions == file["position"].lines
      equity == file["equity"].lines
      risk == equity[Len(equity)].asOf
  IN /\ r.heads = HeadsOf(positions)
     /\ risk <= r.asOf
     /\ \A x \in Items :
          LET at == positions[HeadOf(positions, x)].asOf
          IN at < r.asOf /\ at <= risk

EquityEvent(r) ==
  [by |-> r, prev |-> Len(file["equity"].lines), asOf |-> r.asOf]
PositionEvent(r, x) == [by |-> r, item |-> x, prev |-> r.heads[x],
                        asOf |-> r.asOf]
(* One event per position input, in their canonical order.                 *)
ItemOrder == CHOOSE s \in [1..Cardinality(Items) -> Items] : Range(s) = Items
PositionEvents(r) == [i \in DOMAIN ItemOrder |-> PositionEvent(r, ItemOrder[i])]

(* createPendingTransaction.                                               *)
Application(r) ==
  [prev |-> [l \in Logs |-> file[l].lines],
   added |-> [l \in Logs |->
     CASE l = "mark" -> IF r \in Range(file["mark"].lines) THEN <<>> ELSE <<r>>
       [] l = "equity" -> <<EquityEvent(r)>>
       [] l = "position" -> PositionEvents(r)]]

Target(t, l) == t.prev[l] \o t.added[l]

(* What rollForwardTransactionUnderLocks demands of the files.             *)
CanRollForward(t) ==
  /\ \A l \in Logs : file[l] \in Partials(t.prev[l], t.added[l])
  /\ \A l \in Journaled : doc[l] \in {t.prev[l], Target(t, l)}

(* What recoverPendingTransactionUnderLock demands of the log.             *)
CanRecover(l, t) == file[l] \in Partials(t.prev, t.added)

-----------------------------------------------------------------------------
(* Control *)

RollLog == [rollMark |-> "mark", rollEquity |-> "equity",
            rollPosition |-> "position"]
RollDoc == [rollRisk |-> "equity", rollHeads |-> "position"]
(* Defect: the transaction is removed before its last state document.      *)
RollNextWithoutHeads ==
  [rollMark |-> "rollEquity", rollEquity |-> "rollPosition",
   rollPosition |-> "rollRisk", rollRisk |-> "rollRemove",
   rollHeads |-> "rollRemove"]
RollNext == [rollMark |-> "rollEquity", rollEquity |-> "rollPosition",
             rollPosition |-> "rollRisk", rollRisk |-> "rollHeads",
             rollHeads |-> "rollRemove"]
RollStates == DOMAIN RollNext \cup {"rollRemove"}
RestoreStates == {"restoreLog", "restoreDoc", "restoreRemove"}
AppendStates == {"journal", "append", "project", "remove"}
Inside == {"enter", "read", "commit", "validate"} \cup
          RollStates \cup RestoreStates \cup AppendStates
PcStates == Inside \cup {"idle", "locking", "unlocking", "done", "crashed"}

LogOf(p) == IF p \in EquityWriters THEN "equity"
            ELSE IF p \in PositionWriters THEN "position" ELSE "mark"

(* Runs and markers read through the aggregate repository, a run writes    *)
(* through it.                                                             *)
Aggregate(p) == \/ p \in Runs /\ goal[p] # "evidence"
                \/ p \in Markers /\ goal[p] = "read"
Needs(p) == IF goal[p] = "evidence" THEN <<"evidence">>
            ELSE IF Aggregate(p) THEN LockOrder ELSE <<LogOf(p)>>

Goto(p, s) == pc' = [pc EXCEPT ![p] = s]
End(p, o) == outcome' = [outcome EXCEPT ![p] = o]
Keep(p, t) == tx' = [tx EXCEPT ![p] = t]

Advance(p, s) == Goto(p, s) /\ UNCHANGED <<local, got, tx, lock, faults>>

(* The operation returns or throws; its locks are released afterwards.     *)
Leave(p, o) ==
  /\ Goto(p, "unlocking") /\ End(p, o) /\ Keep(p, None)
  /\ UNCHANGED <<goal, attempts, got, lock>>
Throw(p) == Leave(p, "failed") /\ UNCHANGED seen

Die(p) ==
  /\ Goto(p, "crashed") /\ End(p, "failed") /\ Keep(p, None)
  /\ got' = [got EXCEPT ![p] = 0]
  /\ lock' = [k \in Locks |-> IF lock[k] = p THEN Abandoned ELSE lock[k]]
  /\ UNCHANGED <<goal, attempts, seen>>

(* The I/O of a step fails, or its process dies in it.                     *)
Break(p) == /\ faults < MaxFaults /\ faults' = faults + 1
            /\ Throw(p) \/ Die(p)

Init ==
  LET start == [l \in Logs |->
        CASE l = "mark" -> <<>>
          [] l = "equity" -> <<[by |-> Origin, prev |-> 0, asOf |-> 0]>>
          [] l = "position" -> [i \in DOMAIN ItemOrder |->
               [by |-> Origin, item |-> ItemOrder[i], prev |-> 0, asOf |-> 0]]]
  IN /\ pc = [p \in Procs |-> "idle"]
     /\ goal = [p \in Procs |-> "read"]
     /\ attempts = [p \in Procs |-> 0]
     /\ outcome = [p \in Procs |-> "none"]
     /\ got = [p \in Procs |-> 0]
     /\ seen = [p \in Procs |-> start]
     /\ tx = [p \in Procs |-> None]
     /\ lock = [k \in Locks |-> Nobody]
     /\ file = [l \in Logs |-> Whole(start[l])]
     /\ doc = [l \in Journaled |-> start[l]]
     /\ application = None
     /\ single = [l \in Journaled |-> None]
     /\ faults = 0

-----------------------------------------------------------------------------
(* Calls and their locks *)

(* A call, or its repetition after a failure or a crash.  A run starts     *)
(* over, the other writers send the same record or event again.            *)
Start(p) ==
  /\ \/ pc[p] = "idle"
     \/ pc[p] \in {"done", "crashed"} /\ outcome[p] = "failed"
  /\ attempts[p] < MaxAttempts
  /\ attempts' = [attempts EXCEPT ![p] = @ + 1]
  /\ goal' = IF p \in Runs THEN [goal EXCEPT ![p] = "read"] ELSE goal
  /\ Goto(p, "locking") /\ End(p, "none")
  /\ UNCHANGED <<seen, got, tx, lock, disk, faults>>

Wanted(p) == Needs(p)[got[p] + 1]

(* Defect: a lock file that exists is opened all the same.                 *)
FreeIfLeft(k) == lock[k] \in Procs \cup {Nobody}
Free(k) == lock[k] = Nobody

AcquireLock(p) ==
  /\ pc[p] = "locking" /\ Free(Wanted(p))
  /\ lock' = [lock EXCEPT ![Wanted(p)] = p]
  /\ got' = [got EXCEPT ![p] = @ + 1]
  /\ Goto(p, IF got'[p] = Len(Needs(p)) THEN "enter" ELSE "locking")
  /\ UNCHANGED <<local, tx, disk, faults>>

(* Defect: an existing lock file is waited for without a deadline.         *)
TimeOutNever(p) == FALSE /\ UNCHANGED vars

(* lockTimeoutMs has passed.                                               *)
TimeOut(p) ==
  /\ pc[p] = "locking" /\ ~Free(Wanted(p))
  /\ Throw(p) /\ UNCHANGED <<disk, faults>>

(* Defect: the first failing release ends the loop.                        *)
ReleaseUntilFailure(p) ==
  /\ pc[p] = "unlocking" /\ got[p] > 0
  /\ \/ /\ lock' = [lock EXCEPT ![Needs(p)[got[p]]] = Nobody]
        /\ got' = [got EXCEPT ![p] = @ - 1]
        /\ UNCHANGED <<outcome, faults>>
     \/ /\ faults < MaxFaults /\ faults' = faults + 1
        /\ lock' = [lock EXCEPT ![Needs(p)[got[p]]] = Abandoned]
        /\ got' = [got EXCEPT ![p] = 0]
        /\ End(p, "failed")
  /\ UNCHANGED <<pc, goal, attempts, seen, tx, disk>>

(* releaseAllLocks: in reverse order, all of them even if one fails.       *)
ReleaseLock(p) ==
  /\ pc[p] = "unlocking" /\ got[p] > 0
  /\ got' = [got EXCEPT ![p] = @ - 1]
  /\ \/ /\ lock' = [lock EXCEPT ![Needs(p)[got[p]]] = Nobody]
        /\ UNCHANGED <<outcome, faults>>
     \/ /\ faults < MaxFaults /\ faults' = faults + 1
        /\ \E left \in {Nobody, Abandoned} :
             lock' = [lock EXCEPT ![Needs(p)[got[p]]] = left]
        /\ End(p, "failed")
  /\ UNCHANGED <<pc, goal, attempts, seen, tx, disk>>

(* resolveStoredOrigin: a run that saw its mark needs no evidence.         *)
NextGoal(p) ==
  IF p \in Runs /\ goal[p] = "read" /\ MarkedAt(seen[p]["mark"], AsOf[p]) = {}
    THEN "evidence" ELSE "write"

Return(p) ==
  /\ pc[p] = "unlocking" /\ got[p] = 0
  /\ IF outcome[p] = "ok" /\ goal[p] # "write"
       THEN /\ goal' = [goal EXCEPT ![p] = NextGoal(p)]
            /\ Goto(p, "locking") /\ End(p, "none")
       ELSE Goto(p, "done") /\ UNCHANGED <<goal, outcome>>
  /\ UNCHANGED <<attempts, seen, got, tx, lock, disk, faults>>

(* A process dies, or an operation without effect on the files fails.      *)
Fail(p) ==
  /\ pc[p] \in Inside \cup {"locking"} /\ Break(p) /\ UNCHANGED disk

DieReleasing(p) ==
  /\ pc[p] = "unlocking" /\ faults < MaxFaults /\ faults' = faults + 1
  /\ Die(p) /\ UNCHANGED disk

(* An operator removes the lock file of a call that is gone.               *)
ClearLock(k) ==
  /\ lock[k] = Abandoned
  /\ lock' = [lock EXCEPT ![k] = Nobody]
  /\ UNCHANGED <<pc, local, got, tx, disk, faults>>

-----------------------------------------------------------------------------
(* Under the locks: recovery of what an earlier call left *)

(* Defect: the aggregate repository begins whatever is pending.            *)
NoSinglePendingIgnored == TRUE

(* assertNoSingleRepositoryTransactionUnderLocks, then                     *)
(* recoverPendingTransactionUnderLocks.                                    *)
NoSinglePending == \A l \in Journaled : single[l] = None

EnterAggregate(p) ==
  IF NoSinglePending
    THEN /\ Keep(p, application)
         /\ Goto(p, IF application = None THEN "read" ELSE "validate")
         /\ UNCHANGED <<local, got, lock>>
    ELSE Throw(p)

(* Defect: a single repository begins whatever is pending.                 *)
NoApplicationPendingIgnored == TRUE

(* assertNoPendingBucketValuationApplicationTransaction, then              *)
(* recoverPendingTransactionUnderLock; the mark repository has nothing to  *)
(* recover from.                                                           *)
NoApplicationPending == application = None
EnterSingle(p, l) ==
  IF ~NoApplicationPending THEN Throw(p)
  ELSE IF l = "mark" \/ single[l] = None
    THEN Goto(p, "read") /\ UNCHANGED <<local, got, tx, lock>>
  ELSE IF CanRecover(l, single[l])
    THEN /\ Keep(p, single[l]) /\ Goto(p, "restoreLog")
         /\ UNCHANGED <<local, got, lock>>
  ELSE Throw(p)

Enter(p) ==
  /\ pc[p] = "enter"
  /\ IF Aggregate(p) THEN EnterAggregate(p)
     ELSE IF goal[p] = "evidence"
       THEN Goto(p, "read") /\ UNCHANGED <<local, got, tx, lock>>
     ELSE EnterSingle(p, LogOf(p))
  /\ UNCHANGED <<disk, faults>>

(* What the transaction of a single log makes of it: the whole line stays, *)
(* anything less goes.                                                     *)
Restored(l, t) ==
  IF file[l] = Whole(t.prev \o t.added) THEN t.prev \o t.added ELSE t.prev

(* truncateDurableFile *)
RestoreLog(p) ==
  /\ pc[p] = "restoreLog"
  /\ file' = [file EXCEPT ![LogOf(p)] = Whole(Restored(LogOf(p), tx[p]))]
  /\ Advance(p, "restoreDoc") \/ Break(p)
  /\ UNCHANGED <<doc, application, single>>

(* writeDurableStateSnapshot *)
RestoreDoc(p) ==
  /\ pc[p] = "restoreDoc"
  /\ doc' = [doc EXCEPT ![LogOf(p)] = Restored(LogOf(p), tx[p])]
  /\ Advance(p, "restoreRemove") \/ Break(p)
  /\ UNCHANGED <<file, application, single>>

(* removeDurableFile *)
RestoreRemove(p) ==
  /\ pc[p] = "restoreRemove"
  /\ single' = [single EXCEPT ![LogOf(p)] = None]
  /\ \/ /\ Goto(p, "read") /\ Keep(p, None)
        /\ UNCHANGED <<local, got, lock, faults>>
     \/ Break(p)
  /\ UNCHANGED <<file, doc, application>>

-----------------------------------------------------------------------------
(* Reading, and what follows from what was read *)

AllReadable == \A l \in Logs : Readable(l)
Lines == [l \in Logs |-> file[l].lines]

(* readSnapshot, readAll, withConsistentSnapshot *)
ReadSnapshot(p) ==
  /\ pc[p] = "read" /\ goal[p] # "write"
  /\ LET read == IF goal[p] = "evidence" THEN {}
                 ELSE IF Aggregate(p) THEN Logs ELSE {LogOf(p)}
     IN IF \A l \in read : Readable(l)
          THEN /\ seen' = [seen EXCEPT ![p] =
                    [l \in Logs |-> IF l \in read THEN Lines[l] ELSE @[l]]]
               /\ Leave(p, "ok")
          ELSE Throw(p)
  /\ UNCHANGED <<disk, faults>>

Stored(r) == r \in Range(file["mark"].lines)

(* Defect: a stored mark counts as applied.                                *)
PersistedByMark(r) == IF Stored(r) THEN "complete" ELSE "none"

(* resolvePersistedApplicationIfComplete, resolvePersistedApplication      *)
Persisted(r) ==
  IF \A l \in Journaled : EventsBy(l, r) = {} THEN "none"
  ELSE IF /\ Cardinality(EventsBy("equity", r)) = 1
          /\ {file["position"].lines[i].item : i \in EventsBy("position", r)}
               = Items
    THEN "complete" ELSE "incomplete"

(* apply, up to the transaction it decides on                              *)
Resolve(p) ==
  LET r == RecordOf(p)
  IN /\ pc[p] = "read" /\ goal[p] = "write" /\ Aggregate(p)
     /\ IF ~AllReadable THEN Throw(p)
        ELSE IF Stored(r) /\ Persisted(r) = "complete"
          THEN Leave(p, "ok") /\ UNCHANGED seen
        ELSE IF /\ IF Stored(r) THEN Persisted(r) = "none"
                   ELSE MarkedAt(Lines["mark"], r.asOf) = {}
                /\ Applicable(r)
          THEN /\ Keep(p, Application(r)) /\ End(p, "decided")
               /\ Goto(p, "commit")
               /\ UNCHANGED <<goal, attempts, seen, got, lock>>
        ELSE Throw(p)
     /\ UNCHANGED <<disk, faults>>

(* The record or event a caller of a single repository made of the         *)
(* snapshot it read.                                                       *)
Candidate(p) ==
  CASE LogOf(p) = "mark" -> RecordOf(p)
    [] LogOf(p) = "equity" ->
         [by |-> p, prev |-> Len(seen[p]["equity"]), asOf |-> AsOf[p]]
    [] LogOf(p) = "position" ->
         [by |-> p, item |-> ItemOf[p], asOf |-> AsOf[p],
          prev |-> HeadOf(seen[p]["position"], ItemOf[p])]

(* append, up to the transaction it writes; marks are appended without one *)
ResolveSingle(p) ==
  LET l == LogOf(p)
      e == Candidate(p)
  IN /\ pc[p] = "read" /\ goal[p] = "write" /\ ~Aggregate(p)
     /\ IF ~Readable(l) THEN Throw(p)
        ELSE IF e \in Range(Lines[l]) THEN Leave(p, "ok") /\ UNCHANGED seen
        ELSE IF Accepts(l, Lines[l], e)
          THEN /\ Keep(p, [prev |-> Lines[l], added |-> <<e>>])
               /\ Goto(p, IF l = "mark" THEN "append" ELSE "journal")
               /\ UNCHANGED <<local, got, lock>>
        ELSE Throw(p)
     /\ UNCHANGED <<disk, faults>>

-----------------------------------------------------------------------------
(* The append of a single log *)

WriteJournal(p) ==
  /\ pc[p] = "journal"
  /\ single' = [single EXCEPT ![LogOf(p)] = tx[p]]
  /\ Advance(p, "append") \/ Break(p)
  /\ UNCHANGED <<file, doc, application>>

(* The whole line and success, or anything from none of it on and failure. *)
AppendTo(p, l, prev, added, succeed) ==
  \/ file' = [file EXCEPT ![l] = Whole(prev \o added)] /\ succeed
  \/ /\ file[l] # Whole(prev \o added)
     /\ \E f \in Partials(prev, added) : file' = [file EXCEPT ![l] = f]
     /\ Break(p)

(* appendDurableJsonLine *)
AppendLine(p) ==
  /\ pc[p] = "append"
  /\ AppendTo(p, LogOf(p), tx[p].prev, tx[p].added,
       IF LogOf(p) = "mark"
         THEN Leave(p, "ok") /\ UNCHANGED <<seen, faults>>
         ELSE Advance(p, "project"))
  /\ UNCHANGED <<doc, application, single>>

(* writeDurableStateSnapshot *)
Project(p) ==
  /\ pc[p] = "project"
  /\ doc' = [doc EXCEPT ![LogOf(p)] = tx[p].prev \o tx[p].added]
  /\ Advance(p, "remove") \/ Break(p)
  /\ UNCHANGED <<file, application, single>>

RemoveJournal(p) ==
  /\ pc[p] = "remove"
  /\ single' = [single EXCEPT ![LogOf(p)] = None]
  /\ \/ Leave(p, "ok") /\ UNCHANGED <<seen, faults>>
     \/ Break(p)
  /\ UNCHANGED <<file, doc, application>>

-----------------------------------------------------------------------------
(* The aggregate transaction, committed and rolled forward *)

Commit(p) ==
  /\ pc[p] = "commit"
  /\ application' = tx[p]
  /\ Advance(p, "validate") \/ Break(p)
  /\ UNCHANGED <<file, doc, single>>

Validate(p) ==
  /\ pc[p] = "validate"
  /\ IF CanRollForward(tx[p])
       THEN Goto(p, "rollMark") /\ UNCHANGED <<local, got, tx, lock>>
       ELSE Throw(p)
  /\ UNCHANGED <<disk, faults>>

(* ensureAppended: what a broken append left is cut off first.             *)
RollForwardLog(p) ==
  /\ pc[p] \in DOMAIN RollLog
  /\ LET l == RollLog[pc[p]]
     IN AppendTo(p, l, tx[p].prev[l], tx[p].added[l],
                 Advance(p, RollNext[pc[p]]))
  /\ UNCHANGED <<doc, application, single>>

(* writeDurableBytes *)
RollForwardDoc(p) ==
  /\ pc[p] \in DOMAIN RollDoc
  /\ doc' = [doc EXCEPT ![RollDoc[pc[p]]] = Target(tx[p], RollDoc[pc[p]])]
  /\ Advance(p, RollNext[pc[p]]) \/ Break(p)
  /\ UNCHANGED <<file, application, single>>

(* The transaction of this call ends it, that of another precedes it.      *)
RemoveApplication(p) ==
  /\ pc[p] = "rollRemove"
  /\ application' = None
  /\ \/ /\ outcome[p] = "decided"
        /\ Leave(p, "ok") /\ UNCHANGED <<seen, faults>>
     \/ /\ outcome[p] = "none"
        /\ Goto(p, "read") /\ Keep(p, None)
        /\ UNCHANGED <<local, got, lock, faults>>
     \/ Break(p)
  /\ UNCHANGED <<file, doc, single>>

-----------------------------------------------------------------------------
Work(p) ==
  \/ Enter(p) \/ RestoreLog(p) \/ RestoreDoc(p) \/ RestoreRemove(p)
  \/ ReadSnapshot(p) \/ Resolve(p) \/ ResolveSingle(p)
  \/ WriteJournal(p) \/ AppendLine(p) \/ Project(p) \/ RemoveJournal(p)
  \/ Commit(p) \/ Validate(p) \/ RollForwardLog(p) \/ RollForwardDoc(p)
  \/ RemoveApplication(p)

(* What a call that has begun goes on to do unless it dies.                *)
Proceed(p) ==
  AcquireLock(p) \/ TimeOut(p) \/ Work(p) \/ ReleaseLock(p) \/ Return(p)

Next == \/ \E p \in Procs : Start(p) \/ Proceed(p) \/ Fail(p) \/ DieReleasing(p)
        \/ \E k \in Locks : ClearLock(k)

Spec == Init /\ [][Next]_vars

(* The event loop resumes every process; a timer ends every wait.          *)
LiveSpec == Spec /\ \A p \in Procs : WF_vars(Proceed(p))

-----------------------------------------------------------------------------
(* What the repositories promise *)

(* Lines of the committed state: a pending application has been decided.   *)
Committed == [l \in Logs |-> IF application = None THEN file[l].lines
                             ELSE Target(application, l)]

(* The shape of the state.                                                 *)
TypeOK ==
  /\ pc \in [Procs -> PcStates]
  /\ goal \in [Procs -> {"read", "evidence", "write"}]
  /\ attempts \in [Procs -> 0..MaxAttempts]
  /\ outcome \in [Procs -> {"none", "decided", "ok", "failed"}]
  /\ got \in [Procs -> 0..4]
  /\ lock \in [Locks -> Procs \cup {Nobody, Abandoned}]
  /\ DOMAIN file = Logs /\ DOMAIN doc = Journaled
  /\ DOMAIN single = Journaled
  /\ DOMAIN seen = Procs /\ DOMAIN tx = Procs
  /\ faults \in 0..MaxFaults

(* releaseAllLocks gives back every lock of a call that returns or throws, *)
(* even when one release fails: a call that has ended holds none, and one  *)
(* that goes on holds those it counts.                                     *)
LocksGivenBack ==
  \A p \in Procs : {k \in Locks : lock[k] = p} =
                     {Needs(p)[i] : i \in 1..got[p]}

(* A pending transaction always finds the files it demands, whatever was   *)
(* written, by whom, before and after the call that wrote it broke off; a  *)
(* journaled log without transaction is complete and projected: the        *)
(* recovery in recoverPendingTransactionUnderLock(s) never gets stuck.     *)
Recoverable ==
  /\ application # None => CanRollForward(application)
  /\ \A l \in Journaled :
       IF single[l] # None THEN CanRecover(l, single[l])
       ELSE application = None => Readable(l)

(* A log is never under two transactions, which would recover it from two  *)
(* different prefixes (assertNoPending..., assertNoSingleRepository...).   *)
OneJournal ==
  application # None => \A l \in Journaled : single[l] = None

(* The marks, the equity events and the position events of a successful    *)
(* call are committed, all of them or, for a call of a single repository,  *)
(* its own; a failed call may be repeated without doubling them.           *)
Acknowledged(p) ==
  IF p \in Runs
    THEN \E m \in MarkedAt(Committed["mark"], AsOf[p]) :
           /\ Cardinality({i \in DOMAIN Committed["equity"] :
                             Committed["equity"][i].by = m}) = 1
           /\ \A x \in Items :
                Cardinality({i \in DOMAIN Committed["position"] :
                               /\ Committed["position"][i].by = m
                               /\ Committed["position"][i].item = x}) = 1
    ELSE Cardinality({i \in DOMAIN Committed[LogOf(p)] :
                        Committed[LogOf(p)][i] = Candidate(p)}) = 1
AcknowledgedIsCommitted ==
  \A p \in Procs : pc[p] = "done" /\ outcome[p] = "ok" => Acknowledged(p)

(* Every call ends, in success or failure, if its process lives: locks are *)
(* taken in one order, and waiting for one is bounded.                     *)
EveryCallEnds ==
  \A p \in Procs : pc[p] = "locking" ~> pc[p] \in {"done", "crashed"}
=============================================================================
