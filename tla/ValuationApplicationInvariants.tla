------------------- MODULE ValuationApplicationInvariants -------------------
(***************************************************************************)
(* The inductive invariant of ValuationApplication: where the control of a *)
(* process is tells which locks it holds, which transaction it works on    *)
(* and how much of it is on disk.                                          *)
(***************************************************************************)
EXTENDS ValuationApplication

AggregateStates == {"commit", "validate"} \cup RollStates
SingleStates == RestoreStates \cup AppendStates

(* A call inside its operation holds all its locks, one that has ended     *)
(* none; what it does there fits the repository it called.                 *)
Control(p) ==
  /\ got[p] \in 0..Len(Needs(p))
  /\ pc[p] = "locking" => got[p] < Len(Needs(p))
  /\ pc[p] \in Inside => got[p] = Len(Needs(p))
  /\ pc[p] \in {"idle", "done", "crashed"} => got[p] = 0
  /\ pc[p] \in AggregateStates => Aggregate(p)
  /\ pc[p] \in SingleStates => ~Aggregate(p) /\ goal[p] # "evidence"
  /\ pc[p] \in SingleStates \ {"append"} => LogOf(p) \in Journaled

IsTransaction(t) == t = [prev |-> t.prev, added |-> t.added]

(* A call of the aggregate repository: what is on disk of its transaction. *)
AggregateStage(p) ==
  LET t == tx[p]
  IN /\ pc[p] = "read" /\ Aggregate(p) =>
          application = None /\ NoSinglePending
     /\ pc[p] \in AggregateStates => NoSinglePending /\ IsTransaction(t)
     /\ pc[p] = "commit" => application = None /\ CanRollForward(t)
     /\ pc[p] \in AggregateStates \ {"commit"} => application = t
     /\ pc[p] \in {"rollEquity", "rollPosition", "rollRisk", "rollHeads",
                   "rollRemove"} => file["mark"] = Whole(Target(t, "mark"))
     /\ pc[p] \in {"rollPosition", "rollRisk", "rollHeads", "rollRemove"} =>
          file["equity"] = Whole(Target(t, "equity"))
     /\ pc[p] \in {"rollRisk", "rollHeads", "rollRemove"} =>
          file["position"] = Whole(Target(t, "position"))
     /\ pc[p] \in {"rollHeads", "rollRemove"} =>
          doc["equity"] = Target(t, "equity")
     /\ pc[p] = "rollRemove" => doc["position"] = Target(t, "position")

(* A call of the repository of a single log.                               *)
SingleStage(p) ==
  LET l == LogOf(p)
      t == tx[p]
  IN /\ pc[p] = "read" /\ ~Aggregate(p) /\ goal[p] # "evidence" =>
          application = None /\ (l \in Journaled => single[l] = None)
     /\ pc[p] \in SingleStates => application = None /\ IsTransaction(t)
     /\ pc[p] = "journal" => single[l] = None /\ file[l] = Whole(t.prev)
     /\ l \in Journaled /\ pc[p] \in SingleStates \ {"journal"} =>
          single[l] = t
     /\ pc[p] \in {"project", "remove"} =>
          file[l] = Whole(t.prev \o t.added)
     /\ pc[p] = "remove" => doc[l] = t.prev \o t.added
     /\ pc[p] \in {"restoreDoc", "restoreRemove"} =>
          file[l] = Whole(Restored(l, t))
     /\ pc[p] = "restoreRemove" => doc[l] = Restored(l, t)

LockShapes ==
  /\ pc \in [Procs -> PcStates]
  /\ goal \in [Procs -> {"read", "evidence", "write"}]
  /\ got \in [Procs -> Nat]
  /\ lock \in [Locks -> Procs \cup {Nobody, Abandoned}]
  /\ tx = [p \in Procs |-> tx[p]]

Locking == LockShapes /\ LocksGivenBack /\ \A p \in Procs : Control(p)

DiskShapes ==
  /\ file = [l \in Logs |-> file[l]]
  /\ \A l \in Logs : file[l] = [lines |-> file[l].lines, torn |-> file[l].torn]
  /\ doc = [l \in Journaled |-> doc[l]]
  /\ single = [l \in Journaled |-> single[l]]
  /\ application # None => IsTransaction(application)
  /\ \A l \in Journaled : single[l] # None => IsTransaction(single[l])

(* The inductive invariant: the locks are those the counters say, every    *)
(* process is where its transaction is, and whatever is left behind can be *)
(* recovered.                                                              *)
Discipline ==
  /\ Locking
  /\ DiskShapes
  /\ \A p \in Procs : AggregateStage(p) /\ SingleStage(p)
  /\ OneJournal
  /\ Recoverable

-----------------------------------------------------------------------------
(* Every position has a last event.                                        *)
HasHeads(positions) ==
  \A x \in Items : \E i \in DOMAIN positions :
    /\ positions[i].item = x
    /\ \A j \in DOMAIN positions : positions[j].item = x => j <= i

Sound ==
  /\ \A l \in Logs : Committed[l] \in Seq(Range(Committed[l]))
  /\ HasHeads(Committed["position"])

OneLine(t) == t.prev \in Seq(Range(t.prev)) /\ t.added = <<t.added[1]>>

(* Nothing of the valuation r is in the logs but, at most, its mark.       *)
Fresh(r) == IF Stored(r) THEN Persisted(r) = "none"
            ELSE MarkedAt(Lines["mark"], r.asOf) = {}

(* What a call has decided on fits the logs until it is committed.         *)
Decided(p) ==
  LET l == LogOf(p)
      t == tx[p]
  IN /\ pc[p] = "commit" =>
          /\ \A k \in Logs : file[k] = Whole(t.prev[k])
          /\ t = Application(RecordOf(p)) /\ Applicable(RecordOf(p))
          /\ Fresh(RecordOf(p))
     /\ pc[p] \in {"journal", "append"} =>
          /\ file[l] = Whole(t.prev) /\ t.added = <<Candidate(p)>>
          /\ Accepts(l, t.prev, Candidate(p))

(* What is in the logs, and what is about to be.                           *)
Contents ==
  /\ Sound /\ DOMAIN seen = Procs
  /\ \A l \in Journaled : single[l] # None => OneLine(single[l])
  /\ \A p \in Procs : Decided(p)

-----------------------------------------------------------------------------
(* No time is marked twice, the equity events are a chain in which no      *)
(* valuation comes twice, and nobody has written a position twice.         *)
MarkedOnce(s) == \A i, j \in DOMAIN s : s[i].asOf = s[j].asOf => i = j
ValuedOnce(s) ==
  /\ \A i \in DOMAIN s : s[i].prev = i - 1
  /\ \A i, j \in DOMAIN s : s[i].by = s[j].by /\ s[i].by \in Marks => i = j
ChangedOnce(s) ==
  \A i, j \in DOMAIN s : s[i].by = s[j].by /\ s[i].item = s[j].item => i = j

Distinct(c) ==
  /\ Range(c["mark"]) \subseteq Marks
  /\ MarkedOnce(c["mark"]) /\ ValuedOnce(c["equity"])
  /\ ChangedOnce(c["position"])
  /\ \A l \in Journaled : \A e \in Range(c[l]) :
       e.by \in Procs \cup {Origin} \cup Range(c["mark"])

(* A process has read logs that were once committed.                       *)
Known(p) == /\ Range(seen[p]["mark"]) \subseteq Marks
            /\ seen[p]["position"] \in Seq(Range(seen[p]["position"]))
            /\ HasHeads(seen[p]["position"])

(* What the process p is to write is in the logs c.                        *)
Entered(p, c) ==
  IF p \in Runs
    THEN \E m \in MarkedAt(c["mark"], AsOf[p]) :
           /\ \E e \in Range(c["equity"]) : e.by = m
           /\ \A x \in Items : \E e \in Range(c["position"]) :
                e.by = m /\ e.item = x
    ELSE Candidate(p) \in Range(c[LogOf(p)])

(* Success is told only of what is committed.                              *)
Told(p) ==
  /\ outcome[p] = "decided" => pc[p] \in AggregateStates
  /\ outcome[p] = "ok" => \/ pc[p] = "unlocking"
                          \/ pc[p] = "done" /\ goal[p] = "write"
  /\ pc[p] \in {"project", "remove"} => tx[p].added = <<Candidate(p)>>
  /\ \/ outcome[p] = "ok" /\ goal[p] = "write"
     \/ outcome[p] = "decided" /\ pc[p] # "commit"
     => Entered(p, Committed)

Records ==
  /\ outcome \in [Procs -> {"none", "decided", "ok", "failed"}]
  /\ Distinct(Committed)
  /\ \A p \in Procs : Known(p) /\ Told(p)

-----------------------------------------------------------------------------
(* How far a process is from its end *)

StageRank ==
  [locking |-> 30, enter |-> 29, restoreLog |-> 20, restoreDoc |-> 19,
   restoreRemove |-> 18, read |-> 17, journal |-> 16, append |-> 15,
   project |-> 14, remove |-> 13, commit |-> 12, validate |-> 11,
   rollMark |-> 10, rollEquity |-> 9, rollPosition |-> 8, rollRisk |-> 7,
   rollHeads |-> 6, rollRemove |-> 5, unlocking |-> 2, done |-> 0,
   crashed |-> 0, idle |-> 0]
GoalRank == [read |-> 2, evidence |-> 1, write |-> 0]

(* The transaction of an earlier call is rolled forward before the own     *)
(* work of this one.                                                       *)
Recovering(p) ==
  pc[p] \in {"validate"} \cup RollStates /\ outcome[p] # "decided"

(* What is committed is always the transaction of the call itself.         *)
CommitsItsOwn ==
  \A p \in Procs : pc[p] = "commit" => outcome[p] = "decided"

(* What a process has before it: calls of the repositories, stages of the  *)
(* one under way, locks to take or to give back.                           *)
Calls(p) == 3 * (MaxAttempts - attempts[p]) + GoalRank[goal[p]]
Stage(p) == StageRank[pc[p]] + (IF Recovering(p) THEN 17 ELSE 0)
Rest(p) == CASE pc[p] = "locking" -> Len(Needs(p)) - got[p]
             [] pc[p] = "unlocking" -> got[p]
             [] OTHER -> 0
MeasuresInv ==
  \A p \in Procs : Calls(p) \in Nat /\ Stage(p) \in Nat /\ Rest(p) \in Nat

AsFar(p) == UNCHANGED <<Calls(p), Stage(p), Rest(p)>>
Descends(p) ==
  \/ Calls(p)' < Calls(p)
  \/ Calls(p)' = Calls(p) /\ Stage(p)' < Stage(p)
  \/ Calls(p)' = Calls(p) /\ Stage(p)' = Stage(p) /\ Rest(p)' < Rest(p)

SomeoneCloser ==
  \/ \E p \in Procs : Descends(p) /\ \A q \in Procs \ {p} : AsFar(q)
  \/ \E k \in Locks : ClearLock(k) /\ \A q \in Procs : AsFar(q)

(* Every step of a process brings it nearer to the end of all its calls,   *)
(* in an order without infinite descent, and sets no other one back; a     *)
(* recovery never leads to another one within the same call                *)
(* (bucketValuationApplicationFiles.ts 208-330).                           *)
OneComesCloser == [][SomeoneCloser]_vars
=============================================================================
