--------------------- MODULE ValuationApplicationProofs ---------------------
(***************************************************************************)
(* The locks and the recovery of ValuationApplication, the ledger its      *)
(* repositories implement, what their success tells and that every step    *)
(* leads on, for any processes, positions, times and numbers of calls and  *)
(* faults.                                                                 *)
(***************************************************************************)
EXTENDS ValuationApplicationInvariants, ValuationApplicationLedger,
        SequenceTheorems, FiniteSetTheorems, TLAPS

(* The locks of a call are different ones.                                 *)
LEMMA NeedsFacts ==
  ASSUME NEW p \in Procs, LockShapes
  PROVE  /\ Len(Needs(p)) \in {1, 4}
         /\ \A i \in 1..Len(Needs(p)) : Needs(p)[i] \in Locks
         /\ \A i, j \in 1..Len(Needs(p)) : Needs(p)[i] = Needs(p)[j] => i = j
         /\ Aggregate(p) => \A k \in Locks : \E i \in 1..Len(Needs(p)) :
                                                k = Needs(p)[i]
         /\ ~Aggregate(p) /\ goal[p] # "evidence" => Needs(p) = <<LogOf(p)>>
<1> USE DEF Needs, LockOrder, Locks, Logs, Journaled
<1>1. CASE goal[p] = "evidence"
  BY <1>1 DEF Aggregate, LockShapes
<1>2. CASE goal[p] # "evidence" /\ Aggregate(p)
  <2>1. Needs(p) = <<"equity", "position", "mark", "evidence">>
    BY <1>2
  <2>2. Len(Needs(p)) = 4
    BY <2>1
  <2>3. /\ Needs(p)[1] = "equity" /\ Needs(p)[2] = "position"
        /\ Needs(p)[3] = "mark" /\ Needs(p)[4] = "evidence"
    BY <2>1
  <2>4. \A i \in 1..4 : i = 1 \/ i = 2 \/ i = 3 \/ i = 4
    OBVIOUS
  <2> HIDE DEF Needs
  <2>5. \A i \in 1..4 : Needs(p)[i] \in Locks
    BY <2>3, <2>4
  <2>6. \A i, j \in 1..4 : Needs(p)[i] = Needs(p)[j] => i = j
    BY <2>3, <2>4
  <2>7. \A k \in Locks : \E i \in 1..4 : k = Needs(p)[i]
    BY <2>3
  <2> QED BY <1>2, <2>2, <2>5, <2>6, <2>7
<1>3. CASE goal[p] # "evidence" /\ ~Aggregate(p)
  BY <1>3 DEF LogOf
<1> QED BY <1>1, <1>2, <1>3

(* Every call inside its operation holds every lock it needs.              *)
LEMMA InsideHolds ==
  ASSUME NEW p \in Procs, Locking, pc[p] \in Inside,
         NEW i \in 1..Len(Needs(p))
  PROVE  lock[Needs(p)[i]] = p
<1>1. got[p] = Len(Needs(p))
  BY DEF Locking, Control
<1> QED BY <1>1 DEF Locking, LocksGivenBack

(* Two calls inside their operations work on different logs.               *)
LEMMA Exclusion ==
  ASSUME NEW p \in Procs, NEW q \in Procs, p # q, Locking,
         pc[p] \in Inside, pc[q] \in Inside
  PROVE  /\ ~Aggregate(p) /\ ~Aggregate(q)
         /\ goal[p] # "evidence" /\ goal[q] # "evidence" => LogOf(p) # LogOf(q)
<1> USE DEF Locking
<1>1. ASSUME NEW r \in Procs, NEW s \in Procs, r # s,
             pc[r] \in Inside, pc[s] \in Inside, Aggregate(r)
      PROVE  FALSE
  <2>1. Needs(s)[1] \in Locks /\ 1 \in 1..Len(Needs(s))
    BY NeedsFacts
  <2>2. lock[Needs(s)[1]] = s
    BY <1>1, <2>1, InsideHolds
  <2>3. PICK i \in 1..Len(Needs(r)) : Needs(s)[1] = Needs(r)[i]
    BY <1>1, <2>1, NeedsFacts
  <2> QED BY <1>1, <2>2, <2>3, InsideHolds
<1>2. ~Aggregate(p) /\ ~Aggregate(q)
  BY <1>1
<1>3. ASSUME goal[p] # "evidence", goal[q] # "evidence", LogOf(p) = LogOf(q)
      PROVE  FALSE
  <2>1. Needs(p) = <<LogOf(p)>> /\ Needs(q) = <<LogOf(q)>>
    BY <1>2, <1>3, NeedsFacts
  <2>2. Needs(p) = Needs(q) /\ 1 \in 1..Len(Needs(p))
    BY <1>3, <2>1
  <2> QED BY <2>2, InsideHolds
<1> QED BY <1>2, <1>3

-----------------------------------------------------------------------------
(* The locks *)

(* The control of everybody else is left alone.                            *)
OnlyMoves(p) ==
  \A q \in Procs \ {p} : /\ pc'[q] = pc[q] /\ goal'[q] = goal[q]
                         /\ got'[q] = got[q] /\ tx'[q] = tx[q]

LEMMA OthersControl ==
  ASSUME NEW p \in Procs, OnlyMoves(p), NEW q \in Procs \ {p}, Control(q)
  PROVE  Control(q)' /\ Needs(q)' = Needs(q) /\ (Aggregate(q)' <=> Aggregate(q))
BY DEF OnlyMoves, Control, Needs, Aggregate, LogOf

LEMMA LockingInit == Init => Locking
<1> SUFFICES ASSUME Init PROVE Locking
  OBVIOUS
<1>1. LockShapes
  BY ProcAssumption DEF Init, LockShapes, PcStates
<1>2. LocksGivenBack
  <2> SUFFICES ASSUME NEW p \in Procs
               PROVE  {k \in Locks : lock[k] = p} =
                      {Needs(p)[i] : i \in 1..got[p]}
    BY DEF LocksGivenBack
  <2>1. got[p] = 0
    BY DEF Init
  <2>2. \A k \in Locks : lock[k] # p
    BY ProcAssumption DEF Init
  <2> QED BY <2>1, <2>2
<1>3. ASSUME NEW p \in Procs PROVE Control(p)
  <2>1. got[p] = 0 /\ pc[p] = "idle"
    BY DEF Init
  <2>2. Len(Needs(p)) \in {1, 4}
    BY <1>1, NeedsFacts
  <2> QED BY <2>1, <2>2 DEF Control, Inside, RollStates, RollNext,
               RestoreStates, AppendStates, AggregateStates, SingleStates
<1> QED BY <1>1, <1>2, <1>3 DEF Locking

(* Nobody's locks change.                                                  *)
LEMMA KeepLocks ==
  ASSUME NEW p \in Procs, Locking, OnlyMoves(p), LockShapes', Control(p)',
         lock' = lock, got' = got, goal' = goal
  PROVE  Locking'
<1>1. \A q \in Procs : Control(q)'
  BY OthersControl DEF Locking
<1>2. \A q \in Procs : Needs(q)' = Needs(q)
  BY DEF Needs, Aggregate, LogOf
<1>3. LocksGivenBack'
  BY <1>2 DEF Locking, LocksGivenBack
<1> QED BY <1>1, <1>3 DEF Locking

LEMMA StatesApart ==
  /\ Inside \cap {"idle", "locking", "unlocking", "done", "crashed"} = {}
  /\ AggregateStates \subseteq Inside /\ SingleStates \subseteq Inside
  /\ AggregateStates \cap SingleStates = {}
  /\ {"enter", "read"} \cap (AggregateStates \cup SingleStates) = {}
BY DEF Inside, AggregateStates, SingleStates, RollStates, RollNext,
       RestoreStates, AppendStates

LEMMA AdvanceLocks ==
  ASSUME NEW p \in Procs, Locking, pc[p] \in Inside, NEW s \in Inside,
         Goto(p, s), got' = got, lock' = lock, goal' = goal,
         tx' = tx \/ \E t : Keep(p, t),
         s \in AggregateStates => Aggregate(p),
         s \in SingleStates => ~Aggregate(p) /\ goal[p] # "evidence",
         s \in SingleStates \ {"append"} => LogOf(p) \in Journaled
  PROVE  Locking' /\ OnlyMoves(p)
<1>1. OnlyMoves(p) /\ LockShapes' /\ pc'[p] = s
  BY DEF OnlyMoves, Locking, LockShapes, Goto, Keep, PcStates
<1>2. Needs(p)' = Needs(p) /\ (Aggregate(p)' <=> Aggregate(p))
  BY DEF Needs, Aggregate, LogOf
<1>3. LogOf(p)' = LogOf(p)
  BY DEF LogOf
<1>4. s \notin {"idle", "locking", "done", "crashed"}
  BY StatesApart
<1>5. Control(p)'
  BY <1>1, <1>2, <1>3, <1>4 DEF Locking, Control
<1> QED BY <1>1, <1>5, KeepLocks

LEMMA LeaveLocks ==
  ASSUME NEW p \in Procs, Locking, NEW o, Leave(p, o)
  PROVE  Locking' /\ OnlyMoves(p) /\ pc'[p] = "unlocking"
<1>1. OnlyMoves(p) /\ LockShapes' /\ pc'[p] = "unlocking" /\ got' = got
      /\ goal' = goal /\ lock' = lock
  BY DEF OnlyMoves, Locking, LockShapes, Leave, Goto, Keep, PcStates
<1>2. Needs(p)' = Needs(p)
  BY <1>1 DEF Needs, Aggregate, LogOf
<1>3. Control(p)'
  BY <1>1, <1>2, StatesApart DEF Locking, Control
<1> QED BY <1>1, <1>3, KeepLocks

LEMMA DieLocks ==
  ASSUME NEW p \in Procs, Locking, Die(p)
  PROVE  Locking' /\ OnlyMoves(p) /\ pc'[p] = "crashed"
<1> USE DEF Locking
<1>1. OnlyMoves(p) /\ pc'[p] = "crashed" /\ got'[p] = 0 /\ goal' = goal
  BY DEF OnlyMoves, LockShapes, Die, Goto, Keep
<1>2. LockShapes'
  BY DEF LockShapes, Die, Goto, Keep, PcStates
<1>3. \A q \in Procs : Needs(q)' = Needs(q)
  BY <1>1 DEF Needs, Aggregate, LogOf
<1>4. Control(p)'
  BY <1>1, <1>2, NeedsFacts, <1>3, StatesApart DEF Control
<1>5. ASSUME NEW q \in Procs
      PROVE  {k \in Locks : lock'[k] = q} = {Needs(q)[i] : i \in 1..got'[q]}
  <2>1. \A k \in Locks : lock'[k] = q <=> lock[k] = q /\ q # p
    BY ProcAssumption DEF Die, LockShapes
  <2>2. CASE q = p
    BY <2>1, <2>2, <1>1
  <2>3. CASE q # p
    <3>1. got'[q] = got[q]
      BY <2>3, <1>1 DEF OnlyMoves
    <3> QED BY <2>1, <2>3, <3>1 DEF LocksGivenBack
  <2> QED BY <2>2, <2>3
<1>6. LocksGivenBack'
  BY <1>3, <1>5 DEF LocksGivenBack
<1>7. \A q \in Procs : Control(q)'
  BY <1>1, <1>4, OthersControl
<1> QED BY <1>1, <1>2, <1>6, <1>7

LEMMA BreakLocks ==
  ASSUME NEW p \in Procs, Locking, Break(p)
  PROVE  Locking' /\ OnlyMoves(p) /\ pc'[p] \in {"unlocking", "crashed"}
BY LeaveLocks, DieLocks DEF Break, Throw

LEMMA StartLocks ==
  ASSUME NEW p \in Procs, Locking, Start(p)
  PROVE  Locking' /\ OnlyMoves(p) /\ pc'[p] = "locking"
<1> USE DEF Locking
<1>1. OnlyMoves(p) /\ LockShapes' /\ pc'[p] = "locking"
      /\ got' = got /\ lock' = lock
  BY DEF OnlyMoves, LockShapes, Start, Goto, PcStates
<1>2. got[p] = 0
  BY DEF Start, Control
<1>3. Control(p)'
  <2>1. Len(Needs(p)') \in {1, 4}
    BY DEF Needs, LockOrder
  <2>2. pc'[p] \notin Inside \cup AggregateStates \cup SingleStates
    BY <1>1, StatesApart
  <2>3. got'[p] = 0 /\ pc'[p] = "locking"
    BY <1>1, <1>2
  <2> QED BY <2>1, <2>2, <2>3 DEF Control
<1>4. \A q \in Procs : Control(q)'
  BY <1>1, <1>3, OthersControl
<1>5. ASSUME NEW q \in Procs
      PROVE  {k \in Locks : lock'[k] = q} = {Needs(q)'[i] : i \in 1..got'[q]}
  <2>1. CASE q = p
    BY <2>1, <1>1, <1>2 DEF LocksGivenBack
  <2>2. CASE q # p
    BY <2>2, <1>1, OthersControl DEF LocksGivenBack
  <2> QED BY <2>1, <2>2
<1>6. LocksGivenBack'
  BY <1>5 DEF LocksGivenBack
<1> QED BY <1>1, <1>4, <1>6

LEMMA ReturnLocks ==
  ASSUME NEW p \in Procs, Locking, Return(p)
  PROVE  Locking' /\ OnlyMoves(p) /\ pc'[p] \in {"locking", "done"}
<1> USE DEF Locking
<1>1. OnlyMoves(p) /\ LockShapes' /\ pc'[p] \in {"locking", "done"}
      /\ got' = got /\ lock' = lock
  BY DEF OnlyMoves, LockShapes, Return, Goto, PcStates, NextGoal
<1>2. got[p] = 0
  BY DEF Return
<1>3. Control(p)'
  <2>1. Len(Needs(p)') \in {1, 4}
    BY DEF Needs, LockOrder
  <2> QED BY <1>1, <1>2, <2>1, StatesApart DEF Control
<1>4. \A q \in Procs : Control(q)'
  BY <1>1, <1>3, OthersControl
<1>5. ASSUME NEW q \in Procs
      PROVE  {k \in Locks : lock'[k] = q} = {Needs(q)'[i] : i \in 1..got'[q]}
  <2>1. CASE q = p
    BY <2>1, <1>1, <1>2 DEF LocksGivenBack
  <2>2. CASE q # p
    BY <2>2, <1>1, OthersControl DEF LocksGivenBack
  <2> QED BY <2>1, <2>2
<1>6. LocksGivenBack'
  BY <1>5 DEF LocksGivenBack
<1> QED BY <1>1, <1>4, <1>6

LEMMA AcquireLocks ==
  ASSUME NEW p \in Procs, Locking, AcquireLock(p)
  PROVE  Locking' /\ OnlyMoves(p) /\ pc'[p] \in {"locking", "enter"}
<1> USE DEF Locking
<1> DEFINE n == got[p] + 1
           k == Needs(p)[n]
<1>1. /\ OnlyMoves(p) /\ pc'[p] \in {"locking", "enter"} /\ goal' = goal
      /\ got' = [got EXCEPT ![p] = n] /\ lock' = [lock EXCEPT ![k] = p]
      /\ lock[k] = Nobody /\ pc[p] = "locking"
      /\ pc'[p] = IF n = Len(Needs(p)) THEN "enter" ELSE "locking"
  BY DEF OnlyMoves, LockShapes, AcquireLock, Goto, Free, Wanted, local
<1>2. got[p] \in 0..Len(Needs(p)) /\ Len(Needs(p)) \in {1, 4}
  BY NeedsFacts DEF Control
<1>3. got[p] \in Nat /\ n \in 1..Len(Needs(p)) /\ k \in Locks
  BY <1>1, <1>2, NeedsFacts DEF Control
<1>4. LockShapes'
  <2>1. /\ tx' = tx
        /\ pc' = [pc EXCEPT ![p] = IF n = Len(Needs(p)) THEN "enter"
                                   ELSE "locking"]
    BY <1>1 DEF AcquireLock, Goto, Wanted, LockShapes
  <2>2. {"enter", "locking"} \subseteq PcStates
    BY DEF PcStates, Inside
  <2> HIDE DEF n, k
  <2> QED BY <1>1, <1>3, <2>1, <2>2 DEF LockShapes
<1>5. \A q \in Procs : Needs(q)' = Needs(q)
  BY <1>1 DEF Needs, Aggregate, LogOf
<1>6. got'[p] = n
  BY <1>1 DEF LockShapes
<1> HIDE DEF n
<1>7. Control(p)'
  BY <1>1, <1>2, <1>3, <1>5, <1>6, StatesApart DEF Control
<1>8. ASSUME NEW q \in Procs
      PROVE  {h \in Locks : lock'[h] = q} = {Needs(q)[i] : i \in 1..got'[q]}
  <2>1. \A h \in Locks : lock'[h] = IF h = k THEN p ELSE lock[h]
    BY <1>1 DEF LockShapes
  <2>2. CASE q = p
    <3>1. {h \in Locks : lock[h] = p} = {Needs(p)[i] : i \in 1..got[p]}
      BY DEF LocksGivenBack
    <3>2. 1..n = 1..got[p] \cup {n}
      BY <1>3 DEF n
    <3> QED BY <1>3, <1>6, <2>1, <2>2, <3>1, <3>2
  <2>3. CASE q # p
    <3>1. got'[q] = got[q]
      BY <1>1, <2>3 DEF OnlyMoves
    <3>2. \A h \in Locks : lock'[h] = q <=> lock[h] = q
      BY <1>1, <2>1, <2>3, ProcAssumption
    <3> QED BY <3>1, <3>2 DEF LocksGivenBack
  <2> QED BY <2>2, <2>3
<1>9. LocksGivenBack'
  BY <1>5, <1>8 DEF LocksGivenBack
<1>10. \A q \in Procs : Control(q)'
  BY <1>1, <1>7, OthersControl
<1> QED BY <1>1, <1>4, <1>9, <1>10

LEMMA ReleaseLocks ==
  ASSUME NEW p \in Procs, Locking, ReleaseLock(p)
  PROVE  Locking' /\ OnlyMoves(p) /\ pc'[p] = "unlocking"
<1> USE DEF Locking
<1> DEFINE n == got[p]
           k == Needs(p)[n]
<1>1. PICK left \in {Nobody, Abandoned} :
        /\ OnlyMoves(p) /\ pc' = pc /\ goal' = goal /\ tx' = tx
        /\ got' = [got EXCEPT ![p] = n - 1]
        /\ lock' = [lock EXCEPT ![k] = left]
        /\ pc[p] = "unlocking" /\ n > 0
  BY DEF OnlyMoves, LockShapes, ReleaseLock
<1>2. n \in 1..Len(Needs(p)) /\ k \in Locks /\ Len(Needs(p)) \in Nat
  <2>1. Len(Needs(p)) \in {1, 4} /\ got[p] \in 0..Len(Needs(p))
    BY NeedsFacts DEF Control
  <2>2. n \in 1..Len(Needs(p))
    BY <1>1, <2>1
  <2> QED BY <2>1, <2>2, NeedsFacts
<1>3. LockShapes'
  BY <1>1, <1>2 DEF LockShapes
<1>4. \A q \in Procs : Needs(q)' = Needs(q)
  BY <1>1 DEF Needs, Aggregate, LogOf
<1>5. got'[p] = n - 1
  BY <1>1 DEF LockShapes
<1>6. {h \in Locks : lock[h] = p} = {Needs(p)[i] : i \in 1..n}
  BY DEF LocksGivenBack
<1>7. 1..n = 1..(n - 1) \cup {n} /\ n \notin 1..(n - 1)
  BY <1>2
<1>8. \A i \in 1..(n - 1) : Needs(p)[i] # k
  BY <1>2, NeedsFacts
<1>9. lock[k] = p
  BY <1>2, <1>6
<1> HIDE DEF n
<1>10. Control(p)'
  BY <1>1, <1>2, <1>4, <1>5, StatesApart DEF Control
<1>11. ASSUME NEW q \in Procs
       PROVE  {h \in Locks : lock'[h] = q} = {Needs(q)[i] : i \in 1..got'[q]}
  <2>1. \A h \in Locks : lock'[h] = IF h = k THEN left ELSE lock[h]
    BY <1>1 DEF LockShapes
  <2>2. left # q
    BY ProcAssumption
  <2>3. CASE q = p
    BY <1>2, <1>5, <1>6, <1>7, <1>8, <2>1, <2>2, <2>3
  <2>4. CASE q # p
    <3>1. got'[q] = got[q]
      BY <1>1, <2>4 DEF OnlyMoves
    <3>2. \A h \in Locks : lock'[h] = q <=> lock[h] = q
      BY <1>9, <2>1, <2>2, <2>4
    <3> QED BY <3>1, <3>2 DEF LocksGivenBack
  <2> QED BY <2>3, <2>4
<1>12. LocksGivenBack'
  BY <1>4, <1>11 DEF LocksGivenBack
<1>13. \A q \in Procs : Control(q)'
  BY <1>1, <1>10, OthersControl
<1> QED BY <1>1, <1>3, <1>12, <1>13

LEMMA ClearLocks ==
  ASSUME Locking, NEW k \in Locks, ClearLock(k)
  PROVE  Locking'
<1> USE DEF Locking
<1>1. /\ lock' = [lock EXCEPT ![k] = Nobody] /\ lock[k] = Abandoned
      /\ pc' = pc /\ goal' = goal /\ got' = got /\ tx' = tx
  BY DEF ClearLock, local
<1>2. LockShapes'
  BY <1>1 DEF LockShapes
<1>3. \A q \in Procs : Needs(q)' = Needs(q) /\ Control(q)' = Control(q)
  BY <1>1 DEF Needs, Aggregate, LogOf, Control
<1>4. \A q \in Procs, h \in Locks : lock'[h] = q <=> lock[h] = q
  BY <1>1, ProcAssumption DEF LockShapes
<1>5. LocksGivenBack'
  BY <1>1, <1>3, <1>4 DEF LocksGivenBack
<1> QED BY <1>2, <1>3, <1>5

-----------------------------------------------------------------------------
(* The transactions: who is not concerned by a step *)

Stages(p) == AggregateStage(p) /\ SingleStage(p)

LEMMA NoStage ==
  ASSUME NEW p \in Procs,
         pc'[p] \notin {"read"} \cup AggregateStates \cup SingleStates
  PROVE  Stages(p)'
BY DEF Stages, AggregateStage, SingleStage, AggregateStates, SingleStates,
       RollStates, RollNext, RestoreStates, AppendStates

LEMMA StagesUnmoved ==
  ASSUME NEW q \in Procs, Stages(q), UNCHANGED disk,
         pc'[q] = pc[q], goal'[q] = goal[q], tx'[q] = tx[q]
  PROVE  Stages(q)'
<1>1. /\ file' = file /\ doc' = doc /\ single' = single
      /\ application' = application
  BY DEF disk
<1>2. /\ Aggregate(q)' <=> Aggregate(q)
      /\ LogOf(q)' = LogOf(q) /\ (NoSinglePending' <=> NoSinglePending)
  BY <1>1 DEF Aggregate, LogOf, NoSinglePending
<1>3. CanRollForward(tx[q])' <=> CanRollForward(tx[q])
  BY <1>1 DEF CanRollForward, Target
<1>4. AggregateStage(q)'
  BY <1>1, <1>2, <1>3 DEF Stages, AggregateStage, Target
<1>5. SingleStage(q)'
  BY <1>1, <1>2 DEF Stages, SingleStage, Restored, IsTransaction
<1> QED BY <1>4, <1>5 DEF Stages

LEMMA OthersQuiet ==
  ASSUME NEW p \in Procs, OnlyMoves(p), UNCHANGED disk,
         NEW q \in Procs \ {p}, Stages(q)
  PROVE  Stages(q)'
BY StagesUnmoved DEF OnlyMoves

(* A step that leaves the files alone leaves what holds of them alone.     *)
LEMMA DiskUnmoved ==
  ASSUME Discipline, UNCHANGED disk
  PROVE  DiskShapes' /\ OneJournal' /\ Recoverable'
BY DEF Discipline, DiskShapes, OneJournal, Recoverable, CanRollForward,
       CanRecover, Readable, IsTransaction, disk

LEMMA OthersOfAggregate ==
  ASSUME NEW p \in Procs, Locking, pc[p] \in Inside, Aggregate(p),
         OnlyMoves(p), NEW q \in Procs \ {p}
  PROVE  Stages(q)'
<1>1. pc[q] \notin Inside
  BY Exclusion
<1>2. pc'[q] \notin {"read"} \cup AggregateStates \cup SingleStates
  BY <1>1, StatesApart DEF OnlyMoves, Inside
<1> QED BY <1>2, NoStage

LEMMA OthersOfSingle ==
  ASSUME NEW p \in Procs, Locking, pc[p] \in Inside, ~Aggregate(p),
         goal[p] # "evidence", OnlyMoves(p), application' = application,
         \A l \in Logs \ {LogOf(p)} : file'[l] = file[l],
         \A l \in Journaled \ {LogOf(p)} :
           doc'[l] = doc[l] /\ single'[l] = single[l],
         NEW q \in Procs \ {p}, Stages(q)
  PROVE  Stages(q)'
<1>1. CASE pc[q] \notin {"read"} \cup AggregateStates \cup SingleStates
  <2>1. pc'[q] \notin {"read"} \cup AggregateStates \cup SingleStates
    BY <1>1 DEF OnlyMoves
  <2> QED BY <2>1, NoStage
<1>2. CASE pc[q] \in {"read"} \cup AggregateStates \cup SingleStates
  <2>1. pc[q] \in Inside
    BY <1>2, StatesApart DEF Inside
  <2>2. ~Aggregate(q) /\ (goal[q] # "evidence" => LogOf(q) # LogOf(p))
    BY <2>1, Exclusion
  <2>3. /\ pc'[q] = pc[q] /\ goal'[q] = goal[q] /\ tx'[q] = tx[q]
        /\ LogOf(q)' = LogOf(q) /\ ~Aggregate(q)'
    BY <2>2 DEF OnlyMoves, Aggregate, LogOf
  <2>4. pc[q] \notin AggregateStates
    BY <2>2 DEF Locking, Control
  <2>5. AggregateStage(q)'
    BY <2>3, <2>4 DEF AggregateStage, AggregateStates, RollStates, RollNext
  <2>6. SingleStage(q)'
    <3>1. CASE goal[q] = "evidence"
      <4>1. pc[q] \notin SingleStates
        BY <3>1 DEF Locking, Control
      <4> QED BY <3>1, <4>1, <2>3
            DEF SingleStage, SingleStates, RestoreStates, AppendStates
    <3>2. CASE goal[q] # "evidence"
      <4>1. LogOf(q) \in Logs \ {LogOf(p)}
        BY <3>2, <2>2 DEF LogOf, Logs, Journaled
      <4>2. file'[LogOf(q)] = file[LogOf(q)]
        BY <4>1
      <4>3. LogOf(q) \in Journaled => /\ doc'[LogOf(q)] = doc[LogOf(q)]
                                      /\ single'[LogOf(q)] = single[LogOf(q)]
        BY <4>1
      <4>4. pc[q] \in SingleStates \ {"append"} => LogOf(q) \in Journaled
        BY DEF Locking, Control
      <4> QED BY <2>2, <2>3, <3>2, <4>2, <4>3, <4>4
            DEF Stages, SingleStage, Restored, SingleStates, RestoreStates,
                AppendStates, IsTransaction
    <3> QED BY <3>1, <3>2
  <2> QED BY <2>5, <2>6 DEF Stages
<1> QED BY <1>1, <1>2

(* The disk is left alone.                                                 *)
LEMMA QuietStep ==
  ASSUME NEW p \in Procs, Discipline, OnlyMoves(p), Locking', UNCHANGED disk,
         Stages(p)'
  PROVE  Discipline'
<1>1. \A q \in Procs : Stages(q)'
  BY OthersQuiet DEF Discipline, Stages
<1>2. DiskShapes' /\ OneJournal' /\ Recoverable'
  BY DiskUnmoved
<1> QED BY <1>1, <1>2 DEF Discipline, Stages

(* A step of the aggregate repository under its locks.                     *)
LEMMA AggregateStep ==
  ASSUME NEW p \in Procs, Discipline, pc[p] \in Inside, Aggregate(p),
         OnlyMoves(p), Locking', Stages(p)', DiskShapes', OneJournal',
         Recoverable'
  PROVE  Discipline'
<1>1. \A q \in Procs : Stages(q)'
  BY OthersOfAggregate DEF Discipline
<1> QED BY <1>1 DEF Discipline, Stages

(* A step of the repository of one log under its lock.                     *)
LEMMA SingleStep ==
  ASSUME NEW p \in Procs, Discipline, pc[p] \in Inside, ~Aggregate(p),
         goal[p] # "evidence", OnlyMoves(p), application' = application,
         application = None,
         \A l \in Logs \ {LogOf(p)} : file'[l] = file[l],
         \A l \in Journaled \ {LogOf(p)} :
           doc'[l] = doc[l] /\ single'[l] = single[l],
         Locking', Stages(p)', DiskShapes',
         LogOf(p) \in Journaled =>
           IF single'[LogOf(p)] # None THEN CanRecover(LogOf(p), single[LogOf(p)])'
           ELSE Readable(LogOf(p))'
  PROVE  Discipline'
<1>1. \A q \in Procs : Stages(q)'
  BY OthersOfSingle DEF Discipline, Stages
<1>2. OneJournal'
  BY DEF OneJournal
<1>3. ASSUME NEW l \in Journaled
      PROVE  IF single'[l] # None THEN CanRecover(l, single[l])'
             ELSE Readable(l)'
  <2>1. CASE l = LogOf(p)
    BY <2>1
  <2>2. CASE l # LogOf(p)
    <3>1. file'[l] = file[l] /\ doc'[l] = doc[l] /\ single'[l] = single[l]
      BY <2>2 DEF Logs
    <3> QED BY <3>1 DEF Discipline, Recoverable, CanRecover, Readable
  <2> QED BY <2>1, <2>2
<1>4. Recoverable'
  BY <1>3 DEF Recoverable
<1> QED BY <1>1, <1>2, <1>4 DEF Discipline, Stages

-----------------------------------------------------------------------------
(* Every step *)

(* A call that ends its operation or dies, having left the disk alone.     *)
LEMMA QuietEnd ==
  ASSUME NEW p \in Procs, Discipline, OnlyMoves(p), Locking', UNCHANGED disk,
         pc'[p] \in {"idle", "locking", "unlocking", "done", "crashed", "enter"}
  PROVE  Discipline'
<1>1. pc'[p] \notin {"read"} \cup AggregateStates \cup SingleStates
  BY StatesApart DEF AggregateStates, SingleStates
<1> QED BY <1>1, NoStage, QuietStep

LEMMA EnterStep ==
  ASSUME NEW p \in Procs, Discipline, Enter(p)
  PROVE  Discipline'
<1> USE DEF Discipline
<1>1. pc[p] = "enter" /\ pc[p] \in Inside /\ UNCHANGED disk
  BY DEF Enter, Inside
<1>2. CASE Throw(p)
  BY <1>1, <1>2, LeaveLocks, QuietEnd DEF Throw
<1>3. CASE /\ Aggregate(p) /\ NoSinglePending /\ application = None
           /\ Keep(p, application) /\ Goto(p, "read")
           /\ UNCHANGED <<local, got, lock>>
  <2>1. Locking' /\ OnlyMoves(p) /\ pc'[p] = "read" /\ goal' = goal
    <3>1. Locking' /\ OnlyMoves(p)
      BY <1>1, <1>3, AdvanceLocks, StatesApart DEF local, Inside
    <3> QED BY <3>1, <1>3 DEF Locking, LockShapes, Goto, local
  <2>2. Stages(p)'
    BY <1>1, <1>3, <2>1, StatesApart
    DEF Stages, AggregateStage, SingleStage, Aggregate, NoSinglePending, disk
  <2> QED BY <1>1, <2>1, <2>2, QuietStep
<1>4. CASE /\ Aggregate(p) /\ NoSinglePending /\ application # None
           /\ Keep(p, application) /\ Goto(p, "validate")
           /\ UNCHANGED <<local, got, lock>>
  <2>1. Locking' /\ OnlyMoves(p) /\ pc'[p] = "validate" /\ goal' = goal
        /\ tx'[p] = application
    <3>1. "validate" \in Inside /\ "validate" \notin SingleStates
      BY DEF Inside, SingleStates, RestoreStates, AppendStates
    <3>2. Locking' /\ OnlyMoves(p)
      BY <1>1, <1>4, <3>1, AdvanceLocks DEF local
    <3> QED BY <3>2, <1>4 DEF Locking, LockShapes, Goto, Keep, local
  <2>2. Stages(p)'
    BY <1>1, <1>4, <2>1 DEF Stages, AggregateStage, SingleStage, disk,
      NoSinglePending, DiskShapes, IsTransaction, SingleStates, RestoreStates,
      AppendStates, LogOf, Journaled
  <2> QED BY <1>1, <2>1, <2>2, QuietStep
<1>5. CASE /\ ~Aggregate(p)
           /\ \/ goal[p] = "evidence"
              \/ /\ application = None
                 /\ LogOf(p) = "mark" \/ single[LogOf(p)] = None
           /\ Goto(p, "read") /\ UNCHANGED <<local, got, tx, lock>>
  <2>1. Locking' /\ OnlyMoves(p) /\ pc'[p] = "read" /\ goal' = goal
    <3>1. Locking' /\ OnlyMoves(p)
      BY <1>1, <1>5, AdvanceLocks, StatesApart DEF local, Inside
    <3> QED BY <3>1, <1>5 DEF Locking, LockShapes, Goto, local
  <2>2. Stages(p)'
    BY <1>1, <1>5, <2>1, StatesApart
    DEF Stages, AggregateStage, SingleStage, Aggregate, disk, LogOf, Journaled
  <2> QED BY <1>1, <2>1, <2>2, QuietStep
<1>6. CASE /\ ~Aggregate(p) /\ goal[p] # "evidence" /\ application = None
           /\ LogOf(p) # "mark" /\ single[LogOf(p)] # None
           /\ Keep(p, single[LogOf(p)]) /\ Goto(p, "restoreLog")
           /\ UNCHANGED <<local, got, lock>>
  <2>1. LogOf(p) \in Journaled
    BY <1>6 DEF LogOf, Journaled
  <2>2. Locking' /\ OnlyMoves(p) /\ pc'[p] = "restoreLog" /\ goal' = goal
        /\ tx'[p] = single[LogOf(p)]
    <3>1. "restoreLog" \in Inside /\ "restoreLog" \notin AggregateStates
      BY DEF Inside, AggregateStates, RollStates, RollNext, RestoreStates
    <3>2. Locking' /\ OnlyMoves(p)
      BY <1>1, <1>6, <2>1, <3>1, AdvanceLocks DEF local
    <3> QED BY <3>2, <1>6 DEF Locking, LockShapes, Goto, Keep, local
  <2>3. Stages(p)'
    BY <1>1, <1>6, <2>1, <2>2 DEF Stages, AggregateStage, SingleStage, disk,
      DiskShapes, IsTransaction, AggregateStates, RollStates, RollNext, LogOf
  <2> QED BY <1>1, <2>2, <2>3, QuietStep
<1> QED
  BY <1>1, <1>2, <1>3, <1>4, <1>5, <1>6
  DEF Enter, EnterAggregate, EnterSingle, NoApplicationPending

(* The repositories of single logs.                                        *)
LEMMA SingleFacts ==
  ASSUME NEW p \in Procs, Discipline, pc[p] \in SingleStates
  PROVE  /\ pc[p] \in Inside /\ ~Aggregate(p) /\ goal[p] # "evidence"
         /\ application = None /\ IsTransaction(tx[p]) /\ tx[p] # None
         /\ LogOf(p) \in Logs
         /\ pc[p] # "append" => LogOf(p) \in Journaled
<1>1. tx[p] # None
  <2>1. IsTransaction(tx[p])
    BY DEF Discipline, SingleStage
  <2>2. DOMAIN tx[p] = {"prev", "added"}
    BY <2>1 DEF IsTransaction
  <2>3. DOMAIN None = {}
    BY DEF None
  <2> QED BY <2>2, <2>3
<1> QED BY <1>1, StatesApart
      DEF Discipline, Locking, Control, SingleStage, LogOf, Logs, Journaled

LEMMA PartialsFacts ==
  ASSUME NEW prev, NEW added
  PROVE  /\ Whole(prev) \in Partials(prev, added)
         /\ Whole(prev \o added) \in Partials(prev, added)
         /\ \A f \in Partials(prev, added) :
              f = [lines |-> f.lines, torn |-> f.torn]
BY DEF Partials, Whole

LEMMA RestoreLogStep ==
  ASSUME NEW p \in Procs, Discipline, RestoreLog(p)
  PROVE  Discipline'
<1> USE DEF Discipline
<1> DEFINE l == LogOf(p)
           t == tx[p]
<1>1. pc[p] = "restoreLog" /\ pc[p] \in SingleStates
  BY DEF RestoreLog, SingleStates, RestoreStates
<1>2. /\ l \in Journaled /\ l \in Logs /\ single[l] = t /\ t # None
  BY <1>1, SingleFacts DEF SingleStage
<1>3. /\ file' = [file EXCEPT ![l] = Whole(Restored(l, t))]
      /\ doc' = doc /\ single' = single /\ application' = application
  BY DEF RestoreLog
<1>4. file'[l] = Whole(Restored(l, t))
  BY <1>2, <1>3 DEF DiskShapes
<1>5. DiskShapes'
  BY <1>2, <1>3 DEF DiskShapes, Whole, IsTransaction
<1>6. CanRecover(l, single[l])'
  BY <1>2, <1>3, <1>4, PartialsFacts DEF CanRecover, Restored
<1>7. \A k \in Logs \ {l} : file'[k] = file[k]
  BY <1>3 DEF DiskShapes
<1>8. CASE Advance(p, "restoreDoc")
  <2>1. "restoreDoc" \in Inside /\ "restoreDoc" \notin AggregateStates
    BY DEF Inside, AggregateStates, RollStates, RollNext, RestoreStates
  <2>2. Locking' /\ OnlyMoves(p)
    BY <1>1, <1>2, <1>8, <2>1, SingleFacts, AdvanceLocks DEF Advance, local
  <2>3. pc'[p] = "restoreDoc" /\ tx' = tx
    BY <1>8 DEF Advance, Goto, Locking, LockShapes
  <2>4. Stages(p)'
    BY <1>1, <1>2, <1>3, <1>4, <2>1, <2>3, SingleFacts
    DEF Stages, AggregateStage, SingleStage, Restored, AggregateStates,
        RollStates, RollNext, LogOf
  <2> QED BY <1>1, <1>2, <1>3, <1>5, <1>6, <1>7, <2>2, <2>4, SingleFacts,
            SingleStep
<1>9. CASE Break(p)
  <2>1. Locking' /\ OnlyMoves(p) /\ Stages(p)'
    BY <1>9, BreakLocks, NoStage, StatesApart
  <2> QED BY <1>1, <1>2, <1>3, <1>5, <1>6, <1>7, <2>1, SingleFacts, SingleStep
<1> QED BY <1>8, <1>9 DEF RestoreLog

LEMMA RestoreDocStep ==
  ASSUME NEW p \in Procs, Discipline, RestoreDoc(p)
  PROVE  Discipline'
<1> USE DEF Discipline
<1> DEFINE l == LogOf(p)
           t == tx[p]
<1>1. pc[p] = "restoreDoc" /\ pc[p] \in SingleStates
  BY DEF RestoreDoc, SingleStates, RestoreStates
<1>2. /\ l \in Journaled /\ l \in Logs /\ single[l] = t /\ t # None
      /\ file[l] = Whole(Restored(l, t)) /\ CanRecover(l, t)
  BY <1>1, SingleFacts DEF SingleStage, Recoverable
<1>3. /\ doc' = [doc EXCEPT ![l] = Restored(l, t)]
      /\ file' = file /\ single' = single /\ application' = application
  BY DEF RestoreDoc
<1>4. doc'[l] = Restored(l, t)
  BY <1>2, <1>3 DEF DiskShapes
<1>5. DiskShapes'
  BY <1>2, <1>3 DEF DiskShapes, IsTransaction
<1>6. CanRecover(l, single[l])'
  BY <1>2, <1>3 DEF CanRecover
<1>7. \A k \in Journaled \ {l} : doc'[k] = doc[k]
  BY <1>3 DEF DiskShapes
<1>8. CASE Advance(p, "restoreRemove")
  <2>1. "restoreRemove" \in Inside /\ "restoreRemove" \notin AggregateStates
    BY DEF Inside, AggregateStates, RollStates, RollNext, RestoreStates
  <2>2. Locking' /\ OnlyMoves(p)
    BY <1>1, <1>2, <1>8, <2>1, SingleFacts, AdvanceLocks DEF Advance, local
  <2>3. pc'[p] = "restoreRemove" /\ tx' = tx
    BY <1>8 DEF Advance, Goto, Locking, LockShapes
  <2>4. Stages(p)'
    BY <1>1, <1>2, <1>3, <1>4, <2>1, <2>3, SingleFacts
    DEF Stages, AggregateStage, SingleStage, Restored, AggregateStates,
        RollStates, RollNext, LogOf
  <2> QED BY <1>1, <1>2, <1>3, <1>5, <1>6, <1>7, <2>2, <2>4, SingleFacts,
            SingleStep
<1>9. CASE Break(p)
  <2>1. Locking' /\ OnlyMoves(p) /\ Stages(p)'
    BY <1>9, BreakLocks, NoStage, StatesApart
  <2> QED BY <1>1, <1>2, <1>3, <1>5, <1>6, <1>7, <2>1, SingleFacts, SingleStep
<1> QED BY <1>8, <1>9 DEF RestoreDoc

LEMMA RestoreRemoveStep ==
  ASSUME NEW p \in Procs, Discipline, RestoreRemove(p)
  PROVE  Discipline'
<1> USE DEF Discipline
<1> DEFINE l == LogOf(p)
           t == tx[p]
<1>1. pc[p] = "restoreRemove" /\ pc[p] \in SingleStates
  BY DEF RestoreRemove, SingleStates, RestoreStates
<1>2. /\ l \in Journaled /\ l \in Logs
      /\ file[l] = Whole(Restored(l, t)) /\ doc[l] = Restored(l, t)
  BY <1>1, SingleFacts DEF SingleStage
<1>3. /\ single' = [single EXCEPT ![l] = None]
      /\ file' = file /\ doc' = doc /\ application' = application
  BY DEF RestoreRemove
<1>4. single'[l] = None
  BY <1>2, <1>3 DEF DiskShapes
<1>5. DiskShapes'
  BY <1>2, <1>3 DEF DiskShapes, IsTransaction
<1>6. Readable(l)'
  BY <1>2, <1>3 DEF Readable, Whole
<1>7. \A k \in Journaled \ {l} : single'[k] = single[k]
  BY <1>3 DEF DiskShapes
<1>8. CASE /\ Goto(p, "read") /\ Keep(p, None)
           /\ UNCHANGED <<local, got, lock, faults>>
  <2>1. "read" \in Inside /\ "read" \notin AggregateStates \cup SingleStates
    BY StatesApart DEF Inside
  <2>2. Locking' /\ OnlyMoves(p)
    BY <1>1, <1>2, <1>8, <2>1, SingleFacts, AdvanceLocks DEF local
  <2>3. pc'[p] = "read" /\ goal' = goal
    BY <1>8 DEF Goto, Locking, LockShapes, local
  <2>4. Stages(p)'
    BY <1>1, <1>2, <1>3, <1>4, <2>1, <2>3, SingleFacts
    DEF Stages, AggregateStage, SingleStage, Aggregate, LogOf, SingleStates,
        RestoreStates, AppendStates
  <2> QED BY <1>1, <1>2, <1>3, <1>4, <1>5, <1>6, <1>7, <2>2, <2>4,
            SingleFacts, SingleStep
<1>9. CASE Break(p)
  <2>1. Locking' /\ OnlyMoves(p) /\ Stages(p)'
    BY <1>9, BreakLocks, NoStage, StatesApart
  <2> QED BY <1>1, <1>2, <1>3, <1>4, <1>5, <1>6, <1>7, <2>1, SingleFacts,
            SingleStep
<1> QED BY <1>8, <1>9 DEF RestoreRemove

LEMMA WriteJournalStep ==
  ASSUME NEW p \in Procs, Discipline, WriteJournal(p)
  PROVE  Discipline'
<1> USE DEF Discipline
<1> DEFINE l == LogOf(p)
           t == tx[p]
<1>1. pc[p] = "journal" /\ pc[p] \in SingleStates
  BY DEF WriteJournal, SingleStates, AppendStates
<1>2. /\ l \in Journaled /\ l \in Logs /\ IsTransaction(t) /\ t # None
      /\ file[l] = Whole(t.prev)
  BY <1>1, SingleFacts DEF SingleStage
<1>3. /\ single' = [single EXCEPT ![l] = t]
      /\ file' = file /\ doc' = doc /\ application' = application
  BY DEF WriteJournal
<1>4. single'[l] = t
  BY <1>2, <1>3 DEF DiskShapes
<1>5. DiskShapes'
  BY <1>2, <1>3 DEF DiskShapes, IsTransaction
<1>6. CanRecover(l, single[l])'
  BY <1>2, <1>3, <1>4, PartialsFacts DEF CanRecover
<1>7. \A k \in Journaled \ {l} : single'[k] = single[k]
  BY <1>3 DEF DiskShapes
<1>8. CASE Advance(p, "append")
  <2>1. "append" \in Inside /\ "append" \notin AggregateStates
    BY DEF Inside, AggregateStates, RollStates, RollNext, AppendStates
  <2>2. Locking' /\ OnlyMoves(p)
    BY <1>1, <1>2, <1>8, <2>1, SingleFacts, AdvanceLocks DEF Advance, local
  <2>3. pc'[p] = "append" /\ tx' = tx
    BY <1>8 DEF Advance, Goto, Locking, LockShapes
  <2>4. Stages(p)'
    BY <1>1, <1>2, <1>3, <1>4, <2>1, <2>3, SingleFacts
    DEF Stages, AggregateStage, SingleStage, AggregateStates,
        RollStates, RollNext, LogOf
  <2> QED BY <1>1, <1>2, <1>3, <1>4, <1>5, <1>6, <1>7, <2>2, <2>4,
            SingleFacts, SingleStep
<1>9. CASE Break(p)
  <2>1. Locking' /\ OnlyMoves(p) /\ Stages(p)'
    BY <1>9, BreakLocks, NoStage, StatesApart
  <2> QED BY <1>1, <1>2, <1>3, <1>4, <1>5, <1>6, <1>7, <2>1, SingleFacts,
            SingleStep
<1> QED BY <1>8, <1>9 DEF WriteJournal

LEMMA AppendLineStep ==
  ASSUME NEW p \in Procs, Discipline, AppendLine(p)
  PROVE  Discipline'
<1> USE DEF Discipline
<1> DEFINE l == LogOf(p)
           t == tx[p]
<1>1. pc[p] = "append" /\ pc[p] \in SingleStates
  BY DEF AppendLine, SingleStates, AppendStates
<1>2. /\ l \in Logs
      /\ l \in Journaled => single[l] = t /\ t # None
      /\ l \notin Journaled <=> l = "mark"
  BY <1>1, SingleFacts DEF SingleStage, SingleStates, Logs, Journaled, LogOf
<1>3. PICK f \in Partials(t.prev, t.added) :
        /\ file' = [file EXCEPT ![l] = f]
        /\ \/ /\ f = Whole(t.prev \o t.added)
              /\ IF l = "mark"
                   THEN Leave(p, "ok") /\ UNCHANGED <<seen, faults>>
                   ELSE Advance(p, "project")
           \/ Break(p)
  BY PartialsFacts DEF AppendLine, AppendTo
<1>4. doc' = doc /\ single' = single /\ application' = application
  BY DEF AppendLine
<1>5. file'[l] = f
  BY <1>2, <1>3 DEF DiskShapes
<1>6. DiskShapes'
  BY <1>2, <1>3, <1>4, PartialsFacts DEF DiskShapes, IsTransaction
<1>7. l \in Journaled => CanRecover(l, single[l])' /\ single'[l] # None
  BY <1>2, <1>4, <1>5 DEF CanRecover
<1>8. \A k \in Logs \ {l} : file'[k] = file[k]
  BY <1>3 DEF DiskShapes
<1>9. CASE l = "mark" /\ Leave(p, "ok")
  <2>1. Locking' /\ OnlyMoves(p) /\ Stages(p)'
    BY <1>9, LeaveLocks, NoStage, StatesApart
  <2> QED BY <1>1, <1>2, <1>4, <1>6, <1>7, <1>8, <2>1, SingleFacts, SingleStep
<1>10. CASE l # "mark" /\ Advance(p, "project") /\ f = Whole(t.prev \o t.added)
  <2>1. "project" \in Inside /\ "project" \notin AggregateStates
    BY DEF Inside, AggregateStates, RollStates, RollNext, AppendStates
  <2>2. Locking' /\ OnlyMoves(p)
    BY <1>1, <1>2, <1>10, <2>1, SingleFacts, AdvanceLocks DEF Advance, local
  <2>3. pc'[p] = "project" /\ tx' = tx
    BY <1>10 DEF Advance, Goto, Locking, LockShapes
  <2>4. Stages(p)'
    BY <1>1, <1>2, <1>4, <1>5, <1>10, <2>1, <2>3, SingleFacts
    DEF Stages, AggregateStage, SingleStage, AggregateStates,
        RollStates, RollNext, LogOf
  <2> QED BY <1>1, <1>2, <1>4, <1>6, <1>7, <1>8, <2>2, <2>4, SingleFacts,
            SingleStep
<1>11. CASE Break(p)
  <2>1. Locking' /\ OnlyMoves(p) /\ Stages(p)'
    BY <1>11, BreakLocks, NoStage, StatesApart
  <2> QED BY <1>1, <1>2, <1>4, <1>6, <1>7, <1>8, <2>1, SingleFacts, SingleStep
<1> QED BY <1>3, <1>9, <1>10, <1>11

LEMMA ProjectStep ==
  ASSUME NEW p \in Procs, Discipline, Project(p)
  PROVE  Discipline'
<1> USE DEF Discipline
<1> DEFINE l == LogOf(p)
           t == tx[p]
<1>1. pc[p] = "project" /\ pc[p] \in SingleStates
  BY DEF Project, SingleStates, AppendStates
<1>2. /\ l \in Journaled /\ l \in Logs /\ single[l] = t /\ t # None
      /\ file[l] = Whole(t.prev \o t.added) /\ CanRecover(l, t)
  BY <1>1, SingleFacts DEF SingleStage, Recoverable
<1>3. /\ doc' = [doc EXCEPT ![l] = t.prev \o t.added]
      /\ file' = file /\ single' = single /\ application' = application
  BY DEF Project
<1>4. doc'[l] = t.prev \o t.added
  BY <1>2, <1>3 DEF DiskShapes
<1>5. DiskShapes'
  BY <1>2, <1>3 DEF DiskShapes, IsTransaction
<1>6. CanRecover(l, single[l])'
  BY <1>2, <1>3 DEF CanRecover
<1>7. \A k \in Journaled \ {l} : doc'[k] = doc[k]
  BY <1>3 DEF DiskShapes
<1>8. CASE Advance(p, "remove")
  <2>1. "remove" \in Inside /\ "remove" \notin AggregateStates
    BY DEF Inside, AggregateStates, RollStates, RollNext, AppendStates
  <2>2. Locking' /\ OnlyMoves(p)
    BY <1>1, <1>2, <1>8, <2>1, SingleFacts, AdvanceLocks DEF Advance, local
  <2>3. pc'[p] = "remove" /\ tx' = tx
    BY <1>8 DEF Advance, Goto, Locking, LockShapes
  <2>4. Stages(p)'
    BY <1>1, <1>2, <1>3, <1>4, <2>1, <2>3, SingleFacts
    DEF Stages, AggregateStage, SingleStage, AggregateStates,
        RollStates, RollNext, LogOf
  <2> QED BY <1>1, <1>2, <1>3, <1>5, <1>6, <1>7, <2>2, <2>4, SingleFacts,
            SingleStep
<1>9. CASE Break(p)
  <2>1. Locking' /\ OnlyMoves(p) /\ Stages(p)'
    BY <1>9, BreakLocks, NoStage, StatesApart
  <2> QED BY <1>1, <1>2, <1>3, <1>5, <1>6, <1>7, <2>1, SingleFacts, SingleStep
<1> QED BY <1>8, <1>9 DEF Project

LEMMA RemoveJournalStep ==
  ASSUME NEW p \in Procs, Discipline, RemoveJournal(p)
  PROVE  Discipline'
<1> USE DEF Discipline
<1> DEFINE l == LogOf(p)
           t == tx[p]
<1>1. pc[p] = "remove" /\ pc[p] \in SingleStates
  BY DEF RemoveJournal, SingleStates, AppendStates
<1>2. /\ l \in Journaled /\ l \in Logs
      /\ file[l] = Whole(t.prev \o t.added) /\ doc[l] = t.prev \o t.added
  BY <1>1, SingleFacts DEF SingleStage
<1>3. /\ single' = [single EXCEPT ![l] = None]
      /\ file' = file /\ doc' = doc /\ application' = application
  BY DEF RemoveJournal
<1>4. single'[l] = None
  BY <1>2, <1>3 DEF DiskShapes
<1>5. DiskShapes'
  BY <1>2, <1>3 DEF DiskShapes, IsTransaction
<1>6. Readable(l)'
  <2>1. PICK s : file[l] = Whole(s) /\ doc[l] = s
    BY <1>2
  <2>2. file[l].torn = None /\ file[l].lines = doc[l]
    BY <2>1 DEF Whole
  <2> QED BY <1>3, <2>2 DEF Readable
<1>7. \A k \in Journaled \ {l} : single'[k] = single[k]
  BY <1>3 DEF DiskShapes
<1>8. Locking' /\ OnlyMoves(p) /\ Stages(p)'
  BY LeaveLocks, BreakLocks, NoStage, StatesApart DEF RemoveJournal
<1> QED BY <1>1, <1>2, <1>3, <1>4, <1>5, <1>6, <1>7, <1>8, SingleFacts,
          SingleStep

-----------------------------------------------------------------------------
(* What a call decides under its locks, and the aggregate transaction.     *)

LEMMA ReadSnapshotStep ==
  ASSUME NEW p \in Procs, Discipline, ReadSnapshot(p)
  PROVE  Discipline'
<1>1. Locking' /\ OnlyMoves(p) /\ pc'[p] = "unlocking" /\ UNCHANGED disk
  BY LeaveLocks DEF ReadSnapshot, Throw, Discipline
<1> QED BY <1>1, QuietEnd

LEMMA ResolveSingleStep ==
  ASSUME NEW p \in Procs, Discipline, ResolveSingle(p)
  PROVE  Discipline'
<1> USE DEF Discipline
<1> DEFINE l == LogOf(p)
           e == Candidate(p)
           t == [prev |-> Lines[l], added |-> <<e>>]
<1>1. /\ pc[p] = "read" /\ pc[p] \in Inside /\ goal[p] = "write"
      /\ ~Aggregate(p) /\ UNCHANGED disk
  BY DEF ResolveSingle, Inside
<1>2. CASE Throw(p) \/ Leave(p, "ok")
  <2>1. Locking' /\ OnlyMoves(p) /\ pc'[p] = "unlocking"
    BY <1>2, LeaveLocks DEF Throw
  <2> QED BY <1>1, <2>1, QuietEnd
<1>3. CASE /\ Readable(l) /\ Keep(p, t)
           /\ Goto(p, IF l = "mark" THEN "append" ELSE "journal")
           /\ UNCHANGED <<local, got, lock>>
  <2>1. /\ l \in Logs /\ (l # "mark" => l \in Journaled)
        /\ (l \in Journaled => l # "mark")
    BY DEF LogOf, Logs, Journaled
  <2>2. application = None /\ (l \in Journaled => single[l] = None)
    BY <1>1 DEF SingleStage
  <2>3. file[l] = Whole(t.prev) /\ IsTransaction(t)
    BY <1>3, <2>1 DEF Readable, Whole, DiskShapes, IsTransaction, Lines
  <2> DEFINE s == IF l = "mark" THEN "append" ELSE "journal"
  <2>4. s \in Inside /\ s \notin AggregateStates
        /\ (s \in SingleStates \ {"append"} => l \in Journaled)
    BY <2>1 DEF Inside, AggregateStates, RollStates, RollNext, AppendStates,
              SingleStates
  <2>5. Locking' /\ OnlyMoves(p)
    <3>1. Goto(p, s) /\ Keep(p, t)
      BY <1>3
    <3> HIDE DEF s, t, l
    <3> QED BY <1>1, <1>3, <3>1, <2>4, AdvanceLocks DEF local, l
  <2>6. pc'[p] = s /\ tx'[p] = t
    BY <1>3 DEF Goto, Keep, Locking, LockShapes
  <2>7. /\ file' = file /\ doc' = doc /\ single' = single
        /\ application' = application
    BY <1>1 DEF disk
  <2>8. AggregateStage(p)'
    BY <2>4, <2>6 DEF AggregateStage, AggregateStates, RollStates, RollNext
  <2>9. SingleStage(p)'
    <3>1. LogOf(p)' = l
      BY DEF LogOf
    <3>2. \/ pc'[p] = "append" /\ l \notin Journaled
          \/ pc'[p] = "journal" /\ l \in Journaled
      BY <2>1, <2>6
    <3> HIDE DEF s, t, l
    <3> QED BY <3>1, <3>2, <2>2, <2>3, <2>6, <2>7
          DEF SingleStage, IsTransaction
  <2> QED BY <1>1, <2>5, <2>8, <2>9, QuietStep DEF Stages
<1> QED BY <1>1, <1>2, <1>3 DEF ResolveSingle

LEMMA ResolveStep ==
  ASSUME NEW p \in Procs, Discipline, Resolve(p)
  PROVE  Discipline'
<1> USE DEF Discipline
<1> DEFINE t == Application(RecordOf(p))
<1>1. /\ pc[p] = "read" /\ pc[p] \in Inside /\ Aggregate(p) /\ UNCHANGED disk
  BY DEF Resolve, Inside
<1>2. CASE Throw(p) \/ Leave(p, "ok")
  <2>1. Locking' /\ OnlyMoves(p) /\ pc'[p] = "unlocking"
    BY <1>2, LeaveLocks DEF Throw
  <2> QED BY <1>1, <2>1, QuietEnd
<1>3. CASE /\ AllReadable /\ Keep(p, t) /\ Goto(p, "commit")
           /\ UNCHANGED <<goal, attempts, seen, got, lock>>
  <2>1. application = None /\ NoSinglePending
    BY <1>1 DEF AggregateStage
  <2>2. /\ IsTransaction(t)
        /\ \A l \in Logs : t.prev[l] = file[l].lines
    BY DEF IsTransaction, Application
  <2>3. CanRollForward(t)
    <3>1. \A l \in Logs : file[l] = Whole(t.prev[l])
      BY <1>3, <2>2 DEF AllReadable, Readable, Whole, DiskShapes
    <3>2. \A l \in Journaled : doc[l] = t.prev[l]
      BY <1>3, <2>2 DEF AllReadable, Readable, Logs
    <3> HIDE DEF t
    <3> QED BY <3>1, <3>2, PartialsFacts DEF CanRollForward
  <2> HIDE DEF t
  <2>4. "commit" \in Inside /\ "commit" \in AggregateStates
        /\ "commit" \notin SingleStates
    BY DEF Inside, AggregateStates, SingleStates, RestoreStates, AppendStates
  <2>5. Locking' /\ OnlyMoves(p)
    BY <1>1, <1>3, <2>4, AdvanceLocks
  <2>6. pc'[p] = "commit" /\ tx'[p] = t
    BY <1>3 DEF Goto, Keep, Locking, LockShapes
  <2>7. /\ file' = file /\ doc' = doc /\ single' = single
        /\ application' = application
    BY <1>1 DEF disk
  <2>8. CanRollForward(tx[p])' /\ NoSinglePending' /\ IsTransaction(tx[p])'
    BY <2>1, <2>2, <2>3, <2>6, <2>7
    DEF CanRollForward, NoSinglePending, Target, IsTransaction
  <2>9. AggregateStage(p)'
    BY <2>1, <2>6, <2>7, <2>8 DEF AggregateStage
  <2>10. SingleStage(p)'
    BY <2>4, <2>6 DEF SingleStage, SingleStates, RestoreStates, AppendStates
  <2> QED BY <1>1, <2>5, <2>9, <2>10, QuietStep DEF Stages
<1> QED BY <1>1, <1>2, <1>3 DEF Resolve

LEMMA AggregateFacts ==
  ASSUME NEW p \in Procs, Discipline, pc[p] \in AggregateStates
  PROVE  /\ pc[p] \in Inside /\ Aggregate(p) /\ NoSinglePending
         /\ IsTransaction(tx[p]) /\ tx[p] # None
         /\ pc[p] # "commit" => application = tx[p]
         /\ CanRollForward(tx[p])
<1>1. /\ pc[p] \in Inside /\ Aggregate(p) /\ NoSinglePending
      /\ IsTransaction(tx[p])
      /\ pc[p] # "commit" => application = tx[p]
      /\ pc[p] = "commit" => CanRollForward(tx[p])
  BY StatesApart DEF Discipline, Locking, Control, AggregateStage
<1>2. tx[p] # None
  <2>1. DOMAIN tx[p] = {"prev", "added"}
    BY <1>1 DEF IsTransaction
  <2>2. DOMAIN None = {}
    BY DEF None
  <2> QED BY <2>1, <2>2
<1> QED BY <1>1, <1>2 DEF Discipline, Recoverable

(* What a step in the middle of a roll forward leaves.                     *)
LEMMA RollStep ==
  ASSUME NEW p \in Procs, Discipline, pc[p] \in AggregateStates,
         OnlyMoves(p), Locking', Stages(p)', DiskShapes', single' = single,
         NEW t, t # None, application' = t, CanRollForward(t)'
  PROVE  Discipline'
<1>1. NoSinglePending /\ pc[p] \in Inside /\ Aggregate(p)
  BY AggregateFacts
<1>2. CanRollForward(application)'
  BY DEF CanRollForward, Target
<1>3. OneJournal' /\ Recoverable'
  BY <1>1, <1>2 DEF OneJournal, Recoverable, NoSinglePending
<1> QED BY <1>1, <1>3, AggregateStep

LEMMA CommitStep ==
  ASSUME NEW p \in Procs, Discipline, Commit(p)
  PROVE  Discipline'
<1> USE DEF Discipline
<1>1. pc[p] = "commit" /\ pc[p] \in AggregateStates
  BY DEF Commit, AggregateStates
<1>2. PICK t : t = tx[p]
  OBVIOUS
<1>3. /\ application' = t /\ file' = file /\ doc' = doc /\ single' = single
      /\ t # None /\ IsTransaction(t) /\ CanRollForward(t) /\ Aggregate(p)
      /\ pc[p] \in Inside /\ NoSinglePending
  BY <1>1, <1>2, AggregateFacts DEF Commit
<1>4. DiskShapes'
  BY <1>3 DEF DiskShapes, IsTransaction
<1>5. CanRollForward(t)'
  BY <1>3 DEF CanRollForward
<1>6. CASE Advance(p, "validate")
  <2>1. "validate" \in Inside /\ "validate" \notin SingleStates
        /\ "validate" \in AggregateStates
    BY DEF Inside, AggregateStates, SingleStates, RestoreStates, AppendStates
  <2>2. Locking' /\ OnlyMoves(p)
    BY <1>3, <1>6, <2>1, AdvanceLocks DEF Advance, local
  <2>3. pc'[p] = "validate" /\ tx' = tx
    BY <1>6 DEF Advance, Goto, Locking, LockShapes
  <2>4. Stages(p)'
    BY <1>2, <1>3, <2>1, <2>3
    DEF Stages, AggregateStage, SingleStage, SingleStates, RestoreStates,
        AppendStates, NoSinglePending, IsTransaction
  <2> QED BY <1>1, <1>3, <1>4, <1>5, <2>2, <2>4, RollStep
<1>7. CASE Break(p)
  <2>1. Locking' /\ OnlyMoves(p) /\ Stages(p)'
    BY <1>7, BreakLocks, NoStage, StatesApart
  <2> QED BY <1>1, <1>3, <1>4, <1>5, <2>1, RollStep
<1> QED BY <1>6, <1>7 DEF Commit

LEMMA ValidateStep ==
  ASSUME NEW p \in Procs, Discipline, Validate(p)
  PROVE  Discipline'
<1> USE DEF Discipline
<1>1. /\ pc[p] = "validate" /\ pc[p] \in AggregateStates /\ UNCHANGED disk
  BY DEF Validate, AggregateStates
<1>2. CASE Throw(p)
  BY <1>1, <1>2, LeaveLocks, QuietEnd DEF Throw
<1>3. CASE Goto(p, "rollMark") /\ UNCHANGED <<local, got, tx, lock>>
  <2>1. "rollMark" \in Inside /\ "rollMark" \notin SingleStates
        /\ "rollMark" \in AggregateStates
    BY DEF Inside, AggregateStates, SingleStates, RestoreStates, AppendStates,
           RollStates, RollNext
  <2>2. Locking' /\ OnlyMoves(p)
    BY <1>1, <1>3, <2>1, AggregateFacts, AdvanceLocks DEF local
  <2>3. pc'[p] = "rollMark" /\ tx' = tx
    BY <1>3 DEF Goto, Locking, LockShapes
  <2>4. Stages(p)'
    BY <1>1, <2>1, <2>3, AggregateFacts
    DEF Stages, AggregateStage, SingleStage, SingleStates, RestoreStates,
        AppendStates, NoSinglePending, IsTransaction, disk
  <2> QED BY <1>1, <2>2, <2>4, QuietStep
<1> QED BY <1>1, <1>2, <1>3 DEF Validate

LEMMA RollForwardLogStep ==
  ASSUME NEW p \in Procs, Discipline, RollForwardLog(p)
  PROVE  Discipline'
<1> USE DEF Discipline
<1>1. /\ pc[p] \in {"rollMark", "rollEquity", "rollPosition"}
      /\ pc[p] \in AggregateStates
  BY DEF RollForwardLog, RollLog, AggregateStates, RollStates, RollNext
<1>2. PICK t : t = tx[p]
  OBVIOUS
<1>3. PICK l : l = RollLog[pc[p]]
  OBVIOUS
<1>4. /\ l \in Logs
      /\ RollNext[pc[p]] \in {"rollEquity", "rollPosition", "rollRisk"}
      /\ RollNext[pc[p]] = CASE l = "mark" -> "rollEquity"
                             [] l = "equity" -> "rollPosition"
                             [] l = "position" -> "rollRisk"
      /\ pc[p] = CASE l = "mark" -> "rollMark"
                   [] l = "equity" -> "rollEquity"
                   [] l = "position" -> "rollPosition"
  BY <1>1, <1>3 DEF RollLog, RollNext, Logs, Journaled
<1>5. /\ application = t /\ t # None /\ IsTransaction(t) /\ CanRollForward(t)
      /\ Aggregate(p) /\ pc[p] \in Inside /\ NoSinglePending
  BY <1>1, <1>2, AggregateFacts
<1>6. PICK f \in Partials(t.prev[l], t.added[l]) :
        /\ file' = [file EXCEPT ![l] = f]
        /\ \/ f = Whole(Target(t, l)) /\ Advance(p, RollNext[pc[p]])
           \/ Break(p)
  BY <1>2, <1>3, PartialsFacts DEF RollForwardLog, AppendTo, Target
<1>7. doc' = doc /\ single' = single /\ application' = application
  BY DEF RollForwardLog
<1>8. /\ file'[l] = f
      /\ \A k \in Logs \ {l} : file'[k] = file[k]
  BY <1>4, <1>6 DEF DiskShapes
<1>9. DiskShapes'
  BY <1>4, <1>6, <1>7, PartialsFacts DEF DiskShapes, IsTransaction
<1>10. CanRollForward(t)'
  BY <1>5, <1>7, <1>8 DEF CanRollForward
<1>11. CASE f = Whole(Target(t, l)) /\ Advance(p, RollNext[pc[p]])
  <2>1. PICK s \in {"rollEquity", "rollPosition", "rollRisk"} :
          s = RollNext[pc[p]]
    BY <1>4
  <2>2. s \in Inside /\ s \notin SingleStates /\ s \in AggregateStates
    BY DEF Inside, AggregateStates, SingleStates, RestoreStates, AppendStates,
           RollStates, RollNext
  <2>3. Locking' /\ OnlyMoves(p)
    BY <1>5, <1>11, <2>1, <2>2, AdvanceLocks DEF Advance, local
  <2>4. pc'[p] = s /\ tx' = tx
    BY <1>11, <2>1 DEF Advance, Goto, Locking, LockShapes
  <2>5. /\ l = "mark" => s = "rollEquity"
        /\ l = "equity" => s = "rollPosition" /\ pc[p] = "rollEquity"
        /\ l = "position" => s = "rollRisk" /\ pc[p] = "rollPosition"
        /\ l \in {"mark", "equity", "position"}
    BY <1>4, <2>1 DEF Logs, Journaled
  <2>6. NoSinglePending' /\ IsTransaction(t)'
    BY <1>5, <1>7 DEF NoSinglePending, IsTransaction
  <2>7. AggregateStage(p)'
    BY <1>2, <1>5, <1>7, <1>8, <1>11, <2>4, <2>5, <2>6
    DEF AggregateStage, Logs, Journaled, Target
  <2>8. SingleStage(p)'
    BY <2>2, <2>4 DEF SingleStage, SingleStates, RestoreStates, AppendStates
  <2> QED BY <1>1, <1>5, <1>7, <1>9, <1>10, <2>3, <2>7, <2>8, RollStep DEF Stages
<1>12. CASE Break(p)
  <2>1. Locking' /\ OnlyMoves(p) /\ Stages(p)'
    BY <1>12, BreakLocks, NoStage, StatesApart
  <2> QED BY <1>1, <1>5, <1>7, <1>9, <1>10, <2>1, RollStep
<1> QED BY <1>6, <1>11, <1>12

LEMMA RollForwardDocStep ==
  ASSUME NEW p \in Procs, Discipline, RollForwardDoc(p)
  PROVE  Discipline'
<1> USE DEF Discipline
<1>1. /\ pc[p] \in {"rollRisk", "rollHeads"} /\ pc[p] \in AggregateStates
  BY DEF RollForwardDoc, RollDoc, AggregateStates, RollStates, RollNext
<1>2. PICK t : t = tx[p]
  OBVIOUS
<1>3. PICK l : l = RollDoc[pc[p]]
  OBVIOUS
<1>4. /\ l \in Journaled
      /\ l = "equity" => RollNext[pc[p]] = "rollHeads" /\ pc[p] = "rollRisk"
      /\ l = "position" => RollNext[pc[p]] = "rollRemove" /\ pc[p] = "rollHeads"
  BY <1>1, <1>3 DEF RollDoc, RollNext, Journaled
<1>5. /\ application = t /\ t # None /\ IsTransaction(t) /\ CanRollForward(t)
      /\ Aggregate(p) /\ pc[p] \in Inside /\ NoSinglePending
  BY <1>1, <1>2, AggregateFacts
<1>6. /\ doc' = [doc EXCEPT ![l] = Target(t, l)]
      /\ file' = file /\ single' = single /\ application' = application
  BY <1>2, <1>3 DEF RollForwardDoc
<1>7. /\ doc'[l] = Target(t, l)
      /\ \A k \in Journaled \ {l} : doc'[k] = doc[k]
  BY <1>4, <1>6 DEF DiskShapes
<1>8. DiskShapes'
  BY <1>4, <1>6 DEF DiskShapes, IsTransaction
<1>9. CanRollForward(t)'
  BY <1>5, <1>6, <1>7 DEF CanRollForward, Target
<1>10. CASE Advance(p, RollNext[pc[p]])
  <2>1. PICK s \in {"rollHeads", "rollRemove"} : s = RollNext[pc[p]]
    BY <1>4 DEF Journaled
  <2>2. s \in Inside /\ s \notin SingleStates /\ s \in AggregateStates
    BY DEF Inside, AggregateStates, SingleStates, RestoreStates, AppendStates,
           RollStates, RollNext
  <2>3. Locking' /\ OnlyMoves(p)
    BY <1>5, <1>10, <2>1, <2>2, AdvanceLocks DEF Advance, local
  <2>4. pc'[p] = s /\ tx' = tx
    BY <1>10, <2>1 DEF Advance, Goto, Locking, LockShapes
  <2>5. NoSinglePending' /\ IsTransaction(t)'
    BY <1>5, <1>6 DEF NoSinglePending, IsTransaction
  <2>6. AggregateStage(p)'
    BY <1>2, <1>4, <1>5, <1>6, <1>7, <2>1, <2>4, <2>5
    DEF AggregateStage, Journaled, Target
  <2>7. SingleStage(p)'
    BY <2>2, <2>4 DEF SingleStage, SingleStates, RestoreStates, AppendStates
  <2> QED BY <1>1, <1>5, <1>6, <1>8, <1>9, <2>3, <2>6, <2>7, RollStep DEF Stages
<1>11. CASE Break(p)
  <2>1. Locking' /\ OnlyMoves(p) /\ Stages(p)'
    BY <1>11, BreakLocks, NoStage, StatesApart
  <2> QED BY <1>1, <1>5, <1>6, <1>8, <1>9, <2>1, RollStep
<1> QED BY <1>10, <1>11 DEF RollForwardDoc

LEMMA WholeFacts ==
  ASSUME NEW s, NEW f, f = Whole(s)
  PROVE  f.lines = s /\ f.torn = None
BY DEF Whole

LEMMA RemoveApplicationStep ==
  ASSUME NEW p \in Procs, Discipline, RemoveApplication(p)
  PROVE  Discipline'
<1> USE DEF Discipline
<1>1. pc[p] = "rollRemove" /\ pc[p] \in AggregateStates
  BY DEF RemoveApplication, AggregateStates, RollStates
<1>2. /\ Aggregate(p) /\ pc[p] \in Inside /\ NoSinglePending
  BY <1>1, AggregateFacts
<1>3. application' = None /\ file' = file /\ doc' = doc /\ single' = single
  BY DEF RemoveApplication
<1>4. DiskShapes'
  BY <1>3 DEF DiskShapes, IsTransaction
<1>5. \A l \in Journaled : file[l] = Whole(doc[l])
  BY <1>1 DEF AggregateStage, Journaled
<1>6. ASSUME NEW l \in Journaled PROVE Readable(l)'
  <2>1. file[l].lines = doc[l] /\ file[l].torn = None
    BY <1>5, WholeFacts
  <2> QED BY <1>3, <2>1 DEF Readable
<1>7. OneJournal' /\ Recoverable'
  BY <1>2, <1>3, <1>6 DEF OneJournal, Recoverable, NoSinglePending
<1>8. CASE Leave(p, "ok") \/ Break(p)
  <2>1. Locking' /\ OnlyMoves(p) /\ Stages(p)'
    BY <1>8, LeaveLocks, BreakLocks, NoStage, StatesApart
  <2> QED BY <1>2, <1>4, <1>7, <2>1, AggregateStep
<1>9. CASE Goto(p, "read") /\ Keep(p, None) /\ UNCHANGED <<local, got, lock>>
  <2>1. "read" \in Inside /\ "read" \notin AggregateStates \cup SingleStates
    BY StatesApart DEF Inside
  <2>2. Locking' /\ OnlyMoves(p)
    BY <1>2, <1>9, <2>1, AdvanceLocks DEF local
  <2>3. pc'[p] = "read" /\ goal' = goal
    BY <1>9 DEF Goto, Locking, LockShapes, local
  <2>4. Stages(p)'
    BY <1>2, <1>3, <2>1, <2>3
    DEF Stages, AggregateStage, SingleStage, Aggregate, NoSinglePending,
        SingleStates, RestoreStates, AppendStates
  <2> QED BY <1>2, <1>4, <1>7, <2>2, <2>4, AggregateStep
<1> QED BY <1>8, <1>9 DEF RemoveApplication

-----------------------------------------------------------------------------
LEMMA DisciplineInit == Init => Discipline
<1> SUFFICES ASSUME Init PROVE Discipline
  OBVIOUS
<1>1. Locking
  BY LockingInit
<1> DEFINE start == [l \in Logs |->
      CASE l = "mark" -> <<>>
        [] l = "equity" -> <<[by |-> Origin, prev |-> 0, asOf |-> 0]>>
        [] l = "position" -> [i \in DOMAIN ItemOrder |->
             [by |-> Origin, item |-> ItemOrder[i], prev |-> 0, asOf |-> 0]]]
<1>2. /\ application = None
      /\ file = [l \in Logs |-> Whole(start[l])]
      /\ doc = [l \in Journaled |-> start[l]]
      /\ single = [l \in Journaled |-> None]
  BY DEF Init
<1> HIDE DEF start
<1>3. DiskShapes
  <2>1. \A l \in Logs :
          file[l] = [lines |-> file[l].lines, torn |-> file[l].torn]
    BY <1>2 DEF Whole
  <2>2. file = [l \in Logs |-> file[l]] /\ doc = [l \in Journaled |-> doc[l]]
    BY <1>2
  <2>3. single = [l \in Journaled |-> single[l]]
    BY <1>2
  <2> QED BY <1>2, <2>1, <2>2, <2>3 DEF DiskShapes
<1>4. ASSUME NEW p \in Procs PROVE AggregateStage(p) /\ SingleStage(p)
  <2>1. pc[p] = "idle"
    BY DEF Init
  <2> QED BY <2>1 DEF AggregateStage, SingleStage, AggregateStates,
            SingleStates, RollStates, RollNext, RestoreStates, AppendStates
<1>5. ASSUME NEW l \in Journaled PROVE Readable(l)
  <2>1. l \in Logs
    BY DEF Logs
  <2>2. file[l].lines = start[l] /\ file[l].torn = None /\ doc[l] = start[l]
    BY <1>2, <2>1 DEF Whole
  <2> QED BY <2>2 DEF Readable
<1>6. OneJournal /\ Recoverable
  BY <1>2, <1>5 DEF OneJournal, Recoverable
<1> QED BY <1>1, <1>3, <1>4, <1>6 DEF Discipline

LEMMA DisciplineStep == Discipline /\ [Next]_vars => Discipline'
<1> SUFFICES ASSUME Discipline, [Next]_vars PROVE Discipline'
  OBVIOUS
<1>1. CASE UNCHANGED vars
  <2>1. /\ UNCHANGED disk /\ pc' = pc /\ goal' = goal /\ tx' = tx /\ got' = got
        /\ lock' = lock
    BY <1>1 DEF vars, local
  <2>2. Locking'
    BY <2>1 DEF Discipline, Locking, LockShapes, LocksGivenBack, Control,
      Needs, Aggregate, LogOf
  <2>3. \A p \in Procs : Stages(p)'
    BY <2>1, StagesUnmoved DEF Discipline, Stages
  <2> QED BY <2>1, <2>2, <2>3, DiskUnmoved DEF Discipline, Stages
<1>2. ASSUME NEW p \in Procs, Start(p) PROVE Discipline'
  BY <1>2, StartLocks, QuietEnd DEF Discipline, Start
<1>3. ASSUME NEW p \in Procs, AcquireLock(p) PROVE Discipline'
  BY <1>3, AcquireLocks, QuietEnd DEF Discipline, AcquireLock
<1>4. ASSUME NEW p \in Procs, TimeOut(p) PROVE Discipline'
  BY <1>4, LeaveLocks, QuietEnd DEF Discipline, TimeOut, Throw
<1>5. ASSUME NEW p \in Procs, ReleaseLock(p) PROVE Discipline'
  BY <1>5, ReleaseLocks, QuietEnd DEF Discipline, ReleaseLock
<1>6. ASSUME NEW p \in Procs, Return(p) PROVE Discipline'
  BY <1>6, ReturnLocks, QuietEnd DEF Discipline, Return
<1>7. ASSUME NEW p \in Procs, Fail(p) PROVE Discipline'
  BY <1>7, BreakLocks, QuietEnd DEF Discipline, Fail
<1>8. ASSUME NEW p \in Procs, DieReleasing(p) PROVE Discipline'
  BY <1>8, DieLocks, QuietEnd DEF Discipline, DieReleasing
<1>9. ASSUME NEW p \in Procs, Work(p) PROVE Discipline'
  BY <1>9, EnterStep, RestoreLogStep, RestoreDocStep, RestoreRemoveStep,
     ReadSnapshotStep, ResolveStep, ResolveSingleStep, WriteJournalStep,
     AppendLineStep, ProjectStep, RemoveJournalStep, CommitStep, ValidateStep,
     RollForwardLogStep, RollForwardDocStep, RemoveApplicationStep DEF Work
<1>10. ASSUME NEW k \in Locks, ClearLock(k) PROVE Discipline'
  <2>1. Locking'
    BY <1>10, ClearLocks DEF Discipline
  <2>2. /\ UNCHANGED disk /\ pc' = pc /\ goal' = goal /\ tx' = tx /\ got' = got
    BY <1>10 DEF ClearLock, local
  <2>3. \A p \in Procs : Stages(p)'
    BY <2>2, StagesUnmoved DEF Discipline, Stages
  <2>4. DiskShapes' /\ OneJournal' /\ Recoverable'
    BY <2>2, DiskUnmoved
  <2> QED BY <2>1, <2>3, <2>4 DEF Discipline, Stages
<1> QED
  BY <1>1, <1>2, <1>3, <1>4, <1>5, <1>6, <1>7, <1>8, <1>9, <1>10
  DEF Next, Proceed

(* Locks, transactions and files agree at all times, for any number of     *)
(* processes, positions, calls and faults (withLocks, the recoveries, the  *)
(* appends and roll forwards of the repositories).                         *)
THEOREM DisciplineHolds == Spec => []Discipline
BY DisciplineInit, DisciplineStep, PTL DEF Spec

(* A pending transaction always finds the files it demands, and a log      *)
(* without one is complete: recovery never gets stuck on what an earlier   *)
(* call, of whatever repository, left behind.                              *)
THEOREM RecoveryNeverStuck == Spec => []Recoverable
<1>1. Discipline => Recoverable
  BY DEF Discipline
<1> QED BY <1>1, DisciplineHolds, PTL

(* An aggregate transaction is never pending together with one of a        *)
(* single repository.                                                      *)
THEOREM NeverTwoJournals == Spec => []OneJournal
<1>1. Discipline => OneJournal
  BY DEF Discipline
<1> QED BY <1>1, DisciplineHolds, PTL

(* Calls hold the locks they count, and none when they have ended, however *)
(* many releases failed.                                                   *)
THEOREM LocksAlwaysGivenBack == Spec => []LocksGivenBack
<1>1. Discipline => LocksGivenBack
  BY DEF Discipline, Locking
<1> QED BY <1>1, DisciplineHolds, PTL

-----------------------------------------------------------------------------
(* What is in the logs *)

LEMMA SeqOverRange ==
  ASSUME NEW S, NEW s \in Seq(S)
  PROVE  s \in Seq(Range(s)) /\ Len(s) \in Nat
<1>1. /\ Len(s) \in Nat /\ DOMAIN s = 1 .. Len(s)
      /\ s = [i \in 1 .. Len(s) |-> s[i]]
  OBVIOUS
<1>2. s \in [1 .. Len(s) -> Range(s)]
  BY <1>1 DEF Range
<1> HIDE DEF Range
<1> QED BY <1>1, <1>2, SeqDef

(* The lines t after the lines s.                                          *)
LEMMA Extension ==
  ASSUME NEW s, NEW t, s \in Seq(Range(s)), t \in Seq(Range(t))
  PROVE  /\ s \o t \in Seq(Range(s \o t))
         /\ Len(s) \in Nat /\ Len(t) \in Nat /\ Len(s \o t) = Len(s) + Len(t)
         /\ DOMAIN s = 1 .. Len(s) /\ DOMAIN t = 1 .. Len(t)
         /\ DOMAIN (s \o t) = 1 .. (Len(s) + Len(t))
         /\ \A i \in 1 .. Len(s) : (s \o t)[i] = s[i]
         /\ \A i \in 1 .. Len(t) : (s \o t)[Len(s) + i] = t[i]
         /\ \A i \in 1 .. (Len(s) + Len(t)) :
              i \in 1 .. Len(s) \/ \E j \in 1 .. Len(t) : i = Len(s) + j
         /\ SubSeq(s \o t, Len(s) + 1, Len(s \o t)) = t
         /\ Ledger!IsPrefix(s, s \o t)
<1> DEFINE A == Range(s) \cup Range(t)
<1>1. s \in Seq(A) /\ t \in Seq(A)
  OBVIOUS
<1> HIDE DEF A
<1>2. /\ s \o t \in Seq(A) /\ Len(s) \in Nat /\ Len(t) \in Nat
      /\ Len(s \o t) = Len(s) + Len(t)
      /\ \A i \in 1 .. Len(s) : (s \o t)[i] = s[i]
      /\ \A i \in 1 .. Len(t) : (s \o t)[Len(s) + i] = t[i]
      /\ DOMAIN s = 1 .. Len(s) /\ DOMAIN t = 1 .. Len(t)
      /\ DOMAIN (s \o t) = 1 .. (Len(s) + Len(t))
  BY <1>1
<1>3. ASSUME NEW i \in 1 .. (Len(s) + Len(t)), i \notin 1 .. Len(s)
      PROVE  \E j \in 1 .. Len(t) : i = Len(s) + j
  <2>1. i - Len(s) \in 1 .. Len(t) /\ i = Len(s) + (i - Len(s))
    BY <1>2, <1>3
  <2> QED BY <2>1
<1>4. SubSeq(s \o t, Len(s) + 1, Len(s \o t)) = t
  <2>1. SubSeq(s \o t, Len(s) + 1, Len(s \o t)) =
          [i \in 1 .. Len(t) |-> (s \o t)[Len(s) + i]]
    BY <1>2
  <2>2. t = [i \in 1 .. Len(t) |-> t[i]]
    BY <1>1
  <2> QED BY <1>2, <2>1, <2>2
<1>5. Ledger!IsPrefix(s, s \o t)
  <2>1. SubSeq(s \o t, 1, Len(s)) = [i \in 1 .. Len(s) |-> (s \o t)[i]]
    BY <1>2
  <2>2. SubSeq(s, 1, Len(s)) = [i \in 1 .. Len(s) |-> s[i]]
    BY <1>1, <1>2
  <2> QED BY <1>2, <2>1, <2>2 DEF Ledger!IsPrefix
<1>6. s \o t \in Seq(Range(s \o t))
  BY <1>2, SeqOverRange
<1> QED BY <1>2, <1>3, <1>4, <1>5, <1>6

(* What an append of one line may leave are the lines before and after.    *)
LEMMA PartialsOfOne ==
  ASSUME NEW s, s \in Seq(Range(s)), NEW e, NEW f \in Partials(s, <<e>>)
  PROVE  /\ f.lines \in {s, s \o <<e>>}
         /\ f # Whole(s \o <<e>>) => f.lines = s
<1>1. /\ Len(<<e>>) = 1 /\ 1 .. (Len(<<e>>) - 1) = {} /\ 1 .. Len(<<e>>) = {1}
      /\ SubSeq(<<e>>, 1, 1 - 1) = <<>>
  OBVIOUS
<1>2. s \o <<>> = s
  OBVIOUS
<1>3. Whole(s).lines = s /\ Whole(s \o <<e>>).lines = s \o <<e>>
  BY DEF Whole
<1>4. CASE f \in {Whole(s), Whole(s \o <<e>>)}
  BY <1>3, <1>4
<1>5. CASE f \notin {Whole(s), Whole(s \o <<e>>)}
  <2>1. f \in {[lines |-> s \o SubSeq(<<e>>, 1, k - 1), torn |-> <<e>>[k]] :
                  k \in 1 .. Len(<<e>>)}
    BY <1>1, <1>5 DEF Partials
  <2>2. f.lines = s \o SubSeq(<<e>>, 1, 1 - 1)
    BY <1>1, <2>1
  <2> QED BY <1>1, <1>2, <2>2
<1> QED BY <1>4, <1>5

LEMMA SingleLine ==
  ASSUME NEW e
  PROVE  /\ <<e>> \in Seq(Range(<<e>>)) /\ Len(<<e>>) = 1 /\ <<e>>[1] = e
         /\ <<e>> = << <<e>>[1] >>
BY SeqOverRange, <<e>> \in Seq({e})

(* The head chosen is a head.                                              *)
LEMMA HeadOfIsHead ==
  ASSUME NEW s, HasHeads(s), NEW x \in Items
  PROVE  /\ HeadOf(s, x) \in DOMAIN s /\ s[HeadOf(s, x)].item = x
         /\ \A j \in DOMAIN s : s[j].item = x => j <= HeadOf(s, x)
BY DEF HasHeads, HeadOf

(* One more event.                                                         *)
LEMMA HeadsOfOneMore ==
  ASSUME NEW s, s \in Seq(Range(s)), HasHeads(s), NEW e
  PROVE  HasHeads(s \o <<e>>)
<1> DEFINE t == s \o <<e>>
           n == Len(s) + 1
<1>1. /\ Len(s) \in Nat /\ DOMAIN s = 1 .. Len(s) /\ DOMAIN t = 1 .. n
      /\ \A i \in 1 .. Len(s) : t[i] = s[i]
      /\ t[n] = e
  BY SingleLine, Extension
<1> HIDE DEF t
<1>2. SUFFICES ASSUME NEW x \in Items
               PROVE  \E i \in DOMAIN t :
                        /\ t[i].item = x
                        /\ \A j \in DOMAIN t : t[j].item = x => j <= i
  BY DEF HasHeads, t
<1>3. CASE e.item = x
  <2>1. n \in DOMAIN t /\ t[n].item = x /\ \A j \in DOMAIN t : j <= n
    BY <1>1, <1>3
  <2> QED BY <2>1
<1>4. CASE e.item # x
  <2>1. PICK i \in DOMAIN s : /\ s[i].item = x
                              /\ \A j \in DOMAIN s : s[j].item = x => j <= i
    BY <1>2 DEF HasHeads
  <2>2. ASSUME NEW j \in DOMAIN t, t[j].item = x PROVE j <= i
    BY <1>1, <1>4, <2>1, <2>2
  <2> QED BY <1>1, <2>1, <2>2
<1> QED BY <1>3, <1>4

(* One event of every position.                                            *)
LEMMA ItemOrderFacts ==
  /\ Cardinality(Items) \in Nat
  /\ ItemOrder \in [1 .. Cardinality(Items) -> Items] /\ Range(ItemOrder) = Items
  /\ \A i, j \in 1 .. Cardinality(Items) : ItemOrder[i] = ItemOrder[j] => i = j
<1> DEFINE n == Cardinality(Items)
<1>1. n \in Nat /\ ExistsBijection(1 .. n, Items)
  BY FS_CardinalityType, ValueAssumption
<1>2. PICK f \in Bijection(1 .. n, Items) : TRUE
  BY <1>1 DEF ExistsBijection
<1>3. f \in [1 .. n -> Items] /\ Range(f) = Items
  BY <1>2 DEF Bijection, Surjection, Injection, Range
<1>4. ItemOrder \in [1 .. n -> Items] /\ Range(ItemOrder) = Items
  BY <1>3 DEF ItemOrder
<1>5. ItemOrder \in Surjection(1 .. n, Items)
  BY <1>4 DEF Surjection, Range
<1>6. IsFiniteSet(1 .. n) /\ Cardinality(1 .. n) = n
  BY <1>1, FS_Interval
<1>7. ItemOrder \in Injection(1 .. n, Items)
  BY <1>5, <1>6, FS_SurjSameCardinalityImpliesInj
<1> QED BY <1>1, <1>4, <1>7 DEF Injection, IsInjective

LEMMA PositionEventsFacts ==
  ASSUME NEW r
  PROVE  LET ps == PositionEvents(r)
         IN /\ ps \in Seq(Range(ps)) /\ Len(ps) = Cardinality(Items)
            /\ \A i \in 1 .. Len(ps) : ps[i] = PositionEvent(r, ItemOrder[i])
            /\ \A i \in 1 .. Len(ps) : ItemOrder[i] \in Items
            /\ \A x \in Items : \E i \in 1 .. Len(ps) : ItemOrder[i] = x
<1> DEFINE n == Cardinality(Items)
           ps == PositionEvents(r)
<1>1. /\ n \in Nat /\ DOMAIN ItemOrder = 1 .. n
      /\ \A i \in 1 .. n : ItemOrder[i] \in Items
      /\ \A x \in Items : \E i \in 1 .. n : ItemOrder[i] = x
  BY ItemOrderFacts DEF Range
<1>2. ps = [i \in 1 .. n |-> PositionEvent(r, ItemOrder[i])]
  BY <1>1 DEF PositionEvents
<1>3. ps \in [1 .. n -> Range(ps)]
  BY <1>2 DEF Range
<1>4. ps \in Seq(Range(ps)) /\ Len(ps) = n
  BY <1>1, <1>2, <1>3
<1> QED BY <1>1, <1>2, <1>4

LEMMA HeadsOfAllMore ==
  ASSUME NEW s, s \in Seq(Range(s)), HasHeads(s), NEW r
  PROVE  HasHeads(s \o PositionEvents(r))
<1> DEFINE n == Cardinality(Items)
           ps == PositionEvents(r)
           t == s \o ps
<1>1. /\ ps \in Seq(Range(ps)) /\ Len(ps) = n /\ n \in Nat
      /\ \A i \in 1 .. n : ps[i] = PositionEvent(r, ItemOrder[i])
      /\ \A x \in Items : \E i \in 1 .. n : ItemOrder[i] = x
      /\ \A i, j \in 1 .. n : ItemOrder[i] = ItemOrder[j] => i = j
  BY PositionEventsFacts, ItemOrderFacts
<1> HIDE DEF ps
<1>a. s \in Seq(Range(s)) /\ ps \in Seq(Range(ps))
  BY <1>1
<1>0. /\ Len(s) \in Nat /\ DOMAIN t = 1 .. (Len(s) + Len(ps))
      /\ \A i \in 1 .. Len(s) : t[i] = s[i]
      /\ \A i \in 1 .. Len(ps) : t[Len(s) + i] = ps[i]
      /\ \A i \in 1 .. (Len(s) + Len(ps)) :
           i \in 1 .. Len(s) \/ \E j \in 1 .. Len(ps) : i = Len(s) + j
  BY <1>a, Extension
<1> HIDE DEF n
<1>2. /\ Len(s) \in Nat /\ DOMAIN t = 1 .. (Len(s) + n)
      /\ \A i \in 1 .. n : t[Len(s) + i] = ps[i]
      /\ \A i \in 1 .. (Len(s) + n) :
           i \in 1 .. Len(s) \/ \E j \in 1 .. n : i = Len(s) + j
  BY <1>0, <1>1
<1> HIDE DEF t
<1>3. SUFFICES ASSUME NEW x \in Items
               PROVE  \E i \in DOMAIN t :
                        /\ t[i].item = x
                        /\ \A j \in DOMAIN t : t[j].item = x => j <= i
  BY DEF HasHeads, t, ps
<1>4. PICK k \in 1 .. n : ItemOrder[k] = x
  BY <1>1, <1>3
<1>5. Len(s) + k \in DOMAIN t /\ t[Len(s) + k].item = x
  BY <1>1, <1>2, <1>4 DEF PositionEvent
<1>6. ASSUME NEW j \in DOMAIN t, t[j].item = x PROVE j <= Len(s) + k
  <2>1. CASE j \in 1 .. Len(s)
    BY <1>1, <1>2, <1>4, <2>1
  <2>2. ASSUME NEW i \in 1 .. n, j = Len(s) + i PROVE j <= Len(s) + k
    <3>1. t[j].item = ItemOrder[i]
      BY <1>1, <1>2, <2>2 DEF PositionEvent
    <3>2. i = k
      BY <1>1, <1>4, <1>6, <3>1
    <3> QED BY <1>2, <2>2, <3>2
  <2> QED BY <1>2, <2>1, <2>2
<1> QED BY <1>5, <1>6

-----------------------------------------------------------------------------
(* What a step touches *)

Deciding == {"commit", "journal", "append"}

LEMMA Undecided ==
  ASSUME NEW p \in Procs, pc'[p] \notin Deciding
  PROVE  Decided(p)'
BY DEF Decided, Deciding

LEMMA LeaveFootprint ==
  ASSUME NEW p \in Procs, LockShapes,
         (\E o : Leave(p, o)) \/ Throw(p) \/ Break(p)
  PROVE  /\ OnlyMoves(p) /\ pc'[p] \in {"unlocking", "crashed"}
         /\ Throw(p) \/ Break(p) => seen' = seen
BY DEF LockShapes, OnlyMoves, Leave, Throw, Break, Die, Goto, Keep, End

LEMMA AdvanceFootprint ==
  ASSUME NEW p \in Procs, LockShapes, NEW s, Goto(p, s),
         goal' = goal, got' = got, tx' = tx \/ \E t : Keep(p, t)
  PROVE  OnlyMoves(p) /\ pc'[p] = s
BY DEF LockShapes, OnlyMoves, Goto, Keep

LEMMA RollNextFacts ==
  /\ \A s \in DOMAIN RollNext : RollNext[s] \in RollStates
  /\ RollStates \cap Deciding = {}
  /\ DOMAIN RollLog \subseteq DOMAIN RollNext
  /\ DOMAIN RollDoc \subseteq DOMAIN RollNext
BY DEF RollNext, RollStates, Deciding, RollLog, RollDoc

(* A call moves itself, and only reading changes what it has seen.         *)
LEMMA CallFootprint ==
  ASSUME NEW p \in Procs, LockShapes,
         \/ Start(p) \/ AcquireLock(p) \/ TimeOut(p) \/ ReleaseLock(p)
         \/ Return(p) \/ Fail(p) \/ DieReleasing(p)
  PROVE  /\ OnlyMoves(p) /\ pc'[p] \notin Deciding
         /\ seen' = seen /\ UNCHANGED disk
<1> USE DEF Deciding
<1>1. CASE Start(p)
  BY <1>1 DEF Start, LockShapes, OnlyMoves, Goto
<1>2. CASE AcquireLock(p)
  BY <1>2 DEF AcquireLock, LockShapes, OnlyMoves, Goto, local
<1>3. CASE TimeOut(p)
  BY <1>3, LeaveFootprint DEF TimeOut
<1>4. CASE ReleaseLock(p)
  BY <1>4 DEF ReleaseLock, LockShapes, OnlyMoves
<1>5. CASE Return(p)
  BY <1>5 DEF Return, LockShapes, OnlyMoves, Goto
<1>6. CASE Fail(p)
  BY <1>6, LeaveFootprint DEF Fail
<1>7. CASE DieReleasing(p)
  BY <1>7 DEF DieReleasing, Die, LockShapes, OnlyMoves, Goto, Keep
<1> QED BY <1>1, <1>2, <1>3, <1>4, <1>5, <1>6, <1>7

LEMMA WorkFootprint ==
  ASSUME NEW p \in Procs, LockShapes, Work(p)
  PROVE  /\ OnlyMoves(p)
         /\ ReadSnapshot(p) \/ seen' = seen
         /\ \/ Resolve(p) \/ ResolveSingle(p) \/ WriteJournal(p)
            \/ pc'[p] \notin Deciding
<1>1. CASE Enter(p)
  BY <1>1, LeaveFootprint, AdvanceFootprint
  DEF Enter, EnterAggregate, EnterSingle, local, Deciding
<1>2. CASE RestoreLog(p) \/ RestoreDoc(p) \/ Project(p)
  <2>1. PICK s \in {"restoreDoc", "restoreRemove", "remove"} :
          Break(p) \/ Advance(p, s)
    BY <1>2 DEF RestoreLog, RestoreDoc, Project
  <2> QED BY <2>1, LeaveFootprint, AdvanceFootprint
        DEF Advance, local, Deciding
<1>3. CASE RestoreRemove(p)
  BY <1>3, LeaveFootprint, AdvanceFootprint DEF RestoreRemove, local, Deciding
<1>4. CASE ReadSnapshot(p)
  BY <1>4, LeaveFootprint DEF ReadSnapshot, Deciding
<1>5. CASE Resolve(p)
  BY <1>5, LeaveFootprint, AdvanceFootprint DEF Resolve
<1>6. CASE ResolveSingle(p)
  BY <1>6, LeaveFootprint, AdvanceFootprint DEF ResolveSingle, local
<1>7. CASE WriteJournal(p)
  BY <1>7, LeaveFootprint, AdvanceFootprint DEF WriteJournal, Advance, local
<1>8. CASE AppendLine(p)
  BY <1>8, LeaveFootprint, AdvanceFootprint
  DEF AppendLine, AppendTo, Advance, local, Deciding
<1>9. CASE RemoveJournal(p)
  BY <1>9, LeaveFootprint DEF RemoveJournal, Deciding
<1>10. CASE Commit(p)
  BY <1>10, LeaveFootprint, AdvanceFootprint
  DEF Commit, Advance, local, Deciding
<1>11. CASE Validate(p)
  BY <1>11, LeaveFootprint, AdvanceFootprint DEF Validate, local, Deciding
<1>12. CASE RollForwardLog(p) \/ RollForwardDoc(p)
  <2>1. PICK s \in RollStates :
          Break(p) \/ Advance(p, s)
    BY <1>12, RollNextFacts DEF RollForwardLog, RollForwardDoc, AppendTo
  <2> QED BY <2>1, LeaveFootprint, AdvanceFootprint, RollNextFacts
        DEF Advance, local, Deciding
<1>13. CASE RemoveApplication(p)
  BY <1>13, LeaveFootprint, AdvanceFootprint
  DEF RemoveApplication, local, Deciding
<1> QED BY <1>1, <1>2, <1>3, <1>4, <1>5, <1>6, <1>7, <1>8, <1>9, <1>10,
          <1>11, <1>12, <1>13 DEF Work

(* What has been decided stands while its logs are left alone.             *)
LEMMA DecidedUnmoved ==
  ASSUME NEW q \in Procs, Decided(q), file' = file, pc'[q] = pc[q],
         tx'[q] = tx[q], seen'[q] = seen[q]
  PROVE  Decided(q)'
<1>1. RecordOf(q)' = RecordOf(q) /\ Candidate(q)' = Candidate(q)
      /\ LogOf(q)' = LogOf(q)
  BY DEF RecordOf, Candidate, LogOf
<1>2. \A r : /\ Application(r)' = Application(r)
            /\ Applicable(r)' = Applicable(r) /\ Fresh(r)' = Fresh(r)
  BY DEF Application, Applicable, EquityEvent, PositionEvents, PositionEvent,
         Fresh, Stored, Persisted, EventsBy, Lines
<1> QED BY <1>1, <1>2 DEF Decided

LEMMA OthersDecided ==
  ASSUME NEW p \in Procs, Locking, pc[p] \in Inside, goal[p] # "evidence",
         OnlyMoves(p), NEW q \in Procs \ {p}, seen'[q] = seen[q], Decided(q),
         ~Aggregate(p) => \A l \in Logs \ {LogOf(p)} : file'[l] = file[l]
  PROVE  Decided(q)'
<1>1. pc'[q] = pc[q] /\ tx'[q] = tx[q]
  BY DEF OnlyMoves
<1>2. CASE pc[q] \in Deciding
  <2>1. /\ pc[q] \in Inside /\ ~Aggregate(p) /\ ~Aggregate(q)
        /\ goal[q] # "evidence" => LogOf(p) # LogOf(q)
    BY <1>2, Exclusion, StatesApart
    DEF Deciding, Inside, RollStates, AppendStates
  <2>2. pc[q] # "commit" /\ goal[q] # "evidence"
    BY <1>2, <2>1
    DEF Locking, Control, AggregateStates, SingleStates, AppendStates, Deciding
  <2>3. LogOf(q) \in Logs \ {LogOf(p)}
    BY <2>1, <2>2 DEF LogOf, Logs, Journaled
  <2>4. Candidate(q)' = Candidate(q) /\ LogOf(q)' = LogOf(q)
    BY DEF RecordOf, Candidate, LogOf
  <2> QED BY <1>1, <2>1, <2>2, <2>3, <2>4 DEF Decided
<1> QED BY <1>1, <1>2, Undecided

-----------------------------------------------------------------------------
(* Steps that commit nothing *)

LEMMA SoundSame ==
  ASSUME Sound, Committed' = Committed
  PROVE  Sound'
BY DEF Sound, HasHeads

LEMMA ContentsUnmoved ==
  ASSUME NEW p \in Procs, Contents, OnlyMoves(p), file' = file,
         application' = application, DOMAIN seen' = Procs,
         \A q \in Procs \ {p} : seen'[q] = seen[q], Decided(p)',
         \A l \in Journaled : single'[l] # None => OneLine(single'[l])
  PROVE  Contents' /\ Committed' = Committed
<1>1. Committed' = Committed
  BY DEF Committed, Target
<1>2. Sound'
  BY <1>1, SoundSame DEF Contents
<1>3. ASSUME NEW q \in Procs \ {p} PROVE Decided(q)'
  BY <1>3, DecidedUnmoved DEF Contents, OnlyMoves
<1>4. \A l \in Journaled : (single[l] # None => OneLine(single[l]))'
  BY DEF OneLine
<1> QED BY <1>1, <1>2, <1>3, <1>4 DEF Contents

LEMMA ContentsKept ==
  ASSUME NEW p \in Procs, Discipline, Contents, pc[p] \in Inside,
         goal[p] # "evidence", OnlyMoves(p), seen' = seen, Decided(p)', Sound',
         ~Aggregate(p) => \A l \in Logs \ {LogOf(p)} : file'[l] = file[l],
         single' = single
  PROVE  Contents'
<1>1. ASSUME NEW q \in Procs \ {p} PROVE Decided(q)'
  BY OthersDecided DEF Contents, Discipline
<1>2. \A l \in Journaled : (single[l] # None => OneLine(single[l]))'
  BY DEF OneLine, Contents
<1> QED BY <1>1, <1>2 DEF Contents

(* The calls.                                                              *)
LEMMA CallContents ==
  ASSUME NEW p \in Procs, Discipline, Contents,
         \/ Start(p) \/ AcquireLock(p) \/ TimeOut(p) \/ ReleaseLock(p)
         \/ Return(p) \/ Fail(p) \/ DieReleasing(p)
  PROVE  Contents' /\ Committed' = Committed /\ seen' = seen
<1>1. /\ OnlyMoves(p) /\ pc'[p] \notin Deciding
      /\ seen' = seen /\ UNCHANGED disk
  BY CallFootprint DEF Discipline, Locking
<1>2. Decided(p)'
  BY <1>1, Undecided
<1> QED BY <1>1, <1>2, ContentsUnmoved DEF disk, Contents

(* Entering, and the writes that concern documents and transactions.       *)
LEMMA SilentContents ==
  ASSUME NEW p \in Procs, Discipline, Contents,
         \/ Enter(p) \/ RestoreDoc(p) \/ RestoreRemove(p) \/ Project(p)
         \/ RemoveJournal(p) \/ Validate(p) \/ RollForwardDoc(p)
  PROVE  Contents' /\ Committed' = Committed /\ seen' = seen
<1>1. file' = file /\ application' = application
  BY DEF Enter, RestoreDoc, RestoreRemove, Project, RemoveJournal, Validate,
         RollForwardDoc, disk
<1>2. \/ pc[p] \in {"enter", "restoreDoc", "restoreRemove", "project", "remove",
                    "validate"}
      \/ pc[p] \in DOMAIN RollDoc
  BY DEF Enter, RestoreDoc, RestoreRemove, Project, RemoveJournal, Validate,
         RollForwardDoc
<1>3. ~ReadSnapshot(p) /\ ~Resolve(p) /\ ~ResolveSingle(p) /\ ~WriteJournal(p)
  BY <1>2 DEF ReadSnapshot, Resolve, ResolveSingle, WriteJournal, RollDoc
<1>4. OnlyMoves(p) /\ seen' = seen /\ pc'[p] \notin Deciding
  BY <1>3, WorkFootprint DEF Work, Discipline, Locking
<1>5. \/ single' = single
      \/ single' = [single EXCEPT ![LogOf(p)] = None]
  BY DEF Enter, RestoreDoc, RestoreRemove, Project, RemoveJournal, Validate,
         RollForwardDoc, disk
<1>6. ASSUME NEW l \in Journaled, single'[l] # None PROVE OneLine(single'[l])
  <2>1. single'[l] = single[l]
    BY <1>5, <1>6 DEF Discipline, DiskShapes
  <2> QED BY <1>6, <2>1 DEF Contents
<1>7. Decided(p)'
  BY <1>4, Undecided
<1> QED BY <1>1, <1>4, <1>6, <1>7, ContentsUnmoved DEF Contents

(* A reader sees what is committed.                                        *)
LEMMA ReadSnapshotContents ==
  ASSUME NEW p \in Procs, Discipline, Contents, ReadSnapshot(p)
  PROVE  /\ Contents' /\ Committed' = Committed
         /\ Ledger!Look(p) \/ seen' = seen
<1> DEFINE read == IF goal[p] = "evidence" THEN {}
                   ELSE IF Aggregate(p) THEN Logs ELSE {LogOf(p)}
<1>1. /\ pc[p] = "read" /\ UNCHANGED disk
      /\ \/ /\ seen' = [seen EXCEPT ![p] =
                 [l \in Logs |-> IF l \in read THEN Lines[l] ELSE @[l]]]
            /\ Leave(p, "ok")
         \/ Throw(p)
  BY DEF ReadSnapshot
<1>2. read \subseteq Logs /\ (read # {} => application = None)
  BY <1>1 DEF Discipline, AggregateStage, SingleStage, Logs, Journaled, LogOf
<1>3. \A l \in read : Lines[l] = Committed[l]
  BY <1>2 DEF Lines, Committed
<1> HIDE DEF read
<1>4. OnlyMoves(p) /\ pc'[p] \notin Deciding
  BY <1>1, LeaveFootprint DEF Discipline, Locking, Deciding
<1>5. Decided(p)'
  BY <1>4, Undecided
<1>6. seen' = seen \/ seen' = [seen EXCEPT ![p] =
                 [l \in Logs |-> IF l \in read THEN Lines[l] ELSE @[l]]]
  BY <1>1 DEF Throw
<1>7. DOMAIN seen' = Procs /\ \A q \in Procs \ {p} : seen'[q] = seen[q]
  BY <1>6 DEF Contents
<1>8. Contents' /\ Committed' = Committed
  BY <1>1, <1>4, <1>5, <1>7, ContentsUnmoved DEF disk, Contents
<1>9. ASSUME seen' # seen PROVE Ledger!Look(p)
  <2>1. [l \in Logs |-> IF l \in read THEN Lines[l] ELSE seen[p][l]] =
        [l \in Ledger!Names |-> IF l \in read THEN Committed[l] ELSE seen[p][l]]
    <3>1. Logs = Ledger!Names
      BY DEF Logs, Journaled, Ledger!Names
    <3> QED BY <1>3, <3>1
  <2>2. seen' = [seen EXCEPT ![p] =
          [l \in Ledger!Names |-> IF l \in read THEN Committed[l] ELSE @[l]]]
    BY <1>6, <1>9, <2>1
  <2>3. read \in SUBSET Ledger!Names
    BY <1>2 DEF Logs, Journaled, Ledger!Names
  <2> QED BY <1>8, <2>2, <2>3 DEF Ledger!Look
<1> QED BY <1>8, <1>9

(* What is decided on, by a run and by a call of a single repository.      *)
LEMMA ResolveContents ==
  ASSUME NEW p \in Procs, Discipline, Contents, Resolve(p)
  PROVE  Contents' /\ Committed' = Committed /\ seen' = seen
<1>1. /\ pc[p] = "read" /\ ~ReadSnapshot(p) /\ UNCHANGED disk
      /\ OnlyMoves(p) /\ seen' = seen
  BY WorkFootprint DEF Resolve, ReadSnapshot, Work, Discipline, Locking
<1>2. CASE pc'[p] \notin Deciding
  BY <1>1, <1>2, Undecided, ContentsUnmoved DEF disk, Contents
<1>3. CASE pc'[p] \in Deciding
  <2>1. /\ AllReadable /\ Applicable(RecordOf(p)) /\ Fresh(RecordOf(p))
        /\ Keep(p, Application(RecordOf(p))) /\ Goto(p, "commit")
    <3>1. pc'[p] \notin {"unlocking", "crashed"}
      BY <1>3 DEF Deciding
    <3> QED BY <3>1, LeaveFootprint DEF Resolve, Fresh, Discipline, Locking
  <2>2. pc'[p] = "commit" /\ tx'[p] = Application(RecordOf(p))
    BY <2>1 DEF Goto, Keep, Discipline, Locking, LockShapes
  <2>3. /\ RecordOf(p)' = RecordOf(p)
        /\ \A r : /\ Application(r)' = Application(r)
                  /\ Applicable(r)' = Applicable(r)
                  /\ Fresh(r)' = Fresh(r)
    BY <1>1 DEF disk, RecordOf, Application, Applicable, EquityEvent,
                PositionEvents, PositionEvent, Fresh, Stored, Persisted,
                EventsBy, Lines
  <2>4. \A l \in Logs : file[l] = Whole(Application(RecordOf(p)).prev[l])
    <3>1. \A r : \A l \in Logs : Application(r).prev[l] = file[l].lines
      BY DEF Application
    <3>2. \A l \in Logs : file[l] = Whole(file[l].lines)
      BY <2>1 DEF AllReadable, Readable, Whole, Discipline, DiskShapes
    <3> QED BY <3>1, <3>2
  <2>5. Decided(p)'
    BY <1>1, <2>1, <2>2, <2>3, <2>4 DEF Decided, disk
  <2> QED BY <1>1, <2>5, ContentsUnmoved DEF disk, Contents
<1> QED BY <1>2, <1>3

LEMMA ResolveSingleContents ==
  ASSUME NEW p \in Procs, Discipline, Contents, ResolveSingle(p)
  PROVE  Contents' /\ Committed' = Committed /\ seen' = seen
<1> DEFINE l == LogOf(p)
           t == [prev |-> Lines[l], added |-> <<Candidate(p)>>]
<1>1. /\ pc[p] = "read" /\ ~ReadSnapshot(p) /\ UNCHANGED disk
      /\ OnlyMoves(p) /\ seen' = seen
  BY WorkFootprint DEF ResolveSingle, ReadSnapshot, Work, Discipline, Locking
<1>2. CASE pc'[p] \notin Deciding
  BY <1>1, <1>2, Undecided, ContentsUnmoved DEF disk, Contents
<1>3. CASE pc'[p] \in Deciding
  <2>1. /\ Readable(l) /\ Accepts(l, Lines[l], Candidate(p)) /\ Keep(p, t)
        /\ Goto(p, IF l = "mark" THEN "append" ELSE "journal")
    <3>1. pc'[p] \notin {"unlocking", "crashed"}
      BY <1>3 DEF Deciding
    <3> QED BY <3>1, LeaveFootprint DEF ResolveSingle, Discipline, Locking
  <2>2. pc'[p] \in {"append", "journal"} /\ tx'[p] = t
    BY <2>1 DEF Goto, Keep, Discipline, Locking, LockShapes
  <2>3. LogOf(p)' = l /\ Candidate(p)' = Candidate(p) /\ file' = file
    BY <1>1 DEF disk, RecordOf, Candidate, LogOf
  <2>4. file[l] = Whole(t.prev) /\ t.prev = Lines[l]
        /\ t.added = <<Candidate(p)>>
    <3>1. l \in Logs
      BY DEF LogOf, Logs, Journaled
    <3>2. file[l] = Whole(Lines[l])
      BY <2>1, <3>1 DEF Readable, Whole, Discipline, DiskShapes, Lines
    <3> QED BY <3>2
  <2> HIDE DEF t
  <2>5. Decided(p)'
    BY <2>1, <2>2, <2>3, <2>4 DEF Decided
  <2> QED BY <1>1, <2>5, ContentsUnmoved DEF disk, Contents
<1> QED BY <1>2, <1>3

(* What is in a log its call works on.                                     *)
LEMMA LinesOfSingle ==
  ASSUME NEW p \in Procs, Discipline, Contents, pc[p] \in SingleStates
  PROVE  /\ LogOf(p) \in Logs /\ Committed = Lines
         /\ file[LogOf(p)].lines \in Seq(Range(file[LogOf(p)].lines))
<1>1. LogOf(p) \in Logs /\ application = None
  BY SingleFacts
<1>2. Committed = Lines
  BY <1>1 DEF Committed, Lines
<1> QED BY <1>1, <1>2 DEF Contents, Sound, Lines

LEMMA WriteJournalContents ==
  ASSUME NEW p \in Procs, Discipline, Contents, WriteJournal(p)
  PROVE  Contents' /\ Committed' = Committed /\ seen' = seen
<1> DEFINE l == LogOf(p)
           t == tx[p]
<1>1. /\ pc[p] = "journal" /\ pc[p] \in SingleStates /\ ~ReadSnapshot(p)
      /\ single' = [single EXCEPT ![l] = t]
      /\ file' = file /\ application' = application
      /\ Advance(p, "append") \/ Break(p)
  BY DEF WriteJournal, SingleStates, AppendStates, ReadSnapshot
<1>2. OnlyMoves(p) /\ seen' = seen
  BY <1>1, WorkFootprint DEF Work, Discipline, Locking
<1>3. /\ file[l] = Whole(t.prev) /\ t.added = <<Candidate(p)>>
      /\ Accepts(l, t.prev, Candidate(p))
  BY <1>1 DEF Contents, Decided
<1>4. OneLine(t)
  <2>1. file[l].lines = t.prev
    BY <1>3, WholeFacts
  <2>2. t.prev \in Seq(Range(t.prev))
    BY <1>1, <2>1, LinesOfSingle
  <2>3. t.added = <<t.added[1]>>
    BY <1>3, SingleLine
  <2> QED BY <2>2, <2>3 DEF OneLine
<1>5. ASSUME NEW k \in Journaled, single'[k] # None PROVE OneLine(single'[k])
  BY <1>1, <1>4, <1>5 DEF Contents, Discipline, DiskShapes
<1>6. Decided(p)'
  <2>1. CASE Break(p)
    BY <2>1, LeaveFootprint, Undecided DEF Deciding, Discipline, Locking
  <2>2. CASE Advance(p, "append")
    <3>1. pc'[p] = "append" /\ tx'[p] = t
      BY <2>2 DEF Advance, Goto, Discipline, Locking, LockShapes
    <3>2. LogOf(p)' = l /\ Candidate(p)' = Candidate(p)
      BY <1>2 DEF RecordOf, Candidate, LogOf
    <3> QED BY <1>1, <1>3, <3>1, <3>2 DEF Decided
  <2> QED BY <1>1, <2>1, <2>2
<1> QED BY <1>1, <1>2, <1>5, <1>6, ContentsUnmoved DEF Contents

-----------------------------------------------------------------------------
(* Steps that write lines *)

(* What is taken back was never whole.                                     *)
LEMMA RestoreLogContents ==
  ASSUME NEW p \in Procs, Discipline, Contents, RestoreLog(p)
  PROVE  Contents' /\ Committed' = Committed /\ seen' = seen
<1> DEFINE l == LogOf(p)
           t == tx[p]
           e == t.added[1]
<1>1. /\ pc[p] = "restoreLog" /\ pc[p] \in SingleStates
      /\ file' = [file EXCEPT ![l] = Whole(Restored(l, t))]
      /\ application' = application /\ single' = single
      /\ ~Resolve(p) /\ ~ResolveSingle(p) /\ ~WriteJournal(p)
      /\ ~ReadSnapshot(p)
  BY DEF RestoreLog, SingleStates, RestoreStates, Resolve, ResolveSingle,
         WriteJournal, ReadSnapshot
<1>2. /\ OnlyMoves(p) /\ seen' = seen /\ pc'[p] \notin Deciding
  BY <1>1, WorkFootprint DEF Work, Discipline, Locking
<1>3. /\ l \in Journaled /\ l \in Logs /\ single[l] = t /\ t # None
      /\ application = None /\ pc[p] \in Inside /\ ~Aggregate(p)
      /\ goal[p] # "evidence"
  BY <1>1, SingleFacts DEF Discipline, SingleStage
<1>4. t.prev \in Seq(Range(t.prev)) /\ t.added = <<e>>
  BY <1>3 DEF Contents, OneLine
<1>5. file[l] \in Partials(t.prev, <<e>>)
  BY <1>3, <1>4 DEF Discipline, Recoverable, CanRecover
<1>6. Restored(l, t) = file[l].lines
  <2>1. CASE file[l] = Whole(t.prev \o <<e>>)
    BY <1>4, <2>1, WholeFacts DEF Restored
  <2>2. CASE file[l] # Whole(t.prev \o <<e>>)
    BY <1>4, <1>5, <2>2, PartialsOfOne DEF Restored
  <2> QED BY <2>1, <2>2
<1>7. \A k \in Logs : file'[k].lines = file[k].lines
  <2>1. file'[l] = Whole(file[l].lines)
    BY <1>1, <1>3, <1>6 DEF Discipline, DiskShapes
  <2>2. file'[l].lines = file[l].lines
    BY <2>1, WholeFacts
  <2>3. \A k \in Logs \ {l} : file'[k] = file[k]
    BY <1>1 DEF Discipline, DiskShapes
  <2> QED BY <2>2, <2>3
<1>8. Committed' = Committed
  BY <1>1, <1>3, <1>7 DEF Committed
<1>9. Sound'
  BY <1>8, SoundSame DEF Contents
<1>10. \A k \in Logs \ {l} : file'[k] = file[k]
  BY <1>1 DEF Discipline, DiskShapes
<1>11. Decided(p)'
  BY <1>2, Undecided
<1> QED BY <1>1, <1>2, <1>3, <1>8, <1>9, <1>10, <1>11, ContentsKept

LEMMA OneMore ==
  ASSUME NEW s, s \in Seq(Range(s)), NEW e
  PROVE  /\ s \o <<e>> \in Seq(Range(s \o <<e>>)) /\ Len(s) \in Nat
         /\ Len(s \o <<e>>) = Len(s) + 1
         /\ DOMAIN (s \o <<e>>) = 1 .. (Len(s) + 1)
         /\ (s \o <<e>>)[Len(s) + 1] = e
         /\ Ledger!IsPrefix(s, s \o <<e>>)
<1>1. PICK t : t = <<e>>
  OBVIOUS
<1>2. t \in Seq(Range(t)) /\ Len(t) = 1 /\ t[1] = e
  BY <1>1, SingleLine
<1>3. /\ s \o t \in Seq(Range(s \o t)) /\ Len(s) \in Nat
      /\ Len(s \o t) = Len(s) + Len(t)
      /\ DOMAIN (s \o t) = 1 .. (Len(s) + Len(t))
      /\ \A i \in 1 .. Len(t) : (s \o t)[Len(s) + i] = t[i]
      /\ Ledger!IsPrefix(s, s \o t)
  BY <1>2, Extension
<1>4. (s \o t)[Len(s) + 1] = e
  BY <1>2, <1>3
<1> QED BY <1>1, <1>2, <1>3, <1>4

(* A line enters its log as a whole or not at all.                         *)
LEMMA AppendLineCommits ==
  ASSUME NEW p \in Procs, Discipline, Contents, AppendLine(p)
  PROVE  LET l == LogOf(p)
             e == Candidate(p)
         IN /\ l \in Logs /\ pc[p] = "append" /\ pc[p] \in Inside
            /\ ~Aggregate(p) /\ goal[p] # "evidence"
            /\ OnlyMoves(p) /\ seen' = seen /\ pc'[p] \notin Deciding
            /\ application' = application /\ single' = single
            /\ tx[p].added = <<e>> /\ Accepts(l, Committed[l], e)
            /\ \A k \in Logs \ {l} : /\ file'[k] = file[k]
                                     /\ Committed'[k] = Committed[k]
            /\ \/ Committed' = Committed /\ Break(p)
               \/ Committed'[l] = Committed[l] \o <<e>>
<1> DEFINE l == LogOf(p)
           t == tx[p]
           e == Candidate(p)
           s == t.prev
<1>1. /\ pc[p] = "append" /\ pc[p] \in SingleStates
      /\ application' = application /\ single' = single
      /\ ~Resolve(p) /\ ~ResolveSingle(p) /\ ~WriteJournal(p)
      /\ ~ReadSnapshot(p)
  BY DEF AppendLine, SingleStates, AppendStates, Resolve, ResolveSingle,
         WriteJournal, ReadSnapshot
<1>2. /\ OnlyMoves(p) /\ seen' = seen /\ pc'[p] \notin Deciding
  BY <1>1, WorkFootprint DEF Work, Discipline, Locking
<1>3. /\ l \in Logs /\ application = None /\ pc[p] \in Inside /\ ~Aggregate(p)
      /\ goal[p] # "evidence"
  BY <1>1, SingleFacts
<1>4. /\ file[l] = Whole(s) /\ t.added = <<e>> /\ Accepts(l, s, e)
  BY <1>1 DEF Contents, Decided
<1>5. file[l].lines = s
  BY <1>4, WholeFacts
<1>6. s \in Seq(Range(s))
  BY <1>1, <1>5, LinesOfSingle
<1>7. PICK f \in Partials(s, <<e>>) :
        /\ file' = [file EXCEPT ![l] = f]
        /\ f = Whole(s \o <<e>>) \/ Break(p)
  BY <1>4, PartialsFacts DEF AppendLine, AppendTo
<1> HIDE DEF s, e, t
<1>8. /\ file'[l].lines \in {s, s \o <<e>>}
      /\ file'[l].lines = s \o <<e>> \/ Break(p)
      /\ \A k \in Logs \ {l} : file'[k] = file[k]
  BY <1>3, <1>6, <1>7, PartialsOfOne, WholeFacts DEF Discipline, DiskShapes
<1>9. /\ Committed = [k \in Logs |-> file[k].lines]
      /\ Committed' = [k \in Logs |-> file'[k].lines]
  BY <1>1, <1>3 DEF Committed
<1>10. /\ Committed[l] = s /\ Committed'[l] = file'[l].lines
       /\ \A k \in Logs \ {l} : Committed'[k] = Committed[k]
  BY <1>3, <1>5, <1>8, <1>9
<1>11. file'[l].lines = s => Committed' = Committed
  BY <1>5, <1>8, <1>9
<1> QED BY <1>1, <1>2, <1>3, <1>4, <1>8, <1>10, <1>11 DEF e, t

LEMMA AppendLineContents ==
  ASSUME NEW p \in Procs, Discipline, Contents, AppendLine(p)
  PROVE  /\ Contents' /\ seen' = seen
         /\ Committed' = Committed \/ Ledger!Add(LogOf(p))
<1> DEFINE l == LogOf(p)
           e == Candidate(p)
           s == Committed[l]
<1>1. /\ l \in Logs /\ pc[p] \in Inside /\ ~Aggregate(p)
      /\ goal[p] # "evidence" /\ OnlyMoves(p) /\ seen' = seen
      /\ pc'[p] \notin Deciding /\ single' = single
      /\ Accepts(l, s, e) /\ \A k \in Logs \ {l} : file'[k] = file[k]
  BY AppendLineCommits
<1>2. s \in Seq(Range(s))
  BY <1>1 DEF Contents, Sound
<1>3. Decided(p)'
  BY <1>1, Undecided
<1>4. CASE Committed' = Committed
  <2>1. Sound'
    BY <1>4, SoundSame DEF Contents
  <2> QED BY <1>1, <1>3, <1>4, <2>1, ContentsKept
<1>5. CASE Committed'[l] = s \o <<e>>
  <2> DEFINE c == Committed
             d == Committed'
  <2>1. /\ c[l] = s /\ d[l] = s \o <<e>>
        /\ \A k \in Logs \ {l} : d[k] = c[k]
    BY <1>5, AppendLineCommits
  <2>2. \A k \in Logs : c[k] \in Seq(Range(c[k]))
    BY DEF Contents, Sound
  <2>3. HasHeads(c["position"])
    BY DEF Contents, Sound
  <2> HIDE DEF c, d, s, e
  <2>4. /\ s \o <<e>> \in Seq(Range(s \o <<e>>)) /\ Len(s) \in Nat
        /\ Len(s \o <<e>>) = Len(s) + 1
        /\ (s \o <<e>>)[Len(s) + 1] = e
        /\ Ledger!IsPrefix(s, s \o <<e>>)
    BY <1>2, OneMore
  <2>5. /\ \A k \in Logs : d[k] \in Seq(Range(d[k]))
        /\ HasHeads(d["position"])
    <3>1. "position" \in Logs
      BY DEF Logs, Journaled
    <3>2. HasHeads(d["position"])
      BY <1>2, <2>1, <2>3, <3>1, HeadsOfOneMore
    <3> QED BY <2>1, <2>2, <2>4, <3>2
  <2>6. Sound'
    <3>1. (\A k \in Logs : Committed[k] \in Seq(Range(Committed[k])))'
      BY <2>5 DEF d
    <3>2. HasHeads(Committed["position"])'
      BY <2>5 DEF d, HasHeads
    <3> QED BY <3>1, <3>2 DEF Sound
  <2>7. Contents'
    BY <1>1, <1>3, <2>6, ContentsKept
  <2>8. Ledger!Names = Logs
    BY DEF Ledger!Names, Logs, Journaled
  <2>9. ASSUME NEW k \in Logs PROVE Ledger!IsPrefix(c[k], d[k])
    <3>1. Ledger!IsPrefix(c[k], c[k])
      BY <2>2 DEF Ledger!IsPrefix
    <3> QED BY <2>1, <2>4, <3>1
  <2>10. Ledger!Grows
    BY <2>8, <2>9 DEF Ledger!Grows, c, d
  <2>11. Len(d[l]) = Len(c[l]) + 1 /\ d[l][Len(d[l])] = e
    BY <2>1, <2>4
  <2>12. l = "mark" => \A m \in Range(c["mark"]) : m.asOf # e.asOf
    BY <1>1, <2>1 DEF Accepts, MarkedAt
  <2>13. l = "equity" => e.prev = Len(c["equity"])
    BY <1>1, <2>1 DEF Accepts, EquityFollows
  <2>14. l = "position" => Ledger!IsHead(e.prev, e.item)
    <3>1. SUFFICES ASSUME l = "position" PROVE Ledger!IsHead(e.prev, e.item)
      OBVIOUS
    <3>2. e.prev = HeadOf(s, e.item)
      BY <1>1, <3>1 DEF Accepts, PositionFollows
    <3>3. e.item \in Items
      BY <3>1, ValueAssumption DEF l, e, Candidate, LogOf
    <3>4. /\ s[e.prev].item = e.item
          /\ \A j \in DOMAIN s : s[j].item = e.item => j <= e.prev
      BY <2>1, <2>3, <3>1, <3>2, <3>3, HeadOfIsHead
    <3> QED BY <2>1, <3>1, <3>4 DEF Ledger!IsHead, c
  <2>15. Ledger!Add(l)
    BY <1>1, <2>1, <2>8, <2>10, <2>11, <2>12, <2>13, <2>14
    DEF Ledger!Add, Ledger!Range, Range, c, d
  <2> QED BY <1>1, <2>7, <2>15
<1> QED BY <1>4, <1>5, AppendLineCommits

(* A valuation is committed as a whole, whatever of it is in the logs.     *)
LEMMA RollForwardLogContents ==
  ASSUME NEW p \in Procs, Discipline, Contents, RollForwardLog(p)
  PROVE  Contents' /\ Committed' = Committed /\ seen' = seen
<1>1. /\ pc[p] \in DOMAIN RollLog
      /\ application' = application /\ single' = single
  BY DEF RollForwardLog
<1>2. /\ pc[p] \in AggregateStates /\ pc[p] \notin {"read", "journal", "commit"}
  BY <1>1 DEF RollLog, AggregateStates, RollStates, RollNext
<1>3. OnlyMoves(p) /\ seen' = seen /\ pc'[p] \notin Deciding
  BY <1>2, WorkFootprint
  DEF Work, Discipline, Locking, Resolve, ResolveSingle, WriteJournal,
      ReadSnapshot
<1>4. /\ application # None /\ pc[p] \in Inside /\ Aggregate(p)
      /\ goal[p] # "evidence"
  BY <1>2, AggregateFacts DEF Aggregate
<1>5. Committed' = Committed
  BY <1>1, <1>4 DEF Committed, Target
<1>6. Sound' /\ Decided(p)'
  BY <1>3, <1>5, SoundSame, Undecided DEF Contents
<1> QED BY <1>1, <1>3, <1>4, <1>5, <1>6, ContentsKept

(* The transaction is removed when the logs hold all of it.                *)
LEMMA RemoveApplicationContents ==
  ASSUME NEW p \in Procs, Discipline, Contents, RemoveApplication(p)
  PROVE  Contents' /\ Committed' = Committed /\ seen' = seen
<1>1. /\ pc[p] = "rollRemove" /\ application' = None /\ single' = single
      /\ file' = file
  BY DEF RemoveApplication
<1>2. pc[p] \in AggregateStates
  BY <1>1 DEF AggregateStates, RollStates
<1>3. OnlyMoves(p) /\ seen' = seen /\ pc'[p] \notin Deciding
  BY <1>1, WorkFootprint
  DEF Work, Discipline, Locking, Resolve, ResolveSingle, WriteJournal,
      ReadSnapshot
<1>4. /\ application # None /\ application = tx[p] /\ pc[p] \in Inside
      /\ Aggregate(p) /\ goal[p] # "evidence"
  BY <1>1, <1>2, AggregateFacts DEF Aggregate
<1>5. \A l \in Logs : file[l] = Whole(Target(application, l))
  BY <1>1, <1>4 DEF Discipline, AggregateStage, Logs, Journaled
<1>6. \A l \in Logs : file[l].lines = Target(application, l)
  BY <1>5, WholeFacts
<1>7. Committed' = Committed
  BY <1>1, <1>4, <1>6 DEF Committed
<1>8. Sound' /\ Decided(p)'
  BY <1>3, <1>7, SoundSame, Undecided DEF Contents
<1> QED BY <1>1, <1>3, <1>4, <1>7, <1>8, ContentsKept

(* The transaction file commits its record and all its events.             *)
LEMMA CommitCommits ==
  ASSUME NEW p \in Procs, Discipline, Contents, Commit(p)
  PROVE  LET r == RecordOf(p)
         IN /\ pc[p] = "commit" /\ pc[p] \in Inside
            /\ Aggregate(p) /\ goal[p] # "evidence"
            /\ OnlyMoves(p) /\ seen' = seen /\ pc'[p] \notin Deciding
            /\ single' = single
            /\ \A l \in Logs : Committed[l] = file[l].lines
            /\ DOMAIN Committed' = Logs /\ Applicable(r) /\ Fresh(r)
            /\ r.heads = HeadsOf(Committed["position"])
            /\ Committed'["mark"] = Committed["mark"] \o
                 (IF r \in Range(Committed["mark"]) THEN <<>> ELSE <<r>>)
            /\ Committed'["equity"] = Committed["equity"] \o <<EquityEvent(r)>>
            /\ Committed'["position"] =
                 Committed["position"] \o PositionEvents(r)
<1> DEFINE t == tx[p]
           r == RecordOf(p)
<1>1. /\ pc[p] = "commit" /\ application' = t /\ single' = single
      /\ file' = file
  BY DEF Commit
<1>2. pc[p] \in AggregateStates
  BY <1>1 DEF AggregateStates
<1>3. OnlyMoves(p) /\ seen' = seen /\ pc'[p] \notin Deciding
  BY <1>1, WorkFootprint
  DEF Work, Discipline, Locking, Resolve, ResolveSingle, WriteJournal,
      ReadSnapshot
<1>4. /\ application = None /\ t # None /\ pc[p] \in Inside
      /\ Aggregate(p) /\ goal[p] # "evidence"
  BY <1>1, <1>2, AggregateFacts DEF Aggregate, Discipline, AggregateStage
<1>5. /\ \A l \in Logs : file[l] = Whole(t.prev[l])
      /\ t = Application(r) /\ Applicable(r) /\ Fresh(r)
  BY <1>1 DEF Contents, Decided
<1>6. \A l \in Logs : file[l].lines = t.prev[l]
  BY <1>5, WholeFacts
<1>7. /\ t.added["mark"] = IF r \in Range(file["mark"].lines)
                              THEN <<>> ELSE <<r>>
      /\ t.added["equity"] = <<EquityEvent(r)>>
      /\ t.added["position"] = PositionEvents(r)
  <2>1. \A q : /\ Application(q).added["mark"] =
                    IF q \in Range(file["mark"].lines) THEN <<>> ELSE <<q>>
               /\ Application(q).added["equity"] = <<EquityEvent(q)>>
               /\ Application(q).added["position"] = PositionEvents(q)
    BY DEF Application, Logs, Journaled
  <2> QED BY <1>5, <2>1
<1>8. /\ Committed = [l \in Logs |-> file[l].lines]
      /\ Committed' = [l \in Logs |-> t.prev[l] \o t.added[l]]
  BY <1>1, <1>4 DEF Committed, Target
<1>9. {"mark", "equity", "position"} = Logs
  BY DEF Logs, Journaled
<1>10. \A l \in Logs : /\ Committed[l] = file[l].lines
                       /\ Committed'[l] = Committed[l] \o t.added[l]
  BY <1>6, <1>8
<1>11. r.heads = HeadsOf(Committed["position"])
  BY <1>5, <1>9, <1>10 DEF Applicable
<1> QED BY <1>1, <1>3, <1>4, <1>5, <1>7, <1>8, <1>9, <1>10, <1>11

(* The transaction file is the valuation's commit.                         *)
LEMMA CommitContents ==
  ASSUME NEW p \in Procs, Discipline, Contents, Commit(p)
  PROVE  Contents' /\ seen' = seen /\ Ledger!Value
<1> DEFINE r == RecordOf(p)
           c == Committed
           d == Committed'
           added == [l \in Logs |->
             CASE l = "mark" -> IF r \in Range(c["mark"]) THEN <<>> ELSE <<r>>
               [] l = "equity" -> <<EquityEvent(r)>>
               [] l = "position" -> PositionEvents(r)]
<1>1. /\ pc[p] \in Inside /\ Aggregate(p) /\ goal[p] # "evidence"
      /\ OnlyMoves(p) /\ seen' = seen /\ pc'[p] \notin Deciding
      /\ single' = single
  BY CommitCommits
<1>2. /\ added["mark"] = IF r \in Range(c["mark"]) THEN <<>> ELSE <<r>>
      /\ added["equity"] = <<EquityEvent(r)>>
      /\ added["position"] = PositionEvents(r)
      /\ {"mark", "equity", "position"} = Logs
  BY DEF Logs, Journaled
<1> HIDE DEF added
<1>3. /\ \A l \in Logs : d[l] = c[l] \o added[l] /\ c[l] = file[l].lines
      /\ DOMAIN d = Logs
  BY <1>2, CommitCommits
<1> HIDE DEF c, d
<1>4. /\ \A l \in Logs : c[l] \in Seq(Range(c[l]))
      /\ HasHeads(c["position"])
  BY DEF Contents, Sound, c
<1>5. \A l \in Logs : added[l] \in Seq(Range(added[l]))
  <2>1. <<>> \in Seq(Range(<<>>))
    OBVIOUS
  <2>2. added["mark"] \in Seq(Range(added["mark"]))
    BY <1>2, <2>1, SingleLine
  <2>3. added["equity"] \in Seq(Range(added["equity"]))
    BY <1>2, SingleLine
  <2>4. added["position"] \in Seq(Range(added["position"]))
    BY <1>2, PositionEventsFacts
  <2> QED BY <1>2, <2>2, <2>3, <2>4
<1>6. \A l \in Logs :
         /\ d[l] \in Seq(Range(d[l])) /\ Ledger!IsPrefix(c[l], d[l])
         /\ SubSeq(d[l], Len(c[l]) + 1, Len(d[l])) = added[l]
  <2> TAKE l \in Logs
  <2>1. c[l] \in Seq(Range(c[l])) /\ added[l] \in Seq(Range(added[l]))
    BY <1>4, <1>5
  <2>2. d[l] = c[l] \o added[l]
    BY <1>3
  <2>3. PICK a : a = c[l]
    OBVIOUS
  <2>4. PICK b : b = added[l]
    OBVIOUS
  <2>5. /\ a \o b \in Seq(Range(a \o b)) /\ Ledger!IsPrefix(a, a \o b)
        /\ SubSeq(a \o b, Len(a) + 1, Len(a \o b)) = b
    BY <2>1, <2>3, <2>4, Extension
  <2> QED BY <2>2, <2>3, <2>4, <2>5
<1>7. HasHeads(d["position"])
  <2>1. d["position"] = c["position"] \o PositionEvents(r)
    BY <1>3, <1>2
  <2>2. c["position"] \in Seq(Range(c["position"]))
    BY <1>2, <1>4
  <2> QED BY <1>4, <2>1, <2>2, HeadsOfAllMore
<1>8. Sound'
  <2>1. (\A k \in Logs : Committed[k] \in Seq(Range(Committed[k])))'
    BY <1>6 DEF d
  <2>2. HasHeads(Committed["position"])'
    BY <1>7 DEF d, HasHeads
  <2> QED BY <2>1, <2>2 DEF Sound
<1>9. Decided(p)'
  BY <1>1, Undecided
<1>10. Contents'
  BY <1>1, <1>8, <1>9, ContentsKept
<1>11. Ledger!Value
  <2>1. r \in Range(d["mark"])
    <3>1. CASE r \in Range(c["mark"])
      <4>1. d["mark"] = c["mark"] \o <<>>
        BY <1>3, <1>2, <3>1
      <4>2. d["mark"] = c["mark"]
        BY <1>2, <1>4, <4>1
      <4> QED BY <3>1, <4>2
    <3>2. CASE r \notin Range(c["mark"])
      <4>1. d["mark"] = c["mark"] \o <<r>>
        BY <1>3, <1>2, <3>2
      <4>2. /\ DOMAIN d["mark"] = 1 .. (Len(c["mark"]) + 1)
            /\ Len(c["mark"]) \in Nat
            /\ d["mark"][Len(c["mark"]) + 1] = r
        BY <1>2, <1>4, <4>1, SingleLine, Extension
      <4> QED BY <4>2 DEF Range
    <3> QED BY <3>1, <3>2
  <2>2. Ledger!Names = Logs
    BY DEF Ledger!Names, Logs, Journaled
  <2>3. Ledger!Grows
    BY <1>6, <2>2 DEF Ledger!Grows, c, d
  <2>4. ASSUME NEW x \in Items PROVE Ledger!IsHead(r.heads[x], x)
    <3>1. r.heads = HeadsOf(c["position"])
      BY CommitCommits DEF c
    <3>2. r.heads[x] = HeadOf(c["position"], x)
      BY <3>1 DEF HeadsOf
    <3> QED BY <1>4, <3>2, HeadOfIsHead DEF Ledger!IsHead, c
  <2>5. \A l \in Logs : Ledger!New(l) = added[l]
    BY <1>6 DEF Ledger!New, c, d
  <2>6. added["mark"] = IF r \in Range(c["mark"]) THEN <<>> ELSE <<r>>
    BY <1>2
  <2>7. /\ Len(added["equity"]) = 1 /\ added["equity"][1].by = r
        /\ added["equity"][1].prev = Len(c["equity"])
    <3>1. PICK e : e = EquityEvent(r)
      OBVIOUS
    <3>2. e.by = r /\ e.prev = Len(c["equity"])
      BY <1>3, <1>2, <3>1 DEF EquityEvent
    <3>3. added["equity"] = <<e>>
      BY <1>2, <3>1
    <3> QED BY <3>2, <3>3, SingleLine
  <2>8. /\ Len(added["position"]) = Cardinality(Items)
        /\ {e.item : e \in Range(added["position"])} = Items
        /\ \A e \in Range(added["position"]) :
             e.by = r /\ e.prev = r.heads[e.item]
    <3> DEFINE ps == PositionEvents(r)
    <3>1. /\ ps \in Seq(Range(ps)) /\ Len(ps) = Cardinality(Items)
          /\ \A i \in 1 .. Len(ps) : ps[i] = PositionEvent(r, ItemOrder[i])
          /\ \A i \in 1 .. Len(ps) : ItemOrder[i] \in Items
          /\ \A x \in Items : \E i \in 1 .. Len(ps) : ItemOrder[i] = x
      BY PositionEventsFacts
    <3> HIDE DEF ps
    <3>2. DOMAIN ps = 1 .. Len(ps)
      BY <3>1
    <3>3. \A e \in Range(ps) : \E i \in 1 .. Len(ps) :
            e = PositionEvent(r, ItemOrder[i])
      BY <3>1, <3>2 DEF Range
    <3>4. \A i \in 1 .. Len(ps) : PositionEvent(r, ItemOrder[i]) \in Range(ps)
      BY <3>1, <3>2 DEF Range
    <3>5. \A x : /\ PositionEvent(r, x).item = x /\ PositionEvent(r, x).by = r
                 /\ PositionEvent(r, x).prev = r.heads[x]
      BY DEF PositionEvent
    <3>6. {e.item : e \in Range(ps)} = Items
      BY <3>1, <3>3, <3>4, <3>5
    <3>7. \A e \in Range(ps) : e.by = r /\ e.prev = r.heads[e.item]
      BY <3>3, <3>5
    <3> QED BY <1>2, <3>1, <3>6, <3>7 DEF ps
  <2>9. seen' = seen
    BY <1>1
  <2>10. /\ Ledger!New("mark") = added["mark"]
         /\ Ledger!New("equity") = added["equity"]
         /\ Ledger!New("position") = added["position"]
    BY <1>2, <2>5
  <2>11. \A f : Ledger!Range(f) = Range(f)
    BY DEF Ledger!Range, Range
  <2>12. Ledger!Cardinality(Items) = Cardinality(Items)
    BY Zenon DEF Ledger!Cardinality, Cardinality
  <2> HIDE DEF r, added
  <2>13. /\ r \in Ledger!Range(d["mark"])
         /\ Ledger!New("mark") =
              IF r \in Ledger!Range(c["mark"]) THEN <<>> ELSE <<r>>
         /\ Len(Ledger!New("equity")) = 1 /\ Ledger!New("equity")[1].by = r
         /\ Ledger!New("equity")[1].prev = Len(c["equity"])
         /\ Len(Ledger!New("position")) = Cardinality(Items)
         /\ {e.item : e \in Ledger!Range(Ledger!New("position"))} = Items
         /\ \A e \in Ledger!Range(Ledger!New("position")) :
              e.by = r /\ e.prev = r.heads[e.item]
    BY <2>1, <2>6, <2>7, <2>8, <2>10, <2>11
  <2> QED BY <2>3, <2>4, <2>9, <2>13, <2>12 DEF Ledger!Value, c, d
<1> QED BY <1>1, <1>10, <1>11

-----------------------------------------------------------------------------
LEMMA ContentsInit == Init => Contents /\ Ledger!Init
<1> SUFFICES ASSUME Init PROVE Contents /\ Ledger!Init
  OBVIOUS
<1> DEFINE n == Cardinality(Items)
           start == [l \in Logs |->
             CASE l = "mark" -> <<>>
               [] l = "equity" -> <<[by |-> Origin, prev |-> 0, asOf |-> 0]>>
               [] l = "position" -> [i \in DOMAIN ItemOrder |->
                 [by |-> Origin, item |-> ItemOrder[i], prev |-> 0, asOf |-> 0]]]
           first == start["position"]
<1>1. /\ application = None /\ file = [l \in Logs |-> Whole(start[l])]
      /\ single = [l \in Journaled |-> None]
      /\ seen = [p \in Procs |-> start] /\ pc = [p \in Procs |-> "idle"]
  BY DEF Init
<1>2. Logs = {"mark", "equity", "position"}
  BY DEF Logs, Journaled
<1>3. /\ n \in Nat /\ DOMAIN ItemOrder = 1 .. n
      /\ \A x \in Items : \E i \in 1 .. n : ItemOrder[i] = x
      /\ \A i, j \in 1 .. n : ItemOrder[i] = ItemOrder[j] => i = j
  BY ItemOrderFacts DEF Range
<1>4. first = [i \in 1 .. n |-> [by |-> Origin, item |-> ItemOrder[i],
                                 prev |-> 0, asOf |-> 0]]
  BY <1>2, <1>3
<1>5. start["mark"] = <<>>
      /\ start["equity"] = <<[by |-> Origin, prev |-> 0, asOf |-> 0]>>
  BY <1>2
<1> HIDE DEF n
<1>6. HasHeads(first)
  <2> SUFFICES ASSUME NEW x \in Items
               PROVE  \E i \in DOMAIN first :
                        /\ first[i].item = x
                        /\ \A j \in DOMAIN first : first[j].item = x => j <= i
    BY DEF HasHeads
  <2> HIDE DEF start
  <2>1. PICK i \in 1 .. n : ItemOrder[i] = x
    BY <1>3
  <2>2. \A j \in 1 .. n : first[j].item = ItemOrder[j]
    BY <1>4
  <2>3. i <= i
    BY <1>3
  <2> QED BY <1>3, <1>4, <2>1, <2>2, <2>3
<1>7. first \in Seq(Range(first))
  <2> HIDE DEF start
  <2>1. first \in [1 .. n -> Range(first)]
    BY <1>4 DEF Range
  <2> QED BY <1>3, <2>1, SeqDef
<1>8. \A l \in Logs : file[l].lines = start[l]
  BY <1>1, WholeFacts
<1> HIDE DEF start
<1>9. Committed = start
  BY <1>1, <1>8 DEF Committed, start
<1>10. \A l \in Logs : start[l] \in Seq(Range(start[l]))
  <2>1. <<>> \in Seq(Range(<<>>))
    OBVIOUS
  <2> QED BY <1>2, <1>5, <1>7, <2>1, SingleLine
<1>11. Contents
  <2>1. \A p \in Procs : Decided(p)
    BY <1>1 DEF Decided
  <2> QED BY <1>1, <1>6, <1>9, <1>10, <2>1 DEF Contents, Sound
<1>12. Ledger!Init
  BY <1>1, <1>5, <1>9 DEF Ledger!Init
<1> QED BY <1>11, <1>12

LEMMA ContentsStep ==
  Discipline /\ Contents /\ [Next]_vars =>
    Contents' /\ [Ledger!Next]_(Ledger!vars)
<1> SUFFICES ASSUME Discipline, Contents, [Next]_vars
             PROVE  Contents' /\ [Ledger!Next]_(Ledger!vars)
  OBVIOUS
<1>1. ASSUME NEW p \in Procs,
             \/ Start(p) \/ AcquireLock(p) \/ TimeOut(p) \/ ReleaseLock(p)
             \/ Return(p) \/ Fail(p) \/ DieReleasing(p)
      PROVE  Contents' /\ UNCHANGED Ledger!vars
  BY <1>1, CallContents DEF Ledger!vars
<1>2. ASSUME NEW p \in Procs, Work(p)
      PROVE  Contents' /\ [Ledger!Next]_(Ledger!vars)
  <2>1. CASE ReadSnapshot(p)
    <3>1. Contents' /\ (Ledger!Look(p) \/ UNCHANGED Ledger!vars)
      BY <2>1, ReadSnapshotContents DEF Ledger!vars
    <3> QED BY <3>1 DEF Ledger!Next, Ledger!vars
  <2>2. CASE AppendLine(p)
    <3>1. LogOf(p) \in Ledger!Names
      BY DEF LogOf, Ledger!Names
    <3> QED BY <2>2, <3>1, AppendLineContents DEF Ledger!Next, Ledger!vars
  <2>3. CASE Commit(p)
    BY <2>3, CommitContents DEF Ledger!Next
  <2>4. CASE ~ReadSnapshot(p) /\ ~AppendLine(p) /\ ~Commit(p)
    BY <1>2, <2>4, SilentContents, ResolveContents, ResolveSingleContents,
       WriteJournalContents, RestoreLogContents, RollForwardLogContents,
       RemoveApplicationContents DEF Work, Ledger!vars
  <2> QED BY <2>1, <2>2, <2>3, <2>4
<1>3. CASE UNCHANGED vars \/ \E k \in Locks : ClearLock(k)
  <2>1. /\ pc' = pc /\ tx' = tx /\ seen' = seen /\ file' = file
        /\ application' = application /\ single' = single
    BY <1>3 DEF vars, ClearLock, local, disk
  <2>2. Committed' = Committed
    BY <2>1 DEF Committed, Target
  <2>3. Sound'
    BY <2>2, SoundSame DEF Contents
  <2>4. \A q \in Procs : Decided(q)'
    BY <2>1, DecidedUnmoved DEF Contents
  <2>5. \A l \in Journaled : (single[l] # None => OneLine(single[l]))'
    BY <2>1 DEF Contents, OneLine
  <2> QED BY <2>1, <2>2, <2>3, <2>4, <2>5 DEF Contents, Ledger!vars
<1> QED BY <1>1, <1>2, <1>3 DEF Next, Proceed

(* The logs hold whole sequences with a head of every position, and a call *)
(* writes only what it decided on from the logs it writes to (apply,       *)
(* append).                                                                *)
THEOREM ContentsHold == Spec => []Contents
BY ContentsInit, ContentsStep, DisciplineInit, DisciplineStep, PTL DEF Spec

(* The logs, their transactions and the recovery after any errors and      *)
(* crashes implement the ledger: a valuation enters all logs in one step   *)
(* and on the heads it was computed from, and readers see whole ones.      *)
THEOREM RepositoriesImplementLedger == Spec => ImplementsLedger
<1>1. Discipline /\ Contents /\ [Next]_vars => [Ledger!Next]_(Ledger!vars)
  BY ContentsStep
<1> QED BY <1>1, ContentsInit, ContentsHold, DisciplineHolds, PTL
        DEF Spec, ImplementsLedger, Ledger!Spec

-----------------------------------------------------------------------------
(* What is recorded once *)

NoneBy(s, r) == \A i \in DOMAIN s : s[i].by # r

LEMMA RecordOfFacts ==
  ASSUME NEW p \in Procs, Known(p)
  PROVE  RecordOf(p) \in Marks /\ RecordOf(p).asOf = AsOf[p]
<1> DEFINE M == MarkedAt(seen[p]["mark"], AsOf[p])
           s == seen[p]["position"]
<1>1. CASE M # {}
  <2>1. RecordOf(p) \in M
    BY <1>1 DEF RecordOf
  <2> QED BY <2>1 DEF MarkedAt, Known
<1>2. CASE M = {}
  <2>1. RecordOf(p) = [asOf |-> AsOf[p], heads |-> HeadsOf(s)]
    BY <1>2 DEF RecordOf
  <2>2. AsOf[p] \in Nat
    BY ValueAssumption
  <2>3. DOMAIN s \subseteq Nat
    BY DEF Known
  <2>4. HeadsOf(s) \in [Items -> Nat]
    BY <2>3, HeadOfIsHead DEF Known, HeadsOf
  <2> QED BY <2>1, <2>2, <2>4 DEF Marks
<1> QED BY <1>1, <1>2

(* A valuation that is committed has no event yet.                         *)
LEMMA FreshFacts ==
  ASSUME NEW r, Fresh(r), r \in Marks, Distinct(Committed),
         \A l \in Logs : Committed[l] = file[l].lines
  PROVE  /\ \A l \in Journaled : NoneBy(Committed[l], r)
         /\ r \notin Range(Committed["mark"]) =>
              \A m \in Range(Committed["mark"]) : m.asOf # r.asOf
<1>1. "mark" \in Logs /\ Journaled \subseteq Logs
  BY DEF Logs
<1>2. CASE r \in Range(Committed["mark"])
  <2>1. Persisted(r) = "none"
    BY <1>1, <1>2 DEF Fresh, Stored
  <2>2. \A l \in Journaled : EventsBy(l, r) = {}
    BY <2>1 DEF Persisted
  <2> QED BY <1>1, <1>2, <2>2 DEF EventsBy, NoneBy
<1>3. CASE r \notin Range(Committed["mark"])
  <2>1. MarkedAt(Committed["mark"], r.asOf) = {}
    BY <1>1, <1>3 DEF Fresh, Stored, Lines
  <2>2. \A l \in Journaled : \A e \in Range(Committed[l]) : e.by # r
    BY <1>3, RecordAssumption DEF Distinct
  <2> QED BY <2>1, <2>2 DEF MarkedAt, Range, NoneBy
<1> QED BY <1>2, <1>3

(* More lines in any log.                                                  *)
LEMMA EnteredKept ==
  ASSUME NEW p \in Procs, NEW c, NEW d, Entered(p, c),
         \A l \in Logs : Range(c[l]) \subseteq Range(d[l])
  PROVE  Entered(p, d)
<1>1. /\ "mark" \in Logs /\ "equity" \in Logs /\ "position" \in Logs
      /\ LogOf(p) \in Logs
  BY DEF Logs, Journaled, LogOf
<1> QED BY <1>1 DEF Entered, MarkedAt

LEMMA EnteredMoved ==
  ASSUME NEW p \in Procs, seen'[p] = seen[p], NEW c, Entered(p, c)
  PROVE  Entered(p, c)'
BY DEF Entered, Candidate, RecordOf, LogOf

(* One more line is none that was there.                                   *)
LEMMA RangeOfOneMore ==
  ASSUME NEW s, s \in Seq(Range(s)), NEW e
  PROVE  /\ Range(s \o <<e>>) = Range(s) \cup {e}
         /\ \A i \in DOMAIN (s \o <<e>>) :
              \/ i \in DOMAIN s /\ (s \o <<e>>)[i] = s[i]
              \/ i = Len(s) + 1 /\ (s \o <<e>>)[i] = e
<1> DEFINE t == s \o <<e>>
<1>1. /\ Len(s) \in Nat /\ DOMAIN s = 1 .. Len(s)
      /\ DOMAIN t = 1 .. (Len(s) + 1)
      /\ \A i \in 1 .. Len(s) : t[i] = s[i]
      /\ t[Len(s) + 1] = e
  BY SingleLine, Extension, OneMore
<1> HIDE DEF t
<1>2. \A i \in DOMAIN t : \/ i \in DOMAIN s /\ t[i] = s[i]
                          \/ i = Len(s) + 1 /\ t[i] = e
  BY <1>1
<1>3. Range(t) = Range(s) \cup {e}
  <2>1. \A i \in DOMAIN s : i \in DOMAIN t /\ t[i] = s[i]
    BY <1>1
  <2>2. Len(s) + 1 \in DOMAIN t
    BY <1>1
  <2> QED BY <1>1, <1>2, <2>1, <2>2 DEF Range
<1> QED BY <1>2, <1>3 DEF t

(* A mark, an event of its own.                                            *)
LEMMA MarkedOnceMore ==
  ASSUME NEW s, s \in Seq(Range(s)), MarkedOnce(s), NEW r,
         \A m \in Range(s) : m.asOf # r.asOf
  PROVE  MarkedOnce(s \o <<r>>)
<1> DEFINE t == s \o <<r>>
<1>1. \A i \in DOMAIN t : \/ i \in DOMAIN s /\ t[i] = s[i]
                          \/ i = Len(s) + 1 /\ t[i] = r
  BY RangeOfOneMore
<1>2. \A i \in DOMAIN s : s[i].asOf # r.asOf
  BY DEF Range
<1> HIDE DEF t
<1>3. MarkedOnce(t)
  BY <1>1, <1>2 DEF MarkedOnce
<1> QED BY <1>3 DEF t

LEMMA ValuedOnceMore ==
  ASSUME NEW s, s \in Seq(Range(s)), ValuedOnce(s), NEW e, e.prev = Len(s),
         e.by \in Marks => NoneBy(s, e.by)
  PROVE  ValuedOnce(s \o <<e>>)
<1> DEFINE t == s \o <<e>>
<1>1. \A i \in DOMAIN t : \/ i \in DOMAIN s /\ t[i] = s[i]
                          \/ i = Len(s) + 1 /\ t[i] = e
  BY RangeOfOneMore
<1>2. Len(s) \in Nat
  BY SeqOverRange
<1> HIDE DEF t
<1>3. \A i \in DOMAIN t : t[i].prev = i - 1
  BY <1>1, <1>2 DEF ValuedOnce
<1>4. \A i, j \in DOMAIN t : t[i].by = t[j].by /\ t[i].by \in Marks => i = j
  BY <1>1 DEF ValuedOnce, NoneBy
<1> QED BY <1>3, <1>4 DEF ValuedOnce, t

LEMMA ChangedOnceMore ==
  ASSUME NEW s, s \in Seq(Range(s)), ChangedOnce(s), NEW e,
         \A i \in DOMAIN s : s[i].item = e.item => s[i].by # e.by
  PROVE  ChangedOnce(s \o <<e>>)
<1> DEFINE t == s \o <<e>>
<1>1. \A i \in DOMAIN t : \/ i \in DOMAIN s /\ t[i] = s[i]
                          \/ i = Len(s) + 1 /\ t[i] = e
  BY RangeOfOneMore
<1> HIDE DEF t
<1>2. ChangedOnce(t)
  BY <1>1 DEF ChangedOnce
<1> QED BY <1>2 DEF t

(* The events of a valuation, all of them new.                             *)
LEMMA AllChangedOnce ==
  ASSUME NEW s, s \in Seq(Range(s)), ChangedOnce(s), NEW r, NoneBy(s, r)
  PROVE  /\ Range(s \o PositionEvents(r)) =
              Range(s) \cup {PositionEvent(r, x) : x \in Items}
         /\ ChangedOnce(s \o PositionEvents(r))
<1> DEFINE n == Cardinality(Items)
           ps == PositionEvents(r)
           t == s \o ps
<1>1. /\ ps \in Seq(Range(ps)) /\ Len(ps) = n /\ n \in Nat
      /\ \A i \in 1 .. n : ps[i] = PositionEvent(r, ItemOrder[i])
      /\ \A i \in 1 .. n : ItemOrder[i] \in Items
      /\ \A x \in Items : \E i \in 1 .. n : ItemOrder[i] = x
      /\ \A i, j \in 1 .. n : ItemOrder[i] = ItemOrder[j] => i = j
  BY PositionEventsFacts, ItemOrderFacts
<1> HIDE DEF ps
<1>a. ps \in Seq(Range(ps))
  BY <1>1
<1>2. /\ Len(s) \in Nat /\ DOMAIN s = 1 .. Len(s)
      /\ DOMAIN t = 1 .. (Len(s) + Len(ps))
      /\ \A i \in 1 .. Len(s) : t[i] = s[i]
      /\ \A i \in 1 .. Len(ps) : t[Len(s) + i] = ps[i]
      /\ \A i \in 1 .. (Len(s) + Len(ps)) :
           i \in 1 .. Len(s) \/ \E j \in 1 .. Len(ps) : i = Len(s) + j
  BY <1>a, Extension
<1> HIDE DEF n, t
<1>3. /\ DOMAIN t = 1 .. (Len(s) + n)
      /\ \A i \in 1 .. n : t[Len(s) + i] = ps[i]
      /\ \A i \in 1 .. (Len(s) + n) :
           i \in 1 .. Len(s) \/ \E j \in 1 .. n : i = Len(s) + j
  BY <1>1, <1>2
<1>4. \A i \in DOMAIN t :
        \/ i \in DOMAIN s /\ t[i] = s[i]
        \/ \E j \in 1 .. n : i = Len(s) + j /\ t[i] = PositionEvent(r, ItemOrder[j])
  <2> TAKE i \in DOMAIN t
  <2>1. CASE i \in 1 .. Len(s)
    BY <1>2, <2>1
  <2>2. CASE i \notin 1 .. Len(s)
    <3>1. PICK j \in 1 .. n : i = Len(s) + j
      BY <1>3, <2>2
    <3>2. t[i] = PositionEvent(r, ItemOrder[j])
      BY <1>1, <1>3, <3>1
    <3> QED BY <3>1, <3>2
  <2> QED BY <2>1, <2>2
<1>5. \A x : PositionEvent(r, x).by = r /\ PositionEvent(r, x).item = x
  BY DEF PositionEvent
<1>6. Range(t) = Range(s) \cup {PositionEvent(r, x) : x \in Items}
  <2>1. \A i \in DOMAIN s : i \in DOMAIN t /\ t[i] = s[i]
    BY <1>1, <1>2, <1>3
  <2>2. \A x \in Items : \E i \in DOMAIN t : t[i] = PositionEvent(r, x)
    <3> TAKE x \in Items
    <3>1. PICK j \in 1 .. n : ItemOrder[j] = x
      BY <1>1
    <3>2. Len(s) + j \in DOMAIN t
      BY <1>1, <1>2, <1>3
    <3>3. t[Len(s) + j] = PositionEvent(r, x)
      BY <1>1, <1>3, <3>1
    <3> QED BY <3>2, <3>3
  <2>3. Range(t) \subseteq Range(s) \cup {PositionEvent(r, x) : x \in Items}
    BY <1>1, <1>4 DEF Range
  <2>4. Range(s) \subseteq Range(t)
    BY <2>1 DEF Range
  <2>5. {PositionEvent(r, x) : x \in Items} \subseteq Range(t)
    BY <2>2 DEF Range
  <2> QED BY <2>3, <2>4, <2>5
<1>7. ChangedOnce(t)
  <2> SUFFICES ASSUME NEW i \in DOMAIN t, NEW j \in DOMAIN t,
                      t[i].by = t[j].by, t[i].item = t[j].item
               PROVE  i = j
    BY DEF ChangedOnce
  <2>1. CASE i \in DOMAIN s /\ t[i] = s[i] /\ j \in DOMAIN s /\ t[j] = s[j]
    BY <2>1 DEF ChangedOnce
  <2>2. ASSUME NEW k \in DOMAIN t, k \in DOMAIN s, t[k] = s[k]
        PROVE  t[k].by # r
    BY <2>2 DEF NoneBy
  <2>3. ASSUME NEW k \in 1 .. n, t[i] = PositionEvent(r, ItemOrder[k]),
               NEW m \in 1 .. n, t[j] = PositionEvent(r, ItemOrder[m])
        PROVE  k = m
    BY <1>1, <1>5, <2>3
  <2>4. \A k \in 1 .. n : PositionEvent(r, ItemOrder[k]).by = r
    BY <1>5
  <2> QED BY <1>4, <2>1, <2>2, <2>3, <2>4
<1> QED BY <1>6, <1>7 DEF t, ps

-----------------------------------------------------------------------------
(* What success tells *)

Step(p) ==
  \/ Start(p) \/ AcquireLock(p) \/ TimeOut(p) \/ ReleaseLock(p)
  \/ Return(p) \/ Fail(p) \/ DieReleasing(p) \/ Work(p)

LEMMA Outcomes ==
  ASSUME NEW p \in Procs, Records, Step(p)
  PROVE  /\ outcome' \in [Procs -> {"none", "decided", "ok", "failed"}]
         /\ \A q \in Procs \ {p} : outcome'[q] = outcome[q]
<1>1. outcome' = outcome \/ \E o \in {"none", "decided", "ok", "failed"} :
                              End(p, o)
  <2> USE DEF Leave, Throw, Break, Die, Advance, local
  <2>1. CASE Start(p) \/ AcquireLock(p) \/ TimeOut(p)
    BY <2>1 DEF Start, AcquireLock, TimeOut
  <2>2. CASE ReleaseLock(p) \/ Return(p) \/ Fail(p) \/ DieReleasing(p)
    BY <2>2 DEF ReleaseLock, Return, Fail, DieReleasing
  <2>3. CASE Enter(p) \/ RestoreLog(p) \/ RestoreDoc(p) \/ RestoreRemove(p)
    BY <2>3 DEF Enter, EnterAggregate, EnterSingle, RestoreLog, RestoreDoc,
                RestoreRemove
  <2>4. CASE ReadSnapshot(p) \/ Resolve(p) \/ ResolveSingle(p)
    BY <2>4 DEF ReadSnapshot, Resolve, ResolveSingle
  <2>5. CASE WriteJournal(p) \/ AppendLine(p) \/ Project(p) \/ RemoveJournal(p)
    BY <2>5 DEF WriteJournal, AppendLine, AppendTo, Project, RemoveJournal
  <2>6. CASE \/ Commit(p) \/ Validate(p) \/ RollForwardLog(p)
             \/ RollForwardDoc(p) \/ RemoveApplication(p)
    BY <2>6 DEF Commit, Validate, RollForwardLog, AppendTo, RollForwardDoc,
                RemoveApplication
  <2> QED BY <2>1, <2>2, <2>3, <2>4, <2>5, <2>6 DEF Step, Work
<1> QED BY <1>1 DEF End, Records

LEMMA FailedTold ==
  ASSUME NEW p \in Procs, Records, LockShapes, Throw(p) \/ Break(p)
  PROVE  Told(p)'
BY DEF Told, Records, LockShapes, Throw, Break, Leave, Die, Goto, End

(* What p is told stays true when p goes on.                               *)
LEMMA ToldKept ==
  ASSUME NEW p \in Procs, Told(p), outcome'[p] = outcome[p],
         goal'[p] = goal[p], seen'[p] = seen[p],
         outcome[p] = "decided" => pc'[p] \in AggregateStates,
         outcome[p] = "ok" =>
           /\ pc[p] # "commit"
           /\ pc'[p] = "unlocking" \/ (pc'[p] = "done" /\ goal[p] = "write"),
         pc'[p] \in {"project", "remove"} => tx'[p].added = <<Candidate(p)>>,
         outcome[p] = "decided" /\ pc'[p] # "commit" =>
           pc[p] # "commit" \/ Entered(p, Committed'),
         \A l \in Logs : Range(Committed[l]) \subseteq Range(Committed'[l])
  PROVE  Told(p)'
<1>1. Candidate(p)' = Candidate(p)
  BY DEF Candidate, RecordOf, LogOf
<1>2. ASSUME \/ outcome'[p] = "ok" /\ goal'[p] = "write"
             \/ outcome'[p] = "decided" /\ pc'[p] # "commit"
      PROVE  Entered(p, Committed)'
  <2>1. Entered(p, Committed')
    BY <1>2, EnteredKept DEF Told
  <2> QED BY <2>1 DEF Entered, Candidate, RecordOf, LogOf
<1> QED BY <1>1, <1>2 DEF Told

(* The records stay what they are.                                         *)
LEMMA RecordsKept ==
  ASSUME NEW p \in Procs, Records, Step(p), OnlyMoves(p), seen' = seen,
         Distinct(Committed'),
         \A l \in Logs : Range(Committed[l]) \subseteq Range(Committed'[l]),
         Told(p)'
  PROVE  Records'
<1>1. ASSUME NEW q \in Procs PROVE Known(q)'
  BY DEF Records, Known, HasHeads
<1>2. ASSUME NEW q \in Procs \ {p} PROVE Told(q)'
  <2>1. Told(q) /\ outcome'[q] = outcome[q]
    BY Outcomes DEF Records
  <2>2. pc'[q] = pc[q] /\ goal'[q] = goal[q] /\ tx'[q] = tx[q]
    BY DEF OnlyMoves
  <2>3. outcome[q] = "ok" => pc[q] # "commit"
    BY <2>1 DEF Told
  <2> QED BY <2>1, <2>2, <2>3, ToldKept DEF Told
<1>3. Distinct(Committed)'
  BY DEF Distinct
<1> QED BY <1>1, <1>2, <1>3, Outcomes DEF Records

LEMMA RecordsUnmoved ==
  ASSUME NEW p \in Procs, Records, Step(p), OnlyMoves(p), seen' = seen,
         Committed' = Committed, Told(p)'
  PROVE  Records'
BY RecordsKept DEF Records

(* A call begins and ends.                                                 *)
LEMMA CallTold ==
  ASSUME NEW p \in Procs, Discipline, Records, Committed' = Committed,
         \/ Start(p) \/ AcquireLock(p) \/ TimeOut(p) \/ ReleaseLock(p)
         \/ Return(p) \/ Fail(p) \/ DieReleasing(p)
  PROVE  Told(p)'
<1> USE DEF Discipline, Locking, LockShapes
<1>0. Told(p)
  BY DEF Records
<1>1. CASE Start(p)
  BY <1>1 DEF Start, Goto, End, Told, Records
<1>2. CASE AcquireLock(p)
  <2>1. /\ outcome' = outcome /\ goal' = goal /\ seen' = seen
        /\ pc[p] = "locking" /\ pc'[p] \in {"enter", "locking"}
    BY <1>2 DEF AcquireLock, Goto, local
  <2>2. outcome[p] \notin {"ok", "decided"}
    BY <1>0, <2>1, StatesApart DEF Told, AggregateStates, RollStates, RollNext
  <2> QED BY <2>1, <2>2 DEF Told
<1>3. CASE TimeOut(p) \/ Fail(p)
  BY <1>3, FailedTold DEF TimeOut, Fail
<1>4. CASE ReleaseLock(p)
  <2>1. /\ goal' = goal /\ seen' = seen /\ pc' = pc /\ pc[p] = "unlocking"
        /\ outcome' = outcome \/ outcome'[p] = "failed"
    BY <1>4 DEF ReleaseLock, End, Records
  <2>2. CASE outcome' = outcome
    BY <1>0, <2>1, <2>2, ToldKept DEF Told
  <2>3. CASE outcome'[p] = "failed"
    BY <2>1, <2>3 DEF Told
  <2> QED BY <2>1, <2>2, <2>3
<1>5. CASE Return(p)
  <2>1. pc[p] = "unlocking" /\ seen' = seen
    BY <1>5 DEF Return
  <2>2. CASE outcome[p] = "ok" /\ goal[p] # "write"
    BY <1>5, <2>2 DEF Return, Goto, End, Told, Records
  <2>3. CASE ~(outcome[p] = "ok" /\ goal[p] # "write")
    <3>1. pc'[p] = "done" /\ goal' = goal /\ outcome' = outcome
      BY <1>5, <2>3 DEF Return, Goto
    <3>2. outcome[p] # "decided"
      BY <1>0, <2>1 DEF Told, AggregateStates, RollStates, RollNext
    <3> QED BY <1>0, <2>1, <2>3, <3>1, <3>2, ToldKept
  <2> QED BY <2>2, <2>3
<1>6. CASE DieReleasing(p)
  BY <1>6 DEF DieReleasing, Die, Goto, End, Told, Records
<1> QED BY <1>1, <1>2, <1>3, <1>4, <1>5, <1>6

(* Before it has decided, a call has nothing to tell.                      *)
LEMMA NothingTold ==
  ASSUME NEW p \in Procs, Told(p), pc[p] \in Inside,
         pc[p] \notin AggregateStates
  PROVE  outcome[p] \notin {"ok", "decided"}
BY StatesApart DEF Told

(* Recovery and every write that is not the last.                          *)
LEMMA GoOnTold ==
  ASSUME NEW p \in Procs, Discipline, Records, Committed' = Committed,
         \/ Enter(p) \/ RestoreLog(p) \/ RestoreDoc(p) \/ RestoreRemove(p)
         \/ WriteJournal(p) \/ Project(p) \/ Validate(p) \/ RollForwardLog(p)
         \/ RollForwardDoc(p)
  PROVE  Told(p)'
<1> USE DEF Discipline, Locking, LockShapes
<1>1. Told(p) /\ pc[p] \in PcStates
  BY DEF Records
<1>2. CASE Throw(p) \/ Break(p)
  BY <1>2, FailedTold
<1>3. CASE ~Throw(p) /\ ~Break(p) /\
           (Enter(p) \/ RestoreRemove(p))
  <2>1. /\ outcome' = outcome /\ goal' = goal /\ seen' = seen
        /\ pc[p] \in {"enter", "restoreRemove"}
        /\ pc'[p] \in {"read", "validate", "restoreLog"}
    BY <1>3 DEF Enter, EnterAggregate, EnterSingle, RestoreRemove, Goto, local
  <2>2. outcome[p] \notin {"ok", "decided"}
    BY <1>1, <2>1, NothingTold
    DEF Inside, RestoreStates, AggregateStates, RollStates, RollNext
  <2> QED BY <2>1, <2>2 DEF Told
<1>4. CASE ~Throw(p) /\ ~Break(p) /\
           (RestoreLog(p) \/ RestoreDoc(p) \/ WriteJournal(p))
  <2>1. /\ outcome' = outcome /\ goal' = goal /\ seen' = seen
        /\ pc[p] \in {"restoreLog", "restoreDoc", "journal"}
        /\ pc'[p] \in {"restoreDoc", "restoreRemove", "append"}
    BY <1>4 DEF RestoreLog, RestoreDoc, WriteJournal, Advance, Goto, local
  <2>2. outcome[p] \notin {"ok", "decided"}
    BY <1>1, <2>1, NothingTold
    DEF Inside, RestoreStates, AppendStates, AggregateStates, RollStates,
        RollNext
  <2> QED BY <2>1, <2>2 DEF Told
<1>5. CASE ~Throw(p) /\ ~Break(p) /\ Project(p)
  <2>1. /\ outcome' = outcome /\ goal' = goal /\ seen' = seen /\ tx' = tx
        /\ pc[p] = "project" /\ pc'[p] = "remove"
    BY <1>5 DEF Project, Advance, Goto, local
  <2>2. outcome[p] \notin {"ok", "decided"}
    BY <1>1, <2>1, NothingTold
    DEF Inside, AppendStates, AggregateStates, RollStates, RollNext
  <2> QED BY <1>1, <2>1, <2>2, ToldKept DEF Told
<1>6. CASE ~Throw(p) /\ ~Break(p) /\
           (Validate(p) \/ RollForwardLog(p) \/ RollForwardDoc(p))
  <2>1. /\ outcome' = outcome /\ goal' = goal /\ seen' = seen
        /\ pc[p] \in {"validate"} \cup DOMAIN RollNext /\ pc'[p] \in RollStates
    <3>1. CASE Validate(p)
      BY <1>6, <3>1 DEF Validate, Goto, local, RollStates, RollNext
    <3>2. CASE RollForwardLog(p) \/ RollForwardDoc(p)
      <4>1. pc[p] \in DOMAIN RollNext /\ Advance(p, RollNext[pc[p]])
        BY <1>6, <3>2, RollNextFacts
        DEF RollForwardLog, RollForwardDoc, AppendTo
      <4> QED BY <4>1, RollNextFacts DEF Advance, Goto, local
    <3> QED BY <1>6, <3>1, <3>2
  <2>2. /\ pc[p] # "commit" /\ pc[p] \in Inside
        /\ pc'[p] \in AggregateStates \ {"commit"}
        /\ pc'[p] \notin {"project", "remove"}
    BY <2>1 DEF RollStates, RollNext, AggregateStates, Inside
  <2>3. outcome[p] # "ok"
    BY <1>1, <2>2, StatesApart DEF Told
  <2> QED BY <1>1, <2>1, <2>2, <2>3, ToldKept
<1> QED BY <1>2, <1>3, <1>4, <1>5, <1>6

(* A reader sees marks that are committed, and has written nothing.        *)
LEMMA ReadSnapshotRecords ==
  ASSUME NEW p \in Procs, Discipline, Contents, Records, ReadSnapshot(p)
  PROVE  Records'
<1>1. /\ OnlyMoves(p) /\ Committed' = Committed
      /\ Ledger!Look(p) \/ seen' = seen
  BY ReadSnapshotContents, WorkFootprint DEF Work, Discipline, Locking
<1>2. Step(p)
  BY DEF Step, Work
<1>3. Told(p)'
  BY FailedTold
  DEF ReadSnapshot, Leave, Goto, End, Told, Records, Discipline, Locking,
      LockShapes
<1>4. CASE seen' = seen
  BY <1>1, <1>2, <1>3, <1>4, RecordsUnmoved
<1>5. CASE Ledger!Look(p)
  <2>1. PICK look \in SUBSET Ledger!Names :
          seen' = [seen EXCEPT ![p] = [l \in Ledger!Names |->
                     IF l \in look THEN Committed[l] ELSE @[l]]]
    BY <1>5 DEF Ledger!Look
  <2>2. {"mark", "position"} \subseteq Ledger!Names
    BY DEF Ledger!Names
  <2>3. /\ seen'[p]["mark"] \in {Committed["mark"], seen[p]["mark"]}
        /\ seen'[p]["position"] \in {Committed["position"], seen[p]["position"]}
        /\ \A q \in Procs \ {p} : seen'[q] = seen[q]
    BY <2>1, <2>2 DEF Contents
  <2>4. /\ Range(Committed["mark"]) \subseteq Marks
        /\ Committed["position"] \in Seq(Range(Committed["position"]))
        /\ HasHeads(Committed["position"])
    BY DEF Records, Distinct, Contents, Sound, Logs, Journaled
  <2>5. Known(p)'
    <3>1. /\ Range(seen'[p]["mark"]) \subseteq Marks
          /\ seen'[p]["position"] \in Seq(Range(seen'[p]["position"]))
      BY <2>3, <2>4 DEF Records, Known
    <3>2. HasHeads(seen'[p]["position"])
      <4>1. HasHeads(seen[p]["position"])
        BY DEF Records, Known
      <4> QED BY <2>3, <2>4, <4>1
    <3>3. HasHeads(seen[p]["position"])'
      BY <3>2 DEF HasHeads
    <3> QED BY <3>1, <3>3 DEF Known
  <2>6. ASSUME NEW q \in Procs \ {p} PROVE Known(q)' /\ Told(q)'
    <3>1. seen'[q] = seen[q] /\ Told(q) /\ Known(q)
          /\ outcome'[q] = outcome[q]
      BY <1>2, <2>3, Outcomes DEF Records
    <3>2. pc'[q] = pc[q] /\ goal'[q] = goal[q] /\ tx'[q] = tx[q]
      BY <1>1 DEF OnlyMoves
    <3>3. outcome[q] = "ok" => pc[q] # "commit"
      BY <3>1 DEF Told
    <3>4. Told(q)'
      BY <1>1, <3>1, <3>2, <3>3, ToldKept DEF Told
    <3> QED BY <3>1, <3>4 DEF Known, HasHeads
  <2>7. Distinct(Committed)'
    BY <1>1 DEF Records, Distinct
  <2> QED BY <1>2, <1>3, <2>5, <2>6, <2>7, Outcomes DEF Records
<1> QED BY <1>1, <1>4, <1>5

(* What is already committed is acknowledged.                              *)
LEMMA ResolveTold ==
  ASSUME NEW p \in Procs, Discipline, Records, Resolve(p)
  PROVE  Told(p)'
<1> DEFINE r == RecordOf(p)
<1>1. /\ pc[p] = "read" /\ goal[p] = "write" /\ Aggregate(p)
      /\ UNCHANGED disk /\ p \in Runs
  BY DEF Resolve, Aggregate
<1>2. application = None /\ Committed = Lines /\ Committed' = Committed
  <2>1. application = None
    BY <1>1 DEF Discipline, AggregateStage
  <2> QED BY <1>1, <2>1 DEF Committed, Lines, disk
<1>3. CASE Throw(p)
  BY <1>3, FailedTold DEF Discipline, Locking
<1>4. CASE ~Throw(p) /\ ~(Stored(r) /\ Persisted(r) = "complete")
  <2>1. End(p, "decided") /\ Goto(p, "commit")
    BY <1>4 DEF Resolve
  <2> QED BY <2>1 DEF Discipline, Locking, LockShapes, Records, Told, End,
               Goto, AggregateStates
<1>5. CASE ~Throw(p) /\ Stored(r) /\ Persisted(r) = "complete"
  <2>1. Leave(p, "ok") /\ seen' = seen
    BY <1>5 DEF Resolve
  <2>2. /\ outcome'[p] = "ok" /\ pc'[p] = "unlocking"
    BY <2>1 DEF Leave, End, Goto, Records, Discipline, Locking, LockShapes
  <2>3. r \in MarkedAt(Committed["mark"], AsOf[p])
    <3>1. r \in Range(Committed["mark"])
      BY <1>2, <1>5 DEF Stored, Lines, Logs
    <3> QED BY <3>1, RecordOfFacts DEF MarkedAt, Records
  <2>4. /\ Cardinality(EventsBy("equity", r)) = 1
        /\ {file["position"].lines[i].item : i \in EventsBy("position", r)}
              = Items
    BY <1>5 DEF Persisted
  <2>5. EventsBy("equity", r) # {}
    <3>1. \A S : Cardinality(S) = 1 => S # {}
      <4>1. Cardinality({}) # 1
        BY FS_EmptySet
      <4> QED BY <4>1, Zenon
    <3> QED BY <2>4, <3>1
  <2>6. \E e \in Range(Committed["equity"]) : e.by = r
    <3>1. Committed["equity"] = file["equity"].lines
      BY <1>2 DEF Lines, Logs, Journaled
    <3>2. PICK i \in DOMAIN file["equity"].lines :
            file["equity"].lines[i].by = r
      BY <2>5 DEF EventsBy
    <3> QED BY <3>1, <3>2 DEF Range
  <2>7. ASSUME NEW x \in Items
        PROVE  \E e \in Range(Committed["position"]) : e.by = r /\ e.item = x
    <3>1. PICK i \in EventsBy("position", r) :
            file["position"].lines[i].item = x
      BY <2>4
    <3>2. Committed["position"] = file["position"].lines
      BY <1>2 DEF Lines, Logs, Journaled
    <3> QED BY <3>1, <3>2 DEF EventsBy, Range
  <2>8. Entered(p, Committed)
    BY <1>1, <2>3, <2>6, <2>7 DEF Entered
  <2>9. Entered(p, Committed)'
    BY <1>1, <1>2, <2>8 DEF Entered
  <2> QED BY <2>2, <2>9 DEF Told
<1> QED BY <1>3, <1>4, <1>5

LEMMA ResolveSingleTold ==
  ASSUME NEW p \in Procs, Discipline, Records, ResolveSingle(p)
  PROVE  Told(p)'
<1> DEFINE l == LogOf(p)
           e == Candidate(p)
<1>1. /\ pc[p] = "read" /\ goal[p] = "write" /\ ~Aggregate(p)
      /\ UNCHANGED disk /\ p \notin Runs
  BY DEF ResolveSingle, Aggregate
<1>2. Committed = Lines /\ Committed' = Committed
  <2>1. application = None
    BY <1>1 DEF Discipline, SingleStage
  <2> QED BY <1>1, <2>1 DEF Committed, Lines, disk
<1>3. CASE Throw(p)
  BY <1>3, FailedTold DEF Discipline, Locking
<1>4. CASE ~Throw(p) /\ e \notin Range(Lines[l])
  <2>1. /\ Goto(p, IF l = "mark" THEN "append" ELSE "journal")
        /\ outcome' = outcome
    BY <1>4 DEF ResolveSingle, local
  <2>2. pc'[p] \in {"append", "journal"}
    BY <2>1 DEF Goto, Discipline, Locking, LockShapes
  <2>3. outcome[p] \notin {"ok", "decided"}
    BY <1>1, NothingTold
    DEF Inside, AggregateStates, RollStates, RollNext, Records
  <2> QED BY <2>1, <2>2, <2>3 DEF Told
<1>5. CASE ~Throw(p) /\ e \in Range(Lines[l])
  <2>1. Leave(p, "ok") /\ seen' = seen
    BY <1>5 DEF ResolveSingle
  <2>2. /\ outcome'[p] = "ok" /\ pc'[p] = "unlocking"
    BY <2>1 DEF Leave, End, Goto, Records, Discipline, Locking, LockShapes
  <2>3. Entered(p, Committed)
    BY <1>1, <1>2, <1>5 DEF Entered
  <2>4. Entered(p, Committed)'
    BY <1>2, <2>1, <2>3, EnteredMoved DEF Entered, Candidate, RecordOf, LogOf
  <2> QED BY <2>2, <2>4 DEF Told
<1> QED BY <1>3, <1>4, <1>5

-----------------------------------------------------------------------------
(* What is committed *)

(* The line of a single log is told of when it is there.                   *)
LEMMA AppendLineRecords ==
  ASSUME NEW p \in Procs, Discipline, Contents, Records, AppendLine(p)
  PROVE  Records'
<1> DEFINE l == LogOf(p)
           e == Candidate(p)
           c == Committed
           d == Committed'
<1>1. /\ l \in Logs /\ pc[p] = "append" /\ pc[p] \in Inside
      /\ ~Aggregate(p) /\ goal[p] # "evidence"
      /\ OnlyMoves(p) /\ seen' = seen
      /\ tx[p].added = <<e>> /\ Accepts(l, c[l], e)
      /\ \A k \in Logs \ {l} : d[k] = c[k]
      /\ (d = c /\ Break(p)) \/ d[l] = c[l] \o <<e>>
  BY AppendLineCommits
<1>2. Step(p)
  BY DEF Step, Work
<1>3. CASE Break(p) /\ d = c
  <2>1. Told(p)'
    BY <1>3, FailedTold DEF Discipline, Locking
  <2> QED BY <1>1, <1>2, <1>3, <2>1, RecordsUnmoved
<1>4. CASE d[l] = c[l] \o <<e>>
  <2>1. /\ \A k \in Logs : c[k] \in Seq(Range(c[k]))
        /\ Distinct(c) /\ Known(p) /\ Told(p)
    BY DEF Contents, Sound, Records
  <2>2. {"mark", "equity", "position"} = Logs
    BY DEF Logs, Journaled
  <2>3. p \notin Marks
    BY RecordAssumption
  <2> HIDE DEF c, d
  <2>4. /\ Range(d[l]) = Range(c[l]) \cup {e}
        /\ \A k \in Logs : Range(c[k]) \subseteq Range(d[k])
    <3>1. PICK s : s = c[l]
      OBVIOUS
    <3> HIDE DEF l, e
    <3>2. s \in Seq(Range(s)) /\ Range(s \o <<e>>) = Range(s) \cup {e}
      BY <1>1, <2>1, <3>1, RangeOfOneMore
    <3>3. Range(d[l]) = Range(c[l]) \cup {e}
      BY <1>4, <3>1, <3>2
    <3> QED BY <1>1, <3>3
  <2>5. Distinct(d)
    <3>1. PICK s : s = c[l]
      OBVIOUS
    <3>2. s \in Seq(Range(s)) /\ d[l] = s \o <<e>>
      BY <1>1, <1>4, <2>1, <3>1
    <3>3. CASE l = "mark"
      <4>1. e \in Marks /\ e = RecordOf(p)
        BY <2>1, <3>3, RecordOfFacts DEF Candidate
      <4>2. MarkedOnce(s) /\ \A m \in Range(s) : m.asOf # e.asOf
        BY <1>1, <2>1, <3>1, <3>3 DEF Accepts, MarkedAt, Distinct
      <4>3. d["equity"] = c["equity"] /\ d["position"] = c["position"]
        BY <1>1, <2>2, <3>3
      <4> HIDE DEF e, l
      <4>4. MarkedOnce(d["mark"])
        BY <3>2, <3>3, <4>2, MarkedOnceMore
      <4>5. Range(d["mark"]) = Range(c["mark"]) \cup {e}
        BY <2>4, <3>3
      <4> QED BY <2>1, <4>1, <4>3, <4>4, <4>5 DEF Distinct, Journaled
    <3>4. CASE l = "equity"
      <4>1. ValuedOnce(s) /\ e.by = p /\ e.prev = Len(s)
        BY <1>1, <2>1, <3>1, <3>4
        DEF Accepts, EquityFollows, Candidate, Distinct
      <4>2. d["mark"] = c["mark"] /\ d["position"] = c["position"]
        BY <1>1, <2>2, <3>4
      <4> HIDE DEF e, l
      <4>3. ValuedOnce(d["equity"])
        BY <2>3, <3>2, <3>4, <4>1, ValuedOnceMore
      <4>4. Range(d["equity"]) = Range(c["equity"]) \cup {e}
        BY <2>4, <3>4
      <4> QED BY <2>1, <4>1, <4>2, <4>3, <4>4 DEF Distinct, Journaled
    <3>5. CASE l = "position"
      <4>1. ChangedOnce(s) /\ PositionFollows(s, e) /\ e.by = p
        BY <1>1, <2>1, <3>1, <3>5 DEF Accepts, Candidate, Distinct
      <4>2. d["mark"] = c["mark"] /\ d["equity"] = c["equity"]
        BY <1>1, <2>2, <3>5
      <4> HIDE DEF e, l
      <4>3. \A i \in DOMAIN s : s[i].item = e.item => s[i].by # e.by
        BY <4>1 DEF PositionFollows
      <4>4. ChangedOnce(d["position"])
        BY <3>2, <3>5, <4>1, <4>3, ChangedOnceMore
      <4>5. Range(d["position"]) = Range(c["position"]) \cup {e}
        BY <2>4, <3>5
      <4> QED BY <2>1, <4>1, <4>2, <4>4, <4>5 DEF Distinct, Journaled
    <3> QED BY <1>1, <2>2, <3>3, <3>4, <3>5
  <2>6. CASE Break(p)
    <3>1. Told(p)'
      BY <2>6, FailedTold DEF Discipline, Locking
    <3> QED BY <1>1, <1>2, <2>4, <2>5, <3>1, RecordsKept DEF c, d
  <2>7. CASE ~Break(p)
    <3>1. p \notin Runs
      BY <1>1 DEF Aggregate
    <3>2. Entered(p, d)
      BY <2>4, <3>1 DEF Entered
    <3>3. e' = e
      BY <1>1 DEF Candidate, RecordOf, LogOf
    <3>4. Entered(p, Committed)'
      BY <3>2, <3>3 DEF Entered, d, Candidate, LogOf
    <3>5. CASE l = "mark"
      <4>1. Leave(p, "ok")
        BY <2>7, <3>5 DEF AppendLine, AppendTo
      <4>2. pc'[p] = "unlocking" /\ outcome'[p] = "ok"
        BY <4>1 DEF Leave, Goto, End, Records, Discipline, Locking, LockShapes
      <4>3. Told(p)'
        BY <3>4, <4>2 DEF Told
      <4> QED BY <1>1, <1>2, <2>4, <2>5, <4>3, RecordsKept DEF c, d
    <3>6. CASE l # "mark"
      <4>1. Advance(p, "project")
        BY <2>7, <3>6 DEF AppendLine, AppendTo
      <4>2. /\ pc'[p] = "project" /\ outcome' = outcome /\ tx' = tx
        BY <4>1 DEF Advance, Goto, local, Discipline, Locking, LockShapes
      <4>3. outcome[p] \notin {"ok", "decided"}
        BY <1>1, <2>1, NothingTold DEF AggregateStates, RollStates, RollNext
      <4>4. Told(p)'
        BY <1>1, <3>3, <4>2, <4>3 DEF Told
      <4> QED BY <1>1, <1>2, <2>4, <2>5, <4>4, RecordsKept DEF c, d
    <3> QED BY <3>5, <3>6
  <2> QED BY <2>6, <2>7
<1> QED BY <1>1, <1>3, <1>4

LEMMA RemoveJournalTold ==
  ASSUME NEW p \in Procs, Discipline, Contents, Records, RemoveJournal(p)
  PROVE  Told(p)'
<1> DEFINE l == LogOf(p)
           t == tx[p]
           e == Candidate(p)
<1>1. /\ pc[p] = "remove" /\ pc[p] \in SingleStates /\ file' = file
      /\ application' = application
  BY DEF RemoveJournal, SingleStates, AppendStates
<1>2. CASE Break(p)
  BY <1>2, FailedTold DEF Discipline, Locking
<1>3. CASE ~Break(p)
  <2>1. Leave(p, "ok") /\ seen' = seen
    BY <1>3 DEF RemoveJournal
  <2>2. pc'[p] = "unlocking" /\ outcome'[p] = "ok"
    BY <2>1 DEF Leave, Goto, End, Records, Discipline, Locking, LockShapes
  <2>3. /\ ~Aggregate(p) /\ goal[p] # "evidence" /\ l \in Logs
        /\ l \in Journaled /\ Committed = Lines /\ application = None
        /\ t # None
    BY <1>1, SingleFacts, LinesOfSingle
  <2>4. file[l] = Whole(t.prev \o t.added) /\ single[l] = t
        /\ t.added = <<e>>
    BY <1>1, <2>3 DEF Discipline, SingleStage, Records, Told
  <2>5. t.prev \in Seq(Range(t.prev))
    BY <2>3, <2>4 DEF Contents, OneLine
  <2>6. Committed[l] = t.prev \o <<e>>
    BY <2>3, <2>4, WholeFacts DEF Lines
  <2>7. e \in Range(Committed[l])
    <3> HIDE DEF e, l, t
    <3> QED BY <2>5, <2>6, RangeOfOneMore
  <2>8. p \notin Runs
    BY <2>3 DEF Aggregate
  <2>9. Entered(p, Committed)
    BY <2>7, <2>8 DEF Entered
  <2>10. Committed' = Committed
    BY <1>1 DEF Committed, Target
  <2>11. Entered(p, Committed)'
    BY <2>1, <2>9, <2>10 DEF Entered, Candidate, RecordOf, LogOf
  <2> QED BY <2>2, <2>11 DEF Told
<1> QED BY <1>2, <1>3

LEMMA RemoveApplicationTold ==
  ASSUME NEW p \in Procs, Discipline, Records, RemoveApplication(p),
         Committed' = Committed
  PROVE  Told(p)'
<1>1. pc[p] = "rollRemove" /\ Told(p)
  BY DEF RemoveApplication, Records
<1>2. CASE Break(p)
  BY <1>2, FailedTold DEF Discipline, Locking
<1>3. CASE outcome[p] = "decided" /\ Leave(p, "ok") /\ seen' = seen
  <2>1. pc'[p] = "unlocking" /\ outcome'[p] = "ok"
    BY <1>3 DEF Leave, Goto, End, Records, Discipline, Locking, LockShapes
  <2>2. Entered(p, Committed)
    BY <1>1, <1>3 DEF Told
  <2>3. Entered(p, Committed)'
    BY <1>3, <2>2 DEF Entered, Candidate, RecordOf, LogOf
  <2> QED BY <2>1, <2>3 DEF Told
<1>4. CASE outcome[p] = "none" /\ Goto(p, "read") /\ UNCHANGED local
  <2>1. pc'[p] = "read" /\ outcome'[p] = "none"
    BY <1>4 DEF Goto, local, Discipline, Locking, LockShapes
  <2> QED BY <2>1 DEF Told
<1> QED BY <1>2, <1>3, <1>4 DEF RemoveApplication

(* A valuation is told of when its transaction has committed it.           *)
LEMMA CommitRecords ==
  ASSUME NEW p \in Procs, Discipline, Contents, Records, Commit(p)
  PROVE  Records'
<1> DEFINE r == RecordOf(p)
           c == Committed
           d == Committed'
           e == EquityEvent(r)
<1>1. /\ pc[p] = "commit" /\ Aggregate(p) /\ OnlyMoves(p) /\ seen' = seen
      /\ \A l \in Logs : c[l] = file[l].lines
      /\ Fresh(r) /\ DOMAIN d = Logs
      /\ d["mark"] = c["mark"] \o (IF r \in Range(c["mark"]) THEN <<>> ELSE <<r>>)
      /\ d["equity"] = c["equity"] \o <<e>>
      /\ d["position"] = c["position"] \o PositionEvents(r)
  BY CommitCommits
<1>2. /\ \A k \in Logs : c[k] \in Seq(Range(c[k]))
      /\ Distinct(c) /\ Known(p) /\ Told(p)
  BY DEF Contents, Sound, Records
<1>3. r \in Marks /\ r.asOf = AsOf[p]
  BY <1>2, RecordOfFacts
<1>4. {"mark", "equity", "position"} = Logs
  BY DEF Logs, Journaled
<1>5. /\ NoneBy(c["equity"], r) /\ NoneBy(c["position"], r)
      /\ r \notin Range(c["mark"]) => \A m \in Range(c["mark"]) : m.asOf # r.asOf
  BY <1>1, <1>2, <1>3, FreshFacts DEF Journaled
<1>6. /\ e.by = r /\ e.prev = Len(c["equity"])
      /\ \A x : PositionEvent(r, x).by = r /\ PositionEvent(r, x).item = x
  BY <1>1, <1>4 DEF EquityEvent, PositionEvent
<1> HIDE DEF c, d, e, r
<1>7. /\ Range(d["mark"]) = Range(c["mark"]) \cup {r}
      /\ Range(d["mark"]) \subseteq Marks /\ MarkedOnce(d["mark"])
  <2>1. PICK s : s = c["mark"]
    OBVIOUS
  <2>2. s \in Seq(Range(s)) /\ MarkedOnce(s) /\ Range(s) \subseteq Marks
    BY <1>2, <1>4, <2>1 DEF Distinct
  <2>3. CASE r \in Range(s)
    <3>1. d["mark"] = s \o <<>>
      BY <1>1, <2>1, <2>3
    <3>2. d["mark"] = s
      BY <2>2, <3>1
    <3> QED BY <2>1, <2>2, <2>3, <3>2
  <2>4. CASE r \notin Range(s)
    <3>1. d["mark"] = s \o <<r>> /\ \A m \in Range(s) : m.asOf # r.asOf
      BY <1>1, <1>5, <2>1, <2>4
    <3>2. MarkedOnce(s \o <<r>>) /\ Range(s \o <<r>>) = Range(s) \cup {r}
      BY <2>2, <3>1, MarkedOnceMore, RangeOfOneMore
    <3> QED BY <1>3, <2>1, <2>2, <3>1, <3>2
  <2> QED BY <2>3, <2>4
<1>8. /\ Range(d["equity"]) = Range(c["equity"]) \cup {e}
      /\ ValuedOnce(d["equity"])
  <2>1. PICK s : s = c["equity"]
    OBVIOUS
  <2>2. /\ s \in Seq(Range(s)) /\ ValuedOnce(s) /\ e.prev = Len(s)
        /\ NoneBy(s, e.by) /\ d["equity"] = s \o <<e>>
    BY <1>1, <1>2, <1>4, <1>5, <1>6, <2>1 DEF Distinct
  <2>3. ValuedOnce(s \o <<e>>) /\ Range(s \o <<e>>) = Range(s) \cup {e}
    BY <2>2, ValuedOnceMore, RangeOfOneMore
  <2> QED BY <2>1, <2>2, <2>3
<1>9. /\ Range(d["position"]) = Range(c["position"]) \cup
                                {PositionEvent(r, x) : x \in Items}
      /\ ChangedOnce(d["position"])
  <2>1. PICK s : s = c["position"]
    OBVIOUS
  <2>2. /\ s \in Seq(Range(s)) /\ ChangedOnce(s) /\ NoneBy(s, r)
        /\ d["position"] = s \o PositionEvents(r)
    BY <1>1, <1>2, <1>4, <1>5, <2>1 DEF Distinct
  <2> QED BY <2>1, <2>2, AllChangedOnce
<1>10. Distinct(d)
  <2>1. \A f \in Range(d["equity"]) : f.by \in Procs \cup {Origin} \cup Range(d["mark"])
    BY <1>2, <1>6, <1>7, <1>8 DEF Distinct, Journaled
  <2>2. \A f \in Range(d["position"]) : f.by \in Procs \cup {Origin} \cup Range(d["mark"])
    BY <1>2, <1>6, <1>7, <1>9 DEF Distinct, Journaled
  <2> QED BY <1>7, <1>8, <1>9, <2>1, <2>2 DEF Distinct, Journaled
<1>11. \A l \in Logs : Range(c[l]) \subseteq Range(d[l])
  BY <1>4, <1>7, <1>8, <1>9
<1>12. Step(p)
  BY DEF Step, Work
<1>13. Told(p)'
  <2>1. CASE Break(p)
    BY <2>1, FailedTold DEF Discipline, Locking
  <2>2. CASE Advance(p, "validate")
    <3>1. pc'[p] = "validate" /\ outcome' = outcome /\ goal' = goal
      BY <2>2 DEF Advance, Goto, local, Discipline, Locking, LockShapes
    <3>2. outcome[p] # "ok"
      BY <1>1, <1>2 DEF Told
    <3>5. Entered(p, d)
      <4>3. CASE p \in Runs
        <5>1. r \in MarkedAt(d["mark"], AsOf[p])
          BY <1>3, <1>7 DEF MarkedAt
        <5>2. \E f \in Range(d["equity"]) : f.by = r
          BY <1>6, <1>8
        <5>3. \A x \in Items : \E f \in Range(d["position"]) : f.by = r /\ f.item = x
          BY <1>6, <1>9
        <5> QED BY <4>3, <5>1, <5>2, <5>3 DEF Entered
      <4>4. CASE p \notin Runs
        <5>1. LogOf(p) = "mark"
          BY <1>1, <4>4, ProcAssumption DEF Aggregate, LogOf, Writers
        <5>2. Candidate(p) = r
          BY <5>1 DEF Candidate, r
        <5> QED BY <1>7, <4>4, <5>1, <5>2 DEF Entered
      <4> QED BY <4>3, <4>4
    <3>6. "validate" \in AggregateStates \ {"project", "remove", "commit"}
      BY DEF AggregateStates
    <3> QED BY <1>1, <1>2, <1>11, <3>1, <3>2, <3>5, <3>6, ToldKept DEF c, d
  <2> QED BY <2>1, <2>2 DEF Commit
<1> QED BY <1>1, <1>10, <1>11, <1>12, <1>13, RecordsKept DEF c, d

-----------------------------------------------------------------------------
LEMMA RecordsInit == Init => Records
<1> SUFFICES ASSUME Init PROVE Records
  OBVIOUS
<1> DEFINE start == [l \in Logs |->
             CASE l = "mark" -> <<>>
               [] l = "equity" -> <<[by |-> Origin, prev |-> 0, asOf |-> 0]>>
               [] l = "position" -> [i \in DOMAIN ItemOrder |->
                 [by |-> Origin, item |-> ItemOrder[i], prev |-> 0, asOf |-> 0]]]
<1>1. /\ application = None /\ file = [l \in Logs |-> Whole(start[l])]
      /\ seen = [p \in Procs |-> start] /\ pc = [p \in Procs |-> "idle"]
      /\ outcome = [p \in Procs |-> "none"]
  BY DEF Init
<1>2. {"mark", "equity", "position"} = Logs
  BY DEF Logs, Journaled
<1>3. Committed = start
  <2>1. \A l \in Logs : file[l].lines = start[l]
    BY <1>1, WholeFacts
  <2> HIDE DEF start
  <2> QED BY <1>1, <2>1 DEF Committed, start
<1>4. /\ start["mark"] = <<>>
      /\ start["equity"] = <<[by |-> Origin, prev |-> 0, asOf |-> 0]>>
      /\ start["position"] = [i \in DOMAIN ItemOrder |->
           [by |-> Origin, item |-> ItemOrder[i], prev |-> 0, asOf |-> 0]]
  BY <1>2
<1> HIDE DEF start
<1>5. Distinct(start)
  <2>1. Range(start["mark"]) = {} /\ MarkedOnce(start["mark"])
    BY <1>4 DEF Range, MarkedOnce
  <2>2. PICK s : s = start["equity"]
    OBVIOUS
  <2>3. DOMAIN s = {1} /\ s[1].prev = 0 /\ s[1].by = Origin
    BY <1>4, <2>2
  <2>4. ValuedOnce(s) /\ \A f \in Range(s) : f.by = Origin
    BY <2>3 DEF ValuedOnce, Range
  <2>5. PICK t : t = start["position"]
    OBVIOUS
  <2>6. /\ DOMAIN t = DOMAIN ItemOrder
        /\ \A i \in DOMAIN t : t[i].item = ItemOrder[i] /\ t[i].by = Origin
    BY <1>4, <2>5
  <2>7. ChangedOnce(t) /\ \A f \in Range(t) : f.by = Origin
    BY <2>6, ItemOrderFacts DEF ChangedOnce, Range
  <2> QED BY <2>1, <2>2, <2>4, <2>5, <2>7 DEF Distinct, Journaled
<1>6. ASSUME NEW p \in Procs PROVE Known(p) /\ Told(p)
  <2>1. /\ start["position"] \in Seq(Range(start["position"]))
        /\ HasHeads(start["position"])
    BY <1>2, <1>3, ContentsInit DEF Contents, Sound
  <2>2. Range(start["mark"]) \subseteq Marks
    BY <1>5 DEF Distinct
  <2>3. Known(p)
    BY <1>1, <2>1, <2>2 DEF Known
  <2>4. Told(p)
    BY <1>1 DEF Told
  <2> QED BY <2>3, <2>4
<1> QED BY <1>1, <1>3, <1>5, <1>6 DEF Records

LEMMA RecordsStep ==
  Discipline /\ Contents /\ Records /\ [Next]_vars => Records'
<1> SUFFICES ASSUME Discipline, Contents, Records, [Next]_vars PROVE Records'
  OBVIOUS
<1>1. ASSUME NEW p \in Procs,
             \/ Start(p) \/ AcquireLock(p) \/ TimeOut(p) \/ ReleaseLock(p)
             \/ Return(p) \/ Fail(p) \/ DieReleasing(p)
      PROVE  Records'
  <2>1. Committed' = Committed /\ seen' = seen /\ OnlyMoves(p)
    BY <1>1, CallContents, CallFootprint DEF Discipline, Locking
  <2>2. Step(p)
    BY <1>1 DEF Step
  <2> QED BY <1>1, <2>1, <2>2, CallTold, RecordsUnmoved
<1>2. ASSUME NEW p \in Procs, Work(p) PROVE Records'
  <2>1. CASE ReadSnapshot(p) \/ AppendLine(p) \/ Commit(p)
    BY <2>1, ReadSnapshotRecords, AppendLineRecords, CommitRecords
  <2>2. CASE ~ReadSnapshot(p) /\ ~AppendLine(p) /\ ~Commit(p)
    <3>1. Committed' = Committed /\ seen' = seen
      BY <1>2, <2>2, SilentContents, ResolveContents, ResolveSingleContents,
         WriteJournalContents, RestoreLogContents, RollForwardLogContents,
         RemoveApplicationContents DEF Work
    <3>2. Told(p)'
      BY <1>2, <2>2, <3>1, GoOnTold, ResolveTold, ResolveSingleTold,
         RemoveJournalTold, RemoveApplicationTold DEF Work
    <3>3. Step(p) /\ OnlyMoves(p)
      BY <1>2, WorkFootprint DEF Step, Discipline, Locking
    <3> QED BY <3>1, <3>2, <3>3, RecordsUnmoved
  <2> QED BY <2>1, <2>2
<1>3. CASE UNCHANGED vars \/ \E k \in Locks : ClearLock(k)
  <2>1. /\ pc' = pc /\ tx' = tx /\ seen' = seen /\ outcome' = outcome
        /\ goal' = goal /\ file' = file /\ application' = application
    BY <1>3 DEF vars, ClearLock, local, disk
  <2>2. Committed' = Committed
    BY <2>1 DEF Committed, Target
  <2>3. ASSUME NEW p \in Procs PROVE Known(p)' /\ Told(p)'
    <3>1. Known(p) /\ Told(p) /\ (outcome[p] = "ok" => pc[p] # "commit")
      BY DEF Records, Told
    <3>2. Told(p)'
      BY <2>1, <2>2, <3>1, ToldKept DEF Told
    <3> QED BY <2>1, <3>1, <3>2 DEF Known, HasHeads
  <2> QED BY <2>1, <2>2, <2>3 DEF Records, Distinct
<1> QED BY <1>1, <1>2, <1>3 DEF Next, Proceed

LEMMA OnlyOne ==
  ASSUME NEW S, S # {}, \A i, j \in S : i = j
  PROVE  Cardinality(S) = 1
<1>1. PICK i : S = {i}
  OBVIOUS
<1> QED BY <1>1, FS_Singleton

LEMMA AcknowledgedFromRecords == Contents /\ Records => AcknowledgedIsCommitted
<1> SUFFICES ASSUME Contents, Records, NEW p \in Procs, pc[p] = "done", outcome[p] = "ok"
             PROVE  Acknowledged(p)
  BY DEF AcknowledgedIsCommitted
<1> DEFINE c == Committed
<1>1. /\ Distinct(c) /\ Entered(p, c)
      /\ c["equity"] \in Seq(Range(c["equity"]))
  BY DEF Records, Told, Contents, Sound, Logs, Journaled
<1> HIDE DEF c
<1>2. CASE p \in Runs
  <2>1. PICK m \in MarkedAt(c["mark"], AsOf[p]) :
          /\ \E e \in Range(c["equity"]) : e.by = m
          /\ \A x \in Items : \E e \in Range(c["position"]) :
               e.by = m /\ e.item = x
    BY <1>1, <1>2 DEF Entered
  <2>2. m \in Marks
    BY <1>1 DEF MarkedAt, Distinct
  <2> DEFINE E == {i \in DOMAIN c["equity"] : c["equity"][i].by = m}
             P(x) == {i \in DOMAIN c["position"] :
                        c["position"][i].by = m /\ c["position"][i].item = x}
  <2>3. E # {} /\ \A i, j \in E : i = j
    BY <1>1, <2>1, <2>2 DEF Distinct, ValuedOnce, Range
  <2>4. \A x \in Items : P(x) # {} /\ \A i, j \in P(x) : i = j
    BY <1>1, <2>1 DEF Distinct, ChangedOnce, Range
  <2>5. Cardinality(E) = 1 /\ \A x \in Items : Cardinality(P(x)) = 1
    <3> HIDE DEF E, P
    <3> QED BY <2>3, <2>4, OnlyOne
  <2> QED BY <1>2, <2>1, <2>5 DEF Acknowledged, c
<1>3. CASE p \notin Runs
  <2> DEFINE l == LogOf(p)
             e == Candidate(p)
             S == {i \in DOMAIN c[l] : c[l][i] = e}
  <2>1. l \in {"mark", "equity", "position"}
    BY DEF LogOf
  <2>2. S # {}
    BY <1>1, <1>3 DEF Entered, Range
  <2>3. \A i, j \in S : i = j
    <3> SUFFICES ASSUME NEW i \in S, NEW j \in S PROVE i = j
      OBVIOUS
    <3> HIDE DEF e, l
    <3>1. i \in DOMAIN c[l] /\ j \in DOMAIN c[l] /\ c[l][i] = c[l][j]
      OBVIOUS
    <3>2. CASE l = "mark"
      BY <1>1, <3>1, <3>2 DEF Distinct, MarkedOnce
    <3>3. CASE l = "equity"
      <4>1. i - 1 = j - 1
        BY <1>1, <3>1, <3>3 DEF Distinct, ValuedOnce
      <4>2. DOMAIN c["equity"] \subseteq Int
        BY <1>1
      <4> QED BY <3>1, <3>3, <4>1, <4>2
    <3>4. CASE l = "position"
      BY <1>1, <3>1, <3>4 DEF Distinct, ChangedOnce
    <3> QED BY <2>1, <3>2, <3>3, <3>4
  <2>4. Cardinality(S) = 1
    <3> HIDE DEF S
    <3> QED BY <2>2, <2>3, OnlyOne
  <2> QED BY <1>3, <2>4 DEF Acknowledged, c
<1> QED BY <1>2, <1>3

(* Success is told of records and events that are committed, once.         *)
THEOREM AcknowledgedAlwaysCommitted == Spec => []AcknowledgedIsCommitted
BY RecordsInit, RecordsStep, AcknowledgedFromRecords, ContentsHold,
   DisciplineHolds, PTL DEF Spec

-----------------------------------------------------------------------------
(* Types *)

Bounded == attempts \in [Procs -> 0..MaxAttempts] /\ faults \in 0..MaxFaults

LEMMA BoundedStep == Bounded /\ [Next]_vars => Bounded'
<1> SUFFICES ASSUME Bounded, [Next]_vars PROVE Bounded'
  OBVIOUS
<1> USE ValueAssumption DEF Bounded, Leave, Throw, Die, Break, Advance, local
<1>1. ASSUME NEW p \in Procs,
             \/ Start(p) \/ AcquireLock(p) \/ TimeOut(p) \/ ReleaseLock(p)
             \/ Return(p) \/ Fail(p) \/ DieReleasing(p)
      PROVE  Bounded'
  <2>1. CASE Start(p)
    BY <2>1 DEF Start
  <2>2. CASE AcquireLock(p) \/ TimeOut(p) \/ ReleaseLock(p)
    BY <2>2 DEF AcquireLock, TimeOut, ReleaseLock
  <2>3. CASE Return(p) \/ Fail(p) \/ DieReleasing(p)
    BY <2>3 DEF Return, Fail, DieReleasing
  <2> QED BY <1>1, <2>1, <2>2, <2>3
<1>2. ASSUME NEW p \in Procs, Work(p)
      PROVE  attempts' = attempts /\ (faults' = faults \/ Break(p))
  <2>1. CASE Enter(p) \/ RestoreLog(p) \/ RestoreDoc(p) \/ RestoreRemove(p)
    BY <2>1 DEF Enter, EnterAggregate, EnterSingle, RestoreLog, RestoreDoc,
                RestoreRemove
  <2>2. CASE ReadSnapshot(p) \/ Resolve(p) \/ ResolveSingle(p)
    BY <2>2 DEF ReadSnapshot, Resolve, ResolveSingle
  <2>3. CASE WriteJournal(p) \/ AppendLine(p) \/ Project(p) \/ RemoveJournal(p)
    BY <2>3 DEF WriteJournal, AppendLine, AppendTo, Project, RemoveJournal
  <2>4. CASE \/ Commit(p) \/ Validate(p) \/ RollForwardLog(p)
             \/ RollForwardDoc(p) \/ RemoveApplication(p)
    BY <2>4 DEF Commit, Validate, RollForwardLog, AppendTo, RollForwardDoc,
                RemoveApplication
  <2> QED BY <1>2, <2>1, <2>2, <2>3, <2>4 DEF Work
<1>3. CASE UNCHANGED vars \/ \E k \in Locks : ClearLock(k)
  BY <1>3 DEF vars, ClearLock
<1> QED BY <1>1, <1>2, <1>3 DEF Next, Proceed

(* The shape of the state, whatever is called and fails.                   *)
THEOREM TypesAlways == Spec => []TypeOK
<1>1. Init => Bounded
  BY ValueAssumption DEF Init, Bounded
<1>2. Discipline /\ Contents /\ Records /\ Bounded => TypeOK
  <2> SUFFICES ASSUME Discipline, Contents, Records, Bounded PROVE TypeOK
    OBVIOUS
  <2>1. ASSUME NEW p \in Procs PROVE got[p] \in 0..4
    <3>1. Len(Needs(p)) \in {1, 4} /\ got[p] \in 0..Len(Needs(p))
      BY NeedsFacts DEF Discipline, Locking, Control
    <3>2. CASE Len(Needs(p)) = 1
      <4>1. got[p] \in 0..1
        BY <3>1, <3>2
      <4> QED BY <4>1
    <3>3. CASE Len(Needs(p)) = 4
      BY <3>1, <3>3
    <3> QED BY <3>1, <3>2, <3>3
  <2>2. got \in [Procs -> 0..4]
    BY <2>1 DEF Discipline, Locking, LockShapes
  <2>3. DOMAIN tx = Procs
    BY DEF Discipline, Locking, LockShapes
  <2>4. DOMAIN file = Logs /\ DOMAIN doc = Journaled /\ DOMAIN single = Journaled
    BY DEF Discipline, DiskShapes
  <2>5. /\ pc \in [Procs -> PcStates]
        /\ goal \in [Procs -> {"read", "evidence", "write"}]
        /\ lock \in [Locks -> Procs \cup {Nobody, Abandoned}]
    BY DEF Discipline, Locking, LockShapes
  <2>6. /\ outcome \in [Procs -> {"none", "decided", "ok", "failed"}]
        /\ DOMAIN seen = Procs
    BY DEF Contents, Records
  <2>7. attempts \in [Procs -> 0..MaxAttempts] /\ faults \in 0..MaxFaults
    BY DEF Bounded
  <2> QED BY <2>2, <2>3, <2>4, <2>5, <2>6, <2>7 DEF TypeOK
<1> QED BY <1>1, <1>2, BoundedStep, RecordsInit, RecordsStep, ContentsHold,
           DisciplineHolds, PTL DEF Spec

-----------------------------------------------------------------------------
(* Headway *)

LEMMA Ranks ==
  /\ StageRank["locking"] = 30 /\ StageRank["enter"] = 29
  /\ StageRank["restoreLog"] = 20 /\ StageRank["restoreDoc"] = 19
  /\ StageRank["restoreRemove"] = 18 /\ StageRank["read"] = 17
  /\ StageRank["journal"] = 16 /\ StageRank["append"] = 15
  /\ StageRank["project"] = 14 /\ StageRank["remove"] = 13
  /\ StageRank["commit"] = 12 /\ StageRank["validate"] = 11
  /\ StageRank["rollMark"] = 10 /\ StageRank["rollEquity"] = 9
  /\ StageRank["rollPosition"] = 8 /\ StageRank["rollRisk"] = 7
  /\ StageRank["rollHeads"] = 6 /\ StageRank["rollRemove"] = 5
  /\ StageRank["unlocking"] = 2 /\ StageRank["done"] = 0
  /\ StageRank["crashed"] = 0 /\ StageRank["idle"] = 0
  /\ GoalRank["read"] = 2 /\ GoalRank["evidence"] = 1 /\ GoalRank["write"] = 0
BY DEF StageRank, GoalRank

(* What stands behind the measures.                                        *)
Placed ==
  /\ LockShapes /\ Bounded /\ Records /\ CommitsItsOwn
  /\ \A p \in Procs : Control(p)

(* Only the decision of a call leads to its commit.                        *)
LEMMA CommitsItsOwnStep ==
  Discipline /\ Records /\ CommitsItsOwn /\ [Next]_vars => CommitsItsOwn'
<1> SUFFICES ASSUME Discipline, Records, CommitsItsOwn, [Next]_vars
             PROVE  CommitsItsOwn'
  OBVIOUS
<1>0. LockShapes
  BY DEF Discipline, Locking
<1>1. ASSUME NEW p \in Procs, Step(p) PROVE CommitsItsOwn'
  <2>1. /\ \A q \in Procs \ {p} : outcome'[q] = outcome[q]
        /\ OnlyMoves(p)
    BY <1>0, <1>1, Outcomes, CallFootprint, WorkFootprint DEF Step
  <2>2. pc'[p] = "commit" => outcome'[p] = "decided"
    <3>1. CASE Resolve(p)
      BY <1>0, <3>1, LeaveFootprint DEF Resolve, Records, End
    <3>2. CASE ResolveSingle(p)
      BY <1>0, <3>2, LeaveFootprint DEF ResolveSingle, LockShapes, Goto
    <3>3. CASE WriteJournal(p)
      BY <1>0, <3>3, LeaveFootprint DEF WriteJournal, Advance, LockShapes, Goto
    <3> QED BY <1>0, <1>1, <3>1, <3>2, <3>3, CallFootprint, WorkFootprint
            DEF Step, Deciding
  <2> QED BY <2>1, <2>2 DEF OnlyMoves, CommitsItsOwn
<1>2. CASE UNCHANGED vars \/ \E k \in Locks : ClearLock(k)
  BY <1>2 DEF vars, local, ClearLock, CommitsItsOwn
<1> QED BY <1>1, <1>2 DEF Next, Proceed, Step

(* What is left is a natural number, more of it inside than outside.       *)
LEMMA StageTyped ==
  ASSUME Placed, NEW p \in Procs
  PROVE  /\ Stage(p) \in Nat
         /\ pc[p] \in Inside \cup {"locking"} => Stage(p) > 2
<1>1. pc[p] \in PcStates
  BY DEF Placed, LockShapes
<1> USE DEF Inside, RollStates, RollNext, RestoreStates, AppendStates
<1>2. /\ StageRank[pc[p]] \in Nat
      /\ pc[p] \in Inside \cup {"locking"} => StageRank[pc[p]] > 2
  BY <1>1, Ranks DEF PcStates
<1> QED BY <1>2 DEF Stage

LEMMA MeasuresTyped == Placed => MeasuresInv
<1> SUFFICES ASSUME Placed, NEW p \in Procs
             PROVE  Calls(p) \in Nat /\ Stage(p) \in Nat /\ Rest(p) \in Nat
  BY DEF MeasuresInv
<1>1. /\ attempts[p] \in 0..MaxAttempts /\ MaxAttempts \in Nat
      /\ goal[p] \in {"read", "evidence", "write"}
  BY ValueAssumption DEF Placed, Bounded, LockShapes
<1>2. GoalRank[goal[p]] \in Nat
  BY <1>1, Ranks
<1>3. Calls(p) \in Nat
  BY <1>1, <1>2 DEF Calls
<1>4. got[p] \in Nat /\ Len(Needs(p)) \in Nat /\ got[p] <= Len(Needs(p))
  BY NeedsFacts DEF Placed, Control
<1>5. Rest(p) \in Nat
  BY <1>4 DEF Rest
<1> QED BY <1>3, <1>5, StageTyped

(* What an operation does that ends the call, or its process.              *)
LEMMA Ends ==
  ASSUME Placed, NEW p \in Procs, pc[p] \in Inside \cup {"locking"},
         Throw(p) \/ Break(p) \/ Leave(p, "ok")
  PROVE  UNCHANGED <<goal, attempts>> /\ Stage(p)' < Stage(p)
<1>1. UNCHANGED <<goal, attempts>> /\ pc'[p] \in {"unlocking", "crashed"}
  BY DEF Throw, Break, Leave, Die, Goto, Placed, LockShapes
<1>2. Stage(p)' \in {0, 2}
  BY <1>1, Ranks DEF Stage, Recovering, RollStates, RollNext
<1>3. Stage(p) \in Nat /\ Stage(p) > 2
  BY StageTyped
<1> QED BY <1>1, <1>2, <1>3

(* The work of a call stays with its goal and goes through its stages.     *)
LEMMA WorkMoves ==
  ASSUME Placed, NEW p \in Procs, Work(p)
  PROVE  UNCHANGED <<goal, attempts>> /\ Stage(p)' < Stage(p)
<1> DEFINE Ended == Throw(p) \/ Break(p) \/ Leave(p, "ok")
           Moves(s) == Goto(p, s) /\ UNCHANGED <<goal, attempts, outcome>>
<1>0. /\ pc \in [Procs -> PcStates] /\ outcome \in [Procs -> {"none", "decided", "ok", "failed"}]
      /\ outcome[p] = "decided" => pc[p] \in AggregateStates
  BY DEF Placed, LockShapes, Records, Told
<1>1. ASSUME Ended, pc[p] \in Inside
      PROVE  UNCHANGED <<goal, attempts>> /\ Stage(p)' < Stage(p)
  BY <1>1, Ends
<1> USE DEF Inside, RollStates, RollNext, RestoreStates, AppendStates
<1>2. CASE Enter(p)
  <2>1. \/ Ended
        \/ /\ pc[p] = "enter" /\ outcome' = outcome /\ UNCHANGED <<goal, attempts>>
           /\ pc'[p] \in {"read", "validate", "restoreLog"}
    BY <1>0, <1>2 DEF Enter, EnterAggregate, EnterSingle, Goto, local
  <2>2. pc[p] = "enter"
    BY <1>2 DEF Enter
  <2> QED BY <1>1, <2>1, <2>2, Ranks DEF Stage, Recovering
<1>3. CASE RestoreLog(p) \/ RestoreDoc(p) \/ RestoreRemove(p)
  <2>1. \/ pc[p] = "restoreLog" /\ (Ended \/ Moves("restoreDoc"))
        \/ pc[p] = "restoreDoc" /\ (Ended \/ Moves("restoreRemove"))
        \/ pc[p] = "restoreRemove" /\ (Ended \/ Moves("read"))
    BY <1>3 DEF RestoreLog, RestoreDoc, RestoreRemove, Advance, local
  <2> QED BY <1>0, <1>1, <2>1, Ranks DEF Stage, Recovering, Goto
<1>4. CASE ReadSnapshot(p)
  BY <1>1, <1>4 DEF ReadSnapshot
<1>5. CASE Resolve(p)
  <2>1. /\ pc[p] = "read"
        /\ \/ Ended
           \/ UNCHANGED <<goal, attempts>> /\ Goto(p, "commit")
    BY <1>5 DEF Resolve
  <2> QED BY <1>0, <1>1, <2>1, Ranks DEF Stage, Recovering, Goto
<1>6. CASE ResolveSingle(p)
  <2>1. /\ pc[p] = "read"
        /\ Ended \/ Moves("append") \/ Moves("journal")
    BY <1>6 DEF ResolveSingle, local
  <2> QED BY <1>0, <1>1, <2>1, Ranks DEF Stage, Recovering, Goto
<1>7. CASE WriteJournal(p) \/ AppendLine(p) \/ Project(p) \/ RemoveJournal(p)
  <2>1. \/ pc[p] = "journal" /\ (Ended \/ Moves("append"))
        \/ pc[p] = "append" /\ (Ended \/ Moves("project"))
        \/ pc[p] = "project" /\ (Ended \/ Moves("remove"))
        \/ pc[p] = "remove" /\ Ended
    BY <1>7 DEF WriteJournal, AppendLine, AppendTo, Project, RemoveJournal,
       Advance, local
  <2> QED BY <1>0, <1>1, <2>1, Ranks DEF Stage, Recovering, Goto
<1>8. CASE Commit(p) \/ Validate(p)
  <2>1. \/ pc[p] = "commit" /\ (Ended \/ Moves("validate"))
        \/ pc[p] = "validate" /\ (Ended \/ Moves("rollMark"))
    BY <1>8 DEF Commit, Validate, Advance, local
  <2>2. pc[p] = "commit" => outcome[p] = "decided"
    BY DEF Placed, CommitsItsOwn
  <2> QED BY <1>0, <1>1, <2>1, <2>2, Ranks DEF Stage, Recovering, Goto
<1>9. CASE RollForwardLog(p) \/ RollForwardDoc(p)
  <2>1. /\ pc[p] \in DOMAIN RollNext
        /\ Ended \/ Moves(RollNext[pc[p]])
    BY <1>9 DEF RollForwardLog, RollForwardDoc, AppendTo, Advance, local,
       RollLog, RollDoc
  <2>2. CASE Ended
    BY <1>1, <2>1, <2>2
  <2>3. CASE Moves(RollNext[pc[p]])
    <3>1. \/ pc[p] = "rollMark" /\ pc'[p] = "rollEquity"
          \/ pc[p] = "rollEquity" /\ pc'[p] = "rollPosition"
          \/ pc[p] = "rollPosition" /\ pc'[p] = "rollRisk"
          \/ pc[p] = "rollRisk" /\ pc'[p] = "rollHeads"
          \/ pc[p] = "rollHeads" /\ pc'[p] = "rollRemove"
      BY <1>0, <2>1, <2>3 DEF Goto
    <3> QED BY <2>3, <3>1, Ranks DEF Stage, Recovering
  <2> QED BY <2>1, <2>2, <2>3
<1>10. CASE RemoveApplication(p)
  <2>1. /\ pc[p] = "rollRemove"
        /\ Ended \/ (outcome[p] = "none" /\ Moves("read"))
    BY <1>10 DEF RemoveApplication, local
  <2> QED BY <1>0, <1>1, <2>1, Ranks DEF Stage, Recovering, Goto
<1> QED BY <1>2, <1>3, <1>4, <1>5, <1>6, <1>7, <1>8, <1>9, <1>10 DEF Work

(* The step of another process leaves the measures of q alone.             *)
LEMMA OthersAsFar ==
  ASSUME Placed, NEW p \in Procs, Step(p), NEW q \in Procs \ {p}
  PROVE  AsFar(q)
<1>1. pc'[q] = pc[q] /\ goal'[q] = goal[q] /\ got'[q] = got[q]
  BY CallFootprint, WorkFootprint DEF Step, Placed, OnlyMoves
<1>2. outcome'[q] = outcome[q]
  BY Outcomes DEF Placed
<1>3. attempts' = attempts \/ attempts'[q] = attempts[q]
  <2> USE DEF Leave, Throw, Die, Break, Advance, local
  <2>1. CASE Start(p)
    BY <2>1 DEF Start, Placed, Bounded
  <2>2. CASE AcquireLock(p) \/ TimeOut(p) \/ ReleaseLock(p)
    BY <2>2 DEF AcquireLock, TimeOut, ReleaseLock
  <2>3. CASE Return(p) \/ Fail(p) \/ DieReleasing(p)
    BY <2>3 DEF Return, Fail, DieReleasing
  <2>4. CASE Work(p)
    BY <2>4, WorkMoves
  <2> QED BY <2>1, <2>2, <2>3, <2>4 DEF Step
<1>4. Needs(q)' = Needs(q)
  BY <1>1 DEF Needs, Aggregate, LogOf
<1>5. Calls(q)' = Calls(q)
  BY <1>1, <1>3 DEF Calls
<1>6. Stage(q)' = Stage(q)
  BY <1>1, <1>2 DEF Stage, Recovering
<1>7. Rest(q)' = Rest(q)
  BY <1>1, <1>4 DEF Rest
<1> QED BY <1>5, <1>6, <1>7 DEF AsFar

(* A call, its locks and its end.                                          *)
LEMMA CallMoves ==
  ASSUME Placed, NEW p \in Procs,
         \/ Start(p) \/ AcquireLock(p) \/ TimeOut(p) \/ ReleaseLock(p)
         \/ Return(p) \/ Fail(p) \/ DieReleasing(p)
  PROVE  Descends(p)
<1>0. /\ pc \in [Procs -> PcStates] /\ goal \in [Procs -> {"read", "evidence", "write"}]
      /\ got \in [Procs -> Nat] /\ attempts \in [Procs -> 0..MaxAttempts]
      /\ MaxAttempts \in Nat
  BY ValueAssumption DEF Placed, LockShapes, Bounded
<1>1. ASSUME UNCHANGED <<goal, attempts>>, Stage(p)' < Stage(p)
      PROVE  Descends(p)
  BY <1>1 DEF Descends, Calls
<1> USE DEF RollStates, RollNext
<1>2. CASE Start(p)
  <2>1. /\ attempts[p] < MaxAttempts /\ attempts'[p] = attempts[p] + 1
        /\ goal'[p] \in {"read", "evidence", "write"}
    BY <1>0, <1>2 DEF Start
  <2>2. /\ GoalRank[goal[p]] \in 0..2 /\ GoalRank[goal'[p]] \in 0..2
    BY <1>0, <2>1, Ranks
  <2>3. Calls(p)' < Calls(p)
    BY <1>0, <2>1, <2>2 DEF Calls
  <2> QED BY <2>3 DEF Descends
<1>3. CASE AcquireLock(p)
  <2>1. /\ UNCHANGED <<goal, attempts>> /\ pc[p] = "locking"
        /\ got'[p] = got[p] + 1 /\ pc'[p] \in {"enter", "locking"}
    BY <1>0, <1>3 DEF AcquireLock, Goto, local
  <2>2. CASE pc'[p] = "enter"
    BY <1>1, <2>1, <2>2, Ranks DEF Stage, Recovering
  <2>3. CASE pc'[p] = "locking"
    <3>1. Needs(p)' = Needs(p) /\ Len(Needs(p)) \in Nat
      BY <2>1, NeedsFacts DEF Needs, Aggregate, LogOf, Placed
    <3>2. Stage(p)' = Stage(p)
      BY <2>1, <2>3 DEF Stage, Recovering
    <3>3. Rest(p)' < Rest(p)
      BY <1>0, <2>1, <2>3, <3>1 DEF Rest
    <3> QED BY <2>1, <3>2, <3>3 DEF Descends, Calls
  <2> QED BY <2>1, <2>2, <2>3
<1>4. CASE TimeOut(p) \/ Fail(p)
  BY <1>1, <1>4, Ends DEF TimeOut, Fail
<1>5. CASE ReleaseLock(p)
  <2>1. /\ UNCHANGED <<goal, attempts, pc>> /\ pc[p] = "unlocking"
        /\ got'[p] = got[p] - 1
    BY <1>0, <1>5 DEF ReleaseLock
  <2>2. Stage(p)' = Stage(p) /\ Rest(p)' < Rest(p)
    BY <1>0, <2>1 DEF Stage, Recovering, Rest
  <2> QED BY <2>1, <2>2 DEF Descends, Calls
<1>6. CASE Return(p)
  <2>1. CASE pc'[p] = "done" /\ UNCHANGED <<goal, attempts>>
    BY <1>0, <1>1, <1>6, <2>1, Ranks DEF Return, Stage, Recovering
  <2>2. CASE goal[p] # "write" /\ goal' = [goal EXCEPT ![p] = NextGoal(p)]
             /\ attempts' = attempts
    <3>1. GoalRank[goal'[p]] \in Nat /\ GoalRank[goal[p]] \in Nat
          /\ GoalRank[goal'[p]] < GoalRank[goal[p]]
      BY <1>0, <2>2, Ranks DEF NextGoal
    <3>2. Calls(p)' < Calls(p)
      BY <1>0, <2>2, <3>1 DEF Calls
    <3> QED BY <3>2 DEF Descends
  <2> QED BY <1>0, <1>6, <2>1, <2>2 DEF Return, Goto
<1>7. CASE DieReleasing(p)
  <2>1. /\ UNCHANGED <<goal, attempts>> /\ pc[p] = "unlocking"
        /\ pc'[p] = "crashed"
    BY <1>0, <1>7 DEF DieReleasing, Die, Goto
  <2> QED BY <1>1, <2>1, Ranks DEF Stage, Recovering
<1> QED BY <1>2, <1>3, <1>4, <1>5, <1>6, <1>7

(* A step of a process brings it nearer to the end of all its calls and    *)
(* sets no other one back, whatever is read, refused, recovered or fails   *)
(* in it: what is behind EveryCallEnds but the fairness.                   *)
THEOREM HeadwayAlways == Spec => []MeasuresInv /\ OneComesCloser
<1>1. Init => Bounded /\ CommitsItsOwn
  BY ValueAssumption DEF Init, Bounded, CommitsItsOwn
<1>2. Discipline /\ Records /\ Bounded /\ CommitsItsOwn => Placed
  BY DEF Discipline, Locking, Placed
<1>3. ASSUME Placed, [Next]_vars
      PROVE  [SomeoneCloser]_vars
  <2>1. ASSUME NEW p \in Procs, Step(p)
        PROVE  Descends(p) /\ \A q \in Procs \ {p} : AsFar(q)
    <3>1. ASSUME Work(p) PROVE Descends(p)
      BY <1>3, <3>1, WorkMoves DEF Descends, Calls
    <3> QED BY <1>3, <2>1, <3>1, CallMoves, OthersAsFar DEF Step
  <2>2. ASSUME NEW k \in Locks, ClearLock(k)
        PROVE  \A q \in Procs : AsFar(q)
    BY <2>2 DEF ClearLock, local, AsFar, Calls, Stage, Recovering, Rest, Needs,
       Aggregate, LogOf
  <2>3. CASE Next
    <3>1. \/ \E p \in Procs : Step(p)
          \/ \E k \in Locks : ClearLock(k)
      BY <2>3 DEF Next, Proceed, Step
    <3> QED BY <2>1, <2>2, <3>1 DEF SomeoneCloser
  <2> QED BY <1>3, <2>3
<1> QED BY <1>1, <1>2, <1>3, CommitsItsOwnStep, BoundedStep, RecordsInit,
           RecordsStep, ContentsHold, DisciplineHolds, MeasuresTyped, PTL
        DEF Spec, OneComesCloser
=============================================================================
