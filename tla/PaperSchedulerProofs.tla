------------------------ MODULE PaperSchedulerProofs ------------------------
(***************************************************************************)
(* Proofs about invocations of the scheduler that run one after another:   *)
(* the daily limit and the backoff hold, and the state stays readable, for *)
(* any limits, times and number of invocations, whatever fails or dies.    *)
(***************************************************************************)
EXTENDS PaperScheduler, TLAPS

-----------------------------------------------------------------------------
(* Days *)

(* A later time is of the same day or a later one.                         *)
LEMMA DayMonotone ==
  ASSUME NEW a \in Nat, NEW b \in Nat, a <= b
  PROVE  DayKey(a) \in Nat /\ DayKey(a) <= DayKey(b)
<1> DEFINE n == DayLength
           i == a \div n
           j == b \div n
<1>1. n \in Nat \ {0}
  BY TimeAssumption
<1>2. /\ i \in Nat /\ a = n * i + (a % n) /\ a % n \in 0 .. n - 1
  BY <1>1
<1>3. /\ j \in Nat /\ b = n * j + (b % n) /\ b % n \in 0 .. n - 1
  BY <1>1
<1>. HIDE DEF i, j
<1>4. ASSUME j + 1 <= i PROVE FALSE
  <2>1. n * (j + 1) <= n * i
    BY <1>1, <1>2, <1>3, <1>4
  <2>2. n * (j + 1) = n * j + n
    BY <1>1, <1>3
  <2>. QED  BY <1>1, <1>2, <1>3, <2>1, <2>2
<1>5. i <= j
  BY <1>2, <1>3, <1>4
<1>. QED  BY <1>2, <1>5 DEF DayKey, i, j

LEMMA DayOfTime ==
  ASSUME NEW t \in 0 .. MaxClock
  PROVE  DayKey(t) \in Days
<1>1. t \in Nat /\ MaxClock \in Nat /\ t <= MaxClock
  BY TimeAssumption
<1>2. DayKey(t) \in Nat /\ DayKey(t) <= DayKey(MaxClock) /\ DayKey(MaxClock) \in Nat
  BY <1>1, DayMonotone
<1>. QED  BY <1>2 DEF Days, DayKey

-----------------------------------------------------------------------------
(* Types *)

LEMMA StatesTyped ==
  ASSUME NEW s \in States, NEW t \in 0 .. MaxClock
  PROVE  /\ ConsumeRun(s) \in States /\ ClearBackoff(s) \in States
         /\ MarkFailure(s, t) \in States
         /\ ConsumeRun(s).day = s.day /\ ConsumeRun(s).used = s.used + 1
         /\ ClearBackoff(s).day = s.day /\ ClearBackoff(s).used = s.used
         /\ MarkFailure(s, t).day = s.day /\ MarkFailure(s, t).used = s.used
         /\ MarkFailure(s, t).nextAllowed = t + FailureBackoff
         /\ t + FailureBackoff \in Nat
BY TimeAssumption DEF States, ConsumeRun, ClearBackoff, MarkFailure

LEMMA StateOnDayTyped ==
  ASSUME TypeOK, file # Torn, NEW t \in 0 .. MaxClock
  PROVE  /\ StateOnDay(t) \in States /\ StateOnDay(t).day = DayKey(t)
         /\ file \in States => StateOnDay(t).nextAllowed = file.nextAllowed
         /\ file \in States /\ file.day = DayKey(t) =>
              StateOnDay(t).used = file.used
<1>1. DayKey(t) \in Days /\ (file = NoFile \/ file \in States)
  BY DayOfTime DEF TypeOK
<1>2. CASE file = NoFile
  BY <1>1, <1>2, StateAssumption DEF StateOnDay, States
<1>3. CASE file \in States
  <2>1. file # NoFile
    BY <1>3, StateAssumption
  <2>. QED  BY <1>1, <1>3, <2>1 DEF StateOnDay, States
<1>. QED  BY <1>1, <1>2, <1>3

LEMMA TypeInit == Init => TypeOK
<1>1. 0 \in Days /\ 0 \in 0 .. MaxClock
  <2>1. MaxClock \in Nat /\ DayKey(MaxClock) \in Nat
    BY TimeAssumption, DayMonotone
  <2>. QED  BY <2>1 DEF Days, DayKey
<1>2. [day |-> 0, used |-> 0, nextAllowed |-> 0] \in States
  BY <1>1 DEF States
<1>3. NoFailure \in [time : Nat, known : BOOLEAN]
  BY DEF NoFailure
<1>. QED  BY <1>1, <1>2, <1>3 DEF Init, TypeOK

LEMMA TypeStep ==
  ASSUME TypeOK, [Next]_vars
  PROVE  TypeOK'
<1>. USE DEF Goto, Save, mine, history
<1>0. /\ clock \in 0..MaxClock /\ MaxClock \in Nat
      /\ pc \in [Invocations -> {"idle", "ended"} \cup Live]
      /\ now \in [Invocations -> 0..MaxClock]
      /\ loaded \in [Invocations -> States]
      /\ saving \in [Invocations -> States]
      /\ purpose \in [Invocations -> {"charge", "failure", "clear"}]
      /\ caught \in [Invocations -> BOOLEAN]
      /\ fd \in [Invocations -> {"closed", "tmp", "state", "gone"}]
      /\ lock \in Nat \cup {NoFile, Torn}
      /\ tmp \in States \cup {NoFile, Torn}
      /\ file \in States \cup {NoFile, Torn}
      /\ jobs \in [Days -> Nat]
      /\ failedAt \in [time : Nat, known : BOOLEAN]
  BY TimeAssumption DEF TypeOK
<1>1. CASE UNCHANGED vars
  BY <1>1 DEF vars, TypeOK
<1>2. CASE Tick
  BY <1>0, <1>2 DEF Tick, TypeOK
<1>3. ASSUME NEW p \in Invocations, Start(p) PROVE TypeOK'
  BY <1>0, <1>3 DEF Start, TypeOK, Live
<1>4. ASSUME NEW p \in Invocations, ReadState(p) PROVE TypeOK'
  <2>1. file # Torn => StateOnDay(now[p]) \in States
    BY <1>0, StateOnDayTyped
  <2>. QED  BY <1>0, <1>4, <2>1 DEF ReadState, TypeOK, Live
<1>5. ASSUME NEW p \in Invocations,
             ReadLock(p) \/ RemoveStaleLock(p) \/ Release(p) \/ OpenTemp(p)
             \/ FillTemp(p)
      PROVE  TypeOK'
  BY <1>0, <1>5 DEF ReadLock, RemoveStaleLock, Release, OpenTemp, FillTemp,
     TypeOK, Live, Holding
<1>6. ASSUME NEW p \in Invocations, CreateLock(p) PROVE TypeOK'
  <2>1. ConsumeRun(loaded[p]) \in States
    BY <1>0, StatesTyped
  <2>. QED  BY <1>0, <1>6, <2>1 DEF CreateLock, TypeOK, Live, Holding
<1>7. ASSUME NEW p \in Invocations, RenameTemp(p) PROVE TypeOK'
  <2>1. AfterWrite(p) \in Live
    BY <1>0 DEF AfterWrite, Live, Holding
  <2>2. jobs' \in [Days -> Nat]
    BY <1>0, <1>7 DEF RenameTemp, States
  <2>3. fd' \in [Invocations -> {"closed", "tmp", "state", "gone"}]
    BY <1>0, <1>7 DEF RenameTemp
  <2>. QED  BY <1>0, <1>7, <2>1, <2>2, <2>3 DEF RenameTemp, TypeOK
<1>8. ASSUME NEW p \in Invocations, FinishJob(p) \/ IoError(p) PROVE TypeOK'
  <2>1. /\ ClearBackoff(ConsumeRun(loaded[p])) \in States
        /\ FailureState(p) \in States
    BY <1>0, StatesTyped DEF FailureState
  <2>2. /\ pc' \in [Invocations -> {"idle", "ended"} \cup Live]
        /\ saving' \in [Invocations -> States]
        /\ purpose' \in [Invocations -> {"charge", "failure", "clear"}]
        /\ caught' \in [Invocations -> BOOLEAN]
    <3>1. ASSUME Catch(p)
          PROVE  /\ pc' \in [Invocations -> {"idle", "ended"} \cup Live]
                 /\ saving' \in [Invocations -> States]
                 /\ purpose' \in [Invocations -> {"charge", "failure", "clear"}]
                 /\ caught' \in [Invocations -> BOOLEAN]
      BY <1>0, <2>1, <3>1 DEF Catch, Live, Holding
    <3>2. ASSUME NEW state \in States, NEW why \in {"failure", "clear"},
                 Save(p, state, why), UNCHANGED caught
          PROVE  /\ pc' \in [Invocations -> {"idle", "ended"} \cup Live]
                 /\ saving' \in [Invocations -> States]
                 /\ purpose' \in [Invocations -> {"charge", "failure", "clear"}]
                 /\ caught' \in [Invocations -> BOOLEAN]
      BY <1>0, <3>2 DEF Live, Holding
    <3>. QED  BY <1>8, <2>1, <3>1, <3>2 DEF FinishJob, IoError
  <2>3. /\ fd' \in [Invocations -> {"closed", "tmp", "state", "gone"}]
        /\ UNCHANGED <<clock, now, loaded, lock, tmp, file, jobs, failedAt>>
    BY <1>0, <1>8 DEF FinishJob, IoError
  <2>. QED  BY <1>0, <2>2, <2>3 DEF TypeOK
<1>9. ASSUME NEW p \in Invocations, AppendFailureAudit(p) PROVE TypeOK'
  BY <1>0, <1>9 DEF AppendFailureAudit, TypeOK, Live, Holding
<1>10. ASSUME NEW p \in Invocations,
              EntryError(p) \/ LockInitError(p) \/ ReleaseError(p) \/ Crash(p)
       PROVE  TypeOK'
  BY <1>0, <1>10 DEF EntryError, LockInitError, ReleaseError, Crash, TypeOK
<1>. QED  BY <1>1, <1>2, <1>3, <1>4, <1>5, <1>6, <1>7, <1>8, <1>9, <1>10
          DEF Next, Step, Fault

(* Every variable keeps its type, however invocations overlap.             *)
THEOREM TypesAlways == Spec => []TypeOK
<1>. QED  BY TypeInit, TypeStep, PTL DEF Spec

-----------------------------------------------------------------------------
(* One invocation after another *)

(* A step of p is that of the only live invocation.                        *)
LEMMA OthersRest ==
  ASSUME Alone, TypeOK, AloneInv, NEW p \in Invocations, Step(p) \/ Fault(p)
  PROVE  /\ \A q \in Invocations \ {p} :
              /\ pc[q] \notin Live /\ pc'[q] = pc[q] /\ now'[q] = now[q]
              /\ fd'[q] = "closed" /\ fd[q] = "closed"
         /\ pc[p] \in Live \cup {"idle"}
         /\ clock' = clock
<1>. USE DEF Goto, Save, mine, history
<1>0. /\ pc \in [Invocations -> {"idle", "ended"} \cup Live]
      /\ now \in [Invocations -> 0..MaxClock]
      /\ fd \in [Invocations -> {"closed", "tmp", "state", "gone"}]
  BY DEF TypeOK
<1>1. clock' = clock /\ \A q \in Invocations \ {p} : pc'[q] = pc[q] /\ now'[q] = now[q]
  <2>1. CASE Start(p) \/ ReadState(p) \/ ReadLock(p) \/ RemoveStaleLock(p)
             \/ CreateLock(p) \/ OpenTemp(p) \/ FillTemp(p) \/ RenameTemp(p)
    BY <1>0, <2>1 DEF Start, ReadState, ReadLock, RemoveStaleLock, CreateLock,
       OpenTemp, FillTemp, RenameTemp
  <2>2. CASE FinishJob(p) \/ IoError(p)
    BY <1>0, <2>2 DEF FinishJob, IoError, Catch
  <2>3. CASE AppendFailureAudit(p) \/ Release(p) \/ EntryError(p)
             \/ LockInitError(p) \/ ReleaseError(p) \/ Crash(p)
    BY <1>0, <2>3 DEF AppendFailureAudit, Release, EntryError, LockInitError,
       ReleaseError, Crash
  <2>. QED  BY <2>1, <2>2, <2>3 DEF Step, Fault
<1>2. \/ pc[p] \in Live
      \/ pc[p] = "idle" /\ \A q \in Invocations : pc[q] \notin Live
  <2>1. CASE Start(p)
    BY <2>1 DEF Start
  <2>2. CASE ReadState(p) \/ ReadLock(p) \/ RemoveStaleLock(p)
             \/ CreateLock(p) \/ OpenTemp(p) \/ FillTemp(p) \/ RenameTemp(p)
             \/ FinishJob(p) \/ AppendFailureAudit(p) \/ Release(p)
    BY <2>2 DEF ReadState, ReadLock, RemoveStaleLock, CreateLock, OpenTemp,
       FillTemp, RenameTemp, FinishJob, AppendFailureAudit, Release, Live, Holding
  <2>3. CASE Fault(p)
    BY <2>3 DEF Fault, IoError, EntryError, LockInitError, ReleaseError, Crash,
       Live, Holding
  <2>. QED  BY <2>1, <2>2, <2>3 DEF Step
<1>3. \A q \in Invocations \ {p} : pc[q] \notin Live /\ fd[q] = "closed"
  <2>1. \A q \in Invocations \ {p} : pc[q] \notin Live
    BY <1>2 DEF AloneInv, Solitary
  <2>. QED  BY <2>1 DEF AloneInv, Writes, Live, Holding
<1>4. \A q \in Invocations \ {p} : fd'[q] = "closed"
  <2>1. CASE RenameTemp(p)
    BY <1>0, <1>3, <2>1 DEF RenameTemp
  <2>2. CASE Start(p) \/ ReadState(p) \/ ReadLock(p) \/ RemoveStaleLock(p)
             \/ CreateLock(p) \/ OpenTemp(p) \/ FillTemp(p) \/ FinishJob(p)
             \/ AppendFailureAudit(p) \/ Release(p)
    BY <1>0, <1>3, <2>2 DEF Start, ReadState, ReadLock, RemoveStaleLock,
       CreateLock, OpenTemp, FillTemp, FinishJob, AppendFailureAudit, Release
  <2>3. CASE Fault(p)
    BY <1>0, <1>3, <2>3 DEF Fault, IoError, EntryError, LockInitError,
       ReleaseError, Crash
  <2>. QED  BY <2>1, <2>2, <2>3 DEF Step
<1>. QED  BY <1>1, <1>2, <1>3, <1>4

(* What is left to show of a step: its disk, and the one who took it.      *)
LEMMA AloneKept ==
  ASSUME Alone, TypeOK, AloneInv, NEW p \in Invocations, Step(p) \/ Fault(p),
         DiskInv', Writes(p)', Counts(p)', ComesAfter(p)'
  PROVE  AloneInv'
<1>1. /\ \A q \in Invocations \ {p} :
           /\ pc'[q] \notin Live /\ now'[q] = now[q] /\ fd'[q] = "closed"
           /\ now[q] <= clock
      /\ clock' = clock
  BY OthersRest DEF AloneInv, Counts
<1>2. Solitary'
  BY <1>1 DEF Solitary
<1>3. ASSUME NEW q \in Invocations \ {p}
      PROVE  Writes(q)' /\ Counts(q)' /\ ComesAfter(q)'
  <2>1. pc'[q] \notin Live /\ pc'[q] \notin Loaded /\ pc'[q] \notin Writing
        /\ pc'[q] \notin {"reading", "filling", "renaming", "auditing"}
    BY <1>1 DEF Live, Holding, Loaded, Writing, BeforeLock
  <2>. QED  BY <1>1, <2>1 DEF Writes, Counts, ComesAfter
<1>. QED  BY <1>2, <1>3 DEF AloneInv

LEMMA DiskKept ==
  ASSUME DiskInv, UNCHANGED <<clock, file, jobs, failedAt>>
  PROVE  DiskInv'
BY DEF DiskInv, OnDisk, Resumption, DayKey

(* An invocation that ends has no file open and nothing else to keep.      *)
LEMMA EndedKept ==
  ASSUME Alone, TypeOK, AloneInv, NEW p \in Invocations, Step(p) \/ Fault(p),
         UNCHANGED <<file, jobs, failedAt>>, pc'[p] = "ended",
         now'[p] <= clock, fd'[p] = "closed"
  PROVE  AloneInv'
<1>1. clock' = clock
  BY OthersRest
<1>2. DiskInv'
  BY <1>1, DiskKept DEF AloneInv
<1>3. Writes(p)' /\ Counts(p)' /\ ComesAfter(p)'
  BY <1>1 DEF Writes, Counts, ComesAfter, Live, Holding, Loaded, Writing, BeforeLock
<1>. QED  BY <1>2, <1>3, AloneKept

LEMMA AloneEntry ==
  ASSUME Alone, TypeOK, AloneInv, NEW p \in Invocations,
         Start(p) \/ ReadState(p) \/ ReadLock(p) \/ RemoveStaleLock(p)
         \/ CreateLock(p)
  PROVE  AloneInv'
<1>. USE DEF Goto, Save, mine, history
<1>0. /\ pc \in [Invocations -> {"idle", "ended"} \cup Live]
      /\ now \in [Invocations -> 0..MaxClock] /\ clock \in 0..MaxClock
      /\ loaded \in [Invocations -> States]
      /\ saving \in [Invocations -> States]
      /\ purpose \in [Invocations -> {"charge", "failure", "clear"}]
      /\ jobs \in [Days -> Nat] /\ MaxClock \in Nat /\ MaxRunsPerDay \in Nat
  BY TimeAssumption DEF TypeOK
<1>1. /\ DiskInv /\ Writes(p) /\ Counts(p) /\ ComesAfter(p)
      /\ Step(p)
  BY DEF AloneInv, Step
<1>2. /\ UNCHANGED <<clock, file, jobs, failedAt, fd>>
      /\ pc[p] \in {"idle", "reading"} \cup BeforeLock /\ fd[p] = "closed"
  <2>1. UNCHANGED <<clock, file, jobs, failedAt, fd>>
        /\ pc[p] \in {"idle", "reading"} \cup BeforeLock
    BY DEF Start, ReadState, ReadLock, RemoveStaleLock, CreateLock, BeforeLock
  <2>. QED  BY <1>1, <2>1 DEF Writes, BeforeLock
<1>3. DiskInv'
  BY <1>1, <1>2, DiskKept
<1>4. CASE pc'[p] = "ended"
  <2>1. now'[p] <= clock
    BY <1>0, <1>1 DEF Start, ReadState, ReadLock, RemoveStaleLock, CreateLock, Counts
  <2>. QED  BY <1>1, <1>2, <1>4, <2>1, EndedKept
<1>5. CASE Start(p) /\ pc'[p] = "reading"
  <2>1. now'[p] = clock
    BY <1>0, <1>5 DEF Start
  <2>2. Writes(p)'
    BY <1>2, <1>5 DEF Writes, Writing
  <2>3. Counts(p)'
    <3>1. pc'[p] \notin Loaded /\ clock \in Nat
      BY <1>0, <1>5 DEF Loaded, BeforeLock, Writing
    <3>2. file \in States => file.day <= DayKey(clock)
      BY <1>1 DEF DiskInv
    <3>. QED  BY <1>2, <2>1, <3>1, <3>2 DEF Counts, DayKey
  <2>4. ComesAfter(p)'
    BY <1>1, <1>2, <1>5, <2>1
       DEF ComesAfter, DiskInv, Loaded, BeforeLock, Writing, Resumption, OnDisk
  <2>. QED  BY <1>1, <1>3, <2>2, <2>3, <2>4, AloneKept
<1>6. CASE ReadState(p) /\ pc'[p] = "checking"
  <2> DEFINE s == StateOnDay(now[p])
  <2>1. /\ pc[p] = "reading" /\ file # Torn /\ ~(s.nextAllowed > now[p])
        /\ ~(s.used >= MaxRunsPerDay) /\ loaded'[p] = s /\ now' = now
    BY <1>0, <1>6 DEF ReadState
  <2>2. /\ s \in States /\ s.day = DayKey(now[p])
        /\ file \in States => s.nextAllowed = file.nextAllowed
        /\ file \in States /\ file.day = DayKey(now[p]) => s.used = file.used
    BY <1>0, <2>1, StateOnDayTyped
  <2>3. s.day \in Days /\ s.used \in Nat /\ s.nextAllowed \in Nat
        /\ \A d \in Days : d \in Nat
    <3>1. \A d \in Days : d \in Nat
      BY DEF Days
    <3>. QED  BY <2>2, <3>1 DEF States
  <2>4. file = NoFile \/ file \in States
    BY <2>1 DEF TypeOK
  <2>5. Writes(p)'
    BY <1>2, <1>6 DEF Writes, Writing
  <2>10. /\ file = NoFile => \A d \in Days : jobs[d] = 0
         /\ file \in States =>
              /\ jobs[file.day] <= file.used
              /\ \A d \in Days : d > file.day => jobs[d] = 0
    BY <1>1 DEF DiskInv
  <2>.  HIDE DEF s
  <2>6. \A d \in Days : d > s.day => jobs[d] = 0
    <3>1. CASE file = NoFile
      BY <2>10, <3>1
    <3>2. CASE file \in States
      <4>1. file.day <= s.day /\ file.day \in Days
        BY <1>1, <2>1, <2>2, <3>2 DEF Counts, Live, States
      <4>. QED  BY <2>3, <2>10, <3>2, <4>1
    <3>. QED  BY <2>4, <3>1, <3>2
  <2>7. jobs[s.day] <= s.used
    <3>1. CASE file = NoFile
      BY <2>3, <2>10, <3>1
    <3>2. CASE file \in States
      <4>1. file.day <= s.day /\ file.day \in Days
        BY <1>1, <2>1, <2>2, <3>2 DEF Counts, Live, States
      <4>2. CASE file.day = s.day
        BY <2>2, <2>10, <3>2, <4>2
      <4>3. CASE s.day > file.day
        <5>1. jobs[s.day] = 0
          BY <2>3, <2>10, <3>2, <4>3
        <5>. QED  BY <2>3, <5>1
      <4>. QED  BY <2>3, <4>1, <4>2, <4>3
    <3>. QED  BY <2>4, <3>1, <3>2
  <2>8. Counts(p)'
    <3>1. jobs[s.day] \in Nat
      BY <1>0, <2>3
    <3>2. pc'[p] \notin Writing /\ now[p] <= clock
          /\ (file \in States => file.day <= DayKey(now[p]))
          /\ s.used < MaxRunsPerDay
      BY <1>0, <1>1, <1>6, <2>1, <2>3 DEF Counts, Live, Writing
    <3>. QED  BY <1>2, <2>1, <2>2, <2>3, <2>6, <2>7, <3>1, <3>2 DEF Counts, DayKey
  <2>9. ComesAfter(p)'
    <3>1. failedAt.known => now[p] >= Resumption
      <4>1. Resumption \in Nat /\ now[p] \in Nat
        BY <1>0, TimeAssumption DEF Resumption, TypeOK
      <4>2. OnDisk => now[p] >= Resumption
        BY <1>0, <2>1, <2>2, <2>3, <4>1 DEF OnDisk
      <4>. QED  BY <1>1, <2>1, <4>2 DEF ComesAfter
    <3>. QED  BY <1>2, <1>6, <2>1, <3>1 DEF ComesAfter, Resumption
  <2>. QED  BY <1>1, <1>3, <2>5, <2>8, <2>9, AloneKept
<1>7. CASE (ReadLock(p) \/ RemoveStaleLock(p) \/ CreateLock(p))
           /\ pc'[p] # "ended"
  <2>1. /\ pc[p] \in BeforeLock /\ UNCHANGED <<now, loaded>>
        /\ \/ pc'[p] \in BeforeLock
           \/ /\ pc'[p] = "opening" /\ purpose'[p] = "charge"
              /\ saving'[p] = ConsumeRun(loaded[p])
    BY <1>0, <1>7 DEF ReadLock, RemoveStaleLock, CreateLock, BeforeLock
  <2>2. Writes(p)'
    BY <1>2, <2>1 DEF Writes, Writing, BeforeLock
  <2>3. Counts(p)'
    BY <1>1, <1>2, <2>1
       DEF Counts, Loaded, BeforeLock, Writing, Live, Holding, DayKey
  <2>4. ComesAfter(p)'
    BY <1>1, <1>2, <2>1
       DEF ComesAfter, Loaded, BeforeLock, Writing, Resumption, OnDisk
  <2>. QED  BY <1>1, <1>3, <2>2, <2>3, <2>4, AloneKept
<1>. QED  BY <1>0, <1>4, <1>5, <1>6, <1>7 DEF Start, ReadState

(* What holds of a process inside the lock whatever it writes next.        *)
Inside(p) ==
  /\ now[p] \in Nat /\ now[p] <= clock /\ clock \in Nat
  /\ loaded[p] \in States /\ loaded[p].day \in Days /\ loaded[p].day \in Nat
  /\ loaded[p].day = DayKey(now[p]) /\ loaded[p].used < MaxRunsPerDay
  /\ loaded[p].used \in Nat /\ jobs[loaded[p].day] \in Nat
  /\ \A d \in Days : d \in Nat /\ (d > loaded[p].day => jobs[d] = 0)
  /\ jobs[loaded[p].day] <= loaded[p].used + 1
  /\ file \in States => file.day <= DayKey(now[p])

LEMMA InsideHolds ==
  ASSUME TypeOK, AloneInv, NEW p \in Invocations, pc[p] \in Loaded
  PROVE  Inside(p)
<1>1. pc[p] \in Live /\ Counts(p)
  BY DEF AloneInv, Loaded, BeforeLock, Writing, Live, Holding
<1>2. /\ now[p] \in Nat /\ clock \in Nat /\ loaded[p] \in States
      /\ loaded[p].day \in Days /\ loaded[p].used \in Nat
      /\ \A d \in Days : d \in Nat /\ jobs[d] \in Nat
  <2>1. now[p] \in 0 .. MaxClock /\ clock \in 0 .. MaxClock /\ loaded[p] \in States
        /\ jobs \in [Days -> Nat] /\ MaxClock \in Nat
    BY TimeAssumption DEF TypeOK
  <2>2. \A d \in Days : d \in Nat
    BY DEF Days
  <2>. QED  BY <2>1, <2>2 DEF States
<1>. QED  BY <1>1, <1>2 DEF Counts, Inside

(* Saving anything but the charge, or an error while saving.               *)
LEMMA AloneWork ==
  ASSUME Alone, TypeOK, AloneInv, NEW p \in Invocations,
         FinishJob(p) \/ IoError(p)
  PROVE  AloneInv'
<1>. USE DEF Goto, Save, mine, history
<1>0. /\ pc \in [Invocations -> {"idle", "ended"} \cup Live]
      /\ saving \in [Invocations -> States]
      /\ purpose \in [Invocations -> {"charge", "failure", "clear"}]
      /\ fd \in [Invocations -> {"closed", "tmp", "state", "gone"}]
  BY DEF TypeOK
<1>1. /\ DiskInv /\ Writes(p) /\ ComesAfter(p) /\ (Step(p) \/ Fault(p))
      /\ UNCHANGED <<clock, now, loaded, file, jobs, failedAt>>
      /\ pc[p] \in Loaded \ {"releasing"} /\ fd'[p] = "closed"
  <2>1. /\ DiskInv /\ Writes(p) /\ ComesAfter(p) /\ (Step(p) \/ Fault(p))
        /\ UNCHANGED <<clock, now, loaded, file, jobs, failedAt>>
        /\ pc[p] \in Loaded \ {"releasing"}
        /\ (pc[p] = "working" /\ fd' = fd) \/ fd'[p] = "closed"
    BY <1>0 DEF AloneInv, Step, Fault, FinishJob, IoError, Loaded, Writing
  <2>. QED  BY <2>1 DEF Writes
<1>2. /\ pc'[p] \in {"opening", "releasing"}
      /\ pc'[p] = "opening" =>
           \/ purpose'[p] = "failure" /\ saving'[p] = FailureState(p)
           \/ /\ purpose'[p] = "clear"
              /\ saving'[p] = ClearBackoff(ConsumeRun(loaded[p]))
  <2>1. ASSUME Catch(p)
        PROVE  /\ pc'[p] \in {"opening", "releasing"}
               /\ pc'[p] = "opening" =>
                    purpose'[p] = "failure" /\ saving'[p] = FailureState(p)
    BY <1>0, <2>1 DEF Catch
  <2>. QED  BY <1>0, <2>1 DEF FinishJob, IoError
<1>3. DiskInv'
  BY <1>1, DiskKept
<1>4. Writes(p)'
  BY <1>1, <1>2 DEF Writes, Writing, FailureState
<1>5. Counts(p)'
  BY <1>1, <1>2, InsideHolds
     DEF Inside, Counts, BeforeLock, Writing, Loaded, DayKey
<1>6. ComesAfter(p)'
  BY <1>1, <1>2 DEF ComesAfter, Resumption, OnDisk, Loaded, Writing, BeforeLock
<1>. QED  BY <1>1, <1>3, <1>4, <1>5, <1>6, AloneKept

LEMMA AloneWrite ==
  ASSUME Alone, TypeOK, AloneInv, NEW p \in Invocations,
         OpenTemp(p) \/ FillTemp(p)
  PROVE  AloneInv'
<1>. USE DEF Goto, mine, history
<1>1. /\ DiskInv /\ Writes(p) /\ ComesAfter(p) /\ Counts(p) /\ Step(p)
      /\ UNCHANGED <<clock, now, loaded, saving, purpose, jobs, failedAt>>
      /\ pc[p] \in Writing
  BY DEF AloneInv, Step, OpenTemp, FillTemp, Writing
<1>2. /\ pc'[p] \in {"filling", "renaming"} /\ file' = file
      /\ fd'[p] = IF pc'[p] = "filling" THEN "tmp" ELSE "closed"
      /\ pc'[p] = "renaming" => tmp' = saving[p]
  <2>1. /\ pc \in [Invocations -> {"idle", "ended"} \cup Live]
        /\ fd \in [Invocations -> {"closed", "tmp", "state", "gone"}]
    BY DEF TypeOK
  <2>2. pc[p] = "filling" => fd[p] = "tmp"
    BY <1>1 DEF Writes
  <2>. QED  BY <2>1, <2>2 DEF OpenTemp, FillTemp
<1>3. DiskInv'
  BY <1>1, <1>2, DiskKept
<1>4. Writes(p)'
  BY <1>1, <1>2 DEF Writes, Writing, FailureState
<1>5. Counts(p)'
  BY <1>1, <1>2 DEF Counts, BeforeLock, Writing, Loaded, DayKey, Live, Holding
<1>6. ComesAfter(p)'
  BY <1>1, <1>2 DEF ComesAfter, Resumption, OnDisk, Loaded, Writing, BeforeLock
<1>. QED  BY <1>1, <1>3, <1>4, <1>5, <1>6, AloneKept

(* The write is complete: a charge counts one more job, and no state that  *)
(* is written counts fewer than there were.                                *)
LEMMA AloneRename ==
  ASSUME Alone, TypeOK, AloneInv, NEW p \in Invocations, RenameTemp(p)
  PROVE  AloneInv'
<1>. USE DEF Goto, mine, history
<1> DEFINE s == saving[p]
           d0 == loaded[p].day
           u == loaded[p].used
<1>0. /\ pc \in [Invocations -> {"idle", "ended"} \cup Live]
      /\ purpose \in [Invocations -> {"charge", "failure", "clear"}]
      /\ fd \in [Invocations -> {"closed", "tmp", "state", "gone"}]
      /\ jobs \in [Days -> Nat] /\ now[p] \in 0 .. MaxClock
      /\ s \in States /\ Resumption \in Nat /\ FailureBackoff \in Nat
      /\ MaxRunsPerDay \in Nat /\ MaxClock \in Nat
  BY TimeAssumption DEF TypeOK, Resumption
<1>1. /\ DiskInv /\ Writes(p) /\ ComesAfter(p) /\ Counts(p) /\ Step(p)
      /\ UNCHANGED <<clock, now, loaded, saving, purpose, failedAt>>
      /\ pc[p] = "renaming" /\ file' = tmp /\ pc'[p] = AfterWrite(p)
  BY <1>0 DEF AloneInv, Step, RenameTemp
<1>2. Inside(p)
  BY <1>1, InsideHolds DEF Loaded, Writing
<1>3. /\ file' = s /\ fd[p] = "closed" /\ s # Torn
      /\ s.day = d0 /\ s.used = u + 1
      /\ purpose[p] = "failure" => s.nextAllowed = now[p] + FailureBackoff
  <2>1. /\ file' = s /\ fd[p] = "closed"
        /\ s = CASE purpose[p] = "charge" -> ConsumeRun(loaded[p])
                 [] purpose[p] = "failure" -> FailureState(p)
                 [] purpose[p] = "clear" -> ClearBackoff(ConsumeRun(loaded[p]))
    BY <1>1 DEF Writes, Writing
  <2>2. /\ ConsumeRun(loaded[p]) \in States
        /\ ConsumeRun(loaded[p]).day = d0 /\ ConsumeRun(loaded[p]).used = u + 1
    BY <1>0, <1>2, StatesTyped DEF Inside
  <2>3. /\ ClearBackoff(ConsumeRun(loaded[p])).day = d0
        /\ ClearBackoff(ConsumeRun(loaded[p])).used = u + 1
        /\ FailureState(p).day = d0 /\ FailureState(p).used = u + 1
        /\ FailureState(p).nextAllowed = now[p] + FailureBackoff
    BY <1>0, <2>2, StatesTyped DEF FailureState
  <2>. QED  BY <1>0, <2>1, <2>2, <2>3, StateAssumption
<1>. HIDE DEF s, d0, u
<1>4. /\ \A d \in Days \ {d0} : jobs'[d] = jobs[d]
      /\ jobs'[d0] = IF purpose[p] = "charge" THEN jobs[d0] + 1 ELSE jobs[d0]
      /\ d0 \in Days /\ u \in Nat /\ u < MaxRunsPerDay /\ d0 \in Nat
      /\ jobs[d0] \in Nat
  BY <1>0, <1>2 DEF RenameTemp, Inside, d0, u
<1>5. /\ jobs'[d0] <= u + 1 /\ jobs'[d0] <= MaxRunsPerDay
      /\ \A d \in Days : d > d0 => jobs'[d] = 0
  <2>1. purpose[p] = "charge" => jobs[d0] <= u
    BY <1>1 DEF Counts, Loaded, Writing, d0, u
  <2>2. jobs[d0] <= u + 1 /\ \A d \in Days : d \in Nat /\ (d > d0 => jobs[d] = 0)
    BY <1>2 DEF Inside, d0, u
  <2>3. jobs[d0] <= MaxRunsPerDay
    BY <1>1, <1>4 DEF DiskInv
  <2>. QED  BY <1>0, <1>4, <2>1, <2>2, <2>3
<1>6. /\ pc'[p] \in {"working", "auditing", "releasing"}
      /\ pc'[p] = "auditing" => purpose[p] = "failure"
  BY <1>0, <1>1 DEF AfterWrite
<1>7. d0 = DayKey(now[p]) /\ DayKey(now[p]) <= DayKey(clock)
  BY <1>2, DayMonotone DEF Inside, d0
<1>8. failedAt.known => now[p] >= Resumption /\ clock >= Resumption
  BY <1>0, <1>1, <1>2 DEF ComesAfter, Loaded, Writing, Inside
<1>9. DiskInv'
  <2>1. file' # NoFile /\ file' # Torn /\ file' \in States
    BY <1>0, <1>3, StateAssumption
  <2>2. \A d \in Days : jobs'[d] <= MaxRunsPerDay
    BY <1>1, <1>4, <1>5 DEF DiskInv
  <2>3. file'.day <= DayKey(clock) /\ jobs'[file'.day] <= file'.used
    BY <1>3, <1>5, <1>7
  <2>4. \A d \in Days : d > file'.day => jobs'[d] = 0
    BY <1>3, <1>5
  <2>5. Resumption' = Resumption /\ clock' = clock /\ failedAt' = failedAt
    BY <1>1 DEF Resumption
  <2>6. DayKey(clock)' = DayKey(clock)
    BY <2>5 DEF DayKey
  <2>. QED  BY <1>8, <2>1, <2>2, <2>3, <2>4, <2>5, <2>6 DEF DiskInv
<1>10. Writes(p)'
  <2>1. fd'[p] = "closed"
    BY <1>0, <1>3 DEF RenameTemp
  <2>. QED  BY <1>6, <2>1 DEF Writes, Writing
<1>11. Counts(p)'
  <2>1. now'[p] <= clock' /\ loaded'[p].day = DayKey(now[p])'
        /\ loaded'[p].used < MaxRunsPerDay
    BY <1>1, <1>2 DEF Inside, DayKey
  <2>2. loaded'[p].day = d0 /\ loaded'[p].used = u /\ file'.day = d0
    BY <1>1, <1>3 DEF d0, u
  <2>3. file'.day <= DayKey(now[p])'
    BY <1>4, <2>1, <2>2
  <2>4. pc'[p] \notin BeforeLock /\ pc'[p] \notin Writing
    BY <1>6 DEF BeforeLock, Writing
  <2>. QED  BY <1>5, <2>1, <2>2, <2>3, <2>4 DEF Counts
<1>12. ComesAfter(p)'
  <2>1. Resumption' = Resumption /\ now' = now /\ failedAt' = failedAt
    BY <1>1 DEF Resumption
  <2>. QED  BY <1>0, <1>3, <1>6, <1>8, <2>1 DEF ComesAfter
<1>. QED  BY <1>1, <1>9, <1>10, <1>11, <1>12, AloneKept

LEMMA AloneEnd ==
  ASSUME Alone, TypeOK, AloneInv, NEW p \in Invocations,
         \/ AppendFailureAudit(p) \/ Release(p) \/ EntryError(p)
         \/ LockInitError(p) \/ ReleaseError(p) \/ Crash(p)
  PROVE  AloneInv'
<1>. USE DEF Goto, mine, history
<1>0. /\ pc \in [Invocations -> {"idle", "ended"} \cup Live]
      /\ fd \in [Invocations -> {"closed", "tmp", "state", "gone"}]
      /\ now[p] \in Nat /\ clock \in Nat /\ MaxClock \in Nat
  BY TimeAssumption DEF TypeOK
<1>1. DiskInv /\ Writes(p) /\ ComesAfter(p) /\ Counts(p) /\ (Step(p) \/ Fault(p))
  BY DEF AloneInv, Step, Fault
<1>2. CASE Release(p) \/ EntryError(p) \/ LockInitError(p) \/ ReleaseError(p)
           \/ Crash(p)
  <2>1. UNCHANGED <<file, jobs, failedAt, now>> /\ pc'[p] = "ended"
    BY <1>0, <1>2 DEF Release, EntryError, LockInitError, ReleaseError, Crash
  <2>2. fd'[p] = "closed"
    BY <1>0, <1>1, <1>2 DEF Release, EntryError, LockInitError, ReleaseError,
       Crash, Writes, Holding, Live
  <2>. QED  BY <1>1, <2>1, <2>2, EndedKept DEF Counts
<1>3. CASE AppendFailureAudit(p)
  <2>1. /\ pc[p] = "auditing" /\ pc'[p] = "releasing"
        /\ UNCHANGED <<clock, now, loaded, fd, file, jobs>>
        /\ failedAt' = [time |-> now[p], known |-> TRUE]
    BY <1>0, <1>3 DEF AppendFailureAudit
  <2>2. Resumption' = now[p] + FailureBackoff
    BY <2>1 DEF Resumption
  <2>3. OnDisk'
    BY <1>0, <1>1, <2>1, <2>2, TimeAssumption DEF ComesAfter, OnDisk
  <2>4. DiskInv'
    BY <1>1, <2>1, <2>3 DEF DiskInv, DayKey
  <2>5. Writes(p)' /\ ComesAfter(p)'
    BY <1>1, <2>1 DEF Writes, ComesAfter, Writing
  <2>6. Counts(p)'
    BY <1>1, <2>1
       DEF Counts, Loaded, BeforeLock, Writing, Live, Holding, DayKey
  <2>. QED  BY <1>1, <2>4, <2>5, <2>6, AloneKept
<1>. QED  BY <1>2, <1>3

LEMMA AloneTick ==
  ASSUME TypeOK, AloneInv, Tick
  PROVE  AloneInv'
<1>1. /\ clock \in Nat /\ clock' = clock + 1
      /\ UNCHANGED <<pc, now, loaded, saving, purpose, caught, fd, tmp, file,
                     jobs, failedAt>>
      /\ Resumption \in Nat /\ \A p \in Invocations : now[p] \in Nat
  <2>1. MaxClock \in Nat /\ FailureBackoff \in Nat
    BY TimeAssumption
  <2>. QED  BY <2>1 DEF TypeOK, Tick, mine, history, Resumption
<1>2. /\ Resumption' = Resumption /\ (OnDisk' <=> OnDisk)
      /\ \A t : DayKey(t)' = DayKey(t)
  BY <1>1 DEF Resumption, OnDisk, DayKey
<1>3. DiskInv'
  <2>1. DayKey(clock) \in Nat /\ DayKey(clock) <= DayKey(clock + 1)
        /\ DayKey(clock + 1) \in Nat
    BY <1>1, DayMonotone
  <2>2. file \in States => file.day \in Nat
    BY DEF States, Days
  <2>3. DayKey(clock)' = DayKey(clock + 1)
    BY <1>1 DEF DayKey
  <2>4. file \in States => file.day <= DayKey(clock)'
    BY <2>1, <2>2, <2>3 DEF AloneInv, DiskInv
  <2>. QED  BY <1>1, <1>2, <2>4 DEF AloneInv, DiskInv
<1>4. ASSUME NEW p \in Invocations PROVE Writes(p)' /\ Counts(p)' /\ ComesAfter(p)'
  <2>1. Writes(p) /\ Counts(p) /\ ComesAfter(p)
    BY DEF AloneInv
  <2>2. Writes(p)'
    BY <1>1, <2>1 DEF Writes, FailureState
  <2>3. Counts(p)'
    BY <1>1, <1>2, <2>1 DEF Counts
  <2>4. ComesAfter(p)'
    BY <1>1, <1>2, <2>1 DEF ComesAfter
  <2>. QED  BY <2>2, <2>3, <2>4
<1>5. Solitary'
  BY <1>1 DEF AloneInv, Solitary
<1>. QED  BY <1>3, <1>4, <1>5 DEF AloneInv

LEMMA AloneStutters ==
  ASSUME TypeOK, AloneInv, UNCHANGED vars
  PROVE  AloneInv'
<1>1. UNCHANGED <<clock, pc, now, loaded, saving, purpose, caught, fd, tmp,
                  file, jobs, failedAt>>
  BY DEF vars, mine, history
<1>2. DiskInv' /\ Solitary'
  BY <1>1, DiskKept DEF AloneInv, Solitary
<1>3. ASSUME NEW p \in Invocations PROVE Writes(p)' /\ Counts(p)' /\ ComesAfter(p)'
  <2>1. Writes(p) /\ Counts(p) /\ ComesAfter(p)
    BY DEF AloneInv
  <2>. QED  BY <1>1, <2>1 DEF Writes, FailureState, Counts, DayKey, ComesAfter,
               Resumption, OnDisk
<1>. QED  BY <1>2, <1>3 DEF AloneInv

LEMMA AloneInit == Init => AloneInv
<1>. SUFFICES ASSUME Init PROVE AloneInv
  OBVIOUS
<1>1. DiskInv
  BY FileAssumption, StateAssumption, TimeAssumption
     DEF Init, DiskInv, NoFailure
<1>2. Solitary /\ \A p \in Invocations : Writes(p) /\ Counts(p) /\ ComesAfter(p)
  BY DEF Init, Solitary, Writes, Counts, ComesAfter, Live, Holding, Loaded,
     BeforeLock, Writing, NoFailure
<1>. QED  BY <1>1, <1>2 DEF AloneInv

(* Invocations that run one after another, as a timer starts them, leave a *)
(* state that counts what was started and holds what has failed            *)
(* (paperRunScheduler.ts 108-206), also when one of them dies or outlives  *)
(* its lock.                                                               *)
THEOREM AloneHolds ==
  ASSUME Alone
  PROVE  Spec => [](TypeOK /\ AloneInv)
<1>1. Init => TypeOK /\ AloneInv
  BY TypeInit, AloneInit
<1>2. TypeOK /\ AloneInv /\ [Next]_vars => TypeOK' /\ AloneInv'
  <2>. SUFFICES ASSUME TypeOK, AloneInv, [Next]_vars
                PROVE  TypeOK' /\ AloneInv'
    OBVIOUS
  <2>1. ASSUME NEW p \in Invocations, Step(p) \/ Fault(p)
        PROVE  AloneInv'
    BY <2>1, AloneEntry, AloneWork, AloneWrite, AloneRename, AloneEnd
       DEF Step, Fault
  <2>. QED  BY <2>1, TypeStep, AloneTick, AloneStutters DEF Next
<1>. QED  BY <1>1, <1>2, PTL DEF Spec

(* No day has more jobs than the limit: the charge is on disk before the   *)
(* job starts, and no later write takes it back (paperRunScheduler.ts      *)
(* 125-163).                                                               *)
THEOREM LimitHoldsAlone ==
  ASSUME Alone
  PROVE  Spec => []WithinDailyLimit
<1>1. TypeOK /\ AloneInv => WithinDailyLimit
  BY DEF AloneInv, DiskInv, WithinDailyLimit
<1>. QED  BY <1>1, AloneHolds, PTL

(* The next invocation finds the state readable, whichever write was       *)
(* interrupted (fileStore.ts).                                             *)
THEOREM StateReadableAlone ==
  ASSUME Alone
  PROVE  Spec => []StateReadable
<1>1. TypeOK /\ AloneInv => StateReadable
  BY DEF AloneInv, DiskInv, StateReadable
<1>. QED  BY <1>1, AloneHolds, PTL

(* No job starts before the backoff of the last reported failure has       *)
(* passed, also across a change of day (paperRunScheduler.ts 121, 187-206).*)
THEOREM BackoffHoldsAlone ==
  ASSUME Alone
  PROVE  Spec => BackoffHeld
<1>1. TypeOK /\ AloneInv =>
        \A p \in Invocations :
          pc[p] = "renaming" /\ pc'[p] = "working" /\ failedAt.known
            => now[p] >= failedAt.time + FailureBackoff
  BY DEF AloneInv, ComesAfter, Resumption, Loaded, Writing
<1>. QED  BY <1>1, AloneHolds, PTL DEF BackoffHeld, Spec
=============================================================================
