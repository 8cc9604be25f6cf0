--------------------------- MODULE PaperScheduler ---------------------------
(***************************************************************************)
(* The one-shot scheduler gate in front of a paper run.  Every invocation  *)
(* is a process of its own with one fixed time, taken when it starts.  The *)
(* invocations of one data directory share a state file (day, runs used,   *)
(* backoff), its temporary file, and a lock file that whoever finds it     *)
(* older than the TTL may remove.                                          *)
(*                                                                         *)
(* Time is a bounded clock; a day is DayLength ticks.  The job is the      *)
(* paper run of PaperApplication, seen from here as something that         *)
(* completes, fails or throws.                                             *)
(***************************************************************************)
EXTENDS Naturals, FiniteSets

CONSTANTS
  Invocations,    \* processes, one call of run each
  MaxRunsPerDay, FailureBackoff, LockTtl, ScheduledTime,
  DayLength,      \* ticks of a day; ScheduledTime is a tick of it
  MaxClock,       \* bound: the clock stops here
  Alone,          \* no invocation starts while another one is alive
  Timely,         \* no invocation lives as long as LockTtl
  MayAbandon,     \* an invocation may die, or fail to remove its lock
  NoFile, Torn

ASSUME TimeAssumption ==
  /\ {MaxRunsPerDay, FailureBackoff, LockTtl, ScheduledTime, MaxClock}
       \subseteq Nat
  /\ DayLength \in Nat \ {0}
  /\ {Alone, Timely, MayAbandon} \subseteq BOOLEAN
ASSUME FileAssumption == NoFile # Torn /\ {NoFile, Torn} \cap Nat = {}

VARIABLES
  clock,
  pc, now,
  loaded, saving, purpose,  \* state as read, state being written, and why
  caught,                   \* the catch block has been entered
  fd,                       \* where the file opened for writing is now
  lock, tmp, file,          \* paper-run.lock, state .tmp, state
  jobs,                     \* history: jobs started on each day
  failedAt                  \* history: time of the last reported failure

mine == <<loaded, saving, purpose, caught>>
history == <<jobs, failedAt>>
vars == <<clock, pc, now, mine, fd, lock, tmp, file, history>>

-----------------------------------------------------------------------------
Days == 0..(MaxClock \div DayLength)

DayKey(t) == t \div DayLength

(* nextAllowed 0 stands for an absent nextAllowedAt: no time is before 0.  *)
States == [day : Days, used : Nat, nextAllowed : Nat]
ASSUME StateAssumption == {NoFile, Torn} \cap States = {}
NoFailure == [time |-> 0, known |-> FALSE]

Holding == {"opening", "filling", "renaming", "working", "auditing",
            "releasing"}
Live == {"reading", "checking", "removing", "locking"} \cup Holding

Goto(p, there) == pc' = [pc EXCEPT ![p] = there]

-----------------------------------------------------------------------------
(* The three states an invocation writes, from the one it read.            *)

ConsumeRun(s) == [s EXCEPT !.used = @ + 1]
MarkFailure(s, t) == [s EXCEPT !.nextAllowed = t + FailureBackoff]
ClearBackoff(s) == [s EXCEPT !.nextAllowed = 0]

(* Defect: a new day forgets the backoff together with the count.          *)
StateOnDayForgetful(t) ==
  IF file # NoFile /\ file.day = DayKey(t) THEN file
  ELSE [day |-> DayKey(t), used |-> 0, nextAllowed |-> 0]

(* readState: a stored state of another day keeps only its backoff.        *)
StateOnDay(t) ==
  IF file = NoFile THEN [day |-> DayKey(t), used |-> 0, nextAllowed |-> 0]
  ELSE IF file.day = DayKey(t) THEN file
  ELSE [day |-> DayKey(t), used |-> 0, nextAllowed |-> file.nextAllowed]

Save(p, state, why) ==
  /\ saving' = [saving EXCEPT ![p] = state]
  /\ purpose' = [purpose EXCEPT ![p] = why]
  /\ Goto(p, "opening")

-----------------------------------------------------------------------------
(* Gates *)

Tick ==
  /\ clock < MaxClock
  /\ Timely => \A p \in Invocations :
                 pc[p] \in Live => clock + 1 < now[p] + LockTtl
  /\ clock' = clock + 1
  /\ UNCHANGED <<pc, now, mine, fd, lock, tmp, file, history>>

(* A scheduled trigger is skipped before the configured time of day; a     *)
(* manual one is not.                                                      *)
Start(p) ==
  /\ pc[p] = "idle"
  /\ Alone => \A q \in Invocations : pc[q] \notin Live
  /\ now' = [now EXCEPT ![p] = clock]
  /\ \/ /\ clock % DayLength < ScheduledTime
        /\ Goto(p, "ended")
     \/ Goto(p, "reading")
  /\ UNCHANGED <<clock, mine, fd, lock, tmp, file, history>>

ReadState(p) ==
  /\ pc[p] = "reading"
  /\ IF file = Torn \/ StateOnDay(now[p]).nextAllowed > now[p]
                    \/ StateOnDay(now[p]).used >= MaxRunsPerDay
       THEN Goto(p, "ended") /\ UNCHANGED loaded
       ELSE /\ loaded' = [loaded EXCEPT ![p] = StateOnDay(now[p])]
            /\ Goto(p, "checking")
  /\ UNCHANGED <<clock, now, saving, purpose, caught, fd, lock, tmp, file,
                 history>>

-----------------------------------------------------------------------------
(* FileRunLock *)

(* Defect: the age of the lock is not compared with the TTL.               *)
LockExpiredAtOnce(t) == lock \notin {NoFile, Torn} /\ lock <= t

(* A lock file that does not parse never expires.                          *)
LockExpired(t) == lock \notin {NoFile, Torn} /\ lock + LockTtl <= t

ReadLock(p) ==
  /\ pc[p] = "checking"
  /\ Goto(p, IF LockExpired(now[p]) THEN "removing" ELSE "locking")
  /\ UNCHANGED <<clock, now, mine, fd, lock, tmp, file, history>>

(* The unlink names the path, not the lock that was read.                  *)
RemoveStaleLock(p) ==
  /\ pc[p] = "removing"
  /\ lock' = NoFile
  /\ Goto(p, "locking")
  /\ UNCHANGED <<clock, now, mine, fd, tmp, file, history>>

CreateLock(p) ==
  /\ pc[p] = "locking"
  /\ \/ /\ lock # NoFile
        /\ Goto(p, "ended")
        /\ UNCHANGED <<lock, saving, purpose>>
     \/ /\ lock = NoFile
        /\ lock' = now[p]
        /\ Save(p, ConsumeRun(loaded[p]), "charge")
  /\ UNCHANGED <<clock, now, loaded, caught, fd, tmp, file, history>>

Release(p) ==
  /\ pc[p] = "releasing"
  /\ lock' = NoFile
  /\ Goto(p, "ended")
  /\ UNCHANGED <<clock, now, mine, fd, tmp, file, history>>

-----------------------------------------------------------------------------
(* JsonFileStore.write: writeFile of the fixed temporary path, rename      *)

(* Defect: the state file itself is opened for writing.                    *)
OpenTempInPlace(p) ==
  /\ pc[p] = "opening"
  /\ tmp' = Torn /\ file' = Torn
  /\ fd' = [fd EXCEPT ![p] = "tmp"]
  /\ Goto(p, "filling")
  /\ UNCHANGED <<clock, now, mine, lock, history>>

OpenTemp(p) ==
  /\ pc[p] = "opening"
  /\ tmp' = Torn
  /\ fd' = [fd EXCEPT ![p] = "tmp"]
  /\ Goto(p, "filling")
  /\ UNCHANGED <<clock, now, mine, lock, file, history>>

(* The bytes go to the file that was opened, wherever a rename by another  *)
(* invocation has moved it since.                                          *)
FillTemp(p) ==
  /\ pc[p] = "filling"
  /\ tmp' = IF fd[p] = "tmp" THEN saving[p] ELSE tmp
  /\ file' = IF fd[p] = "state" THEN saving[p] ELSE file
  /\ fd' = [fd EXCEPT ![p] = "closed"]
  /\ Goto(p, "renaming")
  /\ UNCHANGED <<clock, now, mine, lock, history>>

(* What follows a completed write: the job is started after its charge.    *)
AfterWrite(p) ==
  CASE purpose[p] = "charge" -> "working"
    [] purpose[p] = "failure" -> "auditing"
    [] purpose[p] = "clear" -> "releasing"

RenameTemp(p) ==
  /\ pc[p] = "renaming" /\ tmp # NoFile
  /\ file' = tmp /\ tmp' = NoFile
  /\ fd' = [q \in Invocations |->
              CASE fd[q] = "tmp" -> "state" [] fd[q] = "state" -> "gone"
                [] OTHER -> fd[q]]
  /\ jobs' = IF purpose[p] = "charge"
               THEN [jobs EXCEPT ![loaded[p].day] = @ + 1] ELSE jobs
  /\ Goto(p, AfterWrite(p))
  /\ UNCHANGED <<clock, now, mine, lock, failedAt>>

-----------------------------------------------------------------------------
(* The job, and what its result writes *)

(* Defect: the failure state is written from the state as it was read.     *)
FailureStateUncharged(p) == MarkFailure(loaded[p], now[p])

FailureState(p) == MarkFailure(ConsumeRun(loaded[p]), now[p])

(* The catch block: once in it, another error leaves through finally.      *)
Catch(p) ==
  IF caught[p]
  THEN Goto(p, "releasing") /\ UNCHANGED <<caught, saving, purpose>>
  ELSE /\ caught' = [caught EXCEPT ![p] = TRUE]
       /\ Save(p, FailureState(p), "failure")

FinishJob(p) ==
  /\ pc[p] = "working"
  /\ \/ /\ Save(p, ClearBackoff(ConsumeRun(loaded[p])), "clear")
        /\ UNCHANGED caught
     \/ /\ Save(p, FailureState(p), "failure")
        /\ UNCHANGED caught
     \/ Catch(p)
  /\ UNCHANGED <<clock, now, loaded, fd, lock, tmp, file, history>>

AppendFailureAudit(p) ==
  /\ pc[p] = "auditing"
  /\ failedAt' = [time |-> now[p], known |-> TRUE]
  /\ Goto(p, "releasing")
  /\ UNCHANGED <<clock, now, mine, fd, lock, tmp, file, jobs>>

-----------------------------------------------------------------------------
(* Faults *)

(* A write or an audit append fails; a rename also fails when the          *)
(* temporary file has been renamed away.                                   *)
IoError(p) ==
  /\ pc[p] \in {"opening", "filling", "renaming", "auditing"}
  /\ Catch(p)
  /\ fd' = [fd EXCEPT ![p] = "closed"]
  /\ UNCHANGED <<clock, now, loaded, lock, tmp, file, history>>

(* Reading the state or getting at the lock fails before there is a lease. *)
EntryError(p) ==
  /\ pc[p] \in Live \ Holding
  /\ Goto(p, "ended")
  /\ UNCHANGED <<clock, now, mine, fd, lock, tmp, file, history>>

(* The lock file was created but not written; nobody removes it.           *)
LockInitError(p) ==
  /\ pc[p] = "locking" /\ lock = NoFile
  /\ lock' = Torn
  /\ Goto(p, "ended")
  /\ UNCHANGED <<clock, now, mine, fd, tmp, file, history>>

ReleaseError(p) ==
  /\ MayAbandon
  /\ pc[p] = "releasing"
  /\ Goto(p, "ended")
  /\ UNCHANGED <<clock, now, mine, fd, lock, tmp, file, history>>

Crash(p) ==
  /\ MayAbandon
  /\ pc[p] \in Live
  /\ Goto(p, "ended")
  /\ fd' = [fd EXCEPT ![p] = "closed"]
  /\ UNCHANGED <<clock, now, mine, lock, tmp, file, history>>

-----------------------------------------------------------------------------
Init ==
  /\ clock = 0
  /\ pc = [p \in Invocations |-> "idle"]
  /\ now = [p \in Invocations |-> 0]
  /\ loaded = [p \in Invocations |-> [day |-> 0, used |-> 0, nextAllowed |-> 0]]
  /\ saving = loaded
  /\ purpose = [p \in Invocations |-> "charge"]
  /\ caught = [p \in Invocations |-> FALSE]
  /\ fd = [p \in Invocations |-> "closed"]
  /\ lock = NoFile /\ tmp = NoFile /\ file = NoFile
  /\ jobs = [d \in Days |-> 0]
  /\ failedAt = NoFailure

Step(p) ==
  \/ Start(p) \/ ReadState(p) \/ ReadLock(p) \/ RemoveStaleLock(p)
  \/ CreateLock(p) \/ OpenTemp(p) \/ FillTemp(p) \/ RenameTemp(p)
  \/ FinishJob(p) \/ AppendFailureAudit(p) \/ Release(p)

Fault(p) ==
  \/ IoError(p) \/ EntryError(p) \/ LockInitError(p) \/ ReleaseError(p)
  \/ Crash(p)

Next == Tick \/ \E p \in Invocations : Step(p) \/ Fault(p)

Spec == Init /\ [][Next]_vars

-----------------------------------------------------------------------------
(* Type invariant *)

TypeOK ==
  /\ clock \in 0..MaxClock
  /\ pc \in [Invocations -> {"idle", "ended"} \cup Live]
  /\ now \in [Invocations -> 0..MaxClock]
  /\ loaded \in [Invocations -> States]
  /\ saving \in [Invocations -> States]
  /\ purpose \in [Invocations -> {"charge", "failure", "clear"}]
  /\ caught \in [Invocations -> BOOLEAN]
  /\ fd \in [Invocations -> {"closed", "tmp", "state", "gone"}]
  /\ lock \in Nat \cup {NoFile, Torn}
  /\ tmp \in States \cup {NoFile, Torn}
  /\ file \in States \cup {NoFile, Torn}
  /\ jobs \in [Days -> Nat]
  /\ failedAt \in [time : Nat, known : BOOLEAN]

-----------------------------------------------------------------------------
(* Properties *)

(* PAPER_SCHEDULER_MAX_RUNS_PER_DAY limits the jobs of a day over all      *)
(* invocations that share the state and lock paths                         *)
(* (docs/runbooks/ai-paper-trading-runbook.md 123).  It takes a charge     *)
(* that is on disk before the job starts and that no later write takes     *)
(* back, whatever dies or fails between two steps.                         *)
WithinDailyLimit == \A d \in Days : jobs[d] <= MaxRunsPerDay

(* The temporary file keeps a crash or a failing write from tearing the    *)
(* state: the next invocation finds it readable.                           *)
StateReadable == file # Torn

(* A failure that was reported holds off every later job, also across the  *)
(* change of day, until its backoff has passed.                            *)
BackoffHeld ==
  [][\A p \in Invocations :
       pc[p] = "renaming" /\ pc'[p] = "working" /\ failedAt.known
         => now[p] >= failedAt.time + FailureBackoff]_vars

(* At most one invocation is between taking and releasing the lock:        *)
(* "scheduler blocks concurrent run when lock file exists"                 *)
(* (src/scheduler/paperRunScheduler.test.ts 76).                           *)
OneAtATime == Cardinality({p \in Invocations : pc[p] \in Holding}) <= 1

-----------------------------------------------------------------------------
(* The inductive invariant of invocations that run one after another *)

Writing == {"opening", "filling", "renaming"}
BeforeLock == {"checking", "removing", "locking"}
Loaded == BeforeLock \cup Writing \cup {"working", "auditing", "releasing"}

Solitary ==
  \A p, q \in Invocations : pc[p] \in Live /\ pc[q] \in Live => p = q

(* The time before which no job may start.                                 *)
Resumption == failedAt.time + FailureBackoff
OnDisk == file \in States /\ file.nextAllowed >= Resumption

(* What the state file says: never torn, of no later day than today, with  *)
(* all jobs of its day counted and none on a later one, and holding a      *)
(* reported failure until its backoff has passed.                          *)
DiskInv ==
  /\ file # Torn
  /\ \A d \in Days :
       /\ jobs[d] <= MaxRunsPerDay
       /\ file = NoFile \/ (file \in States /\ d > file.day) => jobs[d] = 0
  /\ file \in States =>
       file.day <= DayKey(clock) /\ jobs[file.day] <= file.used
  /\ failedAt.known => clock >= Resumption \/ OnDisk

(* A file is open only to its writer, and complete when it is renamed.     *)
Writes(p) ==
  /\ fd[p] = IF pc[p] = "filling" THEN "tmp" ELSE "closed"
  /\ pc[p] = "renaming" => tmp = saving[p]
  /\ pc[p] \in Writing =>
       saving[p] = CASE purpose[p] = "charge" -> ConsumeRun(loaded[p])
                     [] purpose[p] = "failure" -> FailureState(p)
                     [] purpose[p] = "clear" ->
                          ClearBackoff(ConsumeRun(loaded[p]))

(* What was read counts every job that has started since but its own.      *)
Counts(p) ==
  /\ now[p] <= clock
  /\ pc[p] \in Live /\ file \in States => file.day <= DayKey(now[p])
  /\ pc[p] \in Loaded =>
       /\ loaded[p].day = DayKey(now[p]) /\ loaded[p].used < MaxRunsPerDay
       /\ \A d \in Days : d > loaded[p].day => jobs[d] = 0
       /\ jobs[loaded[p].day] <= loaded[p].used + 1
       /\ pc[p] \in BeforeLock \/ (pc[p] \in Writing /\ purpose[p] = "charge")
            => jobs[loaded[p].day] <= loaded[p].used

(* Who has read the state since a reported failure comes after its backoff.*)
ComesAfter(p) ==
  /\ failedAt.known =>
       /\ pc[p] = "reading" => now[p] >= Resumption \/ OnDisk
       /\ pc[p] \in Loaded \ {"releasing"} => now[p] >= Resumption
  /\ pc[p] = "auditing" =>
       file \in States /\ file.nextAllowed = now[p] + FailureBackoff

(* The strengthening under which the limit and the backoff are inductive   *)
(* when invocations run one after another (paperRunScheduler.ts 108-206,   *)
(* fileStore.ts).                                                          *)
AloneInv ==
  /\ Solitary /\ DiskInv
  /\ \A p \in Invocations : Writes(p) /\ Counts(p) /\ ComesAfter(p)
=============================================================================
