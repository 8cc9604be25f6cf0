-------------------------- MODULE OpeningCapacity --------------------------
(***************************************************************************)
(* Two files of the opening capacity of portfolio buckets, and what binds  *)
(* them.  Reservation events are appended to a journal, two lines each,    *)
(* behind a lock file and a pending file that bars everyone after an       *)
(* append that broke off.  The state document holds one projection per     *)
(* portfolio, recomputed from the events committed before the time of a    *)
(* portfolio snapshot; it is replaced as a whole by compare and set, under *)
(* a lock of its own made of numbered directories that are claimed,        *)
(* owned and released and never removed.                                   *)
(*                                                                         *)
(* A refresh takes the snapshot it is given; a publication takes its       *)
(* snapshot of the current sources and keeps them locked until the         *)
(* document is written.  Of the sources only the journal is modelled.      *)
(* A projection is the set of the events it counts, a document hash is the *)
(* document, and an owner token is the number of its generation.           *)
(***************************************************************************)
EXTENDS Naturals, Sequences, FiniteSets

CONSTANTS
  Refreshers,   \* processes calling refresh
  Publishers,   \* processes calling refreshFromCurrentPublication
  Appenders,    \* processes appending one reservation event
  Portfolios,
  Nobody, Absent,
  MaxClock,     \* bound: the clock stops here
  MaxRetries,   \* bound: repeated calls, all together
  MaxFaults     \* bound: failing operations and crashes, all together

Keepers == Refreshers \cup Publishers
Procs == Keepers \cup Appenders
Times == 0..MaxClock

ASSUME ProcAssumption ==
  /\ Refreshers \cap Publishers = {} /\ Keepers \cap Appenders = {}
  /\ Nobody \notin Procs
  /\ {MaxClock, MaxRetries, MaxFaults} \subseteq Nat
ASSUME AbsentAssumption ==
  /\ Absent \notin [of : Portfolios, time : Times]
  /\ Absent \notin [time : Times, by : Keepers, events : SUBSET Appenders]

VARIABLES
  clock,
  pc, outcome, retries,
  given,        \* portfolio and time of the snapshot or event of a call
  expected,     \* the document a caller has seen before its call
  at,           \* the generation listed last, then the one claimed
  held,         \* the document as read under its lock, then the next one
  gens,         \* the lock directory: "claimed", "owned" or "released"
  document,
  journal, pending, journalLock,
  faults

call == <<retries, given, expected>>
work == <<at, held>>
journaling == <<journal, pending, journalLock>>
disk == <<gens, document, journaling>>
vars == <<clock, pc, call, outcome, work, disk, faults>>

Goto(p, there) == pc' = [pc EXCEPT ![p] = there]
Result(p, r) == outcome' = [outcome EXCEPT ![p] = r]

(* Between claiming a generation and leaving it.                           *)
Inside == {"owning", "reading", "resolving", "sources", "deciding",
           "writing", "unlocking", "releasing"}
Appending == {"checking", "barring", "entering", "committing", "lifting"}
Live == {"listing", "inspecting", "claiming"} \cup Inside \cup Appending

-----------------------------------------------------------------------------
(* The journal *)

(* readUnderLock accepts the file: pairs of an entry and its commit, every *)
(* event once.                                                             *)
Commit(i) == i \in DOMAIN journal /\ journal[i].kind = "commit"
Alternating ==
  \A i \in DOMAIN journal :
    IF i % 2 = 1 THEN journal[i].kind = "entry"
    ELSE Commit(i) /\ journal[i].by = journal[i - 1].by
Once == \A i, j \in DOMAIN journal :
          Commit(i) /\ Commit(j) /\ journal[i].by = journal[j].by => i = j
Readable == Len(journal) % 2 = 0 /\ Alternating /\ Once

Commits(f) == {i \in DOMAIN journal : Commit(i) /\ journal[i].of = f}
Persisted(p) == \E i \in DOMAIN journal : Commit(i) /\ journal[i].by = p

(* validateAvailability: an event decided before the last commit of its    *)
(* portfolio is refused.                                                   *)
Available(p) ==
  \A i \in Commits(given[p].of) : journal[i].time <= given[p].time

(* What a snapshot of time t counts, and whether that is unambiguous.      *)
EventsBefore(f, t) ==
  {journal[i].by : i \in {j \in Commits(f) : journal[j].time < t}}
Unambiguous(f, t) == \A i \in Commits(f) : journal[i].time # t

(* Defect: a snapshot of the future is resolved.                           *)
ResolvableAtAnyTime(f, t) == Unambiguous(f, t)

(* resolveStoredBucketOpeningCapacityStates accepts the snapshot.          *)
Resolvable(f, t) == t <= clock /\ Unambiguous(f, t)

(* assertHeldOpeningRecordedTimeCoverage: nothing recorded at the cutoff   *)
(* or after it.                                                            *)
Covered(f, t) == t <= clock /\ \A i \in Commits(f) : journal[i].time < t

Projection(p) ==
  [time |-> given[p].time, by |-> p,
   events |-> EventsBefore(given[p].of, given[p].time)]

(* readStored: each stored projection equals its recomputation.            *)
Verified(d) ==
  \A f \in Portfolios : d[f] # Absent =>
    /\ Resolvable(f, d[f].time)
    /\ d[f].events = EventsBefore(f, d[f].time)

-----------------------------------------------------------------------------
(* The lock of the document *)

(* A caller brings a snapshot and the document it has read before, or an   *)
(* event; after a failure it may repeat its call with the same.            *)
Call(p) ==
  /\ pc[p] = "idle"
  /\ \/ /\ outcome[p] = "new"
        /\ \E f \in Portfolios, t \in Times :
             /\ p \in Appenders => t = clock
             /\ given' = [given EXCEPT ![p] = [of |-> f, time |-> t]]
        /\ expected' = [expected EXCEPT ![p] = document]
        /\ UNCHANGED retries
     \/ /\ outcome[p] = "failed" /\ retries < MaxRetries
        /\ retries' = retries + 1
        /\ UNCHANGED <<given, expected>>
  /\ Goto(p, IF p \in Keepers THEN "listing" ELSE "sources")
  /\ Result(p, "none")
  /\ UNCHANGED <<clock, work, disk, faults>>

(* nextLockGeneration lists the directory, then reads owner and marker of  *)
(* the last generation.                                                    *)
List(p) ==
  /\ pc[p] = "listing"
  /\ at' = [at EXCEPT ![p] = Len(gens)]
  /\ Goto(p, IF gens = <<>> THEN "claiming" ELSE "inspecting")
  /\ UNCHANGED <<clock, call, outcome, held, disk, faults>>

(* Defect: a generation without owner counts as released.                  *)
GivenUpIfUnowned(g) == gens[g] # "owned"

GivenUp(g) == gens[g] = "released"

Inspect(p) ==
  /\ pc[p] = "inspecting"
  /\ Goto(p, IF GivenUp(at[p]) THEN "claiming" ELSE "listing")
  /\ UNCHANGED <<clock, call, outcome, work, disk, faults>>

(* mkdir of the next generation: whoever finds it made lists again.        *)
Claim(p) ==
  /\ pc[p] = "claiming"
  /\ IF at[p] + 1 \in DOMAIN gens
       THEN Goto(p, "listing") /\ UNCHANGED <<at, gens>>
       ELSE /\ gens' = Append(gens, "claimed")
            /\ at' = [at EXCEPT ![p] = @ + 1]
            /\ Goto(p, "owning")
  /\ UNCHANGED <<clock, call, outcome, held, document, journaling, faults>>

Mark(p, state) ==
  /\ gens' = [gens EXCEPT ![at[p]] = state]
  /\ UNCHANGED <<document, journaling>>

WriteOwner(p) ==
  /\ pc[p] = "owning"
  /\ Mark(p, "owned")
  /\ Goto(p, "reading")
  /\ UNCHANGED <<clock, call, outcome, work, faults>>

(* The result of the operation is the result of the call.                  *)
Release(p) ==
  /\ pc[p] = "releasing"
  /\ Mark(p, "released")
  /\ Goto(p, IF outcome[p] = "ok" THEN "ended" ELSE "idle")
  /\ UNCHANGED <<clock, call, outcome, work, faults>>

-----------------------------------------------------------------------------
(* The document *)

(* The journal, read while nobody holds its lock: taking and giving back   *)
(* the lock of a reader is one step with the reading.                      *)
JournalFree == journalLock = Nobody /\ ~pending /\ Readable

ReadStored(p) ==
  /\ pc[p] = "reading"
  /\ journalLock = Nobody
  /\ IF JournalFree /\ Verified(document)
       THEN /\ held' = [held EXCEPT ![p] = document]
            /\ Goto(p, IF p \in Publishers THEN "sources" ELSE "resolving")
            /\ UNCHANGED outcome
       ELSE /\ Goto(p, "releasing") /\ Result(p, "failed")
            /\ UNCHANGED held
  /\ UNCHANGED <<clock, call, at, disk, faults>>

(* Defect: a projection of the same time is replaced.                      *)
AdvancesOrTies(old, new) == old # Absent => new.time >= old.time

Advances(old, new) == old # Absent => new.time > old.time

(* The retry of a success, compare and set, or a refusal.                  *)
Decide(p, projection, leaving) ==
  LET stored == held[p]
      f == given[p].of
      next == [stored EXCEPT ![f] = projection]
      may == stored = expected[p] /\ Advances(stored[f], projection)
  IN  \/ /\ stored = next
         /\ Result(p, "ok") /\ Goto(p, leaving) /\ UNCHANGED held
      \/ /\ stored # next /\ may
         /\ held' = [held EXCEPT ![p] = next]
         /\ Goto(p, "writing") /\ UNCHANGED outcome
      \/ /\ stored # next /\ ~may
         /\ Result(p, "failed") /\ Goto(p, leaving) /\ UNCHANGED held

(* A snapshot that is stored in the document is not resolved again.        *)
Resolve(p) ==
  LET was == held[p][given[p].of]
      known == was # Absent /\ was.by = p
  IN  /\ pc[p] = "resolving"
      /\ known \/ journalLock = Nobody
      /\ IF known THEN Decide(p, was, "releasing")
         ELSE IF JournalFree /\ Resolvable(given[p].of, given[p].time)
         THEN Decide(p, Projection(p), "releasing")
         ELSE Result(p, "failed") /\ Goto(p, "releasing") /\ UNCHANGED held
      /\ UNCHANGED <<clock, call, at, disk, faults>>

(* withPublishedCurrentOpeningBudget, and its consumer up to the write.    *)
Publish(p) ==
  /\ pc[p] = "deciding"
  /\ IF ~pending /\ Readable /\ Covered(given[p].of, given[p].time)
       THEN Decide(p, Projection(p), "unlocking")
       ELSE Result(p, "failed") /\ Goto(p, "unlocking") /\ UNCHANGED held
  /\ UNCHANGED <<clock, call, at, disk, faults>>

Replace(p) ==
  /\ document' = held[p]
  /\ UNCHANGED <<gens, journaling>>

AfterWriting(p) == IF p \in Publishers THEN "unlocking" ELSE "releasing"

WriteSnapshot(p) ==
  /\ pc[p] = "writing"
  /\ Replace(p)
  /\ Result(p, "ok") /\ Goto(p, AfterWriting(p))
  /\ UNCHANGED <<clock, call, work, faults>>

-----------------------------------------------------------------------------
(* Appending an event *)

AcquireJournal(p) ==
  /\ pc[p] = "sources" /\ journalLock = Nobody
  /\ journalLock' = p
  /\ Goto(p, IF p \in Publishers THEN "deciding" ELSE "checking")
  /\ UNCHANGED <<clock, call, outcome, work, gens, document, journal, pending,
                 faults>>

(* readUnderLock, then a repetition, a refusal, or a new event.            *)
CheckEvent(p) ==
  /\ pc[p] = "checking"
  /\ IF ~pending /\ Readable /\ ~Persisted(p) /\ Available(p)
       THEN Goto(p, "barring") /\ UNCHANGED outcome
       ELSE /\ Goto(p, "unlocking")
            /\ Result(p, IF ~pending /\ Readable /\ Persisted(p)
                         THEN "ok" ELSE "failed")
  /\ UNCHANGED <<clock, call, work, disk, faults>>

(* Defect: an append goes without the pending file.                        *)
BarNot(b) == UNCHANGED disk

Bar(b) == pending' = b /\ UNCHANGED <<gens, document, journal, journalLock>>
Write(p, kind) ==
  /\ journal' = Append(journal, [kind |-> kind, by |-> p, of |-> given[p].of,
                              time |-> clock])
  /\ UNCHANGED <<gens, document, pending, journalLock>>
Unlock == journalLock' = Nobody /\ UNCHANGED <<gens, document, journal, pending>>

RaiseBarrier(p) ==
  /\ pc[p] = "barring"
  /\ Bar(TRUE)
  /\ Goto(p, "entering")
  /\ UNCHANGED <<clock, call, outcome, work, faults>>

AppendEntry(p) ==
  /\ pc[p] = "entering"
  /\ Write(p, "entry")
  /\ Goto(p, "committing")
  /\ UNCHANGED <<clock, call, outcome, work, faults>>

AppendCommit(p) ==
  /\ pc[p] = "committing"
  /\ Write(p, "commit")
  /\ Goto(p, "lifting")
  /\ UNCHANGED <<clock, call, outcome, work, faults>>

LiftBarrier(p) ==
  /\ pc[p] = "lifting"
  /\ Bar(FALSE)
  /\ Result(p, "ok") /\ Goto(p, "unlocking")
  /\ UNCHANGED <<clock, call, work, faults>>

AfterUnlocking(p) ==
  IF p \in Publishers THEN "releasing"
  ELSE IF outcome[p] = "ok" THEN "ended" ELSE "idle"

ReleaseJournal(p) ==
  /\ pc[p] = "unlocking"
  /\ Unlock
  /\ Goto(p, AfterUnlocking(p))
  /\ UNCHANGED <<clock, call, outcome, work, faults>>

-----------------------------------------------------------------------------
(* Deadlines and faults *)

(* Where a call goes that throws: what it holds is given back, except a    *)
(* generation without owner and a lock whose release failed.               *)
FailureExit(p) ==
  CASE pc[p] \in {"reading", "resolving"} -> "releasing"
    [] pc[p] = "sources" /\ p \in Publishers -> "releasing"
    [] pc[p] = "writing" -> AfterWriting(p)
    [] pc[p] = "unlocking" /\ p \in Publishers -> "releasing"
    [] pc[p] \in {"deciding"} \cup Appending -> "unlocking"
    [] OTHER -> "idle"

Throw(p) == Result(p, "failed") /\ Goto(p, FailureExit(p))

(* lockTimeoutMs of the document lock, looked at before every listing, or  *)
(* of the journal lock.                                                    *)
TimeOut(p) ==
  /\ \/ pc[p] = "listing"
     \/ pc[p] \in {"reading", "resolving", "sources"} /\ journalLock # Nobody
  /\ Throw(p)
  /\ UNCHANGED <<clock, call, work, disk, faults>>

(* The lock of the journal was created, or not removed, by a failing call. *)
StrayLock(p) ==
  /\ pc[p] \in {"reading", "resolving", "sources"} /\ journalLock = Nobody
  /\ journalLock' = p
  /\ UNCHANGED <<gens, document, journal, pending>>

(* What a failing operation may leave behind: nothing, part of its effect, *)
(* or all of it.                                                           *)
Leaves(p) ==
  \/ pc[p] = "owning" /\ Mark(p, "owned")
  \/ pc[p] = "releasing" /\ Mark(p, "released")
  \/ pc[p] = "writing" /\ Replace(p)
  \/ pc[p] = "barring" /\ Bar(TRUE)
  \/ pc[p] = "entering" /\ \E kind \in {"torn", "entry"} : Write(p, kind)
  \/ pc[p] = "committing" /\ \E kind \in {"torn", "commit"} : Write(p, kind)
  \/ pc[p] = "lifting" /\ Bar(FALSE)
  \/ pc[p] = "unlocking" /\ Unlock
  \/ StrayLock(p)
  \/ pc[p] \in Live /\ UNCHANGED disk

Break(p) ==
  /\ faults < MaxFaults /\ faults' = faults + 1
  /\ Leaves(p) /\ Throw(p)
  /\ UNCHANGED <<clock, call, work>>

(* The process dies and leaves what it holds.                              *)
Die(p) ==
  /\ faults < MaxFaults /\ faults' = faults + 1
  /\ pc[p] \in Live
  /\ StrayLock(p) \/ UNCHANGED disk
  /\ Goto(p, "dead")
  /\ UNCHANGED <<clock, call, outcome, work>>

-----------------------------------------------------------------------------
Tick ==
  /\ clock < MaxClock /\ clock' = clock + 1
  /\ UNCHANGED <<pc, call, outcome, work, disk, faults>>

Init ==
  /\ clock = 0
  /\ pc = [p \in Procs |-> "idle"]
  /\ outcome = [p \in Procs |-> "new"] /\ retries = 0
  /\ given = [p \in Procs |-> Absent]
  /\ document = [f \in Portfolios |-> Absent]
  /\ expected = [p \in Procs |-> document]
  /\ held = expected
  /\ at = [p \in Procs |-> 0]
  /\ gens = <<>> /\ journal = <<>> /\ pending = FALSE /\ journalLock = Nobody
  /\ faults = 0

Proceed(p) ==
  \/ List(p) \/ Inspect(p) \/ Claim(p) \/ WriteOwner(p) \/ ReadStored(p)
  \/ Resolve(p) \/ Publish(p) \/ WriteSnapshot(p) \/ Release(p)
  \/ AcquireJournal(p) \/ CheckEvent(p) \/ RaiseBarrier(p) \/ AppendEntry(p)
  \/ AppendCommit(p) \/ LiftBarrier(p) \/ ReleaseJournal(p)

Next ==
  \/ Tick
  \/ \E p \in Procs : Call(p) \/ Proceed(p) \/ TimeOut(p) \/ Break(p) \/ Die(p)

Spec == Init /\ [][Next]_vars

-----------------------------------------------------------------------------
(* Type invariant *)

Projections == [time : Times, by : Keepers, events : SUBSET Appenders]
Documents == [Portfolios -> Projections \cup {Absent}]
Lines == [kind : {"entry", "commit", "torn"}, by : Appenders,
          of : Portfolios, time : Times]

TypeOK ==
  /\ clock \in Times /\ faults \in 0..MaxFaults
  /\ pc \in [Procs -> {"idle", "ended", "dead"} \cup Live]
  /\ outcome \in [Procs -> {"new", "none", "ok", "failed"}]
  /\ retries \in 0..MaxRetries
  /\ given \in [Procs -> [of : Portfolios, time : Times] \cup {Absent}]
  /\ expected \in [Procs -> Documents] /\ held \in [Procs -> Documents]
  /\ at \in [Procs -> Nat]
  /\ gens \in Seq({"claimed", "owned", "released"})
  /\ document \in Documents
  /\ journal \in Seq(Lines) /\ pending \in BOOLEAN
  /\ journalLock \in Procs \cup {Nobody}

-----------------------------------------------------------------------------
(* Properties *)

(* "Outer state lock ... serializes readers and writers": whatever is      *)
(* listed while markers are being written, one process at most is between  *)
(* claiming a generation and releasing it.                                 *)
OneOwner ==
  \A p, q \in Keepers : pc[p] \in Inside /\ pc[q] \in Inside => p = q

(* After an append that broke off before, between or after its two lines,  *)
(* nobody gets to read half of it: without barrier the journal is whole.   *)
JournalSound == ~pending => Readable

(* A stored projection is what its snapshot yields, also after every later *)
(* event; otherwise no call could ever read the document again.  (An event *)
(* at the very time of the snapshot makes the snapshot ambiguous, and every*)
(* later call is refused.)                                                 *)
ProjectionsStable ==
  \A f \in Portfolios :
    document[f] # Absent => document[f].events = EventsBefore(f, document[f].time)

(* What has been acknowledged stands: a projection until a later one of    *)
(* its portfolio, an event once, whatever failed and was repeated.         *)
AcknowledgedStands ==
  \A p \in Procs : pc[p] = "ended" =>
    IF p \in Appenders
    THEN \E i \in DOMAIN journal : \A j \in DOMAIN journal :
           Commit(j) /\ journal[j].by = p <=> j = i
    ELSE LET now == document[given[p].of]
         IN  now # Absent /\ (now.by = p \/ now.time > given[p].time)
=============================================================================
