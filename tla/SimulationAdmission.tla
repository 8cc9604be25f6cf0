------------------------- MODULE SimulationAdmission -------------------------
(***************************************************************************)
(* Admission of paper simulations by local operations servers              *)
(* (api/paperSimulationRuns.ts) and the evidence they leave on disk        *)
(* (storage/paperSimulationObservationStore.ts).                           *)
(*                                                                         *)
(* A server runs one simulation at a time: a request takes the slot before *)
(* its first await and gives it back after its runner has settled.  An     *)
(* identity is a millisecond and a seed, so that requests of two servers,  *)
(* or of one server one after the other, may choose the same; the          *)
(* exclusive creation of a directory decides between them.  In it the      *)
(* request leaves its input files and a log of at most two lines, each     *)
(* written behind a barrier that readers without a lock look for.          *)
(*                                                                         *)
(* A line is torn from the opening of the log until it has been synced.  A *)
(* step of a request may fail, and a server may crash between any two      *)
(* steps; it restarts with a free slot.                                    *)
(***************************************************************************)
EXTENDS Naturals, Sequences

CONSTANTS Requests, Servers, Ids, Readers,
          ServerOf,   \* the server each request is sent to
          MaxFaults,  \* bound on failed steps and crashes
          None

Accepted == "accepted"
RunnerFailed == "runner_failed"
Replies == {Accepted, "already_running", "conflict", "failed"}
Answers == {"missing", "unavailable", "invalid", "unknown", RunnerFailed}

ASSUME NoneAssumption ==
    None \notin Requests \cup Servers \cup Ids \cup Replies \cup Answers
ASSUME ServerAssumption == ServerOf \in [Requests -> Servers]
ASSUME FaultAssumption == MaxFaults \in Nat

VARIABLES slot,    \* the request in flight of each server (inFlightRunsByOptions)
          req,     \* where each request stands
          dirs,    \* identities whose directory exists
          marker,  \* the file that names the runtime of the storage
          log,     \* the observations of each identity
          lock,    \* the barrier of each log
          view,    \* where each reader stands
          faults

vars == <<slot, req, dirs, marker, log, lock, view, faults>>
disk == <<dirs, marker, log, lock>>

Line(event, r) == [event |-> event, by |-> r]

NoLog == [lines |-> <<>>, torn |-> FALSE]

Init == /\ slot = [s \in Servers |-> None]
        /\ req = [r \in Requests |-> [at |-> "new", id |-> None,
                                      event |-> Accepted, reply |-> None]]
        /\ dirs = {}
        /\ marker = "absent"
        /\ log = [i \in Ids |-> NoLog]
        /\ lock = [i \in Ids |-> None]
        /\ view = [q \in Readers |-> [at |-> "new", id |-> None,
                                      seen |-> NoLog, answer |-> None]]
        /\ faults = 0

-----------------------------------------------------------------------------
(* A request.  Its places are named after the step it takes next.          *)

At(r, place) == req[r].at = place
Id(r) == req[r].id

Goes(r, place) == req' = [req EXCEPT ![r].at = place]

(* Only the owner of the slot gives it back.                               *)
Release(r) == slot' = [slot EXCEPT ![ServerOf[r]] = IF @ = r THEN None ELSE @]

(* Mutant of ReleaseOnFailure: a failed admission keeps the slot.          *)
KeepSlot(r) == IF req[r].event = Accepted THEN UNCHANGED slot ELSE Release(r)

ReleaseOnFailure(r) == Release(r)

Replied(r, reply) == req' = [req EXCEPT ![r].at = "done", ![r].reply = reply]

(* No await between the look at the slot and its reservation.              *)
Receive(r) ==
    /\ At(r, "new")
    /\ \/ /\ slot[ServerOf[r]] # None
          /\ Replied(r, "already_running")
          /\ UNCHANGED slot
       \/ /\ slot[ServerOf[r]] = None
          /\ slot' = [slot EXCEPT ![ServerOf[r]] = r]
          /\ \E i \in Ids: req' = [req EXCEPT ![r].at = "reserve", ![r].id = i]
    /\ UNCHANGED <<disk, view, faults>>

(* Mutant of Taken: an existing directory is good enough.                  *)
NeverTaken(i) == FALSE

Taken(i) == i \in dirs

Reserve(r) ==
    /\ At(r, "reserve")
    /\ \/ /\ Taken(Id(r))
          /\ Replied(r, "conflict")
          /\ Release(r)
          /\ UNCHANGED dirs
       \/ /\ ~Taken(Id(r))
          /\ dirs' = dirs \cup {Id(r)}
          /\ Goes(r, "mark")
          /\ UNCHANGED slot
    /\ UNCHANGED <<marker, log, lock, view, faults>>

(* The first request ever creates the marker and fills it; the others must *)
(* find it whole (see Stopped for the ones that do not).                     *)
Mark(r) ==
    /\ At(r, "mark")
    /\ \/ /\ marker = "absent"
          /\ marker' = "torn"
          /\ Goes(r, "fill")
       \/ /\ marker = "whole"
          /\ Goes(r, "persist")
          /\ UNCHANGED marker
    /\ UNCHANGED <<slot, dirs, log, lock, view, faults>>

Fill(r) ==
    /\ At(r, "fill")
    /\ marker' = "whole"
    /\ Goes(r, "persist")
    /\ UNCHANGED <<slot, dirs, log, lock, view, faults>>

(* The canonical request and the input snapshot: exclusive files that no   *)
(* other request of the model touches.                                     *)
Persist(r) ==
    /\ At(r, "persist")
    /\ Goes(r, "lock")
    /\ UNCHANGED <<slot, disk, view, faults>>

-----------------------------------------------------------------------------
(* Both lines are appended in the same way.                                *)

Lock(r) ==
    /\ At(r, "lock")
    /\ lock[Id(r)] = None
    /\ lock' = [lock EXCEPT ![Id(r)] = r]
    /\ Goes(r, IF req[r].event = Accepted THEN "write" ELSE "check")
    /\ UNCHANGED <<slot, dirs, marker, log, view, faults>>

Outcome(l) ==
    LET events == [n \in DOMAIN l.lines |-> l.lines[n].event]
    IN  IF l.torn THEN "invalid"
        ELSE IF events = <<Accepted>> THEN "unknown"
        ELSE IF events = <<Accepted, RunnerFailed>> THEN RunnerFailed
        ELSE "invalid"

(* A failure is recorded onto an acceptance and nothing else.              *)
Check(r) ==
    /\ At(r, "check")
    /\ Outcome(log[Id(r)]) = "unknown"
    /\ Goes(r, "write")
    /\ UNCHANGED <<slot, disk, view, faults>>

Write(r) ==
    /\ At(r, "write")
    /\ log' = [log EXCEPT ![Id(r)] = [lines |-> @.lines, torn |-> TRUE]]
    /\ Goes(r, "sync")
    /\ UNCHANGED <<slot, dirs, marker, lock, view, faults>>

Sync(r) ==
    /\ At(r, "sync")
    /\ log' = [log EXCEPT ![Id(r)] =
                  [lines |-> Append(@.lines, Line(req[r].event, r)), torn |-> FALSE]]
    /\ Goes(r, "unlock")
    /\ UNCHANGED <<slot, dirs, marker, lock, view, faults>>

(* Mutant of ReleaseAfterLine: the slot is free once the reply is out.     *)
ReleaseAlways(r) == Release(r)

ReleaseAfterLine(r) ==
    IF req[r].event = Accepted THEN UNCHANGED slot ELSE Release(r)

(* With its acceptance durable and the barrier gone the request is         *)
(* answered and its runner dispatched; after its failure it is over.       *)
Unlock(r) ==
    /\ At(r, "unlock")
    /\ lock' = [lock EXCEPT ![Id(r)] = None]
    /\ IF req[r].event = Accepted
       THEN req' = [req EXCEPT ![r].at = "run", ![r].reply = Accepted]
       ELSE Goes(r, "done")
    /\ ReleaseAfterLine(r)
    /\ UNCHANGED <<dirs, marker, log, view, faults>>

Resolve(r) ==
    /\ At(r, "run")
    /\ Goes(r, "done")
    /\ Release(r)
    /\ UNCHANGED <<disk, view, faults>>

Reject(r) ==
    /\ At(r, "run")
    /\ req' = [req EXCEPT ![r].at = "lock", ![r].event = RunnerFailed]
    /\ UNCHANGED <<slot, disk, view, faults>>

-----------------------------------------------------------------------------
(* Failures.  A batch that fails before it appends gives its barrier back  *)
(* unless that fails too; one that fails later, or while taking the        *)
(* barrier down, leaves it.  Nothing is ever undone.                       *)

Working(r) == req[r].at \notin {"new", "run", "done", "dead"}

BarrierAfterFailure(r) ==
    IF req[r].at \in {"lock", "check", "write"} THEN {None, r}
    ELSE {lock[Id(r)]}

Quits(r) ==
    /\ \E left \in BarrierAfterFailure(r): lock' = [lock EXCEPT ![Id(r)] = left]
    /\ req' = [req EXCEPT ![r].at = "done",
                          ![r].reply = IF @ = None THEN "failed" ELSE @]
    /\ ReleaseOnFailure(r)
    /\ UNCHANGED <<dirs, marker, log, view>>

Fail(r) ==
    /\ faults < MaxFaults
    /\ Working(r)
    /\ Quits(r)
    /\ faults' = faults + 1

(* A marker that its creator never filled stops the request.  A barrier    *)
(* that stays and a log that is not its acceptance alone would do so too:  *)
(* that no request is left waiting for them shows that none meets them.    *)
Stopped(r) ==
    /\ At(r, "mark")
    /\ marker = "torn"
    /\ Quits(r)
    /\ UNCHANGED faults

Active(r, s) ==
    ServerOf[r] = s /\ req[r].at \notin {"new", "done", "dead"}

(* The barrier, the marker and the directories survive.                    *)
Crash(s) ==
    /\ faults < MaxFaults
    /\ slot[s] # None
    /\ slot' = [slot EXCEPT ![s] = None]
    /\ req' = [r \in Requests |->
                  IF Active(r, s)
                  THEN [req[r] EXCEPT !.at = "dead"] ELSE req[r]]
    /\ faults' = faults + 1
    /\ UNCHANGED <<disk, view>>

-----------------------------------------------------------------------------
(* Reading an observation without a lock.  The file is read at once: the   *)
(* code compares its size and times before and after, and a difference     *)
(* makes the answer "unavailable".                                         *)

Says(q, answer) == view' = [view EXCEPT ![q].at = "done", ![q].answer = answer]

FirstProbe(q) ==
    /\ view[q].at = "new"
    /\ \E i \in Ids:
          view' = [view EXCEPT ![q] =
              IF i \notin dirs THEN [@ EXCEPT !.at = "done", !.answer = "missing"]
              ELSE IF lock[i] # None
                   THEN [@ EXCEPT !.at = "done", !.answer = "unavailable"]
              ELSE [@ EXCEPT !.at = "read", !.id = i]]
    /\ UNCHANGED <<slot, req, disk, faults>>

ReadFile(q) ==
    /\ view[q].at = "read"
    /\ IF log[view[q].id] = NoLog THEN Says(q, "missing")
       ELSE view' = [view EXCEPT ![q].at = "probe", ![q].seen = log[view[q].id]]
    /\ UNCHANGED <<slot, req, disk, faults>>

SecondProbe(q) ==
    /\ view[q].at = "probe"
    /\ IF lock[view[q].id] # None THEN Says(q, "unavailable")
       ELSE view' = [view EXCEPT ![q].at = "match"]
    /\ UNCHANGED <<slot, req, disk, faults>>

(* Mutant of StillMatches: the second look at the barrier is enough.       *)
AlwaysMatches(q) == TRUE

StillMatches(q) == log[view[q].id] = view[q].seen

Match(q) ==
    /\ view[q].at = "match"
    /\ Says(q, IF StillMatches(q) THEN Outcome(view[q].seen) ELSE "unavailable")
    /\ UNCHANGED <<slot, req, disk, faults>>

-----------------------------------------------------------------------------
Step(r) == \/ Reserve(r) \/ Mark(r) \/ Fill(r) \/ Persist(r)
           \/ Lock(r) \/ Check(r) \/ Write(r) \/ Sync(r) \/ Unlock(r)
           \/ Resolve(r) \/ Reject(r) \/ Stopped(r)

Read(q) == FirstProbe(q) \/ ReadFile(q) \/ SecondProbe(q) \/ Match(q)

Next == \/ \E r \in Requests: Receive(r) \/ Step(r) \/ Fail(r)
        \/ \E s \in Servers: Crash(s)
        \/ \E q \in Readers: Read(q)

Spec == Init /\ [][Next]_vars

(* A server goes on with what it has begun, and a runner settles.          *)
FairSpec == Spec /\ \A r \in Requests: WF_vars(Step(r))

-----------------------------------------------------------------------------
(* Every variable keeps its type.                                          *)
Lines == [event : {Accepted, RunnerFailed}, by : Requests]
Logs == [lines : Seq(Lines), torn : BOOLEAN]

TypeOK ==
    /\ slot \in [Servers -> Requests \cup {None}]
    /\ req \in [Requests ->
          [at : {"new", "reserve", "mark", "fill", "persist", "lock", "check",
                 "write", "sync", "unlock", "run", "done", "dead"},
           id : Ids \cup {None},
           event : {Accepted, RunnerFailed},
           reply : Replies \cup {None}]]
    /\ dirs \subseteq Ids
    /\ marker \in {"absent", "torn", "whole"}
    /\ log \in [Ids -> Logs]
    /\ lock \in [Ids -> Requests \cup {None}]
    /\ view \in [Readers ->
          [at : {"new", "read", "probe", "match", "done"},
           id : Ids \cup {None}, seen : Logs,
           answer : Answers \cup {None}]]
    /\ faults \in 0 .. MaxFaults

(* A runner was dispatched only for the one request whose acceptance opens *)
(* the log of its identity, and the log goes on with that request alone,   *)
(* across servers, crashes and repeated identities (mkdir, appendDurably). *)
RunsAreAccepted ==
    \A r \in Requests: req[r].reply = Accepted =>
        LET lines == log[Id(r)].lines
        IN  /\ lines # <<>> /\ lines[1] = Line(Accepted, r)
            /\ \A n \in DOMAIN lines: lines[n].by = r
            /\ At(r, "run") => lock[Id(r)] = None /\ ~log[Id(r)].torn

(* The slot of a server names the one request it is working on or running, *)
(* and nothing when there is none (inFlightRunsByOptions, release).        *)
SlotTellsTheRun ==
    \A s \in Servers:
        {r \in Requests: Active(r, s)} = {slot[s]} \ {None}

(* A reader without a lock tells what the log holds at the moment of its   *)
(* last look, and never that it is invalid: the barrier and the            *)
(* fingerprint together hide every line in the making, also the one a      *)
(* crash left torn (readPaperSimulationObservation).                       *)
ReportsAreCurrent ==
    [][\A q \in Readers:
          view[q].answer = None /\ view[q]'.answer \notin {None, "missing", "unavailable"}
          => /\ view[q]'.answer = Outcome(log[view[q].id])
             /\ view[q]'.answer # "invalid"]_vars

(* A slot once taken comes free again: no failure leaves the server        *)
(* answering "already running" for ever (release in catch and finally).    *)
SlotComesFree == \A s \in Servers: slot[s] # None ~> slot[s] = None

=============================================================================
