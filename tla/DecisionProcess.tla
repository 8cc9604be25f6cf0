--------------------------- MODULE DecisionProcess ---------------------------
(***************************************************************************)
(* The decisions of a Codex provider (ai/codexCliDecisionProvider.ts), one *)
(* after the other as its callers await them, and the child process that   *)
(* answers each (ai/processRunner.ts).                                     *)
(*                                                                         *)
(* decide() takes one unit of a budget and starts a child.  From then on   *)
(* the runner only reacts: data, pipe errors, exit, close and the error    *)
(* event of the child, and three timers, in whatever order the event loop  *)
(* delivers them.  Each callback is one action.  The child and whatever    *)
(* inherited its pipes belong to the operating system and are external.    *)
(* A settled run ignores every later callback, so that only the run of the *)
(* last call is kept.                                                      *)
(*                                                                         *)
(* A timer may fire at any moment once it is armed; of what the child      *)
(* writes only the number of bytes per stream is kept; its answer is valid *)
(* as soon as the first Answer bytes of stdout are there, so that a prefix *)
(* of the output can parse.                                                *)
(***************************************************************************)
EXTENDS Naturals

CONSTANTS Limit,       \* bytes each stream may deliver
          MaxWritten,  \* bound on the bytes a child writes to each stream
          Answer,      \* bytes of stdout that hold a valid decision
          MaxRuns,     \* the budget
          PerDay,      \* TRUE: per UTC day, FALSE: per run
          LastDay,     \* bound on the days of the clock
          None

Streams == {"stdout", "stderr"}
Signals == {"SIGTERM", "SIGKILL"}
Failures == {"timeout", "stdout_limit", "stderr_limit", "spawn_failed",
             "process_error"}
Terminations == {"closed", "not_started", "unconfirmed"}
Timers == {"execution", "grace", "kill"}
Answers == {"decision", "failed", "over_budget"}
ExitCodes == {"zero", "nonzero"}   \* None: ended by a signal, or not seen

ASSUME StreamAssumption == /\ Limit \in [Streams -> Nat \ {0}]
                           /\ MaxWritten \in [Streams -> Nat]
                           /\ Answer \in Nat \ {0}
ASSUME BudgetAssumption == /\ MaxRuns \in Nat
                           /\ PerDay \in BOOLEAN
                           /\ LastDay \in Nat \ {0}
ASSUME NoneAssumption ==
    None \notin Failures \cup Terminations \cup ExitCodes \cup Answers

VARIABLES today,   \* the UTC day of the clock
          used,    \* what the budget counted on each day
          child,   \* the child as the operating system knows it
          run,     \* the closure of the runner
          answer   \* what the last decide() returned, None while it awaits

vars == <<today, used, child, run, answer>>

-----------------------------------------------------------------------------
(* The budget.  That of a run never sees another day.                      *)

Day == IF PerDay THEN today ELSE 1

CanConsume == used[Day] < MaxRuns

Consume == used' = [used EXCEPT ![Day] = @ + 1]

-----------------------------------------------------------------------------
(* The runner's functions.  Each maps the closure of a run to the set of   *)
(* closures it may leave: the request for a signal may be refused.         *)

Fresh == [settled |-> FALSE, exited |-> FALSE, failure |-> None,
          got |-> [s \in Streams |-> 0], timers |-> {"execution"},
          asked |-> {}, delivered |-> {}, refused |-> FALSE,
          termination |-> None, code |-> None]

Finish(r, termination, code) ==
    [r EXCEPT !.settled = TRUE, !.timers = {},
              !.termination = termination, !.code = code]

RequestSignal(r, signal) ==
    IF r.exited THEN {r}
    ELSE LET tried == [r EXCEPT !.asked = @ \cup {signal}]
         IN  {[tried EXCEPT !.delivered = @ \cup {signal}],
              [tried EXCEPT !.refused = TRUE]}

(* Mutant of Stop: the last deadline is set with the first.                *)
StopWithLastDeadline(r, reason) ==
    IF r.failure # None THEN {r}
    ELSE RequestSignal([r EXCEPT !.failure = reason, !.timers = {"grace", "kill"}],
                       "SIGTERM")

Stop(r, reason) ==
    IF r.failure # None THEN {r}
    ELSE RequestSignal([r EXCEPT !.failure = reason,
                                 !.timers = (@ \ {"execution"}) \cup {"grace"}],
                       "SIGTERM")

Overflow(s) == IF s = "stdout" THEN "stdout_limit" ELSE "stderr_limit"

Collect(r, s, bytes) ==
    IF r.failure # None THEN {r}
    ELSE IF bytes > Limit[s] - r.got[s] THEN Stop(r, Overflow(s))
    ELSE {[r EXCEPT !.got[s] = @ + bytes]}

(* Mutant of OnExit: the exit of the child is taken for the end of output. *)
ExitEndsRun(r, code) == Finish(r, "closed", code)

OnExit(r, code) == [r EXCEPT !.exited = TRUE]

OnClose(r, code) == Finish(r, "closed", code)

OnError(r) == IF r.failure # None THEN {[r EXCEPT !.refused = TRUE]}
              ELSE Stop(r, "process_error")

SpawnFailure(r) ==
    Finish([r EXCEPT !.failure = "spawn_failed"], "not_started", None)

(* Mutant of GraceEnds: no deadline for the close of an exited child.      *)
GraceOfTheLiving(r) ==
    IF r.exited THEN {[r EXCEPT !.timers = @ \ {"grace"}]}
    ELSE RequestSignal([r EXCEPT !.timers = (@ \ {"grace"}) \cup {"kill"}],
                       "SIGKILL")

GraceEnds(r) ==
    RequestSignal([r EXCEPT !.timers = (@ \ {"grace"}) \cup {"kill"}], "SIGKILL")

-----------------------------------------------------------------------------
(* The child.  "unborn" is a spawn that failed and has not said so yet; a  *)
(* descendant (heir) may keep the pipes open after the child ended.        *)

ChildOf(life, heir) == [life |-> life, heir |-> heir, code |-> None,
                        wrote |-> [s \in Streams |-> 0]]

Born == child.life \in {"alive", "dead"}

Awaiting == answer = None

Init == /\ today = 1
        /\ used = [d \in 1 .. LastDay |-> 0]
        /\ child = ChildOf("none", FALSE)
        /\ run = Finish(Fresh, None, None)
        /\ answer = "failed"          \* no call yet

Write(s) ==
    /\ child.life = "alive" \/ child.heir
    /\ run.failure = None             \* what comes later is never read
    /\ child.wrote[s] < MaxWritten[s]
    /\ child' = [child EXCEPT !.wrote[s] = @ + 1]
    /\ UNCHANGED <<today, used, run, answer>>

(* The child ends by itself, or of a signal that reached it.               *)
End ==
    /\ child.life = "alive"
    /\ \E code \in ExitCodes \cup (IF run.delivered # {} THEN {None} ELSE {}):
          child' = [child EXCEPT !.life = "dead", !.code = code]
    /\ UNCHANGED <<today, used, run, answer>>

HeirEnds ==
    /\ child.heir
    /\ child' = [child EXCEPT !.heir = FALSE]
    /\ UNCHANGED <<today, used, run, answer>>

Tick == /\ today < LastDay
        /\ today' = today + 1
        /\ UNCHANGED <<used, child, run, answer>>

-----------------------------------------------------------------------------
(* decide(): the budget is taken before the first await, the result of the *)
(* runner is classified after it.                                          *)

Refuse ==
    /\ ~Awaiting
    /\ ~CanConsume
    /\ answer' = "over_budget"
    /\ UNCHANGED <<today, used, child, run>>

Start ==
    /\ ~Awaiting
    /\ CanConsume
    /\ Consume
    /\ answer' = None
    /\ \/ \E life \in {"unborn", "alive"}, heir \in BOOLEAN:
             /\ heir => life = "alive"
             /\ child' = ChildOf(life, heir)
             /\ run' = Fresh
       \/ /\ child' = ChildOf("none", FALSE)     \* spawn() throws
          /\ run' = SpawnFailure(Fresh)
    /\ UNCHANGED today

Failed(r) == r.termination = "unconfirmed" \/ r.refused \/ r.failure # None

Accepted(r) == ~Failed(r) /\ r.code = "zero" /\ r.got["stdout"] >= Answer

Classify ==
    /\ Awaiting
    /\ run.settled
    /\ answer' = IF Accepted(run) THEN "decision" ELSE "failed"
    /\ UNCHANGED <<today, used, child, run>>

-----------------------------------------------------------------------------
(* The callbacks of the event loop.                                        *)

Callback(outcomes) ==
    /\ ~run.settled
    /\ run' \in outcomes
    /\ UNCHANGED <<today, used, child, answer>>

(* The error event of a child without a pid.                               *)
SpawnFailed == child.life = "unborn" /\ Callback({SpawnFailure(run)})

Data(s) ==
    /\ Born
    /\ \E bytes \in 1 .. (child.wrote[s] - run.got[s]):
          Callback(Collect(run, s, bytes))

PipeError == Born /\ Callback(Stop(run, "process_error"))

Error == Born /\ Callback(OnError(run))

Exit ==
    /\ child.life = "dead"
    /\ ~run.exited
    /\ Callback({OnExit(run, child.code)})

(* Emitted once the child has exited and its pipes have been read to the   *)
(* end, which waits for whoever inherited them.                            *)
Close ==
    /\ run.exited
    /\ ~child.heir
    /\ run.failure = None => run.got = child.wrote
    /\ Callback({OnClose(run, child.code)})

Fires(timer) == Born /\ timer \in run.timers

ExecutionTimer == Fires("execution") /\ Callback(Stop(run, "timeout"))

GraceTimer == Fires("grace") /\ Callback(GraceEnds(run))

ExitCode == IF run.exited THEN child.code ELSE None

KillTimer ==
    Fires("kill") /\ Callback({Finish(run, "unconfirmed", ExitCode)})

Timer == ExecutionTimer \/ GraceTimer \/ KillTimer

Next == \/ Tick
        \/ Refuse \/ Start \/ Classify
        \/ SpawnFailed \/ PipeError \/ Error \/ Exit \/ Close \/ Timer
        \/ End \/ HeirEnds
        \/ \E s \in Streams: Write(s) \/ Data(s)

Spec == Init /\ [][Next]_vars

(* The parent's event loop runs: timers fire, the error of a failed spawn  *)
(* is emitted, an awaiting call goes on.  Nothing is assumed of the child, *)
(* of its heirs, nor of the order of the callbacks.                        *)
FairSpec ==
    Spec /\ WF_vars(Timer) /\ WF_vars(SpawnFailed) /\ WF_vars(Classify)

-----------------------------------------------------------------------------
Runs == [settled : BOOLEAN, exited : BOOLEAN,
         failure : Failures \cup {None}, got : [Streams -> Nat],
         timers : SUBSET Timers, asked : SUBSET Signals,
         delivered : SUBSET Signals, refused : BOOLEAN,
         termination : Terminations \cup {None}, code : ExitCodes \cup {None}]

Children == [life : {"none", "unborn", "alive", "dead"}, heir : BOOLEAN,
             code : ExitCodes \cup {None}, wrote : [Streams -> Nat]]

(* Every variable keeps its type.                                          *)
TypeOK ==
    /\ today \in 1 .. LastDay
    /\ used \in [1 .. LastDay -> Nat]
    /\ child \in Children
    /\ run \in Runs
    /\ answer \in Answers \cup {None}

(* A decision is taken only from a child that ended with 0 and was never   *)
(* signalled, and from all that it and its heirs wrote, never from a       *)
(* prefix that happens to parse (decide, finish, collect).                 *)
AcceptedIsWhole ==
    answer = "decision" =>
        /\ child.life = "dead" /\ child.code = "zero" /\ ~child.heir
        /\ run.delivered = {}
        /\ run.got = child.wrote

(* What a result says of the child is so: "closed" leaves neither the      *)
(* child nor an heir of its pipes, "not_started" never had one, and with   *)
(* "unconfirmed" a child not seen to exit has been asked to terminate and  *)
(* then to die; no timer outlives the result (finish, stop).               *)
TerminationTold ==
    /\ run.termination = "closed" => child.life = "dead" /\ ~child.heir
    /\ run.termination = "not_started" => child.life \in {"none", "unborn"}
    /\ run.termination = "unconfirmed" => run.exited \/ run.asked = Signals
    /\ run.settled => run.timers = {}

(* A call is answered whatever its child does and whoever keeps its pipes  *)
(* open (executionTimer, graceTimer, killTimer).                           *)
EveryCallAnswered == Awaiting ~> ~Awaiting

=============================================================================
