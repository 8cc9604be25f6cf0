------------------------ MODULE DecisionProcessProofs ------------------------
(***************************************************************************)
(* That a result tells the truth about the child, and that a decision is   *)
(* taken only from the whole output of a child that ended well, for every  *)
(* budget, every limit and every amount of output.                         *)
(***************************************************************************)
EXTENDS DecisionProcess, TLAPS

(* A run that nobody has stopped has asked for no signal.                  *)
Unstopped == run.failure = None => run.asked = {} /\ run.delivered = {}

(* A deadline is set only behind the request that it is the deadline of,   *)
(* and such a request is spared only to a child that was seen to exit.     *)
Deadlines ==
    /\ "grace" \in run.timers => run.exited \/ "SIGTERM" \in run.asked
    /\ "kill" \in run.timers => run.exited \/ run.asked = Signals
    /\ run.settled => run.timers = {}

Exited == run.exited => child.life = "dead"

Reported ==
    /\ run.code # None => run.termination \in {"closed", "unconfirmed"}
    /\ run.termination = "not_started" =>
          child.life \in {"none", "unborn"} /\ run.failure = "spawn_failed"
    /\ run.termination = "unconfirmed" => run.exited \/ run.asked = Signals
    /\ run.termination = "closed" =>
          /\ run.exited /\ ~child.heir /\ run.code = child.code
          /\ run.failure = None => run.got = child.wrote
    /\ run.termination # None => run.settled

Answered == /\ answer # None => run.settled
            /\ answer = "decision" => Accepted(run)

IInv == TypeOK /\ Unstopped /\ Deadlines /\ Exited /\ Reported /\ Answered

-----------------------------------------------------------------------------
(* A request for a signal changes what was asked, delivered and refused,   *)
(* and nothing else of the run.                                            *)
LEMMA RequestLemma ==
    ASSUME NEW r \in Runs, NEW signal \in Signals,
           NEW out \in RequestSignal(r, signal)
    PROVE  /\ out \in Runs
           /\ out.settled = r.settled /\ out.exited = r.exited
           /\ out.failure = r.failure /\ out.timers = r.timers
           /\ out.termination = r.termination /\ out.code = r.code
           /\ r.asked \subseteq out.asked
           /\ r.exited \/ signal \in out.asked
<1> DEFINE tried == [r EXCEPT !.asked = @ \cup {signal}]
<1>1. CASE r.exited
  BY <1>1 DEF RequestSignal
<1>2. CASE ~r.exited
  <2>1. \/ out = [tried EXCEPT !.delivered = @ \cup {signal}]
        \/ out = [tried EXCEPT !.refused = TRUE]
    BY <1>2 DEF RequestSignal
  <2>2. tried \in Runs /\ tried.asked = r.asked \cup {signal}
    BY DEF Runs
  <2>3. CASE out = [tried EXCEPT !.delivered = @ \cup {signal}]
    BY <2>2, <2>3 DEF Runs
  <2>4. CASE out = [tried EXCEPT !.refused = TRUE]
    BY <2>2, <2>4 DEF Runs
  <2> QED
    BY <2>1, <2>3, <2>4
<1> QED
  BY <1>1, <1>2

(* Stopping a run for the first time gives it a reason and a deadline      *)
(* behind the request to terminate; a second time it does nothing.         *)
LEMMA StopLemma ==
    ASSUME NEW r \in Runs, NEW reason \in Failures, NEW out \in Stop(r, reason)
    PROVE  /\ out \in Runs
           /\ out.settled = r.settled /\ out.exited = r.exited
           /\ out.termination = r.termination /\ out.code = r.code
           /\ out.failure # None
           /\ \/ out = r
              \/ /\ out.timers = (r.timers \ {"execution"}) \cup {"grace"}
                 /\ r.asked \subseteq out.asked
                 /\ r.exited \/ "SIGTERM" \in out.asked
<1>1. CASE r.failure # None
  BY <1>1 DEF Stop
<1>2. CASE r.failure = None
  <2> DEFINE s == [r EXCEPT !.failure = reason,
                            !.timers = (@ \ {"execution"}) \cup {"grace"}]
  <2>1. s \in Runs /\ out \in RequestSignal(s, "SIGTERM")
    BY <1>2 DEF Stop, Runs, Timers
  <2>2. /\ s.settled = r.settled /\ s.exited = r.exited
        /\ s.termination = r.termination /\ s.code = r.code
        /\ s.failure = reason /\ s.asked = r.asked
        /\ s.timers = (r.timers \ {"execution"}) \cup {"grace"}
    BY DEF Runs
  <2>3. reason # None
    BY NoneAssumption DEF NoneAssumption
  <2>4. "SIGTERM" \in Signals
    BY DEF Signals
  <2> HIDE DEF s
  <2> QED
    BY <2>1, <2>2, <2>3, <2>4, RequestLemma DEF Runs
<1> QED
  BY <1>1, <1>2

-----------------------------------------------------------------------------
LEMMA InitIInv == ASSUME Init PROVE IInv
<1>1. /\ run.settled = TRUE /\ run.exited = FALSE /\ run.timers = {}
      /\ run.asked = {} /\ run.delivered = {} /\ run.code = None
      /\ run.termination = None /\ run.failure = None
      /\ run \in Runs
  BY DEF Init, Finish, Fresh, Runs, Timers, Streams
<1>2. child \in Children
  BY DEF Init, ChildOf, Children, Streams
<1>3. used \in [1 .. LastDay -> Nat] /\ today \in 1 .. LastDay
  BY BudgetAssumption DEF Init, BudgetAssumption
<1>4. answer = "failed"
  BY DEF Init
<1> QED
  BY <1>1, <1>2, <1>3, <1>4, NoneAssumption
     DEF IInv, TypeOK, Unstopped, Deadlines, Exited, Reported, Answered,
         NoneAssumption, Terminations, Answers

(* A callback that stops the run, for whatever reason.                     *)
LEMMA StopStep ==
    ASSUME IInv, NEW reason \in Failures, Callback(Stop(run, reason))
    PROVE  IInv'
<1>1. /\ run \in Runs /\ ~run.settled /\ run' \in Stop(run, reason)
      /\ UNCHANGED <<today, used, child, answer>>
  BY DEF IInv, TypeOK, Callback
<1>2. /\ run' \in Runs /\ run'.settled = run.settled
      /\ run'.exited = run.exited /\ run'.termination = run.termination
      /\ run'.code = run.code /\ run'.failure # None
      /\ \/ run' = run
         \/ /\ run'.timers = (run.timers \ {"execution"}) \cup {"grace"}
            /\ run.asked \subseteq run'.asked
            /\ run.exited \/ "SIGTERM" \in run'.asked
  BY <1>1, StopLemma
<1>3. run.termination = None /\ answer = None
  BY <1>1 DEF IInv, Reported, Answered
<1>4. TypeOK'
  BY <1>1, <1>2 DEF IInv, TypeOK
<1>5. Deadlines'
  BY <1>1, <1>2 DEF IInv, Deadlines, Runs, Signals
<1>6. Unstopped' /\ Exited' /\ Answered'
  BY <1>1, <1>2, <1>3, NoneAssumption
     DEF IInv, Unstopped, Exited, Answered, NoneAssumption, Answers
<1>7. Reported'
  BY <1>1, <1>2, <1>3, NoneAssumption
     DEF IInv, Reported, NoneAssumption, Terminations
<1> QED
  BY <1>4, <1>5, <1>6, <1>7 DEF IInv

(* The end of a run, however it comes.                                     *)
LEMMA FinishLemma ==
    ASSUME NEW r \in Runs, NEW termination \in Terminations,
           NEW code \in ExitCodes \cup {None}
    PROVE  LET out == Finish(r, termination, code)
           IN  /\ out \in Runs
               /\ out.settled /\ out.timers = {}
               /\ out.termination = termination /\ out.code = code
               /\ out.exited = r.exited /\ out.failure = r.failure
               /\ out.asked = r.asked /\ out.delivered = r.delivered
               /\ out.got = r.got
  BY DEF Finish, Runs, Timers

LEMMA StartStep == ASSUME IInv, Start PROVE IInv'
<1>1. /\ answer' = None /\ today' = today
      /\ used' = [used EXCEPT ![Day] = @ + 1]
  BY DEF Start, Consume
<1>2. /\ Fresh \in Runs /\ ~Fresh.settled /\ ~Fresh.exited
      /\ Fresh.asked = {} /\ Fresh.delivered = {} /\ Fresh.code = None
      /\ Fresh.termination = None /\ Fresh.failure = None
      /\ Fresh.timers = {"execution"}
  BY DEF Fresh, Runs, Timers, Streams
<1>3. Day \in 1 .. LastDay
  BY BudgetAssumption DEF IInv, TypeOK, Day, BudgetAssumption
<1>4. used' \in [1 .. LastDay -> Nat] /\ today' \in 1 .. LastDay
  BY <1>1, <1>3 DEF IInv, TypeOK
<1>5. child' \in Children
  <2>1. \A life \in {"none", "unborn", "alive"}, heir \in BOOLEAN:
           ChildOf(life, heir) \in Children
    BY DEF ChildOf, Children, Streams
  <2> QED
    BY <2>1 DEF Start
<1>6. CASE run' = Fresh
  BY <1>1, <1>2, <1>4, <1>5, <1>6, NoneAssumption
     DEF IInv, TypeOK, Unstopped, Deadlines, Exited, Reported, Answered,
         NoneAssumption, Terminations, Answers
<1>7. CASE child' = ChildOf("none", FALSE) /\ run' = SpawnFailure(Fresh)
  <2> DEFINE s == [Fresh EXCEPT !.failure = "spawn_failed"]
  <2>1. /\ s \in Runs /\ s.failure = "spawn_failed" /\ ~s.exited
        /\ run' = Finish(s, "not_started", None)
    BY <1>2, <1>7 DEF SpawnFailure, Runs, Failures
  <2>2. /\ run' \in Runs /\ run'.settled /\ run'.timers = {}
        /\ run'.termination = "not_started" /\ run'.code = None
        /\ ~run'.exited /\ run'.failure = "spawn_failed"
    <3>1. "not_started" \in Terminations /\ None \in ExitCodes \cup {None}
      BY DEF Terminations
    <3> HIDE DEF s
    <3> QED
      BY <2>1, <3>1, FinishLemma
  <2>3. child'.life = "none"
    BY <1>7 DEF ChildOf
  <2> QED
    BY <1>1, <1>4, <1>5, <2>2, <2>3, NoneAssumption
       DEF IInv, TypeOK, Unstopped, Deadlines, Exited, Reported, Answered,
           NoneAssumption, Terminations, Failures, Answers
<1> QED
  BY <1>6, <1>7 DEF Start

LEMMA SpawnFailedStep == ASSUME IInv, SpawnFailed PROVE IInv'
<1> DEFINE s == [run EXCEPT !.failure = "spawn_failed"]
<1>1. /\ run \in Runs /\ ~run.settled /\ ~run.exited
      /\ child.life = "unborn" /\ answer = None
      /\ run' = Finish(s, "not_started", None)
      /\ UNCHANGED <<today, used, child, answer>>
  BY DEF IInv, TypeOK, SpawnFailed, Callback, SpawnFailure, Exited, Answered
<1>2. /\ s \in Runs /\ s.failure = "spawn_failed" /\ ~s.exited
      /\ "not_started" \in Terminations
  BY <1>1 DEF Runs, Failures, Terminations
<1>3. /\ run' \in Runs /\ run'.settled /\ run'.timers = {}
      /\ run'.termination = "not_started" /\ run'.code = None
      /\ ~run'.exited /\ run'.failure = "spawn_failed"
  <2> HIDE DEF s
  <2> QED
    BY <1>1, <1>2, FinishLemma
<1> QED
  BY <1>1, <1>3, NoneAssumption
     DEF IInv, TypeOK, Unstopped, Deadlines, Exited, Reported, Answered,
         NoneAssumption, Terminations, Failures, Answers

LEMMA GraceStep == ASSUME IInv, GraceTimer PROVE IInv'
<1> DEFINE s == [run EXCEPT !.timers = (@ \ {"grace"}) \cup {"kill"}]
<1>1. /\ run \in Runs /\ ~run.settled /\ "grace" \in run.timers
      /\ run' \in RequestSignal(s, "SIGKILL")
      /\ UNCHANGED <<today, used, child, answer>>
  BY DEF IInv, TypeOK, GraceTimer, Fires, Callback, GraceEnds
<1>2. /\ s \in Runs /\ s.settled = run.settled /\ s.exited = run.exited
      /\ s.failure = run.failure /\ s.termination = run.termination
      /\ s.code = run.code /\ s.asked = run.asked
      /\ s.timers = (run.timers \ {"grace"}) \cup {"kill"}
      /\ "SIGKILL" \in Signals
  BY <1>1 DEF Runs, Timers, Signals
<1>3. /\ run' \in Runs /\ run'.settled = run.settled
      /\ run'.exited = run.exited /\ run'.failure = run.failure
      /\ run'.termination = run.termination /\ run'.code = run.code
      /\ run'.timers = (run.timers \ {"grace"}) \cup {"kill"}
      /\ run.asked \subseteq run'.asked
      /\ run.exited \/ "SIGKILL" \in run'.asked
  <2> HIDE DEF s
  <2> QED
    BY <1>1, <1>2, RequestLemma
<1>4. run.termination = None /\ answer = None /\ run'.asked \subseteq Signals
  BY <1>1, <1>3 DEF IInv, Reported, Answered, Runs
<1>5. Deadlines'
  BY <1>1, <1>3, <1>4 DEF IInv, Deadlines, Signals
<1>6. run.failure # None \/ run.exited
  BY <1>1 DEF IInv, Deadlines, Unstopped
<1>7. run.exited => run' = s
  BY <1>1, <1>2 DEF RequestSignal
<1>8. run.exited => run'.delivered = run.delivered /\ run'.asked = run.asked
  BY <1>1, <1>7 DEF Runs
<1>9. Unstopped'
  BY <1>3, <1>6, <1>8 DEF IInv, Unstopped
<1> QED
  BY <1>1, <1>3, <1>4, <1>5, <1>9, NoneAssumption
     DEF IInv, TypeOK, Exited, Reported, Answered, NoneAssumption,
         Terminations, Answers

LEMMA DataStep == ASSUME IInv, NEW s \in Streams, Data(s) PROVE IInv'
<1>1. PICK bytes \in 1 .. (child.wrote[s] - run.got[s]):
         Callback(Collect(run, s, bytes))
  BY DEF Data
<1>2. CASE run' = run
  BY <1>1, <1>2 DEF Callback, IInv, TypeOK, Unstopped, Deadlines, Exited,
                    Reported, Answered, Accepted, Failed
<1>3. CASE run.failure = None /\ bytes > Limit[s] - run.got[s]
  <2>1. Callback(Stop(run, Overflow(s))) /\ Overflow(s) \in Failures
    BY <1>1, <1>3 DEF Collect, Overflow, Failures
  <2> QED
    BY <2>1, StopStep
<1>4. CASE run.failure = None /\ run' = [run EXCEPT !.got[s] = @ + bytes]
  <2>1. /\ run \in Runs /\ ~run.settled /\ bytes \in Nat
        /\ child.wrote[s] \in Nat /\ run.got[s] \in Nat
        /\ UNCHANGED <<today, used, child, answer>>
    BY <1>1 DEF IInv, TypeOK, Callback, Runs, Children
  <2>2. /\ run' \in Runs /\ run'.settled = run.settled
        /\ run'.exited = run.exited /\ run'.failure = run.failure
        /\ run'.timers = run.timers /\ run'.asked = run.asked
        /\ run'.delivered = run.delivered
        /\ run'.termination = run.termination /\ run'.code = run.code
    BY <1>4, <2>1 DEF Runs
  <2>3. run.termination = None /\ answer = None
    BY <2>1 DEF IInv, Reported, Answered
  <2> QED
    BY <2>1, <2>2, <2>3, NoneAssumption
       DEF IInv, TypeOK, Unstopped, Deadlines, Exited, Reported, Answered,
           NoneAssumption, Terminations, Answers
<1> QED
  BY <1>1, <1>2, <1>3, <1>4 DEF Callback, Collect

LEMMA ErrorStep == ASSUME IInv, Error PROVE IInv'
<1>1. CASE run.failure = None
  BY <1>1, StopStep DEF Error, OnError, Failures
<1>2. CASE run.failure # None
  <2>1. /\ run \in Runs /\ ~run.settled
        /\ run' = [run EXCEPT !.refused = TRUE]
        /\ UNCHANGED <<today, used, child, answer>>
    BY <1>2 DEF IInv, TypeOK, Error, OnError, Callback
  <2>2. /\ run' \in Runs /\ run'.settled = run.settled
        /\ run'.exited = run.exited /\ run'.failure = run.failure
        /\ run'.timers = run.timers /\ run'.asked = run.asked
        /\ run'.termination = run.termination /\ run'.code = run.code
    BY <2>1 DEF Runs
  <2>3. run.termination = None /\ answer = None
    BY <2>1 DEF IInv, Reported, Answered
  <2> QED
    BY <1>2, <2>1, <2>2, <2>3, NoneAssumption
       DEF IInv, TypeOK, Unstopped, Deadlines, Exited, Reported, Answered,
           NoneAssumption, Terminations, Answers
<1> QED
  BY <1>1, <1>2

LEMMA ExitStep == ASSUME IInv, Exit PROVE IInv'
<1>1. /\ run \in Runs /\ ~run.settled /\ child.life = "dead"
      /\ run' = [run EXCEPT !.exited = TRUE]
      /\ UNCHANGED <<today, used, child, answer>>
  BY DEF IInv, TypeOK, Exit, OnExit, Callback
<1>2. /\ run' \in Runs /\ run'.settled = run.settled /\ run'.exited
      /\ run'.failure = run.failure /\ run'.timers = run.timers
      /\ run'.asked = run.asked /\ run'.delivered = run.delivered
      /\ run'.termination = run.termination /\ run'.code = run.code
  BY <1>1 DEF Runs
<1>3. run.termination = None /\ answer = None
  BY <1>1 DEF IInv, Reported, Answered
<1> QED
  BY <1>1, <1>2, <1>3, NoneAssumption
     DEF IInv, TypeOK, Unstopped, Deadlines, Exited, Reported, Answered,
         NoneAssumption, Terminations, Answers

LEMMA CloseStep == ASSUME IInv, Close PROVE IInv'
<1>1. /\ run \in Runs /\ ~run.settled /\ run.exited /\ ~child.heir
      /\ run.failure = None => run.got = child.wrote
      /\ run' = Finish(run, "closed", child.code)
      /\ UNCHANGED <<today, used, child, answer>>
  BY DEF IInv, TypeOK, Close, OnClose, Callback
<1>2. child.code \in ExitCodes \cup {None} /\ "closed" \in Terminations
  BY DEF IInv, TypeOK, Children, Terminations
<1>3. /\ run' \in Runs /\ run'.settled /\ run'.timers = {}
      /\ run'.termination = "closed" /\ run'.code = child.code
      /\ run'.exited = run.exited /\ run'.failure = run.failure
      /\ run'.asked = run.asked /\ run'.delivered = run.delivered
      /\ run'.got = run.got
  <2>1. run' = Finish(run, "closed", child.code) /\ run \in Runs
    BY <1>1
  <2> QED
    BY <1>2, <2>1, FinishLemma
<1> QED
  BY <1>1, <1>3, NoneAssumption
     DEF IInv, TypeOK, Unstopped, Deadlines, Exited, Reported, Answered,
         NoneAssumption, Terminations, Answers

LEMMA KillStep == ASSUME IInv, KillTimer PROVE IInv'
<1>1. /\ run \in Runs /\ ~run.settled /\ "kill" \in run.timers
      /\ run' = Finish(run, "unconfirmed", ExitCode)
      /\ UNCHANGED <<today, used, child, answer>>
  BY DEF IInv, TypeOK, KillTimer, Fires, Callback
<1>2. ExitCode \in ExitCodes \cup {None} /\ "unconfirmed" \in Terminations
  BY DEF IInv, TypeOK, ExitCode, Children, Terminations
<1>3. /\ run' \in Runs /\ run'.settled /\ run'.timers = {}
      /\ run'.termination = "unconfirmed"
      /\ run'.exited = run.exited /\ run'.failure = run.failure
      /\ run'.asked = run.asked /\ run'.delivered = run.delivered
  <2>1. run' = Finish(run, "unconfirmed", ExitCode) /\ run \in Runs
    BY <1>1
  <2> QED
    BY <1>2, <2>1, FinishLemma
<1> QED
  BY <1>1, <1>3, NoneAssumption
     DEF IInv, TypeOK, Unstopped, Deadlines, Exited, Reported, Answered,
         NoneAssumption, Terminations, Answers

(* What the child and its heirs do leaves every result as true as it was.  *)
LEMMA WriteStep == ASSUME IInv, NEW s \in Streams, Write(s) PROVE IInv'
<1>1. /\ child' = [child EXCEPT !.wrote[s] = @ + 1]
      /\ child.life = "alive" \/ child.heir
      /\ UNCHANGED <<today, used, run, answer>> /\ child \in Children
  BY DEF Write, IInv, TypeOK
<1>2. /\ child' \in Children /\ child'.life = child.life
      /\ child'.heir = child.heir /\ child'.code = child.code
  BY <1>1 DEF Children
<1>3. run.termination # "closed"
  BY <1>1 DEF IInv, Reported, Exited
<1> QED
  BY <1>1, <1>2, <1>3
     DEF IInv, TypeOK, Unstopped, Deadlines, Exited, Reported, Answered,
         Accepted, Failed

LEMMA EndStep == ASSUME IInv, End PROVE IInv'
<1>1. PICK code \in ExitCodes \cup {None}:
         child' = [child EXCEPT !.life = "dead", !.code = code]
  BY DEF End
<1>2. /\ child.life = "alive" /\ child \in Children
      /\ UNCHANGED <<today, used, run, answer>>
  BY DEF End, IInv, TypeOK
<1>3. child' \in Children /\ child'.life = "dead"
  BY <1>1, <1>2 DEF Children
<1>4. ~run.exited
  BY <1>2 DEF IInv, Exited
<1> QED
  BY <1>2, <1>3, <1>4
     DEF IInv, TypeOK, Unstopped, Deadlines, Exited, Reported, Answered,
         Accepted, Failed

LEMMA HeirStep == ASSUME IInv, HeirEnds PROVE IInv'
<1>1. /\ child' = [child EXCEPT !.heir = FALSE] /\ child \in Children
      /\ UNCHANGED <<today, used, run, answer>>
  BY DEF HeirEnds, IInv, TypeOK
<1>2. /\ child' \in Children /\ child'.life = child.life /\ ~child'.heir
      /\ child'.code = child.code /\ child'.wrote = child.wrote
  BY <1>1 DEF Children
<1> QED
  BY <1>1, <1>2
     DEF IInv, TypeOK, Unstopped, Deadlines, Exited, Reported, Answered,
         Accepted, Failed

LEMMA ClassifyStep == ASSUME IInv, Classify PROVE IInv'
<1>1. /\ UNCHANGED <<today, used, child, run>> /\ run.settled
      /\ answer' = IF Accepted(run) THEN "decision" ELSE "failed"
  BY DEF Classify
<1>2. answer' \in Answers /\ (answer' = "decision" => Accepted(run))
  BY <1>1 DEF Answers
<1>3. TypeOK'
  BY <1>1, <1>2 DEF IInv, TypeOK
<1>4. Accepted(run)' <=> Accepted(run)
  BY <1>1 DEF Accepted, Failed
<1> QED
  BY <1>1, <1>2, <1>3, <1>4
     DEF IInv, Unstopped, Deadlines, Exited, Reported, Answered

LEMMA RestStep == ASSUME IInv, Tick \/ Refuse \/ UNCHANGED vars PROVE IInv'
<1>1. UNCHANGED <<used, child, run>>
  BY DEF Tick, Refuse, vars
<1>2. answer' = answer \/ (answer # None /\ answer' = "over_budget")
  BY DEF Tick, Refuse, vars, Awaiting
<1>3. today' \in 1 .. LastDay
  BY BudgetAssumption DEF IInv, TypeOK, Tick, Refuse, vars, BudgetAssumption
<1>4. Accepted(run)' <=> Accepted(run)
  BY <1>1 DEF Accepted, Failed
<1> QED
  BY <1>1, <1>2, <1>3, <1>4
     DEF IInv, TypeOK, Unstopped, Deadlines, Exited, Reported, Answered,
         Answers

LEMMA NextIInv == ASSUME IInv, [Next]_vars PROVE IInv'
<1>1. CASE PipeError
  BY <1>1, StopStep DEF PipeError, Failures
<1>2. CASE ExecutionTimer
  BY <1>2, StopStep DEF ExecutionTimer, Failures
<1> QED
  BY <1>1, <1>2, StartStep, ClassifyStep, SpawnFailedStep, GraceStep,
     DataStep, ErrorStep, ExitStep, CloseStep, KillStep, WriteStep, EndStep,
     HeirStep, RestStep DEF Next, Timer

LEMMA IInvAlways == Spec => []IInv
  BY InitIInv, NextIInv, PTL DEF Spec

-----------------------------------------------------------------------------
(* Every variable keeps its type.                                          *)
THEOREM TypesAlways == Spec => []TypeOK
<1>1. IInv => TypeOK
  BY DEF IInv
<1> QED
  BY <1>1, IInvAlways, PTL

(* What a result says of its child is so (finish, stop, requestSignal).    *)
THEOREM TerminationAlwaysTold == Spec => []TerminationTold
<1>1. IInv => TerminationTold
  BY DEF IInv, Exited, Deadlines, Reported, TerminationTold
<1> QED
  BY <1>1, IInvAlways, PTL

(* A decision is taken only from the whole output of a child that ended    *)
(* with 0 and was never signalled (decide, finish, collect).               *)
THEOREM AcceptedIsAlwaysWhole == Spec => []AcceptedIsWhole
<1>1. ASSUME IInv, answer = "decision"
      PROVE  /\ child.life = "dead" /\ child.code = "zero" /\ ~child.heir
             /\ run.delivered = {}
             /\ run.got = child.wrote
  <2>1. /\ run.failure = None /\ run.termination # "unconfirmed"
        /\ run.code = "zero"
    BY <1>1 DEF IInv, Answered, Accepted, Failed
  <2>2. run.termination = "closed"
    BY <1>1, <2>1, NoneAssumption
       DEF IInv, Reported, NoneAssumption, ExitCodes
  <2> QED
    BY <1>1, <2>1, <2>2 DEF IInv, Reported, Exited, Unstopped
<1>2. IInv => AcceptedIsWhole
  BY <1>1 DEF AcceptedIsWhole
<1> QED
  BY <1>2, IInvAlways, PTL

=============================================================================
