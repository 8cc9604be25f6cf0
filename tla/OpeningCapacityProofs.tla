----------------------- MODULE OpeningCapacityProofs -----------------------
(***************************************************************************)
(* The inductive invariant of OpeningCapacity, layer by layer: roles, the  *)
(* lock of the document, the journal, the projections, and what has been   *)
(* acknowledged; for any processes, portfolios, clock, retries and faults. *)
(***************************************************************************)
EXTENDS OpeningCapacity, SequenceTheorems, TLAPS

-----------------------------------------------------------------------------
(* The layers *)

(* Who is where, and that a call in progress has its input.                *)
Fits(p, there) ==
  /\ there \in {"idle", "ended", "dead"} \cup Live
  /\ p \in Appenders =>
       there \in {"idle", "ended", "dead", "sources", "unlocking"} \cup Appending
  /\ p \in Keepers => there \notin Appending
  /\ p \in Refreshers => there \notin {"sources", "deciding", "unlocking"}
  /\ p \in Publishers => there # "resolving"

Roles ==
  \A p \in Procs :
    Fits(p, pc[p]) /\ (given[p] = Absent => pc[p] = "idle" /\ outcome[p] = "new")

(* A generation is the business of one process until it is released, and   *)
(* what is released stays so.                                              *)
Generations ==
  \A p \in Keepers :
    /\ pc[p] = "inspecting" => at[p] \in 1..Len(gens)
    /\ pc[p] = "claiming" =>
         at[p] \in 0..Len(gens) /\ (at[p] # 0 => gens[at[p]] = "released")
    /\ pc[p] \in Inside =>
         at[p] = Len(gens) /\ at[p] # 0 /\ gens[at[p]] # "released"

Locking == OneOwner /\ Generations

Holding(p) ==
  \/ pc[p] \in {"deciding", "unlocking"} \cup Appending
  \/ pc[p] = "writing" /\ p \in Publishers

(* Where an append stands, by the file and the barrier.                    *)
Stage(p) ==
  /\ Holding(p) => journalLock = p
  /\ pc[p] \in {"barring", "entering", "committing"} => ~Persisted(p)
  /\ pc[p] \in {"barring", "entering", "lifting"} => Readable
  /\ pc[p] = "barring" => ~pending
  /\ pc[p] \in {"entering", "committing", "lifting"} => pending
  /\ pc[p] = "committing" =>
       /\ Alternating /\ Len(journal) % 2 = 1
       /\ journal[Len(journal)].by = p
  /\ pc[p] = "lifting" => Persisted(p)
  /\ p \in Appenders /\ outcome[p] = "ok" => Persisted(p)

Journaling == JournalSound /\ Once /\ \A p \in Procs : Stage(p)

(* A document of the past that is what its snapshots yield.                *)
Sound(d) ==
  \A f \in Portfolios : d[f] # Absent =>
    d[f].time <= clock /\ d[f].events = EventsBefore(f, d[f].time)

Projecting == Sound(document) /\ \A p \in Procs : Sound(held[p])

(* Whose projection it is: a process has one snapshot for all its calls.   *)
Origins(d) ==
  \A f \in Portfolios : d[f] # Absent =>
    LET q == d[f].by
    IN  given[q] # Absent /\ given[q].of = f /\ given[q].time = d[f].time

(* The projection of p, or a later one, is in the document.                *)
Covers(p, d) ==
  LET now == d[given[p].of]
  IN  now # Absent /\ (now.by = p \/ now.time > given[p].time)

(* What the one inside has in its hands.                                   *)
InHand(p) ==
  /\ pc[p] \in {"resolving", "sources", "deciding"} => held[p] = document
  /\ pc[p] = "writing" =>
       \E projection \in Projections :
         /\ projection.by = p /\ held[p] = [document EXCEPT ![given[p].of] = projection]
         /\ Advances(document[given[p].of], projection)

Acknowledging ==
  /\ \A p \in Procs : outcome[p] = "new" => given[p] = Absent
  /\ Origins(document) /\ \A p \in Procs : Origins(held[p])
  /\ \A p \in Keepers : InHand(p) /\ (outcome[p] = "ok" => Covers(p, document))
  /\ \A p \in Procs : pc[p] = "ended" => outcome[p] = "ok"

IInv == TypeOK /\ Roles /\ Locking /\ Journaling /\ Projecting /\ Acknowledging

-----------------------------------------------------------------------------
(* Types and roles *)

LEMMA ConstantFacts ==
  /\ Keepers \subseteq Procs /\ Appenders \subseteq Procs
  /\ Refreshers \subseteq Keepers /\ Publishers \subseteq Keepers
  /\ Procs = Keepers \cup Appenders /\ Keepers = Refreshers \cup Publishers
  /\ Keepers \cap Appenders = {} /\ Refreshers \cap Publishers = {}
  /\ Nobody \notin Procs
  /\ MaxClock \in Nat /\ MaxRetries \in Nat /\ MaxFaults \in Nat
  /\ Times \subseteq Nat
BY ProcAssumption DEF Keepers, Procs, Times

(* A caller has brought a portfolio and a time.                            *)
LEMMA GivenFacts ==
  ASSUME TypeOK, Roles, NEW p \in Procs, pc[p] # "idle" \/ outcome[p] # "new"
  PROVE  /\ given[p] # Absent /\ given[p] \in [of : Portfolios, time : Times]
         /\ given[p].of \in Portfolios /\ given[p].time \in Times
BY DEF TypeOK, Roles

(* What a snapshot yields is a projection.                                 *)
LEMMA ProjectionFacts ==
  ASSUME TypeOK, NEW p \in Keepers, given[p] # Absent
  PROVE  /\ Projection(p) \in Projections /\ Projection(p) # Absent
         /\ Projection(p).by = p /\ Projection(p).time = given[p].time
         /\ Projection(p).events = EventsBefore(given[p].of, given[p].time)
<1>1. given[p] \in [of : Portfolios, time : Times]
  BY ConstantFacts DEF TypeOK
<1>2. EventsBefore(given[p].of, given[p].time) \subseteq Appenders
  <2>1. \A i \in DOMAIN journal : journal[i] \in Lines
    BY DEF TypeOK
  <2>2. \A i \in DOMAIN journal : journal[i].by \in Appenders
    BY <2>1 DEF Lines
  <2> QED BY <2>2 DEF EventsBefore, Commits, Commit
<1>3. Projection(p) \in Projections
  BY <1>1, <1>2 DEF Projection, Projections
<1> QED BY <1>3, AbsentAssumption DEF Projection, Projections

(* A decision leaves a document, and its caller at a known place.          *)
LEMMA DecideTypes ==
  ASSUME TypeOK, NEW p \in Keepers, given[p] # Absent,
         NEW projection \in Projections, NEW leaving \in Inside,
         Decide(p, projection, leaving)
  PROVE  /\ held' \in [Procs -> Documents]
         /\ \/ pc' = [pc EXCEPT ![p] = leaving]
               /\ outcome' \in {[outcome EXCEPT ![p] = r] : r \in {"ok", "failed"}}
            \/ pc' = [pc EXCEPT ![p] = "writing"] /\ outcome' = outcome
<1>1. p \in Procs /\ held[p] \in Documents
  BY ConstantFacts DEF TypeOK
<1>2. [held[p] EXCEPT ![given[p].of] = projection] \in Documents
  BY <1>1 DEF Documents
<1> QED BY <1>1, <1>2 DEF Decide, Goto, Result, TypeOK

LEMMA TypesInit == Init => TypeOK /\ Roles
<1> SUFFICES ASSUME Init PROVE TypeOK /\ Roles
  OBVIOUS
<1> USE ConstantFacts DEF Init
<1>1. document \in Documents
  BY DEF Documents
<1>2. TypeOK
  <2>1. /\ clock \in Times /\ faults \in 0..MaxFaults
        /\ retries \in 0..MaxRetries
    BY DEF Times
  <2>2. /\ pc \in [Procs -> {"idle", "ended", "dead"} \cup Live]
        /\ outcome \in [Procs -> {"new", "none", "ok", "failed"}]
        /\ given \in [Procs -> [of : Portfolios, time : Times] \cup {Absent}]
        /\ at \in [Procs -> Nat]
    OBVIOUS
  <2>3. expected \in [Procs -> Documents] /\ held \in [Procs -> Documents]
    BY <1>1
  <2>4. gens \in Seq({"claimed", "owned", "released"}) /\ journal \in Seq(Lines)
    <3>1. \A S : <<>> \in Seq(S)
      OBVIOUS
    <3> QED BY <3>1
  <2>5. pending \in BOOLEAN /\ journalLock \in Procs \cup {Nobody}
    OBVIOUS
  <2> QED BY <1>1, <2>1, <2>2, <2>3, <2>4, <2>5 DEF TypeOK
<1>3. Roles
  BY DEF Roles, Fits, Appending
<1> QED BY <1>2, <1>3

(* A step that moves one call on, with or without a result.                *)
LEMMA Moves ==
  ASSUME TypeOK, Roles, NEW p \in Procs, NEW there, Fits(p, there),
         Goto(p, there), pc[p] # "idle", given' = given,
         outcome' = outcome \/ \E r \in {"ok", "failed"} : Result(p, r)
  PROVE  /\ pc' \in [Procs -> {"idle", "ended", "dead"} \cup Live]
         /\ outcome' \in [Procs -> {"new", "none", "ok", "failed"}]
         /\ Roles'
BY DEF TypeOK, Roles, Fits, Goto, Result

LEMMA FailureFits ==
  ASSUME Roles, NEW p \in Procs, pc[p] \in Live
  PROVE  Fits(p, FailureExit(p))
BY ConstantFacts DEF Roles, Fits, FailureExit, AfterWriting, Live, Inside, Appending

(* A marker is put into a generation that is there, or nothing changes.    *)
LEMMA MarkTypes ==
  ASSUME TypeOK, NEW p \in Procs, NEW state \in {"claimed", "owned", "released"},
         Mark(p, state)
  PROVE  /\ gens' \in Seq({"claimed", "owned", "released"})
         /\ Len(gens') = Len(gens)
         /\ \A g \in 1..Len(gens) : gens'[g] = IF g = at[p] THEN state ELSE gens[g]
         /\ UNCHANGED <<document, journal, pending, journalLock>>
<1> DEFINE S == {"claimed", "owned", "released"}
<1>1. gens \in Seq(S) /\ gens' = [gens EXCEPT ![at[p]] = state] /\ state \in S
  BY DEF TypeOK, Mark
<1> HIDE DEF S
<1>2. Len(gens) \in Nat /\ DOMAIN gens = 1..Len(gens) /\ gens \in [1..Len(gens) -> S]
  BY <1>1, LenProperties
<1>3. /\ gens' \in Seq(S) /\ Len(gens') = Len(gens)
      /\ \A g \in 1..Len(gens) : gens'[g] = IF g = at[p] THEN state ELSE gens[g]
  <2>1. CASE at[p] \in 1..Len(gens)
    BY <1>1, <2>1, ExceptSeq
  <2>2. CASE at[p] \notin 1..Len(gens)
    <3>1. gens' = gens
      BY <1>1, <1>2, <2>2
    <3> QED BY <1>1, <2>2, <3>1
  <2> QED BY <2>1, <2>2
<1> QED BY <1>3 DEF Mark, journaling, S

LEMMA ClaimTypes ==
  ASSUME TypeOK, gens' = Append(gens, "claimed")
  PROVE  /\ gens' \in Seq({"claimed", "owned", "released"})
         /\ Len(gens') = Len(gens) + 1 /\ gens'[Len(gens) + 1] = "claimed"
         /\ \A g \in 1..Len(gens) : gens'[g] = gens[g]
<1> DEFINE S == {"claimed", "owned", "released"}
<1>1. gens \in Seq(S) /\ "claimed" \in S
  BY DEF TypeOK
<1> HIDE DEF S
<1>2. /\ gens' \in Seq(S)
      /\ Len(gens') = Len(gens) + 1 /\ gens'[Len(gens) + 1] = "claimed"
      /\ \A g \in 1..Len(gens) : gens'[g] = gens[g]
  BY <1>1, AppendProperties
<1> QED BY <1>2 DEF S

(* Only an appender writes to the journal.                                 *)
LEMMA WriteTypes ==
  ASSUME TypeOK, Roles, NEW p \in Procs, pc[p] \in Appending,
         NEW kind \in {"entry", "commit", "torn"}, Write(p, kind)
  PROVE  /\ journal' \in Seq(Lines) /\ p \in Appenders
         /\ UNCHANGED <<gens, document, pending, journalLock>>
<1>1. p \in Appenders
  BY ConstantFacts DEF Roles, Fits
<1>2. given[p].of \in Portfolios
  BY GivenFacts DEF Appending
<1>3. [kind |-> kind, by |-> p, of |-> given[p].of, time |-> clock] \in Lines
  BY <1>1, <1>2 DEF Lines, TypeOK
<1> QED BY <1>1, <1>3 DEF Write, TypeOK

(* Something is left of an operation that throws.                          *)
LEMMA LeavesTypes ==
  ASSUME TypeOK, Roles, NEW p \in Procs, Leaves(p)
  PROVE  /\ gens' \in Seq({"claimed", "owned", "released"})
         /\ document' \in Documents /\ journal' \in Seq(Lines)
         /\ pending' \in BOOLEAN /\ journalLock' \in Procs \cup {Nobody}
         /\ pc[p] \in Live
<1> USE DEF disk, journaling
<1>1. CASE \/ pc[p] = "owning" /\ Mark(p, "owned")
           \/ pc[p] = "releasing" /\ Mark(p, "released")
  BY <1>1, MarkTypes DEF TypeOK, Live, Inside
<1>2. CASE pc[p] = "writing" /\ Replace(p)
  BY <1>2 DEF Replace, TypeOK, Live, Inside
<1>3. CASE \/ pc[p] = "barring" /\ Bar(TRUE)
           \/ pc[p] = "lifting" /\ Bar(FALSE)
           \/ pc[p] = "unlocking" /\ Unlock
           \/ StrayLock(p)
  BY <1>3 DEF Bar, Unlock, StrayLock, TypeOK, Live, Inside, Appending
<1>4. CASE /\ pc[p] \in {"entering", "committing"}
           /\ \E kind \in {"entry", "commit", "torn"} : Write(p, kind)
  <2>1. pc[p] \in Appending /\ pc[p] \in Live
    BY <1>4 DEF Appending, Live
  <2> QED BY <1>4, <2>1, WriteTypes DEF TypeOK
<1>5. CASE pc[p] \in Live /\ UNCHANGED disk
  BY <1>5 DEF TypeOK
<1> QED BY <1>1, <1>2, <1>3, <1>4, <1>5 DEF Leaves

LEMMA TypesStep == TypeOK /\ Roles /\ [Next]_vars => TypeOK' /\ Roles'
<1> SUFFICES ASSUME TypeOK, Roles, [Next]_vars PROVE TypeOK' /\ Roles'
  OBVIOUS
<1> USE ConstantFacts DEF call, work, disk, journaling
<1>1. CASE UNCHANGED vars
  BY <1>1 DEF vars, TypeOK, Roles
<1>2. CASE Tick
  BY <1>2 DEF Tick, TypeOK, Roles, Times
<1>3. ASSUME NEW p \in Procs, Call(p) PROVE TypeOK' /\ Roles'
  <2>1. PICK there \in {"listing", "sources"} :
          Goto(p, there) /\ (there = "sources" <=> p \notin Keepers)
    BY <1>3 DEF Call
  <2>2. Fits(p, there)
    BY <2>1 DEF Fits, Appending, Live, Inside
  <2>3. /\ pc' \in [Procs -> {"idle", "ended", "dead"} \cup Live]
        /\ outcome' \in [Procs -> {"new", "none", "ok", "failed"}]
    BY <1>3, <2>1, <2>2 DEF Call, Goto, Result, TypeOK, Fits
  <2>4. /\ retries' \in 0..MaxRetries
        /\ given' \in [Procs -> [of : Portfolios, time : Times] \cup {Absent}]
        /\ expected' \in [Procs -> Documents]
    <3>1. CASE outcome[p] = "new"
      <4>1. PICK f \in Portfolios, t \in Times :
              given' = [given EXCEPT ![p] = [of |-> f, time |-> t]]
        BY <1>3, <3>1 DEF Call
      <4>2. [of |-> f, time |-> t] \in [of : Portfolios, time : Times]
        OBVIOUS
      <4>3. given' \in [Procs -> [of : Portfolios, time : Times] \cup {Absent}]
        BY <4>1, <4>2 DEF TypeOK
      <4>4. retries' = retries /\ expected' = [expected EXCEPT ![p] = document]
        BY <1>3, <3>1 DEF Call
      <4> QED BY <4>3, <4>4 DEF TypeOK
    <3>2. CASE outcome[p] # "new"
      <4>1. /\ retries < MaxRetries /\ retries' = retries + 1
            /\ given' = given /\ expected' = expected
        BY <1>3, <3>2 DEF Call
      <4> QED BY <4>1 DEF TypeOK
    <3> QED BY <3>1, <3>2
  <2>5. TypeOK'
    BY <1>3, <2>3, <2>4 DEF Call, TypeOK
  <2>6. given'[p] # Absent /\ \A q \in Procs \ {p} : given'[q] = given[q]
    BY <1>3, AbsentAssumption DEF Call, TypeOK, Roles
  <2>7. Roles'
    BY <1>3, <2>1, <2>2, <2>6 DEF Call, Goto, Result, TypeOK, Roles
  <2> QED BY <2>5, <2>7
<1>4. ASSUME NEW p \in Procs,
             List(p) \/ Inspect(p) \/ CheckEvent(p) \/ TimeOut(p)
      PROVE  TypeOK' /\ Roles'
  <2>1. PICK there : Fits(p, there) /\ Goto(p, there)
    <3>1. ASSUME TimeOut(p) PROVE Fits(p, FailureExit(p)) /\ Goto(p, FailureExit(p))
      BY <3>1, FailureFits DEF TimeOut, Throw, Live, Inside
    <3>2. ASSUME List(p) \/ Inspect(p)
          PROVE  /\ \A t \in {"listing", "inspecting", "claiming"} : Fits(p, t)
                 /\ \E t \in {"listing", "inspecting", "claiming"} : Goto(p, t)
      BY <3>2 DEF List, Inspect, Roles, Fits, Live, Appending
    <3>3. ASSUME CheckEvent(p)
          PROVE  /\ \A t \in {"barring", "unlocking"} : Fits(p, t)
                 /\ \E t \in {"barring", "unlocking"} : Goto(p, t)
      BY <3>3 DEF CheckEvent, Roles, Fits, Live, Inside, Appending
    <3> QED BY <1>4, <3>1, <3>2, <3>3
  <2>2. /\ pc[p] # "idle" /\ given' = given
        /\ outcome' = outcome \/ \E r \in {"ok", "failed"} : Result(p, r)
    BY <1>4 DEF List, Inspect, CheckEvent, TimeOut, Throw
  <2>3. at' \in [Procs -> Nat]
    <3>1. Len(gens) \in Nat
      BY DEF TypeOK
    <3>2. at' = at \/ at' = [at EXCEPT ![p] = Len(gens)]
      BY <1>4 DEF List, Inspect, CheckEvent, TimeOut
    <3> QED BY <3>1, <3>2 DEF TypeOK
  <2>4. UNCHANGED <<clock, retries, given, expected, held, disk, faults>>
    BY <1>4 DEF List, Inspect, CheckEvent, TimeOut
  <2> QED BY <2>1, <2>2, <2>3, <2>4, Moves DEF TypeOK
<1>5. ASSUME NEW p \in Procs, Claim(p) \/ WriteOwner(p) \/ Release(p)
      PROVE  TypeOK' /\ Roles'
  <2>1. PICK there : Fits(p, there) /\ Goto(p, there)
    BY <1>5 DEF Claim, WriteOwner, Release, Roles, Fits, Live, Inside, Appending
  <2>2. pc[p] # "idle" /\ given' = given /\ outcome' = outcome
    BY <1>5 DEF Claim, WriteOwner, Release
  <2>3. at' \in [Procs -> Nat] /\ gens' \in Seq({"claimed", "owned", "released"})
    <3>1. CASE Claim(p)
      <4>1. \/ UNCHANGED <<at, gens>>
            \/ gens' = Append(gens, "claimed") /\ at' = [at EXCEPT ![p] = @ + 1]
        BY <3>1 DEF Claim
      <4>2. at[p] + 1 \in Nat
        BY DEF TypeOK
      <4>3. at' = at \/ at' = [at EXCEPT ![p] = at[p] + 1]
        BY <4>1
      <4>4. at' \in [Procs -> Nat]
        BY <4>2, <4>3 DEF TypeOK
      <4>5. gens' \in Seq({"claimed", "owned", "released"})
        BY <4>1, ClaimTypes DEF TypeOK
      <4> QED BY <4>4, <4>5
    <3>2. CASE WriteOwner(p) \/ Release(p)
      BY <3>2, MarkTypes DEF WriteOwner, Release, TypeOK
    <3> QED BY <1>5, <3>1, <3>2
  <2>4. UNCHANGED <<clock, retries, expected, held, document, journaling, faults>>
    BY <1>5 DEF Claim, WriteOwner, Release, Mark
  <2> QED BY <2>1, <2>2, <2>3, <2>4, Moves DEF TypeOK
<1>6. ASSUME NEW p \in Procs, ReadStored(p) PROVE TypeOK' /\ Roles'
  <2>1. PICK there : Fits(p, there) /\ Goto(p, there)
    BY <1>6 DEF ReadStored, Roles, Fits, Live, Inside, Appending
  <2>2. /\ pc[p] # "idle" /\ given' = given
        /\ outcome' = outcome \/ Result(p, "failed")
    BY <1>6 DEF ReadStored
  <2>3. held' \in [Procs -> Documents]
    BY <1>6 DEF ReadStored, TypeOK
  <2>4. UNCHANGED <<clock, retries, expected, at, disk, faults>>
    BY <1>6 DEF ReadStored
  <2> QED BY <2>1, <2>2, <2>3, <2>4, Moves DEF TypeOK
<1>7. ASSUME NEW p \in Procs, Resolve(p) \/ Publish(p) PROVE TypeOK' /\ Roles'
  <2>1. p \in Keepers /\ pc[p] # "idle"
    BY <1>7 DEF Resolve, Publish, Roles, Fits, Appending
  <2>2. /\ given[p] # Absent /\ Fits(p, "releasing") /\ Fits(p, "writing")
        /\ pc[p] = "deciding" => Fits(p, "unlocking")
    BY <2>1 DEF Roles, Fits, Live, Inside, Appending
  <2>3. /\ UNCHANGED <<clock, call, at, disk, faults>>
        /\ \/ \E projection \in Projections, leaving \in {"releasing", "unlocking"} :
                /\ Fits(p, leaving) /\ Decide(p, projection, leaving)
           \/ \E leaving \in {"releasing", "unlocking"} :
                /\ Fits(p, leaving) /\ Goto(p, leaving) /\ Result(p, "failed")
                /\ held' = held
    <3>1. CASE Resolve(p)
      <4>1. held[p][given[p].of] \in Projections \cup {Absent}
        BY <2>1, <2>2, GivenFacts DEF TypeOK, Documents
      <4> QED BY <2>1, <2>2, <3>1, <4>1, ProjectionFacts DEF Resolve
    <3>2. CASE Publish(p)
      BY <2>1, <2>2, <3>2, ProjectionFacts DEF Publish
    <3> QED BY <1>7, <3>1, <3>2
  <2>4. /\ held' \in [Procs -> Documents]
        /\ \E there : Fits(p, there) /\ Goto(p, there)
        /\ outcome' = outcome \/ \E r \in {"ok", "failed"} : Result(p, r)
    <3>1. CASE \E projection \in Projections, leaving \in {"releasing", "unlocking"} :
                 Fits(p, leaving) /\ Decide(p, projection, leaving)
      BY <2>1, <2>2, <3>1, DecideTypes DEF Goto, Result, Inside
    <3>2. CASE \E leaving \in {"releasing", "unlocking"} :
                 /\ Fits(p, leaving) /\ Goto(p, leaving) /\ Result(p, "failed")
                 /\ held' = held
      BY <3>2 DEF TypeOK
    <3> QED BY <2>3, <3>1, <3>2
  <2> QED BY <2>1, <2>3, <2>4, Moves DEF TypeOK
<1>8. ASSUME NEW p \in Procs, WriteSnapshot(p) PROVE TypeOK' /\ Roles'
  <2>1. Fits(p, AfterWriting(p)) /\ Goto(p, AfterWriting(p))
    BY <1>8 DEF WriteSnapshot, AfterWriting, Roles, Fits, Live, Inside, Appending
  <2>2. document' \in Documents
    BY <1>8 DEF WriteSnapshot, Replace, TypeOK
  <2>3. pc[p] # "idle" /\ given' = given /\ Result(p, "ok")
    BY <1>8 DEF WriteSnapshot
  <2>4. UNCHANGED <<clock, retries, expected, work, gens, journaling, faults>>
    BY <1>8 DEF WriteSnapshot, Replace
  <2> QED BY <2>1, <2>2, <2>3, <2>4, Moves DEF TypeOK
<1>9. ASSUME NEW p \in Procs, AcquireJournal(p) \/ ReleaseJournal(p)
      PROVE  TypeOK' /\ Roles'
  <2>1. PICK there : Fits(p, there) /\ Goto(p, there)
    BY <1>9 DEF AcquireJournal, ReleaseJournal, AfterUnlocking, Roles, Fits, Live,
         Inside, Appending
  <2>2. /\ pc[p] # "idle" /\ given' = given /\ outcome' = outcome
        /\ journalLock' \in Procs \cup {Nobody}
    BY <1>9 DEF AcquireJournal, ReleaseJournal, Unlock
  <2>3. UNCHANGED <<clock, retries, expected, work, gens, document, journal,
                    pending, faults>>
    BY <1>9 DEF AcquireJournal, ReleaseJournal, Unlock
  <2> QED BY <2>1, <2>2, <2>3, Moves DEF TypeOK
<1>10. ASSUME NEW p \in Procs, RaiseBarrier(p) \/ LiftBarrier(p)
       PROVE  TypeOK' /\ Roles'
  <2>1. PICK there : Fits(p, there) /\ Goto(p, there)
    BY <1>10 DEF RaiseBarrier, LiftBarrier, Roles, Fits, Live, Inside, Appending
  <2>2. /\ pc[p] # "idle" /\ given' = given
        /\ outcome' = outcome \/ Result(p, "ok")
        /\ pending' \in BOOLEAN
    BY <1>10 DEF RaiseBarrier, LiftBarrier, Bar
  <2>3. UNCHANGED <<clock, retries, expected, work, gens, document, journal,
                    journalLock, faults>>
    BY <1>10 DEF RaiseBarrier, LiftBarrier, Bar
  <2> QED BY <2>1, <2>2, <2>3, Moves DEF TypeOK
<1>11. ASSUME NEW p \in Procs, AppendEntry(p) \/ AppendCommit(p)
       PROVE  TypeOK' /\ Roles'
  <2>1. PICK there : Fits(p, there) /\ Goto(p, there)
    BY <1>11 DEF AppendEntry, AppendCommit, Roles, Fits, Live, Inside, Appending
  <2>2. /\ pc[p] # "idle" /\ given' = given /\ outcome' = outcome
    BY <1>11 DEF AppendEntry, AppendCommit
  <2>3. pc[p] \in Appending /\ \E kind \in {"entry", "commit"} : Write(p, kind)
    BY <1>11 DEF AppendEntry, AppendCommit, Appending
  <2>4. /\ journal' \in Seq(Lines)
        /\ UNCHANGED <<gens, document, pending, journalLock>>
    BY <2>3, WriteTypes
  <2>5. UNCHANGED <<clock, retries, expected, work, faults>>
    BY <1>11 DEF AppendEntry, AppendCommit
  <2> QED BY <2>1, <2>2, <2>4, <2>5, Moves DEF TypeOK
<1>12. ASSUME NEW p \in Procs, Break(p) PROVE TypeOK' /\ Roles'
  <2>1. Fits(p, FailureExit(p)) /\ Goto(p, FailureExit(p))
    BY <1>12, LeavesTypes, FailureFits DEF Break, Throw
  <2>2. /\ pc[p] # "idle" /\ given' = given /\ Result(p, "failed")
    BY <1>12, LeavesTypes DEF Break, Throw, Live, Inside, Appending
  <2>3. faults' \in 0..MaxFaults /\ UNCHANGED <<clock, retries, expected, work>>
    <3>1. faults < MaxFaults /\ faults' = faults + 1
      BY <1>12 DEF Break
    <3> QED BY <1>12, <3>1 DEF Break, TypeOK
  <2> QED BY <1>12, <2>1, <2>2, <2>3, Moves, LeavesTypes DEF TypeOK, Break
<1>13. ASSUME NEW p \in Procs, Die(p) PROVE TypeOK' /\ Roles'
  <2>1. Fits(p, "dead") /\ Goto(p, "dead")
    BY <1>13 DEF Die, Fits, Appending
  <2>2. /\ pc[p] # "idle" /\ given' = given /\ outcome' = outcome
        /\ faults' \in 0..MaxFaults /\ journalLock' \in Procs \cup {Nobody}
    BY <1>13 DEF Die, StrayLock, TypeOK, Live, Inside, Appending
  <2>3. UNCHANGED <<clock, retries, expected, work, gens, document, journal, pending>>
    BY <1>13 DEF Die, StrayLock
  <2> QED BY <2>1, <2>2, <2>3, Moves DEF TypeOK
<1> QED
  BY <1>1, <1>2, <1>3, <1>4, <1>5, <1>6, <1>7, <1>8, <1>9, <1>10, <1>11,
     <1>12, <1>13 DEF Next, Proceed

(* Whatever happens, every variable keeps its type, and every call its     *)
(* place and its input.                                                    *)
THEOREM TypesAlways == Spec => [](TypeOK /\ Roles)
BY TypesInit, TypesStep, PTL DEF Spec

-----------------------------------------------------------------------------
(* The lock of the document *)

LEMMA LockingInit == Init => Locking
BY ConstantFacts DEF Init, Locking, OneOwner, Generations, Inside

(* The lock is not touched by a call that moves on without it, on the way  *)
(* out, or within it.                                                      *)
LEMMA LockingKept ==
  ASSUME TypeOK, Locking, NEW p \in Procs, NEW there, Goto(p, there),
         gens' = gens, at' = at,
         p \in Keepers =>
           /\ there \notin {"inspecting", "claiming"}
           /\ there \in Inside => pc[p] \in Inside
  PROVE  Locking'
<1>1. \A q \in Keepers :
        \/ pc'[q] = pc[q]
        \/ /\ pc'[q] \notin {"inspecting", "claiming"}
           /\ pc'[q] \in Inside => pc[q] \in Inside
  BY ConstantFacts DEF Goto, TypeOK
<1>2. \A q \in Keepers : pc'[q] \in Inside => pc[q] \in Inside
  BY <1>1
<1>3. OneOwner'
  BY <1>2 DEF Locking, OneOwner
<1>4. Generations'
  BY <1>1, <1>2 DEF Locking, Generations
<1> QED BY <1>3, <1>4 DEF Locking

(* A marker is put by the one inside, into the last generation.            *)
LEMMA LockingMarked ==
  ASSUME TypeOK, Locking, NEW p \in Keepers, pc[p] \in Inside,
         NEW there, Goto(p, there),
         NEW state \in {"owned", "released"}, Mark(p, state), at' = at,
         there \notin {"inspecting", "claiming"},
         there \in Inside => state = "owned"
  PROVE  Locking'
<1>1. \A q \in Keepers : pc'[q] = IF q = p THEN there ELSE pc[q]
  BY ConstantFacts DEF Goto, TypeOK
<1>2. OneOwner'
  BY <1>1 DEF Locking, OneOwner
<1>3. /\ Len(gens') = Len(gens)
      /\ \A g \in 1..Len(gens) : gens'[g] = IF g = at[p] THEN state ELSE gens[g]
      /\ at[p] = Len(gens) /\ at[p] # 0 /\ gens[at[p]] # "released"
      /\ Len(gens) \in Nat
  BY MarkTypes, ConstantFacts, LenProperties DEF Locking, Generations, TypeOK
<1>4. ASSUME NEW q \in Keepers
      PROVE  /\ pc'[q] = "inspecting" => at'[q] \in 1..Len(gens')
             /\ pc'[q] = "claiming" =>
                  at'[q] \in 0..Len(gens') /\ (at'[q] # 0 => gens'[at'[q]] = "released")
             /\ pc'[q] \in Inside =>
                  at'[q] = Len(gens') /\ at'[q] # 0 /\ gens'[at'[q]] # "released"
  <2>1. CASE q = p
    BY <1>1, <1>3, <2>1
  <2>2. CASE q # p
    <3>1. pc'[q] = pc[q] /\ pc[q] \notin Inside
      BY <1>1, <2>2 DEF Locking, OneOwner
    <3>2. /\ pc[q] = "inspecting" => at[q] \in 1..Len(gens)
          /\ pc[q] = "claiming" =>
               at[q] \in 0..Len(gens) /\ (at[q] # 0 => gens[at[q]] = "released")
      BY DEF Locking, Generations
    <3> QED BY <1>3, <3>1, <3>2
  <2> QED BY <2>1, <2>2
<1>5. Generations'
  BY <1>4 DEF Generations
<1> QED BY <1>2, <1>5 DEF Locking

LEMMA LockingStep == TypeOK /\ Roles /\ Locking /\ [Next]_vars => Locking'
<1> SUFFICES ASSUME TypeOK, Roles, Locking, [Next]_vars PROVE Locking'
  OBVIOUS
<1> USE DEF call, work, disk, journaling
<1>1. CASE UNCHANGED vars \/ Tick
  BY <1>1 DEF vars, Tick, Locking, OneOwner, Generations
<1>2. ASSUME NEW p \in Procs, Call(p) PROVE Locking'
  BY <1>2, LockingKept DEF Call, Inside
<1>3. ASSUME NEW p \in Procs, List(p) PROVE Locking'
  <2>1. at' = [at EXCEPT ![p] = Len(gens)] /\ gens' = gens /\ Len(gens) \in Nat
    BY <1>3 DEF List, TypeOK
  <2>2. pc' = [pc EXCEPT ![p] = IF gens = <<>> THEN "claiming" ELSE "inspecting"]
    BY <1>3 DEF List, Goto
  <2>3. \A q \in Keepers \ {p} : pc'[q] = pc[q] /\ at'[q] = at[q]
    BY <2>1, <2>2, ConstantFacts DEF TypeOK
  <2>4. /\ at'[p] = Len(gens) /\ pc'[p] \in {"inspecting", "claiming"}
        /\ pc'[p] = "claiming" => gens = <<>>
        /\ pc'[p] = "inspecting" => gens # <<>>
    BY <2>1, <2>2 DEF TypeOK
  <2>5. gens = <<>> <=> Len(gens) = 0
    BY EmptySeq, LenProperties DEF TypeOK
  <2>6. OneOwner'
    BY <2>3, <2>4 DEF Locking, OneOwner, Inside
  <2>7. Generations'
    BY <2>1, <2>3, <2>4, <2>5 DEF Locking, Generations, Inside
  <2> QED BY <2>6, <2>7 DEF Locking
<1>4. ASSUME NEW p \in Procs, Inspect(p) PROVE Locking'
  <2>1. gens' = gens /\ at' = at /\ pc[p] = "inspecting" /\ p \in Keepers
    BY <1>4, ConstantFacts DEF Inspect, Roles, Fits, Appending
  <2>2. CASE ~GivenUp(at[p])
    BY <1>4, <2>1, <2>2, LockingKept DEF Inspect, Inside
  <2>3. CASE GivenUp(at[p])
    <3>1. \A q \in Keepers : pc'[q] = IF q = p THEN "claiming" ELSE pc[q]
      BY <1>4, <2>3, ConstantFacts DEF Inspect, Goto, TypeOK
    <3>2. at[p] \in 1..Len(gens) /\ gens[at[p]] = "released"
      BY <2>1, <2>3 DEF Locking, Generations, GivenUp
    <3> QED BY <2>1, <3>1, <3>2 DEF Locking, OneOwner, Generations, Inside
  <2> QED BY <2>2, <2>3
<1>5. ASSUME NEW p \in Procs, Claim(p) PROVE Locking'
  <2>1. pc[p] = "claiming" /\ p \in Keepers
    BY <1>5, ConstantFacts DEF Claim, Roles, Fits, Appending
  <2>2. CASE at[p] + 1 \in DOMAIN gens
    BY <1>5, <2>2, LockingKept DEF Claim, Inside
  <2>3. CASE at[p] + 1 \notin DOMAIN gens
    <3>1. /\ gens' = Append(gens, "claimed")
          /\ at' = [at EXCEPT ![p] = @ + 1] /\ Goto(p, "owning")
      BY <1>5, <2>3 DEF Claim
    <3>2. DOMAIN gens = 1..Len(gens) /\ Len(gens) \in Nat
      BY LenProperties DEF TypeOK
    <3>3. at[p] = Len(gens) /\ (at[p] # 0 => gens[at[p]] = "released")
      BY <2>1, <2>3, <3>2 DEF Locking, Generations
    <3>4. \A q \in Keepers : pc[q] \notin Inside
      BY <3>3 DEF Locking, Generations
    <3>5. /\ pc'[p] = "owning" /\ at'[p] = Len(gens) + 1
          /\ \A q \in Keepers \ {p} : pc'[q] = pc[q] /\ at'[q] = at[q]
      BY <2>1, <3>1, <3>3, ConstantFacts DEF Goto, TypeOK
    <3>6. /\ Len(gens') = Len(gens) + 1 /\ gens'[Len(gens) + 1] = "claimed"
          /\ \A g \in 1..Len(gens) : gens'[g] = gens[g]
      BY <3>1, ClaimTypes
    <3>7. OneOwner'
      BY <3>4, <3>5 DEF OneOwner
    <3>8. Generations'
      BY <3>2, <3>4, <3>5, <3>6 DEF Locking, Generations
    <3> QED BY <3>7, <3>8 DEF Locking
  <2> QED BY <2>2, <2>3
<1>6. ASSUME NEW p \in Procs, WriteOwner(p) \/ Release(p) PROVE Locking'
  <2>1. p \in Keepers /\ pc[p] \in Inside /\ at' = at
    BY <1>6, ConstantFacts DEF WriteOwner, Release, Roles, Fits, Appending, Inside
  <2>2. CASE WriteOwner(p)
    BY <2>1, <2>2, LockingMarked DEF WriteOwner
  <2>3. CASE Release(p)
    BY <2>1, <2>3, LockingMarked DEF Release, Inside
  <2> QED BY <1>6, <2>2, <2>3
<1>7. ASSUME NEW p \in Procs, ReadStored(p) \/ Resolve(p) \/ Publish(p) PROVE Locking'
  <2>1. gens' = gens /\ at' = at /\ pc[p] \in Inside
    BY <1>7 DEF ReadStored, Resolve, Publish, Inside
  <2>2. \E there \in Inside : Goto(p, there)
    BY <1>7 DEF ReadStored, Resolve, Publish, Decide, Inside
  <2> QED BY <2>1, <2>2, LockingKept DEF Inside
<1>8. ASSUME NEW p \in Procs,
             \/ WriteSnapshot(p) \/ AcquireJournal(p) \/ ReleaseJournal(p)
             \/ CheckEvent(p) \/ RaiseBarrier(p) \/ LiftBarrier(p)
             \/ AppendEntry(p) \/ AppendCommit(p)
      PROVE  Locking'
  <2>1. gens' = gens /\ at' = at
    BY <1>8 DEF WriteSnapshot, AcquireJournal, ReleaseJournal, CheckEvent,
         RaiseBarrier, LiftBarrier, AppendEntry, AppendCommit, Replace, Unlock,
         Bar, Write
  <2>2. PICK there : Goto(p, there) /\ there \notin {"inspecting", "claiming"}
    <3>1. CASE WriteSnapshot(p) \/ ReleaseJournal(p)
      BY <3>1 DEF WriteSnapshot, ReleaseJournal, AfterWriting, AfterUnlocking
    <3>2. CASE AcquireJournal(p)
      BY <3>2 DEF AcquireJournal
    <3>3. CASE CheckEvent(p)
      <4>1. Goto(p, "barring") \/ Goto(p, "unlocking")
        BY <3>3 DEF CheckEvent
      <4> QED BY <4>1 DEF Goto
    <3>4. CASE RaiseBarrier(p) \/ LiftBarrier(p) \/ AppendEntry(p) \/ AppendCommit(p)
      <4>1. Goto(p, "entering") \/ Goto(p, "committing") \/ Goto(p, "lifting")
              \/ Goto(p, "unlocking")
        BY <3>4 DEF RaiseBarrier, LiftBarrier, AppendEntry, AppendCommit
      <4> QED BY <4>1 DEF Goto
    <3> QED BY <1>8, <3>1, <3>2, <3>3, <3>4
  <2>3. p \in Keepers => pc[p] \in Inside
    BY <1>8 DEF WriteSnapshot, AcquireJournal, ReleaseJournal, CheckEvent,
         RaiseBarrier, LiftBarrier, AppendEntry, AppendCommit, Roles, Fits,
         Inside, Appending
  <2> QED BY <2>1, <2>2, <2>3, LockingKept
<1>9. ASSUME NEW p \in Procs, TimeOut(p) \/ Break(p) \/ Die(p) PROVE Locking'
  <2>1. at' = at /\ pc[p] \in Live
    BY <1>9, LeavesTypes DEF TimeOut, Break, Die, Live, Inside
  <2>2. PICK there : /\ Goto(p, there) /\ there \in {"idle", "dead", "unlocking", "releasing"}
                     /\ p \in Keepers /\ there \in Inside => pc[p] \in Inside
                     /\ pc[p] \in {"owning", "releasing"} => there \in {"idle", "dead"}
    <3>1. Goto(p, FailureExit(p)) \/ Goto(p, "dead")
      BY <1>9 DEF TimeOut, Break, Die, Throw
    <3>2. FailureExit(p) \in {"idle", "unlocking", "releasing"}
      BY DEF FailureExit, AfterWriting
    <3>3. pc[p] \in {"owning", "releasing"} => FailureExit(p) = "idle"
      BY DEF FailureExit, Appending
    <3>4. p \in Keepers /\ FailureExit(p) \in Inside => pc[p] \in Inside
      BY <2>1 DEF FailureExit, AfterWriting, Roles, Fits, Live, Inside, Appending
    <3> QED BY <3>1, <3>2, <3>3, <3>4 DEF Inside
  <2>3. CASE gens' = gens
    BY <2>1, <2>2, <2>3, LockingKept
  <2>4. CASE \E state \in {"owned", "released"} :
               pc[p] \in {"owning", "releasing"} /\ Mark(p, state)
    <3>1. p \in Keepers /\ pc[p] \in Inside
      BY <2>4, ConstantFacts DEF Roles, Fits, Appending, Inside
    <3> QED BY <2>1, <2>2, <2>4, <3>1, LockingMarked DEF Inside
  <2> QED
    BY <1>9, <2>3, <2>4 DEF TimeOut, Break, Die, Leaves, StrayLock, Replace, Bar,
       Write, Unlock
<1> QED
  BY <1>1, <1>2, <1>3, <1>4, <1>5, <1>6, <1>7, <1>8, <1>9 DEF Next, Proceed

(* One process at most is between claiming a generation of the lock and    *)
(* leaving it.                                                             *)
THEOREM OneOwnerAlways == Spec => []OneOwner
<1>1. Init => TypeOK /\ Roles /\ Locking
  BY TypesInit, LockingInit
<1>2. TypeOK /\ Roles /\ Locking /\ [Next]_vars => (TypeOK /\ Roles /\ Locking)'
  BY TypesStep, LockingStep
<1>3. Locking => OneOwner
  BY DEF Locking
<1> QED BY <1>1, <1>2, <1>3, PTL DEF Spec

-----------------------------------------------------------------------------
(* The journal *)

LEMMA JournalingInit == Init => Journaling
<1> SUFFICES ASSUME Init PROVE Journaling
  OBVIOUS
<1>1. journal = <<>> /\ DOMAIN journal = {} /\ Len(journal) = 0 /\ ~pending
  BY DEF Init
<1>2. Readable
  BY <1>1 DEF Readable, Alternating, Once
<1>3. \A p \in Procs : Stage(p)
  BY DEF Init, Stage, Holding, Appending
<1> QED BY <1>2, <1>3 DEF Journaling, JournalSound, Readable

(* A line more.                                                            *)
LEMMA WriteFacts ==
  ASSUME TypeOK, Roles, NEW p \in Procs, pc[p] \in Appending,
         NEW kind \in {"entry", "commit", "torn"}, Write(p, kind)
  PROVE  /\ Len(journal) \in Nat /\ Len(journal') = Len(journal) + 1
         /\ DOMAIN journal = 1..Len(journal) /\ DOMAIN journal' = 1..(Len(journal) + 1)
         /\ \A i \in 1..Len(journal) : journal'[i] = journal[i]
         /\ journal'[Len(journal) + 1].kind = kind
         /\ journal'[Len(journal) + 1].by = p
         /\ journal'[Len(journal) + 1].time = clock
         /\ UNCHANGED <<gens, document, pending, journalLock>>
<1>1. journal' \in Seq(Lines) /\ journal \in Seq(Lines)
  BY WriteTypes DEF TypeOK
<1>2. [kind |-> kind, by |-> p, of |-> given[p].of, time |-> clock] \in Lines
  <2>1. p \in Appenders /\ given[p].of \in Portfolios
    BY WriteTypes, GivenFacts DEF Appending
  <2> QED BY <2>1 DEF Lines, TypeOK
<1>3. journal' = Append(journal, [kind |-> kind, by |-> p, of |-> given[p].of,
                                  time |-> clock])
  BY DEF Write
<1>4. journal'[Len(journal) + 1] =
        [kind |-> kind, by |-> p, of |-> given[p].of, time |-> clock]
  BY <1>1, <1>2, <1>3, AppendProperties
<1>5. /\ Len(journal) \in Nat /\ Len(journal') = Len(journal) + 1
      /\ DOMAIN journal = 1..Len(journal) /\ DOMAIN journal' = 1..(Len(journal) + 1)
      /\ \A i \in 1..Len(journal) : journal'[i] = journal[i]
  BY <1>1, <1>2, <1>3, AppendProperties, LenProperties
<1> QED BY <1>4, <1>5 DEF Write

(* Whose event is committed by it.                                         *)
LEMMA WriteCommits ==
  ASSUME TypeOK, Roles, NEW p \in Procs, pc[p] \in Appending,
         NEW kind \in {"entry", "commit", "torn"}, Write(p, kind)
  PROVE  /\ \A q \in Procs : Persisted(q)' <=> Persisted(q) \/ (q = p /\ kind = "commit")
         /\ Once /\ (kind = "commit" => ~Persisted(p)) => Once'
<1>0. /\ Len(journal) \in Nat /\ DOMAIN journal = 1..Len(journal)
      /\ DOMAIN journal' = 1..(Len(journal) + 1)
      /\ \A i \in 1..Len(journal) : journal'[i] = journal[i]
      /\ journal'[Len(journal) + 1].kind = kind /\ journal'[Len(journal) + 1].by = p
  BY WriteFacts
<1>1. \A i \in 1..(Len(journal) + 1) :
        Commit(i)' <=> IF i = Len(journal) + 1 THEN kind = "commit" ELSE Commit(i)
  BY <1>0 DEF Commit
<1>2. \A i \in 1..(Len(journal) + 1) :
        journal'[i].by = IF i = Len(journal) + 1 THEN p ELSE journal[i].by
  BY <1>0
<1>3. \A i : Commit(i) => i \in 1..Len(journal)
  BY <1>0 DEF Commit
<1>4. \A q \in Procs : Persisted(q)' <=> Persisted(q) \/ (q = p /\ kind = "commit")
  BY <1>0, <1>1, <1>2, <1>3 DEF Persisted
<1>5. Once /\ (kind = "commit" => ~Persisted(p)) => Once'
  BY <1>0, <1>1, <1>2, <1>3 DEF Persisted, Once
<1> QED BY <1>4, <1>5

LEMMA WriteEntry ==
  ASSUME TypeOK, Roles, NEW p \in Procs, pc[p] \in Appending, Readable,
         Write(p, "entry")
  PROVE  Alternating' /\ Len(journal') % 2 = 1 /\ journal'[Len(journal')].by = p
<1>1. /\ Len(journal) \in Nat /\ Len(journal') = Len(journal) + 1
      /\ DOMAIN journal = 1..Len(journal) /\ DOMAIN journal' = 1..(Len(journal) + 1)
      /\ \A i \in 1..Len(journal) : journal'[i] = journal[i]
      /\ journal'[Len(journal) + 1].by = p /\ journal'[Len(journal) + 1].kind = "entry"
  <2>1. \A kind \in {"entry", "commit", "torn"} : Write(p, kind) =>
          /\ Len(journal) \in Nat /\ Len(journal') = Len(journal) + 1
          /\ DOMAIN journal = 1..Len(journal) /\ DOMAIN journal' = 1..(Len(journal) + 1)
          /\ \A i \in 1..Len(journal) : journal'[i] = journal[i]
          /\ journal'[Len(journal) + 1].by = p /\ journal'[Len(journal) + 1].kind = kind
    BY WriteFacts
  <2> QED BY <2>1
<1>2. Len(journal') % 2 = 1
  BY <1>1 DEF Readable
<1>3. Alternating'
  BY <1>1, <1>2 DEF Readable, Alternating, Commit
<1> QED BY <1>1, <1>2, <1>3

LEMMA WriteCommit ==
  ASSUME TypeOK, Roles, NEW p \in Procs, pc[p] \in Appending, Alternating, Once,
         Len(journal) % 2 = 1, journal[Len(journal)].by = p, ~Persisted(p),
         Write(p, "commit")
  PROVE  Readable'
<1>1. /\ Len(journal) \in Nat /\ Len(journal') = Len(journal) + 1
      /\ DOMAIN journal = 1..Len(journal) /\ DOMAIN journal' = 1..(Len(journal) + 1)
      /\ \A i \in 1..Len(journal) : journal'[i] = journal[i]
      /\ journal'[Len(journal) + 1].by = p /\ journal'[Len(journal) + 1].kind = "commit"
  <2>1. \A kind \in {"entry", "commit", "torn"} : Write(p, kind) =>
          /\ Len(journal) \in Nat /\ Len(journal') = Len(journal) + 1
          /\ DOMAIN journal = 1..Len(journal) /\ DOMAIN journal' = 1..(Len(journal) + 1)
          /\ \A i \in 1..Len(journal) : journal'[i] = journal[i]
          /\ journal'[Len(journal) + 1].by = p /\ journal'[Len(journal) + 1].kind = kind
    BY WriteFacts
  <2> QED BY <2>1
<1>2. Len(journal') % 2 = 0 /\ Len(journal) \in 1..Len(journal)
  BY <1>1
<1>3. Alternating'
  <2>1. \A i \in 1..Len(journal) : i % 2 # 1 => i - 1 \in 1..Len(journal)
    BY <1>1
  <2>2. \A i \in 1..Len(journal) : Commit(i)' <=> Commit(i)
    BY <1>1 DEF Commit
  <2>3. ASSUME NEW i \in 1..Len(journal)
        PROVE  IF i % 2 = 1 THEN journal'[i].kind = "entry"
               ELSE Commit(i)' /\ journal'[i].by = journal'[i - 1].by
    BY <1>1, <2>1, <2>2 DEF Alternating
  <2>4. ASSUME NEW i \in DOMAIN journal', i \notin 1..Len(journal)
        PROVE  i % 2 # 1 /\ Commit(i)' /\ journal'[i].by = journal'[i - 1].by
    <3>1. i = Len(journal) + 1 /\ i - 1 = Len(journal) /\ i % 2 = 0
      BY <1>1, <1>2, <2>4
    <3> QED BY <1>1, <1>2, <3>1 DEF Commit
  <2> QED BY <1>1, <2>3, <2>4 DEF Alternating
<1>4. Once'
  BY WriteCommits
<1> QED BY <1>2, <1>3, <1>4 DEF Readable

(* A step of p leaves the others where they are.                           *)
LEMMA JournalingBy ==
  ASSUME TypeOK, Journaling, NEW p \in Procs,
         \A q \in Procs \ {p} : pc'[q] = pc[q] /\ outcome'[q] = outcome[q],
         journalLock \in {p, Nobody} \/ UNCHANGED journaling,
         \A q \in Procs : Persisted(q) => Persisted(q)',
         JournalSound', Once', Stage(p)'
  PROVE  Journaling'
<1>1. ASSUME NEW q \in Procs, q # p PROVE Stage(q)'
  <2>1. CASE UNCHANGED journaling
    BY <1>1, <2>1 DEF Journaling, Stage, Holding, Persisted, Readable, Alternating,
       Once, Commit, journaling
  <2>2. CASE journalLock \in {p, Nobody}
    <3>1. ~Holding(q) /\ pc'[q] = pc[q] /\ outcome'[q] = outcome[q]
      BY <1>1, <2>2, ConstantFacts DEF Journaling, Stage
    <3>2. ~Holding(q)' /\ pc'[q] \notin Appending
      BY <3>1 DEF Holding
    <3> QED BY <1>1, <3>1, <3>2 DEF Journaling, Stage, Appending
  <2> QED BY <2>1, <2>2
<1> QED BY <1>1 DEF Journaling

(* A step that leaves the journal alone, and does not go to a stage of an  *)
(* append.                                                                 *)
LEMMA JournalingKept ==
  ASSUME TypeOK, Journaling, NEW p \in Procs, NEW there, Goto(p, there),
         there \notin {"barring", "entering", "committing", "lifting"},
         \/ there \notin {"deciding", "unlocking", "checking", "writing"}
         \/ there = "writing" /\ p \notin Publishers
         \/ journalLock = p,
         outcome' = outcome \/ \E r \in {"none", "ok", "failed"} : Result(p, r),
         p \in Appenders /\ outcome'[p] = "ok" => outcome[p] = "ok" \/ Persisted(p),
         UNCHANGED journaling
  PROVE  Journaling'
<1>1. /\ pc'[p] = there
      /\ \A q \in Procs \ {p} : pc'[q] = pc[q] /\ outcome'[q] = outcome[q]
  BY DEF TypeOK, Goto, Result
<1>2. (\A q \in Procs : Persisted(q)' <=> Persisted(q)) /\ JournalSound' /\ Once'
  BY DEF Journaling, JournalSound, Readable, Alternating, Once, Persisted, Commit,
         journaling
<1>3. Stage(p)'
  BY <1>1, <1>2 DEF Journaling, Stage, Holding, Appending, journaling
<1> QED BY <1>1, <1>2, <1>3, JournalingBy

LEMMA JournalingStep ==
  TypeOK /\ Roles /\ Journaling /\ [Next]_vars => Journaling'
<1> SUFFICES ASSUME TypeOK, Roles, Journaling, [Next]_vars PROVE Journaling'
  OBVIOUS
<1> USE ConstantFacts DEF call, work, disk
<1>1. CASE UNCHANGED vars \/ Tick
  <2>1. UNCHANGED <<pc, outcome, journal, pending, journalLock>>
    BY <1>1 DEF vars, Tick, journaling
  <2> QED BY <2>1 DEF Journaling, JournalSound, Stage, Holding, Persisted, Readable,
             Alternating, Once, Commit
<1>2. ASSUME NEW p \in Procs, Call(p) PROVE Journaling'
  BY <1>2, JournalingKept DEF Call, Result, TypeOK
<1>3. ASSUME NEW p \in Procs,
             \/ List(p) \/ Inspect(p) \/ Claim(p) \/ WriteOwner(p) \/ Release(p)
             \/ ReadStored(p) \/ Resolve(p)
      PROVE  Journaling'
  <2>1. UNCHANGED journaling
    BY <1>3 DEF List, Inspect, Claim, WriteOwner, Release, ReadStored, Resolve, Mark
  <2>2. p \in Keepers /\ (Resolve(p) => p \notin Publishers)
    BY <1>3 DEF List, Inspect, Claim, WriteOwner, Release, ReadStored, Resolve,
                Roles, Fits, Appending
  <2>3. outcome' = outcome \/ \E r \in {"ok", "failed"} : Result(p, r)
    BY <1>3 DEF List, Inspect, Claim, WriteOwner, Release, ReadStored, Resolve, Decide
  <2>4. CASE \E there \in {"listing", "inspecting", "claiming", "owning", "reading",
                          "resolving", "sources", "releasing", "ended", "idle"} :
               Goto(p, there)
    BY <2>1, <2>2, <2>3, <2>4, JournalingKept
  <2>5. CASE Resolve(p) /\ Goto(p, "writing")
    BY <2>1, <2>2, <2>3, <2>5, JournalingKept
  <2> QED
    BY <1>3, <2>4, <2>5 DEF List, Inspect, Claim, WriteOwner, Release, ReadStored,
       Resolve, Decide
<1>4. ASSUME NEW p \in Procs, Publish(p) PROVE Journaling'
  <2>1. p \in Keepers /\ journalLock = p /\ UNCHANGED journaling
    BY <1>4 DEF Publish, Roles, Fits, Appending, Journaling, Stage, Holding
  <2>2. /\ \E there \in {"unlocking", "writing"} : Goto(p, there)
        /\ outcome' = outcome \/ \E r \in {"ok", "failed"} : Result(p, r)
    BY <1>4 DEF Publish, Decide
  <2> QED BY <2>1, <2>2, JournalingKept
<1>5. ASSUME NEW p \in Procs, WriteSnapshot(p) PROVE Journaling'
  <2>1. /\ p \in Keepers /\ UNCHANGED journaling /\ Result(p, "ok")
        /\ Goto(p, AfterWriting(p)) /\ pc[p] = "writing"
    BY <1>5 DEF WriteSnapshot, Replace, Roles, Fits, Appending
  <2>2. CASE p \in Publishers
    <3>1. AfterWriting(p) = "unlocking" /\ journalLock = p
      BY <2>1, <2>2 DEF AfterWriting, Journaling, Stage, Holding
    <3> QED BY <2>1, <3>1, JournalingKept
  <2>3. CASE p \notin Publishers
    BY <2>1, <2>3, JournalingKept DEF AfterWriting
  <2> QED BY <2>2, <2>3
<1>6. ASSUME NEW p \in Procs, AcquireJournal(p) PROVE Journaling'
  <2>1. /\ journalLock = Nobody /\ journalLock' = p
        /\ UNCHANGED <<journal, pending, outcome>>
        /\ pc'[p] \in {"deciding", "checking"}
        /\ \A q \in Procs \ {p} : pc'[q] = pc[q]
    BY <1>6 DEF AcquireJournal, Goto, TypeOK
  <2>2. \A q \in Procs : Persisted(q)' <=> Persisted(q)
    BY <2>1 DEF Persisted, Commit
  <2>3. JournalSound' /\ Once'
    BY <2>1 DEF Journaling, JournalSound, Readable, Alternating, Once, Commit
  <2>4. Stage(p)'
    BY <2>1, <2>2 DEF Journaling, Stage, Holding
  <2> QED BY <2>1, <2>2, <2>3, <2>4, JournalingBy
<1>7. ASSUME NEW p \in Procs, CheckEvent(p) PROVE Journaling'
  <2>1. /\ journalLock = p /\ UNCHANGED journaling /\ p \in Appenders
        /\ \A q \in Procs \ {p} : pc'[q] = pc[q] /\ outcome'[q] = outcome[q]
    BY <1>7 DEF CheckEvent, Goto, Result, TypeOK, Journaling, Stage, Holding, Appending,
                Roles, Fits
  <2>2. CASE Goto(p, "unlocking")
    <3>1. /\ pc'[p] = "unlocking"
          /\ outcome'[p] \in {"ok", "failed"} /\ (outcome'[p] = "ok" => Persisted(p))
      BY <1>7, <2>2 DEF CheckEvent, Goto, Result, TypeOK
    <3>2. /\ \A q \in Procs : Persisted(q)' <=> Persisted(q)
          /\ JournalSound' /\ Once'
      BY <2>1 DEF Persisted, Commit, Journaling, JournalSound, Readable, Alternating,
                  Once, journaling
    <3>3. Stage(p)'
      BY <2>1, <3>1, <3>2 DEF Journaling, Stage, Holding, journaling
    <3> QED BY <2>1, <3>2, <3>3, JournalingBy
  <2>3. CASE Goto(p, "barring") /\ ~pending /\ Readable /\ ~Persisted(p) /\ outcome' = outcome
    <3>1. pc'[p] = "barring"
      BY <2>3 DEF Goto, TypeOK
    <3>2. /\ \A q \in Procs : Persisted(q)' <=> Persisted(q)
          /\ JournalSound' /\ Once' /\ Readable'
      BY <2>1, <2>3 DEF Persisted, Commit, Journaling, JournalSound, Readable,
                        Alternating, Once, journaling
    <3>3. Stage(p)'
      BY <2>1, <2>3, <3>1, <3>2 DEF Journaling, Stage, Holding, journaling
    <3> QED BY <2>1, <3>2, <3>3, JournalingBy
  <2> QED BY <1>7, <2>2, <2>3 DEF CheckEvent
<1>8. ASSUME NEW p \in Procs,
             \/ RaiseBarrier(p) \/ LiftBarrier(p) \/ AppendEntry(p) \/ AppendCommit(p)
      PROVE  Journaling'
  <2>1. /\ journalLock = p /\ pc[p] \in Appending /\ journalLock' = journalLock
        /\ \A q \in Procs \ {p} : pc'[q] = pc[q] /\ outcome'[q] = outcome[q]
    BY <1>8 DEF RaiseBarrier, LiftBarrier, AppendEntry, AppendCommit, Bar, Write,
       Goto, Result, TypeOK, Journaling, Stage, Holding, Appending
  <2>2. CASE RaiseBarrier(p)
    <3>1. /\ pc[p] = "barring" /\ pc'[p] = "entering" /\ outcome' = outcome
          /\ pending' = TRUE /\ journal' = journal
      BY <2>2 DEF RaiseBarrier, Bar, Goto, TypeOK
    <3>2. /\ \A q \in Procs : Persisted(q)' <=> Persisted(q)
          /\ JournalSound' /\ Once' /\ (Readable => Readable')
      BY <3>1 DEF Persisted, Commit, Journaling, JournalSound, Readable,
                  Alternating, Once
    <3>3. Stage(p)'
      BY <2>1, <3>1, <3>2 DEF Journaling, Stage, Holding
    <3> QED BY <2>1, <3>2, <3>3, JournalingBy
  <2>3. CASE LiftBarrier(p)
    <3>1. /\ pc[p] = "lifting" /\ pc'[p] = "unlocking" /\ journal' = journal
      BY <2>3 DEF LiftBarrier, Bar, Goto, TypeOK
    <3>2. Readable /\ Persisted(p)
      BY <3>1 DEF Journaling, Stage
    <3>3. /\ \A q \in Procs : Persisted(q)' <=> Persisted(q)
          /\ JournalSound' /\ Once'
      BY <3>1, <3>2 DEF Persisted, Commit, Journaling, JournalSound, Readable,
                        Alternating, Once
    <3>4. Stage(p)'
      BY <2>1, <3>1, <3>2, <3>3 DEF Journaling, Stage, Holding
    <3> QED BY <2>1, <3>3, <3>4, JournalingBy
  <2>4. CASE AppendEntry(p)
    <3>1. /\ pc[p] = "entering" /\ pc'[p] = "committing" /\ outcome' = outcome
          /\ Write(p, "entry") /\ pending' = pending
      BY <2>4 DEF AppendEntry, Write, Goto, TypeOK
    <3>2. Readable /\ pending /\ ~Persisted(p)
      BY <3>1 DEF Journaling, Stage
    <3>3. /\ \A q \in Procs : Persisted(q)' <=> Persisted(q)
          /\ JournalSound' /\ Once'
      BY <2>1, <3>1, <3>2, WriteCommits DEF Journaling, JournalSound
    <3>4. Alternating' /\ Len(journal') % 2 = 1 /\ journal'[Len(journal')].by = p
      BY <2>1, <3>1, <3>2, WriteEntry
    <3>5. Stage(p)'
      BY <2>1, <3>1, <3>2, <3>3, <3>4 DEF Journaling, Stage, Holding
    <3> QED BY <2>1, <3>3, <3>5, JournalingBy
  <2>5. CASE AppendCommit(p)
    <3>1. /\ pc[p] = "committing" /\ pc'[p] = "lifting" /\ outcome' = outcome
          /\ Write(p, "commit") /\ pending' = pending
      BY <2>5 DEF AppendCommit, Write, Goto, TypeOK
    <3>2. /\ pending /\ ~Persisted(p) /\ Alternating /\ Len(journal) % 2 = 1
          /\ journal[Len(journal)].by = p /\ Once
      BY <3>1 DEF Journaling, Stage
    <3>3. Readable'
      BY <2>1, <3>1, <3>2, WriteCommit
    <3>4. /\ \A q \in Procs : Persisted(q)' <=> Persisted(q) \/ q = p
          /\ JournalSound' /\ Once'
      BY <2>1, <3>1, <3>2, <3>3, WriteCommits DEF Journaling, JournalSound
    <3>5. Stage(p)'
      BY <2>1, <3>1, <3>2, <3>3, <3>4 DEF Journaling, Stage, Holding
    <3> QED BY <2>1, <3>4, <3>5, JournalingBy
  <2> QED BY <1>8, <2>2, <2>3, <2>4, <2>5
<1>9. ASSUME NEW p \in Procs, ReleaseJournal(p) PROVE Journaling'
  <2>1. /\ journalLock = p /\ journalLock' = Nobody
        /\ UNCHANGED <<journal, pending, outcome>>
        /\ pc'[p] \in {"releasing", "ended", "idle"}
        /\ \A q \in Procs \ {p} : pc'[q] = pc[q]
    BY <1>9 DEF ReleaseJournal, Unlock, AfterUnlocking, Goto, TypeOK, Journaling,
                Stage, Holding
  <2>2. /\ \A q \in Procs : Persisted(q)' <=> Persisted(q)
        /\ JournalSound' /\ Once'
    BY <2>1 DEF Persisted, Commit, Journaling, JournalSound, Readable, Alternating, Once
  <2>3. Stage(p)'
    BY <2>1, <2>2 DEF Journaling, Stage, Holding, Appending
  <2> QED BY <2>1, <2>2, <2>3, JournalingBy
<1>10. ASSUME NEW p \in Procs, TimeOut(p) \/ Break(p) \/ Die(p) PROVE Journaling'
  <2>1. PICK there \in {"idle", "dead", "unlocking", "releasing"} :
          /\ Goto(p, there)
          /\ there = "unlocking" => Holding(p)
    <3>1. Goto(p, FailureExit(p)) \/ Goto(p, "dead")
      BY <1>10 DEF TimeOut, Break, Die, Throw
    <3>2. FailureExit(p) \in {"idle", "unlocking", "releasing"}
      BY DEF FailureExit, AfterWriting
    <3>3. FailureExit(p) = "unlocking" => Holding(p)
      BY DEF FailureExit, AfterWriting, Holding
    <3> QED BY <3>1, <3>2, <3>3
  <2>2. outcome' = outcome \/ Result(p, "failed")
    BY <1>10 DEF TimeOut, Break, Die, Throw
  <2>3. /\ pc'[p] = there /\ outcome'[p] \in {outcome[p], "failed"}
        /\ \A q \in Procs \ {p} : pc'[q] = pc[q] /\ outcome'[q] = outcome[q]
        /\ Holding(p) => journalLock = p
    BY <2>1, <2>2 DEF Goto, Result, TypeOK, Journaling, Stage
  <2>4. CASE UNCHANGED journaling
    BY <2>1, <2>2, <2>3, <2>4, JournalingKept
  <2>5. CASE StrayLock(p) \/ (pc[p] = "unlocking" /\ Unlock)
    <3>1. /\ journalLock \in {p, Nobody} /\ UNCHANGED <<journal, pending>>
          /\ there # "unlocking"
      BY <1>10, <2>1, <2>3, <2>5 DEF StrayLock, Unlock, Holding, Appending, TimeOut,
         Break, Die, Throw, FailureExit, Goto, TypeOK
    <3>2. /\ \A q \in Procs : Persisted(q)' <=> Persisted(q)
          /\ JournalSound' /\ Once'
      BY <3>1 DEF Persisted, Commit, Journaling, JournalSound, Readable, Alternating, Once
    <3>3. Stage(p)'
      BY <2>1, <2>3, <3>1, <3>2 DEF Journaling, Stage, Holding, Appending
    <3> QED BY <2>3, <3>1, <3>2, <3>3, JournalingBy
  <2>6. CASE \/ pc[p] = "barring" /\ Bar(TRUE)
             \/ pc[p] = "lifting" /\ Bar(FALSE)
    <3>1. /\ journalLock = p /\ UNCHANGED <<journal, journalLock>>
          /\ pending' = FALSE => Readable
      BY <2>3, <2>6 DEF Bar, Holding, Appending, Journaling, Stage
    <3>2. /\ \A q \in Procs : Persisted(q)' <=> Persisted(q)
          /\ JournalSound' /\ Once'
      BY <2>6, <3>1 DEF Bar, Persisted, Commit, Journaling, JournalSound, Readable,
         Alternating, Once
    <3>3. Stage(p)'
      BY <2>1, <2>3, <3>1, <3>2 DEF Journaling, Stage, Holding, Appending
    <3> QED BY <2>3, <3>1, <3>2, <3>3, JournalingBy
  <2>7. CASE \/ pc[p] = "entering" /\ \E kind \in {"torn", "entry"} : Write(p, kind)
             \/ pc[p] = "committing" /\ \E kind \in {"torn", "commit"} : Write(p, kind)
    <3>1. PICK kind \in {"torn", "entry", "commit"} : Write(p, kind)
      BY <2>7
    <3>2. /\ pc[p] \in Appending /\ journalLock = p /\ pending /\ ~Persisted(p)
          /\ UNCHANGED <<pending, journalLock>>
      BY <2>3, <2>7, <3>1 DEF Holding, Appending, Journaling, Stage, Write
    <3>3. /\ \A q \in Procs : Persisted(q) => Persisted(q)'
          /\ JournalSound' /\ Once'
      BY <3>1, <3>2, WriteCommits DEF Journaling, JournalSound
    <3>4. Stage(p)'
      BY <2>1, <2>3, <3>2, <3>3 DEF Journaling, Stage, Holding, Appending
    <3> QED BY <2>3, <3>2, <3>3, <3>4, JournalingBy
  <2> QED
    BY <1>10, <2>4, <2>5, <2>6, <2>7 DEF TimeOut, Break, Die, Leaves, Mark, Replace
<1> QED
  BY <1>1, <1>2, <1>3, <1>4, <1>5, <1>6, <1>7, <1>8, <1>9, <1>10 DEF Next, Proceed

(* Without the barrier the journal is whole, wherever an append broke off. *)
THEOREM JournalAlwaysSound == Spec => []JournalSound
<1>1. Init => TypeOK /\ Roles /\ Journaling
  BY TypesInit, JournalingInit
<1>2. /\ TypeOK /\ Roles /\ Journaling /\ [Next]_vars
      => (TypeOK /\ Roles /\ Journaling)'
  BY TypesStep, JournalingStep
<1>3. Journaling => JournalSound
  BY DEF Journaling
<1> QED BY <1>1, <1>2, <1>3, PTL DEF Spec

-----------------------------------------------------------------------------
(* The projections *)

(* What a decision is about, and how it ends.                              *)
Stores(p, projection) ==
  [held[p] EXCEPT ![given[p].of] = projection]

LEMMA Decisions ==
  ASSUME TypeOK, Roles, NEW p \in Procs, Resolve(p) \/ Publish(p)
  PROVE  /\ p \in Keepers /\ pc[p] \in {"resolving", "deciding"}
         /\ given[p] # Absent /\ given[p].of \in Portfolios
         /\ UNCHANGED <<clock, call, at, disk, faults>>
         /\ \/ /\ Result(p, "failed") /\ held' = held
               /\ Goto(p, "releasing") \/ Goto(p, "unlocking")
            \/ \E projection \in Projections :
                 /\ projection.by = p
                 /\ \/ projection = held[p][given[p].of]
                    \/ /\ projection.time = given[p].time /\ given[p].time <= clock
                       /\ projection.events = EventsBefore(given[p].of, given[p].time)
                 /\ \/ /\ Result(p, "ok") /\ held[p] = Stores(p, projection)
                       /\ held' = held
                       /\ Goto(p, "releasing") \/ Goto(p, "unlocking")
                    \/ /\ Advances(held[p][given[p].of], projection)
                       /\ held' = [held EXCEPT ![p] = Stores(p, projection)]
                       /\ outcome' = outcome /\ Goto(p, "writing")
<1>1. p \in Keepers /\ pc[p] \in {"resolving", "deciding"}
  BY ConstantFacts DEF Resolve, Publish, Roles, Fits, Appending
<1>2. given[p] # Absent /\ given[p].of \in Portfolios
  BY <1>1, GivenFacts
<1>3. UNCHANGED <<clock, call, at, disk, faults>>
  BY DEF Resolve, Publish
<1>4. PICK leaving \in {"releasing", "unlocking"} :
        \/ Result(p, "failed") /\ held' = held /\ Goto(p, leaving)
        \/ \E projection \in Projections :
             /\ projection.by = p
             /\ \/ projection = held[p][given[p].of]
                \/ /\ projection.time = given[p].time /\ given[p].time <= clock
                   /\ projection.events = EventsBefore(given[p].of, given[p].time)
             /\ Decide(p, projection, leaving)
  <2>1. CASE Resolve(p)
    <3>1. held[p][given[p].of] \in Projections \cup {Absent}
      BY <1>2 DEF TypeOK, Documents
    <3>2. CASE held[p][given[p].of] # Absent /\ held[p][given[p].of].by = p
      BY <2>1, <3>1, <3>2 DEF Resolve
    <3>3. CASE ~(held[p][given[p].of] # Absent /\ held[p][given[p].of].by = p)
      BY <1>1, <1>2, <2>1, <3>3, ProjectionFacts DEF Resolve, Resolvable
    <3> QED BY <3>2, <3>3
  <2>2. CASE Publish(p)
    BY <1>1, <1>2, <2>2, ProjectionFacts DEF Publish, Covered
  <2> QED BY <2>1, <2>2
<1>5. CASE Result(p, "failed") /\ held' = held /\ Goto(p, leaving)
  <2>1. Goto(p, "releasing") \/ Goto(p, "unlocking")
    BY <1>5
  <2> QED BY <1>1, <1>2, <1>3, <1>5, <2>1
<1>6. ASSUME NEW projection \in Projections, Decide(p, projection, leaving)
      PROVE  \/ /\ Result(p, "failed") /\ held' = held
                /\ Goto(p, "releasing") \/ Goto(p, "unlocking")
             \/ /\ Result(p, "ok") /\ held[p] = Stores(p, projection)
                /\ held' = held
                /\ Goto(p, "releasing") \/ Goto(p, "unlocking")
             \/ /\ Advances(held[p][given[p].of], projection)
                /\ held' = [held EXCEPT ![p] = Stores(p, projection)]
                /\ outcome' = outcome /\ Goto(p, "writing")
  BY <1>6 DEF Decide, Stores
<1> QED BY <1>1, <1>2, <1>3, <1>4, <1>5, <1>6

(* The journal grows, and the document is replaced by the one inside.      *)
LEMMA DiskMoves ==
  ASSUME TypeOK, Roles, [Next]_vars
  PROVE  /\ \/ journal' = journal
            \/ /\ clock' = clock
               /\ \E p \in Procs, kind \in {"entry", "commit", "torn"} :
                    pc[p] \in Appending /\ Write(p, kind)
         /\ \/ document' = document
            \/ \E p \in Keepers : pc[p] = "writing" /\ document' = held[p]
<1> USE ConstantFacts DEF call, work, disk, journaling
<1>1. CASE UNCHANGED vars \/ Tick
  BY <1>1 DEF vars, Tick
<1>2. ASSUME NEW p \in Procs,
             \/ Call(p) \/ List(p) \/ Inspect(p) \/ Claim(p) \/ WriteOwner(p)
             \/ Release(p) \/ ReadStored(p) \/ AcquireJournal(p) \/ ReleaseJournal(p)
             \/ CheckEvent(p) \/ RaiseBarrier(p) \/ LiftBarrier(p) \/ TimeOut(p) \/ Die(p)
      PROVE  UNCHANGED <<document, journal>>
  BY <1>2 DEF Call, List, Inspect, Claim, WriteOwner, Release, ReadStored, Mark,
     AcquireJournal, ReleaseJournal, Unlock, CheckEvent, RaiseBarrier, LiftBarrier, Bar,
     TimeOut, Die, StrayLock
<1>3. ASSUME NEW p \in Procs, Resolve(p) \/ Publish(p)
      PROVE  UNCHANGED <<document, journal>>
  BY <1>3, Decisions
<1>4. ASSUME NEW p \in Procs, AppendEntry(p) \/ AppendCommit(p)
      PROVE  /\ document' = document /\ clock' = clock
             /\ \E kind \in {"entry", "commit", "torn"} : pc[p] \in Appending /\ Write(p, kind)
  <2>1. document' = document /\ clock' = clock /\ pc[p] \in Appending
    BY <1>4 DEF AppendEntry, AppendCommit, Write, Appending
  <2>2. Write(p, "entry") \/ Write(p, "commit")
    BY <1>4 DEF AppendEntry, AppendCommit
  <2> QED BY <2>1, <2>2 DEF Write
<1>5. ASSUME NEW p \in Procs, WriteSnapshot(p)
      PROVE  journal' = journal /\ p \in Keepers /\ pc[p] = "writing" /\ document' = held[p]
  BY <1>5 DEF WriteSnapshot, Replace, Roles, Fits, Appending
<1>6. ASSUME NEW p \in Procs, Break(p)
      PROVE  \/ UNCHANGED <<document, journal>>
             \/ /\ journal' = journal /\ p \in Keepers /\ pc[p] = "writing"
                /\ document' = held[p]
             \/ /\ document' = document /\ clock' = clock
                /\ \E kind \in {"entry", "commit", "torn"} :
                     pc[p] \in Appending /\ Write(p, kind)
  <2>1. CASE pc[p] = "writing" /\ Replace(p)
    BY <2>1 DEF Replace, Roles, Fits, Appending
  <2>2. CASE \/ pc[p] = "entering" /\ \E kind \in {"torn", "entry"} : Write(p, kind)
             \/ pc[p] = "committing" /\ \E kind \in {"torn", "commit"} : Write(p, kind)
    <3>1. PICK kind \in {"torn", "entry", "commit"} : Write(p, kind)
      BY <2>2
    <3>2. pc[p] \in Appending /\ clock' = clock /\ document' = document
      BY <1>6, <2>2, <3>1 DEF Appending, Break, Write
    <3> QED BY <3>1, <3>2
  <2> QED
    BY <1>6, <2>1, <2>2 DEF Break, Leaves, Mark, Bar, Unlock, StrayLock
<1> QED
  BY <1>1, <1>2, <1>3, <1>4, <1>5, <1>6 DEF Next, Proceed

(* No later event changes what was counted before a time that has passed.  *)
LEMMA EventsStand ==
  ASSUME TypeOK, Roles, [Next]_vars
  PROVE  /\ clock \in Nat /\ clock' \in Nat /\ clock <= clock'
         /\ \A f \in Portfolios, t \in Nat : t <= clock =>
              EventsBefore(f, t)' = EventsBefore(f, t)
<1>1. clock \in Nat /\ clock' \in Nat /\ clock <= clock'
  <2>1. clock' = clock \/ clock' = clock + 1
    BY DEF Next, Proceed, vars, Tick, Call, List, Inspect, Claim, WriteOwner, Release,
       ReadStored, Resolve, Publish, WriteSnapshot, AcquireJournal, CheckEvent,
       RaiseBarrier, AppendEntry, AppendCommit, LiftBarrier, ReleaseJournal, TimeOut,
       Break, Die
  <2> QED BY <2>1, ConstantFacts DEF TypeOK
<1>2. CASE journal' = journal
  BY <1>1, <1>2 DEF EventsBefore, Commits, Commit
<1>3. ASSUME NEW p \in Procs, NEW kind \in {"entry", "commit", "torn"},
             pc[p] \in Appending, Write(p, kind), clock' = clock,
             NEW f \in Portfolios, NEW t \in Nat, t <= clock
      PROVE  EventsBefore(f, t)' = EventsBefore(f, t)
  <2>1. /\ Len(journal) \in Nat /\ DOMAIN journal = 1..Len(journal)
        /\ DOMAIN journal' = 1..(Len(journal) + 1)
        /\ \A i \in 1..Len(journal) : journal'[i] = journal[i]
        /\ journal'[Len(journal) + 1].time = clock
    BY <1>3, WriteFacts
  <2>2. ~(journal'[Len(journal) + 1].time < t)
    BY <1>1, <1>3, <2>1
  <2>3. {j \in Commits(f)' : journal'[j].time < t} = {j \in Commits(f) : journal[j].time < t}
    BY <2>1, <2>2 DEF Commits, Commit
  <2>4. \A j \in Commits(f) : journal'[j] = journal[j]
    BY <2>1 DEF Commits
  <2> QED BY <2>3, <2>4 DEF EventsBefore
<1> QED BY <1>1, <1>2, <1>3, DiskMoves

LEMMA SoundStands ==
  ASSUME TypeOK, Roles, [Next]_vars
  PROVE  \A d \in Documents : Sound(d) => Sound(d)'
<1> SUFFICES ASSUME NEW d \in Documents, Sound(d), NEW f \in Portfolios, d[f] # Absent
             PROVE  d[f].time <= clock' /\ d[f].events = EventsBefore(f, d[f].time)'
  BY DEF Sound
<1>1. d[f].time \in Nat
  BY ConstantFacts DEF Documents, Projections
<1>2. d[f].time <= clock /\ d[f].events = EventsBefore(f, d[f].time)
  BY DEF Sound
<1> QED BY <1>1, <1>2, EventsStand

(* What the documents in hand may become.                                  *)
LEMMA HeldMoves ==
  ASSUME TypeOK, Roles, [Next]_vars
  PROVE  \/ held' = held
         \/ \E p \in Keepers : pc[p] = "reading" /\ held' = [held EXCEPT ![p] = document]
         \/ \E p \in Procs : Resolve(p) \/ Publish(p)
<1> USE DEF work
<1>1. CASE UNCHANGED vars \/ Tick
  BY <1>1 DEF vars, Tick
<1>2. ASSUME NEW p \in Procs, ReadStored(p)
      PROVE  p \in Keepers /\ (held' = held \/ held' = [held EXCEPT ![p] = document])
  BY <1>2, ConstantFacts DEF ReadStored, Roles, Fits, Appending
<1>3. ASSUME NEW p \in Procs,
             \/ Call(p) \/ List(p) \/ Inspect(p) \/ Claim(p) \/ WriteOwner(p)
             \/ Release(p) \/ WriteSnapshot(p) \/ AcquireJournal(p) \/ ReleaseJournal(p)
             \/ CheckEvent(p) \/ RaiseBarrier(p) \/ LiftBarrier(p) \/ AppendEntry(p)
             \/ AppendCommit(p) \/ TimeOut(p) \/ Break(p) \/ Die(p)
      PROVE  held' = held
  BY <1>3 DEF Call, List, Inspect, Claim, WriteOwner, Release, WriteSnapshot,
     AcquireJournal, ReleaseJournal, CheckEvent, RaiseBarrier, LiftBarrier,
     AppendEntry, AppendCommit, TimeOut, Break, Die
<1> QED BY <1>1, <1>2, <1>3 DEF Next, Proceed, ReadStored

LEMMA ProjectingInit == Init => Projecting
BY DEF Init, Projecting, Sound

LEMMA ProjectingStep ==
  TypeOK /\ Roles /\ Projecting /\ [Next]_vars => Projecting'
<1> SUFFICES ASSUME TypeOK, Roles, Projecting, [Next]_vars PROVE Projecting'
  OBVIOUS
<1>1. \A d \in Documents : Sound(d) => Sound(d)'
  BY SoundStands
<1>2. Sound(document)'
  <2>1. /\ document' \in Documents
        /\ document' = document \/ \E p \in Procs : document' = held[p]
    BY DiskMoves, ConstantFacts DEF TypeOK
  <2>2. PICK d \in Documents : d = document' /\ Sound(d)
    BY <2>1 DEF Projecting
  <2> QED BY <1>1, <2>2 DEF Sound
<1>3. ASSUME NEW q \in Procs PROVE Sound(held[q])'
  <2>1. PICK d \in Documents : d = held'[q] /\ Sound(d)
    <3>1. CASE held' = held
      BY <3>1 DEF TypeOK, Projecting
    <3>2. CASE \E p \in Keepers : held' = [held EXCEPT ![p] = document]
      BY <3>2, ConstantFacts DEF TypeOK, Projecting
    <3>3. ASSUME NEW p \in Procs, Resolve(p) \/ Publish(p)
          PROVE  \E d \in Documents : d = held'[q] /\ Sound(d)
      <4>1. CASE held' = held
        BY <4>1 DEF TypeOK, Projecting
      <4>2. ASSUME NEW projection \in Projections,
                   \/ projection = held[p][given[p].of]
                   \/ /\ projection.time = given[p].time /\ given[p].time <= clock
                      /\ projection.events = EventsBefore(given[p].of, given[p].time),
                   held' = [held EXCEPT ![p] = Stores(p, projection)]
            PROVE  \E d \in Documents : d = held'[q] /\ Sound(d)
        <5>1. CASE q # p
          BY <4>2, <5>1 DEF TypeOK, Projecting
        <5>2. CASE q = p
          <6>1. given[p].of \in Portfolios /\ held[p] \in Documents /\ Sound(held[p])
            BY <3>3, Decisions DEF TypeOK, Projecting
          <6>2. Stores(p, projection) \in Documents
            BY <6>1 DEF Stores, Documents
          <6>3. \A f \in Portfolios : Stores(p, projection)[f] =
                  IF f = given[p].of THEN projection ELSE held[p][f]
            BY <6>1 DEF Stores, Documents
          <6>4. projection # Absent
            BY AbsentAssumption DEF Projections
          <6>5. Sound(Stores(p, projection))
            BY <4>2, <6>1, <6>3, <6>4 DEF Sound
          <6>6. held'[q] = Stores(p, projection)
            BY <4>2, <5>2 DEF TypeOK
          <6> QED BY <6>2, <6>5, <6>6
        <5> QED BY <5>1, <5>2
      <4> QED BY <3>3, <4>1, <4>2, Decisions
    <3> QED BY <3>1, <3>2, <3>3, HeldMoves
  <2> QED BY <1>1, <2>1 DEF Sound
<1> QED BY <1>2, <1>3 DEF Projecting

(* A stored projection stays what its snapshot yields.                     *)
THEOREM ProjectionsAlwaysStable == Spec => []ProjectionsStable
<1>1. Init => TypeOK /\ Roles /\ Projecting
  BY TypesInit, ProjectingInit
<1>2. /\ TypeOK /\ Roles /\ Projecting /\ [Next]_vars
      => (TypeOK /\ Roles /\ Projecting)'
  BY TypesStep, ProjectingStep
<1>3. Projecting => ProjectionsStable
  BY DEF Projecting, Sound, ProjectionsStable
<1> QED BY <1>1, <1>2, <1>3, PTL DEF Spec

-----------------------------------------------------------------------------
(* What has been acknowledged *)

LEMMA AcknowledgingInit == Init => Acknowledging
<1> SUFFICES ASSUME Init PROVE Acknowledging
  OBVIOUS
<1>1. \A p \in Procs : /\ pc[p] = "idle" /\ outcome[p] = "new" /\ given[p] = Absent
                       /\ held[p] = document
  BY DEF Init
<1>2. Origins(document) /\ \A p \in Procs : Origins(held[p])
  BY <1>1 DEF Init, Origins
<1> QED BY <1>1, <1>2, ConstantFacts DEF Acknowledging, InHand

(* A caller keeps to its snapshot.                                         *)
LEMMA GivenStands ==
  ASSUME TypeOK, Roles, Acknowledging, [Next]_vars
  PROVE  /\ \A q \in Procs : given[q] # Absent => given'[q] = given[q]
         /\ \A q \in Procs : outcome'[q] = "new" => given'[q] = Absent
<1> USE DEF call
<1>1. CASE UNCHANGED vars \/ Tick
  BY <1>1 DEF vars, Tick, Acknowledging
<1>2. ASSUME NEW p \in Procs, Call(p)
      PROVE  /\ \A q \in Procs : given[q] # Absent => given'[q] = given[q]
             /\ \A q \in Procs : outcome'[q] = "new" => given'[q] = Absent
  <2>1. \A q \in Procs \ {p} : given'[q] = given[q] /\ outcome'[q] = outcome[q]
    BY <1>2 DEF Call, Result, TypeOK
  <2>2. outcome'[p] = "none" /\ (given[p] # Absent => given'[p] = given[p])
    BY <1>2 DEF Call, Result, TypeOK, Acknowledging
  <2> QED BY <2>1, <2>2 DEF Acknowledging
<1>3. ASSUME NEW p \in Procs, Proceed(p) \/ TimeOut(p) \/ Break(p) \/ Die(p)
      PROVE  /\ given' = given
             /\ outcome' = outcome \/ Result(p, "ok") \/ Result(p, "failed")
  <2>1. CASE \/ List(p) \/ Inspect(p) \/ Claim(p) \/ WriteOwner(p) \/ Release(p)
             \/ ReadStored(p) \/ AcquireJournal(p) \/ ReleaseJournal(p)
             \/ RaiseBarrier(p) \/ AppendEntry(p) \/ AppendCommit(p)
    BY <2>1 DEF List, Inspect, Claim, WriteOwner, Release, ReadStored, AcquireJournal,
       ReleaseJournal, RaiseBarrier, AppendEntry, AppendCommit
  <2>2. CASE WriteSnapshot(p) \/ LiftBarrier(p) \/ CheckEvent(p)
    BY <2>2 DEF WriteSnapshot, LiftBarrier, CheckEvent
  <2>3. CASE Resolve(p) \/ Publish(p)
    BY <2>3, Decisions
  <2>4. CASE TimeOut(p) \/ Break(p) \/ Die(p)
    BY <2>4 DEF TimeOut, Break, Die, Throw
  <2> QED BY <1>3, <2>1, <2>2, <2>3, <2>4 DEF Proceed
<1>4. ASSUME NEW p \in Procs, Proceed(p) \/ TimeOut(p) \/ Break(p) \/ Die(p)
      PROVE  /\ \A q \in Procs : given[q] # Absent => given'[q] = given[q]
             /\ \A q \in Procs : outcome'[q] = "new" => given'[q] = Absent
  BY <1>3, <1>4 DEF Result, TypeOK, Acknowledging
<1> QED BY <1>1, <1>2, <1>4 DEF Next

LEMMA OriginsStand ==
  ASSUME TypeOK, Roles, Acknowledging, [Next]_vars
  PROVE  \A d \in Documents : Origins(d) => Origins(d)'
<1> SUFFICES ASSUME NEW d \in Documents, Origins(d), NEW f \in Portfolios, d[f] # Absent
             PROVE  /\ given'[d[f].by] # Absent /\ given'[d[f].by].of = f
                    /\ given'[d[f].by].time = d[f].time
  BY DEF Origins
<1>1. d[f].by \in Procs
  BY ConstantFacts DEF Documents, Projections
<1>2. given[d[f].by] # Absent /\ given[d[f].by].of = f /\ given[d[f].by].time = d[f].time
  BY DEF Origins
<1> QED BY <1>1, <1>2, GivenStands

(* A document that p decides to store has its origins.                     *)
LEMMA StoresFacts ==
  ASSUME TypeOK, Roles, NEW p \in Keepers, given[p] # Absent, Origins(held[p]),
         NEW projection \in Projections, projection.by = p,
         projection = held[p][given[p].of] \/ projection.time = given[p].time
  PROVE  /\ Stores(p, projection) \in Documents /\ Origins(Stores(p, projection))
         /\ projection # Absent /\ projection.time = given[p].time
         /\ Stores(p, projection)[given[p].of] = projection
<1>1. given[p].of \in Portfolios /\ held[p] \in Documents
  BY ConstantFacts, GivenFacts DEF TypeOK, Roles
<1>2. Stores(p, projection) \in Documents
  BY <1>1 DEF Stores, Documents
<1>3. \A f \in Portfolios : Stores(p, projection)[f] =
        IF f = given[p].of THEN projection ELSE held[p][f]
  BY <1>1 DEF Stores, Documents
<1>4. projection # Absent
  BY AbsentAssumption DEF Projections
<1>5. projection.time = given[p].time
  BY <1>1, <1>4 DEF Origins
<1>6. Origins(Stores(p, projection))
  BY <1>3, <1>5 DEF Origins
<1> QED BY <1>1, <1>2, <1>3, <1>4, <1>5, <1>6

LEMMA OriginsStep ==
  ASSUME TypeOK, Roles, Acknowledging, [Next]_vars
  PROVE  Origins(document)' /\ \A q \in Procs : Origins(held[q])'
<1>1. \A d \in Documents : Origins(d) => Origins(d)'
  BY OriginsStand
<1>2. Origins(document)'
  <2>1. /\ document' \in Documents
        /\ document' = document \/ \E p \in Procs : document' = held[p]
    BY DiskMoves, ConstantFacts DEF TypeOK
  <2>2. PICK d \in Documents : d = document' /\ Origins(d)
    BY <2>1 DEF Acknowledging
  <2> QED BY <1>1, <2>2 DEF Origins
<1>3. ASSUME NEW q \in Procs PROVE Origins(held[q])'
  <2>1. PICK d \in Documents : d = held'[q] /\ Origins(d)
    <3>1. CASE held' = held
      BY <3>1 DEF TypeOK, Acknowledging
    <3>2. CASE \E p \in Keepers : held' = [held EXCEPT ![p] = document]
      BY <3>2, ConstantFacts DEF TypeOK, Acknowledging
    <3>3. ASSUME NEW p \in Procs, Resolve(p) \/ Publish(p)
          PROVE  \E d \in Documents : d = held'[q] /\ Origins(d)
      <4>1. CASE held' = held
        BY <4>1 DEF TypeOK, Acknowledging
      <4>2. ASSUME NEW projection \in Projections, projection.by = p,
                   projection = held[p][given[p].of] \/ projection.time = given[p].time,
                   held' = [held EXCEPT ![p] = Stores(p, projection)]
            PROVE  \E d \in Documents : d = held'[q] /\ Origins(d)
        <5>1. CASE q # p
          BY <4>2, <5>1 DEF TypeOK, Acknowledging
        <5>2. CASE q = p
          <6>1. p \in Keepers /\ given[p] # Absent /\ Origins(held[p])
            BY <3>3, Decisions DEF Acknowledging
          <6>2. Stores(p, projection) \in Documents /\ Origins(Stores(p, projection))
            BY <4>2, <6>1, StoresFacts
          <6>3. held'[q] = Stores(p, projection)
            BY <4>2, <5>2 DEF TypeOK
          <6> QED BY <6>2, <6>3
        <5> QED BY <5>1, <5>2
      <4> QED BY <3>3, <4>1, <4>2, Decisions
    <3> QED BY <3>1, <3>2, <3>3, HeldMoves
  <2> QED BY <1>1, <2>1 DEF Origins
<1> QED BY <1>2, <1>3

(* An acknowledged projection is replaced by a later one only.             *)
LEMMA CoversStand ==
  ASSUME TypeOK, Roles, Acknowledging, [Next]_vars,
         NEW q \in Keepers, given[q] # Absent, Covers(q, document)
  PROVE  Covers(q, document)'
<1>1. given'[q] = given[q] /\ given[q].of \in Portfolios /\ given[q].time \in Nat
  BY GivenStands, ConstantFacts DEF TypeOK
<1>2. CASE document' = document
  BY <1>1, <1>2 DEF Covers
<1>3. ASSUME NEW p \in Keepers, pc[p] = "writing", document' = held[p]
      PROVE  Covers(q, document)'
  <2>1. PICK projection \in Projections :
          /\ held[p] = [document EXCEPT ![given[p].of] = projection]
          /\ Advances(document[given[p].of], projection)
    BY <1>3 DEF Acknowledging, InHand
  <2>2. given[p].of \in Portfolios
    BY <1>3, GivenFacts, ConstantFacts
  <2>3. document'[given[q].of] =
          IF given[q].of = given[p].of THEN projection ELSE document[given[q].of]
    BY <1>1, <1>3, <2>1, <2>2 DEF TypeOK, Documents
  <2>4. CASE given[q].of # given[p].of
    BY <1>1, <2>3, <2>4 DEF Covers
  <2>5. CASE given[q].of = given[p].of
    <3>1. document[given[q].of] # Absent
      BY DEF Covers
    <3>2. document[given[q].of] \in Projections /\ document[given[q].of].time \in Nat
      BY <1>1, <3>1, ConstantFacts DEF TypeOK, Documents, Projections
    <3>3. document[given[q].of].time >= given[q].time
      BY <1>1, <3>1, <3>2 DEF Covers, Acknowledging, Origins
    <3>4. projection.time > document[given[q].of].time /\ projection.time \in Nat
      BY <2>1, <2>5, <3>1, ConstantFacts DEF Advances, Projections
    <3>5. projection # Absent
      BY AbsentAssumption DEF Projections
    <3> QED BY <1>1, <2>3, <2>5, <3>2, <3>3, <3>4, <3>5 DEF Covers
  <2> QED BY <2>4, <2>5
<1> QED BY <1>2, <1>3, DiskMoves

(* A step of p leaves to the others what they have in hand.                *)
LEMMA AcknowledgingBy ==
  ASSUME TypeOK, Roles, Locking, Acknowledging, [Next]_vars, NEW p \in Procs,
         \A q \in Procs \ {p} :
           pc'[q] = pc[q] /\ outcome'[q] = outcome[q] /\ held'[q] = held[q],
         \/ document' = document
         \/ p \in Keepers /\ pc[p] = "writing",
         p \in Keepers => InHand(p)' /\ (outcome'[p] = "ok" => Covers(p, document)'),
         pc'[p] = "ended" => outcome'[p] = "ok"
  PROVE  Acknowledging'
<1>1. ASSUME NEW q \in Keepers, q # p
      PROVE  InHand(q)' /\ (outcome'[q] = "ok" => Covers(q, document)')
  <2>1. pc'[q] = pc[q] /\ outcome'[q] = outcome[q] /\ held'[q] = held[q] /\ q \in Procs
    BY <1>1, ConstantFacts
  <2>2. outcome'[q] = "ok" => Covers(q, document)'
    BY <2>1, CoversStand, GivenFacts DEF Acknowledging
  <2>3. CASE pc[q] \notin {"resolving", "sources", "deciding", "writing"}
    BY <2>1, <2>2, <2>3 DEF InHand
  <2>4. CASE pc[q] \in {"resolving", "sources", "deciding", "writing"}
    <3>1. document' = document
      BY <1>1, <2>4 DEF Locking, OneOwner, Inside
    <3>2. given'[q] = given[q]
      BY <2>1, <2>4, GivenFacts, GivenStands
    <3>3. InHand(q)
      BY DEF Acknowledging
    <3> QED BY <2>1, <2>2, <3>1, <3>2, <3>3 DEF InHand
  <2> QED BY <2>3, <2>4
<1>2. \A q \in Keepers : InHand(q)' /\ (outcome'[q] = "ok" => Covers(q, document)')
  BY <1>1
<1>3. \A q \in Procs : pc'[q] = "ended" => outcome'[q] = "ok"
  BY DEF Acknowledging
<1> QED BY <1>2, <1>3, OriginsStep, GivenStands DEF Acknowledging

(* A step of p with nothing in hand after it, and no success of a document.*)
LEMMA AcknowledgingKept ==
  ASSUME TypeOK, Roles, Locking, Acknowledging, [Next]_vars, NEW p \in Procs,
         NEW there, Goto(p, there),
         p \in Keepers => there \notin {"resolving", "sources", "deciding", "writing"},
         outcome' = outcome \/ \E r \in {"none", "ok", "failed"} : Result(p, r),
         p \in Keepers => outcome' = outcome \/ outcome'[p] # "ok",
         there = "ended" => outcome'[p] = "ok",
         held' = held, document' = document \/ (p \in Keepers /\ pc[p] = "writing")
  PROVE  Acknowledging'
<1>1. /\ pc'[p] = there
      /\ \A q \in Procs \ {p} :
           pc'[q] = pc[q] /\ outcome'[q] = outcome[q] /\ held'[q] = held[q]
  BY DEF TypeOK, Goto, Result
<1>2. p \in Keepers => InHand(p)'
  BY <1>1 DEF InHand
<1>3. ASSUME p \in Keepers, outcome'[p] = "ok" PROVE Covers(p, document)'
  <2>1. outcome[p] = "ok" /\ given[p] # Absent
    BY <1>3, GivenFacts
  <2> QED BY <1>3, <2>1, CoversStand DEF Acknowledging
<1> QED BY <1>1, <1>2, <1>3, AcknowledgingBy

LEMMA AcknowledgingStep ==
  TypeOK /\ Roles /\ Locking /\ Acknowledging /\ [Next]_vars => Acknowledging'
<1> SUFFICES ASSUME TypeOK, Roles, Locking, Acknowledging, [Next]_vars
             PROVE  Acknowledging'
  OBVIOUS
<1> USE ConstantFacts DEF call, work, disk, journaling
<1>1. CASE UNCHANGED vars \/ Tick
  <2>1. UNCHANGED <<pc, outcome, given, held, document>>
    BY <1>1 DEF vars, Tick
  <2> QED BY <2>1 DEF Acknowledging, Origins, InHand, Covers
<1>2. ASSUME NEW p \in Procs, Call(p) PROVE Acknowledging'
  <2>1. /\ Result(p, "none") /\ held' = held /\ document' = document
        /\ outcome'[p] = "none"
    BY <1>2 DEF Call, Result, TypeOK
  <2>2. Goto(p, IF p \in Keepers THEN "listing" ELSE "sources")
    BY <1>2 DEF Call
  <2> QED BY <2>1, <2>2, AcknowledgingKept
<1>3. ASSUME NEW p \in Procs,
             \/ List(p) \/ Inspect(p) \/ Claim(p) \/ WriteOwner(p) \/ Release(p)
             \/ ReleaseJournal(p)
      PROVE  Acknowledging'
  <2>1. UNCHANGED <<outcome, held, document>>
    BY <1>3 DEF List, Inspect, Claim, WriteOwner, Release, ReleaseJournal, Mark, Unlock
  <2>2. PICK there \in {"listing", "inspecting", "claiming", "owning", "reading",
                       "releasing", "ended", "idle"} :
          Goto(p, there) /\ (there = "ended" => outcome[p] = "ok")
    <3>1. CASE List(p) \/ Inspect(p) \/ Claim(p)
      BY <3>1 DEF List, Inspect, Claim, Goto
    <3>2. CASE WriteOwner(p) \/ Release(p)
      BY <3>2 DEF WriteOwner, Release, Goto
    <3>3. CASE ReleaseJournal(p)
      BY <3>3 DEF ReleaseJournal, AfterUnlocking, Goto
    <3> QED BY <1>3, <3>1, <3>2, <3>3
  <2> QED BY <2>1, <2>2, AcknowledgingKept
<1>4. ASSUME NEW p \in Procs,
             \/ CheckEvent(p) \/ RaiseBarrier(p) \/ LiftBarrier(p)
             \/ AppendEntry(p) \/ AppendCommit(p)
      PROVE  Acknowledging'
  <2>1. /\ p \notin Keepers /\ held' = held /\ document' = document
        /\ outcome' = outcome \/ \E r \in {"ok", "failed"} : Result(p, r)
    BY <1>4 DEF CheckEvent, RaiseBarrier, LiftBarrier, AppendEntry, AppendCommit, Bar,
       Write, Roles, Fits, Appending
  <2>2. PICK there \in {"barring", "entering", "committing", "lifting", "unlocking"} :
          Goto(p, there)
    <3>1. CASE CheckEvent(p)
      BY <3>1 DEF CheckEvent, Goto
    <3>2. CASE RaiseBarrier(p) \/ LiftBarrier(p) \/ AppendEntry(p) \/ AppendCommit(p)
      BY <3>2 DEF RaiseBarrier, LiftBarrier, AppendEntry, AppendCommit, Goto
    <3> QED BY <1>4, <3>1, <3>2
  <2> QED BY <2>1, <2>2, AcknowledgingKept
<1>5. ASSUME NEW p \in Procs, AcquireJournal(p) PROVE Acknowledging'
  <2>1. UNCHANGED <<outcome, held, document>> /\ pc[p] = "sources"
    BY <1>5 DEF AcquireJournal
  <2>2. /\ pc'[p] = IF p \in Publishers THEN "deciding" ELSE "checking"
        /\ \A q \in Procs \ {p} : pc'[q] = pc[q]
    BY <1>5 DEF AcquireJournal, Goto, TypeOK
  <2>3. ASSUME p \in Keepers
        PROVE  InHand(p)' /\ (outcome'[p] = "ok" => Covers(p, document)')
    <3>1. held[p] = document /\ given[p] # Absent
      BY <2>1, <2>3, GivenFacts DEF Acknowledging, InHand
    <3>2. InHand(p)'
      BY <2>1, <2>2, <3>1 DEF InHand
    <3>3. outcome'[p] = "ok" => Covers(p, document)'
      BY <2>1, <2>3, <3>1, CoversStand DEF Acknowledging
    <3> QED BY <3>2, <3>3
  <2> QED BY <2>1, <2>2, <2>3, AcknowledgingBy
<1>6. ASSUME NEW p \in Procs, ReadStored(p) PROVE Acknowledging'
  <2>1. p \in Keepers /\ document' = document
    BY <1>6 DEF ReadStored, Roles, Fits, Appending
  <2>2. CASE Goto(p, "releasing") /\ Result(p, "failed") /\ held' = held
    <3>1. outcome'[p] = "failed"
      BY <2>2 DEF Result, TypeOK
    <3> QED BY <2>1, <2>2, <3>1, AcknowledgingKept
  <2>3. CASE /\ held' = [held EXCEPT ![p] = document] /\ outcome' = outcome
             /\ Goto(p, IF p \in Publishers THEN "sources" ELSE "resolving")
    <3>1. /\ held'[p] = document' /\ pc'[p] \in {"sources", "resolving"}
          /\ \A q \in Procs \ {p} : pc'[q] = pc[q] /\ held'[q] = held[q]
      BY <2>1, <2>3 DEF Goto, TypeOK
    <3>2. InHand(p)'
      BY <3>1 DEF InHand
    <3>3. outcome'[p] = "ok" => Covers(p, document)'
      BY <1>6, <2>1, <2>3, GivenFacts, CoversStand DEF ReadStored, Acknowledging
    <3> QED BY <2>1, <2>3, <3>1, <3>2, <3>3, AcknowledgingBy
  <2> QED BY <1>6, <2>2, <2>3 DEF ReadStored
<1>7. ASSUME NEW p \in Procs, Resolve(p) \/ Publish(p) PROVE Acknowledging'
  <2>1. /\ p \in Keepers /\ given[p] # Absent /\ given[p].of \in Portfolios
        /\ document' = document /\ given' = given /\ held[p] = document
        /\ Origins(held[p])
    BY <1>7, Decisions DEF Acknowledging, InHand
  <2>2. CASE /\ Result(p, "failed") /\ held' = held
             /\ Goto(p, "releasing") \/ Goto(p, "unlocking")
    <3>1. outcome'[p] = "failed"
      BY <2>2 DEF Result, TypeOK
    <3> QED BY <2>1, <2>2, <3>1, AcknowledgingKept
  <2>3. ASSUME NEW projection \in Projections, projection.by = p,
               \/ projection = held[p][given[p].of]
               \/ projection.time = given[p].time,
               \/ /\ Result(p, "ok") /\ held[p] = Stores(p, projection)
                  /\ held' = held
                  /\ Goto(p, "releasing") \/ Goto(p, "unlocking")
               \/ /\ Advances(held[p][given[p].of], projection)
                  /\ held' = [held EXCEPT ![p] = Stores(p, projection)]
                  /\ outcome' = outcome /\ Goto(p, "writing")
        PROVE  Acknowledging'
    <3>1. projection # Absent /\ Stores(p, projection)[given[p].of] = projection
      BY <2>1, <2>3, StoresFacts
    <3>2. CASE /\ Result(p, "ok") /\ held[p] = Stores(p, projection) /\ held' = held
               /\ Goto(p, "releasing") \/ Goto(p, "unlocking")
      <4>1. /\ pc'[p] \in {"releasing", "unlocking"} /\ outcome'[p] = "ok"
            /\ \A q \in Procs \ {p} : pc'[q] = pc[q] /\ outcome'[q] = outcome[q]
        BY <3>2 DEF Goto, Result, TypeOK
      <4>2. Covers(p, document)'
        BY <2>1, <2>3, <3>1, <3>2 DEF Covers
      <4>3. InHand(p)'
        BY <4>1 DEF InHand
      <4> QED BY <2>1, <3>2, <4>1, <4>2, <4>3, AcknowledgingBy
    <3>3. CASE /\ Advances(held[p][given[p].of], projection)
               /\ held' = [held EXCEPT ![p] = Stores(p, projection)]
               /\ outcome' = outcome /\ Goto(p, "writing")
      <4>1. /\ pc'[p] = "writing" /\ held'[p] = Stores(p, projection)
            /\ \A q \in Procs \ {p} : pc'[q] = pc[q] /\ held'[q] = held[q]
        BY <3>3 DEF Goto, TypeOK
      <4>2. InHand(p)'
        BY <2>1, <2>3, <3>3, <4>1 DEF InHand, Stores
      <4>3. outcome'[p] = "ok" => Covers(p, document)'
        BY <2>1, <3>3, CoversStand DEF Acknowledging
      <4> QED BY <2>1, <3>3, <4>1, <4>2, <4>3, AcknowledgingBy
    <3> QED BY <2>3, <3>2, <3>3
  <2> QED BY <1>7, <2>2, <2>3, Decisions
<1>8. ASSUME NEW p \in Procs, WriteSnapshot(p) PROVE Acknowledging'
  <2>1. /\ p \in Keepers /\ pc[p] = "writing" /\ held' = held /\ document' = held[p]
        /\ Result(p, "ok") /\ Goto(p, AfterWriting(p)) /\ given' = given
    BY <1>8 DEF WriteSnapshot, Replace, Roles, Fits, Appending
  <2>2. /\ pc'[p] \in {"releasing", "unlocking"} /\ outcome'[p] = "ok"
        /\ \A q \in Procs \ {p} : pc'[q] = pc[q] /\ outcome'[q] = outcome[q]
    BY <2>1 DEF AfterWriting, Goto, Result, TypeOK
  <2>3. PICK projection \in Projections :
          /\ projection.by = p /\ held[p] = [document EXCEPT ![given[p].of] = projection]
    BY <2>1 DEF Acknowledging, InHand
  <2>4. given[p].of \in Portfolios /\ projection # Absent
    BY <2>1, GivenFacts, AbsentAssumption DEF Projections
  <2>5. Covers(p, document)'
    BY <2>1, <2>3, <2>4 DEF Covers, TypeOK, Documents
  <2>6. InHand(p)'
    BY <2>2 DEF InHand
  <2> QED BY <2>1, <2>2, <2>5, <2>6, AcknowledgingBy
<1>9. ASSUME NEW p \in Procs, TimeOut(p) \/ Break(p) \/ Die(p) PROVE Acknowledging'
  <2>1. /\ held' = held
        /\ outcome' = outcome \/ (Result(p, "failed") /\ outcome'[p] = "failed")
    BY <1>9 DEF TimeOut, Break, Die, Throw, Result, TypeOK
  <2>2. PICK there \in {"idle", "dead", "unlocking", "releasing"} : Goto(p, there)
    <3>1. Goto(p, FailureExit(p)) \/ Goto(p, "dead")
      BY <1>9 DEF TimeOut, Break, Die, Throw
    <3>2. FailureExit(p) \in {"idle", "unlocking", "releasing"}
      BY DEF FailureExit, AfterWriting
    <3> QED BY <3>1, <3>2
  <2>3. document' = document \/ (p \in Keepers /\ pc[p] = "writing")
    BY <1>9 DEF TimeOut, Break, Die, Leaves, Mark, Replace, Bar, Write, Unlock, StrayLock,
       Roles, Fits, Appending
  <2> QED BY <2>1, <2>2, <2>3, AcknowledgingKept
<1> QED
  BY <1>1, <1>2, <1>3, <1>4, <1>5, <1>6, <1>7, <1>8, <1>9 DEF Next, Proceed

-----------------------------------------------------------------------------
LEMMA InvariantInit == Init => IInv
BY TypesInit, LockingInit, JournalingInit, ProjectingInit, AcknowledgingInit DEF IInv

LEMMA InvariantStep == IInv /\ [Next]_vars => IInv'
BY TypesStep, LockingStep, JournalingStep, ProjectingStep, AcknowledgingStep DEF IInv

(* An acknowledged projection stands until a later one of its portfolio,   *)
(* an acknowledged event is committed exactly once.                        *)
THEOREM AcknowledgedAlwaysStands == Spec => []AcknowledgedStands
<1>1. IInv => AcknowledgedStands
  <2> SUFFICES ASSUME IInv, NEW p \in Procs, pc[p] = "ended"
               PROVE  IF p \in Appenders
                      THEN \E i \in DOMAIN journal : \A j \in DOMAIN journal :
                             Commit(j) /\ journal[j].by = p <=> j = i
                      ELSE LET now == document[given[p].of]
                           IN  now # Absent /\ (now.by = p \/ now.time > given[p].time)
    BY DEF AcknowledgedStands
  <2>1. outcome[p] = "ok"
    BY DEF IInv, Acknowledging
  <2>2. CASE p \in Appenders
    <3>1. Persisted(p) /\ Once
      BY <2>1, <2>2 DEF IInv, Journaling, Stage
    <3>2. PICK i \in DOMAIN journal : Commit(i) /\ journal[i].by = p
      BY <3>1 DEF Persisted
    <3>3. \A j \in DOMAIN journal : Commit(j) /\ journal[j].by = p <=> j = i
      BY <3>1, <3>2 DEF Once
    <3> QED BY <2>2, <3>3
  <2>3. CASE p \notin Appenders
    BY <2>1, <2>3, ConstantFacts DEF IInv, Acknowledging, Covers
  <2> QED BY <2>2, <2>3
<1> QED BY <1>1, InvariantInit, InvariantStep, PTL DEF Spec
=============================================================================
