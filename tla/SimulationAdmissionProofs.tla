---------------------- MODULE SimulationAdmissionProofs ----------------------
(***************************************************************************)
(* That an identity is run for the one request whose acceptance its log    *)
(* holds, that a slot tells what its server runs, and that a reader never  *)
(* reports a line in the making, for every number of requests, servers,    *)
(* identities, readers and faults.                                         *)
(***************************************************************************)
EXTENDS SimulationAdmission, SequenceTheorems, TLAPS

(* A request owns its identity from the creation of the directory on.      *)
Owning == {"mark", "fill", "persist", "lock", "check", "write", "sync",
           "unlock", "run"}

Inside == {"check", "write", "sync", "unlock"}   \* behind the barrier

Owns(r) == req[r].at \in Owning

Owned(r) == IF req[r].event = Accepted THEN <<>> ELSE <<Line(Accepted, r)>>

(* What the owner finds on disk, step by step.                             *)
LogOf(r) ==
    CASE At(r, "sync") -> [lines |-> Owned(r), torn |-> TRUE]
      [] At(r, "unlock") ->
            [lines |-> Append(Owned(r), Line(req[r].event, r)), torn |-> FALSE]
      [] At(r, "run") -> [lines |-> <<Line(Accepted, r)>>, torn |-> FALSE]
      [] OTHER -> [lines |-> Owned(r), torn |-> FALSE]

LockOf(r) == IF req[r].at \in Inside THEN r ELSE None

Owners ==
    \A r \in Requests: Owns(r) =>
        /\ Id(r) \in dirs
        /\ log[Id(r)] = LogOf(r)
        /\ lock[Id(r)] = LockOf(r)
        /\ At(r, "run") => req[r].event = Accepted
        /\ \A o \in Requests: Owns(o) /\ Id(o) = Id(r) => o = r

(* A log holds an acceptance, or an acceptance and the failure of the same *)
(* request, or nothing yet; a torn one is behind the barrier.              *)
Whole(lines) ==
    \/ lines = <<>>
    \/ \E r \in Requests:
          \/ lines = <<Line(Accepted, r)>>
          \/ lines = <<Line(Accepted, r), Line(RunnerFailed, r)>>

Shaped == \A i \in Ids: /\ Whole(log[i].lines)
                        /\ log[i].torn => lock[i] # None
                        /\ i \notin dirs => log[i] = NoLog /\ lock[i] = None

(* What was answered is on disk.                                           *)
Kept ==
    \A r \in Requests:
        /\ req[r].reply = Accepted =>
              log[Id(r)].lines \in {<<Line(Accepted, r)>>,
                  <<Line(Accepted, r), Line(RunnerFailed, r)>>}
        /\ req[r].reply = Accepted \/ At(r, "reserve") \/ Owns(r)
              => Id(r) \in Ids
        /\ At(r, "run") \/ (Owns(r) /\ req[r].event = RunnerFailed)
              => req[r].reply = Accepted
        /\ req[r].at \in {"new", "reserve"}
              => req[r].event = Accepted /\ req[r].reply = None

(* A log has not gone back since a reader saw it.                          *)
Since(seen, l) ==
    \/ Len(seen.lines) < Len(l.lines)
    \/ Len(seen.lines) = Len(l.lines) /\ (seen.torn => l.torn)

Readings ==
    \A q \in Readers:
        /\ view[q].at \in {"read", "probe", "match"} => view[q].id \in Ids
        /\ view[q].at \in {"probe", "match"} =>
              view[q].seen # NoLog /\ Since(view[q].seen, log[view[q].id])
        /\ view[q].at = "match" /\ view[q].seen.torn =>
                 Len(view[q].seen.lines) < Len(log[view[q].id].lines)

IInv == TypeOK /\ SlotTellsTheRun /\ Owners /\ Shaped /\ Kept /\ Readings

-----------------------------------------------------------------------------
Request == [at : {"new", "reserve", "mark", "fill", "persist", "lock", "check",
                  "write", "sync", "unlock", "run", "done", "dead"},
            id : Ids \cup {None}, event : {Accepted, RunnerFailed},
            reply : Replies \cup {None}]

Reader == [at : {"new", "read", "probe", "match", "done"},
           id : Ids \cup {None}, seen : Logs,
           answer : Answers \cup {None}]

LEMMA Tuples ==
    ASSUME NEW S, NEW a \in S, NEW b \in S
    PROVE  /\ Append(<<>>, a) = <<a>> /\ Append(<<a>>, b) = <<a, b>>
           /\ Len(<<>>) = 0 /\ Len(<<a>>) = 1 /\ Len(<<a, b>>) = 2
           /\ <<a, b>>[1] = a /\ <<a, b>>[2] = b /\ <<a>>[1] = a
<1>1. /\ Len(<<>>) = 0 /\ Len(<<a>>) = 1 /\ Len(<<a, b>>) = 2
      /\ <<a, b>>[1] = a /\ <<a, b>>[2] = b /\ <<a>>[1] = a
  OBVIOUS
<1>2. Append(<<>>, a) = <<a>>
  OBVIOUS
<1>3. Append(<<a>>, b) = <<a, b>>
  <2>1. <<a>> \in Seq(S) /\ <<a, b>> \in Seq(S)
    OBVIOUS
  <2>2. /\ Append(<<a>>, b) \in Seq(S) /\ Len(Append(<<a>>, b)) = 2
        /\ Append(<<a>>, b)[1] = a /\ Append(<<a>>, b)[2] = b
    BY <1>1, <2>1, AppendProperties
  <2> DEFINE s == Append(<<a>>, b)
             t == <<a, b>>
  <2>3. /\ s \in Seq(S) /\ t \in Seq(S) /\ Len(s) = 2 /\ Len(t) = 2
        /\ s[1] = t[1] /\ s[2] = t[2]
    BY <1>1, <2>1, <2>2
  <2> HIDE DEF s, t
  <2>4. \A i \in 1 .. Len(s): s[i] = t[i]
    <3>1. \A i \in 1 .. 2: i = 1 \/ i = 2
      OBVIOUS
    <3> QED
      BY <2>3, <3>1
  <2>5. s = t
    BY <2>3, <2>4, SeqEqual
  <2> QED
    BY <2>5 DEF s, t
<1> QED
  BY <1>1, <1>2, <1>3

LEMMA LinesTyped ==
    ASSUME NEW r \in Requests
    PROVE  /\ <<>> \in Seq(Lines) /\ <<Line(Accepted, r)>> \in Seq(Lines)
           /\ <<Line(Accepted, r), Line(RunnerFailed, r)>> \in Seq(Lines)
  BY DEF Lines, Line

(* The second line of a log is not another first one.                      *)
LEMMA LinesDiffer ==
    ASSUME NEW r \in Requests, NEW o \in Requests
    PROVE  /\ <<Line(Accepted, r)>> = <<Line(Accepted, o)>> => r = o
           /\ <<Line(Accepted, r), Line(RunnerFailed, r)>>
                 = <<Line(Accepted, o), Line(RunnerFailed, o)>> => r = o
           /\ <<Line(Accepted, r)>> # <<>>
           /\ <<Line(Accepted, r), Line(RunnerFailed, r)>> # <<>>
           /\ <<Line(Accepted, r), Line(RunnerFailed, r)>> # <<Line(Accepted, o)>>
<1>1. Line(Accepted, r) = Line(Accepted, o) => r = o
  <2>1. Line(Accepted, r).by = r /\ Line(Accepted, o).by = o
    BY DEF Line
  <2> QED
    BY <2>1
<1> DEFINE a == Line(Accepted, r)
           b == Line(RunnerFailed, r)
           c == Line(Accepted, o)
           d == Line(RunnerFailed, o)
<1>2. a = c => r = o
  BY <1>1
<1> HIDE DEF a, b, c, d
<1>3. /\ <<a>> = <<c>> => r = o
      /\ <<a, b>> = <<c, d>> => r = o
      /\ <<a>> # <<>> /\ <<a, b>> # <<>> /\ <<a, b>> # <<c>>
  BY <1>2
<1> QED
  BY <1>3 DEF a, b, c, d

LEMMA SinceTransitive ==
    ASSUME NEW a \in Logs, NEW b \in Logs, NEW c \in Logs,
           Since(a, b), Since(b, c)
    PROVE  Since(a, c)
  BY DEF Since, Logs

LEMMA InitIInv == ASSUME Init PROVE IInv
<1>1. NoLog \in Logs
  BY DEF NoLog, Logs, Lines
<1>2. TypeOK
  BY <1>1, FaultAssumption DEF Init, TypeOK, FaultAssumption
<1>3. SlotTellsTheRun
  BY DEF Init, SlotTellsTheRun, Active
<1>4. Owners /\ Shaped /\ Readings
  BY DEF Init, Owners, Owns, Owning, Shaped, Readings, NoLog, Whole
<1>5. Kept
  BY NoneAssumption DEF Init, Kept, Owns, Owning, At, Replies, NoneAssumption
<1> QED
  BY <1>2, <1>3, <1>4, <1>5 DEF IInv

-----------------------------------------------------------------------------
(* The slots.                                                              *)

LEMMA SlotKept ==
    ASSUME IInv, NEW r \in Requests, NEW n, slot' = slot,
           req' = [req EXCEPT ![r] = n],
           n.at \in {"new", "done", "dead"}
              <=> req[r].at \in {"new", "done", "dead"}
    PROVE  SlotTellsTheRun'
<1>1. \A o \in Requests, s \in Servers: Active(o, s)' <=> Active(o, s)
  BY DEF Active, IInv, TypeOK
<1> QED
  BY <1>1 DEF IInv, SlotTellsTheRun

LEMMA SlotReleased ==
    ASSUME IInv, NEW r \in Requests, NEW n, Release(r),
           req[r].at \notin {"new", "done", "dead"},
           req' = [req EXCEPT ![r] = n], n.at = "done"
    PROVE  SlotTellsTheRun'
<1>1. ServerOf[r] \in Servers
  BY ServerAssumption DEF ServerAssumption
<1>2. slot[ServerOf[r]] = r
  <2>1. Active(r, ServerOf[r])
    BY DEF Active
  <2>2. {o \in Requests: Active(o, ServerOf[r])} = {slot[ServerOf[r]]} \ {None}
    BY <1>1 DEF IInv, SlotTellsTheRun
  <2>3. r \in {o \in Requests: Active(o, ServerOf[r])}
    BY <2>1
  <2> QED
    BY <2>2, <2>3
<1>3. slot' = [slot EXCEPT ![ServerOf[r]] = None]
  BY <1>2 DEF Release
<1>4. \A o \in Requests, s \in Servers:
         Active(o, s)' <=> Active(o, s) /\ o # r
  BY DEF Active, IInv, TypeOK
<1>5. ASSUME NEW s \in Servers
      PROVE  {o \in Requests: Active(o, s)'} = {slot'[s]} \ {None}
  <2>1. {o \in Requests: Active(o, s)} = {slot[s]} \ {None}
    BY DEF IInv, SlotTellsTheRun
  <2>2. CASE s = ServerOf[r]
    <3>1. slot'[s] = None
      BY <1>1, <1>3, <2>2 DEF IInv, TypeOK
    <3>2. \A o \in Requests: ~Active(o, s)'
      BY <1>2, <1>4, <2>1, <2>2
    <3> QED
      BY <3>1, <3>2
  <2>3. CASE s # ServerOf[r]
    <3>1. slot'[s] = slot[s]
      BY <1>1, <1>3, <2>3 DEF IInv, TypeOK
    <3>2. \A o \in Requests: Active(o, s)' <=> Active(o, s)
      BY <1>4, <2>3 DEF Active
    <3> QED
      BY <2>1, <3>1, <3>2
  <2> QED
    BY <2>2, <2>3
<1> QED
  BY <1>5 DEF SlotTellsTheRun

-----------------------------------------------------------------------------
(* The disk.                                                               *)

(* The lines an owner finds are its own.                                   *)
LEMMA OwnLines ==
    ASSUME NEW r \in Requests, req[r].event \in {Accepted, RunnerFailed}
    PROVE  LogOf(r).lines \in {<<>>, <<Line(Accepted, r)>>,
                               <<Line(Accepted, r), Line(RunnerFailed, r)>>}
<1>1. /\ Append(<<>>, Line(Accepted, r)) = <<Line(Accepted, r)>>
      /\ Append(<<Line(Accepted, r)>>, Line(RunnerFailed, r))
            = <<Line(Accepted, r), Line(RunnerFailed, r)>>
  <2>1. Line(Accepted, r) \in Lines /\ Line(RunnerFailed, r) \in Lines
    BY DEF Line, Lines
  <2> QED
    BY <2>1, Tuples
<1>2. /\ req[r].event = Accepted => Owned(r) = <<>>
      /\ req[r].event = RunnerFailed => Owned(r) = <<Line(Accepted, r)>>
  BY DEF Owned, Accepted, RunnerFailed
<1>3. LogOf(r).lines \in {Owned(r), Append(Owned(r), Line(req[r].event, r)),
                          <<Line(Accepted, r)>>}
  <2>1. CASE At(r, "sync")
    BY <2>1 DEF LogOf
  <2>2. CASE At(r, "unlock")
    BY <2>2 DEF LogOf, At
  <2>3. CASE At(r, "run")
    BY <2>3 DEF LogOf, At
  <2>4. CASE ~At(r, "sync") /\ ~At(r, "unlock") /\ ~At(r, "run")
    BY <2>4 DEF LogOf
  <2> QED
    BY <2>1, <2>2, <2>3, <2>4
<1> QED
  BY <1>1, <1>2, <1>3

(* What an owner may do to its log and its barrier.                        *)
LEMMA OwnerStep ==
    ASSUME IInv, NEW r \in Requests, Owns(r),
           NEW n \in Request, NEW l \in Logs, NEW k \in {None, r},
           req' = [req EXCEPT ![r] = n], n.id = Id(r),
           log' = [log EXCEPT ![Id(r)] = l],
           lock' = [lock EXCEPT ![Id(r)] = k],
           dirs' = dirs, view' = view,
           n.at \in Owning \cup {"done"},
           n.at \in Owning => /\ l = LogOf(r)' /\ k = LockOf(r)'
                              /\ n.at = "run" => n.event = Accepted
                              /\ n.at = "run" \/ n.event = RunnerFailed
                                    => n.reply = Accepted,
           Whole(l.lines), l.torn => k # None, Since(log[Id(r)], l),
           n.reply = Accepted =>
              l.lines \in {<<Line(Accepted, r)>>,
                           <<Line(Accepted, r), Line(RunnerFailed, r)>>}
    PROVE  Owners' /\ Shaped' /\ Kept' /\ Readings'
<1>1. /\ req \in [Requests -> Request] /\ log \in [Ids -> Logs]
      /\ lock \in [Ids -> Requests \cup {None}]
      /\ view \in [Readers -> Reader]
  BY DEF IInv, TypeOK, Request, Reader
<1>2. Id(r) \in Ids /\ Id(r) \in dirs
  BY DEF IInv, Kept, Owners
<1>3. \A o \in Requests: o # r => req'[o] = req[o]
  BY <1>1
<1>4. req'[r] = n
  BY <1>1
<1>5. \A i \in Ids: i # Id(r) => log'[i] = log[i] /\ lock'[i] = lock[i]
  BY <1>1
<1>6. log'[Id(r)] = l /\ lock'[Id(r)] = k
  BY <1>1, <1>2
<1>7. \A o \in Requests: o # r => /\ Owns(o)' <=> Owns(o)
                                  /\ Id(o)' = Id(o)
                                  /\ LogOf(o)' = LogOf(o)
                                  /\ LockOf(o)' = LockOf(o)
  BY <1>3 DEF Owns, Id, LogOf, LockOf, At, Owned
<1>8. Id(r)' = Id(r) /\ (Owns(r)' <=> n.at \in Owning)
  BY <1>4 DEF Id, Owns
<1>9. ASSUME NEW o \in Requests, Owns(o)'
      PROVE  /\ Id(o)' \in dirs'
             /\ log'[Id(o)'] = LogOf(o)' /\ lock'[Id(o)'] = LockOf(o)'
             /\ At(o, "run")' => req'[o].event = Accepted
             /\ \A p \in Requests: Owns(p)' /\ Id(p)' = Id(o)' => p = o
  <2>1. CASE o = r
    <3>1. /\ Id(o)' \in dirs'
          /\ log'[Id(o)'] = LogOf(o)' /\ lock'[Id(o)'] = LockOf(o)'
          /\ At(o, "run")' => req'[o].event = Accepted
      BY <1>2, <1>4, <1>6, <1>8, <1>9, <2>1 DEF At
    <3>2. \A p \in Requests: Owns(p)' /\ Id(p)' = Id(o)' => p = o
      BY <1>7, <1>8, <2>1 DEF IInv, Owners
    <3> QED
      BY <3>1, <3>2
  <2>2. CASE o # r
    <3>1. Owns(o) /\ Id(o) # Id(r) /\ Id(o) \in Ids
      BY <1>7, <1>9, <2>2 DEF IInv, Owners, Kept
    <3>2. /\ log'[Id(o)] = log[Id(o)] /\ lock'[Id(o)] = lock[Id(o)]
      BY <1>5, <3>1
    <3>3. /\ Id(o)' \in dirs'
          /\ log'[Id(o)'] = LogOf(o)' /\ lock'[Id(o)'] = LockOf(o)'
          /\ At(o, "run")' => req'[o].event = Accepted
      BY <1>3, <1>7, <2>2, <3>1, <3>2 DEF IInv, Owners, At
    <3>4. \A p \in Requests: Owns(p)' /\ Id(p)' = Id(o)' => p = o
      BY <1>7, <1>8, <2>2, <3>1 DEF IInv, Owners
    <3> QED
      BY <3>3, <3>4
  <2> QED
    BY <2>1, <2>2
<1>10. Owners'
  BY <1>9 DEF Owners
<1>11. Shaped'
  <2> SUFFICES ASSUME NEW i \in Ids
               PROVE  /\ Whole(log'[i].lines)
                      /\ log'[i].torn => lock'[i] # None
                      /\ i \notin dirs' => log'[i] = NoLog /\ lock'[i] = None
    BY DEF Shaped, Whole
  <2>1. CASE i = Id(r)
    BY <1>2, <1>6, <2>1
  <2>2. CASE i # Id(r)
    BY <1>5, <2>2 DEF IInv, Shaped
  <2> QED
    BY <2>1, <2>2
<1>12. ASSUME NEW o \in Requests, req[o].reply = Accepted, Id(o) = Id(r)
       PROVE  o = r
  <2>1. log[Id(r)].lines \in {<<Line(Accepted, o)>>,
                              <<Line(Accepted, o), Line(RunnerFailed, o)>>}
    BY <1>12 DEF IInv, Kept
  <2>2. log[Id(r)] = LogOf(r) /\ req[r].event \in {Accepted, RunnerFailed}
    BY <1>1 DEF IInv, Owners, Request
  <2>3. LogOf(r).lines \in {<<>>, <<Line(Accepted, r)>>,
                            <<Line(Accepted, r), Line(RunnerFailed, r)>>}
    BY <2>2, OwnLines
  <2> QED
    BY <2>1, <2>2, <2>3, LinesDiffer
<1>13. Kept'
  <2> SUFFICES ASSUME NEW o \in Requests
               PROVE
         /\ req'[o].reply = Accepted =>
               log'[Id(o)'].lines \in {<<Line(Accepted, o)>>,
                   <<Line(Accepted, o), Line(RunnerFailed, o)>>}
         /\ req'[o].reply = Accepted \/ At(o, "reserve")' \/ Owns(o)'
               => Id(o)' \in Ids
         /\ At(o, "run")' \/ (Owns(o)' /\ req'[o].event = RunnerFailed)
               => req'[o].reply = Accepted
         /\ req'[o].at \in {"new", "reserve"}
               => req'[o].event = Accepted /\ req'[o].reply = None
    BY DEF Kept
  <2>1. CASE o = r
    BY <1>2, <1>4, <1>6, <1>8, <2>1 DEF At, Owning
  <2>2. CASE o # r
    <3>1. req'[o].reply = Accepted => Id(o) # Id(r) /\ Id(o) \in Ids
      BY <1>3, <1>12, <2>2 DEF IInv, Kept
    <3>2. req'[o].reply = Accepted => log'[Id(o)] = log[Id(o)]
      BY <1>5, <3>1
    <3> QED
      BY <1>3, <1>7, <2>2, <3>1, <3>2 DEF IInv, Kept, At
  <2> QED
    BY <2>1, <2>2
<1>14. Readings'
  <2> SUFFICES ASSUME NEW q \in Readers
               PROVE
         /\ view[q].at \in {"read", "probe", "match"} => view[q].id \in Ids
         /\ view[q].at \in {"probe", "match"} =>
               view[q].seen # NoLog /\ Since(view[q].seen, log'[view[q].id])
         /\ view[q].at = "match" /\ view[q].seen.torn =>
               Len(view[q].seen.lines) < Len(log'[view[q].id].lines)
    BY DEF Readings, Since
  <2>1. CASE view[q].id # Id(r)
    BY <1>5, <2>1 DEF IInv, Readings
  <2>2. CASE view[q].id = Id(r)
    <3>1. view[q].seen \in Logs /\ log[Id(r)] \in Logs
      BY <1>1, <1>2 DEF Reader
    <3>2. Since(view[q].seen, log[Id(r)]) => Since(view[q].seen, l)
      BY <3>1, SinceTransitive
    <3>3. Len(log[Id(r)].lines) <= Len(l.lines)
      BY <3>1 DEF Since, Logs
    <3>4. Len(view[q].seen.lines) \in Nat /\ Len(log[Id(r)].lines) \in Nat
          /\ Len(l.lines) \in Nat
      BY <3>1 DEF Logs
    <3> QED
      BY <1>6, <2>2, <3>2, <3>3, <3>4 DEF IInv, Readings
  <2> QED
    BY <2>1, <2>2
<1> QED
  BY <1>10, <1>11, <1>13, <1>14

(* The whole invariant after a step of an owner, which keeps its slot or   *)
(* ends and gives it back.                                                 *)
LEMMA OwnerKeepsIInv ==
    ASSUME IInv, NEW r \in Requests, Owns(r),
           NEW n \in Request, NEW l \in Logs, NEW k \in {None, r},
           req' = [req EXCEPT ![r] = n], n.id = Id(r),
           log' = [log EXCEPT ![Id(r)] = l],
           lock' = [lock EXCEPT ![Id(r)] = k],
           dirs' = dirs, view' = view,
           marker' \in {"absent", "torn", "whole"}, faults' \in 0 .. MaxFaults,
           \/ n.at \in Owning /\ slot' = slot
           \/ n.at = "done" /\ Release(r),
           n.at \in Owning => /\ l = LogOf(r)' /\ k = LockOf(r)'
                              /\ n.at = "run" => n.event = Accepted
                              /\ n.at = "run" \/ n.event = RunnerFailed
                                    => n.reply = Accepted,
           Whole(l.lines), l.torn => k # None, Since(log[Id(r)], l),
           n.reply = Accepted =>
              l.lines \in {<<Line(Accepted, r)>>,
                           <<Line(Accepted, r), Line(RunnerFailed, r)>>}
    PROVE  IInv'
<1>1. Owners' /\ Shaped' /\ Kept' /\ Readings'
  BY OwnerStep
<1>2. req[r].at \notin {"new", "done", "dead"}
  BY DEF Owns, Owning
<1>3. SlotTellsTheRun'
  <2>1. CASE n.at \in Owning /\ slot' = slot
    BY <1>2, <2>1, SlotKept DEF Owning
  <2>2. CASE n.at = "done" /\ Release(r)
    BY <1>2, <2>2, SlotReleased
  <2> QED
    BY <2>1, <2>2
<1>4. TypeOK'
  <2>1. /\ req \in [Requests -> Request] /\ log \in [Ids -> Logs]
        /\ lock \in [Ids -> Requests \cup {None}]
        /\ slot \in [Servers -> Requests \cup {None}]
    BY DEF IInv, TypeOK, Request
  <2>2. /\ req' \in [Requests -> Request] /\ log' \in [Ids -> Logs]
        /\ lock' \in [Ids -> Requests \cup {None}]
    BY <2>1
  <2>3. slot' \in [Servers -> Requests \cup {None}]
    BY <2>1 DEF Release
  <2> QED
    BY <2>2, <2>3 DEF IInv, TypeOK, Request
<1> QED
  BY <1>1, <1>3, <1>4 DEF IInv

(* What an owner knows before its step.                                    *)
LEMMA OwnerKnows ==
    ASSUME IInv, NEW r \in Requests, Owns(r)
    PROVE  /\ req[r] \in Request /\ Id(r) \in Ids
           /\ log[Id(r)] \in Logs /\ log[Id(r)] = LogOf(r)
           /\ lock[Id(r)] = LockOf(r) /\ lock[Id(r)] \in {None, r}
           /\ log = [log EXCEPT ![Id(r)] = log[Id(r)]]
           /\ lock = [lock EXCEPT ![Id(r)] = lock[Id(r)]]
           /\ Whole(log[Id(r)].lines) /\ Since(log[Id(r)], log[Id(r)])
           /\ log[Id(r)].torn => lock[Id(r)] # None
           /\ req[r].reply = Accepted =>
                 log[Id(r)].lines \in {<<Line(Accepted, r)>>,
                     <<Line(Accepted, r), Line(RunnerFailed, r)>>}
           /\ At(r, "run") \/ req[r].event = RunnerFailed
                 => req[r].reply = Accepted
           /\ At(r, "run") => req[r].event = Accepted
           /\ req[r].event \in {Accepted, RunnerFailed}
           /\ marker \in {"absent", "torn", "whole"}
           /\ faults \in 0 .. MaxFaults
<1>1. /\ req \in [Requests -> Request] /\ log \in [Ids -> Logs]
      /\ lock \in [Ids -> Requests \cup {None}] /\ Id(r) \in Ids
  BY DEF IInv, TypeOK, Request, Kept
<1>2. /\ log[Id(r)] = LogOf(r) /\ lock[Id(r)] = LockOf(r)
      /\ lock[Id(r)] \in {None, r}
      /\ At(r, "run") => req[r].event = Accepted
  BY DEF IInv, Owners, LockOf
<1>3. /\ Whole(log[Id(r)].lines)
      /\ log[Id(r)].torn => lock[Id(r)] # None
  BY <1>1 DEF IInv, Shaped
<1>4. /\ req[r].reply = Accepted =>
            log[Id(r)].lines \in {<<Line(Accepted, r)>>,
                <<Line(Accepted, r), Line(RunnerFailed, r)>>}
      /\ At(r, "run") \/ req[r].event = RunnerFailed => req[r].reply = Accepted
  BY DEF IInv, Kept
<1>5. /\ log = [log EXCEPT ![Id(r)] = log[Id(r)]]
      /\ lock = [lock EXCEPT ![Id(r)] = lock[Id(r)]]
      /\ Since(log[Id(r)], log[Id(r)])
  BY <1>1 DEF Since
<1>6. req[r] \in Request /\ req[r].event \in {Accepted, RunnerFailed}
  BY <1>1 DEF Request
<1>7. marker \in {"absent", "torn", "whole"} /\ faults \in 0 .. MaxFaults
  BY DEF IInv, TypeOK
<1> QED
  BY <1>1, <1>2, <1>3, <1>4, <1>5, <1>6, <1>7

(* The steps that leave the log and the barrier alone.                     *)
LEMMA OwnerMoves ==
    ASSUME IInv, NEW r \in Requests, Owns(r), NEW n \in Request,
           req' = [req EXCEPT ![r] = n], n.id = Id(r),
           log' = log, lock' = lock, dirs' = dirs, view' = view,
           marker' \in {"absent", "torn", "whole"}, faults' \in 0 .. MaxFaults,
           \/ n.at \in Owning /\ slot' = slot
           \/ n.at = "done" /\ Release(r),
           n.at \in Owning => /\ LogOf(r) = LogOf(r)' /\ LockOf(r) = LockOf(r)'
                              /\ n.at = "run" => n.event = Accepted
                              /\ n.at = "run" \/ n.event = RunnerFailed
                                    => n.reply = Accepted,
           n.reply = Accepted => req[r].reply = Accepted
    PROVE  IInv'
<1> DEFINE l == log[Id(r)]
           k == lock[Id(r)]
<1>1. /\ l \in Logs /\ k \in {None, r} /\ l = LogOf(r) /\ k = LockOf(r)
      /\ Whole(l.lines) /\ (l.torn => k # None) /\ Since(log[Id(r)], l)
      /\ req[r].reply = Accepted =>
              l.lines \in {<<Line(Accepted, r)>>,
                           <<Line(Accepted, r), Line(RunnerFailed, r)>>}
      /\ log = [log EXCEPT ![Id(r)] = l]
      /\ lock = [lock EXCEPT ![Id(r)] = k]
  BY OwnerKnows
<1>2. /\ log' = [log EXCEPT ![Id(r)] = l] /\ lock' = [lock EXCEPT ![Id(r)] = k]
  BY <1>1
<1> HIDE DEF l, k
<1> QED
  BY <1>1, <1>2, OwnerKeepsIInv

-----------------------------------------------------------------------------
(* The steps of an owner, one by one.                                      *)

LEMMA MovesKeep ==
    ASSUME IInv, NEW r \in Requests,
           Mark(r) \/ Fill(r) \/ Persist(r) \/ Check(r)
    PROVE  IInv'
<1>1. Owns(r) /\ req[r].at \in {"mark", "fill", "persist", "check"}
  BY DEF Mark, Fill, Persist, Check, At, Owns, Owning
<1>2. PICK place \in {"fill", "persist", "lock", "write"}:
         /\ Goes(r, place)
         /\ place = "write" <=> At(r, "check")
  BY DEF Mark, Fill, Persist, Check, At
<1> DEFINE n == [req[r] EXCEPT !.at = place]
<1>3. req[r] \in Request /\ marker \in {"absent", "torn", "whole"}
      /\ faults \in 0 .. MaxFaults
  BY <1>1, OwnerKnows
<1>4. /\ n \in Request /\ n.at = place /\ n.id = Id(r)
      /\ n.event = req[r].event /\ n.reply = req[r].reply
  BY <1>3 DEF Request, Id
<1>5. req' = [req EXCEPT ![r] = n]
  BY <1>2 DEF Goes
<1>6. /\ log' = log /\ lock' = lock /\ dirs' = dirs /\ view' = view
      /\ slot' = slot /\ marker' \in {"absent", "torn", "whole"}
      /\ faults' \in 0 .. MaxFaults
  BY <1>3 DEF Mark, Fill, Persist, Check, disk
<1>7. req'[r] = n
  BY <1>5 DEF IInv, TypeOK
<1> HIDE DEF n
<1>8. LogOf(r)' = LogOf(r) /\ LockOf(r)' = LockOf(r)
  BY <1>1, <1>2, <1>4, <1>7 DEF LogOf, LockOf, Owned, Inside, At
<1>9. /\ n.at \in Owning /\ n.at # "run"
      /\ n.event = RunnerFailed => n.reply = Accepted
  BY <1>1, <1>4, OwnerKnows DEF Owning
<1> QED
  BY <1>1, <1>4, <1>5, <1>6, <1>8, <1>9, OwnerMoves

LEMMA RunKeeps ==
    ASSUME IInv, NEW r \in Requests, Resolve(r) \/ Reject(r)
    PROVE  IInv'
<1>1. Owns(r) /\ At(r, "run")
  BY DEF Resolve, Reject, At, Owns, Owning
<1>2. /\ req[r] \in Request /\ req[r].reply = Accepted
      /\ req[r].event = Accepted /\ marker \in {"absent", "torn", "whole"}
      /\ faults \in 0 .. MaxFaults
  BY <1>1, OwnerKnows
<1>3. /\ log' = log /\ lock' = lock /\ dirs' = dirs /\ view' = view
      /\ marker' \in {"absent", "torn", "whole"} /\ faults' \in 0 .. MaxFaults
  BY <1>2 DEF Resolve, Reject, disk
<1>4. CASE Resolve(r)
  <2> DEFINE n == [req[r] EXCEPT !.at = "done"]
  <2>1. n \in Request /\ n.at = "done" /\ n.id = Id(r) /\ n.reply = Accepted
    BY <1>2 DEF Request, Id
  <2>2. req' = [req EXCEPT ![r] = n] /\ Release(r)
    BY <1>4 DEF Resolve, Goes
  <2> HIDE DEF n
  <2>3. n.at \notin Owning
    BY <2>1 DEF Owning
  <2> QED
    BY <1>1, <1>2, <1>3, <2>1, <2>2, <2>3, OwnerMoves
<1>5. CASE Reject(r)
  <2> DEFINE n == [req[r] EXCEPT !.at = "lock", !.event = RunnerFailed]
  <2>1. /\ n \in Request /\ n.at = "lock" /\ n.id = Id(r)
        /\ n.reply = Accepted /\ n.event = RunnerFailed
    BY <1>2 DEF Request, Id
  <2>2. req' = [req EXCEPT ![r] = n] /\ slot' = slot
    BY <1>5 DEF Reject
  <2>3. req'[r] = n
    BY <2>2 DEF IInv, TypeOK
  <2> HIDE DEF n
  <2>4. LogOf(r)' = LogOf(r) /\ LockOf(r)' = LockOf(r)
    BY <1>1, <2>1, <2>3 DEF LogOf, LockOf, Owned, Inside, At, Accepted, RunnerFailed
  <2>5. n.at \in Owning
    BY <2>1 DEF Owning
  <2> QED
    BY <1>1, <1>2, <1>3, <2>1, <2>2, <2>4, <2>5, OwnerMoves
<1> QED
  BY <1>4, <1>5

LEMMA LockKeeps ==
    ASSUME IInv, NEW r \in Requests, Lock(r) PROVE IInv'
<1>1. Owns(r) /\ At(r, "lock")
  BY DEF Lock, At, Owns, Owning
<1> DEFINE n == [req[r] EXCEPT !.at =
                    IF req[r].event = Accepted THEN "write" ELSE "check"]
           l == log[Id(r)]
<1>2. /\ req[r] \in Request /\ l \in Logs /\ l = LogOf(r)
      /\ log = [log EXCEPT ![Id(r)] = l]
      /\ Whole(l.lines) /\ Since(log[Id(r)], l)
      /\ req[r].reply = Accepted =>
              l.lines \in {<<Line(Accepted, r)>>,
                           <<Line(Accepted, r), Line(RunnerFailed, r)>>}
      /\ req[r].event = RunnerFailed => req[r].reply = Accepted
      /\ marker \in {"absent", "torn", "whole"} /\ faults \in 0 .. MaxFaults
  BY <1>1, OwnerKnows
<1>3. /\ n \in Request /\ n.at \in {"write", "check"} /\ n.id = Id(r)
      /\ n.event = req[r].event /\ n.reply = req[r].reply
  BY <1>2 DEF Request, Id
<1>4. /\ req' = [req EXCEPT ![r] = n] /\ slot' = slot
      /\ log' = [log EXCEPT ![Id(r)] = l] /\ lock' = [lock EXCEPT ![Id(r)] = r]
      /\ dirs' = dirs /\ view' = view
      /\ marker' \in {"absent", "torn", "whole"} /\ faults' \in 0 .. MaxFaults
  BY <1>2 DEF Lock, Goes
<1>5. req'[r] = n
  BY <1>4 DEF IInv, TypeOK
<1> HIDE DEF n, l
<1>6. l = LogOf(r)' /\ r = LockOf(r)' /\ n.at \in Owning /\ n.at # "run"
  BY <1>1, <1>2, <1>3, <1>5 DEF LogOf, LockOf, Owned, Inside, Owning, At
<1>7. r # None
  BY NoneAssumption DEF NoneAssumption
<1> QED
  BY <1>1, <1>2, <1>3, <1>4, <1>6, <1>7, OwnerKeepsIInv

LEMMA WriteKeeps ==
    ASSUME IInv, NEW r \in Requests, Write(r) PROVE IInv'
<1>1. Owns(r) /\ At(r, "write")
  BY DEF Write, At, Owns, Owning
<1> DEFINE n == [req[r] EXCEPT !.at = "sync"]
           old == log[Id(r)]
           l == [lines |-> old.lines, torn |-> TRUE]
<1>2. /\ req[r] \in Request /\ old \in Logs /\ old = LogOf(r)
      /\ lock[Id(r)] = LockOf(r) /\ lock = [lock EXCEPT ![Id(r)] = lock[Id(r)]]
      /\ Whole(old.lines)
      /\ req[r].reply = Accepted =>
              old.lines \in {<<Line(Accepted, r)>>,
                             <<Line(Accepted, r), Line(RunnerFailed, r)>>}
      /\ req[r].event = RunnerFailed => req[r].reply = Accepted
      /\ marker \in {"absent", "torn", "whole"} /\ faults \in 0 .. MaxFaults
  BY <1>1, OwnerKnows
<1>3. /\ n \in Request /\ n.at = "sync" /\ n.id = Id(r)
      /\ n.event = req[r].event /\ n.reply = req[r].reply
  BY <1>2 DEF Request, Id
<1>4. lock[Id(r)] = r
  BY <1>1, <1>2 DEF LockOf, Inside, At
<1>5. /\ req' = [req EXCEPT ![r] = n] /\ slot' = slot
      /\ log' = [log EXCEPT ![Id(r)] = l] /\ lock' = [lock EXCEPT ![Id(r)] = r]
      /\ dirs' = dirs /\ view' = view
      /\ marker' \in {"absent", "torn", "whole"} /\ faults' \in 0 .. MaxFaults
  BY <1>2, <1>4 DEF Write, Goes
<1>6. req'[r] = n
  BY <1>5 DEF IInv, TypeOK
<1>7. /\ l \in Logs /\ l.lines = old.lines /\ Whole(l.lines)
      /\ l = [lines |-> old.lines, torn |-> TRUE]
      /\ old.lines = Owned(r) /\ old.torn = FALSE
  <2>1. old.lines = Owned(r) /\ old.torn = FALSE
    BY <1>1, <1>2 DEF LogOf, At
  <2>2. l.lines = old.lines /\ l \in Logs
    BY <1>2 DEF Logs
  <2> QED
    BY <1>2, <2>1, <2>2
<1>8. Since(old, l)
  BY <1>7 DEF Since
<1> HIDE DEF n, l
<1>9. l = LogOf(r)' /\ r = LockOf(r)' /\ n.at \in Owning /\ n.at # "run"
  BY <1>3, <1>6, <1>7 DEF LogOf, LockOf, Owned, Inside, Owning, At
<1>10. r # None
  BY NoneAssumption DEF NoneAssumption
<1> QED
  BY <1>1, <1>2, <1>3, <1>5, <1>7, <1>8, <1>9, <1>10, OwnerKeepsIInv

LEMMA SyncKeeps ==
    ASSUME IInv, NEW r \in Requests, Sync(r) PROVE IInv'
<1>1. Owns(r) /\ At(r, "sync")
  BY DEF Sync, At, Owns, Owning
<1> DEFINE n == [req[r] EXCEPT !.at = "unlock"]
           old == log[Id(r)]
           l == [lines |-> Append(old.lines, Line(req[r].event, r)), torn |-> FALSE]
<1>2. /\ req[r] \in Request /\ old \in Logs /\ old = LogOf(r)
      /\ lock[Id(r)] = LockOf(r) /\ lock = [lock EXCEPT ![Id(r)] = lock[Id(r)]]
      /\ req[r].event \in {Accepted, RunnerFailed}
      /\ req[r].reply = Accepted =>
              old.lines \in {<<Line(Accepted, r)>>,
                             <<Line(Accepted, r), Line(RunnerFailed, r)>>}
      /\ req[r].event = RunnerFailed => req[r].reply = Accepted
      /\ marker \in {"absent", "torn", "whole"} /\ faults \in 0 .. MaxFaults
  BY <1>1, OwnerKnows
<1>3. /\ n \in Request /\ n.at = "unlock" /\ n.id = Id(r)
      /\ n.event = req[r].event /\ n.reply = req[r].reply
  BY <1>2 DEF Request, Id
<1>4. lock[Id(r)] = r
  BY <1>1, <1>2 DEF LockOf, Inside, At
<1>5. /\ req' = [req EXCEPT ![r] = n] /\ slot' = slot
      /\ log' = [log EXCEPT ![Id(r)] = l] /\ lock' = [lock EXCEPT ![Id(r)] = r]
      /\ dirs' = dirs /\ view' = view
      /\ marker' \in {"absent", "torn", "whole"} /\ faults' \in 0 .. MaxFaults
  BY <1>2, <1>4 DEF Sync, Goes
<1>6. req'[r] = n
  BY <1>5 DEF IInv, TypeOK
<1>7. /\ old.lines = Owned(r)
      /\ Line(req[r].event, r) \in Lines
  BY <1>1, <1>2 DEF LogOf, At, Line, Lines
<1>8. l \in Logs /\ l.lines = Append(old.lines, Line(req[r].event, r))
      /\ l.torn = FALSE /\ Len(l.lines) = Len(old.lines) + 1
      /\ Len(old.lines) \in Nat
  BY <1>2, <1>7 DEF Logs
<1>9. Since(old, l)
  BY <1>8 DEF Since
<1>10. /\ req[r].event = Accepted => old.lines = <<>>
       /\ req[r].event = RunnerFailed => old.lines = <<Line(Accepted, r)>>
  BY <1>7 DEF Owned, Accepted, RunnerFailed
<1>11. /\ req[r].event = Accepted => l.lines = <<Line(Accepted, r)>>
       /\ req[r].event = RunnerFailed =>
             l.lines = <<Line(Accepted, r), Line(RunnerFailed, r)>>
  <2>1. Line(Accepted, r) \in Lines /\ Line(RunnerFailed, r) \in Lines
    BY DEF Line, Lines
  <2>2. /\ Append(<<>>, Line(Accepted, r)) = <<Line(Accepted, r)>>
        /\ Append(<<Line(Accepted, r)>>, Line(RunnerFailed, r))
              = <<Line(Accepted, r), Line(RunnerFailed, r)>>
    BY <2>1, Tuples
  <2> HIDE DEF l, old
  <2> QED
    BY <1>8, <1>10, <2>2
<1>12. /\ Whole(l.lines)
       /\ l.lines \in {<<Line(Accepted, r)>>,
                        <<Line(Accepted, r), Line(RunnerFailed, r)>>}
  BY <1>2, <1>11 DEF Whole
<1>13. l = [lines |-> Append(Owned(r), Line(req[r].event, r)), torn |-> FALSE]
  BY <1>7
<1> HIDE DEF n, l
<1>14. l = LogOf(r)' /\ r = LockOf(r)' /\ n.at \in Owning /\ n.at # "run"
  BY <1>3, <1>6, <1>13 DEF LogOf, LockOf, Owned, Inside, Owning, At
<1> QED
  BY <1>1, <1>2, <1>3, <1>5, <1>8, <1>9, <1>12, <1>14, OwnerKeepsIInv

LEMMA UnlockKeeps ==
    ASSUME IInv, NEW r \in Requests, Unlock(r) PROVE IInv'
<1>1. Owns(r) /\ At(r, "unlock")
  BY DEF Unlock, At, Owns, Owning
<1> DEFINE n == IF req[r].event = Accepted
                THEN [req[r] EXCEPT !.at = "run", !.reply = Accepted]
                ELSE [req[r] EXCEPT !.at = "done"]
           l == log[Id(r)]
<1>2. /\ req[r] \in Request /\ l \in Logs /\ l = LogOf(r)
      /\ log = [log EXCEPT ![Id(r)] = l]
      /\ Whole(l.lines) /\ Since(log[Id(r)], l)
      /\ req[r].event \in {Accepted, RunnerFailed}
      /\ req[r].event = RunnerFailed => req[r].reply = Accepted
      /\ marker \in {"absent", "torn", "whole"} /\ faults \in 0 .. MaxFaults
  BY <1>1, OwnerKnows
<1>3. /\ n \in Request /\ n.id = Id(r) /\ n.event = req[r].event
      /\ n.at = IF req[r].event = Accepted THEN "run" ELSE "done"
      /\ req[r].event = Accepted => n.reply = Accepted
  BY <1>2 DEF Request, Id, Replies
<1>4. req' = [req EXCEPT ![r] = n]
  <2>1. CASE req[r].event = Accepted
    BY <2>1 DEF Unlock
  <2>2. CASE req[r].event # Accepted
    BY <2>2 DEF Unlock, Goes
  <2> QED
    BY <2>1, <2>2
<1>5. /\ log' = [log EXCEPT ![Id(r)] = l] /\ lock' = [lock EXCEPT ![Id(r)] = None]
      /\ dirs' = dirs /\ view' = view
      /\ marker' \in {"absent", "torn", "whole"} /\ faults' \in 0 .. MaxFaults
  BY <1>2 DEF Unlock
<1>6. req'[r] = n
  BY <1>4 DEF IInv, TypeOK
<1>7. l = [lines |-> Append(Owned(r), Line(req[r].event, r)), torn |-> FALSE]
  BY <1>1, <1>2 DEF LogOf, At
<1> HIDE DEF n, l
<1>8. /\ req[r].event = Accepted => l.lines = <<Line(Accepted, r)>>
      /\ req[r].event = RunnerFailed =>
            l.lines = <<Line(Accepted, r), Line(RunnerFailed, r)>>
      /\ l.torn = FALSE
  <2>1. Line(Accepted, r) \in Lines /\ Line(RunnerFailed, r) \in Lines
    BY DEF Line, Lines
  <2>2. /\ Append(<<>>, Line(Accepted, r)) = <<Line(Accepted, r)>>
        /\ Append(<<Line(Accepted, r)>>, Line(RunnerFailed, r))
              = <<Line(Accepted, r), Line(RunnerFailed, r)>>
    BY <2>1, Tuples
  <2>3. /\ req[r].event = Accepted => Owned(r) = <<>>
        /\ req[r].event = RunnerFailed => Owned(r) = <<Line(Accepted, r)>>
    BY DEF Owned, Accepted, RunnerFailed
  <2> QED
    BY <1>7, <2>2, <2>3
<1>9. \/ n.at \in Owning /\ slot' = slot
      \/ n.at = "done" /\ Release(r)
  BY <1>3 DEF Unlock, ReleaseAfterLine, Owning
<1>10. n.at \in Owning => /\ l = LogOf(r)' /\ None = LockOf(r)'
                          /\ n.at = "run" => n.event = Accepted
                          /\ n.at = "run" \/ n.event = RunnerFailed
                                => n.reply = Accepted
  <2> SUFFICES ASSUME n.at \in Owning
               PROVE  /\ l = LogOf(r)' /\ None = LockOf(r)'
                      /\ n.event = Accepted /\ n.reply = Accepted
    OBVIOUS
  <2>1. req[r].event = Accepted /\ n.at = "run"
    BY <1>3 DEF Owning
  <2>2. l = [lines |-> <<Line(Accepted, r)>>, torn |-> FALSE]
    BY <1>7, <1>8, <2>1
  <2> QED
    BY <1>3, <1>6, <2>1, <2>2 DEF LogOf, LockOf, Inside, At
<1>11. l.lines \in {<<Line(Accepted, r)>>,
                    <<Line(Accepted, r), Line(RunnerFailed, r)>>}
  BY <1>2, <1>8
<1>12. n.at \in Owning \cup {"done"}
  BY <1>3 DEF Owning
<1> QED
  BY <1>1, <1>2, <1>3, <1>4, <1>5, <1>8, <1>9, <1>10, <1>11, OwnerKeepsIInv

LEMMA OwnerQuits ==
    ASSUME IInv, NEW r \in Requests, Owns(r), Quits(r),
           faults' \in 0 .. MaxFaults
    PROVE  IInv'
<1> DEFINE n == [req[r] EXCEPT !.at = "done",
                    !.reply = IF req[r].reply = None
                              THEN "failed" ELSE req[r].reply]
           l == log[Id(r)]
<1>1. /\ req[r] \in Request /\ l \in Logs /\ l = LogOf(r)
      /\ log = [log EXCEPT ![Id(r)] = l]
      /\ lock[Id(r)] \in {None, r}
      /\ l.torn => lock[Id(r)] # None
      /\ lock[Id(r)] = LockOf(r)
      /\ Whole(l.lines) /\ Since(log[Id(r)], l)
      /\ req[r].reply = Accepted =>
              l.lines \in {<<Line(Accepted, r)>>,
                           <<Line(Accepted, r), Line(RunnerFailed, r)>>}
      /\ marker \in {"absent", "torn", "whole"}
  BY OwnerKnows
<1>2. PICK k \in BarrierAfterFailure(r): lock' = [lock EXCEPT ![Id(r)] = k]
  BY DEF Quits
<1>3. /\ n \in Request /\ n.id = Id(r) /\ n.at = "done"
      /\ n.reply = Accepted => req[r].reply = Accepted
  BY <1>1 DEF Request, Id, Replies, Accepted
<1>4. /\ req' = [req EXCEPT ![r] = n] /\ Release(r)
      /\ log' = [log EXCEPT ![Id(r)] = l]
      /\ dirs' = dirs /\ view' = view /\ marker' \in {"absent", "torn", "whole"}
  BY <1>1 DEF Quits, ReleaseOnFailure
<1>5. k \in {None, r}
  BY <1>1, <1>2 DEF BarrierAfterFailure
<1>6. l.torn => k # None
  <2>1. CASE req[r].at \in {"lock", "check", "write"}
    BY <1>1, <2>1 DEF LogOf, At
  <2>2. CASE req[r].at \notin {"lock", "check", "write"}
    BY <1>1, <1>2, <2>2 DEF BarrierAfterFailure
  <2> QED
    BY <2>1, <2>2
<1> HIDE DEF n, l
<1>7. n.at \notin Owning
  BY <1>3 DEF Owning
<1> QED
  BY <1>1, <1>2, <1>3, <1>4, <1>5, <1>6, <1>7, OwnerKeepsIInv

-----------------------------------------------------------------------------
(* Steps of a request that owns nothing.                                   *)

LEMMA Bystander ==
    ASSUME IInv, NEW r \in Requests, ~Owns(r), NEW n \in Request,
           req' = [req EXCEPT ![r] = n], n.at \in {"reserve", "done"},
           n.reply # Accepted,
           n.at = "reserve" => n.id \in Ids /\ n.event = Accepted /\ n.reply = None,
           disk' = disk, view' = view
    PROVE  Owners' /\ Shaped' /\ Kept' /\ Readings'
<1>1. req'[r] = n /\ \A o \in Requests: o # r => req'[o] = req[o]
  BY DEF IInv, TypeOK
<1>2. dirs' = dirs /\ log' = log /\ lock' = lock /\ view' = view
  BY DEF disk
<1>3. ~Owns(r)' /\ \A o \in Requests: o # r => (Owns(o)' <=> Owns(o))
  BY <1>1 DEF Owns, Owning
<1>4. \A o \in Requests: o # r => /\ Id(o)' = Id(o)
                                  /\ LogOf(o)' = LogOf(o)
                                  /\ LockOf(o)' = LockOf(o)
  BY <1>1 DEF Id, LogOf, LockOf, At, Owned
<1>5. Owners'
  BY <1>1, <1>2, <1>3, <1>4 DEF IInv, Owners, At
<1>6. Shaped' /\ Readings'
  BY <1>2 DEF IInv, Shaped, Readings, Since, Whole
<1>7. Kept'
  BY <1>1, <1>2, <1>3, <1>4 DEF IInv, Kept, At, Id
<1> QED
  BY <1>5, <1>6, <1>7

LEMMA TypesKept ==
    ASSUME IInv, slot' \in [Servers -> Requests \cup {None}],
           req' \in [Requests -> Request], disk' = disk, view' = view,
           faults' \in 0 .. MaxFaults
    PROVE  TypeOK'
  BY DEF IInv, TypeOK, Request, disk

LEMMA ReserveLeaves ==
    ASSUME IInv, NEW r \in Requests, At(r, "reserve"), NEW n \in Request,
           req' = [req EXCEPT ![r] = n], n.at = "done", n.reply # Accepted,
           Release(r), disk' = disk, view' = view, faults' \in 0 .. MaxFaults
    PROVE  IInv'
<1>1. ~Owns(r) /\ req[r].at \notin {"new", "done", "dead"}
  BY DEF At, Owns, Owning
<1>2. Owners' /\ Shaped' /\ Kept' /\ Readings'
  BY <1>1, Bystander
<1>3. SlotTellsTheRun'
  BY <1>1, SlotReleased
<1>4. TypeOK'
  <2>1. /\ slot' \in [Servers -> Requests \cup {None}]
        /\ req' \in [Requests -> Request]
    BY DEF IInv, TypeOK, Release, Request
  <2> QED
    BY <2>1, TypesKept
<1> QED
  BY <1>2, <1>3, <1>4 DEF IInv

LEMMA QuitsKeeps ==
    ASSUME IInv, NEW r \in Requests, Working(r), Quits(r),
           faults' \in 0 .. MaxFaults
    PROVE  IInv'
<1>1. CASE Owns(r)
  BY <1>1, OwnerQuits
<1>2. CASE ~Owns(r)
  <2>1. At(r, "reserve") /\ Id(r) \in Ids /\ req[r].reply = None
    <3>1. req[r].at \in {"new", "reserve", "mark", "fill", "persist", "lock",
                         "check", "write", "sync", "unlock", "run", "done", "dead"}
      BY DEF IInv, TypeOK
    <3>2. At(r, "reserve")
      BY <1>2, <3>1 DEF Working, Owns, Owning, At
    <3> QED
      BY <3>2 DEF IInv, Kept, At
  <2> DEFINE n == [req[r] EXCEPT !.at = "done", !.reply = "failed"]
  <2>2. req' = [req EXCEPT ![r] = n]
    BY <2>1 DEF Quits
  <2>3. n \in Request /\ n.at = "done" /\ n.reply # Accepted
    BY DEF IInv, TypeOK, Request, Replies, Accepted
  <2>4. BarrierAfterFailure(r) = {lock[Id(r)]}
    BY <2>1 DEF BarrierAfterFailure, At
  <2>5. lock' = lock
    BY <2>1, <2>4 DEF Quits, IInv, TypeOK
  <2>6. disk' = disk /\ view' = view /\ Release(r)
    BY <2>5 DEF Quits, disk, ReleaseOnFailure
  <2> HIDE DEF n
  <2> QED
    BY <2>1, <2>2, <2>3, <2>6, ReserveLeaves
<1> QED
  BY <1>1, <1>2

(* A free slot is taken by a new request.                                  *)
LEMMA ReceiveKeeps ==
    ASSUME IInv, NEW r \in Requests, Receive(r) PROVE IInv'
<1>1. /\ req[r] \in Request /\ req[r].event = Accepted /\ req[r].reply = None
      /\ ~Owns(r) /\ req[r].at = "new" /\ ServerOf[r] \in Servers
  BY ServerAssumption
     DEF Receive, At, IInv, TypeOK, Request, Kept, Owns, Owning, ServerAssumption
<1>2. disk' = disk /\ view' = view /\ faults' \in 0 .. MaxFaults
  BY DEF Receive, disk, IInv, TypeOK
<1>3. CASE slot[ServerOf[r]] # None
  <2> DEFINE n == [req[r] EXCEPT !.at = "done", !.reply = "already_running"]
  <2>1. req' = [req EXCEPT ![r] = n] /\ slot' = slot
    BY <1>3 DEF Receive, Replied
  <2>2. n \in Request /\ n.at = "done" /\ n.reply # Accepted
    BY <1>1 DEF Request, Replies, Accepted
  <2> HIDE DEF n
  <2>3. Owners' /\ Shaped' /\ Kept' /\ Readings'
    BY <1>1, <1>2, <2>1, <2>2, Bystander
  <2>4. SlotTellsTheRun'
    BY <1>1, <2>1, <2>2, SlotKept
  <2>5. TypeOK'
    <3>1. /\ slot' \in [Servers -> Requests \cup {None}]
          /\ req' \in [Requests -> Request]
      BY <2>1, <2>2 DEF IInv, TypeOK, Request
    <3> QED
      BY <1>2, <3>1, TypesKept
  <2> QED
    BY <2>3, <2>4, <2>5 DEF IInv
<1>4. CASE slot[ServerOf[r]] = None
  <2>1. PICK i \in Ids: /\ slot' = [slot EXCEPT ![ServerOf[r]] = r]
                        /\ req' = [req EXCEPT ![r].at = "reserve", ![r].id = i]
    BY <1>4 DEF Receive
  <2> DEFINE n == [req[r] EXCEPT !.at = "reserve", !.id = i]
  <2>2. req' = [req EXCEPT ![r] = n]
    BY <2>1
  <2>3. /\ n \in Request /\ n.at = "reserve" /\ n.id \in Ids
        /\ n.event = Accepted /\ n.reply = None /\ n.reply # Accepted
    BY <1>1, NoneAssumption DEF Request, Replies, NoneAssumption
  <2> HIDE DEF n
  <2>4. Owners' /\ Shaped' /\ Kept' /\ Readings'
    BY <1>1, <1>2, <2>2, <2>3, Bystander
  <2>5. \A o \in Requests, s \in Servers:
           Active(o, s)' <=> Active(o, s) \/ (o = r /\ s = ServerOf[r])
    BY <1>1, <2>2, <2>3 DEF Active, IInv, TypeOK
  <2>6. ASSUME NEW s \in Servers
        PROVE  {o \in Requests: Active(o, s)'} = {slot'[s]} \ {None}
    <3>1. {o \in Requests: Active(o, s)} = {slot[s]} \ {None}
      BY DEF IInv, SlotTellsTheRun
    <3>2. CASE s = ServerOf[r]
      <4>1. slot'[s] = r /\ r # None
        BY <1>1, <2>1, <3>2, NoneAssumption DEF IInv, TypeOK, NoneAssumption
      <4>2. \A o \in Requests: ~Active(o, s)
        BY <1>4, <3>1, <3>2
      <4>3. \A o \in Requests: Active(o, s)' <=> o = r
        BY <2>5, <3>2, <4>2
      <4> QED
        BY <4>1, <4>3
    <3>3. CASE s # ServerOf[r]
      <4>1. slot'[s] = slot[s]
        BY <1>1, <2>1, <3>3 DEF IInv, TypeOK
      <4>2. \A o \in Requests: Active(o, s)' <=> Active(o, s)
        BY <2>5, <3>3
      <4> QED
        BY <3>1, <4>1, <4>2
    <3> QED
      BY <3>2, <3>3
  <2>7. SlotTellsTheRun'
    BY <2>6 DEF SlotTellsTheRun
  <2>8. TypeOK'
    <3>1. slot' \in [Servers -> Requests \cup {None}]
      BY <1>1, <2>1 DEF IInv, TypeOK
    <3>2. req' \in [Requests -> Request]
      BY <2>2, <2>3 DEF IInv, TypeOK, Request
    <3> QED
      BY <1>2, <3>1, <3>2, TypesKept
  <2> QED
    BY <2>4, <2>7, <2>8 DEF IInv
<1> QED
  BY <1>3, <1>4

(* The creation of the directory makes an owner of a log that is empty.    *)
LEMMA ReserveKeeps ==
    ASSUME IInv, NEW r \in Requests, Reserve(r) PROVE IInv'
<1>1. /\ At(r, "reserve") /\ req[r] \in Request /\ req[r].event = Accepted
      /\ req[r].reply = None /\ ~Owns(r) /\ Id(r) \in Ids
  BY DEF Reserve, At, IInv, TypeOK, Request, Kept, Owns, Owning
<1>2. /\ view' = view /\ log' = log /\ lock' = lock /\ marker' = marker
      /\ faults' = faults /\ faults' \in 0 .. MaxFaults
  BY DEF Reserve, IInv, TypeOK
<1>3. CASE Taken(Id(r))
  <2> DEFINE n == [req[r] EXCEPT !.at = "done", !.reply = "conflict"]
  <2>1. req' = [req EXCEPT ![r] = n] /\ Release(r) /\ dirs' = dirs
    BY <1>3 DEF Reserve, Replied
  <2>2. n \in Request /\ n.at = "done" /\ n.reply # Accepted
    BY <1>1 DEF Request, Replies, Accepted
  <2>3. disk' = disk
    BY <1>2, <2>1 DEF disk
  <2> HIDE DEF n
  <2> QED
    BY <1>1, <1>2, <2>1, <2>2, <2>3, ReserveLeaves
<1>4. CASE ~Taken(Id(r))
  <2> DEFINE n == [req[r] EXCEPT !.at = "mark"]
  <2>1. /\ req' = [req EXCEPT ![r] = n] /\ slot' = slot
        /\ dirs' = dirs \cup {Id(r)} /\ Id(r) \notin dirs
    BY <1>4 DEF Reserve, Goes, Taken
  <2>2. /\ n \in Request /\ n.at = "mark" /\ n.event = Accepted
        /\ n.reply = None /\ n.id = Id(r)
    BY <1>1 DEF Request, Id
  <2>3. req'[r] = n /\ \A o \in Requests: o # r => req'[o] = req[o]
    BY <2>1 DEF IInv, TypeOK
  <2> HIDE DEF n
  <2>4. log[Id(r)] = NoLog /\ lock[Id(r)] = None
    BY <1>1, <2>1 DEF IInv, Shaped
  <2>5. Owns(r)' /\ Id(r)' = Id(r) /\ LogOf(r)' = NoLog /\ LockOf(r)' = None
    BY <2>2, <2>3 DEF Owns, Owning, Id, LogOf, LockOf, Inside, Owned, At, NoLog
  <2>6. \A o \in Requests: o # r => /\ Owns(o)' <=> Owns(o)
                                    /\ Id(o)' = Id(o)
                                    /\ LogOf(o)' = LogOf(o)
                                    /\ LockOf(o)' = LockOf(o)
    BY <2>3 DEF Owns, Id, LogOf, LockOf, At, Owned
  <2>7. \A o \in Requests: Owns(o) => Id(o) # Id(r)
    BY <2>1 DEF IInv, Owners
  <2>8. Owners'
    <3> SUFFICES ASSUME NEW o \in Requests, Owns(o)'
                 PROVE  /\ Id(o)' \in dirs'
                        /\ log'[Id(o)'] = LogOf(o)' /\ lock'[Id(o)'] = LockOf(o)'
                        /\ At(o, "run")' => req'[o].event = Accepted
                        /\ \A p \in Requests: Owns(p)' /\ Id(p)' = Id(o)' => p = o
      BY DEF Owners
    <3>1. CASE o = r
      BY <1>2, <2>1, <2>2, <2>3, <2>4, <2>5, <2>6, <2>7, <3>1 DEF At
    <3>2. CASE o # r
      BY <1>2, <2>1, <2>3, <2>5, <2>6, <2>7, <3>2 DEF IInv, Owners, At
    <3> QED
      BY <3>1, <3>2
  <2>9. Shaped' /\ Readings'
    BY <1>2, <2>1 DEF IInv, Shaped, Readings, Since, Whole
  <2>10. Kept'
    <3> SUFFICES ASSUME NEW o \in Requests
                 PROVE
           /\ req'[o].reply = Accepted =>
                 log'[Id(o)'].lines \in {<<Line(Accepted, o)>>,
                     <<Line(Accepted, o), Line(RunnerFailed, o)>>}
           /\ req'[o].reply = Accepted \/ At(o, "reserve")' \/ Owns(o)'
                 => Id(o)' \in Ids
           /\ At(o, "run")' \/ (Owns(o)' /\ req'[o].event = RunnerFailed)
                 => req'[o].reply = Accepted
           /\ req'[o].at \in {"new", "reserve"}
                 => req'[o].event = Accepted /\ req'[o].reply = None
      BY DEF Kept
    <3>1. CASE o = r
      BY <1>1, <2>2, <2>3, <2>5, <3>1, NoneAssumption
         DEF At, Replies, Accepted, RunnerFailed, NoneAssumption
    <3>2. CASE o # r
      BY <1>2, <2>3, <2>6, <3>2 DEF IInv, Kept, At
    <3> QED
      BY <3>1, <3>2
  <2>11. SlotTellsTheRun'
    BY <1>1, <2>1, <2>2, SlotKept DEF At
  <2>12. TypeOK'
    BY <1>1, <1>2, <2>1, <2>2 DEF IInv, TypeOK, Request
  <2> QED
    BY <2>8, <2>9, <2>10, <2>11, <2>12 DEF IInv
<1> QED
  BY <1>3, <1>4

LEMMA CrashKeeps ==
    ASSUME IInv, NEW s \in Servers, Crash(s) PROVE IInv'
<1>1. /\ disk' = disk /\ view' = view /\ slot' = [slot EXCEPT ![s] = None]
      /\ faults' \in 0 .. MaxFaults
  BY FaultAssumption DEF Crash, IInv, TypeOK, FaultAssumption
<1>2. req \in [Requests -> Request]
  BY DEF IInv, TypeOK, Request
<1>3. /\ req' \in [Requests -> Request]
      /\ \A o \in Requests:
            /\ req'[o].id = req[o].id /\ req'[o].event = req[o].event
            /\ req'[o].reply = req[o].reply
            /\ Active(o, s) => req'[o].at = "dead"
            /\ ~Active(o, s) => req'[o] = req[o]
  BY <1>2 DEF Crash, Request
<1>4. dirs' = dirs /\ log' = log /\ lock' = lock
  BY <1>1 DEF disk
<1>5. \A o \in Requests:
         /\ Id(o)' = Id(o)
         /\ Owns(o)' => Owns(o) /\ req'[o] = req[o]
         /\ At(o, "reserve")' => At(o, "reserve")
         /\ At(o, "run")' => At(o, "run")
         /\ req'[o].at \in {"new", "reserve"} => req[o].at \in {"new", "reserve"}
  BY <1>3 DEF Id, Owns, Owning, At
<1>6. \A o \in Requests: req'[o] = req[o] =>
         LogOf(o)' = LogOf(o) /\ LockOf(o)' = LockOf(o)
  BY DEF LogOf, LockOf, At, Owned
<1>7. Owners'
  <2> SUFFICES ASSUME NEW o \in Requests, Owns(o)'
               PROVE  /\ Id(o)' \in dirs'
                      /\ log'[Id(o)'] = LogOf(o)' /\ lock'[Id(o)'] = LockOf(o)'
                      /\ At(o, "run")' => req'[o].event = Accepted
                      /\ \A p \in Requests: Owns(p)' /\ Id(p)' = Id(o)' => p = o
    BY DEF Owners
  <2>1. Owns(o) /\ Id(o)' = Id(o) /\ req'[o] = req[o]
    BY <1>5
  <2>2. LogOf(o)' = LogOf(o) /\ LockOf(o)' = LockOf(o)
    BY <1>6, <2>1
  <2>3. /\ Id(o) \in dirs /\ log[Id(o)] = LogOf(o) /\ lock[Id(o)] = LockOf(o)
        /\ At(o, "run") => req[o].event = Accepted
        /\ \A p \in Requests: Owns(p) /\ Id(p) = Id(o) => p = o
    BY <2>1 DEF IInv, Owners
  <2> QED
    BY <1>4, <1>5, <2>1, <2>2, <2>3
<1>8. Shaped' /\ Readings'
  BY <1>1, <1>4 DEF IInv, Shaped, Readings, Since, Whole
<1>9. Kept'
  <2> SUFFICES ASSUME NEW o \in Requests
               PROVE
         /\ req'[o].reply = Accepted =>
               log'[Id(o)'].lines \in {<<Line(Accepted, o)>>,
                   <<Line(Accepted, o), Line(RunnerFailed, o)>>}
         /\ req'[o].reply = Accepted \/ At(o, "reserve")' \/ Owns(o)'
               => Id(o)' \in Ids
         /\ At(o, "run")' \/ (Owns(o)' /\ req'[o].event = RunnerFailed)
               => req'[o].reply = Accepted
         /\ req'[o].at \in {"new", "reserve"}
               => req'[o].event = Accepted /\ req'[o].reply = None
    BY DEF Kept
  <2>1. /\ req[o].reply = Accepted =>
              log[Id(o)].lines \in {<<Line(Accepted, o)>>,
                  <<Line(Accepted, o), Line(RunnerFailed, o)>>}
        /\ req[o].reply = Accepted \/ At(o, "reserve") \/ Owns(o)
              => Id(o) \in Ids
        /\ At(o, "run") \/ (Owns(o) /\ req[o].event = RunnerFailed)
              => req[o].reply = Accepted
        /\ req[o].at \in {"new", "reserve"}
              => req[o].event = Accepted /\ req[o].reply = None
    BY DEF IInv, Kept
  <2> QED
    BY <1>3, <1>4, <1>5, <2>1
<1>10. SlotTellsTheRun'
  <2> SUFFICES ASSUME NEW t \in Servers
               PROVE  {o \in Requests: Active(o, t)'} = {slot'[t]} \ {None}
    BY DEF SlotTellsTheRun
  <2>1. {o \in Requests: Active(o, t)} = {slot[t]} \ {None}
    BY DEF IInv, SlotTellsTheRun
  <2>2. CASE t = s
    <3>1. slot'[t] = None
      BY <1>1, <2>2 DEF IInv, TypeOK
    <3>2. \A o \in Requests: ~Active(o, t)'
      BY <1>3, <2>2 DEF Active
    <3> QED
      BY <3>1, <3>2
  <2>3. CASE t # s
    <3>1. slot'[t] = slot[t]
      BY <1>1, <2>3 DEF IInv, TypeOK
    <3>2. \A o \in Requests: Active(o, t)' <=> Active(o, t)
      BY <1>3, <2>3 DEF Active
    <3> QED
      BY <2>1, <3>1, <3>2
  <2> QED
    BY <2>2, <2>3
<1>11. TypeOK'
  <2>1. slot' \in [Servers -> Requests \cup {None}]
    BY <1>1 DEF IInv, TypeOK
  <2> QED
    BY <1>1, <1>3, <2>1, TypesKept
<1> QED
  BY <1>7, <1>8, <1>9, <1>10, <1>11 DEF IInv

-----------------------------------------------------------------------------
(* The steps of a reader.                                                  *)

LEMMA ReaderKeeps ==
    ASSUME IInv, NEW q \in Readers, Read(q) PROVE IInv'
<1>1. /\ slot' = slot /\ req' = req /\ dirs' = dirs /\ marker' = marker
      /\ log' = log /\ lock' = lock /\ faults' = faults
  BY DEF Read, FirstProbe, ReadFile, SecondProbe, Match, disk
<1>2. /\ view \in [Readers -> Reader] /\ log \in [Ids -> Logs]
      /\ view[q].at \in {"read", "probe", "match"} => view[q].id \in Ids
      /\ view[q].at \in {"probe", "match"} =>
            view[q].seen # NoLog /\ Since(view[q].seen, log[view[q].id])
  BY DEF IInv, TypeOK, Reader, Readings
<1>3. PICK n: /\ n \in Reader /\ view' = [view EXCEPT ![q] = n]
              /\ n.at \in {"read", "probe", "match"} => n.id \in Ids
              /\ n.at \in {"probe", "match"} =>
                    n.seen # NoLog /\ Since(n.seen, log[n.id])
              /\ n.at = "match" /\ n.seen.torn =>
                    Len(n.seen.lines) < Len(log[n.id].lines)
  <2>1. ASSUME NEW a \in Answers, Says(q, a)
        PROVE  /\ [view[q] EXCEPT !.at = "done", !.answer = a] \in Reader
               /\ view' = [view EXCEPT ![q] =
                              [view[q] EXCEPT !.at = "done", !.answer = a]]
               /\ [view[q] EXCEPT !.at = "done", !.answer = a].at = "done"
    BY <1>2, <2>1 DEF Says, Reader
  <2>2. CASE FirstProbe(q)
    <3>1. PICK i \in Ids: view' = [view EXCEPT ![q] =
              IF i \notin dirs THEN [@ EXCEPT !.at = "done", !.answer = "missing"]
              ELSE IF lock[i] # None
                   THEN [@ EXCEPT !.at = "done", !.answer = "unavailable"]
              ELSE [@ EXCEPT !.at = "read", !.id = i]]
      BY <2>2 DEF FirstProbe
    <3>2. CASE i \notin dirs
      <4>1. Says(q, "missing") /\ "missing" \in Answers
        BY <3>1, <3>2 DEF Says, Answers
      <4> QED
        BY <2>1, <4>1
    <3>3. CASE i \in dirs /\ lock[i] # None
      <4>1. Says(q, "unavailable") /\ "unavailable" \in Answers
        BY <3>1, <3>3 DEF Says, Answers
      <4> QED
        BY <2>1, <4>1
    <3>4. CASE i \in dirs /\ lock[i] = None
      <4> DEFINE n == [view[q] EXCEPT !.at = "read", !.id = i]
      <4>1. n \in Reader /\ n.at = "read" /\ n.id = i
        BY <1>2 DEF Reader
      <4>2. view' = [view EXCEPT ![q] = n]
        BY <3>1, <3>4
      <4> HIDE DEF n
      <4> QED
        BY <4>1, <4>2
    <3> QED
      BY <3>2, <3>3, <3>4
  <2>3. CASE ReadFile(q)
    <3>1. CASE log[view[q].id] = NoLog
      <4>1. Says(q, "missing") /\ "missing" \in Answers
        BY <2>3, <3>1 DEF ReadFile, Answers
      <4> QED
        BY <2>1, <4>1
    <3>2. CASE log[view[q].id] # NoLog
      <4> DEFINE n == [view[q] EXCEPT !.at = "probe", !.seen = log[view[q].id]]
      <4>1. log[view[q].id] \in Logs
        BY <1>2, <2>3 DEF ReadFile
      <4>2. /\ n \in Reader /\ n.at = "probe" /\ n.id = view[q].id
            /\ n.seen = log[view[q].id] /\ n.id \in Ids
        BY <1>2, <2>3, <4>1 DEF Reader, ReadFile
      <4>3. view' = [view EXCEPT ![q] = n]
        BY <2>3, <3>2 DEF ReadFile
      <4>4. Since(log[view[q].id], log[view[q].id])
        BY <4>1 DEF Since
      <4> HIDE DEF n
      <4> QED
        BY <3>2, <4>2, <4>3, <4>4
    <3> QED
      BY <3>1, <3>2
  <2>4. CASE SecondProbe(q)
    <3>1. view[q].at = "probe"
      BY <2>4 DEF SecondProbe
    <3>2. CASE lock[view[q].id] # None
      <4>1. Says(q, "unavailable") /\ "unavailable" \in Answers
        BY <2>4, <3>2 DEF SecondProbe, Answers
      <4> QED
        BY <2>1, <4>1
    <3>3. CASE lock[view[q].id] = None
      <4> DEFINE n == [view[q] EXCEPT !.at = "match"]
      <4>1. /\ n \in Reader /\ n.at = "match" /\ n.id = view[q].id
            /\ n.seen = view[q].seen
        BY <1>2 DEF Reader
      <4>2. view' = [view EXCEPT ![q] = n]
        BY <2>4, <3>3 DEF SecondProbe
      <4>3. view[q].id \in Ids /\ ~log[view[q].id].torn
        BY <1>2, <3>1, <3>3 DEF IInv, Shaped
      <4>4. view[q].seen.torn =>
               Len(view[q].seen.lines) < Len(log[view[q].id].lines)
        BY <1>2, <3>1, <4>3 DEF Since
      <4> HIDE DEF n
      <4> QED
        BY <1>2, <3>1, <4>1, <4>2, <4>3, <4>4
    <3> QED
      BY <3>2, <3>3
  <2>5. CASE Match(q)
    <3>1. PICK a \in Answers: Says(q, a)
      BY <2>5 DEF Match, Outcome, Answers, RunnerFailed
    <3> QED
      BY <2>1, <3>1
  <2> QED
    BY <2>2, <2>3, <2>4, <2>5 DEF Read
<1>4. /\ view' \in [Readers -> Reader] /\ view'[q] = n
      /\ \A p \in Readers: p # q => view'[p] = view[p]
  BY <1>2, <1>3
<1>5. TypeOK'
  BY <1>1, <1>4 DEF IInv, TypeOK, Reader
<1>6. SlotTellsTheRun' /\ Shaped'
  BY <1>1 DEF IInv, SlotTellsTheRun, Active, Shaped, Whole
<1>7. Owners' /\ Kept'
  BY <1>1 DEF IInv, Owners, Owns, LogOf, LockOf, Owned, Id, At, Kept
<1>8. Readings'
  <2> SUFFICES ASSUME NEW p \in Readers
               PROVE
         /\ view'[p].at \in {"read", "probe", "match"} => view'[p].id \in Ids
         /\ view'[p].at \in {"probe", "match"} =>
               view'[p].seen # NoLog /\ Since(view'[p].seen, log[view'[p].id])
         /\ view'[p].at = "match" /\ view'[p].seen.torn =>
               Len(view'[p].seen.lines) < Len(log[view'[p].id].lines)
    BY <1>1 DEF Readings, Since
  <2>1. CASE p = q
    BY <1>3, <1>4, <2>1
  <2>2. CASE p # q
    BY <1>4, <2>2 DEF IInv, Readings
  <2> QED
    BY <2>1, <2>2
<1> QED
  BY <1>5, <1>6, <1>7, <1>8 DEF IInv

-----------------------------------------------------------------------------
LEMMA NextIInv == ASSUME IInv, [Next]_vars PROVE IInv'
<1>1. ASSUME NEW r \in Requests, Receive(r) PROVE IInv'
  BY <1>1, ReceiveKeeps
<1>2. ASSUME NEW r \in Requests, Step(r) PROVE IInv'
  <2>1. Stopped(r) => Working(r) /\ Quits(r) /\ faults' \in 0 .. MaxFaults
    BY DEF Stopped, Working, At, IInv, TypeOK
  <2> QED
    BY <1>2, <2>1, ReserveKeeps, MovesKeep, LockKeeps, WriteKeeps, SyncKeeps,
       UnlockKeeps, RunKeeps, QuitsKeeps DEF Step
<1>3. ASSUME NEW r \in Requests, Fail(r) PROVE IInv'
  <2>1. faults' \in 0 .. MaxFaults
    BY <1>3, FaultAssumption DEF Fail, IInv, TypeOK, FaultAssumption
  <2> QED
    BY <1>3, <2>1, QuitsKeeps DEF Fail
<1>4. ASSUME NEW s \in Servers, Crash(s) PROVE IInv'
  BY <1>4, CrashKeeps
<1>5. ASSUME NEW q \in Readers, Read(q) PROVE IInv'
  BY <1>5, ReaderKeeps
<1>6. ASSUME UNCHANGED vars PROVE IInv'
  <2>1. /\ slot' = slot /\ req' = req /\ dirs' = dirs /\ marker' = marker
        /\ log' = log /\ lock' = lock /\ faults' = faults /\ view' = view
    BY <1>6 DEF vars
  <2>2. TypeOK' /\ SlotTellsTheRun' /\ Shaped'
    BY <2>1 DEF IInv, TypeOK, SlotTellsTheRun, Active, Shaped, Whole
  <2>3. Owners' /\ Kept' /\ Readings'
    BY <2>1 DEF IInv, Owners, Owns, LogOf, LockOf, Owned, Id, At, Kept,
                Readings, Since
  <2> QED
    BY <2>2, <2>3 DEF IInv
<1> QED
  BY <1>1, <1>2, <1>3, <1>4, <1>5, <1>6 DEF Next

LEMMA IInvAlways == Spec => []IInv
<1>1. Init => IInv
  BY InitIInv
<1>2. IInv /\ [Next]_vars => IInv'
  BY NextIInv
<1> QED
  BY <1>1, <1>2, PTL DEF Spec

(* Every variable keeps its type.                                          *)
THEOREM TypesAlways == Spec => []TypeOK
<1>1. IInv => TypeOK
  BY DEF IInv
<1> QED
  BY <1>1, IInvAlways, PTL

(* The slot of a server names the one request it works on or runs.         *)
THEOREM SlotAlwaysTellsTheRun == Spec => []SlotTellsTheRun
<1>1. IInv => SlotTellsTheRun
  BY DEF IInv
<1> QED
  BY <1>1, IInvAlways, PTL

(* A runner is dispatched for no other request than the one whose          *)
(* acceptance opens the log of its identity, whatever servers choose the   *)
(* same identity, fail and crash.                                          *)
THEOREM RunsAlwaysAccepted == Spec => []RunsAreAccepted
<1>1. IInv => RunsAreAccepted
  <2> SUFFICES ASSUME IInv, NEW r \in Requests, req[r].reply = Accepted
               PROVE  /\ log[Id(r)].lines # <<>>
                      /\ log[Id(r)].lines[1] = Line(Accepted, r)
                      /\ \A m \in DOMAIN log[Id(r)].lines: log[Id(r)].lines[m].by = r
                      /\ At(r, "run") => lock[Id(r)] = None /\ ~log[Id(r)].torn
    BY DEF RunsAreAccepted
  <2> DEFINE lines == log[Id(r)].lines
             a == Line(Accepted, r)
             b == Line(RunnerFailed, r)
  <2>1. lines = <<a>> \/ lines = <<a, b>>
    BY DEF IInv, Kept
  <2>2. a.by = r /\ b.by = r
    BY DEF Line
  <2>3. At(r, "run") => lock[Id(r)] = None /\ ~log[Id(r)].torn
    <3> SUFFICES ASSUME At(r, "run")
                 PROVE  lock[Id(r)] = None /\ ~log[Id(r)].torn
      OBVIOUS
    <3>1. Owns(r)
      BY DEF At, Owns, Owning
    <3>2. log[Id(r)] = LogOf(r) /\ lock[Id(r)] = LockOf(r)
      BY <3>1, OwnerKnows
    <3> QED
      BY <3>2 DEF LogOf, LockOf, Inside, At
  <2> HIDE DEF lines, a, b
  <2>4. /\ lines # <<>> /\ lines[1] = a
        /\ \A m \in DOMAIN lines: lines[m].by = r
    <3>1. CASE lines = <<a>>
      BY <2>2, <3>1
    <3>2. CASE lines = <<a, b>>
      BY <2>2, <3>2
    <3> QED
      BY <2>1, <3>1, <3>2
  <2> QED
    BY <2>3, <2>4 DEF lines, a
<1> QED
  BY <1>1, IInvAlways, PTL

(* What a whole log that holds anything is read as.                        *)
LEMMA WholeOutcome ==
    ASSUME NEW l \in Logs, Whole(l.lines), ~l.torn, l # NoLog
    PROVE  Outcome(l) # "invalid"
<1> DEFINE events == [n \in DOMAIN l.lines |-> l.lines[n].event]
<1>1. l.lines # <<>>
  BY DEF Logs, NoLog
<1>2. PICK r \in Requests:
         \/ l.lines = <<Line(Accepted, r)>>
         \/ l.lines = <<Line(Accepted, r), Line(RunnerFailed, r)>>
  BY <1>1 DEF Whole
<1>3. Line(Accepted, r).event = Accepted /\ Line(RunnerFailed, r).event = RunnerFailed
  BY DEF Line
<1>4. CASE l.lines = <<Line(Accepted, r)>>
  <2> DEFINE a == Line(Accepted, r)
  <2>1. l.lines = <<a>> /\ a.event = Accepted
    BY <1>3, <1>4
  <2> HIDE DEF a
  <2>2. events = <<Accepted>>
    BY <2>1
  <2> QED
    BY <2>2 DEF Outcome
<1>5. CASE l.lines = <<Line(Accepted, r), Line(RunnerFailed, r)>>
  <2> DEFINE a == Line(Accepted, r)
             b == Line(RunnerFailed, r)
  <2>1. l.lines = <<a, b>> /\ a.event = Accepted /\ b.event = RunnerFailed
    BY <1>3, <1>5
  <2> HIDE DEF a, b
  <2>2. events = <<Accepted, RunnerFailed>>
    BY <2>1
  <2>3. <<Accepted, RunnerFailed>> # <<Accepted>>
    OBVIOUS
  <2> QED
    BY <2>2, <2>3 DEF Outcome, RunnerFailed
<1> QED
  BY <1>2, <1>4, <1>5

(* A reader without a lock answers with what the log holds when it looks   *)
(* last, and never meets a line in the making.                             *)
THEOREM ReportsAlwaysCurrent == Spec => ReportsAreCurrent
<1> DEFINE Current(q) ==
       view[q].answer = None /\ view'[q].answer \notin {None, "missing", "unavailable"}
       => /\ view'[q].answer = Outcome(log[view[q].id])
          /\ view'[q].answer # "invalid"
<1>1. ASSUME IInv, Next, NEW q \in Readers PROVE Current(q)
  <2>1. view \in [Readers -> Reader] /\ log \in [Ids -> Logs]
    BY <1>1 DEF IInv, TypeOK, Reader
  <2>2. CASE view'[q] = view[q]
    BY <2>2
  <2>3. CASE view'[q] # view[q]
    <3>1. Read(q)
      <4>1. view' # view
        BY <2>3
      <4>2. \A r \in Requests: ~Receive(r) /\ ~Step(r) /\ ~Fail(r)
        BY <4>1 DEF Receive, Step, Reserve, Mark, Fill, Persist, Lock, Check,
           Write, Sync, Unlock, Resolve, Reject, Stopped, Fail, Quits
      <4>3. \A s \in Servers: ~Crash(s)
        BY <4>1 DEF Crash
      <4>4. PICK p \in Readers: Read(p)
        BY <1>1, <4>2, <4>3 DEF Next
      <4>5. p = q
        BY <2>1, <2>3, <4>4 DEF Read, FirstProbe, ReadFile, SecondProbe, Match, Says
      <4> QED
        BY <4>4, <4>5
    <3>2. CASE FirstProbe(q)
      BY <1>1, <2>1, <3>2 DEF FirstProbe, Reader
    <3>3. CASE ReadFile(q) \/ SecondProbe(q)
      BY <1>1, <2>1, <3>3 DEF ReadFile, SecondProbe, Says, Reader
    <3>4. CASE Match(q)
      <4>1. /\ view[q].at = "match"
            /\ view'[q].answer = IF StillMatches(q) THEN Outcome(view[q].seen)
                                 ELSE "unavailable"
        BY <1>1, <2>1, <3>4 DEF Match, Says, Reader
      <4>2. CASE ~StillMatches(q)
        BY <4>1, <4>2
      <4>3. CASE StillMatches(q)
        <5> DEFINE l == log[view[q].id]
        <5>1. view[q].seen = l /\ view'[q].answer = Outcome(l)
          BY <4>1, <4>3 DEF StillMatches
        <5>2. /\ view[q].id \in Ids /\ l # NoLog
              /\ view[q].seen.torn => Len(view[q].seen.lines) < Len(l.lines)
          BY <1>1, <4>1, <5>1 DEF IInv, Readings
        <5>3. l \in Logs /\ Whole(l.lines)
          BY <1>1, <2>1, <5>2 DEF IInv, Shaped
        <5>4. ~l.torn
          BY <5>1, <5>2, <5>3 DEF Logs
        <5>5. Outcome(l) # "invalid"
          BY <5>2, <5>3, <5>4, WholeOutcome
        <5> QED
          BY <5>1, <5>5
      <4> QED
        BY <4>2, <4>3
    <3> QED
      BY <3>1, <3>2, <3>3, <3>4 DEF Read
  <2> QED
    BY <2>2, <2>3
<1>2. IInv /\ [Next]_vars =>
         [\A q \in Readers:
             view[q].answer = None /\ view[q]'.answer \notin {None, "missing", "unavailable"}
             => /\ view[q]'.answer = Outcome(log[view[q].id])
                /\ view[q]'.answer # "invalid"]_vars
  BY <1>1
<1> QED
  BY <1>2, IInvAlways, PTL DEF Spec, ReportsAreCurrent

=============================================================================
