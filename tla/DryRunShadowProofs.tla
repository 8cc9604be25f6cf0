-------------------------- MODULE DryRunShadowProofs --------------------------
(***************************************************************************)
(* That the handles of a lineage form a chain, that an order is validated  *)
(* once in it and that an approval is spent once, that the audit tells     *)
(* every record, and that the router implements ShadowOrders, for any      *)
(* number of evaluations, scenarios, handles and approvals.                *)
(***************************************************************************)
EXTENDS DryRunShadowOrders, SequenceTheorems, FiniteSetTheorems,
        WellFoundedInduction, TLAPS

(* A lineage is named after its first handle, and only its last one is     *)
(* active: whoever mints continues the longest audit.                      *)
LastIsActive ==
  \A i, j \in DOMAIN handles :
    i < j /\ handles[i].lineage = handles[j].lineage => ~handles[i].active

NamedAfterFirst == \A i \in DOMAIN handles : handles[i].lineage <= i

Lineages == NamedAfterFirst /\ LastIsActive /\ LineageIsLinear

(* What was validated is reserved for whoever still acts in the lineage.   *)
StillReserved ==
  \A n \in DOMAIN routed :
    /\ routed[n].lineage <= Len(handles)
    /\ \A h \in DOMAIN handles :
         /\ routed[n].outcome = "reserved"
         /\ handles[h].lineage = routed[n].lineage
         /\ handles[h].active
         => Reserved(handles[h], routed[n].identity)

IInv == TypeOK /\ Lineages /\ StillReserved /\ ValidatedOnce /\ ApprovalSpentOnce

Approval == [scenario : Scenarios, evaluation : Evaluations, active : BOOLEAN]

-----------------------------------------------------------------------------
(* Prefixes and appended elements.                                         *)

LEMMA PrefixPointwise ==
  ASSUME NEW S, NEW s \in Seq(S), NEW t \in Seq(S)
  PROVE  IsPrefix(s, t) <=> /\ Len(s) <= Len(t)
                            /\ \A n \in 1 .. Len(s) : s[n] = t[n]
<1>1. Len(s) \in Nat /\ Len(t) \in Nat
  OBVIOUS
<1>2. SubSeq(s, 1, Len(s)) = s
  BY SubSeqFull
<1>3. ASSUME Len(s) <= Len(t)
      PROVE  /\ SubSeq(t, 1, Len(s)) \in Seq(S)
             /\ Len(SubSeq(t, 1, Len(s))) = Len(s)
             /\ \A n \in 1 .. Len(s) : SubSeq(t, 1, Len(s))[n] = t[n]
  BY <1>1, <1>3
<1>4. ASSUME Len(s) <= Len(t)
      PROVE  s = SubSeq(t, 1, Len(s)) <=> \A n \in 1 .. Len(s) : s[n] = t[n]
  <2> DEFINE u == SubSeq(t, 1, Len(s))
  <2>1. u \in Seq(S) /\ Len(u) = Len(s) /\ \A n \in 1 .. Len(s) : u[n] = t[n]
    BY <1>3, <1>4
  <2> HIDE DEF u
  <2>2. (\A n \in 1 .. Len(s) : s[n] = u[n]) => s = u
    BY <2>1, SeqEqual
  <2>3. s = u <=> \A n \in 1 .. Len(s) : s[n] = t[n]
    BY <2>1, <2>2
  <2> QED
    BY <2>3 DEF u
<1> QED
  BY <1>2, <1>4 DEF IsPrefix

LEMMA Appended ==
  ASSUME NEW S, NEW s \in Seq(S), NEW e \in S
  PROVE  /\ Append(s, e) \in Seq(S) /\ Len(Append(s, e)) = Len(s) + 1
         /\ Len(s) \in Nat /\ DOMAIN s = 1 .. Len(s)
         /\ DOMAIN Append(s, e) = 1 .. Len(s) + 1
         /\ \A n \in 1 .. Len(s) : Append(s, e)[n] = s[n]
         /\ Append(s, e)[Len(s) + 1] = e
         /\ Last(Append(s, e)) = e
  BY AppendProperties DEF Last

LEMMA AppendedContinues ==
  ASSUME NEW S, NEW r \in Seq(S), NEW s \in Seq(S), NEW e \in S, IsPrefix(r, s)
  PROVE  IsPrefix(r, Append(s, e))
<1>1. Append(s, e) \in Seq(S) /\ Len(Append(s, e)) = Len(s) + 1
      /\ \A n \in 1 .. Len(s) : Append(s, e)[n] = s[n]
  BY Appended
<1>2. Len(r) <= Len(s) /\ \A n \in 1 .. Len(r) : r[n] = s[n]
  BY PrefixPointwise
<1>3. Len(r) <= Len(Append(s, e)) /\ \A n \in 1 .. Len(r) : r[n] = Append(s, e)[n]
  BY <1>1, <1>2
<1> QED
  BY <1>1, <1>3, PrefixPointwise

LEMMA PrefixTransitive ==
  ASSUME NEW S, NEW r \in Seq(S), NEW s \in Seq(S), NEW t \in Seq(S),
         IsPrefix(r, s), IsPrefix(s, t)
  PROVE  IsPrefix(r, t)
<1>1. /\ Len(r) <= Len(s) /\ \A n \in 1 .. Len(r) : r[n] = s[n]
      /\ Len(s) <= Len(t) /\ \A n \in 1 .. Len(s) : s[n] = t[n]
  BY PrefixPointwise
<1>2. Len(r) <= Len(t) /\ \A n \in 1 .. Len(r) : r[n] = t[n]
  BY <1>1
<1> QED
  BY <1>2, PrefixPointwise

LEMMA PrefixReflexive ==
  ASSUME NEW S, NEW s \in Seq(S) PROVE IsPrefix(s, s)
  BY PrefixPointwise

-----------------------------------------------------------------------------
(* Minting.                                                                *)

LEMMA SnapshotFields ==
  ASSUME TypeOK, NEW h \in DOMAIN handles
  PROVE  /\ handles[h] \in Snapshots
         /\ handles[h].audit \in Seq(Events)
         /\ handles[h].lineage \in Nat
         /\ handles[h].records \in [Identities -> Records]
         /\ handles[h].tombstones \in [Identities -> Nat]
<1>1. handles \in Seq(Snapshots)
  BY DEF TypeOK
<1>2. handles[h] \in Snapshots
  BY <1>1
<1> QED
  BY <1>2 DEF Snapshots

Results == [approval : DOMAIN approvals, lineage : Nat, identity : Identities,
            outcome : {"reserved", "duplicateRejected"}]

LEMMA ResultFields ==
  ASSUME TypeOK
  PROVE  /\ routed \in Seq(Results)
         /\ \A n \in DOMAIN routed :
              /\ routed[n] \in Results
              /\ routed[n].approval \in DOMAIN approvals
              /\ routed[n].lineage \in Nat
              /\ routed[n].identity \in Identities
<1>1. routed \in Seq(Results)
  BY DEF TypeOK, Results
<1>2. \A n \in DOMAIN routed : routed[n] \in Results
  BY <1>1
<1> QED
  BY <1>1, <1>2 DEF Results

LEMMA Minted ==
  ASSUME TypeOK, NEW h \in DOMAIN handles, NEW next \in Snapshots,
         handles' = Mint(h, next)
  PROVE  /\ handles' \in Seq(Snapshots) /\ Len(handles') = Len(handles) + 1
         /\ DOMAIN handles' = 1 .. Len(handles) + 1 /\ Len(handles) \in Nat
         /\ DOMAIN handles = 1 .. Len(handles)
         /\ handles'[Len(handles) + 1] = next
         /\ \A i \in DOMAIN handles :
              /\ handles'[i].lineage = handles[i].lineage
              /\ handles'[i].audit = handles[i].audit
              /\ handles'[i].tombstones = handles[i].tombstones
              /\ handles'[i].records = handles[i].records
              /\ handles'[i].active => handles[i].active /\ i # h
<1> DEFINE spent == [handles EXCEPT ![h].active = FALSE]
<1>1. handles \in Seq(Snapshots) /\ handles[h] \in Snapshots
  BY DEF TypeOK
<1>2. [handles[h] EXCEPT !.active = FALSE] \in Snapshots
  BY <1>1 DEF Snapshots
<1>3. /\ spent \in Seq(Snapshots) /\ Len(spent) = Len(handles)
      /\ \A i \in 1 .. Len(handles) : spent[i] =
           IF i = h THEN [handles[h] EXCEPT !.active = FALSE] ELSE handles[i]
  BY <1>1, <1>2, ExceptSeq
<1>4. \A i \in 1 .. Len(handles) :
        /\ spent[i].lineage = handles[i].lineage
        /\ spent[i].audit = handles[i].audit
        /\ spent[i].tombstones = handles[i].tombstones
        /\ spent[i].records = handles[i].records
        /\ spent[i].active => handles[i].active /\ i # h
  BY <1>1, <1>3 DEF Snapshots
<1> HIDE DEF spent
<1>5. /\ Append(spent, next) \in Seq(Snapshots)
      /\ Len(Append(spent, next)) = Len(handles) + 1
      /\ DOMAIN Append(spent, next) = 1 .. Len(handles) + 1 /\ Len(handles) \in Nat
      /\ DOMAIN handles = 1 .. Len(handles)
      /\ Append(spent, next)[Len(handles) + 1] = next
      /\ \A i \in 1 .. Len(handles) : Append(spent, next)[i] = spent[i]
  BY <1>1, <1>3, Appended
<1> QED
  BY <1>4, <1>5 DEF Mint, spent

LEMMA LoggedTyped ==
  ASSUME TypeOK, NEW h \in DOMAIN handles, NEW id \in Identities,
         NEW event \in Statuses \cup {"duplicateRejected"}
  PROVE  /\ Logged(h, id, event) \in Seq(Events)
         /\ IsPrefix(handles[h].audit, Logged(h, id, event))
         /\ Last(Logged(h, id, event)).event = event
         /\ Len(handles[h].audit) \in Nat
<1> DEFINE e == [identity |-> id, event |-> event,
                 from |-> handles[h].records[id].status]
<1>1. handles[h].audit \in Seq(Events) /\ handles[h].records[id] \in Records
  BY SnapshotFields
<1>2. e \in Events /\ e.event = event
  BY <1>1 DEF Events, Records
<1>3. Logged(h, id, event) = Append(handles[h].audit, e)
  BY DEF Logged
<1> HIDE DEF e
<1>4. IsPrefix(handles[h].audit, handles[h].audit)
  BY <1>1, PrefixReflexive
<1> QED
  BY <1>1, <1>2, <1>3, <1>4, Appended, AppendedContinues

(* A reservation continues the audit and never lifts a tombstone.          *)
LEMMA Reservation ==
  ASSUME TypeOK, NEW h \in DOMAIN handles, NEW id \in Identities
  PROVE  LET next == SnapshotAfterReserve(h, id) IN
         /\ next \in Snapshots
         /\ next.lineage = handles[h].lineage
         /\ IsPrefix(handles[h].audit, next.audit)
         /\ Reserved(next, id)
         /\ \A other \in Identities :
              Reserved(handles[h], other) => Reserved(next, other)
         /\ ReserveOutcome(h, id) =
              IF Reserved(handles[h], id) THEN "duplicateRejected" ELSE "reserved"
<1>1. handles[h] \in Snapshots
  BY DEF TypeOK
<1>2. CASE Reserved(handles[h], id)
  <2> DEFINE log == Logged(h, id, "duplicateRejected")
             next == [handles[h] EXCEPT !.audit = log]
  <2>1. /\ log \in Seq(Events) /\ IsPrefix(handles[h].audit, log)
        /\ Last(log).event = "duplicateRejected"
    BY LoggedTyped
  <2>2. SnapshotAfterReserve(h, id) = next
    BY <1>2 DEF SnapshotAfterReserve
  <2> HIDE DEF log
  <2>3. /\ next \in Snapshots /\ next.lineage = handles[h].lineage
        /\ next.audit = log /\ next.tombstones = handles[h].tombstones
    BY <1>1, <2>1 DEF Snapshots
  <2> HIDE DEF next
  <2> QED
    BY <1>2, <2>1, <2>2, <2>3 DEF Reserved, ReserveOutcome
<1>3. CASE ~Reserved(handles[h], id)
  <2> DEFINE log == Logged(h, id, "reserved")
             next == [handles[h] EXCEPT
                        !.records[id] = [status |-> "reserved", version |-> 1],
                        !.tombstones[id] = Len(handles[h].audit) + 1,
                        !.audit = log]
  <2>1. /\ log \in Seq(Events) /\ IsPrefix(handles[h].audit, log)
        /\ Last(log).event = "reserved" /\ Len(handles[h].audit) \in Nat
    BY LoggedTyped DEF Statuses
  <2>2. SnapshotAfterReserve(h, id) = next
    BY <1>3 DEF SnapshotAfterReserve
  <2>3. [status |-> "reserved", version |-> 1] \in Records
    BY DEF Records, Statuses
  <2> DEFINE recs == [handles[h].records EXCEPT
                        ![id] = [status |-> "reserved", version |-> 1]]
             tombs == [handles[h].tombstones EXCEPT
                        ![id] = Len(handles[h].audit) + 1]
  <2>4. next = [handles[h] EXCEPT !.records = recs, !.tombstones = tombs, !.audit = log]
    OBVIOUS
  <2>5. recs \in [Identities -> Records] /\ tombs \in [Identities -> Nat]
    BY <2>1, <2>3, SnapshotFields
  <2> HIDE DEF log, recs, tombs, next
  <2>6. /\ next \in Snapshots /\ next.lineage = handles[h].lineage
        /\ next.audit = log /\ next.tombstones = tombs
    BY <1>1, <2>1, <2>4, <2>5 DEF Snapshots
  <2>7. /\ next \in Snapshots /\ next.lineage = handles[h].lineage
        /\ next.audit = log
        /\ next.tombstones = [handles[h].tombstones EXCEPT ![id] =
                                Len(handles[h].audit) + 1]
    BY <2>6 DEF tombs
  <2>8. handles[h].tombstones \in [Identities -> Nat]
    BY <1>1 DEF Snapshots
  <2> HIDE DEF next
  <2>9. next.tombstones[id] # 0 /\ \A other \in Identities :
           handles[h].tombstones[other] # 0 => next.tombstones[other] # 0
    BY <2>1, <2>7, <2>8
  <2> QED
    BY <1>3, <2>1, <2>2, <2>7, <2>9 DEF Reserved, ReserveOutcome
<1> QED
  BY <1>2, <1>3

(* The lineages after the minting of a snapshot that continues its handle. *)
LEMMA MintKeepsLineages ==
  ASSUME TypeOK, Lineages, NEW h \in DOMAIN handles, Handle(h),
         NEW next \in Snapshots, handles' = Mint(h, next),
         next.lineage = handles[h].lineage, IsPrefix(handles[h].audit, next.audit)
  PROVE  Lineages'
<1> DEFINE new == Len(handles) + 1
<1>1. /\ handles' \in Seq(Snapshots) /\ DOMAIN handles' = 1 .. new
      /\ Len(handles) \in Nat /\ DOMAIN handles = 1 .. Len(handles)
      /\ handles'[new] = next
      /\ \A i \in DOMAIN handles :
           /\ handles'[i].lineage = handles[i].lineage
           /\ handles'[i].audit = handles[i].audit
           /\ handles'[i].active => handles[i].active /\ i # h
  BY Minted
<1>2. handles[h].active /\ h \in 1 .. Len(handles)
  BY <1>1 DEF Handle
<1>3. \A i \in 1 .. new : i = new \/ i \in DOMAIN handles
  BY <1>1
<1>4. \A i \in DOMAIN handles : handles[i].lineage = handles[h].lineage => i <= h
  BY <1>1, <1>2 DEF Lineages, LastIsActive
<1>5. NamedAfterFirst'
  <2> SUFFICES ASSUME NEW i \in 1 .. new PROVE handles'[i].lineage <= i
    BY <1>1 DEF NamedAfterFirst
  <2>1. handles[h].lineage <= h /\ handles[h].lineage \in Nat
    BY <1>2 DEF Lineages, NamedAfterFirst, TypeOK, Snapshots
  <2> QED
    BY <1>1, <1>2, <1>3, <2>1 DEF Lineages, NamedAfterFirst
<1>6. ASSUME NEW i \in 1 .. new, NEW j \in 1 .. new, i < j,
             handles'[i].lineage = handles'[j].lineage
      PROVE  ~handles'[i].active /\ IsPrefix(handles'[i].audit, handles'[j].audit)
  <2>1. i \in DOMAIN handles
    BY <1>1, <1>6
  <2>2. CASE j = new
    <3>1. i <= h
      BY <1>1, <1>4, <1>6, <2>1, <2>2
    <3>2. ~handles'[i].active
      BY <1>1, <1>2, <1>6, <2>1, <2>2, <3>1 DEF Lineages, LastIsActive
    <3>3. IsPrefix(handles[i].audit, handles[h].audit)
      <4>1. CASE i = h
        BY <2>1, <4>1, SnapshotFields, PrefixReflexive
      <4>2. CASE i # h
        BY <1>1, <1>2, <1>6, <2>1, <2>2, <3>1, <4>2 DEF Lineages, LineageIsLinear
      <4> QED
        BY <4>1, <4>2
    <3>4. IsPrefix(handles[i].audit, next.audit)
      <4>1. /\ handles[i].audit \in Seq(Events) /\ handles[h].audit \in Seq(Events)
            /\ next.audit \in Seq(Events)
        <5>1. next.audit \in Seq(Events)
          BY DEF Snapshots
        <5> QED
          BY <2>1, <5>1, SnapshotFields
      <4> QED
        BY <3>3, <4>1, PrefixTransitive
    <3> QED
      BY <1>1, <2>1, <2>2, <3>2, <3>4
  <2>3. CASE j # new
    <3>1. j \in DOMAIN handles
      BY <1>3, <2>3
    <3> QED
      BY <1>1, <1>6, <2>1, <3>1 DEF Lineages, LastIsActive, LineageIsLinear
  <2> QED
    BY <2>2, <2>3
<1> QED
  BY <1>1, <1>5, <1>6 DEF Lineages, LastIsActive, LineageIsLinear

-----------------------------------------------------------------------------
(* The steps.                                                              *)

LEMMA CreateKeeps == ASSUME IInv, Create PROVE IInv'
<1> DEFINE fresh == [lineage |-> Len(handles) + 1, active |-> TRUE, audit |-> <<>>,
                     records |-> [id \in Identities |-> NoRecord],
                     tombstones |-> [id \in Identities |-> 0]]
           new == Len(handles) + 1
<1>1. handles \in Seq(Snapshots) /\ Len(handles) \in Nat
  BY DEF IInv, TypeOK
<1>2. /\ fresh \in Snapshots /\ fresh.lineage = new
  BY <1>1 DEF Snapshots, Records, Statuses, NoRecord
<1>3. handles' = Append(handles, fresh) /\ approvals' = approvals /\ routed' = routed
  BY DEF Create
<1> HIDE DEF fresh
<1>4. /\ handles' \in Seq(Snapshots) /\ Len(handles') = new
      /\ DOMAIN handles' = 1 .. new /\ DOMAIN handles = 1 .. Len(handles)
      /\ handles'[new] = fresh
      /\ \A i \in DOMAIN handles : handles'[i] = handles[i]
  BY <1>1, <1>2, <1>3, Appended
<1>5. \A i \in 1 .. new : i = new \/ i \in DOMAIN handles
  BY <1>1, <1>4
<1>6. \A i \in DOMAIN handles : handles'[i].lineage # new /\ handles[i].lineage <= i
  BY <1>1, <1>4, SnapshotFields DEF IInv, Lineages, NamedAfterFirst
<1>7. TypeOK'
  BY <1>3, <1>4 DEF IInv, TypeOK
<1>8. NamedAfterFirst'
  BY <1>1, <1>2, <1>4, <1>5, <1>6 DEF NamedAfterFirst
<1>9. LastIsActive' /\ LineageIsLinear'
  <2> SUFFICES ASSUME NEW i \in 1 .. new, NEW j \in 1 .. new, i < j,
                      handles'[i].lineage = handles'[j].lineage
               PROVE  ~handles'[i].active
                      /\ IsPrefix(handles'[i].audit, handles'[j].audit)
    BY <1>4 DEF LastIsActive, LineageIsLinear
  <2>1. i \in DOMAIN handles /\ j \in DOMAIN handles
    BY <1>1, <1>2, <1>4, <1>5, <1>6
  <2> QED
    BY <1>4, <2>1 DEF IInv, Lineages, LastIsActive, LineageIsLinear
<1>10. StillReserved'
  <2> SUFFICES ASSUME NEW n \in DOMAIN routed
               PROVE  /\ routed[n].lineage <= new
                      /\ \A h \in 1 .. new :
                           /\ routed[n].outcome = "reserved"
                           /\ handles'[h].lineage = routed[n].lineage
                           /\ handles'[h].active
                           => Reserved(handles'[h], routed[n].identity)
    BY <1>3, <1>4 DEF StillReserved, Reserved
  <2>1. routed[n].lineage <= Len(handles) /\ routed[n].lineage \in Nat
    BY ResultFields DEF IInv, StillReserved
  <2> QED
    BY <1>1, <1>2, <1>4, <1>5, <2>1 DEF IInv, StillReserved
<1>11. ValidatedOnce' /\ ApprovalSpentOnce'
  BY <1>3 DEF IInv, ValidatedOnce, ApprovalSpentOnce
<1> QED
  BY <1>7, <1>8, <1>9, <1>10, <1>11 DEF IInv, Lineages

(* What was validated stays reserved when a handle is minted that lifts no *)
(* tombstone.                                                              *)
LEMMA MintKeepsReserved ==
  ASSUME IInv, NEW h \in DOMAIN handles, Handle(h),
         NEW next \in Snapshots, handles' = Mint(h, next),
         next.lineage = handles[h].lineage,
         \A id \in Identities : Reserved(handles[h], id) => Reserved(next, id),
         NEW n \in DOMAIN routed
  PROVE  /\ routed[n].lineage <= Len(handles')
         /\ \A g \in DOMAIN handles' :
              /\ routed[n].outcome = "reserved"
              /\ handles'[g].lineage = routed[n].lineage
              /\ handles'[g].active
              => Reserved(handles'[g], routed[n].identity)
<1>1. /\ Len(handles') = Len(handles) + 1 /\ Len(handles) \in Nat
      /\ DOMAIN handles' = 1 .. Len(handles) + 1
      /\ DOMAIN handles = 1 .. Len(handles)
      /\ handles'[Len(handles) + 1] = next
      /\ \A i \in DOMAIN handles :
           /\ handles'[i].lineage = handles[i].lineage
           /\ handles'[i].tombstones = handles[i].tombstones
           /\ handles'[i].active => handles[i].active
  BY Minted DEF IInv
<1>2. /\ routed[n].lineage <= Len(handles) /\ routed[n].lineage \in Nat
      /\ routed[n].identity \in Identities
  BY ResultFields DEF IInv, StillReserved
<1>3. \A g \in DOMAIN handles' : g = Len(handles) + 1 \/ g \in DOMAIN handles
  BY <1>1
<1>4. ASSUME NEW g \in DOMAIN handles', routed[n].outcome = "reserved",
             handles'[g].lineage = routed[n].lineage, handles'[g].active
      PROVE  Reserved(handles'[g], routed[n].identity)
  <2>1. CASE g = Len(handles) + 1
    <3>1. Reserved(handles[h], routed[n].identity)
      BY <1>1, <1>4, <2>1 DEF IInv, StillReserved, Handle
    <3> QED
      BY <1>1, <1>2, <2>1, <3>1
  <2>2. CASE g \in DOMAIN handles
    BY <1>1, <1>4, <2>2 DEF IInv, StillReserved, Reserved
  <2> QED
    BY <1>3, <2>1, <2>2
<1> QED
  BY <1>1, <1>2, <1>4

(* A mint that nothing else accompanies.                                   *)
LEMMA MintKeeps ==
  ASSUME IInv, NEW h \in DOMAIN handles, Handle(h),
         NEW next \in Snapshots, handles' = Mint(h, next),
         next.lineage = handles[h].lineage, IsPrefix(handles[h].audit, next.audit),
         \A id \in Identities : Reserved(handles[h], id) => Reserved(next, id),
         approvals' = approvals, routed' = routed
  PROVE  IInv'
<1>1. Lineages'
  BY MintKeepsLineages DEF IInv
<1>2. TypeOK'
  BY Minted DEF IInv, TypeOK
<1>3. StillReserved'
  BY MintKeepsReserved DEF StillReserved
<1>4. ValidatedOnce' /\ ApprovalSpentOnce'
  BY DEF IInv, ValidatedOnce, ApprovalSpentOnce
<1> QED
  BY <1>1, <1>2, <1>3, <1>4 DEF IInv

LEMMA ReserveDirectlyKeeps ==
  ASSUME IInv, NEW h \in DOMAIN handles, NEW id \in Identities, ReserveDirectly(h, id)
  PROVE  IInv'
<1> DEFINE next == SnapshotAfterReserve(h, id)
<1>1. /\ Handle(h) /\ handles' = Mint(h, next) /\ approvals' = approvals
      /\ routed' = routed
  BY DEF ReserveDirectly, Reserve
<1>2. /\ next \in Snapshots /\ next.lineage = handles[h].lineage
      /\ IsPrefix(handles[h].audit, next.audit)
      /\ \A other \in Identities : Reserved(handles[h], other) => Reserved(next, other)
  BY Reservation DEF IInv
<1> HIDE DEF next
<1> QED
  BY <1>1, <1>2, MintKeeps

LEMMA TransitionKeeps ==
  ASSUME IInv, NEW h \in DOMAIN handles, NEW id \in Identities,
         NEW status \in Statuses, Transition(h, id, status)
  PROVE  IInv'
<1> DEFINE log == Logged(h, id, status)
           recs == [handles[h].records EXCEPT
                      ![id].status = status, ![id].version = @ + 1]
           next == [handles[h] EXCEPT !.records[id].status = status,
                                      !.records[id].version = @ + 1, !.audit = log]
<1>1. /\ Handle(h) /\ handles' = Mint(h, next) /\ approvals' = approvals
      /\ routed' = routed
  BY DEF Transition
<1>2. /\ log \in Seq(Events) /\ IsPrefix(handles[h].audit, log)
  BY LoggedTyped DEF IInv
<1>3. recs \in [Identities -> Records]
  <2>1. handles[h].records \in [Identities -> Records]
    BY SnapshotFields DEF IInv
  <2> QED
    BY <2>1 DEF Records
<1>4. next = [handles[h] EXCEPT !.records = recs, !.audit = log]
  OBVIOUS
<1> HIDE DEF log, recs, next
<1>5. handles[h] \in Snapshots
  BY SnapshotFields DEF IInv
<1>6. /\ next \in Snapshots /\ next.lineage = handles[h].lineage
      /\ next.audit = log /\ next.tombstones = handles[h].tombstones
  BY <1>2, <1>3, <1>4, <1>5 DEF Snapshots
<1> QED
  BY <1>1, <1>2, <1>6, MintKeeps DEF Reserved

LEMMA CreateApprovalKeeps ==
  ASSUME IInv, NEW s \in Scenarios, NEW intent \in Evaluations,
         NEW authority \in Evaluations, CreateApproval(s, intent, authority)
  PROVE  IInv'
<1> DEFINE fixture == [scenario |-> s, evaluation |-> intent, active |-> TRUE]
<1>1. /\ approvals' = Append(approvals, fixture) /\ handles' = handles
      /\ routed' = routed
  BY DEF CreateApproval
<1>2. approvals \in Seq(Approval) /\ fixture \in Approval
  BY DEF IInv, TypeOK, Approval
<1> HIDE DEF fixture
<1>3. /\ approvals' \in Seq(Approval)
      /\ \A a \in DOMAIN approvals : a \in DOMAIN approvals' /\ approvals'[a] = approvals[a]
  BY <1>1, <1>2, Appended
<1>4. routed \in Seq(Results) /\ \A n \in DOMAIN routed : routed[n].approval \in DOMAIN approvals
  BY ResultFields DEF IInv
<1>5. TypeOK'
  <2>1. Results \subseteq Results'
    BY <1>3 DEF Results
  <2>2. routed' \in Seq(Results')
    BY <1>1, <1>4, <2>1
  <2> QED
    BY <1>1, <1>3, <2>2 DEF IInv, TypeOK, Approval, Results
<1>6. Lineages'
  BY <1>1 DEF IInv, Lineages, NamedAfterFirst, LastIsActive, LineageIsLinear
<1>7. StillReserved' /\ ValidatedOnce'
  BY <1>1 DEF IInv, StillReserved, Reserved, ValidatedOnce
<1>8. ApprovalSpentOnce'
  BY <1>1, <1>3, <1>4 DEF IInv, ApprovalSpentOnce
<1> QED
  BY <1>5, <1>6, <1>7, <1>8 DEF IInv

LEMMA RouteKeeps ==
  ASSUME IInv, NEW s \in Scenarios, NEW intent \in Evaluations,
         NEW authority \in Evaluations, NEW a \in DOMAIN approvals,
         NEW h \in DOMAIN handles, Route(a, s, intent, authority, h)
  PROVE  IInv'
<1> DEFINE id == <<s, IntentHash[intent]>>
<1>1. /\ approvals[a].active /\ approvals[a].evaluation = intent
      /\ approvals[a].scenario = s /\ intent \in Approved
      /\ approvals' = [approvals EXCEPT ![a].active = FALSE]
  BY DEF Route, Binds, Verified
<1>2. id \in Identities
  BY DEF Identities
<1>3. approvals \in Seq(Approval) /\ approvals[a] \in Approval
  <2>1. approvals \in Seq(Approval)
    BY DEF IInv, TypeOK, Approval
  <2> QED
    BY <2>1
<1>4. /\ approvals' \in Seq(Approval) /\ DOMAIN approvals' = DOMAIN approvals
      /\ ~approvals'[a].active /\ approvals'[a].evaluation = intent
      /\ approvals'[a].scenario = s
      /\ \A b \in DOMAIN approvals : b # a => approvals'[b] = approvals[b]
  <2> DEFINE spent == [approvals[a] EXCEPT !.active = FALSE]
  <2>1. /\ spent \in Approval /\ ~spent.active /\ spent.evaluation = intent
        /\ spent.scenario = s
    BY <1>1, <1>3 DEF Approval
  <2>2. approvals' = [approvals EXCEPT ![a] = spent]
    BY <1>1
  <2>3. DOMAIN approvals = 1 .. Len(approvals)
    BY <1>3
  <2> HIDE DEF spent
  <2>4. /\ approvals' \in Seq(Approval) /\ DOMAIN approvals' = DOMAIN approvals
        /\ \A b \in DOMAIN approvals : approvals'[b] = IF b = a THEN spent ELSE approvals[b]
    BY <1>3, <2>1, <2>2, <2>3, ExceptSeq
  <2> QED
    BY <2>1, <2>4
<1>5. Results' = Results /\ routed \in Seq(Results)
  BY <1>4, ResultFields DEF Results, IInv
<1>6. ASSUME NEW n \in DOMAIN routed PROVE routed[n].approval # a
  BY <1>1 DEF IInv, ApprovalSpentOnce
<1>7. CASE handles' = handles /\ routed' = routed
  <2>1. TypeOK'
    BY <1>4, <1>5, <1>7 DEF IInv, TypeOK, Approval, Results
  <2>2. Lineages'
    BY <1>7 DEF IInv, Lineages, NamedAfterFirst, LastIsActive, LineageIsLinear
  <2>3. StillReserved' /\ ValidatedOnce'
    BY <1>7 DEF IInv, StillReserved, Reserved, ValidatedOnce
  <2>4. ApprovalSpentOnce'
    BY <1>4, <1>6, <1>7, ResultFields DEF IInv, ApprovalSpentOnce
  <2> QED
    BY <2>1, <2>2, <2>3, <2>4 DEF IInv
<1>8. CASE /\ Reserve(h, id)
           /\ routed' = Append(routed,
                [approval |-> a, lineage |-> handles[h].lineage, identity |-> id,
                 outcome |-> ReserveOutcome(h, id)])
  <2> DEFINE next == SnapshotAfterReserve(h, id)
             entry == [approval |-> a, lineage |-> handles[h].lineage, identity |-> id,
                       outcome |-> ReserveOutcome(h, id)]
             new == Len(routed) + 1
  <2>1. Handle(h) /\ handles' = Mint(h, next)
    BY <1>8 DEF Reserve
  <2>2. /\ next \in Snapshots /\ next.lineage = handles[h].lineage
        /\ IsPrefix(handles[h].audit, next.audit) /\ Reserved(next, id)
        /\ \A other \in Identities : Reserved(handles[h], other) => Reserved(next, other)
        /\ ReserveOutcome(h, id) =
             IF Reserved(handles[h], id) THEN "duplicateRejected" ELSE "reserved"
    BY <1>2, Reservation DEF IInv
  <2>3. /\ entry \in Results /\ entry.approval = a /\ entry.identity = id
        /\ entry.lineage = handles[h].lineage
        /\ entry.outcome = ReserveOutcome(h, id)
    BY <1>2, <2>2, SnapshotFields DEF Results, IInv
  <2>4. routed' = Append(routed, entry)
    BY <1>8
  <2> HIDE DEF next, entry, id
  <2>5. /\ routed' \in Seq(Results) /\ DOMAIN routed' = 1 .. new
        /\ DOMAIN routed = 1 .. Len(routed) /\ Len(routed) \in Nat
        /\ routed'[new] = entry /\ \A n \in DOMAIN routed : routed'[n] = routed[n]
    BY <1>5, <2>3, <2>4, Appended
  <2>6. \A n \in DOMAIN routed' : n = new \/ n \in DOMAIN routed
    BY <2>5
  <2>7. /\ Len(handles') = Len(handles) + 1 /\ Len(handles) \in Nat
        /\ DOMAIN handles' = 1 .. Len(handles) + 1
        /\ DOMAIN handles = 1 .. Len(handles)
        /\ handles'[Len(handles) + 1] = next /\ handles' \in Seq(Snapshots)
        /\ \A i \in DOMAIN handles :
             /\ handles'[i].lineage = handles[i].lineage
             /\ handles'[i].active => handles[i].active /\ i # h
    BY <2>1, <2>2, Minted DEF IInv
  <2>8. TypeOK'
    BY <1>4, <1>5, <2>5, <2>7 DEF TypeOK, Approval, Results
  <2>9. Lineages'
    BY <2>1, <2>2, MintKeepsLineages DEF IInv
  <2>10. StillReserved'
    <3> SUFFICES ASSUME NEW n \in DOMAIN routed'
                 PROVE  /\ routed'[n].lineage <= Len(handles')
                        /\ \A g \in DOMAIN handles' :
                             /\ routed'[n].outcome = "reserved"
                             /\ handles'[g].lineage = routed'[n].lineage
                             /\ handles'[g].active
                             => Reserved(handles'[g], routed'[n].identity)
      BY DEF StillReserved, Reserved
    <3>1. CASE n \in DOMAIN routed
      <4>1. routed'[n] = routed[n]
        BY <2>5, <3>1
      <4> QED
        BY <2>1, <2>2, <3>1, <4>1, MintKeepsReserved
    <3>2. CASE n = new
      <4>1. routed'[n].lineage = handles[h].lineage /\ routed'[n].identity = id
        BY <2>3, <2>5, <3>2
      <4>2. handles[h].lineage <= h /\ handles[h].lineage \in Nat
        BY SnapshotFields DEF IInv, Lineages, NamedAfterFirst
      <4>3. \A g \in DOMAIN handles' : g = Len(handles) + 1 \/ g \in DOMAIN handles
        BY <2>7
      <4>4. \A g \in DOMAIN handles :
              handles'[g].lineage = handles[h].lineage => ~handles'[g].active
        <5> SUFFICES ASSUME NEW g \in DOMAIN handles, handles'[g].active,
                            handles[g].lineage = handles[h].lineage
                     PROVE  FALSE
          BY <2>7
        <5>1. handles[g].active /\ handles[h].active /\ g # h
          BY <2>1, <2>7 DEF Handle
        <5> QED
          BY <2>7, <5>1 DEF IInv, Lineages, LastIsActive
      <4> QED
        BY <2>2, <2>7, <4>1, <4>2, <4>3, <4>4
    <3> QED
      BY <2>6, <3>1, <3>2
  <2>11. ValidatedOnce'
    <3>1. ASSUME NEW n \in DOMAIN routed, routed[n].outcome = "reserved",
                 entry.outcome = "reserved", routed[n].lineage = entry.lineage,
                 routed[n].identity = entry.identity
          PROVE  FALSE
      <4>1. ~Reserved(handles[h], id)
        BY <2>2, <2>3, <3>1
      <4> QED
        BY <2>1, <2>3, <3>1, <4>1 DEF IInv, StillReserved, Handle
    <3> QED
      BY <2>5, <2>6, <3>1 DEF IInv, ValidatedOnce
  <2>12. ApprovalSpentOnce'
    <3> SUFFICES ASSUME NEW n \in DOMAIN routed'
                 PROVE  LET b == routed'[n].approval IN
                        /\ ~approvals'[b].active
                        /\ approvals'[b].evaluation \in Approved
                        /\ routed'[n].identity =
                             <<approvals'[b].scenario, IntentHash[approvals'[b].evaluation]>>
                        /\ \A m \in DOMAIN routed' : routed'[m].approval = b => n = m
      BY DEF ApprovalSpentOnce
    <3>1. CASE n = new
      <4>1. routed'[n].approval = a /\ routed'[n].identity = id
        BY <2>3, <2>5, <3>1
      <4>2. \A m \in DOMAIN routed' : routed'[m].approval = a => n = m
        BY <1>6, <2>5, <2>6, <3>1
      <4> QED
        BY <1>1, <1>4, <4>1, <4>2 DEF id
    <3>2. CASE n \in DOMAIN routed
      <4> DEFINE b == routed[n].approval
      <4>1. /\ routed'[n] = routed[n] /\ b # a /\ b \in DOMAIN approvals
            /\ approvals'[b] = approvals[b]
        BY <1>4, <1>6, <2>5, <3>2, ResultFields DEF IInv
      <4>2. /\ ~approvals[b].active /\ approvals[b].evaluation \in Approved
            /\ routed[n].identity =
                 <<approvals[b].scenario, IntentHash[approvals[b].evaluation]>>
            /\ \A m \in DOMAIN routed : routed[m].approval = b => n = m
        BY <3>2 DEF IInv, ApprovalSpentOnce
      <4>3. \A m \in DOMAIN routed' : routed'[m].approval = b => n = m
        BY <2>3, <2>5, <2>6, <4>1, <4>2
      <4> QED
        BY <4>1, <4>2, <4>3
    <3> QED
      BY <2>6, <3>1, <3>2
  <2> QED
    BY <2>8, <2>9, <2>10, <2>11, <2>12 DEF IInv
<1> QED
  BY <1>7, <1>8 DEF Route

LEMMA InitIInv == ASSUME Init PROVE IInv
  BY DEF Init, IInv, TypeOK, Lineages, NamedAfterFirst, LastIsActive,
         LineageIsLinear, StillReserved, ValidatedOnce, ApprovalSpentOnce

LEMMA NextIInv == ASSUME IInv, [Next]_vars PROVE IInv'
<1>1. CASE Create
  BY <1>1, CreateKeeps
<1>2. ASSUME NEW h \in DOMAIN handles, NEW id \in Identities, ReserveDirectly(h, id)
      PROVE  IInv'
  BY <1>2, ReserveDirectlyKeeps
<1>3. ASSUME NEW h \in DOMAIN handles, NEW id \in Identities,
             NEW next \in Statuses \ {"reserved"}, Transition(h, id, next)
      PROVE  IInv'
  BY <1>3, TransitionKeeps
<1>4. ASSUME NEW s \in Scenarios, NEW intent \in Evaluations,
             NEW authority \in Evaluations, CreateApproval(s, intent, authority)
      PROVE  IInv'
  BY <1>4, CreateApprovalKeeps
<1>5. ASSUME NEW s \in Scenarios, NEW intent \in Evaluations,
             NEW authority \in Evaluations, NEW a \in DOMAIN approvals,
             NEW h \in DOMAIN handles, Route(a, s, intent, authority, h)
      PROVE  IInv'
  BY <1>5, RouteKeeps
<1>6. CASE UNCHANGED vars
  <2>1. handles' = handles /\ approvals' = approvals /\ routed' = routed
    BY <1>6 DEF vars
  <2>2. TypeOK' /\ Lineages'
    BY <2>1 DEF IInv, TypeOK, Lineages, NamedAfterFirst, LastIsActive, LineageIsLinear
  <2>3. StillReserved' /\ ValidatedOnce' /\ ApprovalSpentOnce'
    BY <2>1 DEF IInv, StillReserved, Reserved, ValidatedOnce, ApprovalSpentOnce
  <2> QED
    BY <2>2, <2>3 DEF IInv
<1> QED
  BY <1>1, <1>2, <1>3, <1>4, <1>5, <1>6 DEF Next

LEMMA IInvAlways == Spec => []IInv
<1>1. Init => IInv
  BY InitIInv
<1>2. IInv /\ [Next]_vars => IInv'
  BY NextIInv
<1> QED
  BY <1>1, <1>2, PTL DEF Spec

-----------------------------------------------------------------------------
(* What the audit tells.                                                   *)

(* Every set of positions has a last one: the least distance from the end. *)
LEMMA LastPosition ==
  ASSUME NEW N \in Nat, NEW P, P \subseteq 1 .. N, P # {}
  PROVE  Max(P) \in P /\ \A m \in P : m <= Max(P)
<1> DEFINE D == {k \in Nat : N - k \in P}
<1>1. D # {} /\ D \subseteq Nat
  <2>1. PICK m \in P : TRUE
    OBVIOUS
  <2>2. N - m \in Nat /\ N - (N - m) = m
    BY <2>1
  <2> QED
    BY <2>1, <2>2
<1>2. IsWellFoundedOn(OpToRel(<, Nat), Nat)
  BY NatLessThanWellFounded
<1>3. PICK k \in D : \A j \in D : <<j, k>> \notin OpToRel(<, Nat)
  BY <1>1, <1>2, WFMin
<1>4. \A j \in D : ~(j < k)
  BY <1>1, <1>3 DEF OpToRel
<1>5. \A m \in P : m <= N - k
  <2> SUFFICES ASSUME NEW m \in P PROVE m <= N - k
    OBVIOUS
  <2>1. m \in Nat /\ k \in Nat /\ N - m \in Nat /\ N - (N - m) = m
    OBVIOUS
  <2>2. N - m \in D
    BY <2>1
  <2> HIDE DEF D
  <2>3. ~(N - m < k)
    BY <1>4, <2>2
  <2> QED
    BY <2>1, <2>3
<1>6. N - k \in P
  OBVIOUS
<1> QED
  BY <1>5, <1>6 DEF Max

Explained(s, id) ==
  LET changes == EventsOf(s, id) IN
  /\ s.records[id].version = Cardinality(changes)
  /\ s.records[id].status = StatusAfter(s, changes)
  /\ \A n \in changes :
       s.audit[n].from = StatusAfter(s, {m \in changes : m < n})
  /\ \A n \in DOMAIN s.audit :
       s.audit[n].identity = id /\ s.audit[n].event = "reserved"
         <=> s.tombstones[id] = n

(* The audit tells a snapshot's records; a tombstone stands for a status,  *)
(* and names a position there is.                                          *)
Told(s) ==
  \A id \in Identities :
    /\ Explained(s, id)
    /\ s.tombstones[id] <= Len(s.audit)
    /\ Reserved(s, id) <=> s.records[id].status # "created"

AuditTold == \A h \in DOMAIN handles : Told(handles[h])

(* What was told of the events so far stays so when one is added.          *)
LEMMA EarlierEvents ==
  ASSUME NEW s \in Snapshots, NEW t \in Snapshots, NEW e \in Events,
         t.audit = Append(s.audit, e)
  PROVE  /\ Len(s.audit) \in Nat /\ DOMAIN s.audit = 1 .. Len(s.audit)
         /\ DOMAIN t.audit = 1 .. Len(s.audit) + 1
         /\ t.audit[Len(s.audit) + 1] = e
         /\ \A n \in 1 .. Len(s.audit) : t.audit[n] = s.audit[n] /\ s.audit[n] \in Events
         /\ \A P \in SUBSET (1 .. Len(s.audit)) : StatusAfter(t, P) = StatusAfter(s, P)
         /\ \A id \in Identities :
              /\ EventsOf(s, id) \subseteq 1 .. Len(s.audit)
              /\ EventsOf(t, id) = EventsOf(s, id) \cup
                   (IF e.identity = id /\ e.event # "duplicateRejected"
                    THEN {Len(s.audit) + 1} ELSE {})
<1> DEFINE N == Len(s.audit)
<1>1. s.audit \in Seq(Events)
  BY DEF Snapshots
<1>2. /\ N \in Nat /\ DOMAIN s.audit = 1 .. N /\ DOMAIN t.audit = 1 .. N + 1
      /\ t.audit[N + 1] = e
      /\ \A n \in 1 .. N : t.audit[n] = s.audit[n] /\ s.audit[n] \in Events
  BY <1>1, Appended
<1>3. ASSUME NEW P \in SUBSET (1 .. N) PROVE StatusAfter(t, P) = StatusAfter(s, P)
  <2>1. CASE P = {}
    BY <2>1 DEF StatusAfter
  <2>2. CASE P # {}
    <3>1. Max(P) \in 1 .. N
      BY <1>2, <2>2, LastPosition
    <3> QED
      BY <1>2, <3>1 DEF StatusAfter
  <2> QED
    BY <2>1, <2>2
<1>4. ASSUME NEW id \in Identities
      PROVE  /\ EventsOf(s, id) \subseteq 1 .. N
             /\ EventsOf(t, id) = EventsOf(s, id) \cup
                   (IF e.identity = id /\ e.event # "duplicateRejected"
                    THEN {N + 1} ELSE {})
  <2>1. \A n \in 1 .. N + 1 : n \in 1 .. N \/ n = N + 1
    BY <1>2
  <2>2. \A n \in 1 .. N : n \in 1 .. N + 1
    BY <1>2
  <2>3. N + 1 \in 1 .. N + 1
    BY <1>2
  <2> QED
    BY <1>2, <2>1, <2>2, <2>3 DEF EventsOf
<1> QED
  BY <1>2, <1>3, <1>4

LEMMA FiniteEvents ==
  ASSUME NEW s \in Snapshots, NEW id \in Identities
  PROVE  IsFiniteSet(EventsOf(s, id)) /\ Cardinality(EventsOf(s, id)) \in Nat
<1>1. DOMAIN s.audit = 1 .. Len(s.audit) /\ Len(s.audit) \in Nat
  BY DEF Snapshots
<1>2. IsFiniteSet(1 .. Len(s.audit))
  BY <1>1, FS_Interval
<1>3. EventsOf(s, id) \subseteq 1 .. Len(s.audit)
  BY <1>1 DEF EventsOf
<1> QED
  BY <1>2, <1>3, FS_Subset, FS_CardinalityType

(* No status is that of no record: where the status says that nothing      *)
(* happened, nothing did.                                                  *)
LEMMA NothingHappened ==
  ASSUME NEW s \in Snapshots, NEW id \in Identities, Explained(s, id),
         s.records[id].status = "created"
  PROVE  EventsOf(s, id) = {} /\ s.records[id].version = 0
<1>1. Cardinality({}) = 0
  BY FS_EmptySet
<1>2. SUFFICES ASSUME EventsOf(s, id) # {} PROVE FALSE
  BY <1>1 DEF Explained
<1> DEFINE last == Max(EventsOf(s, id))
<1>3. DOMAIN s.audit = 1 .. Len(s.audit) /\ Len(s.audit) \in Nat
      /\ \A n \in DOMAIN s.audit : s.audit[n] \in Events
  BY DEF Snapshots
<1>4. last \in EventsOf(s, id)
  <2>1. EventsOf(s, id) \subseteq 1 .. Len(s.audit)
    BY <1>3 DEF EventsOf
  <2> QED
    BY <1>2, <1>3, <2>1, LastPosition
<1>5. s.audit[last].event = "created"
  BY <1>2 DEF Explained, StatusAfter
<1>6. s.audit[last] \in Events
  BY <1>3, <1>4 DEF EventsOf
<1> QED
  BY <1>5, <1>6 DEF Events, Statuses

(* An event of another identity says nothing new.                          *)
LEMMA OthersUntouched ==
  ASSUME NEW s \in Snapshots, NEW t \in Snapshots, NEW e \in Events,
         t.audit = Append(s.audit, e), Told(s), NEW id \in Identities,
         e.identity # id \/ e.event = "duplicateRejected",
         t.records[id] = s.records[id], t.tombstones[id] = s.tombstones[id]
  PROVE  /\ Explained(t, id) /\ t.tombstones[id] <= Len(t.audit)
         /\ Reserved(t, id) <=> t.records[id].status # "created"
<1> DEFINE N == Len(s.audit)
           past == EventsOf(s, id)
<1>1. /\ N \in Nat /\ DOMAIN s.audit = 1 .. N /\ DOMAIN t.audit = 1 .. N + 1
      /\ t.audit[N + 1] = e
      /\ \A n \in 1 .. N : t.audit[n] = s.audit[n] /\ s.audit[n] \in Events
      /\ \A P \in SUBSET (1 .. N) : StatusAfter(t, P) = StatusAfter(s, P)
      /\ past \subseteq 1 .. N /\ EventsOf(t, id) = past
  <2>1. EventsOf(t, id) = EventsOf(s, id) \cup
           (IF e.identity = id /\ e.event # "duplicateRejected"
            THEN {Len(s.audit) + 1} ELSE {})
    BY EarlierEvents
  <2>2. EventsOf(t, id) = EventsOf(s, id)
    BY <2>1
  <2> QED
    BY <2>2, EarlierEvents
<1>2. /\ Explained(s, id) /\ s.tombstones[id] <= N /\ s.tombstones[id] \in Nat
      /\ Reserved(s, id) <=> s.records[id].status # "created"
  BY DEF Told, Snapshots
<1>3. Len(t.audit) = N + 1
  BY <1>1 DEF Snapshots
<1>4. t.records[id].version = Cardinality(past)
  BY <1>2 DEF Explained
<1>5. t.records[id].status = StatusAfter(t, past)
  BY <1>1, <1>2 DEF Explained
<1>6. ASSUME NEW n \in past
      PROVE  t.audit[n].from = StatusAfter(t, {m \in past : m < n})
  <2>1. {m \in past : m < n} \in SUBSET (1 .. N)
    BY <1>1
  <2>2. s.audit[n].from = StatusAfter(s, {m \in past : m < n})
    BY <1>2 DEF Explained
  <2> QED
    BY <1>1, <2>1, <2>2
<1>7. ASSUME NEW n \in 1 .. N + 1
      PROVE  t.audit[n].identity = id /\ t.audit[n].event = "reserved"
               <=> t.tombstones[id] = n
  <2>1. CASE n \in 1 .. N
    BY <1>1, <1>2, <2>1 DEF Explained
  <2>2. CASE n = N + 1
    BY <1>1, <1>2, <2>2
  <2> QED
    BY <1>1, <2>1, <2>2
<1> HIDE DEF past
<1>8. Explained(t, id)
  BY <1>1, <1>4, <1>5, <1>6, <1>7 DEF Explained
<1> QED
  BY <1>1, <1>2, <1>3, <1>8 DEF Reserved

(* A change of the record is the event it is logged with.                  *)
LEMMA ChangeTold ==
  ASSUME NEW s \in Snapshots, NEW t \in Snapshots, NEW e \in Events,
         t.audit = Append(s.audit, e), Told(s), NEW id \in Identities,
         e.identity = id, e.event \in Statuses, e.from = s.records[id].status,
         t.records[id].status = e.event,
         t.records[id].version = s.records[id].version + 1,
         IF e.event = "reserved"
           THEN ~Reserved(s, id) /\ t.tombstones[id] = Len(s.audit) + 1
           ELSE Reserved(s, id) /\ t.tombstones[id] = s.tombstones[id]
  PROVE  /\ Explained(t, id) /\ t.tombstones[id] <= Len(t.audit)
         /\ Reserved(t, id) <=> t.records[id].status # "created"
<1> DEFINE N == Len(s.audit)
           past == EventsOf(s, id)
           changes == EventsOf(t, id)
<1>1. /\ N \in Nat /\ DOMAIN s.audit = 1 .. N /\ DOMAIN t.audit = 1 .. N + 1
      /\ t.audit[N + 1] = e
      /\ \A n \in 1 .. N : t.audit[n] = s.audit[n] /\ s.audit[n] \in Events
      /\ \A P \in SUBSET (1 .. N) : StatusAfter(t, P) = StatusAfter(s, P)
      /\ past \subseteq 1 .. N /\ changes = past \cup {N + 1}
  <2>1. e.event # "duplicateRejected"
    BY DEF Statuses
  <2>2. EventsOf(t, id) = EventsOf(s, id) \cup {Len(s.audit) + 1}
        /\ EventsOf(s, id) \subseteq 1 .. Len(s.audit)
    BY <2>1, EarlierEvents
  <2>3. /\ N \in Nat /\ DOMAIN s.audit = 1 .. N /\ DOMAIN t.audit = 1 .. N + 1
        /\ t.audit[N + 1] = e
        /\ \A n \in 1 .. N : t.audit[n] = s.audit[n] /\ s.audit[n] \in Events
        /\ \A P \in SUBSET (1 .. N) : StatusAfter(t, P) = StatusAfter(s, P)
    BY EarlierEvents
  <2> QED
    BY <2>2, <2>3
<1>2. /\ Explained(s, id) /\ s.tombstones[id] <= N /\ s.tombstones[id] \in Nat
      /\ Reserved(s, id) <=> s.records[id].status # "created"
  BY DEF Told, Snapshots
<1>3. Len(t.audit) = N + 1
  BY <1>1 DEF Snapshots
<1>4. t.records[id].version = Cardinality(changes)
  <2>1. N + 1 \notin past
    BY <1>1
  <2>2. IsFiniteSet(past)
    BY FiniteEvents
  <2> HIDE DEF past, changes
  <2>3. Cardinality(changes) = Cardinality(past) + 1
    BY <1>1, <2>1, <2>2, FS_AddElement
  <2> QED
    BY <1>2, <2>3 DEF Explained, past
<1>5. Max(changes) = N + 1
  <2> HIDE DEF changes
  <2>1. changes \subseteq 1 .. N + 1 /\ N + 1 \in changes /\ N + 1 \in Nat
    BY <1>1
  <2>2. Max(changes) \in changes /\ N + 1 <= Max(changes)
    BY <2>1, LastPosition
  <2> QED
    BY <1>1, <2>1, <2>2
<1>6. t.records[id].status = StatusAfter(t, changes)
  BY <1>1, <1>5 DEF StatusAfter
<1>7. ASSUME NEW n \in changes
      PROVE  t.audit[n].from = StatusAfter(t, {m \in changes : m < n})
  <2>1. CASE n \in past
    <3>1. {m \in changes : m < n} = {m \in past : m < n}
      BY <1>1, <2>1
    <3>2. {m \in past : m < n} \in SUBSET (1 .. N)
      BY <1>1
    <3>3. s.audit[n].from = StatusAfter(s, {m \in past : m < n})
      BY <1>2, <2>1 DEF Explained
    <3> QED
      BY <1>1, <2>1, <3>1, <3>2, <3>3
  <2>2. CASE n = N + 1
    <3>1. {m \in changes : m < n} = past
      BY <1>1, <2>2
    <3>2. s.records[id].status = StatusAfter(s, past)
      BY <1>2 DEF Explained
    <3> QED
      BY <1>1, <2>2, <3>1, <3>2
  <2> QED
    BY <1>1, <2>1, <2>2
<1>8. ASSUME NEW n \in 1 .. N + 1
      PROVE  t.audit[n].identity = id /\ t.audit[n].event = "reserved"
               <=> t.tombstones[id] = n
  <2>1. CASE n \in 1 .. N
    <3>1. t.audit[n].identity = id /\ t.audit[n].event = "reserved"
            <=> s.tombstones[id] = n
      BY <1>1, <1>2, <2>1 DEF Explained
    <3> QED
      BY <1>1, <2>1, <3>1 DEF Reserved
  <2>2. CASE n = N + 1
    BY <1>1, <1>2, <2>2
  <2> QED
    BY <1>1, <2>1, <2>2
<1>9. Reserved(t, id) /\ t.tombstones[id] <= Len(t.audit)
  BY <1>1, <1>2, <1>3 DEF Reserved
<1>10. t.records[id].status # "created"
  BY DEF Statuses
<1> HIDE DEF past, changes
<1>11. Explained(t, id)
  BY <1>1, <1>4, <1>6, <1>7, <1>8 DEF Explained, changes
<1> QED
  BY <1>9, <1>10, <1>11

(* An event logged with a handle is of the identity, and says from where.  *)
LEMMA LoggedEvent ==
  ASSUME TypeOK, NEW h \in DOMAIN handles, NEW id \in Identities,
         NEW event \in Statuses \cup {"duplicateRejected"}
  PROVE  \E e \in Events :
           /\ Logged(h, id, event) = Append(handles[h].audit, e)
           /\ e.identity = id /\ e.event = event
           /\ e.from = handles[h].records[id].status
<1> DEFINE e == [identity |-> id, event |-> event,
                 from |-> handles[h].records[id].status]
<1>1. handles[h].records[id] \in Records
  BY SnapshotFields
<1>2. e \in Events
  BY <1>1 DEF Events, Records
<1> QED
  BY <1>2 DEF Logged

(* A snapshot after one event is told if the one before it was.            *)
LEMMA NextTold ==
  ASSUME NEW s \in Snapshots, Told(s), NEW t \in Snapshots, NEW e \in Events,
         t.audit = Append(s.audit, e),
         \A other \in Identities : other # e.identity =>
           t.records[other] = s.records[other] /\ t.tombstones[other] = s.tombstones[other],
         IF e.event = "duplicateRejected"
           THEN t.records[e.identity] = s.records[e.identity]
                /\ t.tombstones[e.identity] = s.tombstones[e.identity]
           ELSE /\ e.from = s.records[e.identity].status
                /\ t.records[e.identity].status = e.event
                /\ t.records[e.identity].version = s.records[e.identity].version + 1
                /\ IF e.event = "reserved"
                     THEN ~Reserved(s, e.identity)
                          /\ t.tombstones[e.identity] = Len(s.audit) + 1
                     ELSE Reserved(s, e.identity)
                          /\ t.tombstones[e.identity] = s.tombstones[e.identity]
  PROVE  Told(t)
<1> SUFFICES ASSUME NEW id \in Identities
             PROVE  /\ Explained(t, id) /\ t.tombstones[id] <= Len(t.audit)
                    /\ Reserved(t, id) <=> t.records[id].status # "created"
  BY DEF Told
<1>1. CASE e.identity # id \/ e.event = "duplicateRejected"
  BY <1>1, OthersUntouched
<1>2. CASE e.identity = id /\ e.event # "duplicateRejected"
  <2>1. e.event \in Statuses
    BY <1>2 DEF Events
  <2> QED
    BY <1>2, <2>1, ChangeTold
<1> QED
  BY <1>1, <1>2

LEMMA ReservationTold ==
  ASSUME TypeOK, NEW h \in DOMAIN handles, NEW id \in Identities, Told(handles[h])
  PROVE  Told(SnapshotAfterReserve(h, id))
<1> DEFINE s == handles[h]
           t == SnapshotAfterReserve(h, id)
<1>1. /\ s \in Snapshots /\ t \in Snapshots
      /\ s.records \in [Identities -> Records] /\ s.tombstones \in [Identities -> Nat]
  BY SnapshotFields, Reservation
<1>2. CASE Reserved(s, id)
  <2>1. PICK e \in Events :
          /\ Logged(h, id, "duplicateRejected") = Append(s.audit, e)
          /\ e.identity = id /\ e.event = "duplicateRejected"
    BY LoggedEvent
  <2>2. t = [s EXCEPT !.audit = Append(s.audit, e)]
    BY <1>2, <2>1 DEF SnapshotAfterReserve
  <2> HIDE DEF s, t
  <2>3. /\ t.audit = Append(s.audit, e) /\ t.records = s.records
        /\ t.tombstones = s.tombstones
    BY <1>1, <2>2 DEF Snapshots
  <2>4. Told(s)
    BY DEF s
  <2>5. Told(t)
    BY <1>1, <2>1, <2>3, <2>4, NextTold
  <2> QED
    BY <2>5 DEF t
<1>3. CASE ~Reserved(s, id)
  <2>1. PICK e \in Events :
          /\ Logged(h, id, "reserved") = Append(s.audit, e)
          /\ e.identity = id /\ e.event = "reserved"
          /\ e.from = s.records[id].status
    BY LoggedEvent DEF Statuses
  <2> DEFINE recs == [s.records EXCEPT ![id] = [status |-> "reserved", version |-> 1]]
             tombs == [s.tombstones EXCEPT ![id] = Len(s.audit) + 1]
  <2>2. t = [s EXCEPT !.records = recs, !.tombstones = tombs, !.audit = Append(s.audit, e)]
    BY <1>3, <2>1 DEF SnapshotAfterReserve
  <2>3. /\ recs[id].status = "reserved" /\ recs[id].version = 1
        /\ tombs[id] = Len(s.audit) + 1
        /\ \A other \in Identities : other # id =>
             recs[other] = s.records[other] /\ tombs[other] = s.tombstones[other]
    BY <1>1
  <2>4. Told(s)
    OBVIOUS
  <2> HIDE DEF s, t, recs, tombs
  <2>5. t.audit = Append(s.audit, e) /\ t.records = recs /\ t.tombstones = tombs
    BY <1>1, <2>2 DEF Snapshots
  <2>6. s.records[id].version = 0
    <3>1. Explained(s, id) /\ s.records[id].status = "created"
      BY <1>3, <2>4 DEF Told
    <3> QED
      BY <1>1, <3>1, NothingHappened
  <2>7. t.records[id].version = s.records[id].version + 1
    BY <2>3, <2>5, <2>6
  <2>8. Told(t)
    BY <1>1, <1>3, <2>1, <2>3, <2>4, <2>5, <2>7, NextTold
  <2> QED
    BY <2>8 DEF t
<1> QED
  BY <1>2, <1>3

LEMMA TransitionTold ==
  ASSUME TypeOK, NEW h \in DOMAIN handles, NEW id \in Identities, Told(handles[h]),
         NEW status \in Statuses \ {"reserved"}, Reserved(handles[h], id),
         NEW t, t = [handles[h] EXCEPT !.records[id].status = status,
                                       !.records[id].version = @ + 1,
                                       !.audit = Logged(h, id, status)]
  PROVE  t \in Snapshots /\ Told(t)
<1> DEFINE s == handles[h]
           recs == [s.records EXCEPT ![id].status = status, ![id].version = @ + 1]
<1>1. /\ s \in Snapshots /\ s.audit \in Seq(Events)
      /\ s.records \in [Identities -> Records] /\ s.tombstones \in [Identities -> Nat]
  BY SnapshotFields
<1>2. PICK e \in Events :
        /\ Logged(h, id, status) = Append(s.audit, e)
        /\ e.identity = id /\ e.event = status /\ e.from = s.records[id].status
  BY LoggedEvent
<1>3. t = [s EXCEPT !.records = recs, !.audit = Append(s.audit, e)]
  <2>1. t = [s EXCEPT !.records = recs, !.audit = Logged(h, id, status)]
    OBVIOUS
  <2> QED
    BY <1>2, <2>1
<1>4. /\ recs \in [Identities -> Records]
      /\ recs[id].status = status /\ recs[id].version = s.records[id].version + 1
      /\ \A other \in Identities : other # id => recs[other] = s.records[other]
  <2> DEFINE rec == [s.records[id] EXCEPT !.status = status, !.version = @ + 1]
  <2>1. s.records[id] \in Records
    BY <1>1
  <2>2. s.records[id].version + 1 \in Nat /\ status \in Statuses
    BY <2>1 DEF Records
  <2>3. rec \in Records /\ rec.status = status /\ rec.version = s.records[id].version + 1
    BY <2>1, <2>2 DEF Records
  <2>4. recs = [s.records EXCEPT ![id] = rec]
    OBVIOUS
  <2> HIDE DEF rec, recs
  <2> QED
    BY <1>1, <2>3, <2>4
<1>5. Told(s) /\ Reserved(s, id)
  OBVIOUS
<1> HIDE DEF s, recs
<1>6. Append(s.audit, e) \in Seq(Events)
  BY <1>1
<1>7. /\ t \in Snapshots /\ t.audit = Append(s.audit, e) /\ t.records = recs
      /\ t.tombstones = s.tombstones
  BY <1>1, <1>3, <1>4, <1>6 DEF Snapshots
<1>8. status # "duplicateRejected" /\ status # "reserved"
  BY DEF Statuses
<1>9. \A other \in Identities : other # e.identity =>
        t.records[other] = s.records[other] /\ t.tombstones[other] = s.tombstones[other]
  BY <1>2, <1>4, <1>7
<1>10. /\ e.event # "duplicateRejected" /\ e.event # "reserved"
       /\ e.from = s.records[e.identity].status
       /\ t.records[e.identity].status = e.event
       /\ t.records[e.identity].version = s.records[e.identity].version + 1
       /\ Reserved(s, e.identity)
       /\ t.tombstones[e.identity] = s.tombstones[e.identity]
  BY <1>2, <1>4, <1>5, <1>7, <1>8
<1> QED
  BY <1>1, <1>5, <1>7, <1>9, <1>10, NextTold

(* Whether a handle is active makes no difference to what its audit tells. *)
LEMMA SameTold ==
  ASSUME NEW s, NEW t, Told(s), t.audit = s.audit, t.records = s.records,
         t.tombstones = s.tombstones
  PROVE  Told(t)
<1>1. \A id \in Identities : EventsOf(t, id) = EventsOf(s, id)
  BY DEF EventsOf
<1>2. \A P : StatusAfter(t, P) = StatusAfter(s, P)
  BY DEF StatusAfter
<1>3. ASSUME NEW id \in Identities PROVE Explained(t, id)
  BY <1>1, <1>2 DEF Told, Explained
<1> QED
  BY <1>3 DEF Told, Reserved

LEMMA MintTold ==
  ASSUME TypeOK, AuditTold, NEW h \in DOMAIN handles, NEW next \in Snapshots,
         handles' = Mint(h, next), Told(next)
  PROVE  AuditTold'
<1>1. /\ DOMAIN handles' = 1 .. Len(handles) + 1 /\ Len(handles) \in Nat
      /\ DOMAIN handles = 1 .. Len(handles)
      /\ handles'[Len(handles) + 1] = next
      /\ \A i \in DOMAIN handles :
           /\ handles'[i].audit = handles[i].audit
           /\ handles'[i].tombstones = handles[i].tombstones
           /\ handles'[i].records = handles[i].records
  BY Minted
<1>2. ASSUME NEW i \in DOMAIN handles PROVE Told(handles'[i])
  <2>1. Told(handles[i])
    BY DEF AuditTold
  <2> QED
    BY <1>1, <1>2, <2>1, SameTold
<1>3. \A i \in DOMAIN handles' : i \in DOMAIN handles \/ i = Len(handles) + 1
  BY <1>1
<1>4. \A i \in DOMAIN handles' : Told(handles'[i])
  BY <1>1, <1>2, <1>3
<1> QED
  <2>1. \A k \in DOMAIN handles' : Told(handles'[k])
    BY <1>4 DEF AuditTold
  <2> QED
    BY <2>1 DEF AuditTold, Told, Explained, EventsOf, StatusAfter, Reserved

LEMMA CreateTold ==
  ASSUME TypeOK, AuditTold, Create PROVE AuditTold'
<1> DEFINE fresh == [lineage |-> Len(handles) + 1, active |-> TRUE, audit |-> <<>>,
                     records |-> [id \in Identities |-> NoRecord],
                     tombstones |-> [id \in Identities |-> 0]]
<1>1. handles \in Seq(Snapshots) /\ Len(handles) \in Nat
  BY DEF TypeOK
<1>2. fresh \in Snapshots /\ fresh.audit = <<>>
  BY <1>1 DEF Snapshots, Records, Statuses, NoRecord
<1>3. Told(fresh)
  <2> SUFFICES ASSUME NEW id \in Identities
               PROVE  /\ Explained(fresh, id) /\ fresh.tombstones[id] <= Len(fresh.audit)
                      /\ Reserved(fresh, id) <=> fresh.records[id].status # "created"
    BY DEF Told
  <2>1. EventsOf(fresh, id) = {} /\ DOMAIN fresh.audit = {}
    BY DEF EventsOf
  <2>2. Cardinality({}) = 0
    BY FS_EmptySet
  <2>3. Explained(fresh, id)
    BY <2>1, <2>2 DEF Explained, StatusAfter, NoRecord
  <2> QED
    BY <2>3 DEF Reserved, NoRecord
<1>4. handles' = Append(handles, fresh)
  BY DEF Create
<1> HIDE DEF fresh
<1>5. /\ DOMAIN handles' = 1 .. Len(handles) + 1 /\ DOMAIN handles = 1 .. Len(handles)
      /\ handles'[Len(handles) + 1] = fresh
      /\ \A i \in DOMAIN handles : handles'[i] = handles[i]
  BY <1>1, <1>2, <1>4, Appended
<1>6. \A i \in DOMAIN handles' : i \in DOMAIN handles \/ i = Len(handles) + 1
  BY <1>1, <1>5
<1>7. \A i \in DOMAIN handles' : Told(handles'[i])
  BY <1>3, <1>5, <1>6 DEF AuditTold
<1> QED
  BY <1>7 DEF AuditTold, Told, Explained, EventsOf, StatusAfter, Reserved

LEMMA AuditToldStep ==
  ASSUME TypeOK, AuditTold, [Next]_vars PROVE AuditTold'
<1>1. CASE Create
  BY <1>1, CreateTold
<1>2. ASSUME NEW h \in DOMAIN handles, NEW id \in Identities, Reserve(h, id)
      PROVE  AuditTold'
  <2>1. handles' = Mint(h, SnapshotAfterReserve(h, id))
    BY <1>2 DEF Reserve
  <2>2. Told(SnapshotAfterReserve(h, id)) /\ SnapshotAfterReserve(h, id) \in Snapshots
    BY Reservation, ReservationTold DEF AuditTold
  <2> QED
    BY <2>1, <2>2, MintTold
<1>3. ASSUME NEW h \in DOMAIN handles, NEW id \in Identities,
             NEW next \in Statuses \ {"reserved"}, Transition(h, id, next)
      PROVE  AuditTold'
  <2> DEFINE t == [handles[h] EXCEPT !.records[id].status = next,
                                     !.records[id].version = @ + 1,
                                     !.audit = Logged(h, id, next)]
  <2>1. handles' = Mint(h, t) /\ Reserved(handles[h], id)
    BY <1>3 DEF Transition
  <2>2. t \in Snapshots /\ Told(t)
    BY <2>1, TransitionTold DEF AuditTold
  <2> HIDE DEF t
  <2> QED
    BY <2>1, <2>2, MintTold
<1>4. CASE handles' = handles
  <2>1. \A h \in DOMAIN handles' : Told(handles'[h])
    BY <1>4 DEF AuditTold
  <2> QED
    BY <2>1 DEF AuditTold, Told, Explained, EventsOf, StatusAfter, Reserved
<1>5. ASSUME NEW s \in Scenarios, NEW intent \in Evaluations,
             NEW authority \in Evaluations, NEW a \in DOMAIN approvals,
             NEW h \in DOMAIN handles, Route(a, s, intent, authority, h)
      PROVE  AuditTold'
  <2>1. <<s, IntentHash[intent]>> \in Identities
    BY DEF Identities
  <2> QED
    BY <1>2, <1>4, <1>5, <2>1 DEF Route
<1> QED
  BY <1>1, <1>2, <1>3, <1>4, <1>5 DEF Next, ReserveDirectly, CreateApproval, vars

LEMMA AuditAlwaysTold == Spec => []AuditTold
<1>1. Init => AuditTold
  BY DEF Init, AuditTold
<1>2. TypeOK /\ AuditTold /\ [Next]_vars => AuditTold'
  BY AuditToldStep
<1>3. IInv => TypeOK
  BY DEF IInv
<1> QED
  BY <1>1, <1>2, <1>3, IInvAlways, PTL DEF Spec

-----------------------------------------------------------------------------
(* The orders of a lineage.                                                *)

(* The handle minted last is there for whoever goes on with the lineage.   *)
HasActive ==
  \A h \in DOMAIN handles : \E g \in DOMAIN handles :
    handles[g].active /\ handles[g].lineage = handles[h].lineage

StatusesOf(s) == [id \in Identities |-> s.records[id].status]

(* The orders of any sequence of handles.                                  *)
OrdersIn(hs) ==
  [l \in {hs[h].lineage : h \in DOMAIN hs} |->
     [id \in Identities |->
        hs[CHOOSE h \in DOMAIN hs : hs[h].active /\ hs[h].lineage = l].records[id].status]]

OneActive(hs) ==
  \A i, j \in DOMAIN hs :
    i < j /\ hs[i].lineage = hs[j].lineage => ~hs[i].active

LEMMA OrdersInHandles ==
  /\ Orders = OrdersIn(handles)
  /\ Orders' = OrdersIn(handles')
  /\ LineageNames = DOMAIN Orders
BY DEF Orders, OrdersIn, LineageNames, ActiveHandle

LEMMA OrdersOfActive ==
  ASSUME NEW hs, NEW N \in Nat, DOMAIN hs = 1 .. N, OneActive(hs),
         NEW h \in DOMAIN hs, hs[h].active
  PROVE  /\ hs[h].lineage \in DOMAIN OrdersIn(hs)
         /\ OrdersIn(hs)[hs[h].lineage] = StatusesOf(hs[h])
<1>1. ASSUME NEW g \in DOMAIN hs, hs[g].active, hs[g].lineage = hs[h].lineage
      PROVE  g = h
  <2>1. g \in Int /\ h \in Int
    OBVIOUS
  <2>2. ~(g < h) /\ ~(h < g)
    BY <1>1 DEF OneActive
  <2> QED
    BY <2>1, <2>2
<1>2. (CHOOSE g \in DOMAIN hs : hs[g].active /\ hs[g].lineage = hs[h].lineage) = h
  BY <1>1
<1> QED
  BY <1>2 DEF OrdersIn, StatusesOf

LEMMA OneActiveAlways ==
  ASSUME IInv
  PROVE  /\ OneActive(handles) /\ Len(handles) \in Nat
         /\ DOMAIN handles = 1 .. Len(handles)
BY DEF IInv, TypeOK, Lineages, LastIsActive, OneActive

LEMMA MintedActive ==
  ASSUME TypeOK, NEW h \in DOMAIN handles, NEW next \in Snapshots,
         handles' = Mint(h, next)
  PROVE  \A i \in DOMAIN handles : i # h => handles'[i] = handles[i]
<1> DEFINE spent == [handles EXCEPT ![h].active = FALSE]
<1>1. handles \in Seq(Snapshots) /\ handles[h] \in Snapshots
  BY DEF TypeOK
<1>2. [handles[h] EXCEPT !.active = FALSE] \in Snapshots
  BY <1>1 DEF Snapshots
<1>3. /\ spent \in Seq(Snapshots) /\ DOMAIN handles = 1 .. Len(handles)
      /\ Len(spent) = Len(handles)
      /\ \A i \in 1 .. Len(handles) : i # h => spent[i] = handles[i]
  BY <1>1, <1>2, ExceptSeq
<1> HIDE DEF spent
<1>4. \A i \in 1 .. Len(handles) : Append(spent, next)[i] = spent[i]
  BY <1>3, Appended
<1> QED
  BY <1>3, <1>4 DEF Mint, spent

(* A mint changes the orders of one lineage, to those of its new snapshot. *)
LEMMA MintedOrders ==
  ASSUME IInv, HasActive, IInv', NEW h \in DOMAIN handles, Handle(h),
         NEW next \in Snapshots, handles' = Mint(h, next),
         next.lineage = handles[h].lineage, next.active
  PROVE  /\ HasActive'
         /\ handles[h].lineage \in DOMAIN Orders
         /\ Orders[handles[h].lineage] = StatusesOf(handles[h])
         /\ Orders' = [Orders EXCEPT ![handles[h].lineage] = StatusesOf(next)]
<1> DEFINE new == Len(handles) + 1
           l == handles[h].lineage
<1>1. /\ DOMAIN handles' = 1 .. new /\ Len(handles) \in Nat /\ new \in Nat
      /\ DOMAIN handles = 1 .. Len(handles) /\ handles'[new] = next
      /\ \A i \in DOMAIN handles : handles'[i].lineage = handles[i].lineage
      /\ \A i \in DOMAIN handles : i # h => handles'[i] = handles[i]
  BY Minted, MintedActive DEF IInv
<1>2. handles[h].active
  BY DEF Handle
<1>3. OneActive(handles) /\ OneActive(handles')
  BY DEF IInv, Lineages, LastIsActive, OneActive
<1>4. \A i \in DOMAIN handles' : i = new \/ i \in DOMAIN handles
  BY <1>1
<1>5. new \in DOMAIN handles' /\ \A i \in DOMAIN handles : i \in DOMAIN handles'
  BY <1>1
<1>6. DOMAIN OrdersIn(handles') = DOMAIN OrdersIn(handles)
  <2>1. {handles'[i].lineage : i \in DOMAIN handles'} =
          {handles[i].lineage : i \in DOMAIN handles}
    BY <1>1, <1>4, <1>5
  <2> QED
    BY <2>1 DEF OrdersIn
<1>7. ASSUME NEW k \in DOMAIN OrdersIn(handles), k # l
      PROVE  \E g \in DOMAIN handles :
               /\ handles[g].active /\ handles[g].lineage = k
               /\ handles'[g] = handles[g]
  <2>1. PICK i \in DOMAIN handles : handles[i].lineage = k
    BY DEF OrdersIn
  <2>2. PICK g \in DOMAIN handles : handles[g].active /\ handles[g].lineage = k
    BY <2>1 DEF HasActive
  <2>3. g # h
    BY <1>7, <2>2
  <2> QED
    BY <1>1, <2>2, <2>3
<1>8. OrdersIn(handles')[l] = StatusesOf(next)
  <2>1. handles'[new].active /\ handles'[new].lineage = l
    BY <1>1
  <2> HIDE DEF new, l
  <2> QED
    BY <1>1, <1>3, <1>5, <2>1, OrdersOfActive
<1>9. OrdersIn(handles)[l] = StatusesOf(handles[h]) /\ l \in DOMAIN OrdersIn(handles)
  BY <1>1, <1>2, <1>3, OrdersOfActive
<1>10. ASSUME NEW k \in DOMAIN OrdersIn(handles), k # l
       PROVE  OrdersIn(handles')[k] = OrdersIn(handles)[k]
  <2>1. PICK g \in DOMAIN handles :
          /\ handles[g].active /\ handles[g].lineage = k /\ handles'[g] = handles[g]
    BY <1>7, <1>10
  <2> HIDE DEF new, l
  <2>2. OrdersIn(handles)[k] = StatusesOf(handles[g])
    BY <1>1, <1>3, <2>1, OrdersOfActive
  <2>3. OrdersIn(handles')[k] = StatusesOf(handles'[g])
    BY <1>1, <1>3, <1>5, <2>1, OrdersOfActive
  <2> QED
    BY <2>1, <2>2, <2>3
<1>11. OrdersIn(handles') = [OrdersIn(handles) EXCEPT ![l] = StatusesOf(next)]
  <2> DEFINE old == OrdersIn(handles)
             now == OrdersIn(handles')
  <2>1. now = [k \in DOMAIN now |-> now[k]] /\ old = [k \in DOMAIN old |-> old[k]]
    BY DEF OrdersIn
  <2> HIDE DEF old, now
  <2>2. DOMAIN now = DOMAIN old /\ now[l] = StatusesOf(next)
        /\ \A k \in DOMAIN old : k # l => now[k] = old[k]
    BY <1>6, <1>8, <1>10 DEF old, now
  <2>3. now = [old EXCEPT ![l] = StatusesOf(next)]
    <3> HIDE DEF l
    <3> QED BY <2>1, <2>2
  <2> QED
    BY <2>3 DEF old, now
<1>12. HasActive'
  <2> SUFFICES ASSUME NEW i \in DOMAIN handles'
               PROVE  \E g \in DOMAIN handles' :
                        handles'[g].active /\ handles'[g].lineage = handles'[i].lineage
    BY DEF HasActive
  <2>1. CASE handles'[i].lineage = l
    BY <1>1, <1>5, <2>1
  <2>2. CASE handles'[i].lineage # l
    <3>1. handles'[i].lineage \in DOMAIN OrdersIn(handles)
      BY <1>6 DEF OrdersIn
    <3>2. PICK g \in DOMAIN handles :
            /\ handles[g].active /\ handles[g].lineage = handles'[i].lineage
            /\ handles'[g] = handles[g]
      BY <1>7, <2>2, <3>1
    <3> QED
      BY <1>5, <3>2
  <2> QED
    BY <2>1, <2>2
<1> QED
  BY <1>9, <1>11, <1>12, OrdersInHandles

LEMMA CreatedOrders ==
  ASSUME IInv, HasActive, IInv', Create
  PROVE  HasActive' /\ Shadow!Next
<1> DEFINE new == Len(handles) + 1
           fresh == [lineage |-> new, active |-> TRUE, audit |-> <<>>,
                     records |-> [id \in Identities |-> NoRecord],
                     tombstones |-> [id \in Identities |-> 0]]
<1>1. /\ handles \in Seq(Snapshots) /\ Len(handles) \in Nat /\ new \in Nat
      /\ DOMAIN handles = 1 .. Len(handles)
  BY DEF IInv, TypeOK
<1>2. /\ fresh \in Snapshots /\ fresh.lineage = new /\ fresh.active
      /\ StatusesOf(fresh) = [id \in Identities |-> "created"]
  BY <1>1 DEF Snapshots, Records, Statuses, NoRecord, StatusesOf
<1>3. /\ handles' = Append(handles, fresh) /\ approvals' = approvals
      /\ routed' = routed /\ new \in 1 .. MaxHandles
  BY <1>1, RouterAssumption DEF Create
<1> HIDE DEF fresh
<1>4. /\ DOMAIN handles' = 1 .. new
      /\ handles'[new] = fresh /\ \A i \in DOMAIN handles : handles'[i] = handles[i]
  BY <1>1, <1>2, <1>3, Appended
<1>5. /\ new \in DOMAIN handles' /\ \A i \in DOMAIN handles : i \in DOMAIN handles'
      /\ \A i \in DOMAIN handles' : i = new \/ i \in DOMAIN handles
  BY <1>1, <1>4
<1>6. OneActive(handles) /\ OneActive(handles')
  BY DEF IInv, Lineages, LastIsActive, OneActive
<1>7. \A i \in DOMAIN handles : handles[i].lineage # new
  <2> SUFFICES ASSUME NEW i \in DOMAIN handles PROVE handles[i].lineage # new
    OBVIOUS
  <2>1. handles[i].lineage <= i /\ handles[i].lineage \in Nat /\ i <= Len(handles)
    BY <1>1, SnapshotFields DEF IInv, Lineages, NamedAfterFirst
  <2> QED
    BY <1>1, <2>1
<1> DEFINE old == OrdersIn(handles)
           now == OrdersIn(handles')
<1>8. DOMAIN now = DOMAIN old \cup {new} /\ new \notin DOMAIN old
  <2>1. {handles'[i].lineage : i \in DOMAIN handles'} =
          {handles[i].lineage : i \in DOMAIN handles} \cup {new}
    BY <1>2, <1>4, <1>5
  <2> QED
    BY <1>7, <2>1 DEF OrdersIn
<1>9. now[new] = [id \in Identities |-> "created"]
  <2> HIDE DEF new
  <2>1. now[new] = StatusesOf(fresh)
    BY <1>1, <1>2, <1>4, <1>5, <1>6, OrdersOfActive
  <2> QED
    BY <1>2, <2>1
<1>10. ASSUME NEW k \in DOMAIN old PROVE now[k] = old[k]
  <2>1. PICK i \in DOMAIN handles : handles[i].lineage = k
    BY DEF OrdersIn
  <2>2. PICK g \in DOMAIN handles : handles[g].active /\ handles[g].lineage = k
    BY <2>1 DEF HasActive
  <2> HIDE DEF new
  <2>3. old[k] = StatusesOf(handles[g])
    BY <1>1, <1>6, <2>2, OrdersOfActive
  <2>4. now[k] = StatusesOf(handles'[g])
    BY <1>1, <1>4, <1>5, <1>6, <2>2, OrdersOfActive
  <2> QED
    BY <1>4, <2>3, <2>4
<1>11. now = [k \in DOMAIN old \cup {new} |->
                IF k = new THEN [id \in Identities |-> "created"] ELSE old[k]]
  <2>1. now = [k \in DOMAIN now |-> now[k]]
    BY DEF OrdersIn
  <2> HIDE DEF now, old, new
  <2> QED
    BY <1>8, <1>9, <1>10, <2>1
<1>12. HasActive'
  <2> SUFFICES ASSUME NEW i \in DOMAIN handles'
               PROVE  \E g \in DOMAIN handles' :
                        handles'[g].active /\ handles'[g].lineage = handles'[i].lineage
    BY DEF HasActive
  <2>1. CASE i = new
    BY <1>2, <1>4, <1>5, <2>1
  <2>2. CASE i \in DOMAIN handles
    BY <1>4, <1>5, <2>2 DEF HasActive
  <2> QED
    BY <1>5, <2>1, <2>2
<1> HIDE DEF new, now, old
<1>13. Shadow!Open(new)
  <2>1. Permits' = Permits
    BY <1>3 DEF Permits, IdentityOf
  <2> QED
    BY <1>3, <1>8, <1>11, <2>1, OrdersInHandles DEF Shadow!Open, Shadow!None, now, old
<1> QED
  BY <1>3, <1>12, <1>13 DEF Shadow!Next

(* A mint that moves one order forward, and one that moves none.           *)
LEMMA AdvancedOrders ==
  ASSUME IInv, HasActive, IInv', NEW h \in DOMAIN handles, Handle(h),
         NEW next \in Snapshots, handles' = Mint(h, next),
         next.lineage = handles[h].lineage, next.active,
         NEW id \in Identities, NEW status,
         StatusesOf(next) = [StatusesOf(handles[h]) EXCEPT ![id] = status],
         handles[h].records[id].status = Shadow!Before[status]
  PROVE  /\ HasActive'
         /\ handles[h].lineage \in DOMAIN Orders
         /\ Shadow!Advance(handles[h].lineage, id, status)
<1> DEFINE l == handles[h].lineage
<1>1. /\ HasActive' /\ l \in DOMAIN Orders
      /\ Orders[l] = StatusesOf(handles[h])
      /\ Orders' = [Orders EXCEPT ![l] = StatusesOf(next)]
  BY MintedOrders
<1>2. Orders[l][id] = handles[h].records[id].status
  BY <1>1 DEF StatusesOf
<1> HIDE DEF l
<1>3. Orders' = [Orders EXCEPT ![l][id] = status]
  BY <1>1
<1> QED
  BY <1>1, <1>2, <1>3 DEF Shadow!Advance, l

LEMMA ReservedOrders ==
  ASSUME IInv, AuditTold, HasActive, IInv', NEW h \in DOMAIN handles,
         NEW id \in Identities, Reserve(h, id)
  PROVE  /\ HasActive'
         /\ handles[h].lineage \in DOMAIN Orders
         /\ \/ /\ Shadow!Advance(handles[h].lineage, id, "reserved")
               /\ ReserveOutcome(h, id) = "reserved"
            \/ /\ Orders' = Orders
               /\ Orders[handles[h].lineage][id] # "created"
               /\ ReserveOutcome(h, id) = "duplicateRejected"
<1> DEFINE next == SnapshotAfterReserve(h, id)
           l == handles[h].lineage
<1>1. Handle(h) /\ handles' = Mint(h, next) /\ handles[h].active
  BY DEF Reserve, Handle
<1>2. /\ next \in Snapshots /\ next.lineage = l
      /\ ReserveOutcome(h, id) =
           IF Reserved(handles[h], id) THEN "duplicateRejected" ELSE "reserved"
  BY Reservation DEF IInv
<1>3. /\ handles[h] \in Snapshots /\ handles[h].records \in [Identities -> Records]
  BY SnapshotFields DEF IInv
<1>4. Reserved(handles[h], id) <=> handles[h].records[id].status # "created"
  BY DEF AuditTold, Told
<1>5. CASE Reserved(handles[h], id)
  <2>1. next = [handles[h] EXCEPT !.audit = Logged(h, id, "duplicateRejected")]
    BY <1>5 DEF SnapshotAfterReserve
  <2>2. next.active /\ StatusesOf(next) = StatusesOf(handles[h])
    BY <1>1, <1>3, <2>1 DEF Snapshots, StatusesOf
  <2> HIDE DEF next
  <2>3. /\ HasActive' /\ l \in DOMAIN Orders
        /\ Orders[l] = StatusesOf(handles[h])
        /\ Orders' = [Orders EXCEPT ![l] = StatusesOf(next)]
    BY <1>1, <1>2, <2>2, MintedOrders
  <2>4. Orders = [k \in DOMAIN Orders |-> Orders[k]]
    BY DEF Orders
  <2>5. Orders' = Orders
    <3> HIDE DEF l
    <3> QED BY <2>2, <2>3, <2>4
  <2>6. Orders[l][id] # "created"
    BY <1>4, <1>5, <2>3 DEF StatusesOf
  <2> QED
    BY <1>2, <1>5, <2>3, <2>5, <2>6
<1>6. CASE ~Reserved(handles[h], id)
  <2> DEFINE record == [status |-> "reserved", version |-> 1]
  <2>1. next = [handles[h] EXCEPT !.records[id] = record,
                                  !.tombstones[id] = Len(handles[h].audit) + 1,
                                  !.audit = Logged(h, id, "reserved")]
    BY <1>6 DEF SnapshotAfterReserve
  <2>2. next.active /\ next.records = [handles[h].records EXCEPT ![id] = record]
    BY <1>1, <1>3, <2>1 DEF Snapshots
  <2>3. StatusesOf(next) = [StatusesOf(handles[h]) EXCEPT ![id] = "reserved"]
    <3>1. next.records \in [Identities -> Records \cup {record}]
      BY <1>3, <2>2
    <3>2. \A other \in Identities :
            next.records[other].status =
              IF other = id THEN "reserved" ELSE handles[h].records[other].status
      BY <1>3, <2>2
    <3> HIDE DEF next
    <3> QED
      BY <3>2 DEF StatusesOf
  <2>4. handles[h].records[id].status = Shadow!Before["reserved"]
    BY <1>4, <1>6 DEF Shadow!Before, Shadow!None
  <2> HIDE DEF next
  <2>5. /\ HasActive' /\ l \in DOMAIN Orders
        /\ Shadow!Advance(l, id, "reserved")
    BY <1>1, <1>2, <2>2, <2>3, <2>4, AdvancedOrders
  <2> QED
    BY <1>2, <1>6, <2>5
<1> QED
  BY <1>5, <1>6

LEMMA TransitionOrders ==
  ASSUME IInv, HasActive, IInv', NEW h \in DOMAIN handles, NEW id \in Identities,
         NEW status \in Statuses \ {"reserved"}, Transition(h, id, status)
  PROVE  HasActive' /\ Shadow!Next
<1> DEFINE recs == [handles[h].records EXCEPT
                      ![id].status = status, ![id].version = @ + 1]
           next == [handles[h] EXCEPT !.records[id].status = status,
                                      !.records[id].version = @ + 1,
                                      !.audit = Logged(h, id, status)]
<1>1. /\ Handle(h) /\ handles' = Mint(h, next) /\ handles[h].active
      /\ approvals' = approvals /\ routed' = routed
      /\ handles[h].records[id].status = StatusBefore(status)
  BY DEF Transition, Handle
<1>2. Logged(h, id, status) \in Seq(Events)
  BY LoggedTyped DEF IInv
<1>3. handles[h] \in Snapshots /\ handles[h].records \in [Identities -> Records]
  BY SnapshotFields DEF IInv
<1>4. /\ recs \in [Identities -> Records]
      /\ \A other \in Identities :
           recs[other].status = IF other = id THEN status
                                ELSE handles[h].records[other].status
  BY <1>3 DEF Records
<1>5. next = [handles[h] EXCEPT !.records = recs, !.audit = Logged(h, id, status)]
  OBVIOUS
<1> HIDE DEF next, recs
<1>6. /\ next \in Snapshots /\ next.lineage = handles[h].lineage
      /\ next.active /\ next.records = recs
  BY <1>1, <1>2, <1>3, <1>4, <1>5 DEF Snapshots
<1>7. StatusesOf(next) = [StatusesOf(handles[h]) EXCEPT ![id] = status]
  BY <1>4, <1>6 DEF StatusesOf
<1>8. handles[h].records[id].status = Shadow!Before[status]
  BY <1>1 DEF StatusBefore, Shadow!Before, Shadow!None, Statuses
<1>9. /\ HasActive' /\ handles[h].lineage \in DOMAIN Orders
      /\ Shadow!Advance(handles[h].lineage, id, status)
  BY <1>1, <1>6, <1>7, <1>8, AdvancedOrders
<1>10. status \in DOMAIN Shadow!Before
  BY DEF Shadow!Before, Statuses
<1>11. Permits' = Permits
  BY <1>1 DEF Permits, IdentityOf
<1> QED
  BY <1>1, <1>9, <1>10, <1>11 DEF Shadow!Next

LEMMA AppendedFunction ==
  ASSUME NEW S, NEW s \in Seq(S), NEW e \in S
  PROVE  Append(s, e) = [i \in 1 .. Len(s) + 1 |-> IF i = Len(s) + 1 THEN e ELSE s[i]]
<1>1. /\ Append(s, e) \in Seq(S) /\ Len(Append(s, e)) = Len(s) + 1
      /\ DOMAIN Append(s, e) = 1 .. Len(s) + 1
      /\ Append(s, e)[Len(s) + 1] = e /\ Len(s) \in Nat
      /\ \A i \in 1 .. Len(s) : Append(s, e)[i] = s[i]
  BY Appended
<1>2. Append(s, e) = [i \in 1 .. Len(s) + 1 |-> Append(s, e)[i]]
  <2> DEFINE t == Append(s, e)
  <2>1. t \in Seq(S) /\ Len(t) = Len(s) + 1
    BY <1>1
  <2> HIDE DEF t
  <2>2. t = [i \in 1 .. Len(t) |-> t[i]]
    BY <2>1
  <2> QED
    BY <2>1, <2>2 DEF t
<1>3. \A i \in 1 .. Len(s) + 1 : i = Len(s) + 1 \/ i \in 1 .. Len(s)
  BY <1>1
<1>4. \A i \in 1 .. Len(s) + 1 : Append(s, e)[i] = IF i = Len(s) + 1 THEN e ELSE s[i]
  BY <1>1, <1>3
<1> QED
  BY <1>2, <1>4

LEMMA PermittedOrders ==
  ASSUME IInv, NEW s \in Scenarios, NEW intent \in Evaluations,
         NEW authority \in Evaluations, CreateApproval(s, intent, authority)
  PROVE  Shadow!Next
<1> DEFINE fixture == [scenario |-> s, evaluation |-> intent, active |-> TRUE]
           id == <<s, IntentHash[intent]>>
           permit == [identity |-> id, used |-> FALSE]
           new == Len(approvals) + 1
<1>1. /\ approvals' = Append(approvals, fixture) /\ handles' = handles
      /\ routed' = routed /\ intent \in Approved
  BY DEF CreateApproval, Verified
<1>2. approvals \in Seq(Approval) /\ fixture \in Approval
  BY DEF IInv, TypeOK, Approval
<1>3. /\ DOMAIN approvals' = 1 .. new /\ approvals'[new] = fixture
      /\ DOMAIN approvals = 1 .. Len(approvals) /\ Len(approvals) \in Nat
      /\ \A a \in DOMAIN approvals : approvals'[a] = approvals[a]
  <2> HIDE DEF fixture
  <2> QED BY <1>1, <1>2, Appended
<1>4. Len(Permits) = Len(approvals)
      /\ Append(Permits, permit) =
           [a \in 1 .. new |-> IF a = new THEN permit ELSE Permits[a]]
  <2> DEFINE S == {Permits[a] : a \in 1 .. Len(approvals)} \cup {permit}
  <2>1. Permits = [a \in 1 .. Len(approvals) |-> Permits[a]]
    BY <1>3 DEF Permits
  <2> HIDE DEF permit
  <2>2. Permits \in Seq(S) /\ Len(Permits) = Len(approvals) /\ permit \in S
    BY <1>3, <2>1
  <2> HIDE DEF S
  <2> QED
    BY <1>3, <2>2, AppendedFunction
<1>5. Permits' = Append(Permits, permit)
  <2>1. Append(Permits, permit) =
          [a \in 1 .. new |-> IF a = new THEN permit ELSE Permits[a]]
    BY <1>4
  <2>2. Permits' = [a \in 1 .. new |->
          [identity |-> <<approvals'[a].scenario, IntentHash[approvals'[a].evaluation]>>,
           used |-> ~approvals'[a].active]]
    BY <1>3 DEF Permits, IdentityOf
  <2>3. ASSUME NEW a \in 1 .. new
        PROVE  [identity |-> <<approvals'[a].scenario, IntentHash[approvals'[a].evaluation]>>,
                used |-> ~approvals'[a].active] =
               IF a = new THEN permit ELSE Permits[a]
    <3>1. CASE a = new
      <4>1. /\ approvals'[a].scenario = s /\ approvals'[a].evaluation = intent
            /\ approvals'[a].active = TRUE
        BY <1>3, <3>1
      <4>2. (~approvals'[a].active) = FALSE
        BY <4>1
      <4> QED
        BY <3>1, <4>1, <4>2
    <3>2. CASE a # new
      <4>1. a \in DOMAIN approvals
        BY <1>3, <3>2
      <4>2. approvals'[a] = approvals[a]
        BY <1>3, <4>1
      <4> QED
        BY <3>2, <4>1, <4>2 DEF Permits, IdentityOf
    <3> QED
      BY <3>1, <3>2
  <2> QED
    BY <2>1, <2>2, <2>3
<1>6. Orders' = Orders
  BY <1>1, OrdersInHandles
<1>7. id \in {<<t, IntentHash[e]>> : t \in Scenarios, e \in Approved}
  BY <1>1
<1> HIDE DEF id
<1>8. Shadow!Permit(id)
  BY <1>1, <1>5, <1>6 DEF Shadow!Permit
<1> QED
  BY <1>7, <1>8 DEF Shadow!Next

LEMMA PermitUsed ==
  ASSUME NEW id, NEW used \in BOOLEAN, NEW permit,
         permit = [identity |-> id, used |-> used]
  PROVE  [permit EXCEPT !.used = TRUE] = [identity |-> id, used |-> TRUE]
<1> DEFINE spent == [permit EXCEPT !.used = TRUE]
<1>1. permit \in [identity : {id}, used : BOOLEAN]
  OBVIOUS
<1>2. /\ spent \in [identity : {id}, used : BOOLEAN]
      /\ spent.identity = id /\ spent.used = TRUE
  BY <1>1
<1> HIDE DEF spent
<1>3. spent = [identity |-> spent.identity, used |-> spent.used]
  BY <1>2
<1> QED
  BY <1>2, <1>3 DEF spent

LEMMA RoutedOrders ==
  ASSUME IInv, AuditTold, HasActive, IInv', NEW s \in Scenarios,
         NEW intent \in Evaluations, NEW authority \in Evaluations,
         NEW a \in DOMAIN approvals, NEW h \in DOMAIN handles,
         Route(a, s, intent, authority, h)
  PROVE  HasActive' /\ Shadow!Next
<1> DEFINE id == <<s, IntentHash[intent]>>
           l == handles[h].lineage
<1>1. /\ approvals[a].active /\ approvals[a].evaluation = intent
      /\ approvals[a].scenario = s
      /\ approvals' = [approvals EXCEPT ![a].active = FALSE]
  BY DEF Route, Binds
<1>2. id \in Identities
  BY DEF Identities
<1>3. approvals \in Seq(Approval) /\ approvals[a] \in Approval
  <2>1. approvals \in Seq(Approval)
    BY DEF IInv, TypeOK, Approval
  <2> QED
    BY <2>1
<1>4. a \in DOMAIN Permits /\ ~Permits[a].used /\ Permits[a].identity = id
  BY <1>1, <1>3 DEF Permits, IdentityOf, Approval
<1>5. Permits' = [Permits EXCEPT ![a].used = TRUE]
  <2>1. DOMAIN approvals' = DOMAIN approvals
    BY <1>1
  <2>2. ASSUME NEW b \in DOMAIN approvals
        PROVE  [identity |-> <<approvals'[b].scenario, IntentHash[approvals'[b].evaluation]>>,
                used |-> ~approvals'[b].active] =
               IF b = a THEN [Permits[a] EXCEPT !.used = TRUE] ELSE Permits[b]
    <3>1. CASE b = a
      <4>1. approvals'[a] = [approvals[a] EXCEPT !.active = FALSE]
        BY <1>1
      <4>2. /\ approvals'[a].scenario = s /\ approvals'[a].evaluation = intent
            /\ approvals'[a].active = FALSE
        BY <1>1, <1>3, <4>1 DEF Approval
      <4>3. Permits[a] = [identity |-> id, used |-> ~approvals[a].active]
        BY <1>1 DEF Permits, IdentityOf
      <4>4. [Permits[a] EXCEPT !.used = TRUE] = [identity |-> id, used |-> TRUE]
        <5> DEFINE used == ~approvals[a].active
        <5>1. used \in BOOLEAN
          OBVIOUS
        <5> HIDE DEF id, used
        <5> QED
          BY <4>3, <5>1, PermitUsed DEF used
      <4>5. (~approvals'[a].active) = TRUE
        BY <4>2
      <4> QED
        BY <3>1, <4>2, <4>4, <4>5
    <3>2. CASE b # a
      <4>1. approvals'[b] = approvals[b]
        BY <1>1, <3>2
      <4> QED
        BY <3>2, <4>1 DEF Permits, IdentityOf
    <3> QED
      BY <3>1, <3>2
  <2>3. Permits' = [b \in DOMAIN approvals |->
          [identity |-> <<approvals'[b].scenario, IntentHash[approvals'[b].evaluation]>>,
           used |-> ~approvals'[b].active]]
    BY <2>1 DEF Permits, IdentityOf
  <2>4. Permits' = [b \in DOMAIN approvals |->
          IF b = a THEN [Permits[a] EXCEPT !.used = TRUE] ELSE Permits[b]]
    BY <2>2, <2>3
  <2>5. Permits = [b \in DOMAIN approvals |-> Permits[b]]
    BY DEF Permits
  <2> HIDE DEF id
  <2> QED
    BY <2>4, <2>5
<1>6. Shadow!Use(a)
  BY <1>4, <1>5 DEF Shadow!Use
<1>7. CASE handles' = handles /\ routed' = routed
  <2>1. Orders' = Orders /\ HasActive'
    BY <1>7, OrdersInHandles DEF HasActive
  <2> QED
    BY <1>4, <1>6, <1>7, <2>1 DEF Shadow!Next, Shadow!Waste
<1>8. CASE /\ Reserve(h, id)
           /\ routed' = Append(routed,
                [approval |-> a, lineage |-> l, identity |-> id,
                 outcome |-> ReserveOutcome(h, id)])
  <2> HIDE DEF id, l
  <2>1. /\ HasActive' /\ l \in DOMAIN Orders
        /\ \/ /\ Shadow!Advance(l, id, "reserved")
              /\ ReserveOutcome(h, id) = "reserved"
           \/ /\ Orders' = Orders /\ Orders[l][id] # "created"
              /\ ReserveOutcome(h, id) = "duplicateRejected"
    BY <1>2, <1>8, ReservedOrders DEF l
  <2>2. CASE Shadow!Advance(l, id, "reserved") /\ ReserveOutcome(h, id) = "reserved"
    BY <1>4, <1>6, <1>8, <2>1, <2>2 DEF Shadow!Next, Shadow!Validate, Shadow!Return
  <2>3. CASE /\ Orders' = Orders /\ Orders[l][id] # "created"
             /\ ReserveOutcome(h, id) = "duplicateRejected"
    BY <1>4, <1>6, <1>8, <2>1, <2>3
       DEF Shadow!Next, Shadow!Repeat, Shadow!Return, Shadow!None
  <2> QED
    BY <2>1, <2>2, <2>3
<1> QED
  BY <1>7, <1>8 DEF Route

LEMMA NextOrders ==
  ASSUME IInv, AuditTold, HasActive, IInv', [Next]_vars
  PROVE  HasActive' /\ [Shadow!Next]_(Shadow!vars)
<1>1. CASE Create
  BY <1>1, CreatedOrders
<1>2. ASSUME NEW h \in DOMAIN handles, NEW id \in Identities, ReserveDirectly(h, id)
      PROVE  HasActive' /\ [Shadow!Next]_(Shadow!vars)
  <2>1. Reserve(h, id) /\ approvals' = approvals /\ routed' = routed
    BY <1>2 DEF ReserveDirectly
  <2>2. Permits' = Permits
    BY <2>1 DEF Permits, IdentityOf
  <2>3. /\ HasActive' /\ handles[h].lineage \in DOMAIN Orders
        /\ Shadow!Advance(handles[h].lineage, id, "reserved") \/ Orders' = Orders
    BY <2>1, ReservedOrders
  <2>4. "reserved" \in DOMAIN Shadow!Before
    BY DEF Shadow!Before
  <2> QED
    BY <2>1, <2>2, <2>3, <2>4 DEF Shadow!Next, Shadow!vars
<1>3. ASSUME NEW h \in DOMAIN handles, NEW id \in Identities,
             NEW next \in Statuses \ {"reserved"}, Transition(h, id, next)
      PROVE  HasActive' /\ Shadow!Next
  BY <1>3, TransitionOrders
<1>4. ASSUME NEW s \in Scenarios, NEW intent \in Evaluations,
             NEW authority \in Evaluations, CreateApproval(s, intent, authority)
      PROVE  HasActive' /\ Shadow!Next
  <2>1. handles' = handles
    BY <1>4 DEF CreateApproval
  <2> QED
    BY <1>4, <2>1, PermittedOrders DEF HasActive
<1>5. ASSUME NEW s \in Scenarios, NEW intent \in Evaluations,
             NEW authority \in Evaluations, NEW a \in DOMAIN approvals,
             NEW h \in DOMAIN handles, Route(a, s, intent, authority, h)
      PROVE  HasActive' /\ Shadow!Next
  BY <1>5, RoutedOrders
<1>6. CASE UNCHANGED vars
  <2>1. handles' = handles /\ approvals' = approvals /\ routed' = routed
    BY <1>6 DEF vars
  <2> QED
    BY <2>1, OrdersInHandles DEF HasActive, Permits, IdentityOf, Shadow!vars
<1> QED
  BY <1>1, <1>2, <1>3, <1>4, <1>5, <1>6 DEF Next

-----------------------------------------------------------------------------
(* Every variable keeps its type.                                          *)
THEOREM TypesAlways == Spec => []TypeOK
<1>1. IInv => TypeOK
  BY DEF IInv
<1> QED
  BY <1>1, IInvAlways, PTL

(* No branch of a lineage survives: a handle used again is refused, so     *)
(* every later snapshot continues every earlier audit.                     *)
THEOREM LineagesAlwaysLinear == Spec => []LineageIsLinear
<1>1. IInv => LineageIsLinear
  BY DEF IInv, Lineages
<1> QED
  BY <1>1, IInvAlways, PTL

(* An order is validated at most once in a lineage.                        *)
THEOREM AlwaysValidatedOnce == Spec => []ValidatedOnce
<1>1. IInv => ValidatedOnce
  BY DEF IInv
<1> QED
  BY <1>1, IInvAlways, PTL

(* An approval leads to one result at most, the one it was given for.      *)
THEOREM ApprovalAlwaysSpentOnce == Spec => []ApprovalSpentOnce
<1>1. IInv => ApprovalSpentOnce
  BY DEF IInv
<1> QED
  BY <1>1, IInvAlways, PTL

(* The audit alone tells the status and the version of every record and    *)
(* which event reserved it, however long the lineage is.                   *)
THEOREM AuditAlwaysExplains == Spec => []AuditExplainsRecords
<1>1. AuditTold => AuditExplainsRecords
  BY DEF AuditTold, Told, Explained, AuditExplainsRecords
<1> QED
  BY <1>1, AuditAlwaysTold, PTL

(* What callers see of the router is what ShadowOrders says: every mint is *)
(* a step of one order forward or no step at all, and a result "reserved"  *)
(* is the step that reserved the order.                                    *)
THEOREM RouterImplementsOrders == Spec => ImplementsOrders
<1>1. Init => Shadow!Init /\ HasActive
  <2> SUFFICES ASSUME Init PROVE Shadow!Init /\ HasActive
    OBVIOUS
  <2>1. handles = <<>> /\ approvals = <<>> /\ routed = <<>>
    BY DEF Init
  <2>2. DOMAIN handles = {} /\ DOMAIN approvals = {}
    BY <2>1
  <2>3. {handles[i].lineage : i \in DOMAIN handles} = {}
    BY <2>2
  <2>4. Orders = [l \in {} |-> Shadow!None]
    BY <2>3, OrdersInHandles DEF OrdersIn
  <2>5. Permits = <<>>
    BY <2>1, <2>2 DEF Permits
  <2> QED
    BY <2>1, <2>2, <2>4, <2>5 DEF Shadow!Init, HasActive
<1>2. /\ IInv /\ IInv' /\ AuditTold /\ HasActive /\ [Next]_vars
      => HasActive' /\ [Shadow!Next]_(Shadow!vars)
  BY NextOrders
<1> QED
  BY <1>1, <1>2, IInvAlways, AuditAlwaysTold, PTL
     DEF Spec, ImplementsOrders, Shadow!Spec
=============================================================================
