----------------------- MODULE PaperApplicationProofs -----------------------
(***************************************************************************)
(* Proofs about PaperApplication, for any number of processes, portfolios  *)
(* and decisions of any length: types, fenced effects, safe retries, no    *)
(* wait cycle, a history that always verifies, one application per         *)
(* revision, a receipt for all that is applied, headway in every step with *)
(* nobody stuck, and the implementation of PortfolioLedger.                *)
(***************************************************************************)
EXTENDS PaperApplicationInvariants, SequenceTheorems, WellFoundedInduction, TLAPS

-----------------------------------------------------------------------------
(* Frames: how an action changes what a run has written.                   *)

(* An append to one log adds one record and keeps the others.              *)
LEMMA LogByAppend ==
  ASSUME log \in [Logs -> Seq(LogRecords \cup {Torn})], NEW l \in Logs, NEW rec,
         log' = [log EXCEPT ![l] = Append(@, rec)],
         NEW k \in Logs, NEW i \in DOMAIN log'[k]
  PROVE  \/ i \in DOMAIN log[k] /\ log'[k][i] = log[k][i]
         \/ k = l /\ log'[k][i] = rec
OBVIOUS

(* An append to one log adds at most the effect it appends.                *)
LEMMA EffectsByAppend ==
  ASSUME log \in [Logs -> Seq(LogRecords \cup {Torn})], NEW l \in Logs, NEW rec,
         log' = [log EXCEPT ![l] = Append(@, rec)], NEW r \in Runs
  PROVE  HasEffects(r)' <=> HasEffects(r) \/ IsEffectOf(rec, r)
<1>1. ASSUME HasEffects(r)' PROVE HasEffects(r) \/ IsEffectOf(rec, r)
  BY <1>1 DEF HasEffects, IsEffectOf
<1>2. ASSUME HasEffects(r) PROVE HasEffects(r)'
  BY <1>2 DEF HasEffects, IsEffectOf
<1>3. ASSUME IsEffectOf(rec, r) PROVE HasEffects(r)'
  <2>1. Len(log[l]) + 1 \in DOMAIN log'[l] /\ log'[l][Len(log[l]) + 1] = rec
    OBVIOUS
  <2>. QED  BY <1>3, <2>1 DEF HasEffects, IsEffectOf
<1>. QED  BY <1>1, <1>2, <1>3

(* Logs that do not change keep their effects.                             *)
LEMMA EffectsFrame ==
  ASSUME log' = log, NEW r \in Runs
  PROVE  HasEffects(r)' <=> HasEffects(r)
BY DEF HasEffects, IsEffectOf

(* A journal entry commits the run it names and no other.                  *)
LEMMA CommittedByAppend ==
  ASSUME journal \in Seq(Entries \cup {Torn}), NEW e,
         journal' = Append(journal, e),
         NEW r \in Runs
  PROVE  Committed(r)' <=> Committed(r) \/ (e # Torn /\ e.application = r)
<1>1. /\ Len(journal) + 1 \in DOMAIN journal'
      /\ journal'[Len(journal) + 1] = e
      /\ \A i \in DOMAIN journal :
           i \in DOMAIN journal' /\ journal'[i] = journal[i]
      /\ \A i \in DOMAIN journal' : i \in DOMAIN journal \/ i = Len(journal) + 1
  OBVIOUS
<1>. QED  BY <1>1 DEF Committed

(* A journal that does not change commits nothing.                         *)
LEMMA CommittedFrame ==
  ASSUME journal' = journal, NEW r \in Runs
  PROVE  Committed(r)' <=> Committed(r)
BY DEF Committed

-----------------------------------------------------------------------------
(* The script of a decision, and the suffix of each log.                   *)

(* A set of naturals closed under successor is all of them: a smallest     *)
(* natural outside it would have its predecessor inside.                   *)
LEMMA NaturalsAllIn ==
  ASSUME NEW T, 0 \in T, \A n \in Nat : n \in T => n + 1 \in T
  PROVE  Nat \subseteq T
<1> DEFINE U == {n \in Nat : n \notin T}
<1> SUFFICES ASSUME U # {} PROVE FALSE
  OBVIOUS
<1>1. IsWellFoundedOn(OpToRel(<, Nat), Nat)
  BY NatLessThanWellFounded
<1>2. U \subseteq Nat
  OBVIOUS
<1>3. PICK n \in U : \A m \in U : <<m, n>> \notin OpToRel(<, Nat)
  <2> HIDE DEF U
  <2> QED BY <1>1, <1>2, WFMin
<1>4. n # 0 /\ n - 1 \in Nat /\ n - 1 + 1 = n
  OBVIOUS
<1>5. n - 1 \notin T
  BY <1>4
<1>6. n - 1 \in U /\ n - 1 < n
  BY <1>4, <1>5
<1> QED
  BY <1>3, <1>4, <1>6 DEF OpToRel

(* The elements of a typed sequence.                                       *)
LEMMA ElementsOf ==
  ASSUME NEW T, NEW s \in Seq(T)
  PROVE  Len(s) \in Nat /\ DOMAIN s = 1 .. Len(s) /\ \A i \in 1 .. Len(s) : s[i] \in T
OBVIOUS

(* The concatenations of the first sequences of ss, N of them.             *)
PartialFlatten(S, ss, N, f) ==
  /\ f \in [0 .. N -> Seq(S)]
  /\ f[0] = <<>>
  /\ \A i \in Nat : i < N => f[i + 1] = f[i] \o ss[i + 1]

(* The partial concatenations exist, up to any length.                     *)
LEMMA PartialExists ==
  ASSUME NEW S, NEW ss \in Seq(Seq(S)), NEW N \in Nat, N <= Len(ss)
  PROVE  \E f : PartialFlatten(S, ss, N, f)
<1> DEFINE T == {n \in Nat : n <= Len(ss) => \E f : PartialFlatten(S, ss, n, f)}
<1>1. 0 \in T
  <2> DEFINE f == [i \in 0 .. 0 |-> <<>>]
  <2>1. f \in [0 .. 0 -> Seq(S)] /\ f[0] = <<>>
    OBVIOUS
  <2> HIDE DEF f
  <2>2. \A i \in Nat : ~(i < 0)
    OBVIOUS
  <2>3. PartialFlatten(S, ss, 0, f)
    BY <2>1, <2>2, Zenon DEF PartialFlatten
  <2> QED
    BY <2>3
<1>2. ASSUME NEW n \in Nat, n \in T PROVE n + 1 \in T
  <2> SUFFICES ASSUME n + 1 <= Len(ss) PROVE \E f : PartialFlatten(S, ss, n + 1, f)
    OBVIOUS
  <2>0. Len(ss) \in Nat /\ \A i \in 1 .. Len(ss) : ss[i] \in Seq(S)
    BY ElementsOf
  <2>1. PICK f : PartialFlatten(S, ss, n, f)
    BY <1>2, <2>0
  <2> DEFINE last == f[n] \o ss[n + 1]
             g == [i \in 0 .. n + 1 |-> IF i = n + 1 THEN last ELSE f[i]]
  <2>2. ss[n + 1] \in Seq(S) /\ f[n] \in Seq(S)
    BY <2>0, <2>1 DEF PartialFlatten
  <2>3. last \in Seq(S)
    BY <2>2, ConcatProperties
  <2> HIDE DEF last
  <2>4. g \in [0 .. n + 1 -> Seq(S)] /\ g[0] = <<>>
    BY <2>1, <2>3 DEF PartialFlatten
  <2>5. ASSUME NEW i \in Nat, i < n + 1 PROVE g[i + 1] = g[i] \o ss[i + 1]
    <3>0. g[i] = f[i]
      BY <2>5
    <3>1. CASE i = n
      <4>1. g[n + 1] = last
        OBVIOUS
      <4> HIDE DEF g
      <4> QED
        BY <3>0, <3>1, <4>1 DEF last
    <3>2. CASE i # n
      <4>1. i < n /\ g[i + 1] = f[i + 1]
        BY <2>5, <3>2
      <4>2. f[i + 1] = f[i] \o ss[i + 1]
        BY <2>1, <4>1 DEF PartialFlatten
      <4> QED
        BY <3>0, <4>1, <4>2
    <3> QED
      BY <3>1, <3>2
  <2> HIDE DEF g
  <2>6. PartialFlatten(S, ss, n + 1, g)
    BY <2>4, <2>5 DEF PartialFlatten
  <2> QED
    BY <2>6
<1>3. Nat \subseteq T
  <2> HIDE DEF T
  <2> QED BY <1>1, <1>2, NaturalsAllIn
<1>4. N \in T
  BY <1>3
<1> QED
  BY <1>4

(* FlattenSeq is the last of the partial concatenations.                   *)
LEMMA FlattenIsLast ==
  ASSUME NEW S, NEW ss \in Seq(Seq(S)), NEW f, PartialFlatten(S, ss, Len(ss), f)
  PROVE  FlattenSeq(ss) = f[Len(ss)] /\ FlattenSeq(ss) \in Seq(S)
<1> DEFINE N == Len(ss)
           F == CHOOSE g : g = [i \in 1 .. N |->
                                  IF i = 1 THEN ss[i] ELSE g[i - 1] \o ss[i]]
           h == [i \in 1 .. N |-> f[i]]
<1>0. N \in Nat /\ \A i \in 1 .. N : ss[i] \in Seq(S)
  BY ElementsOf
<1>1. CASE N = 0
  <2>1. FlattenSeq(ss) = ss
    BY <1>1 DEF FlattenSeq
  <2>2. ss = <<>>
    BY <1>1
  <2> QED
    BY <1>1, <2>1, <2>2 DEF PartialFlatten
<1>2. CASE N # 0
  <2>1. FlattenSeq(ss) = F[N]
    BY <1>2 DEF FlattenSeq
  <2>2. 0 < N /\ 1 \in 1 .. N /\ 0 \in Nat
    BY <1>0, <1>2
  <2>3. f[1] = ss[1]
    <3>1. f[0 + 1] = f[0] \o ss[0 + 1]
      BY <2>2 DEF PartialFlatten
    <3>2. f[1] = <<>> \o ss[1] /\ ss[1] \in Seq(S)
      BY <1>0, <2>2, <3>1 DEF PartialFlatten
    <3> QED
      BY <3>2, ConcatEmptySeq
  <2>4. h = [i \in 1 .. N |-> IF i = 1 THEN ss[i] ELSE h[i - 1] \o ss[i]]
    <3> SUFFICES ASSUME NEW i \in 1 .. N
                 PROVE  f[i] = IF i = 1 THEN ss[i] ELSE h[i - 1] \o ss[i]
      BY Zenon
    <3>1. CASE i = 1
      BY <2>3, <3>1
    <3>2. CASE i # 1
      <4> DEFINE j == i - 1
      <4>1. j \in 1 .. N /\ j \in Nat /\ j < N /\ j + 1 = i
        BY <1>0, <3>2
      <4> HIDE DEF j
      <4>2. f[j + 1] = f[j] \o ss[j + 1] /\ h[j] = f[j]
        BY <4>1 DEF PartialFlatten
      <4>3. f[i] = h[j] \o ss[i]
        BY <4>1, <4>2
      <4> QED
        BY <3>2, <4>3 DEF j
    <3> QED
      BY <3>1, <3>2
  <2>5. F = [i \in 1 .. N |-> IF i = 1 THEN ss[i] ELSE F[i - 1] \o ss[i]]
    <3> HIDE DEF h
    <3> QED BY <2>4, Zenon
  <2> HIDE DEF F, h
  <2> DEFINE T == {n \in Nat : n + 1 \in 1 .. N => F[n + 1] = f[n + 1]}
  <2>6. 0 \in T
    <3>1. F[1] = ss[1]
      BY <2>2, <2>5
    <3> QED
      BY <2>3, <3>1
  <2>7. ASSUME NEW n \in Nat, n \in T PROVE n + 1 \in T
    <3> DEFINE i == n + 1
    <3> SUFFICES ASSUME i + 1 \in 1 .. N PROVE F[i + 1] = f[i + 1]
      OBVIOUS
    <3>1. i \in 1 .. N /\ i \in Nat /\ i < N /\ i + 1 # 1 /\ i + 1 - 1 = i
      BY <1>0
    <3>2. F[i] = f[i]
      BY <2>7, <3>1
    <3> HIDE DEF i
    <3>3. F[i + 1] = F[i] \o ss[i + 1]
      <4> DEFINE k == i + 1
      <4>1. k \in 1 .. N /\ k # 1 /\ k - 1 = i
        BY <3>1
      <4> HIDE DEF k
      <4>2. F[k] = F[i] \o ss[k]
        BY <2>5, <4>1
      <4> QED
        BY <4>2 DEF k
    <3>4. f[i + 1] = f[i] \o ss[i + 1]
      BY <3>1 DEF PartialFlatten
    <3> QED
      BY <3>2, <3>3, <3>4
  <2>8. Nat \subseteq T
    <3> HIDE DEF T
    <3> QED BY <2>6, <2>7, NaturalsAllIn
  <2>9. N - 1 \in Nat /\ N - 1 + 1 = N /\ N \in 1 .. N
    BY <1>0, <2>2
  <2>10. F[N] = f[N]
    <3>1. N - 1 \in T
      BY <2>8, <2>9
    <3> HIDE DEF N
    <3>2. F[N - 1 + 1] = f[N - 1 + 1]
      BY <2>9, <3>1
    <3> QED
      BY <2>9, <3>2
  <2> QED
    BY <1>0, <2>1, <2>10 DEF PartialFlatten
<1> QED
  BY <1>1, <1>2

(* Nothing flattened is nothing.                                           *)
LEMMA FlattenEmpty == FlattenSeq(<<>>) = <<>>
BY DEF FlattenSeq

(* One more sequence at the end is concatenated at the end.                *)
LEMMA FlattenAppend ==
  ASSUME NEW S, NEW ss \in Seq(Seq(S)), NEW t \in Seq(S)
  PROVE  /\ FlattenSeq(ss) \in Seq(S)
         /\ FlattenSeq(Append(ss, t)) = FlattenSeq(ss) \o t
<1> DEFINE tt == Append(ss, t)
           N == Len(ss)
<1>1. /\ tt \in Seq(Seq(S)) /\ Len(tt) = N + 1 /\ tt[N + 1] = t /\ N \in Nat
      /\ \A i \in 1 .. N : tt[i] = ss[i]
  BY AppendProperties
<1>2. Len(tt) <= Len(tt) /\ Len(tt) \in Nat
  BY <1>1
<1> HIDE DEF tt
<1>3. PICK f : PartialFlatten(S, tt, Len(tt), f)
  BY <1>1, <1>2, PartialExists
<1>4. FlattenSeq(tt) = f[N + 1]
  BY <1>1, <1>3, FlattenIsLast
<1> DEFINE g == [i \in 0 .. N |-> f[i]]
<1>5. /\ f \in [0 .. N + 1 -> Seq(S)] /\ f[0] = <<>>
      /\ \A i \in Nat : i < N + 1 => f[i + 1] = f[i] \o tt[i + 1]
  BY <1>1, <1>3 DEF PartialFlatten
<1>6. g \in [0 .. N -> Seq(S)] /\ g[0] = <<>> /\ g[N] = f[N]
  BY <1>1, <1>5
<1>7. ASSUME NEW i \in Nat, i < N PROVE g[i + 1] = g[i] \o ss[i + 1]
  <2>1. /\ i \in 0 .. N /\ i + 1 \in 0 .. N /\ i + 1 \in 1 .. N /\ i < N + 1
    BY <1>1, <1>7
  <2> QED
    BY <1>1, <1>5, <2>1
<1> HIDE DEF g
<1>8. FlattenSeq(ss) = f[N] /\ FlattenSeq(ss) \in Seq(S)
  <2>1. PartialFlatten(S, ss, N, g)
    BY <1>6, <1>7 DEF PartialFlatten
  <2> QED
    BY <1>6, <2>1, FlattenIsLast
<1>9. f[N + 1] = f[N] \o t
  <2>1. N < N + 1
    BY <1>1
  <2> QED
    BY <1>1, <1>5, <2>1
<1> QED
  BY <1>4, <1>8, <1>9 DEF tt

(* Mapping over an appended element appends its image.                     *)
LEMMA MapAppend ==
  ASSUME NEW S, NEW T, NEW g \in [S -> T], NEW s \in Seq(S), NEW e \in S
  PROVE  /\ [i \in DOMAIN s |-> g[s[i]]] \in Seq(T)
         /\ [i \in DOMAIN Append(s, e) |-> g[Append(s, e)[i]]] =
              Append([i \in DOMAIN s |-> g[s[i]]], g[e])
<1> DEFINE t == Append(s, e)
           ms == [i \in DOMAIN s |-> g[s[i]]]
           mt == [i \in DOMAIN t |-> g[t[i]]]
<1>1. /\ t \in Seq(S) /\ Len(t) = Len(s) + 1 /\ t[Len(s) + 1] = e
      /\ \A i \in 1 .. Len(s) : t[i] = s[i]
      /\ Len(s) \in Nat /\ DOMAIN s = 1 .. Len(s)
  BY AppendProperties
<1> HIDE DEF t
<1>2. DOMAIN t = 1 .. Len(s) + 1 /\ \A i \in DOMAIN t : t[i] \in S
  BY <1>1
<1>3. ms \in Seq(T) /\ Len(ms) = Len(s) /\ \A i \in 1 .. Len(s) : ms[i] = g[s[i]]
  BY <1>1
<1>4. mt \in Seq(T) /\ Len(mt) = Len(s) + 1
      /\ \A i \in 1 .. Len(s) + 1 : mt[i] = g[t[i]]
  BY <1>1, <1>2
<1> HIDE DEF ms, mt
<1>5. /\ Append(ms, g[e]) \in Seq(T) /\ Len(Append(ms, g[e])) = Len(s) + 1
      /\ Append(ms, g[e])[Len(s) + 1] = g[e]
      /\ \A i \in 1 .. Len(s) : Append(ms, g[e])[i] = ms[i]
  BY <1>3, AppendProperties
<1>6. ASSUME NEW i \in 1 .. Len(s) + 1 PROVE mt[i] = Append(ms, g[e])[i]
  <2>1. CASE i = Len(s) + 1
    BY <1>1, <1>4, <1>5, <2>1
  <2>2. CASE i # Len(s) + 1
    <3>1. i \in 1 .. Len(s)
      BY <1>1, <2>2
    <3> QED
      BY <1>1, <1>3, <1>4, <1>5, <3>1
  <2> QED
    BY <2>1, <2>2
<1>7. mt = Append(ms, g[e])
  BY <1>4, <1>5, <1>6, SeqEqual
<1> QED
  BY <1>3, <1>7 DEF ms, mt, t

(* What one effect adds to a log.                                          *)
On(l, e) == IF e.log = l THEN <<e.event>> ELSE <<>>

(* An effect goes to the one log it names.                                 *)
LEMMA EffectTyped ==
  ASSUME NEW l \in Logs, NEW event \in Events
  PROVE  /\ Effect(l, event) \in Effects
         /\ \A k \in Logs : On(k, Effect(l, event)) = IF k = l THEN <<event>> ELSE <<>>
BY DEF Effect, Effects, On

(* The events a script appends to a log, one more effect at a time.        *)
LEMMA OnLogAppend ==
  ASSUME NEW l, NEW script \in Seq(Effects), NEW e \in Effects
  PROVE  /\ OnLog(l, <<>>) = <<>>
         /\ OnLog(l, script) \in Seq(Events)
         /\ On(l, e) \in Seq(Events)
         /\ OnLog(l, Append(script, e)) = OnLog(l, script) \o On(l, e)
<1> DEFINE g == [f \in Effects |-> On(l, f)]
           parts == [i \in DOMAIN script |-> g[script[i]]]
           more == Append(script, e)
<1>1. \A f \in Effects : On(l, f) \in Seq(Events)
  BY DEF On, Effects
<1>2. g \in [Effects -> Seq(Events)] /\ g[e] = On(l, e)
  BY <1>1
<1>3. more \in Seq(Effects) /\ \A i \in DOMAIN more : more[i] \in Effects
  <2>1. more \in Seq(Effects)
    BY AppendProperties
  <2> HIDE DEF more
  <2> QED
    BY <2>1
<1>4. OnLog(l, more) = FlattenSeq([i \in DOMAIN more |-> g[more[i]]])
  <2> HIDE DEF more
  <2>1. [i \in DOMAIN more |-> g[more[i]]] =
          [i \in DOMAIN more |->
             IF more[i].log = l THEN <<more[i].event>> ELSE <<>>]
    BY <1>3 DEF On
  <2> QED
    BY <2>1 DEF OnLog
<1>5. OnLog(l, script) = FlattenSeq(parts)
  <2>1. parts = [i \in DOMAIN script |->
                   IF script[i].log = l THEN <<script[i].event>> ELSE <<>>]
    BY DEF On
  <2> QED
    BY <2>1 DEF OnLog
<1> HIDE DEF g
<1>6. parts \in Seq(Seq(Events)) /\ [i \in DOMAIN more |-> g[more[i]]] = Append(parts, g[e])
  <2> DEFINE T == Seq(Events)
  <2>1. g \in [Effects -> T]
    BY <1>2
  <2> HIDE DEF T
  <2>2. parts \in Seq(T) /\ [i \in DOMAIN more |-> g[more[i]]] = Append(parts, g[e])
    BY <2>1, MapAppend
  <2> QED
    BY <2>2 DEF T
<1> HIDE DEF parts
<1>7. /\ FlattenSeq(parts) \in Seq(Events)
      /\ FlattenSeq(Append(parts, g[e])) = FlattenSeq(parts) \o g[e]
  BY <1>1, <1>2, <1>6, FlattenAppend
<1>8. OnLog(l, <<>>) = <<>>
  <2>1. [i \in DOMAIN <<>> |-> IF (<<>>)[i].log = l THEN <<(<<>>)[i].event>> ELSE <<>>] = <<>>
    OBVIOUS
  <2> QED
    BY <2>1, FlattenEmpty DEF OnLog
<1> QED
  BY <1>1, <1>2, <1>4, <1>5, <1>6, <1>7, <1>8

LEMMA OnLogEmpty ==
  ASSUME NEW l
  PROVE  OnLog(l, <<>>) = <<>>
<1>1. [i \in DOMAIN <<>> |->
         IF (<<>>)[i].log = l THEN <<(<<>>)[i].event>> ELSE <<>>] = <<>>
  OBVIOUS
<1> QED
  BY <1>1, FlattenEmpty DEF OnLog

(* Script, audits and trades of a step are typed.                          *)
LEMMA StepsTyped ==
  ASSUME NEW k \in StepKinds
  PROVE  /\ StepScript(k) \in Seq(Effects)
         /\ StepAudits(k) \in Seq(Events)
         /\ StepTrades(k) \in Seq(Events)
<1>1. RiskEvent(k) \in Events
  BY DEF RiskEvent, Events
<1>2. /\ Effect("audit", RiskEvent(k)) \in Effects
      /\ Effect("trade", "TRADE") \in Effects
      /\ Effect("audit", "PAPER_ORDER_FILLED") \in Effects
  BY <1>1, EffectTyped DEF Logs, Events
<1>3. StepScript(k) \in Seq(Effects)
  <2> DEFINE a == Effect("audit", RiskEvent(k))
             b == Effect("trade", "TRADE")
             c == Effect("audit", "PAPER_ORDER_FILLED")
  <2> HIDE DEF a, b, c
  <2>1. a \in Effects /\ b \in Effects /\ c \in Effects
    BY <1>2 DEF a, b, c
  <2>2. <<a>> \in Seq(Effects) /\ <<b, c>> \in Seq(Effects) /\ <<>> \in Seq(Effects)
    BY <2>1
  <2>3. <<a>> \o <<b, c>> \in Seq(Effects) /\ <<a>> \o <<>> \in Seq(Effects)
    BY <2>2, ConcatProperties
  <2> QED
    BY <2>3 DEF StepScript, a, b, c
<1>4. StepAudits(k) \in Seq(Events)
  <2>1. /\ <<RiskEvent(k)>> \in Seq(Events) /\ <<>> \in Seq(Events)
        /\ <<"PAPER_ORDER_FILLED">> \in Seq(Events)
    BY <1>1 DEF Events
  <2> QED
    BY <2>1, ConcatProperties DEF StepAudits
<1>5. StepTrades(k) \in Seq(Events)
  <2>1. "TRADE" \in Events
    BY DEF Events
  <2>2. <<"TRADE">> \in Seq(Events) /\ <<>> \in Seq(Events)
    BY <2>1
  <2> QED
    BY <2>2 DEF StepTrades
<1> QED
  BY <1>3, <1>4, <1>5

(* What one step adds to the suffix of a log.                              *)
StepSuffix(k, l) ==
  CASE l = "audit" -> StepAudits(k)
    [] l = "decision" -> <<>>
    [] l = "trade" -> StepTrades(k)

(* The three effects of a step, log by log, are what the step adds to      *)
(* the suffix.                                                             *)
LEMMA StepOnLog ==
  ASSUME NEW l \in Logs, NEW k \in StepKinds, NEW script \in Seq(Effects)
  PROVE  OnLog(l, script \o StepScript(k)) = OnLog(l, script) \o StepSuffix(k, l)
<1> DEFINE risk == RiskEvent(k)
           a == Effect("audit", risk)
           b == Effect("trade", "TRADE")
           c == Effect("audit", "PAPER_ORDER_FILLED")
           before == OnLog(l, script)
<1>1. risk \in Events
  BY DEF RiskEvent, Events
<1>2. /\ a \in Effects /\ On(l, a) = IF l = "audit" THEN <<risk>> ELSE <<>>
      /\ b \in Effects /\ On(l, b) = IF l = "trade" THEN <<"TRADE">> ELSE <<>>
      /\ c \in Effects
      /\ On(l, c) = IF l = "audit" THEN <<"PAPER_ORDER_FILLED">> ELSE <<>>
  BY <1>1, EffectTyped DEF Logs, Events
<1>3. before \in Seq(Events) /\ On(l, a) \in Seq(Events) /\ On(l, b) \in Seq(Events)
      /\ On(l, c) \in Seq(Events)
  BY <1>2, OnLogAppend
<1> HIDE DEF a, b, c, risk
<1>4. CASE k # "filled"
  <2>1. StepScript(k) = <<a>>
    <3>1. <<a>> \in Seq(Effects)
      BY <1>2
    <3> QED
      BY <1>4, <3>1, ConcatEmptySeq DEF StepScript, a, risk
  <2>2. script \o <<a>> = Append(script, a)
    BY <1>2, AppendIsConcat
  <2>3. OnLog(l, Append(script, a)) = before \o On(l, a)
    BY <1>2, OnLogAppend
  <2>4. StepSuffix(k, l) = On(l, a)
    <3>1. <<risk>> \in Seq(Events)
      BY <1>1
    <3>2. StepAudits(k) = <<risk>>
      BY <1>4, <3>1, ConcatEmptySeq DEF StepAudits, risk
    <3> QED
      BY <1>2, <1>4, <3>2 DEF StepSuffix, StepTrades, Logs
  <2> QED
    BY <2>1, <2>2, <2>3, <2>4
<1>5. CASE k = "filled"
  <2>1. StepScript(k) = <<a>> \o <<b, c>>
    BY <1>5 DEF StepScript, a, b, c, risk
  <2> DEFINE s1 == Append(script, a)
             s2 == Append(s1, b)
             s3 == Append(s2, c)
  <2>2. s1 \in Seq(Effects) /\ s2 \in Seq(Effects) /\ s3 \in Seq(Effects)
    BY <1>2, AppendProperties
  <2>3. script \o (<<a>> \o <<b, c>>) = s3
    <3>1. /\ <<a>> \in Seq(Effects) /\ <<b>> \in Seq(Effects) /\ <<c>> \in Seq(Effects)
          /\ <<b, c>> = <<b>> \o <<c>> /\ <<b, c>> \in Seq(Effects)
      <4>1. <<a>> \in Seq(Effects) /\ <<b>> \in Seq(Effects) /\ <<c>> \in Seq(Effects)
        BY <1>2
      <4>2. <<b, c>> = Append(<<b>>, c)
        OBVIOUS
      <4>3. Append(<<b>>, c) = <<b>> \o <<c>>
        BY <1>2, <4>1, AppendIsConcat
      <4> QED
        BY <4>1, <4>2, <4>3, ConcatProperties
    <3>2. s1 = script \o <<a>> /\ s2 = s1 \o <<b>> /\ s3 = s2 \o <<c>>
      BY <1>2, <2>2, AppendIsConcat
    <3>3. s3 = s1 \o <<b, c>>
      <4> HIDE DEF s1, s2, s3
      <4> QED BY <2>2, <3>1, <3>2, ConcatAssociative
    <3> HIDE DEF s1, s2, s3
    <3> QED
      BY <2>2, <3>1, <3>2, <3>3, ConcatAssociative
  <2>4. OnLog(l, s3) = ((before \o On(l, a)) \o On(l, b)) \o On(l, c)
    <3>1. OnLog(l, s1) = before \o On(l, a)
      BY <1>2, OnLogAppend
    <3> HIDE DEF s1
    <3>2. OnLog(l, s2) = OnLog(l, s1) \o On(l, b)
      BY <1>2, <2>2, OnLogAppend
    <3> HIDE DEF s2
    <3>3. OnLog(l, s3) = OnLog(l, s2) \o On(l, c)
      BY <1>2, <2>2, OnLogAppend
    <3> QED
      BY <3>1, <3>2, <3>3
  <2>5. (On(l, a) \o On(l, b)) \o On(l, c) = StepSuffix(k, l)
    <3>1. /\ <<risk>> \in Seq(Events) /\ <<"TRADE">> \in Seq(Events)
          /\ <<"PAPER_ORDER_FILLED">> \in Seq(Events) /\ <<>> \in Seq(Events)
      BY <1>1 DEF Events
    <3>2. /\ StepAudits(k) = <<risk>> \o <<"PAPER_ORDER_FILLED">>
          /\ StepTrades(k) = <<"TRADE">>
      BY <1>5 DEF StepAudits, StepTrades, risk
    <3>3. CASE l = "audit"
      <4>1. (<<risk>> \o <<>>) \o <<"PAPER_ORDER_FILLED">> = StepAudits(k)
        BY <3>1, <3>2, ConcatEmptySeq
      <4> QED
        BY <1>2, <3>3, <4>1 DEF StepSuffix
    <3>4. CASE l = "trade"
      <4>1. (<<>> \o <<"TRADE">>) \o <<>> = StepTrades(k)
        BY <3>1, <3>2, ConcatEmptySeq
      <4> QED
        BY <1>2, <3>4, <4>1 DEF StepSuffix
    <3>5. CASE l = "decision"
      <4>1. (<<>> \o <<>>) \o <<>> = <<>>
        BY <3>1, ConcatEmptySeq
      <4> QED
        BY <1>2, <3>5, <4>1 DEF StepSuffix
    <3> QED
      BY <3>3, <3>4, <3>5 DEF Logs
  <2>6. ((before \o On(l, a)) \o On(l, b)) \o On(l, c) =
          before \o ((On(l, a) \o On(l, b)) \o On(l, c))
    <3> DEFINE x == On(l, a)
               y == On(l, b)
               z == On(l, c)
    <3>1. /\ x \in Seq(Events) /\ y \in Seq(Events) /\ z \in Seq(Events)
          /\ before \in Seq(Events)
      BY <1>3
    <3> HIDE DEF x, y, z, before
    <3> DEFINE xy == x \o y
    <3>2. (before \o x) \o y = before \o xy
      BY <3>1, ConcatAssociative
    <3>3. xy \in Seq(Events)
      BY <3>1, ConcatProperties
    <3> HIDE DEF xy
    <3>4. before \in Seq(Events) /\ z \in Seq(Events)
      BY <3>1
    <3>5. (before \o xy) \o z = before \o (xy \o z)
      BY <3>3, <3>4, ConcatAssociative
    <3> QED
      BY <3>2, <3>5 DEF x, y, z, xy
  <2> QED
    BY <2>1, <2>3, <2>4, <2>5, <2>6
<1> QED
  BY <1>4, <1>5

(* Flattening the images of one more step adds its image at the end.       *)
LEMMA StepsMapped ==
  ASSUME NEW T, NEW step, step \in [StepKinds -> Seq(T)],
         NEW d \in Seq(StepKinds), NEW k \in StepKinds
  PROVE  /\ FlattenSeq([i \in DOMAIN d |-> step[d[i]]]) \in Seq(T)
         /\ FlattenSeq([i \in DOMAIN Append(d, k) |-> step[Append(d, k)[i]]]) =
              FlattenSeq([i \in DOMAIN d |-> step[d[i]]]) \o step[k]
<1> DEFINE parts == [i \in DOMAIN d |-> step[d[i]]]
<1>1. step[k] \in Seq(T)
  OBVIOUS
<1>2. /\ parts \in Seq(Seq(T))
      /\ [i \in DOMAIN Append(d, k) |-> step[Append(d, k)[i]]] = Append(parts, step[k])
  <2> DEFINE U == Seq(T)
  <2>1. step \in [StepKinds -> U]
    OBVIOUS
  <2> HIDE DEF U
  <2>2. parts \in Seq(U)
    <3>1. Len(d) \in Nat /\ parts \in [1 .. Len(d) -> U]
      BY <2>1
    <3> HIDE DEF parts
    <3> QED
      BY <3>1, IsASeq
  <2>3. [i \in DOMAIN Append(d, k) |-> step[Append(d, k)[i]]] = Append(parts, step[k])
    BY <2>1, MapAppend
  <2> QED
    BY <2>2, <2>3 DEF U
<1> HIDE DEF parts
<1>3. /\ FlattenSeq(parts) \in Seq(T)
      /\ FlattenSeq(Append(parts, step[k])) = FlattenSeq(parts) \o step[k]
  BY <1>1, <1>2, FlattenAppend
<1> QED
  BY <1>2, <1>3 DEF parts

(* The script of one more step, typed and never empty.                     *)
LEMMA ScriptAppend ==
  ASSUME NEW d \in Seq(StepKinds), NEW k \in StepKinds
  PROVE  /\ ApplicationScript(d) \in Seq(Effects)
         /\ Len(ApplicationScript(d)) > 0
         /\ ApplicationScript(Append(d, k)) = ApplicationScript(d) \o StepScript(k)
<1> DEFINE head == <<Effect("decision", "DECISION"),
                     Effect("audit", "VIRTUAL_DECISION_RECORDED")>>
           step == [j \in StepKinds |-> StepScript(j)]
           tail == FlattenSeq([i \in DOMAIN d |-> step[d[i]]])
           more == Append(d, k)
<1>1. head \in Seq(Effects) /\ Len(head) = 2
  <2>1. /\ Effect("decision", "DECISION") \in Effects
        /\ Effect("audit", "VIRTUAL_DECISION_RECORDED") \in Effects
    BY EffectTyped DEF Logs, Events
  <2> QED
    BY <2>1
<1>2. step \in [StepKinds -> Seq(Effects)] /\ step[k] = StepScript(k)
  BY StepsTyped
<1>3. /\ \A i \in DOMAIN d : d[i] \in StepKinds
      /\ \A i \in DOMAIN more : more[i] \in StepKinds
  <2>1. more \in Seq(StepKinds)
    BY AppendProperties
  <2> HIDE DEF more
  <2> QED
    BY <2>1
<1>4. ApplicationScript(d) = head \o tail
  <2>1. [i \in DOMAIN d |-> step[d[i]]] = [i \in DOMAIN d |-> StepScript(d[i])]
    BY <1>3
  <2> QED
    BY <2>1 DEF ApplicationScript
<1>5. ApplicationScript(more) = head \o FlattenSeq([i \in DOMAIN more |-> step[more[i]]])
  <2> HIDE DEF more
  <2>1. [i \in DOMAIN more |-> step[more[i]]] = [i \in DOMAIN more |-> StepScript(more[i])]
    BY <1>3
  <2> QED
    BY <2>1 DEF ApplicationScript
<1> HIDE DEF step, head
<1>6. /\ tail \in Seq(Effects)
      /\ FlattenSeq([i \in DOMAIN more |-> step[more[i]]]) = tail \o step[k]
  BY <1>2, StepsMapped
<1> DEFINE last == step[k]
<1>7. last \in Seq(Effects) /\ tail \in Seq(Effects) /\ Len(tail) \in Nat
  BY <1>2, <1>6
<1> HIDE DEF tail, more, last
<1>8. head \o (tail \o last) = (head \o tail) \o last
  BY <1>1, <1>7, ConcatAssociative
<1>9. head \o tail \in Seq(Effects) /\ Len(head \o tail) = 2 + Len(tail)
  <2>1. head \o tail \in Seq(Effects) /\ Len(head \o tail) = Len(head) + Len(tail)
    BY <1>1, <1>7, ConcatProperties, Zenon
  <2> QED
    BY <1>1, <2>1
<1>10. ApplicationScript(more) = ApplicationScript(d) \o StepScript(k)
  BY <1>2, <1>4, <1>5, <1>6, <1>8 DEF last
<1>11. ApplicationScript(d) \in Seq(Effects) /\ Len(ApplicationScript(d)) > 0
  BY <1>4, <1>7, <1>9
<1> QED
  BY <1>10, <1>11 DEF more

(* The suffix of one more step.                                            *)
LEMMA SuffixAppend ==
  ASSUME NEW d \in Seq(StepKinds), NEW k \in StepKinds, NEW l \in Logs
  PROVE  /\ ExpectedSuffix(d, l) \in Seq(Events)
         /\ ExpectedSuffix(Append(d, k), l) = ExpectedSuffix(d, l) \o StepSuffix(k, l)
<1> DEFINE audits == [j \in StepKinds |-> StepAudits(j)]
           trades == [j \in StepKinds |-> StepTrades(j)]
           more == Append(d, k)
<1>1. /\ audits \in [StepKinds -> Seq(Events)] /\ audits[k] = StepAudits(k)
      /\ trades \in [StepKinds -> Seq(Events)] /\ trades[k] = StepTrades(k)
  BY StepsTyped
<1>2. /\ \A i \in DOMAIN d : d[i] \in StepKinds
      /\ \A i \in DOMAIN more : more[i] \in StepKinds
  <2>1. more \in Seq(StepKinds)
    BY AppendProperties
  <2> HIDE DEF more
  <2> QED
    BY <2>1
<1>3. CASE l = "audit"
  <2> DEFINE head == <<"VIRTUAL_DECISION_RECORDED">>
             tail == FlattenSeq([i \in DOMAIN d |-> audits[d[i]]])
  <2>1. [i \in DOMAIN d |-> audits[d[i]]] = [i \in DOMAIN d |-> StepAudits(d[i])]
    BY <1>2
  <2>2. ExpectedSuffix(d, l) = head \o tail
    BY <1>3, <2>1 DEF ExpectedSuffix
  <2>3. ExpectedSuffix(more, l) = head \o FlattenSeq([i \in DOMAIN more |-> audits[more[i]]])
    <3> HIDE DEF more
    <3>1. [i \in DOMAIN more |-> audits[more[i]]] =
            [i \in DOMAIN more |-> StepAudits(more[i])]
      BY <1>2
    <3> QED
      BY <1>3, <3>1 DEF ExpectedSuffix
  <2>4. head \in Seq(Events) /\ StepAudits(k) \in Seq(Events)
    BY StepsTyped DEF Events
  <2> HIDE DEF audits, head
  <2>5. /\ tail \in Seq(Events)
        /\ FlattenSeq([i \in DOMAIN more |-> audits[more[i]]]) = tail \o audits[k]
    BY <1>1, StepsMapped
  <2> HIDE DEF tail, more
  <2>6. head \o (tail \o StepAudits(k)) = (head \o tail) \o StepAudits(k)
    BY <2>4, <2>5, ConcatAssociative
  <2>7. head \o tail \in Seq(Events)
    BY <2>4, <2>5, ConcatProperties
  <2> QED
    BY <1>1, <1>3, <2>2, <2>3, <2>5, <2>6, <2>7 DEF more, StepSuffix
<1>4. CASE l = "trade"
  <2> DEFINE tail == FlattenSeq([i \in DOMAIN d |-> trades[d[i]]])
  <2>1. [i \in DOMAIN d |-> trades[d[i]]] = [i \in DOMAIN d |-> StepTrades(d[i])]
    BY <1>2
  <2>2. ExpectedSuffix(d, l) = tail
    BY <1>4, <2>1 DEF ExpectedSuffix
  <2>3. ExpectedSuffix(more, l) = FlattenSeq([i \in DOMAIN more |-> trades[more[i]]])
    <3> HIDE DEF more
    <3>1. [i \in DOMAIN more |-> trades[more[i]]] =
            [i \in DOMAIN more |-> StepTrades(more[i])]
      BY <1>2
    <3> QED
      BY <1>4, <3>1 DEF ExpectedSuffix
  <2> HIDE DEF trades
  <2>4. /\ tail \in Seq(Events)
        /\ FlattenSeq([i \in DOMAIN more |-> trades[more[i]]]) = tail \o trades[k]
    BY <1>1, StepsMapped
  <2> QED
    BY <1>1, <1>4, <2>2, <2>3, <2>4 DEF StepSuffix
<1>5. CASE l = "decision"
  <2>1. /\ ExpectedSuffix(d, l) = <<"DECISION">> /\ ExpectedSuffix(more, l) = <<"DECISION">>
        /\ StepSuffix(k, l) = <<>>
    BY <1>5 DEF ExpectedSuffix, StepSuffix
  <2>2. <<"DECISION">> \in Seq(Events)
    BY DEF Events
  <2> QED
    BY <2>1, <2>2, ConcatEmptySeq
<1> QED
  BY <1>3, <1>4, <1>5 DEF Logs

(* A decision without items: two effects.                                  *)
LEMMA EmptyScript ==
  ASSUME NEW l \in Logs
  PROVE  OnLog(l, ApplicationScript(<<>>)) = ExpectedSuffix(<<>>, l)
<1> DEFINE a == Effect("decision", "DECISION")
           b == Effect("audit", "VIRTUAL_DECISION_RECORDED")
<1>1. /\ a \in Effects /\ On(l, a) = IF l = "decision" THEN <<"DECISION">> ELSE <<>>
      /\ b \in Effects
      /\ On(l, b) = IF l = "audit" THEN <<"VIRTUAL_DECISION_RECORDED">> ELSE <<>>
  BY EffectTyped DEF Logs, Events
<1>2. FlattenSeq(<<>>) = <<>>
  BY FlattenEmpty
<1>3. ApplicationScript(<<>>) = <<a, b>>
  <2>1. [i \in DOMAIN <<>> |-> StepScript((<<>>)[i])] = <<>>
    OBVIOUS
  <2>2. ApplicationScript(<<>>) = <<a, b>> \o <<>>
    BY <1>2, <2>1 DEF ApplicationScript
  <2> HIDE DEF a, b
  <2>3. <<a, b>> \in Seq(Effects)
    BY <1>1
  <2> QED
    BY <2>2, <2>3, ConcatEmptySeq
<1> HIDE DEF a, b
<1>4. OnLog(l, <<a, b>>) = (<<>> \o On(l, a)) \o On(l, b)
  <2>1. <<>> \in Seq(Effects) /\ <<a>> \in Seq(Effects)
    BY <1>1
  <2>2. Append(<<>>, a) = <<a>> /\ Append(<<a>>, b) = <<a, b>>
    <3>1. Append(<<>>, a) = <<>> \o <<a>>
      BY <1>1, <2>1, AppendIsConcat
    <3>2. <<>> \o <<a>> = <<a>>
      BY <2>1, ConcatEmptySeq
    <3>3. <<a, b>> = Append(<<a>>, b)
      OBVIOUS
    <3> QED
      BY <3>1, <3>2, <3>3
  <2>3. OnLog(l, <<>>) = <<>>
    BY <1>1, <2>1, OnLogAppend
  <2>4. OnLog(l, <<a>>) = <<>> \o On(l, a)
    BY <1>1, <2>1, <2>2, <2>3, OnLogAppend
  <2>5. OnLog(l, <<a, b>>) = OnLog(l, <<a>>) \o On(l, b)
    BY <1>1, <2>1, <2>2, OnLogAppend
  <2> QED
    BY <2>4, <2>5
<1>5. /\ <<"DECISION">> \in Seq(Events) /\ <<"VIRTUAL_DECISION_RECORDED">> \in Seq(Events)
      /\ <<>> \in Seq(Events)
  BY DEF Events
<1>6. /\ [i \in DOMAIN <<>> |-> StepAudits((<<>>)[i])] = <<>>
      /\ [i \in DOMAIN <<>> |-> StepTrades((<<>>)[i])] = <<>>
  OBVIOUS
<1>7. CASE l = "audit"
  <2>1. OnLog(l, <<a, b>>) = <<"VIRTUAL_DECISION_RECORDED">>
    BY <1>1, <1>4, <1>5, <1>7, ConcatEmptySeq
  <2>2. ExpectedSuffix(<<>>, l) = <<"VIRTUAL_DECISION_RECORDED">> \o <<>>
    BY <1>2, <1>6, <1>7 DEF ExpectedSuffix
  <2> QED
    BY <1>3, <1>5, <2>1, <2>2, ConcatEmptySeq
<1>8. CASE l = "trade"
  <2>1. OnLog(l, <<a, b>>) = <<>>
    BY <1>1, <1>4, <1>5, <1>8, ConcatEmptySeq
  <2>2. ExpectedSuffix(<<>>, l) = <<>>
    BY <1>2, <1>6, <1>8 DEF ExpectedSuffix
  <2> QED
    BY <1>3, <2>1, <2>2
<1>9. CASE l = "decision"
  <2>1. OnLog(l, <<a, b>>) = <<"DECISION">>
    BY <1>1, <1>4, <1>5, <1>9, ConcatEmptySeq
  <2> QED
    BY <1>3, <1>9, <2>1 DEF ExpectedSuffix
<1> QED
  BY <1>7, <1>8, <1>9 DEF Logs

(* For a decision of any length the pipeline appends, log by log, exactly  *)
(* the suffix that the completion receipt demands: the order in which      *)
(* applyPreparedApplication interleaves the three logs and the order in    *)
(* which verifySuffix expects each of them agree                           *)
(* (paperDecisionPipeline.ts 150-178, paperApplicationLogReceipts.ts       *)
(* 133-141).                                                               *)
THEOREM ScriptMatchesSuffix ==
  ASSUME NEW d \in Seq(StepKinds)
  PROVE  /\ ApplicationScript(d) \in Seq(Effects)
         /\ Len(ApplicationScript(d)) > 0
         /\ \A l \in Logs : OnLog(l, ApplicationScript(d)) = ExpectedSuffix(d, l)
<1> DEFINE T == {n \in Nat : \A e \in Seq(StepKinds) : Len(e) = n =>
                   \A l \in Logs : OnLog(l, ApplicationScript(e)) = ExpectedSuffix(e, l)}
<1>1. 0 \in T
  <2>1. \A e \in Seq(StepKinds) : Len(e) = 0 => e = <<>>
    OBVIOUS
  <2> QED
    BY <2>1, EmptyScript
<1>2. ASSUME NEW n \in Nat, n \in T PROVE n + 1 \in T
  <2> SUFFICES ASSUME NEW e \in Seq(StepKinds), Len(e) = n + 1, NEW l \in Logs
               PROVE  OnLog(l, ApplicationScript(e)) = ExpectedSuffix(e, l)
    OBVIOUS
  <2>1. e # <<>>
    OBVIOUS
  <2>2. PICK e0 \in Seq(StepKinds), k \in StepKinds : e = Append(e0, k)
    BY <2>1, SequenceEmptyOrAppend
  <2>3. Len(e0) = n
    <3>1. Len(e) = Len(e0) + 1 /\ Len(e0) \in Nat
      BY <2>2, AppendProperties
    <3> QED
      BY <3>1
  <2>4. OnLog(l, ApplicationScript(e0)) = ExpectedSuffix(e0, l)
    BY <1>2, <2>3
  <2>5. /\ ApplicationScript(e) = ApplicationScript(e0) \o StepScript(k)
        /\ ApplicationScript(e0) \in Seq(Effects)
    BY <2>2, ScriptAppend
  <2>6. ExpectedSuffix(e, l) = ExpectedSuffix(e0, l) \o StepSuffix(k, l)
    BY <2>2, SuffixAppend
  <2>7. OnLog(l, ApplicationScript(e0) \o StepScript(k)) =
          OnLog(l, ApplicationScript(e0)) \o StepSuffix(k, l)
    BY <2>5, StepOnLog
  <2> QED
    BY <2>4, <2>5, <2>6, <2>7
<1>3. Nat \subseteq T
  <2> HIDE DEF T
  <2> QED BY <1>1, <1>2, NaturalsAllIn
<1>4. Len(d) \in T
  BY <1>3
<1>5. PICK k : k \in StepKinds
  BY DEF StepKinds
<1> QED
  BY <1>4, <1>5, ScriptAppend

(* The script of an approved decision is typed and never empty.            *)
LEMMA DecisionScripts ==
  ASSUME NEW d \in Decisions
  PROVE  /\ ApplicationScript(d) \in Seq(Effects)
         /\ Len(ApplicationScript(d)) \in Nat /\ Len(ApplicationScript(d)) > 0
BY ScriptMatchesSuffix, DecisionAssumption

-----------------------------------------------------------------------------
(* Types *)

(* Every variable keeps its type, given that decisions and targets are     *)
(* there when a step needs them.                                           *)
LEMMA TypeInit == Init => TypeOK
BY InitialAssumption DEF Init, TypeOK, PcStates, Outcomes, PortfolioOrNone,
   Notices, Snapshots, RevisionOrNone, NoSnapshot, NoHead, Heads

(* The effect a run is about to append is a log record.                    *)
LEMMA NextEffectTyped ==
  ASSUME TypeOK, ValuesInv, NEW r \in Runs, pc[r] = "apply"
  PROVE  NextEffect(r) \in Effects /\ EffectRecord(r) \in LogRecords
<1>1. ApplicationScript(decision[r]) \in Seq(Effects)
  BY DecisionScripts DEF ValuesInv, DecidedStates
<1>2. done[r] + 1 \in 1..Len(ApplicationScript(decision[r]))
  BY <1>1 DEF TypeOK, ValuesInv
<1>3. NextEffect(r) \in Effects
  BY <1>1, <1>2 DEF NextEffect
<1>. QED  BY <1>3 DEF EffectRecord, LogRecords, Effects

(* An entry about to be appended is a journal entry.                       *)
LEMMA NewEntryTyped ==
  ASSUME TypeOK, ValuesInv, NEW p \in Procs, pc[p] \in {"journal", "rename"}
  PROVE  NewEntry(p) \in Entries
BY DEF TypeOK, ValuesInv, BarrierStates, NewEntry, Entries, Heads

(* What a fault leaves on disk is still typed.                             *)
LEMMA InterruptedTyped ==
  ASSUME TypeOK, ValuesInv, NEW p \in Procs, Interrupted(p)
  PROVE  /\ projection' \in PortfolioOrNone
         /\ journal' \in Seq(Entries \cup {Torn})
         /\ log' \in [Logs -> Seq(LogRecords \cup {Torn})]
         /\ intent' \in [Runs -> Applications \cup {NoRecord}]
         /\ plan' \in [Runs -> [Logs -> Nat] \cup {NoRecord}]
         /\ receipt' \in [Runs -> [Logs -> Nat] \cup {NoRecord}]
<1>1. CASE UNCHANGED files
  BY <1>1 DEF files, TypeOK
<1>2. CASE p \in Runs /\ LeavesNotice(p)
  <2>1. NoticeRecord(p) \in LogRecords
    BY <1>2 DEF TypeOK, NoticeRecord, LogRecords
  <2>. QED  BY <1>2, <2>1 DEF LeavesNotice, TypeOK, Logs
<1>3. CASE p \in Runs /\ LeavesIntent(p)
  <2>1. \A v \in Portfolios : Prepared(p, v) \in Applications
    BY <1>3 DEF LeavesIntent, TypeOK, ValuesInv, DecidedStates, Prepared,
       Applications
  <2>. QED  BY <1>3, <2>1 DEF LeavesIntent, TypeOK
<1>4. CASE p \in Runs /\ (LeavesPlan(p) \/ LeavesReceipt(p))
  <2>1. LogLengths \in [Logs -> Nat]
    BY DEF TypeOK, LogLengths
  <2>. QED  BY <1>4, <2>1 DEF LeavesPlan, LeavesReceipt, TypeOK
<1>5. CASE p \in Runs /\ LeavesEffect(p)
  <2>1. NextEffect(p).log \in Logs /\ EffectRecord(p) \in LogRecords
    BY <1>5, NextEffectTyped DEF LeavesEffect, Effects
  <2>. QED  BY <1>5, <2>1 DEF LeavesEffect, TypeOK
<1>6. CASE LeavesRevision(p)
  BY <1>6, NewEntryTyped DEF LeavesRevision, TypeOK
<1>7. CASE LeavesProjection(p)
  BY <1>7 DEF LeavesProjection, TypeOK, ValuesInv, BarrierStates,
     PortfolioOrNone
<1>. QED  BY <1>1, <1>2, <1>3, <1>4, <1>5, <1>6, <1>7 DEF Interrupted

(* The head a verified journal yields is typed.                            *)
LEMMA StoredHeadTyped ==
  ASSUME TypeOK, JournalVerifies
  PROVE  StoredHead \in Heads /\ HeadRevision \in RevisionOrNone
<1>1. CASE journal = <<>>
  BY <1>1 DEF TypeOK, StoredHead, HeadRevision, Heads, RevisionOrNone
<1>2. CASE journal # <<>>
  <2>1. Len(journal) \in Nat /\ Len(journal) \in DOMAIN journal
    BY <1>2 DEF TypeOK
  <2>2. journal[Len(journal)] \in Entries
    BY <1>2, <2>1 DEF TypeOK, JournalVerifies
  <2>3. HeadRevision \in Revisions
    BY <1>2, <2>2 DEF HeadRevision, RevisionHash, Entries, Revisions
  <2>. QED  BY <2>1, <2>3 DEF TypeOK, StoredHead, Heads, RevisionOrNone
<1>. QED  BY <1>1, <1>2

(* Every step keeps the types, given that decisions and targets are there  *)
(* when it needs them.                                                     *)
LEMMA TypeStep ==
  ASSUME TypeOK, ValuesInv, [Next]_vars
  PROVE  TypeOK'
<1>. USE DEF TypeOK, Goto, End, local, locks, files
<1>1. CASE UNCHANGED vars
  BY <1>1 DEF vars
<1>2. ASSUME NEW p \in Procs, Start(p) PROVE TypeOK'
  BY <1>2 DEF Start, PcStates, WaitStates, Procs
<1>3. ASSUME NEW p \in Procs, StoreStep(p) PROVE TypeOK'
  <2>1. CASE AcquirePortfolio(p)
    BY <2>1 DEF AcquirePortfolio, PcStates, ReadStates
  <2>2. CASE TimeoutPortfolio(p)
    BY <2>2 DEF TimeoutPortfolio, AfterPortfolio, PcStates, EndStates, Outcomes
  <2>3. CASE ReadSnapshot(p)
    <3>1. [portfolio |-> projection, revision |-> HeadRevision] \in Snapshots
      BY <2>3, StoredHeadTyped DEF ReadSnapshot, Snapshots
    <3>. QED  BY <2>3, <3>1 DEF ReadSnapshot, PcStates, WaitStates, Notices,
                 Outcomes
  <2>4. CASE CheckWrite(p)
    BY <2>4, StoredHeadTyped DEF CheckWrite, PcStates, BarrierStates,
       PortfolioOrNone, Outcomes
  <2>5. CASE StagePortfolio(p)
    BY <2>5 DEF StagePortfolio, PcStates, BarrierStates
  <2>6. CASE AppendRevision(p)
    BY <2>6, NewEntryTyped DEF AppendRevision, PcStates, BarrierStates
  <2>7. CASE ReplaceProjection(p)
    BY <2>7 DEF ReplaceProjection, PcStates, ValuesInv, BarrierStates, Outcomes
  <2>8. CASE ReleasePortfolio(p)
    BY <2>8 DEF ReleasePortfolio, AfterPortfolio, PcStates, EndStates
  <2>. QED  BY <1>3, <2>1, <2>2, <2>3, <2>4, <2>5, <2>6, <2>7, <2>8
               DEF StoreStep
<1>4. ASSUME NEW r \in Runs, RunStep(r) PROVE TypeOK'
  <2>. r \in Procs
    BY DEF Procs
  <2>1. CASE ReadPacket(r)
    BY <2>1, InitialAssumption DEF ReadPacket, PcStates, WaitStates,
       PortfolioOrNone, Notices
  <2>2. CASE AcquireAudit(r)
    BY <2>2 DEF AcquireAudit, PcStates
  <2>3. CASE AppendNotice(r)
    <3>1. NoticeRecord(r) \in LogRecords
      BY DEF NoticeRecord, LogRecords
    <3>. QED  BY <2>3, <3>1 DEF AppendNotice, PcStates, WaitStates,
                 EndStates, Logs
  <2>4. CASE Decide(r)
    <3>1. decision' \in [Runs -> Decisions \cup {<<>>}]
      BY <2>4 DEF Decide
    <3>2. pc' \in [Procs -> PcStates] /\ outcome' \in [Procs -> Outcomes]
      BY <2>4 DEF Decide, PcStates, WaitStates, Outcomes
    <3>3. notice' \in [Runs -> Notices]
      BY <2>4 DEF Decide, Notices
    <3>. QED  BY <2>4, <3>1, <3>2, <3>3 DEF Decide
  <2>5. CASE AcquireLog(r)
    BY <2>5 DEF AcquireLog, PcStates, WaitStates
  <2>6. CASE TimeoutLog(r)
    BY <2>6 DEF TimeoutLog, AfterPortfolio, PcStates, EndStates, Outcomes
  <2>7. CASE CheckApplication(r)
    BY <2>7, StoredHeadTyped DEF CheckApplication, PcStates, BarrierStates,
       Notices, Outcomes
  <2>8. CASE WriteIntent(r)
    <3>1. \A v \in Portfolios : Prepared(r, v) \in Applications
      BY <2>8 DEF WriteIntent, ValuesInv, DecidedStates, Prepared, Applications
    <3>. QED  BY <2>8, <3>1 DEF WriteIntent, PcStates, BarrierStates,
                 PortfolioOrNone
  <2>9. CASE WritePlan(r)
    BY <2>9 DEF WritePlan, LogLengths, PcStates, BarrierStates
  <2>10. CASE AppendEffect(r)
    <3>1. NextEffect(r).log \in Logs /\ EffectRecord(r) \in LogRecords
      BY <2>10, NextEffectTyped DEF AppendEffect, Effects
    <3>. QED  BY <2>10, <3>1 DEF AppendEffect, PcStates, BarrierStates
  <2>11. CASE CompleteLogs(r)
    BY <2>11 DEF CompleteLogs, LogLengths, PcStates, BarrierStates
  <2>12. CASE ReleaseLog(r)
    BY <2>12 DEF ReleaseLog, AfterBatch, PcStates, WaitStates, EndStates
  <2>. QED  BY <1>4, <2>1, <2>2, <2>3, <2>4, <2>5, <2>6, <2>7, <2>8, <2>9,
               <2>10, <2>11, <2>12 DEF RunStep
<1>5. ASSUME NEW p \in Procs, Fault(p) PROVE TypeOK'
  <2>1. CASE CleanFailure(p)
    BY <2>1 DEF CleanFailure, PcStates, Outcomes
  <2>2. CASE FencedFailure(p)
    <3>1. dirty' \in [Procs -> BOOLEAN]
      <4>1. BatchDirty(p) \in BOOLEAN
        BY DEF BatchDirty
      <4>. QED  BY <2>2, <4>1 DEF FencedFailure
    <3>2. pc' \in [Procs -> PcStates] /\ outcome' \in [Procs -> Outcomes]
      BY <2>2 DEF FencedFailure, AfterPortfolio, PcStates, EndStates, Outcomes
    <3>3. CASE Interrupted(p)
      BY <2>2, <3>1, <3>2, <3>3, InterruptedTyped DEF FencedFailure
    <3>4. CASE UNCHANGED <<files, dirty>>
      BY <2>2, <3>1, <3>2, <3>4 DEF FencedFailure
    <3>. QED  BY <2>2, <3>3, <3>4 DEF FencedFailure
  <2>3. CASE Crash(p)
    BY <2>3, InterruptedTyped DEF Crash, PcStates, EndStates
  <2>4. CASE p \in Runs /\ AuditFailure(p)
    BY <2>4, InterruptedTyped DEF AuditFailure, PcStates, EndStates, Outcomes
  <2>5. CASE p \in Runs /\ LogInitFailure(p)
    BY <2>5 DEF LogInitFailure, AfterPortfolio, PcStates, EndStates, Outcomes
  <2>6. CASE p \in Runs /\ ReleaseFailure(p)
    BY <2>6 DEF ReleaseFailure, PcStates, EndStates, Outcomes
  <2>7. CASE EntryFailure(p)
    BY <2>7 DEF EntryFailure, AfterPortfolio, PcStates, EndStates, Outcomes
  <2>. QED  BY <1>5, <2>1, <2>2, <2>3, <2>4, <2>5, <2>6, <2>7 DEF Fault
<1>. QED  BY <1>1, <1>2, <1>3, <1>4, <1>5 DEF Next, Step

-----------------------------------------------------------------------------
(* Discipline *)

(* A step that leaves logs and journal alone leaves what runs have written.*)
LEMMA QuietFrame ==
  ASSUME log' = log, journal' = journal, NEW r \in Runs
  PROVE  /\ HasEffects(r)' <=> HasEffects(r)
         /\ Committed(r)' <=> Committed(r)
BY EffectsFrame, CommittedFrame

(* What a process does in the store itself - waiting for the portfolio     *)
(* lock, reading, writing, giving the lock back                            *)
(* (virtualPortfolioFileStore.ts 104-208) - keeps the discipline.          *)
LEMMA DisciplineStoreStep ==
  ASSUME TypeOK, TypeOK', Discipline, NEW p \in Procs, StoreStep(p)
  PROVE  Discipline'
<1>. USE DEF Goto, End, local, locks, files, TypeOK, Procs, Discipline,
     ValuesInv, LocksInv, ProgressInv, ReleaseInv, TornInv, FenceInv,
     Untouched, HoldsAllLogs, PortfolioStates, BatchStates, DecidedStates,
     AppliedStates, EarlyStates, ReadStates, WaitStates, BarrierStates,
     EndStates
<1>1. log' = log /\ journal' = journal =>
        \A r \in Runs : /\ HasEffects(r)' <=> HasEffects(r)
                        /\ Committed(r)' <=> Committed(r)
  BY QuietFrame
<1>2. CASE AcquirePortfolio(p)
  BY <1>2, <1>1, ProcAssumption DEF AcquirePortfolio
<1>3. CASE TimeoutPortfolio(p)
  BY <1>3, <1>1 DEF TimeoutPortfolio, AfterPortfolio, HoldsLogs
<1>4. CASE ReadSnapshot(p)
  <2>1. /\ pc[p] = "snapshotRead" /\ portfolioLock' = Nobody
        /\ \E there \in {"applyWait", "deciding", "auditWait"} :
             /\ pc' = [pc EXCEPT ![p] = there]
             /\ there = "applyWait" => p \in Updates
        /\ outcome' = outcome \/ outcome' = [outcome EXCEPT ![p] = "stale"]
        /\ UNCHANGED <<decision, target, done, dirty, logLock, log, journal>>
    BY <1>4 DEF ReadSnapshot
  <2>. QED  BY <2>1, <1>1, ProcAssumption
<1>5. CASE CheckWrite(p)
  <2>1. /\ pc[p] = "applyCheck" /\ p \notin Runs
        /\ \/ pc' = [pc EXCEPT ![p] = "unlock"] /\ UNCHANGED target
           \/ /\ pc' = [pc EXCEPT ![p] = "stage"]
              /\ \E v \in Portfolios : target' = [target EXCEPT ![p] = v]
        /\ outcome' = outcome \/ outcome' = [outcome EXCEPT ![p] = "stale"]
        /\ UNCHANGED <<decision, done, dirty, portfolioLock, logLock, log,
                       journal>>
    BY <1>5, ProcAssumption DEF CheckWrite
  <2>2. CASE pc' = [pc EXCEPT ![p] = "unlock"] /\ UNCHANGED target
    BY <2>1, <2>2, <1>1
  <2>3. CASE pc' = [pc EXCEPT ![p] = "stage"]
    BY <2>1, <2>3, <1>1
  <2>. QED  BY <2>1, <2>2, <2>3
<1>6. CASE StagePortfolio(p)
  BY <1>6, <1>1 DEF StagePortfolio
<1>7. CASE ReplaceProjection(p)
  <2>1. /\ pc[p] = "rename" /\ pc' = [pc EXCEPT ![p] = "unlock"]
        /\ outcome' = [outcome EXCEPT ![p] = "committed"]
        /\ UNCHANGED <<decision, target, done, dirty, portfolioLock, logLock,
                       log, journal>>
    BY <1>7 DEF ReplaceProjection
  <2>2. p \in Runs => Committed(p) /\ dirty[p] /\ HoldsAllLogs(p)
    BY <2>1
  <2>3. ReleaseInv'
    BY <2>1, <2>2, <1>1 DEF Logs
  <2>4. ValuesInv' /\ LocksInv' /\ ProgressInv' /\ TornInv' /\ FenceInv'
    BY <2>1, <1>1
  <2>. QED  BY <2>3, <2>4
<1>8. CASE ReleasePortfolio(p)
  <2>1. /\ pc[p] = "unlock" /\ portfolioLock' = Nobody
        /\ pc' = [pc EXCEPT ![p] = AfterPortfolio(p)]
        /\ UNCHANGED <<outcome, decision, target, done, dirty, logLock, log,
                       journal>>
    BY <1>8 DEF ReleasePortfolio
  <2>2. /\ AfterPortfolio(p) \in {"unlogs", "ended"}
        /\ p \in Runs /\ HoldsAllLogs(p) => AfterPortfolio(p) = "unlogs"
    BY DEF AfterPortfolio, HoldsLogs, Logs
  <2>. QED  BY <2>1, <2>2, <1>1 DEF Logs
<1>9. CASE AppendRevision(p)
  <2>1. \A r \in Runs : HasEffects(r)' <=> HasEffects(r)
    BY <1>9, EffectsFrame DEF AppendRevision
  <2>2. \A r \in Runs : Committed(r)' <=> Committed(r) \/ r = p
    <3>1. NewEntry(p) # Torn
      BY <1>9, NewEntryTyped, TornAssumption DEF AppendRevision
    <3>2. \A r \in Runs : NewEntry(p).application = r <=> r = p
      BY ProcAssumption DEF NewEntry
    <3>3. journal' = Append(journal, NewEntry(p))
      BY <1>9 DEF AppendRevision
    <3>. QED  BY <3>1, <3>2, <3>3, CommittedByAppend
  <2>3. /\ pc[p] = "journal" /\ pc' = [pc EXCEPT ![p] = "rename"]
        /\ UNCHANGED <<outcome, decision, target, done, dirty, portfolioLock,
                       logLock, log>>
    BY <1>9 DEF AppendRevision
  <2>. QED  BY <2>1, <2>2, <2>3
<1>. QED  BY <1>2, <1>3, <1>4, <1>5, <1>6, <1>7, <1>8, <1>9 DEF StoreStep

(* What a paper run does beyond the store - its audit appends, the batch,  *)
(* the prepared application (paperDecisionPipeline.ts 66-178,              *)
(* paperExecutionLogLocks.ts 47-109) - keeps the discipline.               *)
LEMMA DisciplineRunStep ==
  ASSUME TypeOK, ValuesInv, LocksInv, ProgressInv, ReleaseInv, TornInv,
         FenceInv, NEW r \in Runs, RunStep(r)
  PROVE  Discipline'
<1>0. /\ pc \in [Procs -> PcStates] /\ outcome \in [Procs -> Outcomes]
      /\ decision \in [Runs -> Decisions \cup {<<>>}]
      /\ notice \in [Runs -> Notices] /\ target \in [Procs -> PortfolioOrNone]
      /\ done \in [Runs -> Nat] /\ dirty \in [Procs -> BOOLEAN]
      /\ logLock \in [Logs -> Runs \cup {Nobody, Abandoned}]
      /\ log \in [Logs -> Seq(LogRecords \cup {Torn})]
  BY DEF TypeOK
<1>. USE <1>0 DEF Goto, End, local, locks, files, Procs, Untouched,
     HoldsAllLogs, PortfolioStates, BatchStates, DecidedStates, AppliedStates,
     EarlyStates, ReadStates, WaitStates, BarrierStates, EndStates
<1>1. log' = log /\ journal' = journal =>
        \A s \in Runs : /\ HasEffects(s)' <=> HasEffects(s)
                        /\ Committed(s)' <=> Committed(s)
  BY QuietFrame
<1>2. CASE ReadPacket(r)
  <2>1. /\ pc[r] = "packetRead" /\ pc' = [pc EXCEPT ![r] = "auditWait"]
        /\ portfolioLock' = Nobody
        /\ UNCHANGED <<outcome, decision, target, done, dirty, logLock, log,
                       journal>>
    BY <1>2 DEF ReadPacket
  <2>2. ValuesInv'
    BY <2>1, <1>1 DEF ValuesInv
  <2>3. LocksInv'
    BY <2>1, <1>1 DEF LocksInv
  <2>4. ProgressInv'
    BY <2>1, <1>1 DEF ProgressInv
  <2>5. ReleaseInv'
    BY <2>1, <1>1 DEF ReleaseInv, ProgressInv, LocksInv
  <2>6. TornInv'
    BY <2>1, <1>1 DEF TornInv, LocksInv
  <2>7. FenceInv'
    BY <2>1, <1>1 DEF FenceInv, LocksInv, ProgressInv, ReleaseInv
  <2>. QED  BY <2>2, <2>3, <2>4, <2>5, <2>6, <2>7 DEF Discipline
<1>3. CASE AcquireAudit(r)
  <2>1. /\ pc[r] = "auditWait" /\ logLock["audit"] = Nobody
        /\ pc' = [pc EXCEPT ![r] = "auditing"]
        /\ logLock' = [logLock EXCEPT !["audit"] = r]
        /\ UNCHANGED <<outcome, decision, target, done, dirty, portfolioLock,
                       log, journal>>
    BY <1>3 DEF AcquireAudit
  <2>2. ValuesInv'
    BY <2>1, <1>1, ProcAssumption DEF ValuesInv
  <2>3. LocksInv'
    BY <2>1, <1>1, ProcAssumption DEF Logs, LocksInv
  <2>4. ProgressInv'
    BY <2>1, <1>1, ProcAssumption DEF ProgressInv, ReleaseInv
  <2>5. ReleaseInv'
    BY <2>1, <1>1, ProcAssumption DEF ReleaseInv, ProgressInv, LocksInv
  <2>6. TornInv'
    BY <2>1, <1>1, ProcAssumption DEF TornInv, LocksInv
  <2>7. FenceInv'
    BY <2>1, <1>1, ProcAssumption DEF FenceInv, LocksInv, ProgressInv,
       ReleaseInv
  <2>. QED  BY <2>2, <2>3, <2>4, <2>5, <2>6, <2>7 DEF Discipline
<1>4. CASE AppendNotice(r)
  <2>1. /\ pc[r] = "auditing"
        /\ \/ pc' = [pc EXCEPT ![r] = "snapshotWait"]
           \/ pc' = [pc EXCEPT ![r] = "ended"]
        /\ logLock' = [logLock EXCEPT !["audit"] = Nobody]
        /\ log' = [log EXCEPT !["audit"] = Append(@, NoticeRecord(r))]
        /\ UNCHANGED <<outcome, decision, target, done, dirty, portfolioLock,
                       journal>>
    BY <1>4 DEF AppendNotice
  <2>2. NoticeRecord(r) \in LogRecords /\ NoticeRecord(r) # Torn
    BY TornAssumption DEF NoticeRecord, LogRecords
  <2>3. \A s \in Runs : ~IsEffectOf(NoticeRecord(r), s)
    BY DEF IsEffectOf, NoticeRecord, Notices, Events
  <2>4. \A s \in Runs : /\ HasEffects(s)' <=> HasEffects(s)
                        /\ Committed(s)' <=> Committed(s)
    BY <2>1, <2>3, EffectsByAppend, CommittedFrame DEF Logs
  <2>5. ValuesInv'
    BY <2>1, <2>4 DEF ValuesInv
  <2>6. LocksInv'
    BY <2>1, <2>4 DEF LocksInv
  <2>7. ProgressInv'
    BY <2>1, <2>4 DEF ProgressInv
  <2>8. ReleaseInv'
    BY <2>1, <2>4 DEF ReleaseInv, ProgressInv, LocksInv
  <2>9. TornInv'
    <3>1. /\ logLock["audit"] = r
          /\ \A i \in DOMAIN log["audit"] : log["audit"][i] # Torn
      BY <2>1 DEF TornInv, LocksInv, Logs
    <3>2. "audit" \in Logs
      BY DEF Logs
    <3>3. ASSUME NEW k \in Logs, NEW i \in DOMAIN log'[k], log'[k][i] = Torn
          PROVE  logLock'[k] \in Runs /\ pc'[logLock'[k]] \in EndStates
      <4>1. k # "audit" /\ i \in DOMAIN log[k] /\ log[k][i] = Torn
        BY <2>1, <2>2, <3>1, <3>2, <3>3, LogByAppend
      <4>. QED  BY <2>1, <4>1 DEF TornInv
    <3>. QED  BY <3>3 DEF TornInv
  <2>10. FenceInv'
    BY <2>1, <2>4 DEF FenceInv, LocksInv, ProgressInv, ReleaseInv
  <2>. QED  BY <2>5, <2>6, <2>7, <2>8, <2>9, <2>10 DEF Discipline
<1>5. CASE Decide(r)
  <2>1. /\ pc[r] = "deciding"
        /\ \/ /\ pc' = [pc EXCEPT ![r] = "logWait"]
              /\ \E d \in Decisions : decision' = [decision EXCEPT ![r] = d]
           \/ pc' = [pc EXCEPT ![r] = "auditWait"] /\ UNCHANGED decision
        /\ outcome' = outcome \/ outcome' = [outcome EXCEPT ![r] = "refused"]
        /\ UNCHANGED <<target, done, dirty, locks, log, journal>>
    BY <1>5 DEF Decide
  <2>2. ValuesInv'
    BY <2>1, <1>1 DEF ValuesInv
  <2>3. LocksInv'
    <3>1. /\ \/ pc' = [pc EXCEPT ![r] = "logWait"]
             \/ pc' = [pc EXCEPT ![r] = "auditWait"]
          /\ UNCHANGED <<portfolioLock, logLock>>
      BY <2>1
    <3>. QED  BY <3>1 DEF LocksInv
  <2>4. ProgressInv'
    BY <2>1, <1>1 DEF ProgressInv
  <2>5. ReleaseInv'
    BY <2>1, <1>1 DEF ReleaseInv, ProgressInv, LocksInv
  <2>6. TornInv'
    BY <2>1, <1>1 DEF TornInv, LocksInv
  <2>7. FenceInv'
    BY <2>1, <1>1 DEF FenceInv, LocksInv, ProgressInv, ReleaseInv
  <2>. QED  BY <2>2, <2>3, <2>4, <2>5, <2>6, <2>7 DEF Discipline
<1>6. CASE AcquireLog(r)
  <2>1. PICK l \in Logs :
          /\ pc[r] = "logWait" /\ logLock[l] = Nobody
          /\ logLock' = [logLock EXCEPT ![l] = r]
          /\ \/ pc' = [pc EXCEPT ![r] = "logWait"]
             \/ /\ pc' = [pc EXCEPT ![r] = "applyWait"]
                /\ \A k \in Logs \ {l} : logLock[k] = r
          /\ UNCHANGED <<outcome, decision, target, done, dirty,
                         portfolioLock, log, journal>>
    BY <1>6 DEF AcquireLog
  <2>2. ValuesInv'
    BY <2>1, <1>1, ProcAssumption DEF ValuesInv
  <2>3. LocksInv'
    BY <2>1, <1>1, ProcAssumption DEF Logs, LocksInv
  <2>4. ProgressInv'
    BY <2>1, <1>1, ProcAssumption DEF ProgressInv, ReleaseInv
  <2>5. ReleaseInv'
    BY <2>1, <1>1, ProcAssumption DEF ReleaseInv, ProgressInv, LocksInv
  <2>6. TornInv'
    BY <2>1, <1>1, ProcAssumption DEF TornInv, LocksInv
  <2>7. FenceInv'
    BY <2>1, <1>1, ProcAssumption DEF FenceInv, LocksInv, ProgressInv,
       ReleaseInv
  <2>. QED  BY <2>2, <2>3, <2>4, <2>5, <2>6, <2>7 DEF Discipline
<1>7. CASE TimeoutLog(r)
  <2>1. /\ pc[r] \in {"logWait", "auditWait"}
        /\ outcome' = [outcome EXCEPT ![r] = "failed"]
        /\ \/ pc' = [pc EXCEPT ![r] = "unlogs"]
           \/ pc' = [pc EXCEPT ![r] = "ended"]
        /\ UNCHANGED <<decision, target, done, dirty, locks, log, journal>>
    BY <1>7 DEF TimeoutLog, AfterPortfolio
  <2>2. ValuesInv'
    BY <2>1, <1>1 DEF ValuesInv
  <2>3. LocksInv'
    BY <2>1, <1>1 DEF LocksInv
  <2>4. ProgressInv'
    BY <2>1, <1>1 DEF ProgressInv
  <2>5. ReleaseInv'
    BY <2>1, <1>1 DEF ReleaseInv, ProgressInv, LocksInv
  <2>6. TornInv'
    BY <2>1, <1>1 DEF TornInv, LocksInv
  <2>7. FenceInv'
    BY <2>1, <1>1 DEF FenceInv, LocksInv, ProgressInv, ReleaseInv
  <2>. QED  BY <2>2, <2>3, <2>4, <2>5, <2>6, <2>7 DEF Discipline
<1>8. CASE CheckApplication(r)
  <2>1. /\ pc[r] = "applyCheck"
        /\ \/ pc' = [pc EXCEPT ![r] = "intent"] /\ UNCHANGED outcome
           \/ /\ pc' = [pc EXCEPT ![r] = "unlock"]
              /\ outcome' = [outcome EXCEPT ![r] = "stale"]
        /\ UNCHANGED <<decision, target, done, dirty, locks, log, journal>>
    BY <1>8 DEF CheckApplication
  <2>2. ValuesInv'
    BY <2>1, <1>1 DEF ValuesInv
  <2>3. LocksInv'
    BY <2>1, <1>1 DEF LocksInv
  <2>4. ProgressInv'
    BY <2>1, <1>1 DEF ProgressInv
  <2>5. ReleaseInv'
    BY <2>1, <1>1 DEF ReleaseInv, ProgressInv, LocksInv
  <2>6. TornInv'
    BY <2>1, <1>1 DEF TornInv, LocksInv
  <2>7. FenceInv'
    BY <2>1, <1>1 DEF FenceInv, LocksInv, ProgressInv, ReleaseInv
  <2>. QED  BY <2>2, <2>3, <2>4, <2>5, <2>6, <2>7 DEF Discipline
<1>9. CASE WriteIntent(r)
  <2>1. /\ pc[r] = "intent" /\ pc' = [pc EXCEPT ![r] = "plan"]
        /\ \E v \in Portfolios : target' = [target EXCEPT ![r] = v]
        /\ UNCHANGED <<outcome, decision, done, dirty, locks, log, journal>>
    BY <1>9 DEF WriteIntent
  <2>2. ValuesInv'
    BY <2>1, <1>1 DEF ValuesInv
  <2>3. LocksInv'
    BY <2>1, <1>1 DEF LocksInv
  <2>4. ProgressInv'
    BY <2>1, <1>1 DEF ProgressInv
  <2>5. ReleaseInv'
    BY <2>1, <1>1 DEF ReleaseInv, ProgressInv, LocksInv
  <2>6. TornInv'
    BY <2>1, <1>1 DEF TornInv, LocksInv
  <2>7. FenceInv'
    BY <2>1, <1>1 DEF FenceInv, LocksInv, ProgressInv, ReleaseInv
  <2>. QED  BY <2>2, <2>3, <2>4, <2>5, <2>6, <2>7 DEF Discipline
<1>10. CASE WritePlan(r)
  <2>1. /\ pc[r] = "plan" /\ pc' = [pc EXCEPT ![r] = "apply"]
        /\ UNCHANGED <<outcome, decision, target, done, dirty, locks, log,
                       journal>>
    BY <1>10 DEF WritePlan
  <2>2. Len(ApplicationScript(decision[r])) > 0
    BY <2>1, DecisionScripts DEF ValuesInv
  <2>3. ValuesInv'
    BY <2>1, <2>2, <1>1 DEF ValuesInv, ProgressInv
  <2>4. LocksInv'
    BY <2>1, <1>1 DEF LocksInv
  <2>5. ProgressInv'
    BY <2>1, <1>1 DEF ProgressInv
  <2>6. ReleaseInv'
    BY <2>1, <1>1 DEF ReleaseInv, ProgressInv, LocksInv
  <2>7. TornInv'
    BY <2>1, <1>1 DEF TornInv, LocksInv
  <2>8. FenceInv'
    BY <2>1, <1>1 DEF FenceInv, LocksInv, ProgressInv, ReleaseInv
  <2>. QED  BY <2>3, <2>4, <2>5, <2>6, <2>7, <2>8 DEF Discipline
<1>11. CASE AppendEffect(r)
  <2>1. /\ pc[r] = "apply"
        /\ \/ pc' = [pc EXCEPT ![r] = "seal"]
           \/ /\ pc' = [pc EXCEPT ![r] = "apply"]
              /\ done[r] + 1 # Len(ApplicationScript(decision[r]))
        /\ done' = [done EXCEPT ![r] = @ + 1]
        /\ dirty' = [dirty EXCEPT ![r] = TRUE]
        /\ log' = [log EXCEPT ![NextEffect(r).log] = Append(@, EffectRecord(r))]
        /\ UNCHANGED <<outcome, decision, target, locks, journal>>
    BY <1>11 DEF AppendEffect
  <2>2. /\ NextEffect(r).log \in Logs
        /\ EffectRecord(r) \in LogRecords /\ EffectRecord(r) # Torn
    BY <2>1, NextEffectTyped, TornAssumption DEF Effects
  <2>3. \A s \in Runs : /\ HasEffects(s)' => HasEffects(s) \/ s = r
                        /\ HasEffects(s) => HasEffects(s)'
                        /\ Committed(s)' <=> Committed(s)
    <3>1. \A s \in Runs : IsEffectOf(EffectRecord(r), s) => s = r
      BY DEF IsEffectOf, EffectRecord
    <3>2. \A s \in Runs : HasEffects(s)' <=>
                          HasEffects(s) \/ IsEffectOf(EffectRecord(r), s)
      BY <2>1, <2>2, EffectsByAppend
    <3>. QED  BY <2>1, <3>1, <3>2, CommittedFrame
  <2>4. ValuesInv'
    <3>1. Len(ApplicationScript(decision[r])) \in Nat
      BY <2>1, DecisionScripts DEF ValuesInv
    <3>2. pc'[r] = "apply" => done'[r] < Len(ApplicationScript(decision[r]))
      BY <2>1, <3>1 DEF ValuesInv
    <3>. QED  BY <2>1, <3>2 DEF ValuesInv
  <2>5. LocksInv'
    BY <2>1, <2>3 DEF LocksInv
  <2>6. ProgressInv'
    BY <2>1, <2>3 DEF ProgressInv
  <2>7. ReleaseInv'
    BY <2>1, <2>3 DEF ReleaseInv, ProgressInv, LocksInv
  <2>8. TornInv'
    <3>1. ASSUME NEW k \in Logs, NEW i \in DOMAIN log'[k], log'[k][i] = Torn
          PROVE  logLock'[k] \in Runs /\ pc'[logLock'[k]] \in EndStates
      <4>1. i \in DOMAIN log[k] /\ log[k][i] = Torn
        BY <2>1, <2>2, <3>1, LogByAppend
      <4>. QED  BY <2>1, <4>1 DEF TornInv
    <3>. QED  BY <3>1 DEF TornInv
  <2>9. FenceInv'
    BY <2>1, <2>3 DEF FenceInv, LocksInv, ProgressInv, ReleaseInv
  <2>. QED  BY <2>4, <2>5, <2>6, <2>7, <2>8, <2>9 DEF Discipline
<1>12. CASE CompleteLogs(r)
  <2>1. /\ pc[r] = "seal" /\ pc' = [pc EXCEPT ![r] = "stage"]
        /\ UNCHANGED <<outcome, decision, target, done, dirty, locks, log,
                       journal>>
    BY <1>12 DEF CompleteLogs
  <2>2. ValuesInv'
    BY <2>1, <1>1 DEF ValuesInv
  <2>3. LocksInv'
    BY <2>1, <1>1 DEF LocksInv
  <2>4. ProgressInv'
    BY <2>1, <1>1 DEF ProgressInv
  <2>5. ReleaseInv'
    BY <2>1, <1>1 DEF ReleaseInv, ProgressInv, LocksInv
  <2>6. TornInv'
    BY <2>1, <1>1 DEF TornInv, LocksInv
  <2>7. FenceInv'
    BY <2>1, <1>1 DEF FenceInv, LocksInv, ProgressInv, ReleaseInv
  <2>. QED  BY <2>2, <2>3, <2>4, <2>5, <2>6, <2>7 DEF Discipline
<1>13. CASE ReleaseLog(r)
  <2>1. PICK l \in Logs :
          /\ pc[r] = "unlogs" /\ logLock[l] = r
          /\ \A k \in Logs : LogRank[k] > LogRank[l] => logLock[k] # r
          /\ logLock' = [logLock EXCEPT ![l] = Nobody]
          /\ \/ /\ pc' = [pc EXCEPT ![r] = "unlogs"]
                /\ \E k \in Logs \ {l} : logLock[k] = r
             \/ pc' = [pc EXCEPT ![r] = "ended"] /\ outcome[r] # "stale"
             \/ pc' = [pc EXCEPT ![r] = "auditWait"] /\ outcome[r] = "stale"
          /\ UNCHANGED <<outcome, decision, target, done, dirty,
                         portfolioLock, log, journal>>
    BY <1>13 DEF ReleaseLog, LastLog, AfterBatch
  <2>2. ValuesInv'
    BY <2>1, <1>1, ProcAssumption DEF ValuesInv
  <2>3. LocksInv'
    BY <2>1, <1>1, ProcAssumption DEF LocksInv
  <2>4. ProgressInv'
    BY <2>1, <1>1, ProcAssumption DEF ProgressInv, ReleaseInv
  <2>5. ReleaseInv'
    BY <2>1, <1>1, ProcAssumption DEF Logs, LogRank, ReleaseInv, ProgressInv,
       LocksInv
  <2>6. TornInv'
    BY <2>1, <1>1, ProcAssumption DEF TornInv, LocksInv
  <2>7. FenceInv'
    BY <2>1, <1>1, ProcAssumption DEF FenceInv, LocksInv, ProgressInv,
       ReleaseInv
  <2>. QED  BY <2>2, <2>3, <2>4, <2>5, <2>6, <2>7 DEF Discipline
<1>. QED  BY <1>2, <1>3, <1>4, <1>5, <1>6, <1>7, <1>8, <1>9, <1>10, <1>11,
             <1>12, <1>13 DEF RunStep

(* What a fault leaves on disk: at most the effect, the entry or the torn  *)
(* line that was being written.                                            *)
LEMMA InterruptedFrame ==
  ASSUME TypeOK, ValuesInv, NEW p \in Procs, Interrupted(p)
  PROVE  /\ \A s \in Runs :
              /\ HasEffects(s) => HasEffects(s)'
              /\ HasEffects(s)' => HasEffects(s) \/ (s = p /\ pc[p] = "apply")
              /\ Committed(s) => Committed(s)'
              /\ Committed(s)' => Committed(s) \/ (s = p /\ pc[p] = "journal")
         /\ \A k \in Logs : \A i \in DOMAIN log'[k] :
              log'[k][i] = Torn =>
                \/ i \in DOMAIN log[k] /\ log[k][i] = Torn
                \/ p \in Runs /\ pc[p] = "auditing" /\ k = "audit"
                \/ p \in Runs /\ pc[p] = "apply"
<1>1. CASE log' = log /\ journal' = journal
  BY <1>1, QuietFrame
<1>2. CASE p \in Runs /\ LeavesNotice(p)
  <2>1. PICK rec \in {Torn, NoticeRecord(p)} :
          log' = [log EXCEPT !["audit"] = Append(@, rec)]
    BY <1>2 DEF LeavesNotice
  <2>2. "audit" \in Logs /\ log \in [Logs -> Seq(LogRecords \cup {Torn})]
    BY DEF Logs, TypeOK
  <2>3. \A s \in Runs : ~IsEffectOf(rec, s)
    <3>1. notice[p] \in Notices
      BY <1>2 DEF TypeOK
    <3>2. NoticeRecord(p).event \notin Events
      BY <3>1 DEF NoticeRecord, Notices, Events
    <3>. QED  BY <2>1, <3>2 DEF IsEffectOf
  <2>4. \A s \in Runs : HasEffects(s)' <=> HasEffects(s)
    BY <2>1, <2>2, <2>3, EffectsByAppend
  <2>5. \A s \in Runs : Committed(s)' <=> Committed(s)
    BY <1>2, CommittedFrame DEF LeavesNotice
  <2>6. \A k \in Logs : \A i \in DOMAIN log'[k] :
          (i \in DOMAIN log[k] /\ log'[k][i] = log[k][i]) \/ k = "audit"
    BY <2>1, <2>2, LogByAppend
  <2>. QED  BY <1>2, <2>4, <2>5, <2>6 DEF LeavesNotice
<1>3. CASE p \in Runs /\ LeavesEffect(p)
  <2>1. PICK rec \in {Torn, EffectRecord(p)} :
          log' = [log EXCEPT ![NextEffect(p).log] = Append(@, rec)]
    BY <1>3 DEF LeavesEffect
  <2>2. /\ NextEffect(p).log \in Logs
        /\ log \in [Logs -> Seq(LogRecords \cup {Torn})]
    BY <1>3, NextEffectTyped DEF LeavesEffect, TypeOK, Effects
  <2>3. \A s \in Runs : IsEffectOf(rec, s) => s = p
    BY DEF IsEffectOf, EffectRecord
  <2>4. \A s \in Runs : HasEffects(s)' <=> HasEffects(s) \/ IsEffectOf(rec, s)
    BY <2>1, <2>2, EffectsByAppend
  <2>5. \A s \in Runs : Committed(s)' <=> Committed(s)
    BY <1>3, CommittedFrame DEF LeavesEffect
  <2>. QED  BY <1>3, <2>3, <2>4, <2>5 DEF LeavesEffect
<1>4. CASE LeavesRevision(p)
  <2>1. PICK e \in {Torn, NewEntry(p)} : journal' = Append(journal, e)
    BY <1>4 DEF LeavesRevision
  <2>2. \A s \in Runs : e # Torn /\ e.application = s => s = p
    <3>1. \A s \in Runs : NewEntry(p).application = s => s = p
      BY ProcAssumption DEF NewEntry, Procs
    <3>. QED  BY <2>1, <3>1
  <2>3. \A s \in Runs : Committed(s)' <=>
          Committed(s) \/ (e # Torn /\ e.application = s)
    BY <2>1, CommittedByAppend DEF TypeOK
  <2>4. \A s \in Runs : HasEffects(s)' <=> HasEffects(s)
    BY <1>4, EffectsFrame DEF LeavesRevision
  <2>. QED  BY <1>4, <2>2, <2>3, <2>4 DEF LeavesRevision
<1>. QED  BY <1>1, <1>2, <1>3, <1>4 DEF Interrupted, files, LeavesIntent,
             LeavesPlan, LeavesReceipt, LeavesProjection

(* An error or a crash at any point, with whatever it leaves on disk,      *)
(* keeps the discipline (virtualPortfolioFileStore.ts 174-208,             *)
(* paperExecutionLogLocks.ts 73-79).                                       *)
LEMMA DisciplineFault ==
  ASSUME TypeOK, ValuesInv, LocksInv, ProgressInv, ReleaseInv, TornInv,
         FenceInv, NEW p \in Procs, Fault(p)
  PROVE  Discipline'
<1>0. /\ pc \in [Procs -> PcStates] /\ outcome \in [Procs -> Outcomes]
      /\ dirty \in [Procs -> BOOLEAN]
      /\ logLock \in [Logs -> Runs \cup {Nobody, Abandoned}]
  BY DEF TypeOK
<1>. USE <1>0 DEF Goto, End, local, locks, files, Procs, Untouched,
     HoldsAllLogs, PortfolioStates, BatchStates, DecidedStates, AppliedStates,
     EarlyStates, ReadStates, WaitStates, BarrierStates, EndStates
<1>1. log' = log /\ journal' = journal =>
        \A s \in Runs : /\ HasEffects(s)' <=> HasEffects(s)
                        /\ Committed(s)' <=> Committed(s)
  BY QuietFrame
<1>2. CASE CleanFailure(p)
  <2>1. /\ pc[p] \in ReadStates \/ (pc[p] = "stage" /\ p \notin Runs)
        /\ pc' = [pc EXCEPT ![p] = "unlock"]
        /\ outcome' = [outcome EXCEPT ![p] = "failed"]
        /\ UNCHANGED <<decision, target, done, dirty, locks, log, journal>>
    BY <1>2, ProcAssumption DEF CleanFailure, UnfencedStates
  <2>2. ValuesInv'
    BY <2>1, <1>1 DEF ValuesInv
  <2>3. LocksInv'
    BY <2>1, <1>1 DEF LocksInv
  <2>4. ProgressInv'
    BY <2>1, <1>1 DEF ProgressInv
  <2>5. ReleaseInv'
    BY <2>1, <1>1 DEF ReleaseInv, ProgressInv, LocksInv
  <2>6. TornInv'
    BY <2>1, <1>1 DEF TornInv, LocksInv
  <2>7. FenceInv'
    BY <2>1, <1>1 DEF FenceInv, LocksInv, ProgressInv, ReleaseInv
  <2>. QED  BY <2>2, <2>3, <2>4, <2>5, <2>6, <2>7 DEF Discipline
<1>3. CASE /\ FencedFailure(p) /\ Interrupted(p)
           /\ dirty' = [dirty EXCEPT ![p] = BatchDirty(p)]
  <2>1. /\ pc[p] \in PortfolioStates
        /\ BatchDirty(p) <=> dirty[p] \/ pc[p] = "apply"
        /\ IF BatchDirty(p) THEN pc' = [pc EXCEPT ![p] = "ended"]
           ELSE \/ pc' = [pc EXCEPT ![p] = "ended"]
                \/ pc' = [pc EXCEPT ![p] = "unlogs"]
        /\ outcome' = [outcome EXCEPT ![p] = "failed"]
        /\ UNCHANGED <<decision, target, done, locks>>
    BY <1>3 DEF FencedFailure, BatchDirty, AfterPortfolio
  <2>2. /\ \A s \in Runs :
             /\ HasEffects(s) => HasEffects(s)'
             /\ HasEffects(s)' => HasEffects(s) \/ (s = p /\ pc[p] = "apply")
             /\ Committed(s) => Committed(s)'
             /\ Committed(s)' => Committed(s) \/ (s = p /\ pc[p] = "journal")
        /\ \A k \in Logs : \A i \in DOMAIN log'[k] :
             log'[k][i] = Torn =>
               \/ i \in DOMAIN log[k] /\ log[k][i] = Torn
               \/ p \in Runs /\ pc[p] = "auditing" /\ k = "audit"
               \/ p \in Runs /\ pc[p] = "apply"
    BY InterruptedFrame, <1>3
  <2>3. ValuesInv'
    BY <2>1, <2>2, <1>3 DEF ValuesInv
  <2>4. LocksInv'
    BY <2>1, <2>2, <1>3 DEF LocksInv
  <2>5. ProgressInv'
    BY <2>1, <2>2, <1>3 DEF ProgressInv
  <2>6. ReleaseInv'
    <3>1. p \in Runs /\ Committed(p)' => logLock["audit"] = p
      BY <2>1, <2>2 DEF Logs, ReleaseInv, ProgressInv, LocksInv
    <3>2. p \in Runs /\ ~BatchDirty(p) => ~Committed(p)' /\ ~HasEffects(p)'
      BY <2>1, <2>2 DEF ReleaseInv, ProgressInv
    <3>3. p \in Runs => \/ pc'[p] = "ended"
                        \/ pc'[p] = "unlogs" /\ ~BatchDirty(p)
      BY <2>1
    <3>4. p \in Runs => outcome'[p] = "failed"
      BY <2>1
    <3>5. ASSUME NEW s \in Runs, s # p
          PROVE  /\ pc'[s] = pc[s] /\ outcome'[s] = outcome[s]
                 /\ Untouched(s)' <=> Untouched(s)
                 /\ dirty'[s] = dirty[s] /\ logLock' = logLock
                 /\ HasEffects(s)' <=> HasEffects(s)
                 /\ Committed(s)' <=> Committed(s)
      BY <2>1, <2>2, <3>5, <1>3
    <3>. QED  BY <2>1, <3>1, <3>2, <3>3, <3>4, <3>5 DEF ReleaseInv
  <2>7. TornInv'
    <3>1. ASSUME NEW k \in Logs, NEW i \in DOMAIN log'[k], log'[k][i] = Torn
          PROVE  logLock'[k] \in Runs /\ pc'[logLock'[k]] \in EndStates
      <4>1. CASE i \in DOMAIN log[k] /\ log[k][i] = Torn
        BY <2>1, <4>1 DEF TornInv
      <4>2. CASE /\ p \in Runs
                 /\ (pc[p] = "auditing" /\ k = "audit") \/ pc[p] = "apply"
        BY <2>1, <4>2 DEF LocksInv
      <4>. QED  BY <2>2, <3>1, <4>1, <4>2
    <3>. QED  BY <3>1 DEF TornInv
  <2>8. FenceInv'
    BY <2>1, <2>2, <1>3 DEF FenceInv, LocksInv, ProgressInv, ReleaseInv
  <2>. QED  BY <2>3, <2>4, <2>5, <2>6, <2>7, <2>8 DEF Discipline
<1>4. CASE FencedFailure(p) /\ UNCHANGED <<files, dirty>>
  <2>1. /\ pc[p] \in PortfolioStates
        /\ IF dirty[p] THEN pc' = [pc EXCEPT ![p] = "ended"]
           ELSE \/ pc' = [pc EXCEPT ![p] = "ended"]
                \/ pc' = [pc EXCEPT ![p] = "unlogs"]
        /\ outcome' = [outcome EXCEPT ![p] = "failed"]
        /\ UNCHANGED <<decision, target, done, dirty, locks, log, journal>>
    BY <1>4 DEF FencedFailure, AfterPortfolio
  <2>2. ValuesInv'
    BY <2>1, <1>1 DEF ValuesInv
  <2>3. LocksInv'
    BY <2>1, <1>1 DEF LocksInv
  <2>4. ProgressInv'
    BY <2>1, <1>1 DEF ProgressInv
  <2>5. ReleaseInv'
    <3>1. p \in Runs /\ Committed(p) => logLock["audit"] = p
      BY <2>1 DEF Logs, ReleaseInv, ProgressInv, LocksInv
    <3>2. p \in Runs /\ ~dirty[p] => ~Committed(p) /\ ~HasEffects(p)
      BY <2>1 DEF ReleaseInv, ProgressInv
    <3>. QED  BY <2>1, <1>1, <3>1, <3>2 DEF ReleaseInv
  <2>6. TornInv'
    BY <2>1, <1>1 DEF TornInv, LocksInv
  <2>7. FenceInv'
    BY <2>1, <1>1 DEF FenceInv, LocksInv, ProgressInv, ReleaseInv
  <2>. QED  BY <2>2, <2>3, <2>4, <2>5, <2>6, <2>7 DEF Discipline
<1>5. CASE Crash(p)
  <2>1. /\ pc' = [pc EXCEPT ![p] = "crashed"] /\ pc[p] \notin EndStates
        /\ UNCHANGED <<outcome, decision, target, done, dirty, locks>>
    BY <1>5 DEF Crash
  <2>2. /\ \A s \in Runs :
             /\ HasEffects(s) => HasEffects(s)'
             /\ HasEffects(s)' => HasEffects(s) \/ (s = p /\ pc[p] = "apply")
             /\ Committed(s) => Committed(s)'
             /\ Committed(s)' => Committed(s) \/ (s = p /\ pc[p] = "journal")
        /\ \A k \in Logs : \A i \in DOMAIN log'[k] :
             log'[k][i] = Torn =>
               \/ i \in DOMAIN log[k] /\ log[k][i] = Torn
               \/ p \in Runs /\ pc[p] = "auditing" /\ k = "audit"
               \/ p \in Runs /\ pc[p] = "apply"
    BY InterruptedFrame, <1>5 DEF Crash
  <2>3. ValuesInv'
    BY <2>1, <2>2 DEF ValuesInv
  <2>4. LocksInv'
    BY <2>1, <2>2 DEF LocksInv
  <2>5. ProgressInv'
    BY <2>1, <2>2 DEF ProgressInv
  <2>6. ReleaseInv'
    BY <2>1, <2>2 DEF ReleaseInv, ProgressInv, LocksInv
  <2>7. TornInv'
    <3>1. ASSUME NEW k \in Logs, NEW i \in DOMAIN log'[k], log'[k][i] = Torn
          PROVE  logLock'[k] \in Runs /\ pc'[logLock'[k]] \in EndStates
      <4>1. CASE i \in DOMAIN log[k] /\ log[k][i] = Torn
        BY <2>1, <4>1 DEF TornInv
      <4>2. CASE /\ p \in Runs
                 /\ (pc[p] = "auditing" /\ k = "audit") \/ pc[p] = "apply"
        BY <2>1, <4>2 DEF LocksInv
      <4>. QED  BY <2>2, <3>1, <4>1, <4>2
    <3>. QED  BY <3>1 DEF TornInv
  <2>8. FenceInv'
    BY <2>1, <2>2 DEF FenceInv, LocksInv, ProgressInv, ReleaseInv
  <2>. QED  BY <2>3, <2>4, <2>5, <2>6, <2>7, <2>8 DEF Discipline
<1>6. CASE p \in Runs /\ AuditFailure(p)
  <2>1. CASE Interrupted(p) /\ UNCHANGED logLock
    <3>1. /\ pc[p] = "auditing" /\ pc' = [pc EXCEPT ![p] = "ended"]
          /\ outcome' = [outcome EXCEPT ![p] = "failed"]
          /\ UNCHANGED <<decision, target, done, dirty, locks>>
      BY <1>6, <2>1 DEF AuditFailure
    <3>2. /\ \A s \in Runs :
               /\ HasEffects(s) => HasEffects(s)'
               /\ HasEffects(s)' => HasEffects(s) \/ (s = p /\ pc[p] = "apply")
               /\ Committed(s) => Committed(s)'
               /\ Committed(s)' => Committed(s) \/ (s = p /\ pc[p] = "journal")
          /\ \A k \in Logs : \A i \in DOMAIN log'[k] :
               log'[k][i] = Torn =>
                 \/ i \in DOMAIN log[k] /\ log[k][i] = Torn
                 \/ p \in Runs /\ pc[p] = "auditing" /\ k = "audit"
                 \/ p \in Runs /\ pc[p] = "apply"
      BY InterruptedFrame, <2>1
    <3>3. ValuesInv'
      BY <3>1, <3>2, <1>6 DEF ValuesInv
    <3>4. LocksInv'
      BY <3>1, <3>2, <1>6 DEF LocksInv
    <3>5. ProgressInv'
      BY <3>1, <3>2, <1>6 DEF ProgressInv
    <3>6. ReleaseInv'
      BY <3>1, <3>2, <1>6 DEF ReleaseInv, ProgressInv, LocksInv
    <3>7. TornInv'
      <4>1. ASSUME NEW k \in Logs, NEW i \in DOMAIN log'[k], log'[k][i] = Torn
            PROVE  logLock'[k] \in Runs /\ pc'[logLock'[k]] \in EndStates
        <5>1. CASE i \in DOMAIN log[k] /\ log[k][i] = Torn
          BY <3>1, <5>1 DEF TornInv
        <5>2. CASE /\ p \in Runs
                   /\ (pc[p] = "auditing" /\ k = "audit") \/ pc[p] = "apply"
          BY <3>1, <5>2 DEF LocksInv
        <5>. QED  BY <3>2, <4>1, <5>1, <5>2
      <4>. QED  BY <4>1 DEF TornInv
    <3>8. FenceInv'
      BY <3>1, <3>2, <1>6 DEF FenceInv, LocksInv, ProgressInv, ReleaseInv
    <3>. QED  BY <3>3, <3>4, <3>5, <3>6, <3>7, <3>8 DEF Discipline
  <2>2. CASE UNCHANGED files /\ logLock' = [logLock EXCEPT !["audit"] = Nobody]
    <3>1. /\ pc[p] = "auditing" /\ pc' = [pc EXCEPT ![p] = "ended"]
          /\ outcome' = [outcome EXCEPT ![p] = "failed"]
          /\ UNCHANGED <<decision, target, done, dirty, portfolioLock, log,
                         journal>>
      BY <1>6, <2>2 DEF AuditFailure
    <3>2. ValuesInv'
      BY <3>1, <2>2, <1>6, <1>1 DEF Logs, ValuesInv
    <3>3. LocksInv'
      BY <3>1, <2>2, <1>6, <1>1 DEF Logs, LocksInv
    <3>4. ProgressInv'
      BY <3>1, <2>2, <1>6, <1>1 DEF Logs, ProgressInv
    <3>5. ReleaseInv'
      BY <3>1, <2>2, <1>6, <1>1 DEF Logs, ReleaseInv, ProgressInv, LocksInv
    <3>6. TornInv'
      BY <3>1, <2>2, <1>6, <1>1 DEF Logs, TornInv, LocksInv
    <3>7. FenceInv'
      BY <3>1, <2>2, <1>6, <1>1 DEF Logs, FenceInv, LocksInv, ProgressInv,
         ReleaseInv
    <3>. QED  BY <3>2, <3>3, <3>4, <3>5, <3>6, <3>7 DEF Discipline
  <2>. QED  BY <1>6, <2>1, <2>2 DEF AuditFailure
<1>7. CASE p \in Runs /\ LogInitFailure(p)
  <2>1. PICK l \in Logs :
          /\ pc[p] = "logWait" /\ logLock[l] = Nobody
          /\ logLock' = [logLock EXCEPT ![l] = Abandoned]
          /\ \/ pc' = [pc EXCEPT ![p] = "ended"]
             \/ pc' = [pc EXCEPT ![p] = "unlogs"]
          /\ outcome' = [outcome EXCEPT ![p] = "failed"]
          /\ UNCHANGED <<decision, target, done, dirty, portfolioLock, log,
                         journal>>
    BY <1>7 DEF LogInitFailure, AfterPortfolio
  <2>2. ValuesInv'
    BY <2>1, <1>7, <1>1, ProcAssumption DEF ValuesInv
  <2>3. LocksInv'
    BY <2>1, <1>7, <1>1, ProcAssumption DEF LocksInv
  <2>4. ProgressInv'
    BY <2>1, <1>7, <1>1, ProcAssumption DEF ProgressInv
  <2>5. ReleaseInv'
    BY <2>1, <1>7, <1>1, ProcAssumption DEF ReleaseInv, ProgressInv, LocksInv
  <2>6. TornInv'
    BY <2>1, <1>7, <1>1, ProcAssumption DEF TornInv, LocksInv
  <2>7. FenceInv'
    BY <2>1, <1>7, <1>1, ProcAssumption DEF FenceInv, LocksInv, ProgressInv,
       ReleaseInv
  <2>. QED  BY <2>2, <2>3, <2>4, <2>5, <2>6, <2>7 DEF Discipline
<1>8. CASE p \in Runs /\ ReleaseFailure(p)
  <2>1. /\ pc[p] = "unlogs" /\ pc' = [pc EXCEPT ![p] = "ended"]
        /\ outcome' = [outcome EXCEPT ![p] = "failed"]
        /\ UNCHANGED <<decision, target, done, dirty, locks, log, journal>>
    BY <1>8 DEF ReleaseFailure
  <2>2. ValuesInv'
    BY <2>1, <1>1 DEF ValuesInv
  <2>3. LocksInv'
    BY <2>1, <1>1 DEF LocksInv
  <2>4. ProgressInv'
    BY <2>1, <1>1 DEF ProgressInv
  <2>5. ReleaseInv'
    BY <2>1, <1>1 DEF ReleaseInv, ProgressInv, LocksInv
  <2>6. TornInv'
    BY <2>1, <1>1 DEF TornInv, LocksInv
  <2>7. FenceInv'
    BY <2>1, <1>1 DEF FenceInv, LocksInv, ProgressInv, ReleaseInv
  <2>. QED  BY <2>2, <2>3, <2>4, <2>5, <2>6, <2>7 DEF Discipline
<1>9. CASE EntryFailure(p)
  <2>1. /\ pc[p] \in WaitStates \cup {"deciding"}
        /\ \/ pc' = [pc EXCEPT ![p] = "ended"]
           \/ pc' = [pc EXCEPT ![p] = "unlogs"]
        /\ outcome' = [outcome EXCEPT ![p] = "failed"]
        /\ UNCHANGED <<decision, target, done, dirty, locks, log, journal>>
    BY <1>9 DEF EntryFailure, AfterPortfolio
  <2>2. ValuesInv'
    BY <2>1, <1>1 DEF ValuesInv
  <2>3. LocksInv'
    BY <2>1, <1>1 DEF LocksInv
  <2>4. ProgressInv'
    BY <2>1, <1>1 DEF ProgressInv
  <2>5. ReleaseInv'
    BY <2>1, <1>1 DEF ReleaseInv, ProgressInv, LocksInv
  <2>6. TornInv'
    BY <2>1, <1>1 DEF TornInv, LocksInv
  <2>7. FenceInv'
    BY <2>1, <1>1 DEF FenceInv, LocksInv, ProgressInv, ReleaseInv
  <2>. QED  BY <2>2, <2>3, <2>4, <2>5, <2>6, <2>7 DEF Discipline
<1>. QED  BY <1>2, <1>3, <1>4, <1>5, <1>6, <1>7, <1>8, <1>9
          DEF Fault, FencedFailure

(* A process that starts only takes its place in a queue.                  *)
LEMMA DisciplineStart ==
  ASSUME TypeOK, Discipline, NEW p \in Procs, Start(p)
  PROVE  Discipline'
<1>1. /\ pc[p] = "idle"
      /\ \E there \in {"packetWait", "snapshotWait", "applyWait"} :
           /\ pc' = [pc EXCEPT ![p] = there]
           /\ p \in Runs => there = "packetWait"
      /\ UNCHANGED <<outcome, decision, target, done, dirty, locks, log,
                     journal>>
  BY ProcAssumption DEF Start, Goto, local, files, Procs, Updates
<1>2. pc \in [Procs -> PcStates] /\ Runs \subseteq Procs
  BY DEF TypeOK, Procs
<1>3. \A r \in Runs : /\ HasEffects(r)' <=> HasEffects(r)
                      /\ Committed(r)' <=> Committed(r)
  BY <1>1, QuietFrame
<1>. QED
  BY <1>1, <1>2, <1>3 DEF Discipline, ValuesInv, LocksInv, ProgressInv,
     ReleaseInv, TornInv, FenceInv, Untouched, HoldsAllLogs, locks,
     PortfolioStates, BatchStates, DecidedStates, AppliedStates, EarlyStates,
     ReadStates, WaitStates, BarrierStates, EndStates

-----------------------------------------------------------------------------
(* The inductive invariant and what follows from it                        *)

(* Nothing is written and nothing is locked at the start.                  *)
LEMMA DisciplineInit == Init => Discipline
<1>1. Init => \A r \in Runs : ~HasEffects(r) /\ ~Committed(r)
  BY DEF Init, HasEffects, Committed
<1>. QED
  BY <1>1 DEF Init, Discipline, ValuesInv, LocksInv, ProgressInv, ReleaseInv,
     TornInv, FenceInv, Untouched, Procs, PortfolioStates, BatchStates,
     DecidedStates, AppliedStates, ReadStates, BarrierStates

(* Every step of the store, the pipeline or a fault keeps both invariants. *)
LEMMA InductiveStep ==
  ASSUME TypeOK, Discipline, [Next]_vars
  PROVE  TypeOK' /\ Discipline'
<1>1. TypeOK'
  BY TypeStep DEF Discipline
<1>2. CASE UNCHANGED vars
  <2>1. \A r \in Runs : /\ HasEffects(r)' <=> HasEffects(r)
                        /\ Committed(r)' <=> Committed(r)
    BY <1>2, QuietFrame DEF vars, files
  <2>2. UNCHANGED <<pc, outcome, decision, target, done, dirty, portfolioLock,
                    logLock, log>>
    BY <1>2 DEF vars, local, locks, files
  <2>3. ValuesInv' /\ LocksInv' /\ TornInv'
    BY <2>2 DEF Discipline, ValuesInv, LocksInv, TornInv, HoldsAllLogs
  <2>4. ProgressInv' /\ ReleaseInv'
    BY <2>1, <2>2 DEF Discipline, ProgressInv, ReleaseInv, Untouched,
       HoldsAllLogs
  <2>5. FenceInv'
    BY <2>1, <2>2 DEF Discipline, FenceInv, HoldsAllLogs
  <2>. QED  BY <1>1, <2>3, <2>4, <2>5 DEF Discipline
<1>3. ASSUME NEW p \in Procs, Start(p) PROVE Discipline'
  BY <1>3, DisciplineStart
<1>4. ASSUME NEW p \in Procs, StoreStep(p) PROVE Discipline'
  BY <1>1, <1>4, DisciplineStoreStep
<1>5. ASSUME NEW r \in Runs, RunStep(r) PROVE Discipline'
  BY <1>5, DisciplineRunStep DEF Discipline
<1>6. ASSUME NEW p \in Procs, Fault(p) PROVE Discipline'
  BY <1>6, DisciplineFault DEF Discipline
<1>. QED  BY <1>1, <1>2, <1>3, <1>4, <1>5, <1>6 DEF Next, Step

(* In every reachable state each variable has its type and every process   *)
(* keeps the discipline of the locks (virtualPortfolioFileStore.ts         *)
(* 104-208, paperExecutionLogLocks.ts 47-109, paperDecisionPipeline.ts     *)
(* 66-197), however many processes share the directory.                    *)
THEOREM DisciplineHolds == Spec => [](TypeOK /\ Discipline)
<1>1. Init => TypeOK /\ Discipline
  BY TypeInit, DisciplineInit
<1>2. TypeOK /\ Discipline /\ [Next]_vars => TypeOK' /\ Discipline'
  BY InductiveStep
<1>. QED  BY <1>1, <1>2, PTL DEF Spec

(* Every variable keeps its type: in particular no entry is appended to    *)
(* the journal, and no record to a log, that its reader would find         *)
(* malformed (virtualPortfolioRevisionJournal.ts 88-105).                  *)
THEOREM TypeCorrect == Spec => []TypeOK
BY DisciplineHolds, PTL

(* A record of an application is on disk only if its revision is           *)
(* committed, or behind all the locks of its run; a torn line is always    *)
(* behind its log lock (virtualPortfolioFileStore.ts 67-70,                *)
(* paperExecutionLogLocks.ts 43-46).                                       *)
THEOREM EffectsAreFenced == Spec => []EffectsFenced
<1>1. TypeOK /\ Discipline => EffectsFenced
  <2>. SUFFICES ASSUME TypeOK, Discipline PROVE EffectsFenced
    OBVIOUS
  <2>1. ASSUME NEW l \in Logs, NEW i \in DOMAIN log[l], log[l][i] = Torn
        PROVE  logLock[l] # Nobody
    BY <2>1, ProcAssumption DEF Discipline, TornInv, Procs
  <2>2. ASSUME NEW l \in Logs, NEW i \in DOMAIN log[l], NEW r \in Runs,
               IsEffectOf(log[l][i], r)
        PROVE  \/ Committed(r)
               \/ portfolioLock = r /\ \A k \in Logs : logLock[k] = r
    <3>1. HasEffects(r)
      BY <2>2 DEF HasEffects
    <3>. QED  BY <3>1 DEF Discipline, FenceInv, HoldsAllLogs
  <2>. QED  BY <2>1, <2>2 DEF EffectsFenced
<1>. QED  BY <1>1, DisciplineHolds, PTL

(* A run that ends in an error and leaves the store open to another        *)
(* attempt has committed nothing and appended no effect                    *)
(* (virtualPortfolioFileStore.ts 199-203).                                 *)
THEOREM RetriesAreSafe == Spec => []RetryableMeansUnapplied
<1>1. TypeOK /\ Discipline => RetryableMeansUnapplied
  <2>. SUFFICES ASSUME TypeOK, Discipline, NEW r \in Runs,
                       pc[r] = "ended", outcome[r] # "committed",
                       portfolioLock = Nobody, logLock["audit"] = Nobody
                PROVE  ~Committed(r) /\ ~HasEffects(r)
    BY DEF RetryableMeansUnapplied
  <2>1. r # Nobody
    BY ProcAssumption DEF Procs
  <2>2. ~Committed(r)
    BY <2>1 DEF Discipline, ReleaseInv
  <2>3. ~HasEffects(r)
    BY <2>1, <2>2 DEF Discipline, FenceInv
  <2>. QED  BY <2>2, <2>3
<1>. QED  BY <1>1, DisciplineHolds, PTL

-----------------------------------------------------------------------------
(* Waiting *)

(* A process is where its locks say.                                       *)
LEMMA HoldersInit == Init => HoldersInv
BY ProcAssumption DEF Init, HoldersInv, Procs

(* A step that takes no lock and keeps p away from the states of the       *)
(* lockless keeps the holders where they are.                              *)
LEMMA HoldersStay ==
  ASSUME TypeOK, HoldersInv, NEW p \in Procs, NEW there \in PcStates,
         pc' = [pc EXCEPT ![p] = there],
         UNCHANGED logLock,
         portfolioLock' = portfolioLock \/ portfolioLock' = Nobody,
         portfolioLock' = p =>
           /\ there \in PortfolioStates \cup {"unlogs"} \cup EndStates
           /\ there = "unlogs" => outcome'[p] # "stale",
         \A q \in Procs \ {p} : outcome'[q] = outcome[q],
         p \in Runs => \/ there \notin LoglessStates \cup {"auditing", "logWait"}
                      \/ pc[p] \in LoglessStates \/ ~HoldsLogs(p)
  PROVE  HoldersInv'
<1>1. /\ pc \in [Procs -> PcStates] /\ Runs \subseteq Procs
      /\ portfolioLock \in Procs \cup {Nobody} /\ Nobody \notin Procs
  BY ProcAssumption DEF TypeOK, Procs
<1>2. portfolioLock' # Nobody =>
        /\ pc'[portfolioLock'] \in PortfolioStates \cup {"unlogs"} \cup EndStates
        /\ pc'[portfolioLock'] = "unlogs" => outcome'[portfolioLock'] # "stale"
  BY <1>1 DEF HoldersInv
<1>3. ASSUME NEW r \in Runs, NEW l \in Logs, logLock[l] = r
      PROVE  /\ pc'[r] \notin LoglessStates
             /\ pc'[r] = "auditing" => l = "audit"
             /\ pc'[r] = "logWait" =>
                  \A k \in Logs : LogRank[k] < LogRank[l] => logLock[k] = r
  <2>1. CASE r = p
    <3>1. HoldsLogs(r) /\ pc[r] \notin LoglessStates
      BY <1>3 DEF HoldsLogs, HoldersInv
    <3>2. pc'[r] \notin LoglessStates \cup {"auditing", "logWait"}
      BY <2>1, <3>1, <1>1
    <3>. QED  BY <3>2
  <2>2. CASE r # p
    <3>1. pc'[r] = pc[r]
      BY <2>2, <1>1
    <3>. QED  BY <1>3, <3>1 DEF HoldersInv
  <2>. QED  BY <2>1, <2>2
<1>. QED  BY <1>2, <1>3 DEF HoldersInv

LEMMA HoldersStoreStep ==
  ASSUME TypeOK, LocksInv, HoldersInv, NEW p \in Procs, StoreStep(p)
  PROVE  HoldersInv'
<1>. USE DEF Goto, End, locks, files, local
<1>0. /\ pc \in [Procs -> PcStates] /\ outcome \in [Procs -> Outcomes] /\ Runs \subseteq Procs
      /\ portfolioLock \in Procs \cup {Nobody} /\ Nobody \notin Procs
  BY ProcAssumption DEF TypeOK, Procs
<1>1. CASE AcquirePortfolio(p)
  <2>1. PICK there \in {"packetRead", "snapshotRead", "applyCheck"} :
          /\ pc' = [pc EXCEPT ![p] = there]
          /\ there \in LoglessStates => pc[p] \in LoglessStates
    BY <1>1 DEF AcquirePortfolio, LoglessStates
  <2>2. UNCHANGED logLock /\ portfolioLock' = p /\ pc'[p] = there
    BY <1>0, <1>1, <2>1 DEF AcquirePortfolio
  <2>3. portfolioLock' = p /\ pc'[p] \in PortfolioStates /\ pc'[p] # "unlogs"
    BY <2>2, <2>1 DEF PortfolioStates, ReadStates
  <2>4. ASSUME NEW r \in Runs, NEW l \in Logs, logLock[l] = r
        PROVE  /\ pc'[r] \notin LoglessStates
               /\ pc'[r] = "auditing" => l = "audit"
               /\ pc'[r] = "logWait" =>
                    \A k \in Logs : LogRank[k] < LogRank[l] => logLock[k] = r
    BY <1>0, <2>1, <2>4 DEF HoldersInv
  <2>. QED  BY <2>2, <2>3, <2>4 DEF HoldersInv
<1>2. CASE TimeoutPortfolio(p)
  <2>1. AfterPortfolio(p) \in {"unlogs", "ended"}
    BY DEF AfterPortfolio
  <2>2. portfolioLock # p
    BY <1>0, <1>2 DEF TimeoutPortfolio, HoldersInv, PortfolioStates, ReadStates,
       BarrierStates, EndStates
  <2>. QED  BY <1>0, <1>2, <2>1, <2>2, HoldersStay
            DEF TimeoutPortfolio, PcStates, EndStates, LoglessStates
<1>3. CASE ReadSnapshot(p)
  <2>1. PICK there \in {"applyWait", "deciding", "auditWait"} :
          pc' = [pc EXCEPT ![p] = there]
    BY <1>3 DEF ReadSnapshot
  <2>2. pc[p] \in LoglessStates /\ there \in PcStates
    BY <1>3, <2>1 DEF ReadSnapshot, LoglessStates, PcStates, WaitStates
  <2>. QED  BY <1>3, <2>1, <2>2, <1>0, HoldersStay DEF ReadSnapshot
<1>4. CASE CheckWrite(p) \/ StagePortfolio(p) \/ AppendRevision(p)
             \/ ReplaceProjection(p)
  <2>1. PICK there \in {"stage", "unlock", "journal", "rename"} :
          pc' = [pc EXCEPT ![p] = there]
    BY <1>4 DEF CheckWrite, StagePortfolio, AppendRevision, ReplaceProjection
  <2>2. /\ there \in PcStates /\ there \in PortfolioStates
        /\ there \notin LoglessStates \cup {"auditing", "logWait"}
    BY <2>1 DEF PcStates, PortfolioStates, BarrierStates, LoglessStates
  <2>3. UNCHANGED locks /\ \A q \in Procs \ {p} : outcome'[q] = outcome[q]
    BY <1>0, <1>4
       DEF CheckWrite, StagePortfolio, AppendRevision, ReplaceProjection
  <2>4. there # "unlogs"
    BY <2>1
  <2>. QED  BY <2>1, <2>2, <2>3, <2>4, HoldersStay
<1>5. CASE ReleasePortfolio(p)
  <2>1. AfterPortfolio(p) \in {"unlogs", "ended"}
    BY DEF AfterPortfolio
  <2>. QED  BY <1>0, <1>5, <2>1, HoldersStay
            DEF ReleasePortfolio, PcStates, EndStates, LoglessStates
<1>. QED  BY <1>1, <1>2, <1>3, <1>4, <1>5 DEF StoreStep

LEMMA HoldersRunStep ==
  ASSUME TypeOK, LocksInv, HoldersInv, NEW r \in Runs, RunStep(r)
  PROVE  HoldersInv'
<1>. USE DEF Goto, End, locks, files, local
<1>0. /\ pc \in [Procs -> PcStates] /\ outcome \in [Procs -> Outcomes] /\ r \in Procs /\ Runs \subseteq Procs
      /\ portfolioLock \in Procs \cup {Nobody} /\ Nobody \notin Procs
      /\ logLock \in [Logs -> Runs \cup {Nobody, Abandoned}]
      /\ "audit" \in Logs
  BY ProcAssumption DEF TypeOK, Procs, Logs
<1>1. CASE ReadPacket(r)
  BY <1>0, <1>1, HoldersStay
     DEF ReadPacket, PcStates, WaitStates, LoglessStates
<1>2. CASE AcquireAudit(r)
  <2>1. /\ pc[r] = "auditWait" /\ logLock["audit"] = Nobody
        /\ pc' = [pc EXCEPT ![r] = "auditing"]
        /\ logLock' = [logLock EXCEPT !["audit"] = r]
        /\ portfolioLock' = portfolioLock /\ outcome' = outcome
    BY <1>2 DEF AcquireAudit
  <2>2. portfolioLock # r /\ \A l \in Logs : logLock[l] # r
    BY <1>0, <2>1 DEF HoldersInv, LoglessStates, PortfolioStates, ReadStates,
       BarrierStates, EndStates
  <2>3. ASSUME NEW q \in Runs, q # r
        PROVE  pc'[q] = pc[q] /\ \A l \in Logs : logLock'[l] = q <=> logLock[l] = q
    BY <1>0, <2>1, <2>3
  <2>4. \A l \in Logs : logLock'[l] = r => l = "audit"
    BY <1>0, <2>1, <2>2
  <2>5. pc'[r] = "auditing"
    BY <1>0, <2>1
  <2>. QED  BY <1>0, <2>1, <2>2, <2>3, <2>4, <2>5 DEF HoldersInv, LoglessStates
<1>3. CASE AppendNotice(r)
  <2>1. PICK there \in {"snapshotWait", "ended"} :
          /\ pc[r] = "auditing" /\ pc' = [pc EXCEPT ![r] = there]
          /\ logLock' = [logLock EXCEPT !["audit"] = Nobody]
          /\ portfolioLock' = portfolioLock /\ outcome' = outcome
    BY <1>3 DEF AppendNotice
  <2>2. portfolioLock # r /\ \A l \in Logs : logLock'[l] # r
    BY <1>0, <2>1 DEF HoldersInv, PortfolioStates, ReadStates, BarrierStates,
       EndStates
  <2>3. ASSUME NEW q \in Runs, q # r
        PROVE  /\ pc'[q] = pc[q]
               /\ \A l \in Logs : logLock'[l] = q => logLock[l] = q
               /\ pc[q] = "logWait" =>
                    \A l \in Logs : logLock[l] = q => logLock'[l] = q
    BY <1>0, <2>1, <2>3 DEF LocksInv
  <2>. QED  BY <1>0, <2>1, <2>2, <2>3 DEF HoldersInv
<1>4. CASE Decide(r)
  <2>1. PICK there \in {"logWait", "auditWait"} : pc' = [pc EXCEPT ![r] = there]
    BY <1>4 DEF Decide
  <2>2. there \in PcStates /\ pc[r] \in LoglessStates /\ UNCHANGED locks
    BY <1>4, <2>1 DEF Decide, PcStates, WaitStates, LoglessStates
  <2>3. portfolioLock # r
    BY <1>0, <1>4 DEF Decide, HoldersInv, PortfolioStates, ReadStates,
       BarrierStates, EndStates
  <2>4. \A q \in Procs \ {r} : outcome'[q] = outcome[q]
    BY <1>0, <1>4 DEF Decide
  <2>. QED  BY <1>0, <2>1, <2>2, <2>3, <2>4, HoldersStay
<1>5. CASE AcquireLog(r)
  <2>1. PICK l \in Logs :
          /\ pc[r] = "logWait" /\ NextLog(r, l) /\ logLock[l] = Nobody
          /\ logLock' = [logLock EXCEPT ![l] = r]
          /\ \/ pc' = [pc EXCEPT ![r] = "logWait"]
             \/ pc' = [pc EXCEPT ![r] = "applyWait"]
          /\ portfolioLock' = portfolioLock
    BY <1>5 DEF AcquireLog
  <2>2. portfolioLock # r
    BY <1>0, <2>1 DEF HoldersInv, PortfolioStates, ReadStates, BarrierStates,
       EndStates
  <2>3. ASSUME NEW q \in Runs, q # r
        PROVE  /\ pc'[q] = pc[q]
               /\ \A k \in Logs : logLock'[k] = q <=> logLock[k] = q
    BY <1>0, <2>1, <2>3
  <2>4. pc'[r] \in {"logWait", "applyWait"}
    BY <1>0, <2>1
  <2>5. ASSUME NEW k \in Logs, logLock'[k] = r,
               NEW j \in Logs, LogRank[j] < LogRank[k]
        PROVE  logLock'[j] = r
    <3>1. CASE k = l
      BY <1>0, <2>1, <2>5, <3>1 DEF NextLog
    <3>2. CASE k # l
      <4>1. logLock[k] = r
        BY <1>0, <2>1, <2>5, <3>2
      <4>2. logLock[j] = r
        BY <2>1, <2>5, <4>1 DEF HoldersInv
      <4>. QED  BY <1>0, <2>1, <4>2
    <3>. QED  BY <3>1, <3>2
  <2>6. ASSUME NEW k \in Logs, logLock'[k] = r
        PROVE  /\ pc'[r] \notin LoglessStates \cup {"auditing"}
               /\ \A j \in Logs : LogRank[j] < LogRank[k] => logLock'[j] = r
    BY <2>4, <2>5, <2>6 DEF LoglessStates
  <2>7. /\ outcome' = outcome
        /\ portfolioLock' # Nobody => pc'[portfolioLock'] = pc[portfolioLock]
    BY <1>0, <1>5, <2>1, <2>2 DEF AcquireLog
  <2>8. ASSUME NEW q \in Runs, NEW k \in Logs, logLock'[k] = q
        PROVE  /\ pc'[q] \notin LoglessStates
               /\ pc'[q] = "auditing" => k = "audit"
               /\ pc'[q] = "logWait" =>
                    \A j \in Logs : LogRank[j] < LogRank[k] => logLock'[j] = q
    <3>1. CASE q = r
      BY <2>6, <2>8, <3>1
    <3>2. CASE q # r
      BY <2>3, <2>8, <3>2 DEF HoldersInv
    <3>. QED  BY <3>1, <3>2
  <2>. QED  BY <2>1, <2>7, <2>8 DEF HoldersInv
<1>6. CASE TimeoutLog(r)
  <2>1. PICK there \in {"unlogs", "ended"} : pc' = [pc EXCEPT ![r] = there]
    BY <1>6 DEF TimeoutLog, AfterPortfolio
  <2>2. there \in PcStates /\ UNCHANGED locks
    BY <1>6, <2>1 DEF TimeoutLog, PcStates, EndStates
  <2>3. portfolioLock # r
    BY <1>0, <1>6 DEF TimeoutLog, HoldersInv, PortfolioStates, ReadStates,
       BarrierStates, EndStates
  <2>4. \A q \in Procs \ {r} : outcome'[q] = outcome[q]
    BY <1>0, <1>6 DEF TimeoutLog
  <2>. QED  BY <1>0, <2>1, <2>2, <2>3, <2>4, HoldersStay
            DEF EndStates, LoglessStates
<1>7. CASE CheckApplication(r) \/ WriteIntent(r) \/ WritePlan(r)
             \/ AppendEffect(r) \/ CompleteLogs(r)
  <2>1. PICK there \in {"intent", "unlock", "plan", "apply", "seal", "stage"} :
          pc' = [pc EXCEPT ![r] = there]
    BY <1>7 DEF CheckApplication, WriteIntent, WritePlan, AppendEffect,
       CompleteLogs
  <2>2. /\ there \in PcStates /\ there \in PortfolioStates
        /\ there \notin LoglessStates \cup {"auditing", "logWait"}
    BY <2>1 DEF PcStates, PortfolioStates, BarrierStates, LoglessStates
  <2>3. UNCHANGED locks /\ \A q \in Procs \ {r} : outcome'[q] = outcome[q]
    BY <1>0, <1>7 DEF CheckApplication, WriteIntent, WritePlan, AppendEffect,
       CompleteLogs
  <2>4. there # "unlogs"
    BY <2>1
  <2>. QED  BY <1>0, <2>1, <2>2, <2>3, <2>4, HoldersStay
<1>8. CASE ReleaseLog(r)
  <2>1. PICK l \in Logs :
          /\ pc[r] = "unlogs" /\ logLock[l] = r
          /\ logLock' = [logLock EXCEPT ![l] = Nobody]
          /\ pc' = [pc EXCEPT ![r] = IF \E k \in Logs \ {l} : logLock[k] = r
                                       THEN "unlogs" ELSE AfterBatch(r)]
          /\ portfolioLock' = portfolioLock /\ outcome' = outcome
    BY <1>8 DEF ReleaseLog, LastLog
  <2>2. pc'[r] \in {"unlogs", "ended", "auditWait"}
    BY <1>0, <2>1 DEF AfterBatch
  <2>3. pc'[r] = "auditWait" =>
          outcome[r] = "stale" /\ \A k \in Logs : logLock'[k] # r
    BY <1>0, <2>1 DEF AfterBatch
  <2>4. portfolioLock' = r => pc'[r] \in {"unlogs"} \cup EndStates
    BY <1>0, <2>1, <2>2, <2>3 DEF HoldersInv, EndStates
  <2>5. ASSUME NEW q \in Runs, q # r
        PROVE  /\ pc'[q] = pc[q]
               /\ \A k \in Logs : logLock'[k] = q <=> logLock[k] = q
    BY <1>0, <2>1, <2>5
  <2>6. portfolioLock' # Nobody =>
          /\ pc'[portfolioLock'] \in PortfolioStates \cup {"unlogs"} \cup EndStates
          /\ pc'[portfolioLock'] = "unlogs" => outcome'[portfolioLock'] # "stale"
    BY <1>0, <2>1, <2>4 DEF HoldersInv
  <2>7. ASSUME NEW q \in Runs, NEW k \in Logs, logLock'[k] = q
        PROVE  /\ pc'[q] \notin LoglessStates
               /\ pc'[q] = "auditing" => k = "audit"
               /\ pc'[q] = "logWait" =>
                    \A j \in Logs : LogRank[j] < LogRank[k] => logLock'[j] = q
    <3>1. CASE q = r
      BY <2>2, <2>3, <2>7, <3>1 DEF LoglessStates
    <3>2. CASE q # r
      BY <2>5, <2>7, <3>2 DEF HoldersInv
    <3>. QED  BY <3>1, <3>2
  <2>. QED  BY <2>6, <2>7 DEF HoldersInv
<1>. QED  BY <1>1, <1>2, <1>3, <1>4, <1>5, <1>6, <1>7, <1>8 DEF RunStep

LEMMA HoldersFault ==
  ASSUME TypeOK, LocksInv, HoldersInv, NEW p \in Procs, Fault(p)
  PROVE  HoldersInv'
<1>. USE DEF Goto, End, locks, files, local
<1>0. /\ pc \in [Procs -> PcStates] /\ outcome \in [Procs -> Outcomes]
      /\ portfolioLock \in Procs \cup {Nobody} /\ Nobody \notin Procs
      /\ logLock \in [Logs -> Runs \cup {Nobody, Abandoned}]
      /\ Runs \subseteq Procs /\ Abandoned \notin Procs /\ "audit" \in Logs
  BY ProcAssumption DEF TypeOK, Procs, Logs
<1>1. CASE CleanFailure(p)
  <2>1. pc' = [pc EXCEPT ![p] = "unlock"]
    BY <1>1 DEF CleanFailure
  <2>2. UNCHANGED locks /\ \A q \in Procs \ {p} : outcome'[q] = outcome[q]
    BY <1>0, <1>1 DEF CleanFailure
  <2>. QED  BY <2>1, <2>2, HoldersStay DEF PcStates, PortfolioStates, LoglessStates
<1>2. CASE FencedFailure(p)
  <2>1. PICK there \in {"unlogs", "ended"} : pc' = [pc EXCEPT ![p] = there]
    BY <1>2 DEF FencedFailure, AfterPortfolio
  <2>2. /\ UNCHANGED locks /\ outcome'[p] = "failed"
        /\ \A q \in Procs \ {p} : outcome'[q] = outcome[q]
    BY <1>0, <1>2 DEF FencedFailure
  <2>. QED  BY <2>1, <2>2, HoldersStay DEF PcStates, EndStates, LoglessStates
<1>3. CASE EntryFailure(p)
  <2>1. PICK there \in {"unlogs", "ended"} : pc' = [pc EXCEPT ![p] = there]
    BY <1>3 DEF EntryFailure, AfterPortfolio
  <2>2. /\ UNCHANGED locks /\ outcome'[p] = "failed"
        /\ \A q \in Procs \ {p} : outcome'[q] = outcome[q]
    BY <1>0, <1>3 DEF EntryFailure
  <2>. QED  BY <2>1, <2>2, HoldersStay DEF PcStates, EndStates, LoglessStates
<1>4. CASE Crash(p) \/ (p \in Runs /\ ReleaseFailure(p))
  <2>1. PICK there \in EndStates : pc' = [pc EXCEPT ![p] = there]
    BY <1>4 DEF Crash, ReleaseFailure, EndStates
  <2>2. UNCHANGED locks /\ \A q \in Procs \ {p} : outcome'[q] = outcome[q]
    BY <1>0, <1>4 DEF Crash, ReleaseFailure
  <2>. QED  BY <2>1, <2>2, HoldersStay DEF PcStates, EndStates, LoglessStates
<1>5. CASE p \in Runs /\ (AuditFailure(p) \/ LogInitFailure(p))
  <2>1. PICK there \in {"unlogs", "ended"} : pc' = [pc EXCEPT ![p] = there]
    BY <1>5 DEF AuditFailure, LogInitFailure, AfterPortfolio
  <2>2. /\ portfolioLock' = portfolioLock /\ outcome'[p] = "failed"
        /\ \A q \in Procs \ {p} : pc'[q] = pc[q] /\ outcome'[q] = outcome[q]
    BY <1>0, <1>5 DEF AuditFailure, LogInitFailure
  <2>3. /\ pc'[p] \notin LoglessStates \cup {"auditing", "logWait"}
        /\ portfolioLock' = p => pc'[p] \in {"unlogs"} \cup EndStates
    BY <1>0, <2>1 DEF LoglessStates, EndStates
  <2>4. ASSUME NEW q \in Runs, q # p
        PROVE  /\ \A k \in Logs : logLock'[k] = q => logLock[k] = q
               /\ pc[q] = "logWait" =>
                    \A k \in Logs : logLock[k] = q => logLock'[k] = q
    <3>1. CASE UNCHANGED logLock
      BY <3>1
    <3>2. CASE pc[p] = "auditing" /\ logLock' = [logLock EXCEPT !["audit"] = Nobody]
      BY <1>0, <1>5, <2>4, <3>2 DEF LocksInv
    <3>3. CASE \E l \in Logs : /\ logLock[l] = Nobody
                              /\ logLock' = [logLock EXCEPT ![l] = Abandoned]
      BY <1>0, <2>4, <3>3
    <3>. QED  BY <1>5, <3>1, <3>2, <3>3 DEF AuditFailure, LogInitFailure
  <2>5. portfolioLock' # Nobody =>
          /\ pc'[portfolioLock'] \in PortfolioStates \cup {"unlogs"} \cup EndStates
          /\ pc'[portfolioLock'] = "unlogs" => outcome'[portfolioLock'] # "stale"
    BY <1>0, <2>2, <2>3 DEF HoldersInv
  <2>6. ASSUME NEW q \in Runs, NEW k \in Logs, logLock'[k] = q
        PROVE  /\ pc'[q] \notin LoglessStates
               /\ pc'[q] = "auditing" => k = "audit"
               /\ pc'[q] = "logWait" =>
                    \A j \in Logs : LogRank[j] < LogRank[k] => logLock'[j] = q
    <3>1. CASE q = p
      BY <2>3, <3>1
    <3>2. CASE q # p
      BY <1>0, <2>2, <2>4, <2>6, <3>2 DEF HoldersInv
    <3>. QED  BY <3>1, <3>2
  <2>. QED  BY <2>5, <2>6 DEF HoldersInv
<1>. QED  BY <1>1, <1>2, <1>3, <1>4, <1>5 DEF Fault

LEMMA HoldersStep ==
  ASSUME TypeOK, LocksInv, HoldersInv, [Next]_vars
  PROVE  HoldersInv'
<1>1. CASE UNCHANGED vars
  BY <1>1 DEF vars, locks, HoldersInv
<1>2. ASSUME NEW p \in Procs, Start(p) PROVE HoldersInv'
  <2>1. PICK there \in {"packetWait", "snapshotWait", "applyWait"} :
          pc' = [pc EXCEPT ![p] = there]
    BY <1>2, ProcAssumption DEF Start, Goto, Procs, Updates
  <2>2. /\ UNCHANGED <<locks, outcome>> /\ pc[p] \in LoglessStates
        /\ there \in PcStates
    BY <1>2, <2>1 DEF Start, LoglessStates, PcStates, WaitStates
  <2>3. portfolioLock # p
    BY <1>2, ProcAssumption DEF Start, HoldersInv, PortfolioStates, ReadStates,
       BarrierStates, EndStates, Procs
  <2>. QED  BY <2>1, <2>2, <2>3, HoldersStay DEF locks
<1>3. ASSUME NEW p \in Procs, Step(p) PROVE HoldersInv'
  BY <1>3, HoldersStoreStep, HoldersRunStep DEF Step
<1>4. ASSUME NEW p \in Procs, Fault(p) PROVE HoldersInv'
  BY <1>4, HoldersFault
<1>. QED  BY <1>1, <1>2, <1>3, <1>4 DEF Next

LEMMA HoldersHold == Spec => [](TypeOK /\ Discipline /\ HoldersInv)
<1>1. Init => HoldersInv
  BY HoldersInit
<1>2. TypeOK /\ Discipline /\ HoldersInv /\ [Next]_vars => HoldersInv'
  BY HoldersStep DEF Discipline
<1>. QED  BY <1>1, <1>2, DisciplineHolds, PTL DEF Spec

(* Who waits does not hold the portfolio.                                  *)
LEMMA WaitersHoldLogs ==
  ASSUME TypeOK, HoldersInv, NEW p \in Procs, NEW q \in Procs, NEW o \in Procs,
         WaitsOn(p, q), WaitsOn(q, o)
  PROVE  portfolioLock # q /\ \E l \in Logs : logLock[l] = q
<1>1. q # Nobody /\ "audit" \in Logs
  BY ProcAssumption DEF Procs, Logs
<1>2. pc[q] \in {"packetWait", "snapshotWait", "applyWait", "logWait", "auditWait"}
  BY DEF WaitsOn
<1>3. portfolioLock # q
  BY <1>1, <1>2 DEF HoldersInv, PortfolioStates, ReadStates, BarrierStates,
     EndStates
<1>. QED  BY <1>1, <1>3 DEF WaitsOn

(* If q, who has log l, waits for somebody who waits too, that one has a   *)
(* later log.                                                              *)
LEMMA WaitsForHigher ==
  ASSUME TypeOK, HoldersInv, NEW q \in Procs, NEW o \in Procs, NEW x \in Procs,
         WaitsOn(q, o), WaitsOn(o, x), NEW l \in Logs, logLock[l] = q
  PROVE  \E k \in Logs : logLock[k] = o /\ LogRank[k] > LogRank[l]
<1>1. q \in Runs
  BY ProcAssumption DEF TypeOK, Procs
<1>2. portfolioLock # o
  BY WaitersHoldLogs
<1>3. pc[q] \notin LoglessStates
  BY <1>1 DEF HoldersInv
<1>4. pc[q] = "logWait"
  BY <1>2, <1>3 DEF WaitsOn, LoglessStates
<1>5. PICK k \in Logs : NextLog(q, k) /\ logLock[k] = o
  BY <1>4 DEF WaitsOn
<1>6. logLock[k] # q
  BY <1>5 DEF NextLog
<1>7. ~(LogRank[k] < LogRank[l])
  BY <1>1, <1>4, <1>6 DEF HoldersInv
<1>8. LogRank[k] # LogRank[l]
  BY <1>6 DEF Logs, LogRank
<1>. QED  BY <1>5, <1>7, <1>8 DEF Logs, LogRank

(* No set of processes waits only on each other, however many there are:   *)
(* four of them in a row would need a fourth log                           *)
(* (paperExecutionLogLocks.ts 56-60, virtualPortfolioFileStore.ts 62-70).  *)
THEOREM NeverAWaitCycle == Spec => []NoWaitCycle
<1>1. TypeOK /\ HoldersInv => NoWaitCycle
  <2>. SUFFICES ASSUME TypeOK, HoldersInv, NEW S \in (SUBSET Procs) \ {{}},
                       \A p \in S : \E q \in S : WaitsOn(p, q)
                PROVE  FALSE
    BY DEF NoWaitCycle
  <2>1. PICK p1 \in S : p1 \in Procs
    <3>1. S # {} /\ S \subseteq Procs
      OBVIOUS
    <3>. QED  BY <3>1
  <2>2. PICK p2 \in S : WaitsOn(p1, p2)
    OBVIOUS
  <2>3. PICK p3 \in S : WaitsOn(p2, p3)
    OBVIOUS
  <2>4. PICK p4 \in S : WaitsOn(p3, p4)
    OBVIOUS
  <2>5. PICK p5 \in S : WaitsOn(p4, p5)
    OBVIOUS
  <2>6. PICK p6 \in S : WaitsOn(p5, p6)
    OBVIOUS
  <2>7. S \subseteq Procs
    OBVIOUS
  <2>8. PICK l2 \in Logs : logLock[l2] = p2
    BY <2>2, <2>3, <2>7, WaitersHoldLogs
  <2>9. PICK l3 \in Logs : logLock[l3] = p3 /\ LogRank[l3] > LogRank[l2]
    BY <2>3, <2>4, <2>7, <2>8, WaitsForHigher
  <2>10. PICK l4 \in Logs : logLock[l4] = p4 /\ LogRank[l4] > LogRank[l3]
    BY <2>4, <2>5, <2>7, <2>9, WaitsForHigher
  <2>11. PICK l5 \in Logs : LogRank[l5] > LogRank[l4]
    BY <2>5, <2>6, <2>7, <2>10, WaitsForHigher
  <2>. QED  BY <2>9, <2>10, <2>11 DEF Logs, LogRank
<1>. QED  BY <1>1, HoldersHold, PTL

-----------------------------------------------------------------------------
(* History: what verified once goes on to verify *)

LogsGrow ==
  \A l \in Logs : \/ log'[l] = log[l]
                  \/ \E x \in LogRecords \cup {Torn} : log'[l] = Append(log[l], x)

LEMMA SubSeqOfAppend ==
  ASSUME NEW S, NEW s \in Seq(S), NEW x \in S, NEW a \in Nat, NEW b \in Nat,
         b <= Len(s)
  PROVE  SubSeq(Append(s, x), a + 1, b) = SubSeq(s, a + 1, b)
<1> DEFINE t == Append(s, x)
<1>1. /\ t \in Seq(S) /\ Len(t) = Len(s) + 1 /\ Len(s) \in Nat
      /\ \A i \in 1 .. Len(s) : t[i] = s[i]
  BY AppendProperties
<1>2. /\ SubSeq(t, a + 1, b) = [i \in 1 .. (b - a) |-> t[a + i]]
      /\ SubSeq(s, a + 1, b) = [i \in 1 .. (b - a) |-> s[a + i]]
  OBVIOUS
<1>3. \A i \in 1 .. (b - a) : t[a + i] = s[a + i]
  BY <1>1
<1> HIDE DEF t
<1>. QED  BY <1>2, <1>3 DEF t

(* Logs that grow keep the suffixes they have.                             *)
LEMMA SuffixStands ==
  ASSUME TypeOK, LogsGrow, NEW r \in Runs, intent'[r] = intent[r],
         NEW l \in Logs, NEW a \in Nat, NEW b \in Nat, SuffixVerifies(r, l, a, b)
  PROVE  SuffixVerifies(r, l, a, b)'
<1>1. log[l] \in Seq(LogRecords \cup {Torn}) /\ b <= Len(log[l])
  BY DEF TypeOK, SuffixVerifies
<1>2. SubSeq(log'[l], a + 1, b) = SubSeq(log[l], a + 1, b) /\ b <= Len(log'[l])
  <2>1. CASE log'[l] = log[l]
    BY <1>1, <2>1
  <2>2. ASSUME NEW x \in LogRecords \cup {Torn}, log'[l] = Append(log[l], x)
        PROVE  SubSeq(log'[l], a + 1, b) = SubSeq(log[l], a + 1, b) /\ b <= Len(log'[l])
    BY <1>1, <2>2, SubSeqOfAppend, AppendProperties
  <2>. QED  BY <2>1, <2>2 DEF LogsGrow
<1>. QED  BY <1>2 DEF SuffixVerifies

LEMMA ReceiptStands ==
  ASSUME TypeOK, LogsGrow, NEW r \in Runs, ReceiptVerifies(r),
         intent'[r] = intent[r], plan'[r] = plan[r], receipt'[r] = receipt[r]
  PROVE  ReceiptVerifies(r)'
<1>1. plan[r] \in [Logs -> Nat] /\ receipt[r] \in [Logs -> Nat]
  BY DEF TypeOK, ReceiptVerifies
<1>2. ASSUME NEW l \in Logs
      PROVE  SuffixVerifies(r, l, plan[r][l], receipt[r][l])'
  BY <1>1, <1>2, SuffixStands DEF ReceiptVerifies
<1>. QED  BY <1>2 DEF ReceiptVerifies

(* An entry verifies as long as it and its predecessor stay, its records   *)
(* stay and the logs only grow.                                            *)
LEMMA EntryStands ==
  ASSUME TypeOK, LogsGrow, NEW i \in DOMAIN journal, EntryVerifies(i),
         \A k \in DOMAIN journal : journal'[k] = journal[k],
         \A r \in Runs : Committed(r) =>
           intent'[r] = intent[r] /\ plan'[r] = plan[r] /\ receipt'[r] = receipt[r]
  PROVE  EntryVerifies(i)'
<1>1. /\ i \in Nat \ {0} /\ journal'[i] = journal[i] /\ journal[i] # Torn
      /\ journal[i] \in Entries
      /\ i # 1 => journal'[i - 1] = journal[i - 1]
  BY DEF TypeOK, EntryVerifies
<1>2. PredecessorVerifies(i)'
  BY <1>1 DEF EntryVerifies, PredecessorVerifies
<1>3. ASSUME journal[i].application # NoApplication
      PROVE  OriginVerifies(journal[i])' /\ ReceiptVerifies(journal[i].application)'
  <2> DEFINE r == journal[i].application
  <2>1. r \in Runs /\ Committed(r)
    BY <1>1, <1>3 DEF Entries, Committed
  <2>2. intent'[r] = intent[r] /\ plan'[r] = plan[r] /\ receipt'[r] = receipt[r]
    BY <2>1
  <2>3. OriginVerifies(journal[i]) /\ ReceiptVerifies(r)
    BY <1>3 DEF EntryVerifies
  <2>4. ReceiptVerifies(r)'
    BY <2>1, <2>2, <2>3, ReceiptStands
  <2>5. OriginVerifies(journal[i])'
    BY <1>1, <2>2, <2>3 DEF OriginVerifies
  <2>. QED  BY <1>1, <2>4, <2>5
<1>. QED  BY <1>1, <1>2, <1>3 DEF EntryVerifies

(* Whoever is inside the portfolio lock finds the history as its readers   *)
(* verify it.                                                              *)
LEMMA InsideVerifies ==
  ASSUME TypeOK, LocksInv, History, NEW p \in Procs,
         pc[p] \in PortfolioStates \ {"rename"}
  PROVE  /\ ~Blocked
         /\ \A q \in Procs : pc[q] # "rename" /\ (q # p => pc[q] \notin PortfolioStates)
         /\ \A i \in DOMAIN journal : EntryVerifies(i)
         /\ journal # <<>> => journal[Len(journal)].portfolio = projection
         /\ JournalVerifies
<1>1. portfolioLock = p /\ \A q \in Procs : pc[q] \in PortfolioStates => q = p
  BY DEF LocksInv
<1>2. ~Blocked
  BY <1>1 DEF Blocked, PortfolioStates, ReadStates, BarrierStates, EndStates
<1>3. \A q \in Procs : pc[q] # "rename" /\ (q # p => pc[q] \notin PortfolioStates)
  BY <1>1 DEF PortfolioStates, BarrierStates
<1>4. \A i \in DOMAIN journal : EntryVerifies(i)
  BY <1>2 DEF History, ChainInv
<1>5. journal # <<>> => journal[Len(journal)].portfolio = projection
  BY <1>2, <1>3 DEF History, HeadInv
<1>. QED  BY <1>2, <1>3, <1>4, <1>5 DEF JournalVerifies, EntryVerifies

(* The newest revision hash names the last position.                       *)
LEMMA HeadPosition ==
  ASSUME TypeOK, \A i \in DOMAIN journal : EntryVerifies(i)
  PROVE  PositionOf(HeadRevision) = Len(journal)
<1>1. CASE journal = <<>>
  BY <1>1 DEF PositionOf, HeadRevision
<1>2. CASE journal # <<>>
  <2> DEFINE n == Len(journal)
  <2>1. n \in Nat \ {0} /\ n \in DOMAIN journal
    BY <1>2 DEF TypeOK
  <2>2. journal[n] \in Entries /\ journal[n].sequence = n
    BY <2>1 DEF TypeOK, EntryVerifies, PredecessorVerifies
  <2>3. HeadRevision = RevisionHash(journal[n]) /\ HeadRevision \in Revisions
    BY <1>2, <2>2 DEF HeadRevision, RevisionHash, Entries, Revisions
  <2>4. HeadRevision # NoRevision /\ HeadRevision[1] = n
    BY <2>2, <2>3, RecordAssumption DEF RevisionHash
  <2>. QED  BY <2>4 DEF PositionOf
<1>. QED  BY <1>1, <1>2

(* A step of p concerns p: the state and the records of the others stay,   *)
(* and logs grow, by effects of p at most.                                 *)
Concerns(p) ==
  /\ \A q \in Procs \ {p} :
       /\ pc'[q] = pc[q] /\ stored'[q] = stored[q] /\ seen'[q] = seen[q]
       /\ target'[q] = target[q]
  /\ \A r \in Runs \ {p} :
       /\ intent'[r] = intent[r] /\ plan'[r] = plan[r] /\ receipt'[r] = receipt[r]
       /\ HasEffects(r)' => HasEffects(r)
  /\ LogsGrow

LEMMA QuietConcerns ==
  ASSUME TypeOK, NEW p \in Procs, log' = log,
         \A q \in Procs \ {p} :
           /\ pc'[q] = pc[q] /\ stored'[q] = stored[q] /\ seen'[q] = seen[q]
           /\ target'[q] = target[q],
         \A r \in Runs \ {p} :
           intent'[r] = intent[r] /\ plan'[r] = plan[r] /\ receipt'[r] = receipt[r]
  PROVE  Concerns(p)
BY EffectsFrame DEF Concerns, LogsGrow

(* A lone append or an effect of p, torn perhaps.                          *)
LEMMA AppendConcerns ==
  ASSUME TypeOK, NEW p \in Runs, NEW l \in Logs, NEW rec \in LogRecords \cup {Torn},
         rec = Torn \/ rec.by = p,
         log' = [log EXCEPT ![l] = Append(@, rec)],
         \A q \in Procs \ {p} : pc'[q] = pc[q],
         UNCHANGED <<stored, seen, target, intent, plan, receipt>>
  PROVE  Concerns(p)
<1>1. log \in [Logs -> Seq(LogRecords \cup {Torn})]
  BY DEF TypeOK
<1>2. LogsGrow
  BY <1>1 DEF LogsGrow
<1>3. ASSUME NEW r \in Runs \ {p}, HasEffects(r)' PROVE HasEffects(r)
  <2>1. ~IsEffectOf(rec, r)
    BY DEF IsEffectOf
  <2>. QED  BY <1>1, <1>3, <2>1, EffectsByAppend
<1>. QED  BY <1>2, <1>3 DEF Concerns

LEMMA InterruptedConcerns ==
  ASSUME TypeOK, ValuesInv, NEW p \in Procs, Interrupted(p),
         \A q \in Procs \ {p} : pc'[q] = pc[q],
         UNCHANGED <<stored, seen, target>>
  PROVE  Concerns(p)
<1>. USE DEF files
<1>1. CASE UNCHANGED files \/ LeavesRevision(p) \/ LeavesProjection(p)
  BY <1>1, QuietConcerns DEF LeavesRevision, LeavesProjection
<1>2. CASE p \in Runs /\ (LeavesIntent(p) \/ LeavesPlan(p) \/ LeavesReceipt(p))
  <2>1. \A r \in Runs \ {p} :
          intent'[r] = intent[r] /\ plan'[r] = plan[r] /\ receipt'[r] = receipt[r]
    BY <1>2 DEF LeavesIntent, LeavesPlan, LeavesReceipt, TypeOK
  <2>. QED  BY <1>2, <2>1, QuietConcerns
            DEF LeavesIntent, LeavesPlan, LeavesReceipt
<1>3. CASE p \in Runs /\ LeavesNotice(p)
  <2>1. PICK rec \in {Torn, NoticeRecord(p)} :
          log' = [log EXCEPT !["audit"] = Append(@, rec)]
    BY <1>3 DEF LeavesNotice
  <2>2. rec \in LogRecords \cup {Torn} /\ (rec = Torn \/ rec.by = p)
    BY <1>3, <2>1 DEF TypeOK, NoticeRecord, LogRecords
  <2>. QED  BY <1>3, <2>1, <2>2, AppendConcerns DEF LeavesNotice, Logs
<1>4. CASE p \in Runs /\ LeavesEffect(p)
  <2>1. PICK rec \in {Torn, EffectRecord(p)} :
          log' = [log EXCEPT ![NextEffect(p).log] = Append(@, rec)]
    BY <1>4 DEF LeavesEffect
  <2>2. NextEffect(p).log \in Logs /\ EffectRecord(p) \in LogRecords
    BY <1>4, NextEffectTyped DEF LeavesEffect, Effects
  <2>3. rec = Torn \/ rec.by = p
    BY <2>1 DEF EffectRecord
  <2>. QED  BY <1>4, <2>1, <2>2, <2>3, AppendConcerns DEF LeavesEffect
<1>. QED  BY <1>1, <1>2, <1>3, <1>4 DEF Interrupted

LEMMA StepConcerns ==
  ASSUME TypeOK, ValuesInv, NEW p \in Procs, Start(p) \/ Step(p) \/ Fault(p)
  PROVE  Concerns(p)
<1>. USE DEF Goto, End, local, files, locks
<1>0. /\ pc \in [Procs -> PcStates] /\ stored \in [Procs -> Heads]
      /\ seen \in [Procs -> Snapshots] /\ target \in [Procs -> PortfolioOrNone]
      /\ intent \in [Runs -> Applications \cup {NoRecord}]
      /\ plan \in [Runs -> [Logs -> Nat] \cup {NoRecord}]
      /\ receipt \in [Runs -> [Logs -> Nat] \cup {NoRecord}]
  BY DEF TypeOK
<1>1. CASE Start(p) \/ AcquirePortfolio(p) \/ TimeoutPortfolio(p) \/ ReadSnapshot(p)
           \/ ReleasePortfolio(p)
  BY <1>0, <1>1, QuietConcerns DEF Start, AcquirePortfolio, TimeoutPortfolio,
     ReadSnapshot, ReleasePortfolio
<1>2. CASE CheckWrite(p) \/ StagePortfolio(p) \/ AppendRevision(p)
           \/ ReplaceProjection(p)
  BY <1>0, <1>2, QuietConcerns DEF CheckWrite, StagePortfolio, AppendRevision,
     ReplaceProjection
<1>3. CASE p \in Runs /\ (ReadPacket(p) \/ AcquireAudit(p) \/ Decide(p)
                          \/ AcquireLog(p) \/ TimeoutLog(p) \/ ReleaseLog(p))
  BY <1>0, <1>3, QuietConcerns DEF ReadPacket, AcquireAudit, Decide, AcquireLog,
     TimeoutLog, ReleaseLog
<1>4. CASE p \in Runs /\ (CheckApplication(p) \/ WriteIntent(p) \/ WritePlan(p)
                          \/ CompleteLogs(p))
  BY <1>0, <1>4, QuietConcerns DEF CheckApplication, WriteIntent, WritePlan,
     CompleteLogs
<1>5. CASE p \in Runs /\ AppendNotice(p)
  <2>1. NoticeRecord(p) \in LogRecords /\ NoticeRecord(p).by = p
    BY <1>5 DEF TypeOK, NoticeRecord, LogRecords
  <2>. QED  BY <1>0, <1>5, <2>1, AppendConcerns DEF AppendNotice, Logs
<1>6. CASE p \in Runs /\ AppendEffect(p)
  <2>1. NextEffect(p).log \in Logs /\ EffectRecord(p) \in LogRecords
        /\ EffectRecord(p).by = p
    BY <1>6, NextEffectTyped DEF AppendEffect, Effects, EffectRecord
  <2>. QED  BY <1>0, <1>6, <2>1, AppendConcerns DEF AppendEffect
<1>7. CASE CleanFailure(p) \/ EntryFailure(p)
           \/ (p \in Runs /\ (LogInitFailure(p) \/ ReleaseFailure(p)))
  BY <1>0, <1>7, QuietConcerns DEF CleanFailure, EntryFailure, LogInitFailure,
     ReleaseFailure
<1>8. CASE FencedFailure(p) \/ Crash(p) \/ (p \in Runs /\ AuditFailure(p))
  <2>1. /\ \A q \in Procs \ {p} : pc'[q] = pc[q]
        /\ UNCHANGED <<stored, seen, target>>
    BY <1>0, <1>8 DEF FencedFailure, Crash, AuditFailure
  <2>2. CASE Interrupted(p)
    BY <2>1, <2>2, InterruptedConcerns
  <2>3. CASE UNCHANGED files
    BY <2>1, <2>3, QuietConcerns
  <2>. QED  BY <1>8, <2>2, <2>3 DEF FencedFailure, Crash, AuditFailure
<1>. QED  BY <1>1, <1>2, <1>3, <1>4, <1>5, <1>6, <1>7, <1>8
          DEF Step, StoreStep, RunStep, Fault

(* Nobody can unblock the store.                                           *)
LEMMA BlockedStays ==
  ASSUME TypeOK, LocksInv, HoldersInv, Blocked, NEW p \in Procs,
         Start(p) \/ Step(p) \/ Fault(p)
  PROVE  Blocked'
<1>. USE DEF Goto, locks, local, files
<1> DEFINE Gone == {"unlogs"} \cup EndStates
<1>0. /\ pc \in [Procs -> PcStates] /\ portfolioLock \in Procs
      /\ pc[portfolioLock] \in Gone
  BY DEF TypeOK, Blocked
<1>1. CASE p # portfolioLock
  <2>1. pc[p] \notin PortfolioStates
    BY <1>1 DEF LocksInv
  <2>2. portfolioLock' = portfolioLock /\ \A q \in Procs \ {p} : pc'[q] = pc[q]
    <3>1. CASE Start(p)
      BY <1>0, <3>1 DEF Start
    <3>2. CASE StoreStep(p)
      BY <1>0, <2>1, <3>2, ProcAssumption DEF StoreStep, AcquirePortfolio,
         TimeoutPortfolio, ReadSnapshot, CheckWrite, StagePortfolio,
         AppendRevision, ReplaceProjection, ReleasePortfolio, PortfolioStates,
         ReadStates, BarrierStates, Blocked
    <3>3. CASE p \in Runs /\ RunStep(p)
      BY <1>0, <2>1, <3>3 DEF RunStep, ReadPacket, AcquireAudit, AppendNotice,
         Decide, AcquireLog, TimeoutLog, CheckApplication, WriteIntent,
         WritePlan, AppendEffect, CompleteLogs, ReleaseLog, PortfolioStates,
         ReadStates, BarrierStates
    <3>4. CASE Fault(p)
      BY <1>0, <3>4 DEF Fault, CleanFailure, FencedFailure, EntryFailure, Crash,
         AuditFailure, LogInitFailure, ReleaseFailure
    <3>. QED  BY <3>1, <3>2, <3>3, <3>4 DEF Step
  <2>. QED  BY <1>0, <1>1, <2>2 DEF Blocked
<1>2. CASE p = portfolioLock
  <2>1. /\ pc[p] \in Gone
        /\ \/ pc[p] = "unlogs" /\ p \in Runs /\ (ReleaseLog(p) \/ ReleaseFailure(p))
           \/ pc[p] = "unlogs" /\ Crash(p)
    <3>1. ~Start(p) /\ ~StoreStep(p)
      BY <1>0, <1>2 DEF Start, StoreStep, AcquirePortfolio, TimeoutPortfolio,
         ReadSnapshot, CheckWrite, StagePortfolio, AppendRevision,
         ReplaceProjection, ReleasePortfolio, EndStates
    <3>2. RunStep(p) => ReleaseLog(p)
      BY <1>0, <1>2 DEF RunStep, ReadPacket, AcquireAudit, AppendNotice,
         Decide, AcquireLog, TimeoutLog, CheckApplication, WriteIntent,
         WritePlan, AppendEffect, CompleteLogs, EndStates
    <3>3. Fault(p) => Crash(p) \/ (p \in Runs /\ ReleaseFailure(p))
      BY <1>0, <1>2 DEF Fault, CleanFailure, FencedFailure, EntryFailure,
         AuditFailure, LogInitFailure, UnfencedStates, ReadStates,
         BarrierStates, WaitStates, EndStates
    <3>. QED  BY <1>0, <1>2, <3>1, <3>2, <3>3
              DEF Step, Crash, ReleaseLog, ReleaseFailure, EndStates
  <2>2. outcome[p] # "stale"
    BY <1>0, <1>2, <2>1, ProcAssumption DEF HoldersInv, Procs
  <2>3. portfolioLock' = portfolioLock /\ pc'[p] \in Gone
    BY <1>0, <2>1, <2>2
       DEF ReleaseLog, ReleaseFailure, Crash, AfterBatch, EndStates
  <2>. QED  BY <1>0, <1>2, <2>3 DEF Blocked
<1>. QED  BY <1>1, <1>2

LEMMA HistoryInit == Init => History
BY ProcAssumption
   DEF Init, History, ChainInv, HeadInv, CheckedInv, Checked, RecordsInv, Records,
       SeenInv, HasEffects, BarrierStates, Procs

(* A step of p that writes neither journal nor projection keeps the        *)
(* history, if p itself is where it may be.                                *)
LEMMA HistoryKept ==
  ASSUME TypeOK, Discipline, History, NEW p \in Procs, Concerns(p),
         UNCHANGED <<journal, projection>>,
         Blocked => Blocked',
         pc[p] = "rename" => Blocked',
         p \in Runs /\ Committed(p) =>
           /\ intent'[p] = intent[p] /\ plan'[p] = plan[p]
           /\ receipt'[p] = receipt[p] /\ seen'[p] = seen[p],
         Checked(p)', p \in Runs => Records(p)',
         p \in Runs /\ HasEffects(p)' /\ ~Committed(p) =>
           \A i \in DOMAIN journal :
             journal[i] # Torn => i <= PositionOf(seen'[p].revision)
  PROVE  History'
<1>0. /\ Runs \subseteq Procs
      /\ \A r \in Runs : Committed(r)' <=> Committed(r)
      /\ StoredHead' = StoredHead /\ HeadRevision' = HeadRevision
  BY CommittedFrame DEF Procs, StoredHead, HeadRevision
<1>1. \A r \in Runs : Committed(r) =>
        /\ intent'[r] = intent[r] /\ plan'[r] = plan[r]
        /\ receipt'[r] = receipt[r] /\ seen'[r] = seen[r]
  BY <1>0 DEF Concerns
<1>2. ChainInv'
  <2>1. ASSUME NEW i \in DOMAIN journal, EntryVerifies(i)
        PROVE  EntryVerifies(i)'
    BY <1>1, <2>1, EntryStands DEF Concerns
  <2>. QED  BY <2>1 DEF History, ChainInv
<1>3. HeadInv'
  <2>1. ASSUME NEW q \in Procs, pc[q] = "rename"
        PROVE  Blocked' \/ pc'[q] = "rename"
    BY <2>1 DEF Concerns
  <2>. QED  BY <2>1 DEF History, HeadInv
<1>4. ASSUME NEW q \in Procs PROVE Checked(q)'
  <2>1. CASE q # p
    <3>1. pc'[q] = pc[q] /\ stored'[q] = stored[q] /\ seen'[q] = seen[q]
          /\ target'[q] = target[q]
      BY <2>1 DEF Concerns
    <3>. QED  BY <1>0, <3>1 DEF History, CheckedInv, Checked, ExpectationHolds,
                 ObservationCurrent, NewEntry
  <2>. QED  BY <2>1
<1>5. ASSUME NEW r \in Runs PROVE Records(r)'
  <2>1. CASE r # p
    <3>1. /\ pc'[r] = pc[r] /\ seen'[r] = seen[r] /\ target'[r] = target[r]
          /\ intent'[r] = intent[r] /\ plan'[r] = plan[r]
          /\ receipt'[r] = receipt[r]
      BY <1>0, <2>1 DEF Concerns
    <3>2. ReceiptVerifies(r) => ReceiptVerifies(r)'
      BY <3>1, ReceiptStands DEF Concerns
    <3>. QED  BY <3>1, <3>2 DEF History, RecordsInv, Records
  <2>. QED  BY <2>1
<1>6. ASSUME NEW i \in DOMAIN journal, journal[i] # Torn,
             journal[i].application # NoApplication
      PROVE  journal[i].previous = seen'[journal[i].application].revision
  <2>1. journal[i] \in Entries
    BY <1>6 DEF TypeOK
  <2>2. journal[i].application \in Runs /\ Committed(journal[i].application)
    BY <1>6, <2>1 DEF Entries, Committed
  <2>. QED  BY <1>1, <1>6, <2>2 DEF History, SeenInv
<1>7. ASSUME NEW r \in Runs, HasEffects(r)', ~Committed(r)',
             NEW i \in DOMAIN journal, journal[i] # Torn
      PROVE  i <= PositionOf(seen'[r].revision)
  <2>1. CASE r = p
    BY <1>0, <1>7, <2>1
  <2>2. CASE r # p
    <3>1. HasEffects(r) /\ seen'[r] = seen[r]
      BY <1>0, <1>7, <2>2 DEF Concerns
    <3>. QED  BY <1>0, <1>7, <3>1 DEF History, SeenInv
  <2>. QED  BY <2>1, <2>2
<1>8. SeenInv'
  BY <1>6, <1>7 DEF SeenInv
<1>. QED  BY <1>2, <1>3, <1>4, <1>5, <1>8 DEF History, CheckedInv, RecordsInv

(* Outside the barrier nothing is asked of a process.                      *)
LEMMA OutsideChecked ==
  ASSUME NEW p \in Procs, pc'[p] \notin BarrierStates
  PROVE  Checked(p)' /\ (p \in Runs => Records(p)')
BY DEF Checked, Records, BarrierStates

(* The revision p observed, if it is current, follows all entries.         *)
LEMMA CurrentIsLatest ==
  ASSUME TypeOK, LocksInv, History, NEW p \in Procs,
         pc[p] \in PortfolioStates \ {"rename"}, ObservationCurrent(p)
  PROVE  /\ seen[p].revision = HeadRevision
         /\ PositionOf(seen[p].revision) = Len(journal)
         /\ \A i \in DOMAIN journal : i <= PositionOf(seen[p].revision)
<1>1. seen[p].revision = HeadRevision
  BY DEF ObservationCurrent
<1>2. PositionOf(HeadRevision) = Len(journal)
  BY InsideVerifies, HeadPosition
<1>. QED  BY <1>1, <1>2 DEF TypeOK

(* What p appends in the end follows on what is there.                     *)
LEMMA NewEntryVerifies ==
  ASSUME TypeOK, Discipline, History, NEW p \in Procs, pc[p] = "journal",
         NEW n, n = Len(journal), NEW e, e = NewEntry(p),
         journal' = Append(journal, e), UNCHANGED <<log, intent, plan, receipt>>
  PROVE  /\ EntryVerifies(n + 1)'
         /\ e.previous = HeadRevision
         /\ p \in Runs => e.previous = seen[p].revision
<1>1. /\ e \in Entries /\ e # Torn /\ journal \in Seq(Entries \cup {Torn})
      /\ n \in Nat /\ journal'[n + 1] = e
      /\ \A i \in DOMAIN journal : journal'[i] = journal[i]
  BY NewEntryTyped, TornAssumption DEF TypeOK, Discipline
<1>2. /\ \A i \in DOMAIN journal : EntryVerifies(i)
      /\ journal # <<>> => journal[n].portfolio = projection
  BY InsideVerifies DEF Discipline, PortfolioStates, BarrierStates
<1>3. stored[p] = StoredHead /\ (p \in Runs => ObservationCurrent(p))
  BY DEF History, CheckedInv, Checked, BarrierStates
<1>4. /\ e.sequence = n + 1 /\ e.previous = HeadRevision /\ e.basis = projection
      /\ e.portfolio = target[p]
      /\ e.application = IF p \in Runs THEN p ELSE NoApplication
  BY <1>3 DEF NewEntry, StoredHead
<1>5. PredecessorVerifies(n + 1)'
  <2>1. CASE journal = <<>>
    BY <1>1, <1>4, <2>1 DEF PredecessorVerifies, HeadRevision
  <2>2. CASE journal # <<>>
    <3>1. n # 0 /\ n \in DOMAIN journal /\ journal'[n] = journal[n]
      BY <1>1, <2>2
    <3>. QED  BY <1>1, <1>2, <1>4, <2>2, <3>1
              DEF PredecessorVerifies, HeadRevision, RevisionHash
  <2>. QED  BY <2>1, <2>2
<1>6. ASSUME p \in Runs
      PROVE  OriginVerifies(e)' /\ ReceiptVerifies(p)'
  <2>1. /\ intent[p] \in Applications /\ intent[p].expected = seen[p]
        /\ intent[p].portfolio = target[p] /\ ReceiptVerifies(p)
    BY <1>6 DEF History, RecordsInv, Records
  <2>2. seen[p] = [portfolio |-> projection, revision |-> HeadRevision]
    BY <1>3, <1>6 DEF ObservationCurrent
  <2>3. intent[p] # NoRecord
    BY <2>1, RecordAssumption
  <2>4. e.application = p
    BY <1>4, <1>6
  <2>5. OriginVerifies(e)'
    BY <1>4, <2>1, <2>2, <2>3, <2>4 DEF OriginVerifies
  <2>6. ReceiptVerifies(p)'
    BY <1>6, <2>1, ReceiptStands DEF LogsGrow
  <2>. QED  BY <2>5, <2>6
<1>7. p \in Runs => e.previous = seen[p].revision
  BY <1>3, <1>4 DEF ObservationCurrent
<1>8. EntryVerifies(n + 1)'
  <2>1. p \notin Runs => e.application = NoApplication
    BY <1>4
  <2>2. p \in Runs => e.application = p
    BY <1>4
  <2>. QED  BY <1>1, <1>5, <1>6, <2>1, <2>2 DEF EntryVerifies
<1>. QED  BY <1>4, <1>7, <1>8

(* The journal grows by the entry of p or by a torn line that p leaves.    *)
LEMMA HistoryAppended ==
  ASSUME TypeOK, Discipline, History, NEW p \in Procs, Concerns(p),
         pc[p] = "journal", NEW e, journal' = Append(journal, e),
         UNCHANGED <<projection, log, intent, plan, receipt, stored, seen, target,
                     portfolioLock>>,
         \/ e = NewEntry(p) /\ pc'[p] = "rename"
         \/ e \in {Torn, NewEntry(p)} /\ pc'[p] \in {"unlogs"} \cup EndStates
  PROVE  History'
<1>0. PICK n \in Nat : n = Len(journal)
  BY DEF TypeOK
<1>1. /\ journal \in Seq(Entries \cup {Torn}) /\ portfolioLock = p
      /\ p # Nobody /\ Runs \subseteq Procs /\ NewEntry(p) \in Entries
      /\ NewEntry(p) # Torn
  BY NewEntryTyped, TornAssumption, ProcAssumption
     DEF TypeOK, Discipline, LocksInv, PortfolioStates, BarrierStates, Procs
<1>2. /\ journal'[n + 1] = e /\ Len(journal') = n + 1 /\ journal' # <<>>
      /\ \A i \in DOMAIN journal : i \in 1..n /\ journal'[i] = journal[i]
      /\ \A i \in DOMAIN journal' : i \in DOMAIN journal \/ i = n + 1
  BY <1>0, <1>1
<1>3. /\ \A q \in Procs : pc[q] # "rename" /\ (q # p => pc[q] \notin PortfolioStates)
      /\ \A i \in DOMAIN journal : EntryVerifies(i)
  BY InsideVerifies DEF Discipline, PortfolioStates, BarrierStates
<1>4. \A i \in DOMAIN journal : EntryVerifies(i)'
  BY <1>2, <1>3, EntryStands DEF Concerns
<1>5. e = NewEntry(p) =>
        /\ EntryVerifies(n + 1)'
        /\ e.previous = HeadRevision /\ (p \in Runs => e.previous = seen[p].revision)
  BY <1>0, NewEntryVerifies
<1>6. pc'[p] # "rename" => Blocked'
  BY <1>1 DEF Blocked
<1>7. ChainInv'
  <2>1. e = Torn => journal'[n + 1] = Torn /\ n + 1 = Len(journal') /\ Blocked'
    BY <1>1, <1>2, <1>6 DEF EndStates
  <2>2. SUFFICES ASSUME NEW i \in DOMAIN journal'
                 PROVE  \/ EntryVerifies(i)'
                        \/ journal'[i] = Torn /\ i = Len(journal') /\ Blocked'
    BY DEF ChainInv
  <2>3. CASE i \in DOMAIN journal
    BY <1>4, <2>3
  <2>4. CASE i = n + 1
    BY <1>5, <2>1, <2>4
  <2>. QED  BY <1>2, <2>3, <2>4
<1>8. HeadInv'
  BY <1>6 DEF HeadInv
<1>9. ASSUME NEW q \in Procs PROVE Checked(q)'
  <2>1. CASE q = p
    <3>1. CASE pc'[p] = "rename"
      <4>1. e = NewEntry(p) /\ NewEntry(p)' = NewEntry(p)
        BY <3>1 DEF NewEntry, EndStates
      <4>. QED  BY <1>2, <2>1, <3>1, <4>1 DEF Checked
    <3>2. CASE pc'[p] # "rename"
      BY <2>1, <3>2, OutsideChecked DEF BarrierStates, EndStates
    <3>. QED  BY <3>1, <3>2
  <2>2. CASE q # p
    <3>1. pc'[q] \notin BarrierStates
      BY <1>3, <2>2 DEF Concerns, PortfolioStates
    <3>. QED  BY <3>1, OutsideChecked
  <2>. QED  BY <2>1, <2>2
<1>10. ASSUME NEW r \in Runs PROVE Records(r)'
  <2>1. CASE r = p
    BY <2>1 DEF Records, EndStates
  <2>2. CASE r # p
    <3>1. pc'[r] \notin BarrierStates
      BY <1>1, <1>3, <2>2 DEF Concerns, PortfolioStates
    <3>. QED  BY <1>1, <3>1, OutsideChecked
  <2>. QED  BY <2>1, <2>2
<1>11. \A r \in Runs : /\ HasEffects(r)' <=> HasEffects(r)
                       /\ Committed(r) => Committed(r)'
                       /\ r = p /\ e = NewEntry(p) => Committed(r)'
  <2>1. e = NewEntry(p) /\ p \in Runs => e # Torn /\ e.application = p
    BY <1>1 DEF NewEntry
  <2>. QED  BY <1>1, <2>1, EffectsFrame, CommittedByAppend
<1>12. ASSUME NEW i \in DOMAIN journal', journal'[i] # Torn,
              journal'[i].application # NoApplication
       PROVE  journal'[i].previous = seen[journal'[i].application].revision
  <2>1. CASE i \in DOMAIN journal
    BY <1>2, <1>12, <2>1 DEF History, SeenInv
  <2>2. CASE i = n + 1
    <3>1. e = NewEntry(p) /\ journal'[i] = e
      BY <1>2, <1>12, <2>2
    <3>2. p \in Runs /\ e.application = p
      BY <1>12, <3>1 DEF NewEntry
    <3>. QED  BY <1>5, <3>1, <3>2
  <2>. QED  BY <1>2, <2>1, <2>2
<1>13. ASSUME NEW r \in Runs, HasEffects(r)', ~Committed(r)',
              NEW i \in DOMAIN journal', journal'[i] # Torn
       PROVE  i <= PositionOf(seen[r].revision)
  <2>1. HasEffects(r) /\ ~Committed(r)
    BY <1>11, <1>13
  <2>2. r = p
    BY <1>1, <2>1 DEF Discipline, FenceInv
  <2>3. e = Torn /\ i \in DOMAIN journal
    BY <1>2, <1>11, <1>13, <2>2
  <2>. QED  BY <1>2, <1>13, <2>1, <2>3 DEF History, SeenInv
<1>14. SeenInv'
  BY <1>12, <1>13 DEF SeenInv
<1>. QED  BY <1>7, <1>8, <1>9, <1>10, <1>14 DEF History, CheckedInv, RecordsInv

(* The projection becomes the head.                                        *)
LEMMA HistoryReplaced ==
  ASSUME TypeOK, Discipline, History, NEW p \in Procs, Concerns(p),
         pc[p] = "rename", projection' = target[p],
         UNCHANGED <<journal, log, intent, plan, receipt, stored, seen, target,
                     portfolioLock>>,
         pc'[p] \in {"unlock", "unlogs"} \cup EndStates
  PROVE  History'
<1>1. /\ portfolioLock = p /\ Runs \subseteq Procs
      /\ \A q \in Procs : q # p => pc[q] \notin PortfolioStates
      /\ p # Nobody
  BY ProcAssumption DEF Discipline, LocksInv, PortfolioStates, BarrierStates, Procs
<1>2. ~Blocked
  BY <1>1 DEF Blocked, EndStates
<1>3. \A i \in DOMAIN journal : EntryVerifies(i)'
  BY <1>2, EntryStands DEF History, ChainInv, LogsGrow
<1>4. HeadInv'
  <2>1. journal # <<>> /\ journal[Len(journal)] = NewEntry(p)
    BY DEF History, CheckedInv, Checked
  <2>2. NewEntry(p).portfolio = target[p] /\ NewEntry(p) # Torn
    BY NewEntryTyped, TornAssumption DEF NewEntry, Discipline
  <2>. QED  BY <2>1, <2>2 DEF HeadInv
<1>5. ASSUME NEW q \in Procs
      PROVE  Checked(q)' /\ (q \in Runs => Records(q)')
  <2>1. pc'[q] \notin BarrierStates
    BY <1>1 DEF Concerns, PortfolioStates, BarrierStates, EndStates
  <2>. QED  BY <2>1, OutsideChecked
<1>6. SeenInv'
  <2>1. \A r \in Runs : /\ HasEffects(r)' <=> HasEffects(r)
                        /\ Committed(r)' <=> Committed(r)
    BY QuietFrame
  <2>. QED  BY <2>1 DEF History, SeenInv
<1>. QED  BY <1>1, <1>3, <1>4, <1>5, <1>6
          DEF History, ChainInv, CheckedInv, RecordsInv

(* A step after which p is outside the barrier, and which touches no file  *)
(* but the logs, keeps the history.                                        *)
LEMMA HistoryAside ==
  ASSUME TypeOK, Discipline, History, NEW p \in Procs, Concerns(p),
         UNCHANGED <<journal, projection, intent, plan, receipt, seen>>,
         Blocked => Blocked', pc[p] # "rename", pc'[p] \notin BarrierStates,
         p \in Runs /\ HasEffects(p)' => HasEffects(p)
  PROVE  History'
<1>1. Checked(p)' /\ (p \in Runs => Records(p)')
  BY OutsideChecked
<1>2. p \in Runs /\ HasEffects(p)' /\ ~Committed(p) =>
        \A i \in DOMAIN journal :
          journal[i] # Torn => i <= PositionOf(seen'[p].revision)
  BY DEF History, SeenInv
<1>. QED  BY <1>1, <1>2, HistoryKept

(* What a process does in the store keeps the history                      *)
(* (virtualPortfolioFileStore.ts 104-208,                                  *)
(* virtualPortfolioRevisionJournal.ts 46-127).                             *)
LEMMA HistoryStoreStep ==
  ASSUME TypeOK, Discipline, HoldersInv, History, NEW p \in Procs,
         Start(p) \/ StoreStep(p)
  PROVE  History'
<1>. USE DEF Goto, End, local, files, locks
<1>0. /\ pc \in [Procs -> PcStates] /\ stored \in [Procs -> Heads]
      /\ seen \in [Procs -> Snapshots] /\ target \in [Procs -> PortfolioOrNone]
  BY DEF TypeOK
<1>1. Concerns(p) /\ (Blocked => Blocked')
  BY StepConcerns, BlockedStays DEF Step, Discipline
<1>2. CASE Start(p) \/ AcquirePortfolio(p) \/ TimeoutPortfolio(p)
           \/ ReleasePortfolio(p)
  <2>1. /\ UNCHANGED <<log, journal, projection, intent, plan, receipt, seen>>
        /\ pc[p] # "rename"
    BY <1>2 DEF Start, AcquirePortfolio, TimeoutPortfolio, ReleasePortfolio
  <2>2. pc'[p] \notin BarrierStates
    BY <1>0, <1>2, ProcAssumption
       DEF Start, AcquirePortfolio, TimeoutPortfolio, ReleasePortfolio,
           AfterPortfolio, BarrierStates, Procs, Updates
  <2>3. p \in Runs /\ HasEffects(p)' => HasEffects(p)
    BY <2>1, EffectsFrame
  <2>. QED  BY <1>1, <2>1, <2>2, <2>3, HistoryAside
<1>3. CASE ReadSnapshot(p)
  <2>1. /\ UNCHANGED <<log, journal, projection, intent, plan, receipt>>
        /\ pc[p] = "snapshotRead" /\ pc'[p] \notin BarrierStates
    BY <1>0, <1>3 DEF ReadSnapshot, BarrierStates
  <2>2. p \in Runs => ~Committed(p) /\ ~HasEffects(p) /\ ~HasEffects(p)'
    BY <2>1, EffectsFrame
       DEF Discipline, ProgressInv, EarlyStates, ReadStates, Untouched
  <2>3. Checked(p)' /\ (p \in Runs => Records(p)')
    BY <2>1, OutsideChecked
  <2>. QED  BY <1>1, <2>1, <2>2, <2>3, HistoryKept
<1>4. CASE CheckWrite(p)
  <2>1. /\ UNCHANGED <<log, journal, projection, intent, plan, receipt, seen>>
        /\ pc[p] = "applyCheck" /\ p \notin Runs
        /\ stored'[p] = StoredHead
    BY <1>0, <1>4, ProcAssumption DEF CheckWrite
  <2>2. CASE pc'[p] = "unlock"
    BY <1>1, <2>1, <2>2, HistoryAside DEF BarrierStates
  <2>3. CASE pc'[p] = "stage" /\ ExpectationHolds(p)
    <3>1. StoredHead' = StoredHead /\ HeadRevision' = HeadRevision
      BY <2>1 DEF StoredHead, HeadRevision
    <3>2. ExpectationHolds(p)'
      BY <2>1, <2>3, <3>1 DEF ExpectationHolds, ObservationCurrent
    <3>3. Checked(p)'
      BY <2>1, <2>3, <3>1, <3>2 DEF Checked
    <3>. QED  BY <1>1, <2>1, <3>3, HistoryKept
  <2>. QED  BY <1>0, <1>4, <2>2, <2>3 DEF CheckWrite
<1>5. CASE StagePortfolio(p)
  <2>1. /\ UNCHANGED <<log, journal, projection, intent, plan, receipt, seen,
                       stored, target>>
        /\ pc[p] = "stage" /\ pc'[p] = "journal"
    BY <1>0, <1>5 DEF StagePortfolio
  <2>2. StoredHead' = StoredHead /\ HeadRevision' = HeadRevision
    BY <2>1 DEF StoredHead, HeadRevision
  <2>3. Checked(p)
    BY DEF History, CheckedInv
  <2>4. Checked(p)'
    BY <2>1, <2>2, <2>3
       DEF Checked, BarrierStates, ExpectationHolds, ObservationCurrent
  <2>5. p \in Runs => ReceiptVerifies(p) /\ ReceiptVerifies(p)'
    BY <2>1, ReceiptStands DEF History, RecordsInv, Records, LogsGrow
  <2>6. p \in Runs => Records(p)'
    BY <2>1, <2>5 DEF History, RecordsInv, Records
  <2>7. p \in Runs /\ HasEffects(p)' /\ ~Committed(p) =>
          \A i \in DOMAIN journal :
            journal[i] # Torn => i <= PositionOf(seen'[p].revision)
    BY <2>1, EffectsFrame DEF History, SeenInv
  <2>. QED  BY <1>1, <2>1, <2>4, <2>6, <2>7, HistoryKept
<1>6. CASE AppendRevision(p)
  BY <1>0, <1>1, <1>6, HistoryAppended DEF AppendRevision
<1>7. CASE ReplaceProjection(p)
  BY <1>0, <1>1, <1>7, HistoryReplaced DEF ReplaceProjection
<1>. QED  BY <1>2, <1>3, <1>4, <1>5, <1>6, <1>7 DEF StoreStep

(* What a run does in its pipeline keeps the history                       *)
(* (paperDecisionPipeline.ts 66-197, paperPreparedApplicationStore.ts,     *)
(* paperExecutionLogLocks.ts 47-109).                                      *)
LEMMA HistoryRunStep ==
  ASSUME TypeOK, Discipline, HoldersInv, History, NEW p \in Runs, RunStep(p)
  PROVE  History'
<1>. USE DEF Goto, End, local, files, locks
<1>0. /\ pc \in [Procs -> PcStates] /\ stored \in [Procs -> Heads]
      /\ seen \in [Procs -> Snapshots] /\ target \in [Procs -> PortfolioOrNone]
      /\ intent \in [Runs -> Applications \cup {NoRecord}]
      /\ plan \in [Runs -> [Logs -> Nat] \cup {NoRecord}]
      /\ receipt \in [Runs -> [Logs -> Nat] \cup {NoRecord}]
      /\ p \in Procs /\ p \notin Updates
  BY ProcAssumption DEF TypeOK, Procs
<1>1. Concerns(p) /\ (Blocked => Blocked')
  BY <1>0, StepConcerns, BlockedStays DEF Step, Discipline
<1>2. CASE ReadPacket(p) \/ AcquireAudit(p) \/ AcquireLog(p) \/ TimeoutLog(p)
           \/ ReleaseLog(p) \/ Decide(p)
  <2>1. /\ UNCHANGED <<log, journal, projection, intent, plan, receipt, seen>>
        /\ pc[p] # "rename"
    BY <1>2 DEF ReadPacket, AcquireAudit, AcquireLog, TimeoutLog, ReleaseLog,
       Decide
  <2>2. pc'[p] \notin BarrierStates
    BY <1>0, <1>2 DEF ReadPacket, AcquireAudit, AcquireLog, TimeoutLog,
       ReleaseLog, Decide, AfterPortfolio, AfterBatch, BarrierStates
  <2>3. HasEffects(p)' => HasEffects(p)
    BY <2>1, EffectsFrame
  <2>. QED  BY <1>0, <1>1, <2>1, <2>2, <2>3, HistoryAside
<1>3. CASE AppendNotice(p)
  <2>1. /\ UNCHANGED <<journal, projection, intent, plan, receipt, seen>>
        /\ pc[p] # "rename" /\ pc'[p] \notin BarrierStates
        /\ log' = [log EXCEPT !["audit"] = Append(@, NoticeRecord(p))]
    BY <1>0, <1>3 DEF AppendNotice, BarrierStates
  <2>2. ~IsEffectOf(NoticeRecord(p), p)
    <3>1. notice[p] \in Notices
      BY DEF TypeOK
    <3>. QED  BY <3>1 DEF NoticeRecord, Notices, Events, IsEffectOf
  <2>3. HasEffects(p)' => HasEffects(p)
    BY <2>1, <2>2, EffectsByAppend DEF TypeOK, Logs
  <2>. QED  BY <1>0, <1>1, <2>1, <2>3, HistoryAside
<1>4. CASE CheckApplication(p)
  <2>1. /\ UNCHANGED <<log, journal, projection, intent, plan, receipt, seen>>
        /\ pc[p] = "applyCheck" /\ stored'[p] = StoredHead
    BY <1>0, <1>4 DEF CheckApplication
  <2>2. HasEffects(p)' => HasEffects(p)
    BY <2>1, EffectsFrame
  <2>3. CASE pc'[p] = "unlock"
    BY <1>0, <1>1, <2>1, <2>2, <2>3, HistoryAside DEF BarrierStates
  <2>4. CASE pc'[p] = "intent" /\ ObservationCurrent(p)
    <3>1. StoredHead' = StoredHead /\ HeadRevision' = HeadRevision
      BY <2>1 DEF StoredHead, HeadRevision
    <3>2. Checked(p)'
      BY <1>0, <2>1, <2>4, <3>1
         DEF Checked, ExpectationHolds, ObservationCurrent, Updates
    <3>3. Records(p)'
      BY <2>4 DEF Records
    <3>4. HasEffects(p)' /\ ~Committed(p) =>
            \A i \in DOMAIN journal :
              journal[i] # Torn => i <= PositionOf(seen'[p].revision)
      BY <2>1, <2>2 DEF History, SeenInv
    <3>. QED  BY <1>0, <1>1, <2>1, <3>2, <3>3, <3>4, HistoryKept
  <2>. QED  BY <1>0, <1>4, <2>3, <2>4 DEF CheckApplication
<1>5. ASSUME pc[p] \in {"intent", "plan", "apply", "seal"},
             pc'[p] \in {"plan", "apply", "seal", "stage"},
             UNCHANGED <<journal, projection, seen, stored>>,
             Committed(p) => intent'[p] = intent[p] /\ plan'[p] = plan[p]
                             /\ receipt'[p] = receipt[p],
             Records(p)'
      PROVE  History'
  <2>1. StoredHead' = StoredHead /\ HeadRevision' = HeadRevision
    BY <1>5 DEF StoredHead, HeadRevision
  <2>2. Checked(p) /\ ObservationCurrent(p)
    BY <1>0, <1>5 DEF History, CheckedInv, Checked, BarrierStates
  <2>3. Checked(p)'
    BY <1>5, <2>1, <2>2
       DEF Checked, BarrierStates, ExpectationHolds, ObservationCurrent
  <2>4. \A i \in DOMAIN journal : i <= PositionOf(seen'[p].revision)
    BY <1>0, <1>5, <2>2, CurrentIsLatest
       DEF Discipline, PortfolioStates, BarrierStates
  <2>. QED  BY <1>0, <1>1, <1>5, <2>3, <2>4, HistoryKept
<1>6. CASE WriteIntent(p)
  <2>1. PICK v \in Portfolios :
          /\ intent' = [intent EXCEPT ![p] = Prepared(p, v)]
          /\ target' = [target EXCEPT ![p] = v]
    BY <1>6 DEF WriteIntent
  <2>2. /\ pc[p] = "intent" /\ pc'[p] = "plan"
        /\ UNCHANGED <<journal, projection, seen, stored>>
        /\ intent'[p] = Prepared(p, v) /\ target'[p] = v
    BY <1>0, <1>6, <2>1 DEF WriteIntent
  <2>3. Prepared(p, v) \in Applications
    BY <1>0, <2>2 DEF Prepared, Applications, Discipline, ValuesInv, DecidedStates
  <2>4. Records(p)'
    BY <2>2, <2>3 DEF Records, Prepared
  <2>5. ~Committed(p)
    BY <2>2 DEF Discipline, ProgressInv, EarlyStates, Untouched
  <2>. QED  BY <1>5, <2>2, <2>4, <2>5
<1>7. CASE WritePlan(p)
  <2>1. /\ pc[p] = "plan" /\ pc'[p] = "apply"
        /\ UNCHANGED <<journal, projection, seen, stored, intent, target>>
        /\ plan'[p] = LogLengths
    BY <1>0, <1>7 DEF WritePlan
  <2>2. LogLengths \in [Logs -> Nat]
    BY DEF TypeOK, LogLengths
  <2>3. Records(p)'
    BY <2>1, <2>2 DEF History, RecordsInv, Records
  <2>4. ~Committed(p)
    BY <2>1 DEF Discipline, ProgressInv, EarlyStates, Untouched
  <2>. QED  BY <1>5, <2>1, <2>3, <2>4
<1>8. CASE AppendEffect(p)
  <2>1. /\ pc[p] = "apply" /\ pc'[p] \in {"apply", "seal"}
        /\ UNCHANGED <<journal, projection, seen, stored, intent, target, plan,
                       receipt>>
    BY <1>0, <1>8 DEF AppendEffect
  <2>2. Records(p)'
    BY <2>1 DEF History, RecordsInv, Records
  <2>. QED  BY <1>5, <2>1, <2>2
<1>9. CASE CompleteLogs(p)
  <2>1. /\ pc[p] = "seal" /\ pc'[p] = "stage"
        /\ UNCHANGED <<log, journal, projection, seen, stored, intent, target,
                       plan>>
        /\ receipt'[p] = LogLengths /\ LogsComplete(p)
    BY <1>0, <1>9 DEF CompleteLogs
  <2>2. LogLengths \in [Logs -> Nat] /\ LogLengths # NoRecord
    BY RecordAssumption DEF TypeOK, LogLengths
  <2>3. plan[p] # NoRecord
    BY <2>1, RecordAssumption DEF History, RecordsInv, Records
  <2>4. ReceiptVerifies(p)'
    BY <2>1, <2>2, <2>3
       DEF ReceiptVerifies, LogsComplete, SuffixVerifies, LogLengths
  <2>5. Records(p)'
    BY <2>1, <2>4 DEF History, RecordsInv, Records
  <2>6. ~Committed(p)
    BY <2>1 DEF Discipline, ProgressInv
  <2>. QED  BY <1>5, <2>1, <2>5, <2>6
<1>. QED  BY <1>2, <1>3, <1>4, <1>6, <1>7, <1>8, <1>9 DEF RunStep

(* Whatever an interrupted write left, its process does not go on.         *)
LEMMA HistoryInterrupted ==
  ASSUME TypeOK, Discipline, History, NEW p \in Procs, Concerns(p),
         Interrupted(p), pc'[p] \in {"unlogs"} \cup EndStates,
         UNCHANGED <<stored, seen, target, portfolioLock>>,
         Blocked => Blocked'
  PROVE  History'
<1>. USE DEF files
<1>1. pc'[p] \notin BarrierStates /\ Checked(p)' /\ (p \in Runs => Records(p)')
  BY OutsideChecked DEF BarrierStates, EndStates
<1>2. pc[p] = "rename" => Blocked'
  BY ProcAssumption
     DEF Blocked, Discipline, LocksInv, PortfolioStates, BarrierStates, Procs
<1>3. CASE LeavesRevision(p)
  BY <1>3, HistoryAppended DEF LeavesRevision
<1>4. CASE LeavesProjection(p)
  BY <1>4, HistoryReplaced DEF LeavesProjection
<1>5. ASSUME UNCHANGED <<journal, projection>>,
             p \in Runs /\ Committed(p) =>
               intent'[p] = intent[p] /\ plan'[p] = plan[p]
               /\ receipt'[p] = receipt[p]
      PROVE  History'
  <2>1. ASSUME p \in Runs, HasEffects(p)', ~Committed(p),
               NEW i \in DOMAIN journal, journal[i] # Torn
        PROVE  i <= PositionOf(seen'[p].revision)
    <3>1. CASE HasEffects(p)
      BY <2>1, <3>1 DEF History, SeenInv
    <3>2. CASE pc[p] = "apply"
      <4>1. ObservationCurrent(p)
        BY <2>1, <3>2 DEF History, CheckedInv, Checked, BarrierStates
      <4>. QED  BY <2>1, <3>2, <4>1, CurrentIsLatest
                DEF Discipline, PortfolioStates, BarrierStates
    <3>. QED  BY <2>1, <3>1, <3>2, InterruptedFrame DEF Discipline
  <2>. QED  BY <1>1, <1>2, <1>5, <2>1, HistoryKept
<1>6. CASE UNCHANGED files \/ (p \in Runs /\ (LeavesNotice(p) \/ LeavesEffect(p)))
  BY <1>5, <1>6 DEF LeavesNotice, LeavesEffect
<1>7. CASE p \in Runs /\ (LeavesIntent(p) \/ LeavesPlan(p) \/ LeavesReceipt(p))
  <2>1. ~Committed(p)
    BY <1>7 DEF LeavesIntent, LeavesPlan, LeavesReceipt, Discipline,
       ProgressInv, EarlyStates, Untouched
  <2>. QED  BY <1>5, <1>7, <2>1 DEF LeavesIntent, LeavesPlan, LeavesReceipt
<1>. QED  BY <1>3, <1>4, <1>6, <1>7 DEF Interrupted

(* An error or a crash at any point, with whatever it leaves on disk,      *)
(* keeps the history (virtualPortfolioFileStore.ts 174-208).               *)
LEMMA HistoryFault ==
  ASSUME TypeOK, Discipline, HoldersInv, History, NEW p \in Procs, Fault(p)
  PROVE  History'
<1>. USE DEF Goto, End, local, files, locks
<1>0. pc \in [Procs -> PcStates]
  BY DEF TypeOK
<1>1. Concerns(p) /\ (Blocked => Blocked')
  BY StepConcerns, BlockedStays DEF Discipline
<1>2. CASE CleanFailure(p) \/ EntryFailure(p)
           \/ (p \in Runs /\ (LogInitFailure(p) \/ ReleaseFailure(p)))
  <2>1. UNCHANGED <<log, journal, projection, intent, plan, receipt, seen>>
    BY <1>2 DEF CleanFailure, EntryFailure, LogInitFailure, ReleaseFailure
  <2>2. pc'[p] \in {"unlock", "unlogs", "ended"} /\ pc[p] # "rename"
    BY <1>0, <1>2 DEF CleanFailure, EntryFailure, LogInitFailure,
       ReleaseFailure, AfterPortfolio, UnfencedStates, ReadStates, WaitStates
  <2>3. p \in Runs /\ HasEffects(p)' => HasEffects(p)
    BY <2>1, EffectsFrame
  <2>. QED  BY <1>1, <2>1, <2>2, <2>3, HistoryAside DEF BarrierStates
<1>3. CASE FencedFailure(p) \/ Crash(p) \/ (p \in Runs /\ AuditFailure(p))
  <2>1. /\ UNCHANGED <<stored, seen, target, portfolioLock>>
        /\ pc'[p] \in {"unlogs"} \cup EndStates
        /\ Interrupted(p)
    BY <1>0, <1>3 DEF FencedFailure, Crash, AuditFailure, AfterPortfolio,
       EndStates, Interrupted
  <2>. QED  BY <1>1, <2>1, HistoryInterrupted
<1>. QED  BY <1>2, <1>3 DEF Fault

LEMMA HistoryStutters ==
  ASSUME TypeOK, History, UNCHANGED vars
  PROVE  History'
<1>. USE DEF vars, local, locks, files
<1>1. /\ UNCHANGED <<pc, seen, stored, target, portfolioLock, projection,
                     journal, log, intent, plan, receipt>>
      /\ HeadRevision' = HeadRevision /\ StoredHead' = StoredHead
      /\ (Blocked' <=> Blocked)
  BY DEF HeadRevision, StoredHead, Blocked
<1>2. ChainInv'
  <2>1. \A i \in DOMAIN journal : EntryVerifies(i) => EntryVerifies(i)'
    BY <1>1, EntryStands DEF LogsGrow
  <2>. QED  BY <1>1, <2>1 DEF History, ChainInv
<1>3. HeadInv'
  BY <1>1 DEF History, HeadInv
<1>4. CheckedInv'
  BY <1>1 DEF History, CheckedInv, Checked, ExpectationHolds,
     ObservationCurrent, NewEntry
<1>5. RecordsInv'
  <2>1. \A r \in Runs : ReceiptVerifies(r) => ReceiptVerifies(r)'
    BY <1>1, ReceiptStands DEF LogsGrow
  <2>. QED  BY <1>1, <2>1 DEF History, RecordsInv, Records
<1>6. SeenInv'
  <2>1. \A r \in Runs : /\ HasEffects(r)' <=> HasEffects(r)
                        /\ Committed(r)' <=> Committed(r)
    BY <1>1, QuietFrame
  <2>. QED  BY <1>1, <2>1 DEF History, SeenInv
<1>. QED  BY <1>2, <1>3, <1>4, <1>5, <1>6 DEF History

(* In every reachable state the history is what its readers verify, or the *)
(* store is blocked.                                                       *)
LEMMA HistoryHolds ==
  Spec => [](TypeOK /\ Discipline /\ HoldersInv /\ History)
<1>1. ASSUME TypeOK, Discipline, HoldersInv, History, [Next]_vars
      PROVE  History'
  <2>1. ASSUME NEW p \in Procs, Start(p) \/ Step(p) \/ Fault(p)
        PROVE  History'
    BY <1>1, <2>1, HistoryStoreStep, HistoryRunStep, HistoryFault DEF Step
  <2>. QED  BY <1>1, <2>1, HistoryStutters DEF Next
<1>2. Init => History
  BY HistoryInit
<1>. QED  BY <1>1, <1>2, HoldersHold, PTL DEF Spec

(* Whoever gets the portfolio lock finds a history that verifies: entries  *)
(* linked without a gap, each applied revision with its intent, plan and   *)
(* receipt and with logs that still agree, and a projection that is the    *)
(* head (virtualPortfolioRevisionJournal.ts 46-83,                         *)
(* virtualPortfolioFileStore.ts 174-208).                                  *)
THEOREM HistoryAlwaysReadable == Spec => []HistoryReadable
<1>1. TypeOK /\ Discipline /\ HoldersInv /\ History => HistoryReadable
  <2>. SUFFICES ASSUME TypeOK, Discipline, History, portfolioLock = Nobody
                PROVE  JournalVerifies
    BY DEF HistoryReadable
  <2>1. \A p \in Procs : pc[p] # "rename"
    BY ProcAssumption
       DEF Discipline, LocksInv, PortfolioStates, BarrierStates, Procs
  <2>2. ~Blocked
    BY DEF Blocked
  <2>. QED  BY <2>1, <2>2
            DEF History, ChainInv, HeadInv, EntryVerifies, JournalVerifies
<1>. QED  BY <1>1, HistoryHolds, PTL

(* Two runs never both apply to the same observed revision, not even when  *)
(* one of them fails or dies in between (paperDecisionPipeline.ts 96-197,  *)
(* virtualPortfolioFileStore.ts 104-124).                                  *)
THEOREM OnlyOneApplication == Spec => []OneApplicationPerRevision
<1>1. TypeOK /\ Discipline /\ HoldersInv /\ History => OneApplicationPerRevision
  <2>. SUFFICES ASSUME TypeOK, Discipline, History,
                       NEW r \in Runs, NEW s \in Runs, r # s,
                       HasEffects(r), HasEffects(s),
                       seen[r].revision = seen[s].revision
                PROVE  FALSE
    BY DEF OneApplicationPerRevision
  <2>1. ASSUME NEW t \in Runs, Committed(t)
        PROVE  \E i \in DOMAIN journal :
                 /\ journal[i] # Torn /\ journal[i].application = t
                 /\ journal[i].previous = seen[t].revision
                 /\ PositionOf(seen[t].revision) = i - 1
    <3>1. PICK i \in DOMAIN journal : journal[i] # Torn /\ journal[i].application = t
      BY <2>1 DEF Committed
    <3>2. t # NoApplication /\ journal[i].previous = seen[t].revision
      BY <3>1, ProcAssumption DEF History, SeenInv, Procs
    <3>3. EntryVerifies(i) /\ i \in Nat \ {0}
      BY <3>1 DEF TypeOK, History, ChainInv
    <3>4. CASE i = 1
      <4>1. seen[t].revision = NoRevision
        BY <3>2, <3>3, <3>4 DEF EntryVerifies, PredecessorVerifies
      <4>. QED  BY <3>1, <3>2, <3>4, <4>1 DEF PositionOf
    <3>5. CASE i # 1
      <4>1. i - 1 \in DOMAIN journal /\ i - 1 # Len(journal)
        BY <3>1, <3>3, <3>5 DEF TypeOK
      <4>2. /\ EntryVerifies(i - 1)
            /\ seen[t].revision = RevisionHash(journal[i - 1])
        BY <3>2, <3>3, <3>5, <4>1
           DEF History, ChainInv, EntryVerifies, PredecessorVerifies
      <4>3. journal[i - 1] \in Entries /\ journal[i - 1].sequence = i - 1
        BY <4>1, <4>2 DEF TypeOK, EntryVerifies, PredecessorVerifies
      <4>4. /\ seen[t].revision # NoRevision
            /\ seen[t].revision[1] = i - 1
        BY <4>2, <4>3, RecordAssumption DEF RevisionHash, Entries, Revisions
      <4>. QED  BY <3>1, <3>2, <4>4 DEF PositionOf
    <3>. QED  BY <3>4, <3>5
  <2>2. CASE Committed(r) /\ Committed(s)
    <3>1. PICK i \in DOMAIN journal :
            journal[i].application = r /\ PositionOf(seen[r].revision) = i - 1
      BY <2>1, <2>2
    <3>2. PICK j \in DOMAIN journal :
            journal[j].application = s /\ PositionOf(seen[s].revision) = j - 1
      BY <2>1, <2>2
    <3>3. i = j
      BY <3>1, <3>2 DEF TypeOK
    <3>. QED  BY <3>1, <3>2, <3>3
  <2>3. ASSUME NEW t \in Runs, NEW u \in Runs, ~Committed(t), HasEffects(t),
               Committed(u), seen[t].revision = seen[u].revision
        PROVE  FALSE
    <3>1. PICK i \in DOMAIN journal :
            journal[i] # Torn /\ PositionOf(seen[u].revision) = i - 1
      BY <2>1, <2>3
    <3>2. i <= PositionOf(seen[t].revision) /\ i \in Nat
      BY <2>3, <3>1 DEF TypeOK, History, SeenInv
    <3>. QED  BY <2>3, <3>1, <3>2
  <2>4. CASE ~Committed(r) /\ ~Committed(s)
    BY <2>4 DEF Discipline, FenceInv
  <2>. QED  BY <2>2, <2>3, <2>4
<1>. QED  BY <1>1, HistoryHolds, PTL

-----------------------------------------------------------------------------
(* The logs of a run that applies *)

(* A step of p leaves the decision and the progress of the others alone,   *)
(* and the logs too while another run holds them all.                      *)
LEMMA OthersKeep ==
  ASSUME TypeOK, Discipline, NEW p \in Procs, Start(p) \/ Step(p) \/ Fault(p),
         NEW r \in Runs \ {p}
  PROVE  /\ decision'[r] = decision[r] /\ done'[r] = done[r]
         /\ HoldsAllLogs(r) => log' = log
<1>. USE DEF Goto, End, local, files, locks
<1>0. decision \in [Runs -> Decisions \cup {<<>>}] /\ done \in [Runs -> Nat]
  BY DEF TypeOK
<1>1. HoldsAllLogs(r) => ~(p \in Runs /\ pc[p] \in {"auditing", "apply"})
  BY DEF Discipline, LocksInv, BatchStates, BarrierStates, HoldsAllLogs, Logs
<1>2. CASE Start(p)
  BY <1>2 DEF Start
<1>3. CASE StoreStep(p)
  BY <1>3 DEF StoreStep, AcquirePortfolio, TimeoutPortfolio, ReadSnapshot,
     CheckWrite, StagePortfolio, AppendRevision, ReplaceProjection,
     ReleasePortfolio
<1>4. CASE p \in Runs /\ RunStep(p)
  <2>1. decision'[r] = decision[r] /\ done'[r] = done[r]
    BY <1>0, <1>4 DEF RunStep, ReadPacket, AcquireAudit, AppendNotice, Decide,
       AcquireLog, TimeoutLog, CheckApplication, WriteIntent, WritePlan,
       AppendEffect, CompleteLogs, ReleaseLog
  <2>2. AppendNotice(p) \/ AppendEffect(p) \/ log' = log
    BY <1>4 DEF RunStep, ReadPacket, AcquireAudit, Decide, AcquireLog,
       TimeoutLog, CheckApplication, WriteIntent, WritePlan, CompleteLogs,
       ReleaseLog
  <2>. QED  BY <1>1, <1>4, <2>1, <2>2 DEF AppendNotice, AppendEffect
<1>5. CASE Fault(p)
  <2>1. decision'[r] = decision[r] /\ done'[r] = done[r]
    BY <1>5 DEF Fault, CleanFailure, FencedFailure, EntryFailure, Crash,
       AuditFailure, LogInitFailure, ReleaseFailure
  <2>2. Interrupted(p) \/ log' = log
    BY <1>5 DEF Fault, CleanFailure, FencedFailure, EntryFailure, Crash,
       AuditFailure, LogInitFailure, ReleaseFailure
  <2>3. Interrupted(p) =>
          log' = log \/ (p \in Runs /\ pc[p] \in {"auditing", "apply"})
    BY DEF Interrupted, LeavesRevision, LeavesProjection, LeavesNotice,
       LeavesIntent, LeavesPlan, LeavesEffect, LeavesReceipt
  <2>. QED  BY <1>1, <2>1, <2>2, <2>3
<1>. QED  BY <1>2, <1>3, <1>4, <1>5 DEF Step

(* What a step that does not concern it leaves to a run that applies.      *)
LEMMA ApplyingKept ==
  ASSUME NEW r \in Runs, Applying(r), pc'[r] = pc[r], intent'[r] = intent[r],
         plan'[r] = plan[r], decision'[r] = decision[r], done'[r] = done[r],
         pc[r] \in {"apply", "seal"} => log' = log
  PROVE  Applying(r)'
<1>1. LogsApplied(r) /\ log' = log => LogsApplied(r)'
  BY DEF LogsApplied, Applied
<1>. QED  BY <1>1 DEF Applying

(* The three steps by which a run comes to apply, or goes on.              *)
LEMMA ComesToApply ==
  ASSUME TypeOK, NEW r \in Runs, Start(r) \/ Step(r) \/ Fault(r),
         pc'[r] \in {"plan", "apply", "seal"}
  PROVE  WriteIntent(r) \/ WritePlan(r) \/ AppendEffect(r)
<1>. USE DEF Goto
<1>0. pc \in [Procs -> PcStates] /\ r \in Procs
  BY DEF TypeOK, Procs
<1>1. ~Start(r)
  BY <1>0 DEF Start
<1>2. ~StoreStep(r)
  BY <1>0 DEF StoreStep, AcquirePortfolio, TimeoutPortfolio, ReadSnapshot,
     CheckWrite, StagePortfolio, AppendRevision, ReplaceProjection,
     ReleasePortfolio, AfterPortfolio
<1>3. ~Fault(r)
  BY <1>0 DEF Fault, CleanFailure, FencedFailure, EntryFailure, Crash,
     AuditFailure, LogInitFailure, ReleaseFailure, AfterPortfolio
<1>4. RunStep(r) => WriteIntent(r) \/ WritePlan(r) \/ AppendEffect(r)
  BY <1>0 DEF RunStep, ReadPacket, AcquireAudit, AppendNotice, Decide,
     AcquireLog, TimeoutLog, CheckApplication, CompleteLogs, ReleaseLog,
     AfterPortfolio, AfterBatch
<1>. QED  BY <1>1, <1>2, <1>3, <1>4 DEF Step

(* The first elements of a sequence, one more at a time.                   *)
LEMMA OneMore ==
  ASSUME NEW S, NEW s \in Seq(S), NEW n \in Nat, n < Len(s)
  PROVE  /\ SubSeq(s, 1, n) \in Seq(S)
         /\ SubSeq(s, 1, n + 1) = Append(SubSeq(s, 1, n), s[n + 1])
<1> DEFINE k == n + 1
           b == SubSeq(s, 1, n)
<1>1. /\ 1 \in 1 .. Len(s) /\ k \in 1 .. Len(s) /\ k - 1 = n /\ s[k] \in S
      /\ \A i \in 1 .. n : s[i] \in S
  OBVIOUS
<1>2. b \in Seq(S)
  BY <1>1, SubSeqProperties
<1> HIDE DEF k, b
<1>3. SubSeq(s, 1, k) = SubSeq(s, 1, k - 1) \o <<s[k]>>
  BY <1>1, SubSeqRecursiveSecond
<1>4. Append(b, s[k]) = b \o <<s[k]>>
  BY <1>1, <1>2, AppendIsConcat
<1>. QED  BY <1>1, <1>2, <1>3, <1>4 DEF k, b

(* One more effect of the script is one more record, on its log, and the   *)
(* other logs stay.                                                        *)
LEMMA EffectApplied ==
  ASSUME TypeOK, Discipline, NEW r \in Runs, Applying(r), AppendEffect(r)
  PROVE  LogsApplied(r)'
<1> DEFINE script == ApplicationScript(decision[r])
           n == done[r]
           before == SubSeq(script, 1, n)
<1>1. /\ pc[r] = "apply" /\ decision[r] \in Decisions /\ n \in Nat
      /\ n < Len(script) /\ plan[r] \in [Logs -> Nat] /\ LogsApplied(r)
      /\ decision' = decision /\ plan' = plan /\ done'[r] = n + 1
  BY DEF AppendEffect, Applying, TypeOK, Discipline, ValuesInv
<1>2. script \in Seq(Effects) /\ Len(script) \in Nat
  BY <1>1, DecisionScripts
<1> DEFINE e == script[n + 1]
<1>3. e \in Effects /\ e = NextEffect(r)
  BY <1>1, <1>2 DEF NextEffect
<1>4. before \in Seq(Effects) /\ Applied(r)' = Append(before, e)
  <2>1. Applied(r)' = SubSeq(script, 1, n + 1)
    BY <1>1 DEF Applied
  <2>2. before \in Seq(Effects) /\ SubSeq(script, 1, n + 1) = Append(before, e)
    <3> HIDE DEF script, n
    <3>. QED  BY <1>1, <1>2, OneMore
  <2>. QED  BY <2>1, <2>2
<1>5. Applied(r) = before
  BY DEF Applied
<1>6. log \in [Logs -> Seq(LogRecords \cup {Torn})]
      /\ EffectRecord(r) \in LogRecords
      /\ EffectRecord(r) = [by |-> r, event |-> e.event]
      /\ log' = [log EXCEPT ![e.log] = Append(@, EffectRecord(r))]
  BY <1>1, <1>3, NextEffectTyped
     DEF TypeOK, Discipline, EffectRecord, AppendEffect
<1> HIDE DEF script, e, before, n
<1>7. ASSUME NEW l \in Logs
      PROVE  LET effects == OnLog(l, Applied(r)') IN
             /\ Len(log'[l]) = plan[r][l] + Len(effects)
             /\ \A i \in 1 .. Len(effects) :
                  log'[l][plan[r][l] + i] = [by |-> r, event |-> effects[i]]
  <2> DEFINE old == OnLog(l, before)
             new == OnLog(l, Append(before, e))
             from == plan[r][l]
             records == log[l]
  <2>1. /\ old \in Seq(Events) /\ Len(old) \in Nat
        /\ new = old \o On(l, e)
    <3>1. old \in Seq(Events)
      BY <1>3, <1>4, OnLogAppend
    <3>2. new = old \o On(l, e)
      BY <1>3, <1>4, OnLogAppend
    <3> HIDE DEF old
    <3>. QED  BY <3>1, <3>2
  <2>2. /\ Len(records) = from + Len(old) /\ from \in Nat
        /\ \A i \in 1 .. Len(old) :
             records[from + i] = [by |-> r, event |-> old[i]]
    BY <1>1, <1>5 DEF LogsApplied
  <2>3. records \in Seq(LogRecords \cup {Torn})
    BY <1>6
  <2> HIDE DEF old, new, from
  <2>4. CASE e.log # l
    <3>1. new = old
      BY <2>1, <2>4, ConcatEmptySeq DEF On
    <3>2. log'[l] = records
      BY <1>6, <2>4
    <3>. QED  BY <1>4, <2>2, <3>1, <3>2 DEF new, from
  <2>5. CASE e.log = l
    <3>1. e.event \in Events
      BY <1>3 DEF Effects
    <3>2. new = Append(old, e.event)
      BY <2>1, <2>5, <3>1, AppendIsConcat DEF On
    <3>3. /\ Len(new) = Len(old) + 1 /\ new[Len(old) + 1] = e.event
          /\ \A i \in 1 .. Len(old) : new[i] = old[i]
      BY <2>1, <3>1, <3>2, AppendProperties
    <3>4. log'[l] = Append(records, EffectRecord(r))
      BY <1>6, <2>5
    <3>5. /\ Len(log'[l]) = Len(records) + 1
          /\ log'[l][Len(records) + 1] = EffectRecord(r)
          /\ \A i \in 1 .. Len(records) : log'[l][i] = records[i]
      BY <1>6, <2>3, <3>4, AppendProperties
    <3> HIDE DEF records
    <3>6. Len(log'[l]) = from + Len(new)
      BY <2>1, <2>2, <3>3, <3>5
    <3>7. ASSUME NEW i \in 1 .. Len(new)
          PROVE  log'[l][from + i] = [by |-> r, event |-> new[i]]
      <4>1. CASE i = Len(old) + 1
        BY <1>6, <2>1, <2>2, <3>3, <3>5, <4>1
      <4>2. CASE i # Len(old) + 1
        <5>1. i \in 1 .. Len(old) /\ from + i \in 1 .. Len(records)
          BY <2>1, <2>2, <3>3, <4>2
        <5>. QED  BY <2>2, <3>3, <3>5, <5>1
      <4>. QED  BY <4>1, <4>2
    <3>. QED  BY <1>4, <3>6, <3>7 DEF new, from
  <2>. QED  BY <2>4, <2>5
<1>. QED  BY <1>1, <1>7 DEF LogsApplied

(* The plan of a run finds the logs before its first effect.               *)
LEMMA NothingApplied ==
  ASSUME TypeOK, NEW r \in Runs, decision[r] \in Decisions, done[r] = 0,
         plan'[r] = LogLengths, UNCHANGED <<decision, done, log>>
  PROVE  plan'[r] \in [Logs -> Nat] /\ LogsApplied(r)'
<1>1. \A l \in Logs : Len(log[l]) \in Nat /\ plan'[r][l] = Len(log[l])
  BY DEF TypeOK, LogLengths
<1>2. Applied(r)' = <<>>
  <2>1. ApplicationScript(decision[r]) \in Seq(Effects)
    BY DecisionScripts
  <2>. QED  BY <2>1 DEF Applied
<1>3. \A l \in Logs : OnLog(l, <<>>) = <<>>
  BY OnLogEmpty
<1>4. ASSUME NEW l \in Logs
      PROVE  LET effects == OnLog(l, Applied(r)') IN
             /\ Len(log[l]) = plan'[r][l] + Len(effects)
             /\ \A i \in 1 .. Len(effects) :
                  log[l][plan'[r][l] + i] = [by |-> r, event |-> effects[i]]
  <2>1. OnLog(l, Applied(r)') = <<>>
    BY <1>2, <1>3
  <2>2. Len(<<>>) = 0 /\ \A i \in 1 .. Len(<<>>) : FALSE
    OBVIOUS
  <2>. QED  BY <1>1, <2>1, <2>2
<1>. QED  BY <1>1, <1>4 DEF LogsApplied, LogLengths

(* Every step keeps what the runs have applied so far.                     *)
LEMMA AppliedStep ==
  ASSUME TypeOK, TypeOK', Discipline, AppliedInv, [Next]_vars
  PROVE  AppliedInv'
<1>1. CASE UNCHANGED vars
  <2>. SUFFICES ASSUME NEW r \in Runs PROVE Applying(r)'
    BY DEF AppliedInv
  <2>. QED  BY <1>1, ApplyingKept DEF AppliedInv, vars, local, files
<1>2. ASSUME NEW p \in Procs, Start(p) \/ Step(p) \/ Fault(p), NEW r \in Runs
      PROVE  Applying(r)'
  <2>0. Applying(r) /\ Concerns(p) /\ r \in Procs
    BY <1>2, StepConcerns DEF AppliedInv, Discipline, Procs
  <2>1. CASE r # p
    <3>1. pc[r] \in {"apply", "seal"} => HoldsAllLogs(r)
      BY <2>0 DEF Discipline, LocksInv, BatchStates, BarrierStates
    <3>2. /\ decision'[r] = decision[r] /\ done'[r] = done[r]
          /\ HoldsAllLogs(r) => log' = log
      BY <1>2, <2>1, OthersKeep
    <3>3. /\ pc'[r] = pc[r] /\ intent'[r] = intent[r] /\ plan'[r] = plan[r]
      BY <2>0, <2>1 DEF Concerns
    <3>. QED  BY <2>0, <3>1, <3>2, <3>3, ApplyingKept
  <2>2. CASE r = p /\ pc'[r] \notin {"plan", "apply", "seal"}
    BY <2>2 DEF Applying
  <2>3. CASE WriteIntent(r)
    <3>1. PICK v \in Portfolios : intent' = [intent EXCEPT ![r] = Prepared(r, v)]
      BY <2>3 DEF WriteIntent
    <3>2. /\ pc[r] = "intent" /\ pc'[r] = "plan" /\ decision' = decision
          /\ intent'[r].decision = decision[r]
      BY <2>0, <2>3, <3>1 DEF WriteIntent, Goto, Prepared, TypeOK
    <3>3. decision[r] \in Decisions
      BY <3>2 DEF Discipline, ValuesInv, DecidedStates
    <3>. QED  BY <3>2, <3>3 DEF Applying
  <2>4. CASE WritePlan(r)
    <3>1. /\ pc[r] = "plan" /\ pc'[r] = "apply" /\ plan'[r] = LogLengths
          /\ UNCHANGED <<decision, done, intent, log>>
      BY <2>0, <2>4 DEF WritePlan, Goto, TypeOK, local
    <3>2. decision[r] \in Decisions /\ done[r] = 0
          /\ intent[r].decision = decision[r]
      BY <2>0, <3>1 DEF Applying, Discipline, ProgressInv, EarlyStates, Untouched
    <3>3. plan'[r] \in [Logs -> Nat] /\ LogsApplied(r)'
      BY <3>1, <3>2, NothingApplied
    <3>. QED  BY <3>1, <3>2, <3>3 DEF Applying
  <2>5. CASE AppendEffect(r)
    <3>1. LogsApplied(r)'
      BY <2>0, <2>5, EffectApplied
    <3>2. /\ pc[r] = "apply" /\ UNCHANGED <<decision, intent, plan>>
          /\ done'[r] = done[r] + 1
          /\ pc'[r] = "seal" => done'[r] = Len(ApplicationScript(decision[r]))
      BY <2>0, <2>5 DEF AppendEffect, Goto, TypeOK
    <3>. QED  BY <2>0, <3>1, <3>2 DEF Applying
  <2>. QED  BY <1>2, <2>1, <2>2, <2>3, <2>4, <2>5, ComesToApply
<1>. QED  BY <1>1, <1>2 DEF Next, AppliedInv

(* Once its effects are appended a run gets its receipt: what it appended, *)
(* log by log and among the appends of others before it, is the suffix     *)
(* that its prepared application demands (paperApplicationLogReceipts.ts   *)
(* 61-81, 133-141).                                                        *)
THEOREM SealsAreNeverRefused == Spec => []SealNeverRefused
<1>1. TypeOK /\ AppliedInv => SealNeverRefused
  <2>. SUFFICES ASSUME TypeOK, AppliedInv, NEW r \in Runs, pc[r] = "seal",
                       NEW l \in Logs
                PROVE  SuffixVerifies(r, l, plan[r][l], Len(log[l]))
    BY DEF SealNeverRefused, LogsComplete
  <2> DEFINE script == ApplicationScript(decision[r])
             suffix == ExpectedSuffix(decision[r], l)
             from == plan[r][l]
             records == log[l]
  <2>1. /\ decision[r] \in Decisions /\ intent[r].decision = decision[r]
        /\ plan[r] \in [Logs -> Nat] /\ LogsApplied(r) /\ done[r] = Len(script)
    BY DEF AppliedInv, Applying
  <2>2. /\ script \in Seq(Effects) /\ OnLog(l, script) = suffix
        /\ decision[r] \in Seq(StepKinds)
    BY <2>1, DecisionAssumption, ScriptMatchesSuffix
  <2>3. Applied(r) = script
    <3> HIDE DEF script
    <3>1. SubSeq(script, 1, Len(script)) = script
      BY <2>2
    <3>. QED  BY <2>1, <3>1 DEF Applied, script
  <2>4. suffix \in Seq(Events) /\ Len(suffix) \in Nat
        /\ DOMAIN suffix = 1 .. Len(suffix)
    <3>1. \E e : e \in Effects
      BY EffectTyped DEF Logs, Events
    <3>2. OnLog(l, script) \in Seq(Events)
      BY <2>2, <3>1, OnLogAppend
    <3> HIDE DEF suffix
    <3>. QED  BY <2>2, <3>2
  <2>5. /\ Len(records) = from + Len(suffix) /\ from \in Nat
        /\ \A i \in 1 .. Len(suffix) :
             records[from + i] = [by |-> r, event |-> suffix[i]]
    BY <2>1, <2>2, <2>3 DEF LogsApplied
  <2>6. records \in Seq(LogRecords \cup {Torn})
    BY DEF TypeOK
  <2> HIDE DEF suffix, from, records
  <2>7. SubSeq(records, from + 1, Len(records)) =
          [i \in 1 .. Len(suffix) |-> records[from + i]]
    BY <2>4, <2>5, <2>6
  <2>8. SubSeq(records, from + 1, Len(records)) =
          [i \in DOMAIN suffix |-> [by |-> r, event |-> suffix[i]]]
    BY <2>4, <2>5, <2>7
  <2>. QED  BY <2>1, <2>5, <2>8 DEF SuffixVerifies, suffix, from, records
<1>2. Init => AppliedInv
  BY DEF Init, AppliedInv, Applying, Procs
<1>. QED  BY <1>1, <1>2, AppliedStep, InductiveStep, DisciplineHolds, PTL DEF Spec

-----------------------------------------------------------------------------
(* Going on *)

(* The locks of other runs, their outcomes and their notices are not those *)
(* of a step of p.                                                         *)
LEMMA OthersHold ==
  ASSUME TypeOK, LocksInv, NEW p \in Procs, Start(p) \/ Step(p) \/ Fault(p),
         NEW r \in Runs \ {p}
  PROVE  /\ outcome'[r] = outcome[r] /\ notice'[r] = notice[r]
         /\ \A l \in Logs : logLock'[l] = r <=> logLock[l] = r
<1>. USE DEF Goto, End, local, files, locks
<1>0. /\ outcome \in [Procs -> Outcomes] /\ notice \in [Runs -> Notices]
      /\ logLock \in [Logs -> Runs \cup {Nobody, Abandoned}]
      /\ r \in Procs /\ r # p /\ Nobody # r /\ Abandoned # r
      /\ "audit" \in Logs
      /\ p \in Runs /\ pc[p] = "auditing" => logLock["audit"] = p
  BY ProcAssumption DEF TypeOK, Procs, Logs, LocksInv
<1>1. CASE Start(p)
  BY <1>0, <1>1 DEF Start
<1>2. CASE StoreStep(p)
  <2>1. UNCHANGED logLock /\ notice'[r] = notice[r]
    BY <1>0, <1>2 DEF StoreStep, AcquirePortfolio, TimeoutPortfolio,
       ReadSnapshot, CheckWrite, StagePortfolio, AppendRevision,
       ReplaceProjection, ReleasePortfolio
  <2>2. outcome'[r] = outcome[r]
    BY <1>0, <1>2 DEF StoreStep, AcquirePortfolio, TimeoutPortfolio,
       ReadSnapshot, CheckWrite, StagePortfolio, AppendRevision,
       ReplaceProjection, ReleasePortfolio
  <2>. QED  BY <2>1, <2>2
<1>3. CASE p \in Runs /\ RunStep(p)
  <2>1. outcome'[r] = outcome[r] /\ notice'[r] = notice[r]
    BY <1>0, <1>3 DEF RunStep, ReadPacket, AcquireAudit, AppendNotice, Decide,
       AcquireLog, TimeoutLog, CheckApplication, WriteIntent, WritePlan,
       AppendEffect, CompleteLogs, ReleaseLog
  <2>2. \/ UNCHANGED logLock
        \/ \E l \in Logs, to \in {p, Nobody} :
             logLock[l] \in {p, Nobody} /\ logLock' = [logLock EXCEPT ![l] = to]
    <3>1. CASE AcquireAudit(p)
      BY <1>0, <3>1 DEF AcquireAudit
    <3>2. CASE AppendNotice(p)
      BY <1>0, <1>3, <3>2 DEF AppendNotice
    <3>3. CASE AcquireLog(p)
      BY <3>3 DEF AcquireLog
    <3>4. CASE ReleaseLog(p)
      BY <3>4 DEF ReleaseLog, LastLog
    <3>. QED  BY <1>3, <3>1, <3>2, <3>3, <3>4 DEF RunStep, ReadPacket, Decide,
              TimeoutLog, CheckApplication, WriteIntent, WritePlan,
              AppendEffect, CompleteLogs
  <2>. QED  BY <1>0, <2>1, <2>2
<1>4. CASE Fault(p)
  <2>1. outcome'[r] = outcome[r] /\ notice'[r] = notice[r]
    BY <1>0, <1>4 DEF Fault, CleanFailure, FencedFailure, EntryFailure, Crash,
       AuditFailure, LogInitFailure, ReleaseFailure
  <2>2. \/ UNCHANGED logLock
        \/ \E l \in Logs, to \in {Abandoned, Nobody} :
             logLock[l] \in {p, Nobody} /\ logLock' = [logLock EXCEPT ![l] = to]
    <3>1. CASE AuditFailure(p) /\ p \in Runs
      BY <1>0, <3>1 DEF AuditFailure
    <3>2. CASE LogInitFailure(p)
      BY <3>2 DEF LogInitFailure
    <3>. QED  BY <1>4, <3>1, <3>2 DEF Fault, CleanFailure, FencedFailure,
              EntryFailure, Crash, ReleaseFailure
  <2>. QED  BY <1>0, <2>1, <2>2
<1>. QED  BY <1>1, <1>2, <1>3, <1>4 DEF Step

(* The course of a run that a step does not concern stays as it is, and so *)
(* do its stage and its rest.                                              *)
LEMMA OthersStay ==
  ASSUME TypeOK, Discipline, NEW p \in Procs, Start(p) \/ Step(p) \/ Fault(p),
         NEW q \in Procs \ {p}
  PROVE  /\ UNCHANGED <<Stage(q), Rest(q)>>
         /\ q \in Runs /\ Course(q) => Course(q)'
<1>1. pc'[q] = pc[q] /\ (q \in Runs => intent'[q] = intent[q])
  BY StepConcerns DEF Concerns, Discipline
<1>2. CASE q \in Runs
  <2>1. /\ decision'[q] = decision[q] /\ done'[q] = done[q]
        /\ outcome'[q] = outcome[q] /\ notice'[q] = notice[q]
        /\ \A l \in Logs : logLock'[l] = q <=> logLock[l] = q
    BY <1>2, OthersKeep, OthersHold DEF Discipline
  <2>2. Stage(q)' = Stage(q)
    BY <1>1, <2>1 DEF Stage, LastNotice
  <2>3. LocksHeld(q)' = LocksHeld(q)
    BY <2>1 DEF LocksHeld, One, Logs
  <2>4. Rest(q)' = Rest(q)
    BY <1>1, <2>1, <2>3 DEF Rest
  <2>5. Course(q) => Course(q)'
    BY <1>1, <1>2, <2>1 DEF Course, HoldsAllLogs, HoldsLogs
  <2>. QED  BY <2>2, <2>4, <2>5
<1>3. CASE q \notin Runs
  <2>1. Stage(q)' = Stage(q)
    BY <1>1, <1>3 DEF Stage, LastNotice
  <2>2. Rest(q)' = Rest(q)
    BY <1>1, <1>3 DEF Rest
  <2>. QED  BY <1>3, <2>1, <2>2
<1>. QED  BY <1>2, <1>3

LEMMA Ranks ==
  /\ StageRank["idle"] = 24 /\ StageRank["packetWait"] = 23
  /\ StageRank["packetRead"] = 22 /\ StageRank["auditWait"] = 21
  /\ StageRank["auditing"] = 20 /\ StageRank["snapshotWait"] = 19
  /\ StageRank["snapshotRead"] = 18 /\ StageRank["deciding"] = 17
  /\ StageRank["logWait"] = 16 /\ StageRank["applyWait"] = 15
  /\ StageRank["applyCheck"] = 14 /\ StageRank["intent"] = 13
  /\ StageRank["plan"] = 12 /\ StageRank["apply"] = 11
  /\ StageRank["seal"] = 10 /\ StageRank["stage"] = 9
  /\ StageRank["journal"] = 8 /\ StageRank["rename"] = 7
  /\ StageRank["unlock"] = 6 /\ StageRank["unlogs"] = 5
  /\ StageRank["ended"] = 0 /\ StageRank["crashed"] = 0
BY DEF StageRank

(* What is left is a natural number.                                       *)
LEMMA MeasuresTyped == TypeOK /\ Discipline => MeasuresInv
<1>. SUFFICES ASSUME TypeOK, Discipline, NEW p \in Procs
              PROVE  Stage(p) \in Nat /\ Rest(p) \in Nat
  BY DEF MeasuresInv
<1>1. pc[p] \in PcStates
  BY DEF TypeOK
<1>2. StageRank[pc[p]] \in Nat
  BY <1>1, Ranks DEF PcStates, ReadStates, WaitStates, BarrierStates, EndStates
<1>3. LastNotice(p) => StageRank[pc[p]] \in Nat /\ StageRank[pc[p]] >= 19
  BY Ranks DEF LastNotice
<1>4. Stage(p) \in Nat
  BY <1>2, <1>3 DEF Stage
<1>5. LocksHeld(p) \in 0 .. 3
  BY DEF LocksHeld, One
<1>6. p \in Runs /\ pc[p] = "apply" =>
        Len(ApplicationScript(decision[p])) - done[p] \in Nat
  <2>. SUFFICES ASSUME p \in Runs, pc[p] = "apply"
                PROVE  Len(ApplicationScript(decision[p])) - done[p] \in Nat
    OBVIOUS
  <2>1. /\ decision[p] \in Decisions /\ done[p] \in Nat
        /\ done[p] < Len(ApplicationScript(decision[p]))
    BY DEF Discipline, ValuesInv, DecidedStates, TypeOK
  <2>2. Len(ApplicationScript(decision[p])) \in Nat
    BY <2>1, DecisionScripts
  <2>. QED  BY <2>1, <2>2
<1>7. Rest(p) \in Nat
  BY <1>5, <1>6 DEF Rest
<1>. QED  BY <1>4, <1>7

(* A process that enters a later stage is nearer to its end.               *)
LEMMA CourseStoreStep ==
  ASSUME TypeOK, Discipline, HoldersInv, NEW p \in Procs, StoreStep(p)
  PROVE  /\ Stage(p)' < Stage(p)
         /\ p \in Runs /\ Course(p) => Course(p)'
<1>. USE Ranks DEF Goto, End, local, files, locks
<1>0. /\ pc \in [Procs -> PcStates] /\ outcome \in [Procs -> Outcomes]
      /\ notice \in [Runs -> Notices]
      /\ portfolioLock \in Procs \cup {Nobody} /\ Nobody \notin Procs
  BY ProcAssumption DEF TypeOK, Procs
<1>1. CASE AcquirePortfolio(p)
  BY <1>0, <1>1 DEF AcquirePortfolio, Stage, LastNotice, Course, EarlyStates,
     ReadStates, WaitStates, EndStates
<1>2. CASE TimeoutPortfolio(p)
  <2>1. /\ pc[p] \in {"packetWait", "snapshotWait", "applyWait"}
        /\ pc' = [pc EXCEPT ![p] = AfterPortfolio(p)]
        /\ outcome' = [outcome EXCEPT ![p] = "failed"]
        /\ UNCHANGED <<notice, logLock, intent>>
    BY <1>2 DEF TimeoutPortfolio
  <2>2. pc'[p] \in {"unlogs", "ended"} /\ (pc'[p] = "unlogs" => HoldsLogs(p))
    BY <1>0, <2>1 DEF AfterPortfolio
  <2>3. outcome'[p] = "failed"
    BY <1>0, <2>1
  <2>4. Stage(p)' < Stage(p)
    BY <2>1, <2>2 DEF Stage, LastNotice
  <2>5. Course(p)'
    BY <2>1, <2>2, <2>3 DEF Course, EarlyStates, ReadStates, WaitStates, EndStates, HoldsLogs
  <2>. QED  BY <2>4, <2>5
<1>3. CASE ReadSnapshot(p)
  <2>1. /\ pc[p] = "snapshotRead" /\ UNCHANGED <<logLock, intent>>
        /\ pc'[p] \in {"applyWait", "deciding", "auditWait"}
        /\ p \in Runs =>
             \/ pc'[p] = "deciding" /\ UNCHANGED <<outcome, notice>>
             \/ pc'[p] = "auditWait" /\ notice'[p] = "PAPER_PORTFOLIO_STATE_CHANGED"
        /\ p \notin Runs => pc'[p] = "applyWait"
    BY <1>0, <1>3, ProcAssumption DEF ReadSnapshot, Updates
  <2>2. Stage(p)' < Stage(p)
    BY <2>1 DEF Stage, LastNotice
  <2>3. p \in Runs /\ Course(p) => Course(p)'
    BY <2>1 DEF Course, EarlyStates, ReadStates, WaitStates, EndStates, HoldsLogs
  <2>. QED  BY <2>2, <2>3
<1>4. CASE CheckWrite(p)
  <2>1. p \notin Runs
    BY <1>4, ProcAssumption DEF CheckWrite
  <2>2. pc[p] = "applyCheck" /\ pc'[p] \in {"stage", "unlock"}
    BY <1>0, <1>4 DEF CheckWrite
  <2>. QED  BY <2>1, <2>2 DEF Stage, LastNotice
<1>5. CASE StagePortfolio(p) \/ AppendRevision(p) \/ ReplaceProjection(p)
  <2>1. /\ \/ pc[p] = "stage" /\ pc'[p] = "journal" /\ UNCHANGED outcome
           \/ pc[p] = "journal" /\ pc'[p] = "rename" /\ UNCHANGED outcome
           \/ pc[p] = "rename" /\ pc'[p] = "unlock" /\ outcome'[p] = "committed"
        /\ UNCHANGED <<notice, logLock, intent>>
    BY <1>0, <1>5 DEF StagePortfolio, AppendRevision, ReplaceProjection
  <2>2. Stage(p)' < Stage(p)
    BY <2>1 DEF Stage, LastNotice
  <2>3. p \in Runs /\ Course(p) => Course(p)'
    BY <2>1 DEF Course, EarlyStates, ReadStates, WaitStates, EndStates, HoldsLogs
  <2>. QED  BY <2>2, <2>3
<1>6. CASE ReleasePortfolio(p)
  <2>1. /\ pc[p] = "unlock" /\ pc' = [pc EXCEPT ![p] = AfterPortfolio(p)]
        /\ UNCHANGED <<outcome, notice, logLock, intent>>
    BY <1>6 DEF ReleasePortfolio
  <2>2. pc'[p] \in {"unlogs", "ended"} /\ (pc'[p] = "unlogs" => HoldsLogs(p))
    BY <1>0, <2>1 DEF AfterPortfolio
  <2>3. Stage(p)' < Stage(p)
    BY <2>1, <2>2 DEF Stage, LastNotice
  <2>4. p \in Runs /\ Course(p) => Course(p)'
    BY <2>1, <2>2 DEF Course, EarlyStates, ReadStates, WaitStates, EndStates, HoldsLogs
  <2>. QED  BY <2>3, <2>4
<1>. QED  BY <1>1, <1>2, <1>3, <1>4, <1>5, <1>6 DEF StoreStep

LEMMA CourseRunStep ==
  ASSUME TypeOK, Discipline, HoldersInv, NEW r \in Runs, RunStep(r), Course(r)
  PROVE  Descends(r) /\ Course(r)'
<1>. USE Ranks DEF Goto, End, local, files, locks
<1>0. /\ pc \in [Procs -> PcStates] /\ outcome \in [Procs -> Outcomes]
      /\ notice \in [Runs -> Notices] /\ decision \in [Runs -> Decisions \cup {<<>>}]
      /\ logLock \in [Logs -> Runs \cup {Nobody, Abandoned}]
      /\ done \in [Runs -> Nat] /\ r \in Procs /\ Nobody # r /\ Abandoned # r
  BY ProcAssumption DEF TypeOK, Procs
<1>1. pc[r] \in {"auditWait", "auditing"} => \A l \in Logs \ {"audit"} : logLock[l] # r
  BY DEF HoldersInv, LoglessStates
<1>2. CASE ReadPacket(r)
  <2>1. /\ pc[r] = "packetRead" /\ pc'[r] = "auditWait"
        /\ notice'[r] = "MARKET_PACKET_CREATED" /\ UNCHANGED <<outcome, intent>>
    BY <1>0, <1>2 DEF ReadPacket
  <2>. QED  BY <2>1 DEF Descends, Stage, LastNotice, Course, EarlyStates,
            ReadStates, WaitStates, EndStates
<1>3. CASE AcquireAudit(r)
  <2>1. /\ pc[r] = "auditWait" /\ pc'[r] = "auditing"
        /\ UNCHANGED <<notice, outcome, intent>>
    BY <1>0, <1>3 DEF AcquireAudit
  <2>. QED  BY <2>1 DEF Descends, Stage, LastNotice, Course, EarlyStates,
            ReadStates, WaitStates, EndStates
<1>4. CASE AppendNotice(r)
  <2>1. /\ pc[r] = "auditing" /\ UNCHANGED <<notice, outcome, intent>>
        /\ \/ notice[r] = "MARKET_PACKET_CREATED" /\ pc'[r] = "snapshotWait"
           \/ pc'[r] = "ended"
    BY <1>0, <1>4 DEF AppendNotice
  <2>. QED  BY <2>1 DEF Descends, Stage, LastNotice, Course, EarlyStates,
            ReadStates, WaitStates, EndStates
<1>5. CASE Decide(r)
  <2>1. /\ pc[r] = "deciding" /\ UNCHANGED <<intent, logLock>>
        /\ \/ pc'[r] = "logWait" /\ UNCHANGED <<notice, outcome>>
           \/ /\ pc'[r] = "auditWait" /\ notice'[r] # "MARKET_PACKET_CREATED"
              /\ outcome'[r] = "refused"
    BY <1>0, <1>5 DEF Decide
  <2>2. logLock["audit"] # r /\ "audit" \in Logs
    BY <2>1 DEF HoldersInv, LoglessStates, Logs
  <2>. QED  BY <2>1, <2>2 DEF Descends, Stage, LastNotice, Course, EarlyStates,
            ReadStates, WaitStates, EndStates, HoldsAllLogs
<1>6. CASE AcquireLog(r)
  <2>1. PICK l \in Logs :
          /\ logLock[l] = Nobody /\ logLock' = [logLock EXCEPT ![l] = r]
          /\ Goto(r, IF \A k \in Logs \ {l} : logLock[k] = r THEN "applyWait"
                                                             ELSE "logWait")
    BY <1>6 DEF AcquireLog
  <2>2. pc[r] = "logWait" /\ UNCHANGED <<notice, outcome, intent>>
    BY <1>6 DEF AcquireLog
  <2>3. CASE pc'[r] = "applyWait"
    BY <2>2, <2>3 DEF Descends, Stage, LastNotice, Course, EarlyStates,
       ReadStates, WaitStates, EndStates
  <2>4. CASE pc'[r] = "logWait"
    <3>1. PICK k \in Logs \ {l} : logLock[k] # r
      BY <1>0, <2>1, <2>4
    <3>2. logLock'[k] # r
      BY <1>0, <2>1, <3>1
    <3>3. LocksHeld(r)' = LocksHeld(r) + 1
      BY <1>0, <2>1 DEF LocksHeld, One, Logs
    <3>4. Rest(r)' < Rest(r)
      <4>1. LocksHeld(r) \in Nat
        BY DEF LocksHeld, One
      <4>2. Rest(r) = 3 - LocksHeld(r)
        BY <2>2 DEF Rest
      <4>3. Rest(r)' = 3 - LocksHeld(r)'
        BY <2>4 DEF Rest
      <4>. QED  BY <3>3, <4>1, <4>2, <4>3
    <3>5. Stage(r)' = Stage(r)
      BY <2>2, <2>4 DEF Stage, LastNotice
    <3>. QED  BY <2>2, <2>4, <3>2, <3>4, <3>5
              DEF Descends, Course, EarlyStates, ReadStates, WaitStates, EndStates, HoldsAllLogs
  <2>. QED  BY <1>0, <2>1, <2>3, <2>4
<1>7. CASE TimeoutLog(r)
  <2>1. /\ pc[r] \in {"logWait", "auditWait"}
        /\ pc' = [pc EXCEPT ![r] = AfterPortfolio(r)]
        /\ outcome' = [outcome EXCEPT ![r] = "failed"]
        /\ UNCHANGED <<notice, logLock, intent>>
    BY <1>7 DEF TimeoutLog
  <2>2. pc'[r] \in {"unlogs", "ended"} /\ (pc'[r] = "unlogs" => HoldsLogs(r))
    BY <1>0, <2>1 DEF AfterPortfolio
  <2>3. pc[r] = "auditWait" => pc'[r] = "ended"
    BY <2>2 DEF HoldersInv, LoglessStates, HoldsLogs
  <2>4. outcome'[r] = "failed"
    BY <1>0, <2>1
  <2>. QED  BY <2>1, <2>2, <2>3, <2>4 DEF Descends, Stage, LastNotice, Course,
            EarlyStates, ReadStates, WaitStates, EndStates, HoldsLogs
<1>8. CASE CheckApplication(r)
  <2>1. /\ pc[r] = "applyCheck" /\ UNCHANGED <<intent, logLock>>
        /\ \/ pc'[r] = "intent" /\ UNCHANGED <<notice, outcome>>
           \/ pc'[r] = "unlock" /\ notice'[r] = "PAPER_PORTFOLIO_STATE_CHANGED"
    BY <1>0, <1>8 DEF CheckApplication
  <2>. QED  BY <2>1 DEF Descends, Stage, LastNotice, Course, EarlyStates,
            ReadStates, WaitStates, EndStates
<1>9. CASE WriteIntent(r) \/ WritePlan(r) \/ CompleteLogs(r)
  <2>1. /\ UNCHANGED <<notice, outcome>>
        /\ \/ pc[r] = "intent" /\ pc'[r] = "plan"
           \/ pc[r] = "plan" /\ pc'[r] = "apply"
           \/ pc[r] = "seal" /\ pc'[r] = "stage"
    BY <1>0, <1>9 DEF WriteIntent, WritePlan, CompleteLogs
  <2>. QED  BY <2>1 DEF Descends, Stage, LastNotice, Course, EarlyStates,
            ReadStates, WaitStates, EndStates
<1>10. CASE AppendEffect(r)
  <2>1. /\ UNCHANGED <<notice, outcome, decision>>
        /\ pc[r] = "apply" /\ pc'[r] \in {"seal", "apply"}
        /\ done'[r] = done[r] + 1
    BY <1>0, <1>10 DEF AppendEffect
  <2>2. Course(r)'
    BY <2>1 DEF Course, EarlyStates, ReadStates, WaitStates, EndStates
  <2>3. CASE pc'[r] = "seal"
    BY <2>1, <2>2, <2>3 DEF Descends, Stage, LastNotice
  <2>4. CASE pc'[r] = "apply"
    <3>1. Stage(r)' = Stage(r)
      BY <2>1, <2>4 DEF Stage, LastNotice
    <3>2. /\ Rest(r) = Len(ApplicationScript(decision[r])) - done[r]
          /\ Rest(r)' = Len(ApplicationScript(decision'[r])) - done'[r]
      BY <2>1, <2>4 DEF Rest
    <3>3. Len(ApplicationScript(decision[r])) \in Nat
      BY <2>1, DecisionScripts DEF Discipline, ValuesInv, DecidedStates
    <3>4. Rest(r)' < Rest(r)
      BY <1>0, <2>1, <3>2, <3>3
    <3>. QED  BY <2>2, <3>1, <3>4 DEF Descends
  <2>. QED  BY <2>1, <2>3, <2>4
<1>11. CASE ReleaseLog(r)
  <2>1. PICK l \in Logs :
          /\ logLock[l] = r /\ logLock' = [logLock EXCEPT ![l] = Nobody]
          /\ Goto(r, IF \E k \in Logs \ {l} : logLock[k] = r
                       THEN "unlogs" ELSE AfterBatch(r))
    BY <1>11 DEF ReleaseLog, LastLog
  <2>2. pc[r] = "unlogs" /\ UNCHANGED <<notice, outcome, intent>>
    BY <1>11 DEF ReleaseLog
  <2>3. CASE pc'[r] = "unlogs"
    <3>1. PICK k \in Logs \ {l} : logLock[k] = r
      BY <1>0, <2>1, <2>3 DEF AfterBatch
    <3>2. logLock'[k] = r
      BY <1>0, <2>1, <3>1
    <3>3. LocksHeld(r)' = LocksHeld(r) - 1
      BY <1>0, <2>1 DEF LocksHeld, One, Logs
    <3>4. Rest(r)' < Rest(r)
      <4>1. LocksHeld(r) \in Nat
        BY DEF LocksHeld, One
      <4>2. Rest(r) = LocksHeld(r)
        BY <2>2 DEF Rest
      <4>3. Rest(r)' = LocksHeld(r)'
        BY <2>3 DEF Rest
      <4>. QED  BY <3>3, <4>1, <4>2, <4>3
    <3>5. Stage(r)' = Stage(r)
      BY <2>2, <2>3 DEF Stage, LastNotice
    <3>. QED  BY <2>2, <2>3, <3>2, <3>4, <3>5
              DEF Descends, Course, EarlyStates, ReadStates, WaitStates, EndStates, HoldsLogs
  <2>4. CASE pc'[r] # "unlogs"
    <3>1. \/ pc'[r] = "ended"
          \/ pc'[r] = "auditWait" /\ outcome[r] = "stale"
      BY <1>0, <2>1, <2>4 DEF AfterBatch
    <3>. QED  BY <2>2, <3>1 DEF Descends, Stage, LastNotice, Course,
              EarlyStates, ReadStates, WaitStates, EndStates
  <2>. QED  BY <2>3, <2>4
<1>. QED  BY <1>2, <1>3, <1>4, <1>5, <1>6, <1>7, <1>8, <1>9, <1>10, <1>11
          DEF RunStep

LEMMA CourseFault ==
  ASSUME TypeOK, Discipline, HoldersInv, NEW p \in Procs, Fault(p)
  PROVE  /\ Stage(p)' < Stage(p)
         /\ p \in Runs /\ Course(p) => Course(p)'
<1>. USE Ranks DEF Goto, End, local, files, locks
<1>0. /\ pc \in [Procs -> PcStates] /\ outcome \in [Procs -> Outcomes]
      /\ notice \in [Runs -> Notices]
  BY DEF TypeOK
<1>1. CASE CleanFailure(p)
  <2>1. /\ pc[p] \in ReadStates \cup {"stage"} /\ pc'[p] = "unlock"
        /\ UNCHANGED notice /\ outcome'[p] = "failed"
    BY <1>0, <1>1 DEF CleanFailure, UnfencedStates
  <2>. QED  BY <2>1 DEF Stage, LastNotice, Course, EarlyStates, ReadStates,
            WaitStates, EndStates
<1>2. CASE Crash(p)
  <2>1. /\ pc[p] \notin EndStates \cup {"idle"} /\ pc'[p] = "crashed"
        /\ UNCHANGED <<notice, outcome>>
    BY <1>0, <1>2 DEF Crash
  <2>2. Stage(p)' = 0
    BY <2>1 DEF Stage, LastNotice
  <2>3. Stage(p) # 0
    BY <1>0, <2>1 DEF Stage, LastNotice, PcStates, ReadStates, WaitStates,
       BarrierStates, EndStates
  <2>4. Interrupted(p) /\ p \in Runs /\ outcome[p] = "stale" /\ Course(p) =>
          intent'[p] = intent[p]
    BY DEF Interrupted, Course, EndStates, LeavesRevision, LeavesProjection,
       LeavesNotice, LeavesIntent, LeavesPlan, LeavesEffect, LeavesReceipt
  <2>5. p \in Runs /\ Course(p) => Course(p)'
    BY <1>2, <2>1, <2>4 DEF Crash, Course, EarlyStates, ReadStates, WaitStates,
       EndStates
  <2>. QED  BY <2>2, <2>3, <2>5, MeasuresTyped DEF MeasuresInv
<1>3. CASE FencedFailure(p) \/ EntryFailure(p) \/ (p \in Runs /\ LogInitFailure(p))
  <2>1. /\ pc[p] \in ReadStates \cup {"unlock", "deciding"} \cup WaitStates
                     \cup BarrierStates
        /\ pc'[p] \in {"ended", AfterPortfolio(p)}
        /\ UNCHANGED notice /\ outcome'[p] = "failed"
    BY <1>0, <1>3 DEF FencedFailure, EntryFailure, LogInitFailure, WaitStates
  <2>2. pc'[p] \in {"unlogs", "ended"} /\ (pc'[p] = "unlogs" => HoldsLogs(p))
    BY <2>1 DEF AfterPortfolio
  <2>3. p \in Runs /\ pc[p] = "auditWait" => pc'[p] = "ended"
    BY <2>2 DEF HoldersInv, LoglessStates, HoldsLogs
  <2>4. Stage(p)' < Stage(p)
    BY <2>1, <2>2, <2>3 DEF Stage, LastNotice, ReadStates, WaitStates,
       BarrierStates
  <2>5. HoldsLogs(p) /\ p \in Runs => HoldsLogs(p)'
    <3>1. \A l \in Logs : logLock[l] = p /\ p \in Runs => logLock'[l] = p
      BY <1>3, ProcAssumption
         DEF FencedFailure, EntryFailure, LogInitFailure, TypeOK, Procs
    <3>. QED  BY <3>1 DEF HoldsLogs
  <2>6. p \in Runs /\ Course(p) => Course(p)'
    BY <2>1, <2>2, <2>5 DEF Course, EarlyStates, ReadStates, WaitStates, EndStates
  <2>. QED  BY <2>4, <2>6
<1>4. CASE p \in Runs /\ (AuditFailure(p) \/ ReleaseFailure(p))
  <2>1. /\ pc[p] \in {"auditing", "unlogs"} /\ pc'[p] = "ended"
        /\ UNCHANGED notice /\ outcome'[p] = "failed"
    BY <1>0, <1>4 DEF AuditFailure, ReleaseFailure
  <2>. QED  BY <2>1 DEF Stage, LastNotice, Course, EarlyStates, ReadStates,
            WaitStates, EndStates
<1>. QED  BY <1>1, <1>2, <1>3, <1>4 DEF Fault

(* A step of any kind keeps the course of the runs, and makes headway.     *)
LEMMA CourseStep ==
  ASSUME TypeOK, Discipline, HoldersInv, CourseInv, MeasuresInv, MeasuresInv',
         NEW p \in Procs, Start(p) \/ Step(p) \/ Fault(p)
  PROVE  CourseInv' /\ ComesCloser(p)
<1>1. ASSUME Start(p) PROVE Descends(p) /\ (p \in Runs => Course(p)')
  <2>1. /\ pc[p] = "idle" /\ pc'[p] \in {"packetWait", "snapshotWait", "applyWait"}
        /\ p \in Runs => pc'[p] = "packetWait"
        /\ UNCHANGED <<outcome, notice, intent, logLock>>
    BY <1>1, ProcAssumption DEF Start, Goto, TypeOK, Procs, local, locks, files
  <2>2. Stage(p)' < Stage(p)
    BY <2>1, Ranks DEF Stage, LastNotice
  <2>3. p \in Runs => Course(p)'
    BY <2>1 DEF CourseInv, Course, EarlyStates, ReadStates, WaitStates, EndStates
  <2>. QED  BY <2>2, <2>3 DEF Descends
<1>2. ASSUME Step(p) \/ Fault(p) PROVE Descends(p) /\ (p \in Runs => Course(p)')
  BY <1>2, CourseStoreStep, CourseRunStep, CourseFault
     DEF Step, Descends, CourseInv
<1>3. ASSUME NEW r \in Runs PROVE Course(r)'
  <2>1. r \in Procs /\ Course(r)
    BY DEF Procs, CourseInv
  <2>. QED  BY <1>1, <1>2, <2>1, OthersStay
<1>4. Stage(p)' \in Nat /\ Rest(p)' \in Nat
  BY DEF MeasuresInv
<1>. QED  BY <1>1, <1>2, <1>3, <1>4 DEF CourseInv, ComesCloser

LEMMA CourseInit == Init => CourseInv
BY DEF Init, CourseInv, Course, Procs

LEMMA CourseHolds ==
  Spec => [](TypeOK /\ Discipline /\ HoldersInv /\ MeasuresInv /\ CourseInv)
<1>1. ASSUME TypeOK, Discipline, HoldersInv, MeasuresInv, MeasuresInv', CourseInv,
             [Next]_vars
      PROVE  CourseInv'
  <2>1. CASE UNCHANGED vars
    BY <1>1, <2>1 DEF CourseInv, Course, HoldsAllLogs, HoldsLogs, vars, local,
       locks, files
  <2>2. CASE Next
    BY <1>1, <2>2, CourseStep DEF Next
  <2>. QED  BY <1>1, <2>1, <2>2
<1>. QED  BY <1>1, CourseInit, MeasuresTyped, HoldersHold, PTL DEF Spec

(* Every step brings one process nearer to its end, by an order without    *)
(* infinite descent, and sets none back; so a finite number of processes   *)
(* takes a finite number of steps, whatever fails: nothing is retried      *)
(* within a process (paperDecisionPipeline.ts 96-197,                      *)
(* virtualPortfolioFileStore.ts 87-208).                                   *)
THEOREM HeadwayAlways == Spec => OneComesCloser
<1>1. ASSUME TypeOK, Discipline, HoldersInv, MeasuresInv, MeasuresInv', CourseInv,
             [Next]_vars
      PROVE  [\E p \in Procs :
                /\ ComesCloser(p)
                /\ \A q \in Procs \ {p} : UNCHANGED <<Stage(q), Rest(q)>>]_vars
  <2>1. CASE Next
    <3>1. PICK p \in Procs : Start(p) \/ Step(p) \/ Fault(p)
      BY <2>1 DEF Next
    <3>. QED  BY <1>1, <3>1, CourseStep, OthersStay
  <2>. QED  BY <1>1, <2>1
<1>. QED  BY <1>1, CourseHolds, PTL DEF Spec, OneComesCloser

(* Whatever a live process comes to, it can go on: no check of the code    *)
(* refuses what the process itself or others before it have made           *)
(* (virtualPortfolioRevisionJournal.ts 46-127,                             *)
(* paperApplicationLogReceipts.ts 41-81, paperExecutionLogLocks.ts 47-80). *)
THEOREM NobodyIsStuck == Spec => []NeverStuck
<1>1. ASSUME TypeOK, Discipline, History, CourseInv, SealNeverRefused
      PROVE  NeverStuck
  <2>1. ASSUME NEW p \in Procs, pc[p] \in ReadStates PROVE JournalVerifies
    <3>1. pc[p] \in PortfolioStates \ {"rename"}
      BY <2>1 DEF PortfolioStates, ReadStates
    <3>. QED  BY <1>1, <3>1, InsideVerifies DEF Discipline
  <2>2. ASSUME NEW p \in Procs, pc[p] = "journal", stored[p].sequence = 0
        PROVE  journal = <<>>
    <3>1. stored[p] = StoredHead
      BY <1>1, <2>2 DEF History, CheckedInv, Checked, BarrierStates
    <3>2. Len(journal) = 0
      BY <2>2, <3>1 DEF StoredHead
    <3>. QED  BY <1>1, <3>2 DEF TypeOK
  <2>3. ASSUME NEW r \in Runs, pc[r] = "logWait"
        PROVE  \E l \in Logs : NextLog(r, l)
    <3>1. ~HoldsAllLogs(r)
      BY <1>1, <2>3 DEF CourseInv, Course
    <3>2. logLock["audit"] = r /\ logLock["decision"] = r => logLock["trade"] # r
      BY <3>1 DEF HoldsAllLogs, Logs
    <3>. QED  BY <3>2 DEF NextLog, Logs, LogRank
  <2>4. ASSUME NEW r \in Runs, pc[r] = "unlogs"
        PROVE  \E l \in Logs : LastLog(r, l)
    <3>1. HoldsLogs(r)
      BY <1>1, <2>4 DEF CourseInv, Course
    <3>2. logLock["audit"] = r \/ logLock["decision"] = r \/ logLock["trade"] = r
      BY <3>1 DEF HoldsLogs, Logs
    <3>. QED  BY <3>2 DEF LastLog, Logs, LogRank
  <2>5. ASSUME NEW r \in Runs, pc[r] = "intent" PROVE intent[r] = NoRecord
    BY <1>1, <2>5 DEF CourseInv, Course, EarlyStates
  <2>6. ASSUME NEW r \in Runs, pc[r] = "plan" PROVE LogsParse
    <3>1. HoldsAllLogs(r)
      BY <1>1, <2>6 DEF Discipline, LocksInv, BatchStates, BarrierStates
    <3>. QED  BY <1>1, <2>6, <3>1
              DEF LogsParse, Discipline, TornInv, HoldsAllLogs, EndStates
  <2>. QED  BY <1>1, <2>1, <2>2, <2>3, <2>4, <2>5, <2>6 DEF NeverStuck
<1>. QED  BY <1>1, HistoryHolds, CourseHolds, SealsAreNeverRefused, PTL

-----------------------------------------------------------------------------
(* The ledger *)

(* How a step of p touches what the ledger is made of.                     *)
LEMMA LedgerFootprint ==
  ASSUME TypeOK, NEW p \in Procs, Start(p) \/ Step(p) \/ Fault(p)
  PROVE  \/ UNCHANGED <<journal, projection, seen>>
         \/ ReadSnapshot(p) /\ UNCHANGED <<journal, projection>>
         \/ /\ pc[p] = "journal" /\ UNCHANGED <<projection, seen>>
            /\ \E e \in {Torn, NewEntry(p)} : journal' = Append(journal, e)
         \/ pc[p] = "rename" /\ UNCHANGED <<journal, seen>>
<1>. USE DEF local, locks, files
<1>1. CASE Start(p) \/ StoreStep(p)
  BY <1>1 DEF Start, StoreStep, AcquirePortfolio, TimeoutPortfolio, ReadSnapshot,
     CheckWrite, StagePortfolio, AppendRevision, ReplaceProjection,
     ReleasePortfolio
<1>2. CASE p \in Runs /\ RunStep(p)
  BY <1>2 DEF RunStep, ReadPacket, AcquireAudit, AppendNotice, Decide,
     AcquireLog, TimeoutLog, CheckApplication, WriteIntent, WritePlan,
     AppendEffect, CompleteLogs, ReleaseLog
<1>3. CASE CleanFailure(p) \/ EntryFailure(p)
           \/ (p \in Runs /\ (LogInitFailure(p) \/ ReleaseFailure(p)))
  BY <1>3 DEF CleanFailure, EntryFailure, LogInitFailure, ReleaseFailure
<1>4. CASE FencedFailure(p) \/ Crash(p) \/ (p \in Runs /\ AuditFailure(p))
  <2>1. UNCHANGED seen /\ (Interrupted(p) \/ UNCHANGED files)
    BY <1>4 DEF FencedFailure, Crash, AuditFailure
  <2>. QED  BY <2>1 DEF Interrupted, LeavesNotice, LeavesIntent, LeavesPlan,
               LeavesEffect, LeavesReceipt, LeavesRevision, LeavesProjection
<1>. QED  BY <1>1, <1>2, <1>3, <1>4 DEF Step, Fault

(* Whoever appends does so onto what it was entitled to.                   *)
LEMMA AppendEntitled ==
  ASSUME TypeOK, Discipline, History, NEW p \in Procs, pc[p] = "journal"
  PROVE  /\ portfolioLock = p /\ ExpectationHolds(p)
         /\ p \in Runs \cup SnapshotUpdates => ObservationCurrent(p)
BY DEF Discipline, LocksInv, PortfolioStates, BarrierStates, History, CheckedInv,
       Checked, ExpectationHolds

(* A run or a snapshot update appends a revision, or the torn start of     *)
(* one, only onto the very revision it observed, also when the portfolio   *)
(* value has come back to the observed one in between                      *)
(* (virtualPortfolioFileStore.ts 74-124).                                  *)
THEOREM AppendsAreEntitled == Spec => AppendsOntoObserved
<1>1. ASSUME TypeOK, Discipline, HoldersInv, History, [Next]_vars
      PROVE  [\A p \in Runs \cup SnapshotUpdates :
                journal' # journal /\ portfolioLock = p =>
                  ObservationCurrent(p)]_vars
  <2>1. ASSUME NEW q \in Procs, Start(q) \/ Step(q) \/ Fault(q),
               NEW p \in Runs \cup SnapshotUpdates,
               journal' # journal, portfolioLock = p
        PROVE  ObservationCurrent(p)
    <3>1. pc[q] = "journal"
      BY <1>1, <2>1, LedgerFootprint
    <3>. QED  BY <1>1, <2>1, <3>1, AppendEntitled
  <2>. QED  BY <1>1, <2>1 DEF Next
<1>. QED  BY <1>1, HistoryHolds, PTL DEF Spec, AppendsOntoObserved

(* While p is inside the portfolio lock and has not appended, the ledger   *)
(* is the journal and its current value the projection.                    *)
LEMMA LedgerInside ==
  ASSUME TypeOK, Discipline, History, NEW p \in Procs,
         pc[p] \in PortfolioStates \ {"rename"}
  PROVE  /\ Intact = journal
         /\ Ledger!Current = projection
         /\ Ledger!Observation =
              [portfolio |-> projection, length |-> PositionOf(HeadRevision)]
<1>1. /\ \A i \in DOMAIN journal : EntryVerifies(i)
      /\ journal # <<>> => journal[Len(journal)].portfolio = projection
  BY InsideVerifies DEF Discipline
<1>2. Intact = journal
  BY <1>1 DEF Intact, Last, EntryVerifies, TypeOK
<1>3. Len(journal) \in Nat /\ DOMAIN journal = 1 .. Len(journal)
  BY DEF TypeOK
<1>4. Len(LedgerRevisions) = Len(journal)
      /\ (LedgerRevisions = <<>> <=> journal = <<>>)
  BY <1>2, <1>3 DEF LedgerRevisions
<1>5. Ledger!Current = projection
  <2>1. CASE journal = <<>>
    BY <1>2, <1>4, <2>1 DEF Ledger!Current, LedgerOrigin
  <2>2. CASE journal # <<>>
    <3>1. LedgerRevisions[Len(journal)].portfolio = projection
      BY <1>1, <1>2, <1>3, <2>2 DEF LedgerRevisions
    <3>. QED  BY <1>4, <2>2, <3>1 DEF Ledger!Current
  <2>. QED  BY <2>1, <2>2
<1>6. PositionOf(HeadRevision) = Len(journal)
  BY <1>1, HeadPosition
<1>. QED  BY <1>2, <1>4, <1>5, <1>6 DEF Ledger!Observation

LEMMA ClientsAreProcs == Ledger!Clients = Procs
BY DEF Ledger!Clients, Procs, Updates

(* A snapshot read observes the ledger.                                    *)
LEMMA ReadObserves ==
  ASSUME TypeOK, Discipline, History, NEW p \in Procs, ReadSnapshot(p),
         UNCHANGED <<journal, projection>>
  PROVE  Ledger!Observe(p)
<1>1. /\ pc[p] = "snapshotRead" /\ seen \in [Procs -> Snapshots]
      /\ seen' = [seen EXCEPT ![p] =
                    [portfolio |-> projection, revision |-> HeadRevision]]
  BY DEF ReadSnapshot, TypeOK
<1>2. Ledger!Observation =
        [portfolio |-> projection, length |-> PositionOf(HeadRevision)]
  BY <1>1, LedgerInside DEF PortfolioStates, ReadStates
<1>3. ObservedBy(p)' = Ledger!Observation
  BY <1>1, <1>2 DEF ObservedBy
<1>4. \A q \in Procs \ {p} : ObservedBy(q)' = ObservedBy(q)
  BY <1>1 DEF ObservedBy
<1>5. UNCHANGED <<LedgerOrigin, LedgerRevisions>>
  BY DEF LedgerOrigin, LedgerRevisions, Intact
<1>. QED  BY <1>3, <1>4, <1>5 DEF Ledger!Observe

(* A journal append is a revision of the ledger, a torn one is nothing.    *)
LEMMA AppendCommits ==
  ASSUME TypeOK, Discipline, History, NEW p \in Procs, pc[p] = "journal",
         NEW e \in {Torn, NewEntry(p)}, journal' = Append(journal, e),
         UNCHANGED <<projection, seen>>
  PROVE  Ledger!Commit(p) \/ UNCHANGED Ledger!vars
<1>0. PICK n \in Nat : n = Len(journal)
  BY DEF TypeOK
<1>1. /\ journal \in Seq(Entries \cup {Torn}) /\ NewEntry(p) \in Entries
      /\ NewEntry(p) # Torn /\ target[p] \in Portfolios
  BY NewEntryTyped, TornAssumption DEF TypeOK, Discipline, ValuesInv, BarrierStates
<1>2. /\ journal' # <<>> /\ Len(journal') = n + 1 /\ journal'[n + 1] = e
      /\ DOMAIN journal' = 1 .. n + 1 /\ DOMAIN journal = 1 .. n
      /\ \A i \in 1 .. n : journal'[i] = journal[i]
  BY <1>0, <1>1
<1>3. /\ Intact = journal /\ Ledger!Current = projection
      /\ Ledger!Observation =
           [portfolio |-> projection, length |-> PositionOf(HeadRevision)]
  BY LedgerInside DEF PortfolioStates, BarrierStates
<1>4. [q \in Procs |-> ObservedBy(q)]' = [q \in Procs |-> ObservedBy(q)]
  BY DEF ObservedBy
<1>5. CASE e = Torn
  <2>1. Intact' = journal
    <3>1. Intact' = SubSeq(journal', 1, n)
      BY <1>2, <1>5 DEF Intact, Last, Front
    <3>. QED  BY <1>0, <1>1, <3>1
  <2>2. UNCHANGED <<LedgerOrigin, LedgerRevisions>>
    BY <1>3, <2>1 DEF LedgerOrigin, LedgerRevisions
  <2>. QED  BY <1>4, <2>2 DEF Ledger!vars
<1>6. CASE e = NewEntry(p)
  <2>1. Intact' = journal'
    BY <1>1, <1>2, <1>6 DEF Intact, Last
  <2> DEFINE rev == [portfolio |-> target[p], signed |-> Ledger!Signature(p)]
  <2>2. e.portfolio = target[p] /\ e.application = Ledger!Signature(p)
    BY <1>6 DEF NewEntry, Ledger!Signature
  <2>3. LedgerRevisions' = Append(LedgerRevisions, rev)
    <3>1. LedgerRevisions' =
            [i \in 1 .. n + 1 |-> [portfolio |-> journal'[i].portfolio,
                                   signed |-> journal'[i].application]]
      BY <1>2, <2>1 DEF LedgerRevisions
    <3>2. LedgerRevisions =
            [i \in 1 .. n |-> [portfolio |-> journal[i].portfolio,
                               signed |-> journal[i].application]]
      BY <1>2, <1>3 DEF LedgerRevisions
    <3>3. Len(LedgerRevisions) = n
      BY <3>2
    <3>4. Append(LedgerRevisions, rev) =
            [i \in 1 .. n + 1 |-> IF i = n + 1 THEN rev ELSE LedgerRevisions[i]]
      BY <3>2, <3>3
    <3>5. \A i \in 1 .. n + 1 :
            [portfolio |-> journal'[i].portfolio,
             signed |-> journal'[i].application] =
            IF i = n + 1 THEN rev ELSE LedgerRevisions[i]
      BY <1>2, <2>2, <3>2
    <3>. QED  BY <3>1, <3>4, <3>5
  <2>4. LedgerOrigin' = LedgerOrigin
    <3>1. CASE journal = <<>>
      <4>1. e.basis = projection
        BY <1>6 DEF NewEntry, History, CheckedInv, Checked, BarrierStates,
           StoredHead
      <4>2. n = 0
        BY <1>0, <3>1
      <4>. QED  BY <1>2, <1>3, <2>1, <3>1, <4>1, <4>2 DEF LedgerOrigin
    <3>2. CASE journal # <<>>
      <4>1. n # 0
        BY <1>0, <1>1, <3>2
      <4>. QED  BY <1>2, <1>3, <2>1, <3>2, <4>1 DEF LedgerOrigin
    <3>. QED  BY <3>1, <3>2
  <2>5. Ledger!UpToDate(p)
    <3>1. p \in Runs \cup SnapshotUpdates => ObservedBy(p) = Ledger!Observation
      BY <1>3, AppendEntitled DEF ObservationCurrent, ObservedBy
    <3>2. p \in ValueUpdates => ObservedBy(p).portfolio = Ledger!Current
      BY <1>3, AppendEntitled DEF ExpectationHolds, ObservedBy
    <3>. QED  BY <3>1, <3>2 DEF Ledger!UpToDate
  <2>. QED  BY <1>1, <1>4, <2>3, <2>4, <2>5 DEF Ledger!Commit
<1>. QED  BY <1>5, <1>6

(* The rename is not seen in the ledger: its revision is already there.    *)
LEMMA RenameIsSilent ==
  ASSUME TypeOK, Discipline, History, NEW p \in Procs, pc[p] = "rename",
         UNCHANGED <<journal, seen>>
  PROVE  UNCHANGED Ledger!vars
<1>1. /\ journal # <<>> /\ journal[Len(journal)] = NewEntry(p)
      /\ NewEntry(p) # Torn
  BY NewEntryTyped, TornAssumption
     DEF Discipline, History, CheckedInv, Checked
<1>2. Intact = journal /\ Intact' = journal
  BY <1>1 DEF Intact, Last
<1>. QED  BY <1>1, <1>2 DEF Ledger!vars, LedgerOrigin, LedgerRevisions, ObservedBy

(* The store implements the ledger: readers only ever observe its current  *)
(* value, and each update appends, in one step, to what it was entitled to *)
(* append to, through every interleaving, error and crash                  *)
(* (virtualPortfolioFileStore.ts 46-208,                                   *)
(* virtualPortfolioRevisionJournal.ts 46-127).                             *)
THEOREM StoreImplementsLedger == Spec => ImplementsLedger
<1>1. Init => Ledger!Init
  <2>. SUFFICES ASSUME Init PROVE Ledger!Init
    OBVIOUS
  <2>1. Intact = <<>> /\ LedgerRevisions = <<>>
    BY DEF Init, Intact, LedgerRevisions
  <2>2. LedgerOrigin \in Portfolios \cup {NoPortfolio}
    BY <2>1 DEF Init, LedgerOrigin, PortfolioOrNone
  <2>3. \A p \in Procs :
          ObservedBy(p) = [portfolio |-> NoPortfolio, length |-> 0]
    BY DEF Init, ObservedBy, NoSnapshot, PositionOf
  <2>. QED  BY <2>1, <2>2, <2>3, ClientsAreProcs DEF Ledger!Init
<1>2. ASSUME TypeOK, Discipline, HoldersInv, History, [Next]_vars
      PROVE  [Ledger!Next]_(Ledger!vars)
  <2>1. ASSUME UNCHANGED <<journal, projection, seen>>
        PROVE  UNCHANGED Ledger!vars
    BY <2>1 DEF Ledger!vars, LedgerOrigin, LedgerRevisions, Intact, ObservedBy
  <2>2. ASSUME NEW p \in Procs, Start(p) \/ Step(p) \/ Fault(p)
        PROVE  Ledger!Observe(p) \/ Ledger!Commit(p) \/ UNCHANGED Ledger!vars
    BY <1>2, <2>1, <2>2, LedgerFootprint, ReadObserves, AppendCommits,
       RenameIsSilent
  <2>3. CASE UNCHANGED vars
    BY <2>1, <2>3 DEF vars, local, files
  <2>. QED  BY <1>2, <2>2, <2>3, ClientsAreProcs DEF Next, Ledger!Next
<1>. QED  BY <1>1, <1>2, HistoryHolds, PTL DEF Spec, ImplementsLedger, Ledger!Spec
=============================================================================
