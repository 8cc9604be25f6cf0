------------------------- MODULE TossSessionProofs -------------------------
(***************************************************************************)
(* Proofs that a token session keeps its types, shares one issue among all *)
(* its callers, forgets it once settled, repeats a refused request with a  *)
(* newer token only, never outlives what the service counts, and asks for  *)
(* no token it does not need, for any number of requests and lifetimes.    *)
(***************************************************************************)
EXTENDS TossSession, TLAPS

-----------------------------------------------------------------------------
(* Types *)

(* A new issue and a new lease are typed.                                  *)
LEMMA NewValuesTyped ==
  ASSUME TypeOK
  PROVE  /\ NewIssue \in Issues
         /\ \A i \in DOMAIN issues : NextLease(i) \in Leases
<1>1. NewIssue \in Issues
  BY SessionAssumption DEF TypeOK, NewIssue, Issues, IssueStates
<1>2. ASSUME NEW i \in DOMAIN issues PROVE NextLease(i) \in Leases
  <2>1. issues[i] \in Issues
    BY DEF TypeOK
  <2>2. generation + 1 \in Nat \ {0}
    BY SessionAssumption DEF TypeOK
  <2>. QED  BY <2>1, <2>2 DEF NextLease, Leases, ExpiresAt, Issues
<1>. QED  BY <1>1, <1>2

(* getTokenLease hands out the cached lease, joins the pending issue, or   *)
(* starts a new one at the end of the issues.                              *)
LEMMA GetTokenLeaseCases ==
  ASSUME TypeOK, NEW r \in Requests, GetTokenLease(r)
  PROVE  \/ /\ cachedLease # NoLease
            /\ lease' = [lease EXCEPT ![r] = cachedLease]
            /\ pc' = [pc EXCEPT ![r] = "sent"]
            /\ UNCHANGED <<pendingIssue, issues, awaiting>>
         \/ /\ pendingIssue # None
            /\ awaiting' = [awaiting EXCEPT ![r] = pendingIssue]
            /\ pc' = [pc EXCEPT ![r] = "waiting"]
            /\ UNCHANGED <<pendingIssue, issues, lease>>
         \/ /\ pendingIssue = None
            /\ issues' = Append(issues, NewIssue)
            /\ pendingIssue' = Len(issues) + 1
            /\ pendingIssue' \in DOMAIN issues'
            /\ awaiting' = [awaiting EXCEPT ![r] = pendingIssue']
            /\ pc' = [pc EXCEPT ![r] = "waiting"]
            /\ UNCHANGED lease
BY NewValuesTyped DEF GetTokenLease, Usable, Goto, TypeOK

(* Replacing an issue by another one leaves a sequence of as many issues.  *)
LEMMA IssuesByReplacement ==
  ASSUME issues \in Seq(Issues), NEW i \in DOMAIN issues, NEW e \in Issues,
         issues' = [issues EXCEPT ![i] = e]
  PROVE  /\ issues' \in Seq(Issues)
         /\ DOMAIN issues' = DOMAIN issues
         /\ issues'[i] = e
         /\ \A j \in DOMAIN issues \ {i} : issues'[j] = issues[j]
OBVIOUS

(* The initial state is typed.                                             *)
LEMMA TypeInit == Init => TypeOK
BY SessionAssumption DEF Init, TypeOK, Issues

(* Every variable keeps its type; the invariant gives each awaited lease.  *)
LEMMA TypeStep ==
  ASSUME TypeOK, SessionDiscipline, [Next]_vars
  PROVE  TypeOK'
<1>. USE SessionAssumption
<1>1. CASE UNCHANGED vars
  BY <1>1 DEF TypeOK, vars, client, calls
<1>2. CASE Tick
  BY <1>2 DEF TypeOK, Tick, client, calls
<1>3. ASSUME NEW i \in DOMAIN issues, Grant(i) PROVE TypeOK'
  <2>1. issues[i] \in Issues
    BY DEF TypeOK
  <2>2. PICK d \in Lifetimes :
          issues' = [issues EXCEPT ![i] =
            [issues[i] EXCEPT !.state = "granted", !.lifetime = d,
                              !.grantedAt = clock]]
    BY <1>3 DEF Grant
  <2>3. [issues[i] EXCEPT !.state = "granted", !.lifetime = d,
                          !.grantedAt = clock] \in Issues
    <3>1. clock \in Nat /\ d \in Nat
      BY DEF TypeOK
    <3>. QED  BY <2>1, <3>1 DEF Issues, IssueStates
  <2>4. issues' \in Seq(Issues) /\ DOMAIN issues' = DOMAIN issues
    BY <2>2, <2>3, IssuesByReplacement DEF TypeOK
  <2>. QED  BY <1>3, <2>4 DEF TypeOK, Grant, client, calls
<1>4. ASSUME NEW i \in DOMAIN issues, CacheToken(i) PROVE TypeOK'
  <2>1. NextLease(i) \in Leases
    BY NewValuesTyped
  <2>2. issues[i] \in Issues
    BY DEF TypeOK
  <2>3. PICK e \in Issues : issues' = [issues EXCEPT ![i] = e]
    BY <1>4, <2>1, <2>2 DEF CacheToken, Issues, IssueStates
  <2>4. issues' \in Seq(Issues) /\ DOMAIN issues' = DOMAIN issues
    BY <2>3, IssuesByReplacement DEF TypeOK
  <2>. QED
    BY <1>4, <2>1, <2>4 DEF TypeOK, CacheToken, GenerationLeft, calls
<1>5. ASSUME NEW i \in DOMAIN issues, FailIssue(i) PROVE TypeOK'
  <2>1. issues[i] \in Issues
    BY DEF TypeOK
  <2>2. PICK e \in Issues : issues' = [issues EXCEPT ![i] = e]
    BY <1>5, <2>1 DEF FailIssue, Issues, IssueStates
  <2>3. issues' \in Seq(Issues) /\ DOMAIN issues' = DOMAIN issues
    BY <2>2, IssuesByReplacement DEF TypeOK
  <2>. QED  BY <1>5, <2>3 DEF TypeOK, FailIssue, client, calls
<1>6. ASSUME NEW r \in Requests, GetTokenLease(r),
             UNCHANGED <<clock, cachedLease, generation, first, refused>>
      PROVE  TypeOK'
  <2>1. issues' \in Seq(Issues) /\ DOMAIN issues \subseteq DOMAIN issues'
    <3>1. CASE issues' = issues
      BY <3>1 DEF TypeOK
    <3>2. CASE issues' = Append(issues, NewIssue)
      BY <3>2, NewValuesTyped DEF TypeOK
    <3>. QED  BY <1>6, <3>1, <3>2, GetTokenLeaseCases
  <2>2. /\ pendingIssue' \in DOMAIN issues' \cup {None}
        /\ awaiting' \in [Requests -> DOMAIN issues' \cup {None}]
    BY <1>6, <2>1, GetTokenLeaseCases DEF TypeOK
  <2>3. /\ pc' \in [Requests -> {"idle", "waiting", "sent", "retrying", "ended"}]
        /\ lease' \in [Requests -> Leases \cup {NoLease}]
    BY <1>6, GetTokenLeaseCases DEF TypeOK
  <2>. QED  BY <1>6, <2>1, <2>2, <2>3 DEF TypeOK
<1>7. ASSUME NEW r \in Requests, Resume(r) PROVE TypeOK'
  <2>1. pc[r] = "waiting"
    BY <1>7 DEF Resume, Resumable
  <2>2. awaiting[r] # None
    BY <2>1 DEF SessionDiscipline, SharingInv
  <2>3. awaiting[r] \in DOMAIN issues
    BY <2>2 DEF TypeOK
  <2>4. issues[awaiting[r]].lease \in Leases \cup {NoLease}
    <3>1. issues[awaiting[r]] \in Issues
      BY <2>3 DEF TypeOK
    <3>. QED  BY <3>1 DEF Issues
  <2>. QED
    BY <1>7, <2>4 DEF TypeOK, Resume, PendingAfterResume, Goto
<1>8. ASSUME NEW r \in Requests, Refuse(r) PROVE TypeOK'
  <2>1. lease[r].generation \in Nat
    BY DEF TypeOK, Leases, NoLease
  <2>. QED
    BY <1>8, <2>1 DEF TypeOK, Refuse, CachedAfterRefusal, Goto
<1>9. ASSUME NEW r \in Requests, Answer(r) PROVE TypeOK'
  BY <1>9 DEF TypeOK, Answer, Goto, client
<1>. QED
  BY <1>1, <1>2, <1>3, <1>4, <1>5, <1>6, <1>7, <1>8, <1>9
  DEF Next, Settle, Proceed, Begin, Retry

-----------------------------------------------------------------------------
(* Discipline *)

(* Nothing is asked for, given out or refused at the start.                *)
LEMMA DisciplineInit == Init => SessionDiscipline
BY SessionAssumption
DEF Init, SessionDiscipline, SharingInv, GenerationInv, RetryInv, Newer

(* Once all that is settled has resumed, a pending issue is in flight.     *)
LEMMA DrainedPending ==
  ASSUME TypeOK, SharingInv, Drained, pendingIssue # None
  PROVE  pendingIssue \in DOMAIN issues /\ InFlight(pendingIssue)
BY DEF TypeOK, SharingInv, Drained, Resumable

(* Discipline survives the progress of an issue in flight: it stays        *)
(* unleased, or becomes the newest lease there is.                         *)
LEMMA DisciplineOfIssue ==
  ASSUME TypeOK, SessionDiscipline,
         NEW i \in DOMAIN issues, InFlight(i),
         NEW e \in Issues, issues' = [issues EXCEPT ![i] = e],
         UNCHANGED <<pendingIssue, calls>>,
         \/ e.state # "leased" /\ UNCHANGED <<cachedLease, generation>>
         \/ /\ generation' = generation + 1
            /\ e.lease \in Leases
            /\ e.lease.generation = generation + 1
            /\ cachedLease' = e.lease
  PROVE  SessionDiscipline'
<1>1. /\ DOMAIN issues' = DOMAIN issues
      /\ issues'[i] = e
      /\ \A j \in DOMAIN issues \ {i} : issues'[j] = issues[j]
  BY IssuesByReplacement DEF TypeOK
<1>2. /\ generation \in Nat
      /\ generation <= generation'
      /\ generation' \in Nat
      /\ \A r \in Requests : first[r] \in Nat /\ first[r] <= generation
  BY SessionAssumption DEF TypeOK, SessionDiscipline, GenerationInv
<1>3. \A l \in Leases : l # NoLease /\ l.generation \in Nat \ {0}
  BY DEF Leases, NoLease
<1>4. SharingInv'
  BY <1>1 DEF SessionDiscipline, SharingInv, InFlight, calls
<1>5. GenerationInv'
  <2>1. cachedLease' # NoLease => cachedLease'.generation = generation'
    BY DEF SessionDiscipline, GenerationInv
  <2>2. ASSUME NEW j \in DOMAIN issues, issues'[j].state = "leased"
        PROVE  /\ issues'[j].lease # NoLease
               /\ issues'[j].lease.generation <= generation'
    <3>1. CASE j = i
      BY <1>1, <1>2, <1>3, <2>2, <3>1
    <3>2. CASE j # i
      <4>1. issues[j] \in Issues /\ issues'[j] = issues[j]
        BY <1>1, <3>2 DEF TypeOK
      <4>2. issues[j].lease # NoLease /\ issues[j].lease.generation <= generation
        BY <2>2, <4>1 DEF SessionDiscipline, GenerationInv
      <4>3. issues[j].lease.generation \in Nat
        BY <1>3, <4>1, <4>2 DEF Issues
      <4>. QED  BY <1>2, <4>1, <4>2, <4>3
    <3>. QED  BY <3>1, <3>2
  <2>3. ASSUME NEW r \in Requests
        PROVE  /\ pc'[r] = "sent" => /\ lease'[r] # NoLease
                                     /\ lease'[r].generation <= generation'
               /\ first'[r] <= generation'
    <3>1. lease[r] \in Leases \cup {NoLease}
      BY DEF TypeOK
    <3>. QED
      BY <1>2, <1>3, <3>1 DEF SessionDiscipline, GenerationInv, calls
  <2>. QED  BY <1>1, <2>1, <2>2, <2>3 DEF GenerationInv
<1>6. RetryInv'
  <2>1. ASSUME NEW r \in Requests, NEW j \in DOMAIN issues, Newer(r, j)
        PROVE  Newer(r, j)'
    <3>1. CASE j = i
      BY <1>1, <1>2, <3>1 DEF Newer, calls
    <3>2. CASE j # i
      BY <1>1, <2>1, <3>2 DEF Newer, calls
    <3>. QED  BY <3>1, <3>2
  <2>2. ASSUME NEW r \in Requests PROVE (cachedLease # NoLease =>
            cachedLease.generation > first[r])
          => (cachedLease' # NoLease => cachedLease'.generation > first'[r])
    BY <1>2 DEF calls
  <2>3. ASSUME NEW r \in Requests, pc[r] = "waiting"
        PROVE  awaiting[r] \in DOMAIN issues
    BY <2>3 DEF TypeOK, SessionDiscipline, SharingInv
  <2>4. pendingIssue # None => pendingIssue \in DOMAIN issues
    BY DEF TypeOK
  <2>. QED
    BY <2>1, <2>2, <2>3, <2>4 DEF SessionDiscipline, RetryInv, calls
<1>. QED  BY <1>4, <1>5, <1>6 DEF SessionDiscipline

(* Discipline survives getTokenLease, in a first and in a second attempt:  *)
(* cache and pending issue only hold what is newer than the refused token. *)
LEMMA DisciplineOfGet ==
  ASSUME TypeOK, TypeOK', SessionDiscipline,
         NEW r \in Requests, pc[r] \in {"idle", "retrying"}, GetTokenLease(r),
         UNCHANGED <<cachedLease, generation, first>>
  PROVE  SessionDiscipline'
<1>1. /\ generation \in Nat
      /\ \A q \in Requests : first[q] \in Nat
      /\ \A l \in Leases : l # NoLease /\ l.generation \in Nat \ {0}
  BY SessionAssumption DEF TypeOK, Leases, NoLease
<1>2. cachedLease # NoLease =>
        cachedLease.generation = generation /\ generation > first[r]
  BY <1>1 DEF TypeOK, SessionDiscipline, GenerationInv, RetryInv
<1>3. pendingIssue # None => Newer(r, pendingIssue)
  <2>1. CASE pc[r] = "idle"
    <3>1. ASSUME pendingIssue # None, issues[pendingIssue].state = "leased"
          PROVE  issues[pendingIssue].lease.generation > first[r]
      <4>1. pendingIssue \in DOMAIN issues
        BY <3>1 DEF TypeOK
      <4>2. issues[pendingIssue] \in Issues
        BY <4>1 DEF TypeOK
      <4>3. issues[pendingIssue].lease \in Leases
        BY <3>1, <4>1, <4>2
        DEF SessionDiscipline, GenerationInv, Issues
      <4>4. first[r] = 0
        BY <2>1 DEF SessionDiscipline, RetryInv
      <4>. QED  BY <1>1, <4>3, <4>4
    <3>. QED  BY <3>1 DEF Newer
  <2>2. CASE pc[r] = "retrying"
    BY <2>2 DEF SessionDiscipline, RetryInv
  <2>. QED  BY <2>1, <2>2
<1>4. CASE /\ cachedLease # NoLease
           /\ lease' = [lease EXCEPT ![r] = cachedLease]
           /\ pc' = [pc EXCEPT ![r] = "sent"]
           /\ UNCHANGED <<pendingIssue, issues, awaiting>>
  <2>1. SharingInv'
    BY <1>4 DEF SessionDiscipline, SharingInv, InFlight, TypeOK
  <2>2. GenerationInv'
    BY <1>1, <1>2, <1>4 DEF SessionDiscipline, GenerationInv, TypeOK
  <2>3. RetryInv'
    BY <1>1, <1>2, <1>4 DEF SessionDiscipline, RetryInv, Newer, TypeOK
  <2>. QED  BY <2>1, <2>2, <2>3 DEF SessionDiscipline
<1>5. CASE /\ pendingIssue # None
           /\ awaiting' = [awaiting EXCEPT ![r] = pendingIssue]
           /\ pc' = [pc EXCEPT ![r] = "waiting"]
           /\ UNCHANGED <<pendingIssue, issues, lease>>
  <2>1. SharingInv'
    BY <1>5 DEF SessionDiscipline, SharingInv, InFlight, TypeOK
  <2>2. GenerationInv'
    BY <1>5 DEF SessionDiscipline, GenerationInv, TypeOK
  <2>3. RetryInv'
    BY <1>3, <1>5 DEF SessionDiscipline, RetryInv, Newer, TypeOK
  <2>. QED  BY <2>1, <2>2, <2>3 DEF SessionDiscipline
<1>6. CASE /\ pendingIssue = None
           /\ issues' = Append(issues, NewIssue)
           /\ pendingIssue' = Len(issues) + 1
           /\ pendingIssue' \in DOMAIN issues'
           /\ awaiting' = [awaiting EXCEPT ![r] = pendingIssue']
           /\ pc' = [pc EXCEPT ![r] = "waiting"]
           /\ UNCHANGED lease
  <2>1. /\ DOMAIN issues' = DOMAIN issues \cup {pendingIssue'}
        /\ pendingIssue' # None
        /\ issues'[pendingIssue'].state = "asked"
        /\ \A j \in DOMAIN issues : issues'[j] = issues[j]
    BY <1>6, NewValuesTyped, SessionAssumption DEF TypeOK, NewIssue
  <2>2. SharingInv'
    <3>1. \A j \in DOMAIN issues : ~InFlight(j)
      <4>1. \A j \in DOMAIN issues : j # None
        BY SessionAssumption DEF TypeOK
      <4>. QED  BY <1>6, <4>1 DEF SessionDiscipline, SharingInv
    <3>2. \A j \in DOMAIN issues' : InFlight(j)' => pendingIssue' = j
      BY <2>1, <3>1 DEF InFlight
    <3>3. pc'[r] = "waiting" /\ awaiting'[r] = pendingIssue'
      BY <1>6 DEF TypeOK
    <3>4. \A q \in Requests : pc'[q] = "waiting" => awaiting'[q] # None
      BY <1>6, <2>1 DEF TypeOK, SessionDiscipline, SharingInv
    <3>. QED  BY <3>2, <3>3, <3>4 DEF SharingInv
  <2>3. GenerationInv'
    BY <1>6, <2>1 DEF SessionDiscipline, GenerationInv, TypeOK
  <2>4. RetryInv'
    <3>1. ASSUME NEW q \in Requests, pc[q] = "waiting"
          PROVE  awaiting[q] \in DOMAIN issues
      BY <3>1 DEF TypeOK, SessionDiscipline, SharingInv
    <3>2. \A q \in Requests, j \in DOMAIN issues : Newer(q, j) => Newer(q, j)'
      BY <2>1 DEF Newer
    <3>3. \A q \in Requests : Newer(q, pendingIssue)'
      BY <2>1 DEF Newer
    <3>. QED
      BY <1>6, <3>1, <3>2, <3>3 DEF SessionDiscipline, RetryInv, TypeOK
  <2>. QED  BY <2>2, <2>3, <2>4 DEF SessionDiscipline
<1>. QED  BY <1>4, <1>5, <1>6, GetTokenLeaseCases

(* A caller that resumes takes the awaited issue away only if that is      *)
(* still the pending one, and gets the lease of a later generation.        *)
LEMMA DisciplineOfResume ==
  ASSUME TypeOK, TypeOK', SessionDiscipline, NEW r \in Requests, Resume(r)
  PROVE  SessionDiscipline'
<1>1. /\ pc[r] = "waiting"
      /\ awaiting[r] \in DOMAIN issues
      /\ ~InFlight(awaiting[r])
  BY DEF Resume, Resumable, SessionDiscipline, SharingInv, TypeOK
<1>2. /\ pendingIssue' = IF pendingIssue = awaiting[r] THEN None ELSE pendingIssue
      /\ UNCHANGED <<clock, cachedLease, generation, issues, awaiting, first,
                      refused>>
  BY DEF Resume, PendingAfterResume
<1>3. \A q \in Requests \ {r} : pc'[q] = pc[q] /\ lease'[q] = lease[q]
  BY DEF Resume, Goto, TypeOK
<1>4. \/ /\ pc'[r] = "sent"
         /\ issues[awaiting[r]].state = "leased"
         /\ lease'[r] = issues[awaiting[r]].lease
      \/ pc'[r] = "ended"
  BY DEF Resume, Goto, TypeOK
<1>5. SharingInv'
  <2>1. \A i \in DOMAIN issues' : InFlight(i)' => pendingIssue' = i
    BY <1>1, <1>2 DEF SessionDiscipline, SharingInv, InFlight
  <2>2. ASSUME pendingIssue' # None
        PROVE  \E q \in Requests : pc'[q] = "waiting" /\ awaiting'[q] = pendingIssue'
    <3>1. pendingIssue' = pendingIssue /\ pendingIssue # awaiting[r]
      BY <1>2, <2>2
    <3>2. PICK q \in Requests : pc[q] = "waiting" /\ awaiting[q] = pendingIssue
      BY <2>2, <3>1 DEF SessionDiscipline, SharingInv
    <3>. QED  BY <1>2, <1>3, <3>1, <3>2
  <2>3. \A q \in Requests : pc'[q] = "waiting" => awaiting'[q] # None
    BY <1>2, <1>3, <1>4 DEF SessionDiscipline, SharingInv
  <2>. QED  BY <2>1, <2>2, <2>3 DEF SharingInv
<1>6. GenerationInv'
  BY <1>1, <1>2, <1>3, <1>4 DEF SessionDiscipline, GenerationInv
<1>7. RetryInv'
  BY <1>1, <1>2, <1>3, <1>4 DEF SessionDiscipline, RetryInv, Newer
<1>. QED  BY <1>5, <1>6, <1>7 DEF SessionDiscipline

(* A refused request finds neither its token nor an older one afterwards:  *)
(* the cache holds a newer one or none, and a pending issue is in flight.  *)
LEMMA DisciplineOfRefuse ==
  ASSUME TypeOK, TypeOK', SessionDiscipline, NEW r \in Requests, Refuse(r)
  PROVE  SessionDiscipline'
<1>1. /\ pc[r] = "sent"
      /\ lease[r] \in Leases
      /\ lease[r].generation <= generation
  BY DEF Refuse, TypeOK, SessionDiscipline, GenerationInv
<1>2. /\ generation \in Nat
      /\ lease[r].generation \in Nat
      /\ \A l \in Leases : l # NoLease
  BY <1>1, SessionAssumption DEF TypeOK, Leases, NoLease
<1>3. /\ cachedLease' \in {cachedLease, NoLease}
      /\ cachedLease' # NoLease => cachedLease.generation # lease[r].generation
      /\ UNCHANGED <<clock, pendingIssue, generation, issues, awaiting, lease>>
  BY DEF Refuse, CachedAfterRefusal
<1>4. \A q \in Requests \ {r} : pc'[q] = pc[q] /\ first'[q] = first[q]
  BY DEF Refuse, Goto, TypeOK
<1>5. \/ pc'[r] = "retrying" /\ first'[r] = lease[r].generation
      \/ pc'[r] = "ended" /\ first'[r] = first[r]
  BY DEF Refuse, Goto, TypeOK
<1>6. SharingInv'
  BY <1>1, <1>3, <1>4, <1>5 DEF SessionDiscipline, SharingInv, InFlight
<1>7. GenerationInv'
  BY <1>1, <1>3, <1>4, <1>5 DEF SessionDiscipline, GenerationInv
<1>8. RetryInv'
  <2>1. cachedLease' # NoLease => cachedLease'.generation > lease[r].generation
    <3>1. cachedLease' # NoLease => cachedLease'.generation = generation
      BY <1>3 DEF SessionDiscipline, GenerationInv
    <3>. QED  BY <1>1, <1>2, <1>3, <3>1
  <2>2. pendingIssue # None => issues[pendingIssue].state # "leased"
    BY DrainedPending DEF Refuse, SessionDiscipline, InFlight
  <2>3. ASSUME NEW q \in Requests \ {r}
        PROVE  /\ pc'[q] = "idle" => first'[q] = 0
               /\ pc'[q] = "retrying" =>
                    /\ cachedLease' # NoLease => cachedLease'.generation > first'[q]
                    /\ pendingIssue' # None => Newer(q, pendingIssue)'
               /\ pc'[q] = "waiting" => Newer(q, awaiting[q])'
               /\ pc'[q] = "sent" => lease'[q].generation > first'[q]
    BY <1>3, <1>4 DEF SessionDiscipline, RetryInv, Newer
  <2>4. pendingIssue' # None => Newer(r, pendingIssue)'
    BY <1>3, <2>2 DEF Newer
  <2>. QED  BY <1>3, <1>5, <2>1, <2>3, <2>4 DEF RetryInv, Newer
<1>. QED  BY <1>6, <1>7, <1>8 DEF SessionDiscipline

(* Every step keeps the discipline.                                        *)
LEMMA DisciplineStep ==
  ASSUME TypeOK, TypeOK', SessionDiscipline, [Next]_vars
  PROVE  SessionDiscipline'
<1>1. CASE UNCHANGED vars
  BY <1>1 DEF vars, client, calls, SessionDiscipline, SharingInv,
              GenerationInv, RetryInv, Newer, InFlight
<1>2. CASE Tick
  BY <1>2 DEF Tick, client, calls, SessionDiscipline, SharingInv,
              GenerationInv, RetryInv, Newer, InFlight
<1>3. ASSUME NEW i \in DOMAIN issues, Grant(i) PROVE SessionDiscipline'
  <2>1. PICK d \in Lifetimes :
          issues' = [issues EXCEPT ![i] =
            [issues[i] EXCEPT !.state = "granted", !.lifetime = d,
                              !.grantedAt = clock]]
    BY <1>3 DEF Grant
  <2>2. clock \in Nat /\ d \in Nat /\ issues[i] \in Issues
    BY SessionAssumption DEF TypeOK
  <2> DEFINE e == [issues[i] EXCEPT !.state = "granted", !.lifetime = d,
                                    !.grantedAt = clock]
  <2>3. e \in Issues /\ e.state = "granted"
    BY <2>2 DEF Issues, IssueStates
  <2>4. InFlight(i)
    BY <1>3 DEF Grant, InFlight
  <2>5. UNCHANGED <<pendingIssue, calls, cachedLease, generation>>
    BY <1>3 DEF Grant, client
  <2>. HIDE DEF e
  <2>6. issues' = [issues EXCEPT ![i] = e]
    BY <2>1 DEF e
  <2>. QED  BY <2>3, <2>4, <2>5, <2>6, DisciplineOfIssue
<1>4. ASSUME NEW i \in DOMAIN issues, CacheToken(i) PROVE SessionDiscipline'
  <2>1. NextLease(i) \in Leases /\ issues[i] \in Issues
    BY NewValuesTyped DEF TypeOK
  <2> DEFINE e == [issues[i] EXCEPT !.state = "leased", !.lease = NextLease(i)]
  <2>2. e \in Issues /\ e.state = "leased" /\ e.lease = NextLease(i)
    BY <2>1 DEF Issues, IssueStates
  <2>3. InFlight(i)
    BY <1>4 DEF CacheToken, InFlight
  <2>4. /\ UNCHANGED <<pendingIssue, calls>>
        /\ generation' = generation + 1
        /\ cachedLease' = NextLease(i)
    BY <1>4 DEF CacheToken
  <2>5. NextLease(i).generation = generation + 1
    BY DEF NextLease
  <2>6. issues' = [issues EXCEPT ![i] = e]
    BY <1>4 DEF CacheToken
  <2>. HIDE DEF e
  <2>. QED  BY <2>1, <2>2, <2>3, <2>4, <2>5, <2>6, DisciplineOfIssue
<1>5. ASSUME NEW i \in DOMAIN issues, FailIssue(i) PROVE SessionDiscipline'
  <2> DEFINE e == [issues[i] EXCEPT !.state = "failed"]
  <2>1. e \in Issues /\ e.state = "failed"
    <3>1. issues[i] \in Issues
      BY DEF TypeOK
    <3>. QED  BY <3>1 DEF Issues, IssueStates
  <2>2. issues' = [issues EXCEPT ![i] = e]
    BY <1>5 DEF FailIssue
  <2>3. InFlight(i) /\ UNCHANGED <<pendingIssue, calls, cachedLease, generation>>
    BY <1>5 DEF FailIssue, client
  <2>. HIDE DEF e
  <2>. QED  BY <2>1, <2>2, <2>3, DisciplineOfIssue
<1>6. ASSUME NEW r \in Requests, Begin(r) PROVE SessionDiscipline'
  BY <1>6, DisciplineOfGet DEF Begin
<1>7. ASSUME NEW r \in Requests, Retry(r) PROVE SessionDiscipline'
  BY <1>7, DisciplineOfGet DEF Retry
<1>8. ASSUME NEW r \in Requests, Resume(r) PROVE SessionDiscipline'
  BY <1>8, DisciplineOfResume
<1>9. ASSUME NEW r \in Requests, Refuse(r) PROVE SessionDiscipline'
  BY <1>9, DisciplineOfRefuse
<1>10. ASSUME NEW r \in Requests, Answer(r) PROVE SessionDiscipline'
  BY <1>10 DEF Answer, Goto, client, TypeOK, SessionDiscipline, SharingInv,
               GenerationInv, RetryInv, Newer, InFlight
<1>. QED
  BY <1>1, <1>2, <1>3, <1>4, <1>5, <1>6, <1>7, <1>8, <1>9, <1>10
  DEF Next, Settle, Proceed

-----------------------------------------------------------------------------
(* Theorems *)

(* The types and the discipline hold in every reachable state: the         *)
(* inductive invariant of the token session.                               *)
THEOREM DisciplineHolds == Spec => [](TypeOK /\ SessionDiscipline)
<1>1. Init => TypeOK /\ SessionDiscipline
  BY TypeInit, DisciplineInit
<1>2. TypeOK /\ SessionDiscipline /\ [Next]_vars => TypeOK' /\ SessionDiscipline'
  BY TypeStep, DisciplineStep
<1>. QED  BY <1>1, <1>2, PTL DEF Spec

(* Every request, the flight, the cache and the clock keep their types:    *)
(* in particular the generation of a token and the number of calls stay    *)
(* within what the session has issued.                                     *)
THEOREM TypesAlways == Spec => []TypeOK
BY DisciplineHolds, PTL

(* However many callers there are, at most one call of the token service   *)
(* is under way (tossOpenApiAuthClient.ts 88-100).                         *)
THEOREM IssuesAreShared == Spec => []SingleFlight
<1>1. TypeOK /\ SessionDiscipline => SingleFlight
  BY DEF SessionDiscipline, SharingInv, SingleFlight
<1>. QED  BY <1>1, DisciplineHolds, PTL

(* An issue that has settled, failed ones included, is found by no caller  *)
(* but those already waiting for it (tossOpenApiAuthClient.ts 96-100).     *)
THEOREM SettledIssuesAreForgotten == Spec => []SettledIssueForgotten
<1>1. TypeOK /\ SessionDiscipline => SettledIssueForgotten
  BY DEF SessionDiscipline, SharingInv, SettledIssueForgotten, Resumable
<1>. QED  BY <1>1, DisciplineHolds, PTL

(* A request refused once is repeated with a token of a later generation   *)
(* only (tossOpenApiReadOnlyHttpClient.ts 107-121).                        *)
THEOREM RetriesUseNewerTokens == Spec => []RetryIsNewer
<1>1. TypeOK /\ SessionDiscipline => RetryIsNewer
  BY DEF SessionDiscipline, RetryInv, RetryIsNewer
<1>. QED  BY <1>1, DisciplineHolds, PTL

-----------------------------------------------------------------------------
(* Leases *)

(* An action that replaces issue i keeps what LeaseInv says of the others. *)
LEMMA LeaseInvOfIssue ==
  ASSUME TypeOK, TypeOK', GenerationInv, LeaseInv, NEW i \in DOMAIN issues,
         Grant(i) \/ Settle(i)
  PROVE  LeaseInv'
<1>0. /\ issues \in Seq(Issues) /\ issues[i] \in Issues /\ clock \in Nat
      /\ generation \in Nat /\ cachedLease \in Leases \cup {NoLease}
      /\ \A j \in DOMAIN issues : issues[j] \in Issues
  BY SessionAssumption DEF TypeOK
<1>1. CASE Grant(i)
  <2>1. PICK d \in Lifetimes :
          issues' = [issues EXCEPT ![i].state = "granted", ![i].lifetime = d,
                                   ![i].grantedAt = clock]
    BY <1>1 DEF Grant
  <2>2. /\ DOMAIN issues' = DOMAIN issues /\ clock' = clock
        /\ UNCHANGED <<cachedLease, generation, refused>>
        /\ \A j \in DOMAIN issues \ {i} : issues'[j] = issues[j]
        /\ issues'[i].state = "granted" /\ issues'[i].grantedAt = clock
        /\ issues'[i].issuedAt = issues[i].issuedAt
        /\ issues'[i].lease = issues[i].lease /\ issues[i].state = "asked"
    BY <1>0, <1>1, <2>1 DEF Grant, client, Issues
  <2>. QED  BY <2>2 DEF LeaseInv
<1>2. CASE FailIssue(i)
  <2>1. /\ DOMAIN issues' = DOMAIN issues /\ clock' = clock
        /\ UNCHANGED <<cachedLease, generation, refused>>
        /\ \A j \in DOMAIN issues \ {i} : issues'[j] = issues[j]
        /\ issues'[i].state = "failed"
        /\ issues'[i].issuedAt = issues[i].issuedAt
        /\ issues'[i].lease = issues[i].lease /\ issues[i].state # "leased"
    BY <1>0, <1>2 DEF FailIssue, InFlight, client, Issues
  <2>. QED  BY <2>1 DEF LeaseInv
<1>3. CASE CacheToken(i)
  <2>1. /\ DOMAIN issues' = DOMAIN issues /\ clock' = clock
        /\ refused' = refused /\ generation' = generation + 1
        /\ cachedLease' = NextLease(i)
        /\ \A j \in DOMAIN issues \ {i} : issues'[j] = issues[j]
        /\ issues'[i].state = "leased"
        /\ issues'[i].issuedAt = issues[i].issuedAt
        /\ issues'[i].lease = NextLease(i) /\ issues[i].state = "granted"
    BY <1>0, <1>3 DEF CacheToken, Issues
  <2>2. /\ NextLease(i).expiresAt = issues[i].issuedAt + issues[i].lifetime
        /\ NextLease(i).validUntil = issues[i].grantedAt + issues[i].lifetime
        /\ {issues[i].issuedAt, issues[i].grantedAt, issues[i].lifetime} \subseteq Nat
    BY <1>0 DEF NextLease, ExpiresAt, Issues
  <2>3. cachedLease'.expiresAt <= cachedLease'.validUntil
    BY <2>1, <2>2 DEF LeaseInv
  <2>4. ASSUME NEW j \in DOMAIN issues \ {i}
        PROVE  issues[j].lease.generation # generation + 1
    <3>1. CASE issues[j].state = "leased"
      BY <1>0, <3>1 DEF GenerationInv, Issues, Leases
    <3>2. CASE issues[j].state # "leased"
      BY <1>0, <3>2 DEF LeaseInv, NoLease
    <3>. QED  BY <3>1, <3>2
  <2>. QED  BY <2>1, <2>3, <2>4 DEF LeaseInv
<1>. QED  BY <1>1, <1>2, <1>3 DEF Settle

(* A token is asked for only where getTokenLease finds no usable lease.    *)
LEMMA IssuesGrowOnly ==
  ASSUME TypeOK, [Next]_vars
  PROVE  \/ DOMAIN issues' = DOMAIN issues
         \/ ~Usable(cachedLease) /\ issues' = Append(issues, NewIssue)
            /\ UNCHANGED <<clock, cachedLease, generation, refused>>
<1>1. CASE UNCHANGED vars
  BY <1>1 DEF vars
<1>2. ASSUME NEW i \in DOMAIN issues, Grant(i) \/ Settle(i)
      PROVE  DOMAIN issues' = DOMAIN issues
  BY <1>2 DEF TypeOK, Grant, Settle, CacheToken, FailIssue
<1>3. CASE Tick \/ \E r \in Requests : Resume(r) \/ Refuse(r) \/ Answer(r)
  BY <1>3 DEF Tick, Resume, Refuse, Answer
<1>4. ASSUME NEW r \in Requests, Begin(r) \/ Retry(r)
      PROVE  \/ issues' = issues
             \/ ~Usable(cachedLease) /\ issues' = Append(issues, NewIssue)
                /\ UNCHANGED <<clock, cachedLease, generation, refused>>
  BY <1>4 DEF Begin, Retry, GetTokenLease
<1>. QED  BY <1>1, <1>2, <1>3, <1>4 DEF Next, Proceed

LEMMA LeaseInvStep ==
  ASSUME TypeOK, TypeOK', GenerationInv, LeaseInv, [Next]_vars
  PROVE  LeaseInv'
<1>0. clock \in Nat /\ issues \in Seq(Issues)
  BY SessionAssumption DEF TypeOK
<1>1. CASE UNCHANGED vars
  BY <1>1 DEF vars, client, LeaseInv
<1>2. ASSUME NEW i \in DOMAIN issues, Grant(i) \/ Settle(i)
      PROVE  LeaseInv'
  BY <1>2, LeaseInvOfIssue
<1>3. CASE Tick
  <2>1. clock' = clock + 1 /\ UNCHANGED <<cachedLease, generation, issues, refused>>
    BY <1>3 DEF Tick, client
  <2>2. \A i \in DOMAIN issues : issues[i].issuedAt \in Nat
    <3>1. \A i \in DOMAIN issues : issues[i] \in Issues
      BY <1>0
    <3>. QED  BY <3>1 DEF Issues
  <2>3. \A i \in DOMAIN issues : issues[i].issuedAt <= clock'
    BY <1>0, <2>1, <2>2 DEF LeaseInv
  <2>. QED  BY <2>1, <2>3 DEF LeaseInv
<1>4. ASSUME NEW r \in Requests, Resume(r) \/ Answer(r)
      PROVE  LeaseInv'
  BY <1>4 DEF Resume, Answer, client, LeaseInv
<1>5. ASSUME NEW r \in Requests, Refuse(r)
      PROVE  LeaseInv'
  <2>1. /\ UNCHANGED <<clock, generation, issues>>
        /\ cachedLease' = CachedAfterRefusal(lease[r].generation)
        /\ refused' = refused \cup {lease[r].generation}
    BY <1>5 DEF Refuse
  <2>. QED  BY <2>1 DEF LeaseInv, CachedAfterRefusal, NoLease
<1>6. ASSUME NEW r \in Requests, Begin(r) \/ Retry(r)
      PROVE  LeaseInv'
  <2>1. UNCHANGED <<clock, cachedLease, generation, refused>>
    BY <1>6 DEF Begin, Retry
  <2>2. CASE issues' = issues
    BY <2>1, <2>2 DEF LeaseInv
  <2>3. CASE issues' = Append(issues, NewIssue)
    <3>1. /\ \A i \in DOMAIN issues' : i \in DOMAIN issues \/ i = Len(issues) + 1
          /\ \A i \in DOMAIN issues : issues'[i] = issues[i]
          /\ issues'[Len(issues) + 1] = NewIssue
      BY <1>0, <2>3
    <3>2. /\ NewIssue.issuedAt = clock /\ NewIssue.state = "asked"
          /\ NewIssue.lease = NoLease /\ NoLease.generation = 0
      BY DEF NewIssue, NoLease
    <3>. QED  BY <1>0, <2>1, <3>1, <3>2 DEF LeaseInv
  <2>. QED  BY <1>6, <2>2, <2>3 DEF Begin, Retry, GetTokenLease
<1>. QED  BY <1>1, <1>2, <1>3, <1>4, <1>5, <1>6 DEF Next, Proceed

LEMMA LeasesHold == Spec => [](TypeOK /\ GenerationInv /\ LeaseInv)
<1>1. Init => LeaseInv
  BY DEF Init, LeaseInv, NoLease
<1>2. TypeOK /\ TypeOK' /\ GenerationInv /\ LeaseInv /\ [Next]_vars => LeaseInv'
  BY LeaseInvStep
<1>. QED  BY <1>1, <1>2, DisciplineHolds, PTL DEF Spec, SessionDiscipline

(* What the client takes from its cache is good for the safety margin by   *)
(* the count of the service, however slow the answer to the issue was      *)
(* (tossOpenApiAuthClient.ts 111-146).                                     *)
THEOREM CacheAlwaysConservative == Spec => []CacheIsConservative
<1>1. TypeOK /\ LeaseInv => CacheIsConservative
  BY SessionAssumption
     DEF TypeOK, LeaseInv, CacheIsConservative, Usable, Leases
<1>. QED  BY <1>1, LeasesHold, PTL

(* A token is asked for only when the newest one was refused or has        *)
(* reached its margin, in whatever order refusals of several generations   *)
(* arrive (tossOpenApiAuthClient.ts 82-109).                               *)
THEOREM IssuesAreJustified == Spec => IssueJustified
<1>1. ASSUME TypeOK, LeaseInv, [Next]_vars
      PROVE  [Len(issues') > Len(issues) =>
                \A i \in DOMAIN issues :
                  issues[i].lease.generation = generation /\ generation # 0
                    => generation \in refused \/ ~Usable(issues[i].lease)]_vars
  <2>1. DOMAIN issues' = DOMAIN issues => ~(Len(issues') > Len(issues))
    BY <1>1 DEF TypeOK
  <2>2. ~Usable(cachedLease) =>
          \A i \in DOMAIN issues :
            issues[i].lease.generation = generation /\ generation # 0
              => generation \in refused \/ ~Usable(issues[i].lease)
    BY <1>1 DEF LeaseInv
  <2>. QED  BY <1>1, <2>1, <2>2, IssuesGrowOnly
<1>. QED  BY <1>1, LeasesHold, PTL DEF Spec, IssueJustified
=============================================================================
