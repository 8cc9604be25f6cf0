---------------------------- MODULE TossSession ----------------------------
(***************************************************************************)
(* The bearer-token session of the Toss Open API clients: one cached lease,*)
(* one shared pending issue, and requests that are sent again once after a *)
(* refreshable 401.  Everything runs in one event loop, so a step is the   *)
(* code between two awaits; the token service and the API answer whenever  *)
(* they like, or fail (a network error, the 10 s deadline, a malformed     *)
(* answer).                                                                *)
(***************************************************************************)
EXTENDS Naturals, Sequences, FiniteSets

CONSTANTS
  Requests,       \* calls of requestJson or getCalendar
  Lifetimes,      \* values of expires_in, in ticks
  SafetyMargin,   \* expirySafetyMarginMs, in ticks
  MaxGeneration,  \* Number.MAX_SAFE_INTEGER
  MaxClock,       \* bound: the clock stops here
  None

ASSUME SessionAssumption ==
  /\ Lifetimes \subseteq Nat \ {0}
  /\ {SafetyMargin, MaxGeneration, MaxClock} \subseteq Nat
  /\ None \notin Nat

VARIABLES
  clock,
  cachedLease, pendingIssue, generation,  \* fields of TossOpenApiAuthClient
  issues,         \* every call of issueAndCacheToken, in order
  pc,
  awaiting,       \* the issue whose promise a request awaits
  lease,          \* the lease a request was sent with last
  first,          \* generation refused at the first attempt, 0 before
  refused         \* history: generations the API has refused

client == <<cachedLease, pendingIssue, generation>>
calls == <<pc, awaiting, lease, first>>
vars == <<clock, client, issues, calls, refused>>

-----------------------------------------------------------------------------
Leases == [generation : Nat \ {0}, expiresAt : Nat, validUntil : Nat]
NoLease == [generation |-> 0, expiresAt |-> 0, validUntil |-> 0]
IssueStates == {"asked", "granted", "leased", "failed"}

Goto(r, there) == pc' = [pc EXCEPT ![r] = there]

Usable(l) == l # NoLease /\ clock + SafetyMargin < l.expiresAt

InFlight(i) == issues[i].state \in {"asked", "granted"}

(* Defect: only the promise that is still pending resumes those awaiting.  *)
ResumableIfPending(r) ==
  pc[r] = "waiting" /\ ~InFlight(awaiting[r]) /\ pendingIssue = awaiting[r]

Resumable(r) == pc[r] = "waiting" /\ ~InFlight(awaiting[r])

(* The continuations of a settled promise are queued at once, and so run   *)
(* before the answer to anything that is sent after it settled.            *)
Drained == \A r \in Requests : ~Resumable(r)

-----------------------------------------------------------------------------
(* TossOpenApiAuthClient *)

NewIssue == [state |-> "asked", issuedAt |-> clock, grantedAt |-> 0,
             lifetime |-> 0, lease |-> NoLease]

GetTokenLease(r) ==
  \/ /\ Usable(cachedLease)
     /\ lease' = [lease EXCEPT ![r] = cachedLease]
     /\ Goto(r, "sent")
     /\ UNCHANGED <<pendingIssue, issues, awaiting>>
  \/ /\ ~Usable(cachedLease)
     /\ issues' = IF pendingIssue = None THEN Append(issues, NewIssue)
                  ELSE issues
     /\ pendingIssue' = IF pendingIssue = None THEN Len(issues')
                        ELSE pendingIssue
     /\ awaiting' = [awaiting EXCEPT ![r] = pendingIssue']
     /\ Goto(r, "waiting")
     /\ UNCHANGED lease

(* Defect: whoever resumes clears the pending issue, old or new.           *)
PendingAfterAnyResume(r) == None

(* Defect: a failed issue stays pending.                                   *)
PendingAfterSuccess(r) ==
  IF pendingIssue = awaiting[r] /\ issues[awaiting[r]].state = "leased"
  THEN None ELSE pendingIssue

PendingAfterResume(r) ==
  IF pendingIssue = awaiting[r] THEN None ELSE pendingIssue

Resume(r) ==
  /\ Resumable(r)
  /\ pendingIssue' = PendingAfterResume(r)
  /\ \/ /\ issues[awaiting[r]].state = "leased"
        /\ lease' = [lease EXCEPT ![r] = issues[awaiting[r]].lease]
        /\ Goto(r, "sent")
     \/ /\ issues[awaiting[r]].state = "failed"
        /\ Goto(r, "ended")
        /\ UNCHANGED lease
  /\ UNCHANGED <<clock, cachedLease, generation, issues, awaiting, first,
                 refused>>

(* Defect: the cached lease is dropped whatever generation was refused.    *)
CachedAfterAnyRefusal(g) == NoLease

(* Defect: a refusal leaves the cached lease alone.                        *)
CachedDespiteRefusal(g) == cachedLease

CachedAfterRefusal(g) ==
  IF cachedLease.generation = g THEN NoLease ELSE cachedLease

(* Defect: the lifetime is counted from the answer of the token service.   *)
ExpiresAtFromAnswer(i) == clock + issues[i].lifetime

ExpiresAt(i) == issues[i].issuedAt + issues[i].lifetime

NextLease(i) ==
  [generation |-> generation + 1,
   expiresAt |-> ExpiresAt(i),
   validUntil |-> issues[i].grantedAt + issues[i].lifetime]

(* nextGeneration throws otherwise.                                        *)
GenerationLeft == generation < MaxGeneration

(* The rest of issueAndCacheToken, when the token answer is there.         *)
CacheToken(i) ==
  /\ Drained
  /\ issues[i].state = "granted"
  /\ GenerationLeft
  /\ generation' = generation + 1
  /\ cachedLease' = NextLease(i)
  /\ issues' = [issues EXCEPT ![i].state = "leased", ![i].lease = NextLease(i)]
  /\ UNCHANGED <<clock, pendingIssue, calls, refused>>

FailIssue(i) ==
  /\ Drained
  /\ InFlight(i)
  /\ issues' = [issues EXCEPT ![i].state = "failed"]
  /\ UNCHANGED <<clock, client, calls, refused>>

-----------------------------------------------------------------------------
(* requestJson and getCalendar *)

Begin(r) ==
  /\ pc[r] = "idle"
  /\ GetTokenLease(r)
  /\ UNCHANGED <<clock, cachedLease, generation, first, refused>>

(* A refreshable 401: the lease is dropped, and the first one is followed  *)
(* by a second attempt.                                                    *)
Refuse(r) ==
  /\ Drained
  /\ pc[r] = "sent"
  /\ cachedLease' = CachedAfterRefusal(lease[r].generation)
  /\ refused' = refused \cup {lease[r].generation}
  /\ \/ /\ first[r] = 0
        /\ first' = [first EXCEPT ![r] = lease[r].generation]
        /\ Goto(r, "retrying")
     \/ /\ first[r] # 0
        /\ Goto(r, "ended")
        /\ UNCHANGED first
  /\ UNCHANGED <<clock, pendingIssue, generation, issues, awaiting, lease>>

Retry(r) ==
  /\ pc[r] = "retrying"
  /\ GetTokenLease(r)
  /\ UNCHANGED <<clock, cachedLease, generation, first, refused>>

(* Any other answer of the API, or a failure of the transport.             *)
Answer(r) ==
  /\ Drained
  /\ pc[r] = "sent"
  /\ Goto(r, "ended")
  /\ UNCHANGED <<clock, client, issues, awaiting, lease, first, refused>>

-----------------------------------------------------------------------------
(* The token service and time *)

Grant(i) ==
  /\ issues[i].state = "asked"
  /\ \E d \in Lifetimes :
       issues' = [issues EXCEPT ![i].state = "granted", ![i].lifetime = d,
                                ![i].grantedAt = clock]
  /\ UNCHANGED <<clock, client, calls, refused>>

Tick ==
  /\ clock < MaxClock
  /\ clock' = clock + 1
  /\ UNCHANGED <<client, issues, calls, refused>>

-----------------------------------------------------------------------------
Init ==
  /\ clock = 0
  /\ cachedLease = NoLease /\ pendingIssue = None /\ generation = 0
  /\ issues = <<>>
  /\ pc = [r \in Requests |-> "idle"]
  /\ awaiting = [r \in Requests |-> None]
  /\ lease = [r \in Requests |-> NoLease]
  /\ first = [r \in Requests |-> 0]
  /\ refused = {}

Settle(i) == CacheToken(i) \/ FailIssue(i)
Proceed(r) == Resume(r) \/ Refuse(r) \/ Retry(r) \/ Answer(r)

Next ==
  \/ Tick
  \/ \E i \in DOMAIN issues : Grant(i) \/ Settle(i)
  \/ \E r \in Requests : Begin(r) \/ Proceed(r)

(* Both transports end every exchange at a deadline of 10 s, and the event *)
(* loop runs every continuation.  Nobody has to begin a request, and the   *)
(* token service need not grant anything.                                  *)
Fairness ==
  /\ \A r \in Requests : WF_vars(Proceed(r))
  /\ WF_vars(\E i \in DOMAIN issues : Settle(i))

Spec == Init /\ [][Next]_vars /\ Fairness

-----------------------------------------------------------------------------
(* Type invariant *)

Issues == [state : IssueStates, issuedAt : Nat, grantedAt : Nat,
           lifetime : Nat, lease : Leases \cup {NoLease}]

TypeOK ==
  /\ clock \in 0..MaxClock
  /\ cachedLease \in Leases \cup {NoLease}
  /\ pendingIssue \in DOMAIN issues \cup {None}
  /\ generation \in 0..MaxGeneration
  /\ issues \in Seq(Issues)
  /\ pc \in [Requests -> {"idle", "waiting", "sent", "retrying", "ended"}]
  /\ awaiting \in [Requests -> DOMAIN issues \cup {None}]
  /\ lease \in [Requests -> Leases \cup {NoLease}]
  /\ first \in [Requests -> Nat]
  /\ refused \subseteq Nat

-----------------------------------------------------------------------------
(* Properties *)

(* Concurrent callers share one call of the token service: a caller that   *)
(* resumes late must not clear the issue a later caller has started        *)
(* (tossOpenApiAuthClient.ts 96-100).                                      *)
SingleFlight ==
  \A i, j \in DOMAIN issues : InFlight(i) /\ InFlight(j) => i = j

(* A settled issue, above all a failed one, is handed out only until the   *)
(* callers that awaited it have resumed: no later request finds it.        *)
SettledIssueForgotten ==
  pendingIssue # None /\ ~InFlight(pendingIssue)
    => \E r \in Requests : Resumable(r) /\ awaiting[r] = pendingIssue

(* The second attempt goes out with a token issued after the refused one,  *)
(* however its own issue and those of other requests are interleaved.      *)
RetryIsNewer ==
  \A r \in Requests : pc[r] = "sent" /\ first[r] # 0
                        => lease[r].generation > first[r]

(* Expiry counted from before the token was asked for is never later than  *)
(* the expiry the service counts: what the client takes from its cache     *)
(* stays good for the safety margin.                                       *)
CacheIsConservative ==
  Usable(cachedLease) => clock + SafetyMargin < cachedLease.validUntil

(* Only the pending issue is in flight, and somebody awaits it.            *)
SharingInv ==
  /\ \A i \in DOMAIN issues : InFlight(i) => pendingIssue = i
  /\ pendingIssue # None =>
       \E r \in Requests : pc[r] = "waiting" /\ awaiting[r] = pendingIssue
  /\ \A r \in Requests : pc[r] = "waiting" => awaiting[r] # None

(* Generations in use are those given out, newest in the cache.            *)
GenerationInv ==
  /\ cachedLease # NoLease => cachedLease.generation = generation
  /\ \A i \in DOMAIN issues : issues[i].state = "leased" =>
       issues[i].lease # NoLease /\ issues[i].lease.generation <= generation
  /\ \A r \in Requests :
       /\ pc[r] = "sent" =>
            lease[r] # NoLease /\ lease[r].generation <= generation
       /\ first[r] <= generation

(* Nothing that a request may still be given carries the refused token.    *)
Newer(r, i) ==
  issues[i].state = "leased" => issues[i].lease.generation > first[r]

RetryInv ==
  \A r \in Requests :
    /\ pc[r] = "idle" => first[r] = 0
    /\ pc[r] = "retrying" =>
         /\ cachedLease # NoLease => cachedLease.generation > first[r]
         /\ pendingIssue # None => Newer(r, pendingIssue)
    /\ pc[r] = "waiting" => Newer(r, awaiting[r])
    /\ pc[r] = "sent" => lease[r].generation > first[r]

(* The strengthening under which the sharing and the retry are inductive   *)
(* (tossOpenApiAuthClient.ts 82-132, tossOpenApiReadOnlyHttpClient.ts      *)
(* 107-140).                                                               *)
SessionDiscipline == SharingInv /\ GenerationInv /\ RetryInv

(* What the cached lease and the issues say of time, and where the newest  *)
(* lease is: in the cache, unless it was refused.                          *)
LeaseInv ==
  /\ cachedLease.expiresAt <= cachedLease.validUntil
  /\ \A i \in DOMAIN issues :
       /\ issues[i].issuedAt <= clock
       /\ issues[i].state = "granted" =>
            issues[i].issuedAt <= issues[i].grantedAt
       /\ issues[i].state # "leased" => issues[i].lease = NoLease
       /\ issues[i].lease.generation = generation /\ generation # 0 =>
            cachedLease = issues[i].lease \/ generation \in refused

(* A token is asked for only when the newest one was refused or has        *)
(* reached its margin: a late refusal of an older token costs nothing      *)
(* ("staggered refreshable 401 responses preserve the newer token lease"). *)
IssueJustified ==
  [][Len(issues') > Len(issues) =>
       \A i \in DOMAIN issues :
         issues[i].lease.generation = generation /\ generation # 0
           => generation \in refused \/ ~Usable(issues[i].lease)]_vars

(* Every request that has begun ends, also when it awaits an issue that    *)
(* another request started and that fails.                                 *)
EveryRequestEnds ==
  \A r \in Requests : pc[r] # "idle" ~> pc[r] = "ended"
=============================================================================
