--------------------------- MODULE ProviderProofs ---------------------------
(***************************************************************************)
(* Proofs about Provider, for any number of jobs, retries and calls: what  *)
(* InvestigationProofs shows holds as well when each answer of the         *)
(* provider is many steps, and a provider is asked only for a job that     *)
(* waits for it, at most MaxRetries + 1 times.                             *)
(***************************************************************************)
EXTENDS Provider, InvestigationProofs

\* Where the call of a job can stand: the attempts that can still fail are
\* counted from 1, and a backoff is followed by one more.
Standing ==
  [at : {"idle"}, attempt : {0}]
    \cup [at : {"headers", "body", "answered"}, attempt : 1..(MaxRetries + 1)]
    \cup [at : {"backoff"}, attempt : 1..MaxRetries]
    \cup [at : {"mock", "mocked"}, attempt : 0..(MaxRetries + 1)]

CallInv ==
  /\ provider \in [Job -> Standing]
  /\ \A j \in Job : provider[j] # NotAsked => InStep(j, "progress")

ProviderInv == InvestigationInv /\ CallInv

-----------------------------------------------------------------------------
\* A job in a step that is not "progress" has no call of a provider.
LEMMA OnlyWhileWaiting ==
  ASSUME CallInv, NEW j \in Job, ~InStep(j, "progress")
  PROVE  provider[j] = NotAsked
BY DEF CallInv

\* A job whose call stands at "idle" has asked no provider.
LEMMA IdleIsNotAsked ==
  ASSUME CallInv, NEW j \in Job, provider[j].at = "idle"
  PROVE  provider[j] = NotAsked
BY DEF CallInv, Standing, NotAsked

\* The calls stand while jobs that wait for a provider go on waiting.
LEMMA CallsStand ==
  ASSUME CallInv, UNCHANGED provider,
         \A j \in Job : provider[j] # NotAsked /\ InStep(j, "progress") => InStep(j, "progress")'
  PROVE  CallInv'
BY DEF CallInv

\* The call of one job moves on, while the job waits or forgets it.
LEMMA CallMoves ==
  ASSUME CallInv, NEW j \in Job, NEW p \in Standing,
         provider' = [provider EXCEPT ![j] = p],
         p # NotAsked => InStep(j, "progress")',
         \A k \in Job \ {j} : InStep(k, "progress") => InStep(k, "progress")'
  PROVE  CallInv'
BY DEF CallInv

\* The other jobs stay in their steps when one job moves.
LEMMA OthersStay ==
  ASSUME NEW j \in Job, JobAlone(j), NEW k \in Job \ {j}, NEW s, InStep(k, s)
  PROVE  InStep(k, s)'
BY DEF JobAlone, InStep

\* A call moves by a change of where it stands.
LEMMA GoesTo ==
  ASSUME CallInv, NEW j \in Job, NEW at, Goes(j, at)
  PROVE  provider' = [provider EXCEPT ![j] = [at |-> at, attempt |-> provider[j].attempt]]
<1>1. PICK p : p = provider[j]
  OBVIOUS
<1>2. p \in Standing
  BY <1>1 DEF CallInv
<1>3. p = [at |-> p.at, attempt |-> p.attempt]
  BY <1>2 DEF Standing
<1>4. [p EXCEPT !.at = at] = [at |-> at, attempt |-> p.attempt]
  BY <1>3
<1>5. provider' = [provider EXCEPT ![j] = [p EXCEPT !.at = at]]
  BY <1>1 DEF Goes, CallInv
<1> QED  BY <1>1, <1>4, <1>5

\* A failed attempt is followed by a backoff or by the built-in provider.
LEMMA FailedMoves ==
  ASSUME CallInv, NEW j \in Job, provider[j].at \in {"headers", "body"}, Failed(j)
  PROVE  \E p \in Standing : provider' = [provider EXCEPT ![j] = p]
<1>1. PICK p : p = provider[j]
  OBVIOUS
<1>2. p \in [at : {"headers", "body"}, attempt : 1..(MaxRetries + 1)]
  BY <1>1 DEF CallInv, Standing
<1>3. CASE p.attempt <= MaxRetries
  <2>1. provider' = [provider EXCEPT ![j] = [at |-> "backoff", attempt |-> p.attempt]]
    BY <1>1, <1>3, GoesTo DEF Failed
  <2>2. [at |-> "backoff", attempt |-> p.attempt] \in Standing
    BY <1>2, <1>3, RetriesAssumption DEF Standing
  <2> QED  BY <2>1, <2>2
<1>4. CASE ~(p.attempt <= MaxRetries)
  <2>1. provider' = [provider EXCEPT ![j] = [at |-> "mock", attempt |-> p.attempt]]
    BY <1>1, <1>4, GoesTo DEF Failed
  <2>2. [at |-> "mock", attempt |-> p.attempt] \in Standing
    BY <1>2, RetriesAssumption DEF Standing
  <2> QED  BY <2>1, <2>2
<1> QED  BY <1>3, <1>4

\* A call goes on in place, with its attempt.
LEMMA GoesMoves ==
  ASSUME CallInv, NEW j \in Job, NEW at, Goes(j, at),
         \/ provider[j].at \in {"headers", "body"} /\ at \in {"body", "answered"}
         \/ provider[j].at = "mock" /\ at = "mocked"
  PROVE  \E p \in Standing : provider' = [provider EXCEPT ![j] = p]
<1>1. PICK p : p = provider[j]
  OBVIOUS
<1>2. provider' = [provider EXCEPT ![j] = [at |-> at, attempt |-> p.attempt]]
  BY <1>1, GoesTo
<1>3. [at |-> at, attempt |-> p.attempt] \in Standing
  BY <1>1 DEF CallInv, Standing
<1> QED  BY <1>2, <1>3

-----------------------------------------------------------------------------
\* A step of the call that leaves everything else alone.
LEMMA CallStep ==
  ASSUME ProviderInv, NEW j \in Job, NEW p \in Standing, InStep(j, "progress"),
         provider' = [provider EXCEPT ![j] = p], UNCHANGED allVars
  PROVE  ProviderInv'
<1>1. InvestigationInv'
  BY InvNext DEF ProviderInv
<1>2. \A k \in Job : InStep(k, "progress") => InStep(k, "progress")'
  BY DEF InStep, allVars, aiVars
<1> QED  BY <1>1, <1>2, CallMoves DEF ProviderInv

\* The job saves its progress, and the provider is chosen.
LEMMA ConsultStep ==
  ASSUME ProviderInv, NEW j \in Job, Consult(j)
  PROVE  ProviderInv'
<1>1. /\ j \in DOMAIN jobs /\ Running(j) /\ Stored(jobs[j].inv, Assigned(j))
      /\ JobGoesOn(j, "progress", Saved(jobs[j].wanted), Saved(jobs[j].wanted))
      /\ UNCHANGED <<vars, revision, tasks, executed>>
  BY DEF Consult, Waits, InStep, Running, Over
<1>2. /\ Sound(jobs[j].inv, Saved(jobs[j].wanted))
      /\ Work(investigations'[jobs[j].inv], Saved(jobs[j].wanted), Saved(jobs[j].wanted))
  BY <1>1, StoredStep DEF vars, ProviderInv
<1>3. "progress" \in JobStepName
  BY DEF JobStepName
<1>4. InvestigationInv'
  BY <1>1, <1>2, <1>3, SavedStep DEF ProviderInv
<1>5. JobAlone(j) /\ InStep(j, "progress")'
  BY <1>1, JobMoves DEF InStep, JobAlone
<1>6. PICK key \in UsesKey : provider' = [provider EXCEPT ![j] = getProvider(key)]
  BY DEF Consult
<1>7. getProvider(key) \in Standing
  BY RetriesAssumption DEF getProvider, Standing
<1>8. CallInv'
  BY <1>5, <1>6, <1>7, OthersStay, CallMoves DEF ProviderInv
<1> QED  BY <1>4, <1>8 DEF ProviderInv

\* Asking the provider moves one job out of "progress".
LEMMA AskMoves ==
  ASSUME NEW j \in Job, AskProvider(j)
  PROVE  JobAlone(j)
BY JobFrame DEF JobStep

\* Gathering the context fails before a provider is asked.
LEMMA GiveUpStep ==
  ASSUME ProviderInv, NEW j \in Job, GiveUp(j)
  PROVE  ProviderInv'
<1>1. AskProvider(j) /\ provider[j] = NotAsked /\ UNCHANGED provider
  BY IdleIsNotAsked DEF GiveUp, Waits, ProviderInv
<1>2. InvestigationInv'
  BY <1>1, AskProviderStep DEF ProviderInv
<1>3. CallInv'
  BY <1>1, AskMoves, OthersStay, CallsStand DEF ProviderInv
<1> QED  BY <1>2, <1>3 DEF ProviderInv

\* The answer is taken over, and the call is over.
LEMMA TakeAnswerStep ==
  ASSUME ProviderInv, NEW j \in Job, TakeAnswer(j)
  PROVE  ProviderInv'
<1>1. AskProvider(j) /\ provider' = [provider EXCEPT ![j] = NotAsked]
  BY DEF TakeAnswer
<1>2. InvestigationInv'
  BY <1>1, AskProviderStep DEF ProviderInv
<1>3. NotAsked \in Standing
  BY DEF NotAsked, Standing
<1>4. CallInv'
  BY <1>1, <1>3, AskMoves, OthersStay, CallMoves DEF ProviderInv
<1> QED  BY <1>2, <1>4 DEF ProviderInv

\* The backoff ends, and the next attempt is counted.
LEMMA RetryStep ==
  ASSUME ProviderInv, NEW j \in Job, Retry(j)
  PROVE  ProviderInv'
<1>1. PICK p : p = provider[j]
  OBVIOUS
<1>2. InStep(j, "progress") /\ p \in [at : {"backoff"}, attempt : 1..MaxRetries]
  BY <1>1 DEF Retry, Waits, ProviderInv, CallInv, Standing
<1>3. provider' = [provider EXCEPT ![j] = [at |-> "headers", attempt |-> p.attempt + 1]]
  BY <1>1 DEF Retry, NextAttempt, ProviderInv, CallInv
<1>4. [at |-> "headers", attempt |-> p.attempt + 1] \in Standing
  BY <1>2, RetriesAssumption DEF Standing
<1> QED  BY <1>2, <1>3, <1>4, CallStep DEF Retry

\* Headers, body and fallback move the call within its attempt.
LEMMA AnswerStep ==
  ASSUME ProviderInv, NEW j \in Job, ReadHeaders(j) \/ ReadBody(j) \/ Mock(j)
  PROVE  ProviderInv'
<1>1. InStep(j, "progress") /\ UNCHANGED allVars
  BY DEF ReadHeaders, ReadBody, Mock, Waits
<1>2. \E p \in Standing : provider' = [provider EXCEPT ![j] = p]
  <2>1. CASE ReadHeaders(j)
    BY <2>1, FailedMoves, GoesMoves DEF ReadHeaders, Waits, ProviderInv
  <2>2. CASE ReadBody(j)
    BY <2>2, FailedMoves, GoesMoves DEF ReadBody, Parse, Waits, ProviderInv
  <2>3. CASE Mock(j)
    BY <2>3, GoesMoves DEF Mock, Waits, ProviderInv
  <2> QED  BY <2>1, <2>2, <2>3
<1> QED  BY <1>1, <1>2, CallStep

\* The other steps of a job are taken before or after it waits.
LEMMA RestStep ==
  ASSUME ProviderInv, NEW j \in Job, RestOfJob(j)
  PROVE  ProviderInv'
<1>1. InvestigationInv'
  BY TakeJobStep, FailToLoadStep, MarkRunningStep, FinishStep, AuditOutcomeStep, AbortStep
     DEF RestOfJob, ProviderInv
<1>2. ~InStep(j, "progress") /\ j \in DOMAIN jobs
  BY DEF RestOfJob, TakeJob, FailToLoad, MarkRunning, Finish, AuditOutcome, Abort, InStep
<1>3. JobAlone(j)
  BY JobFrame DEF RestOfJob, JobStep
<1>4. CallInv'
  BY <1>2, <1>3, OthersStay, CallsStand DEF ProviderInv, RestOfJob
<1> QED  BY <1>1, <1>4 DEF ProviderInv

\* A handler starts jobs and changes none.
LEMMA HandlerKeepsJobs ==
  ASSUME NEW r \in Request, BeginAny(r) \/ AIStep(r) \/ Fail(r), NEW k \in DOMAIN jobs
  PROVE  k \in DOMAIN jobs' /\ jobs'[k] = jobs[k]
<1>1. CASE UNCHANGED jobs
  BY <1>1
<1>2. ASSUME NEW j \in Job, NEW v, Dispatch(j, v)
      PROVE  k \in DOMAIN jobs' /\ jobs'[k] = jobs[k]
  <2>1. k # j
    BY <1>2 DEF Dispatch
  <2> QED  BY <1>2, <2>1 DEF Dispatch
<1>3. CASE BeginAny(r)
  BY <1>1, <1>3 DEF BeginAny, BeginReview, Review, Investigate, aiVars
<1>4. CASE Fail(r)
  BY <1>1, <1>4 DEF Fail, aiVars
<1>5. CASE AIStep(r)
  <2>1. CASE Lookup(r)
    BY <1>1, <1>2, <2>1 DEF Lookup
  <2>2. CASE Enqueue(r)
    BY <1>2, <2>2 DEF Enqueue
  <2>3. CASE MarkExecuted(r) \/ MarkRejected(r)
    BY <1>1, <2>3 DEF MarkExecuted, MarkRejected, Decide
  <2>4. ASSUME NEW v \in Investigation, RecordInvestigation(r, v) PROVE UNCHANGED jobs
    BY <2>4 DEF RecordInvestigation
  <2>5. ASSUME NEW c \in writes[r], SaveIncident(r, c) PROVE UNCHANGED jobs
    BY <2>5 DEF SaveIncident
  <2>6. CASE Announce(r) /\ UNCHANGED aiVars
    BY <1>1, <2>6 DEF aiVars
  <2>7. CASE Approve(r) \/ Execute(r) \/ LookForTask(r) \/ CreateTask(r) \/ Reject(r)
    BY <1>1, <2>7 DEF Approve, Execute, LookForTask, CreateTask, Reject, aiVars
  <2> QED  BY <1>1, <1>5, <2>1, <2>2, <2>3, <2>4, <2>5, <2>6, <2>7 DEF AIStep
<1> QED  BY <1>3, <1>4, <1>5

-----------------------------------------------------------------------------
\* No provider has been asked at first.
LEMMA ProviderInvInit == ProviderInit => ProviderInv
<1> SUFFICES ASSUME ProviderInit PROVE ProviderInv
  OBVIOUS
<1>1. InvestigationInv
  BY InvInit DEF ProviderInit
<1>2. NotAsked \in Standing
  BY DEF NotAsked, Standing
<1> QED  BY <1>1, <1>2 DEF ProviderInit, ProviderInv, CallInv

\* Every step keeps the invariant.
LEMMA ProviderInvNext ==
  ASSUME ProviderInv, [ProviderNext]_providerVars
  PROVE  ProviderInv'
<1>1. CASE UNCHANGED providerVars
  <2>1. InvestigationInv'
    BY <1>1, InvNext DEF ProviderInv, providerVars
  <2>2. CallInv'
    BY <1>1 DEF ProviderInv, CallInv, InStep, providerVars, allVars, aiVars
  <2> QED  BY <2>1, <2>2 DEF ProviderInv
<1>2. CASE CrashOnce
  <2>1. InvestigationInv'
    BY <1>2, CrashStep DEF ProviderInv, CrashOnce
  <2>2. NotAsked \in Standing
    BY DEF NotAsked, Standing
  <2> QED  BY <1>2, <2>1, <2>2 DEF CrashOnce, CallInv, ProviderInv
<1>3. ASSUME NEW r \in Request, BeginAny(r) \/ AIStep(r) \/ Fail(r), UNCHANGED provider
      PROVE  ProviderInv'
  <2>1. InvestigationInv'
    BY <1>3, InvNext DEF NextAI, ProviderInv
  <2>2. CallInv'
    BY <1>3, HandlerKeepsJobs, CallsStand DEF ProviderInv, InStep
  <2> QED  BY <2>1, <2>2 DEF ProviderInv
<1>4. ASSUME NEW j \in Job, CallProvider(j) PROVE ProviderInv'
  BY <1>4, ConsultStep, GiveUpStep, AnswerStep, RetryStep, TakeAnswerStep DEF CallProvider
<1>5. ASSUME NEW j \in Job, RestOfJob(j) PROVE ProviderInv'
  BY <1>5, RestStep
<1> QED  BY <1>1, <1>2, <1>3, <1>4, <1>5 DEF ProviderNext

\* The many steps of a provider's answer, its retries and its fallback leave
\* the investigations, jobs and reviews as sound as one answer does.
THEOREM InvestigationsSoundWithProvider == ProviderSpec => []InvestigationInv
<1>1. ProviderSpec => []ProviderInv
  BY ProviderInvInit, ProviderInvNext, PTL DEF ProviderSpec
<1>2. ProviderInv => InvestigationInv
  BY DEF ProviderInv
<1> QED  BY <1>1, <1>2, PTL

\* The attempts are counted, never more than MaxRetries + 1, and a provider is
\* asked only on behalf of a job that waits for it.
THEOREM ProviderTypeCorrect == ProviderSpec => []ProviderTypeOK
<1>1. ProviderSpec => []ProviderInv
  BY ProviderInvInit, ProviderInvNext, PTL DEF ProviderSpec
<1>2. ProviderInv => ProviderTypeOK
  <2> SUFFICES ASSUME ProviderInv, NEW j \in Job
               PROVE  /\ provider[j].at \in {"idle", "headers", "body", "backoff",
                                             "mock", "mocked", "answered"}
                      /\ provider[j].attempt \in 0..(MaxRetries + 1)
                      /\ provider[j] # NotAsked => InStep(j, "progress")
    BY DEF ProviderTypeOK
  <2> QED  BY RetriesAssumption DEF ProviderInv, CallInv, Standing
<1> QED  BY <1>1, <1>2, PTL
=============================================================================
