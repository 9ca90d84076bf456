------------------------------ MODULE Provider ------------------------------
(***************************************************************************)
(* The call of the AI provider inside a job of Investigation: the context  *)
(* is gathered, OpenRouter is asked up to MaxRetries + 1 times with a      *)
(* timeout and a backoff, and the built-in provider answers when there is  *)
(* no key or no attempt succeeded.  The job holds its slot of the worker   *)
(* all the while, and the process may die once under each job.             *)
(***************************************************************************)
EXTENDS Investigation

CONSTANTS
  MaxRetries,  \* maxRetries of OpenRouterProvider
  UsesKey      \* whether OpenRouter is configured and has a key: the values of
               \* this instance, as a restart may change it

ASSUME RetriesAssumption == MaxRetries \in Nat
ASSUME KeyAssumption     == UsesKey \subseteq BOOLEAN

VARIABLE
  provider  \* provider[j]: where the call of job j stands, and its attempt

providerVars == <<allVars, provider>>

NotAsked == [at |-> "idle", attempt |-> 0]
Waits(j, at) == InStep(j, "progress") /\ provider[j].at = at
Goes(j, at)  == provider' = [provider EXCEPT ![j].at = at]

-----------------------------------------------------------------------------
\* getProvider, and the first test of OpenRouterProvider: without a key the
\* built-in provider answers at once.
getProvider(key) == IF key THEN [at |-> "headers", attempt |-> 1]
                    ELSE [at |-> "mock", attempt |-> 0]

\* The progress up to 'reasoning' is saved, and the provider asked.  The copy
\* does not change but for its version.
Consult(j) ==
  LET copy == Saved(jobs[j].wanted) IN
  /\ Waits(j, "idle")
  /\ Stored(jobs[j].inv, Assigned(j))
  /\ JobGoesOn(j, "progress", copy, copy)
  /\ \E key \in UsesKey : provider' = [provider EXCEPT ![j] = getProvider(key)]
  /\ UNCHANGED <<vars, revision, tasks, executed>>

\* gatherContext or one of the saves before the call fails, the first of them too.
GiveUp(j) ==
  /\ Waits(j, "idle")
  /\ AskProvider(j)
  /\ jobs'[j].step = "abort"
  /\ UNCHANGED provider

\* Mistake: one attempt too many.
FailedOnceMore(j) ==
  Goes(j, IF provider[j].attempt <= MaxRetries + 1 THEN "backoff" ELSE "mock")

\* The catch of the loop: a pause before the next attempt, or the fallback.
Failed(j) == Goes(j, IF provider[j].attempt <= MaxRetries THEN "backoff" ELSE "mock")

\* The headers arrive, or the attempt fails: no connection, the timeout of 18
\* seconds, too many requests, a server error.
ReadHeaders(j) ==
  /\ Waits(j, "headers")
  /\ Goes(j, "body") \/ Failed(j)
  /\ UNCHANGED allVars

\* AIOutputZodSchema admits the answer or does not.
Parse(j) == Goes(j, "answered") \/ Failed(j)

\* The body is read without a timeout; it is an error text or an answer.
ReadBody(j) ==
  /\ Waits(j, "body")
  /\ Failed(j) \/ Parse(j)
  /\ UNCHANGED allVars

\* Mistake: the attempts are not counted.
SameAttempt(n) == n

NextAttempt(n) == n + 1

\* The backoff is over.
Retry(j) ==
  /\ Waits(j, "backoff")
  /\ provider' = [provider EXCEPT ![j] = [at |-> "headers", attempt |-> NextAttempt(@.attempt)]]
  /\ UNCHANGED allVars

\* MockAIProvider answers after 150 ms, and proposes a task.
Mock(j) ==
  /\ Waits(j, "mock")
  /\ Goes(j, "mocked")
  /\ UNCHANGED allVars

\* The answer is taken over into the copy, or a save fails on the way.
TakeAnswer(j) ==
  /\ Waits(j, "answered") \/ Waits(j, "mocked")
  /\ AskProvider(j)
  /\ Waits(j, "mocked") /\ jobs'[j].step = "finish" =>
       LET action == jobs'[j].wanted.action IN action # None /\ action.type = "CREATE_TASK"
  /\ provider' = [provider EXCEPT ![j] = NotAsked]

CallProvider(j) ==
  Consult(j) \/ GiveUp(j) \/ ReadHeaders(j) \/ ReadBody(j) \/ Retry(j) \/ Mock(j) \/ TakeAnswer(j)

RestOfJob(j) ==
  /\ \/ TakeJob(j) \/ FailToLoad(j) \/ MarkRunning(j)
     \/ Finish(j) \/ AuditOutcome(j) \/ Abort(j)
  /\ UNCHANGED provider

\* The process dies; BullMQ forgives a job one stall.
CrashOnce ==
  /\ \A j \in DOMAIN jobs : jobs[j].stalls = 0
  /\ CrashAll
  /\ provider' = [j \in Job |-> NotAsked]

-----------------------------------------------------------------------------
ProviderInit == InitAI /\ provider = [j \in Job |-> NotAsked]

ProviderNext ==
  \/ CrashOnce
  \/ \E r \in Request : (BeginAny(r) \/ AIStep(r) \/ Fail(r)) /\ UNCHANGED provider
  \/ \E j \in Job : CallProvider(j) \/ RestOfJob(j)

ProviderSpec == ProviderInit /\ [][ProviderNext]_providerVars

\* Node runs every handler that can go on, and BullMQ every job; timers go off,
\* and a body that has begun to arrive ends (the HTTP client gives up on one
\* that stalls for five minutes).
FairProviderSpec ==
  /\ ProviderSpec
  /\ \A r \in Request : WF_providerVars(AIStep(r) /\ UNCHANGED provider)
  /\ \A j \in Job : WF_providerVars(CallProvider(j) \/ RestOfJob(j))

-----------------------------------------------------------------------------
(* Properties; InvestigationsSettle is that of Investigation. *)

\* The attempts are counted, and a provider is asked only on behalf of a job
\* that waits for it.
ProviderTypeOK ==
  \A j \in Job :
    /\ provider[j].at \in {"idle", "headers", "body", "backoff", "mock", "mocked", "answered"}
    /\ provider[j].attempt \in 0..(MaxRetries + 1)
    /\ provider[j] # NotAsked => InStep(j, "progress")
=============================================================================
