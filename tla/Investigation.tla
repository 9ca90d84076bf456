--------------------------- MODULE Investigation ---------------------------
(***************************************************************************)
(* The AI investigations of AIService: POST /incidents/:ref/investigate    *)
(* records an investigation and dispatches a job, a worker runs the job    *)
(* and stores a proposed action, and a responder approves or rejects it.   *)
(* The handlers are composed with those of Incidents, which change the     *)
(* incident while an investigation runs or a review is under way; their    *)
(* saves of one incident demand no version and are never refused.          *)
(*                                                                         *)
(* A job is a member of Job, dispatched at most once.  Its four progress   *)
(* saves between RUNNING and the outcome are one step: each only appends   *)
(* to progressEvents, which raises the version and checks none.  The       *)
(* updatedAt of an incident is a count of its saves, and the findings of a *)
(* completed investigation are the job that stored them.  The request that *)
(* recorded an investigation is kept with it as history.                   *)
(***************************************************************************)
EXTENDS Incidents

CONSTANTS
  Investigation,  \* identities of investigation documents
  Job,            \* dispatches of a job
  Proposal,       \* what the AI proposes: records [type, value], or None
  Slots,          \* how many jobs run at the same time
  QueueActive,    \* BullMQ keeps the jobs, or they live in the process
  ForceSent,      \* the values of "force" that reviewers send
  Failures        \* whether calls fail and the process dies in this instance

ASSUME ProposalAssumption ==
  \A p \in Proposal \ {None} :
    \/ p.type = "CHANGE_SEVERITY" /\ p.value \in Severity
    \/ p.type = "CHANGE_STATUS"   /\ p.value \in Status
    \/ p.type = "ASSIGN_INCIDENT" /\ p.value \in User
    \/ p.type = "CREATE_TASK"
ASSUME JobAssumption == None \notin Job
ASSUME ActionAssumption ==
  \A p \in Proposal \ {None}, s \in {"PENDING_APPROVAL", "EXECUTED", "REJECTED"} :
    [type |-> p.type, value |-> p.value, status |-> s] # None

VARIABLES
  revision,        \* revision[i]: how often incident i was saved
  investigations,  \* the collection: a function from the stored identities
  jobs,            \* a function from the dispatched jobs
  tasks,           \* the checklist tasks: [incident, title, by], by a request
  executed         \* history: [by, inv, incident, type, value] of each executed
                   \* action

aiVars  == <<revision, investigations, jobs, tasks, executed>>
allVars == <<vars, aiVars>>

Open    == {"QUEUED", "RUNNING"}
Decided == {"EXECUTED", "REJECTED"}

Pending(proposal) ==
  IF proposal = None THEN None
  ELSE [type |-> proposal.type, value |-> proposal.value,
        status |-> "PENDING_APPROVAL"]

IsPending(v) ==
  /\ investigations[v].action # None
  /\ investigations[v].action.status = "PENDING_APPROVAL"

-----------------------------------------------------------------------------
(* POST /incidents/:ref/investigate. *)

\* The incident is loaded; its updatedAt names the version to investigate.
Investigate(r, i) ==
  /\ Starts(r, "investigate")
  /\ Await(r, [step |-> "lookup", incident |-> i, version |-> revision[i]])
  /\ UNCHANGED <<incidents, aiVars>>

\* The investigations of a version of the incident that are not FAILED.
Reusable(i, version) ==
  {v \in DOMAIN investigations :
     /\ investigations[v].incident = i
     /\ investigations[v].version = version
     /\ investigations[v].status \in Open \cup {"COMPLETED"}}

\* A dispatched job: kept by BullMQ or in the process, and how often it stalled.
NewJob(v, kept) == [inv |-> v, kept |-> kept, step |-> "waiting", stalls |-> 0]

\* The job goes to BullMQ, or to setImmediate when the queue is not there or
\* does not take it.
Dispatch(j, v) ==
  /\ j \notin DOMAIN jobs
  /\ \E kept \in {QueueActive} \cup (IF Failures THEN {FALSE} ELSE {}) :
       jobs' = [k \in DOMAIN jobs \cup {j} |->
                  IF k = j THEN NewJob(v, kept) ELSE jobs[k]]

\* A completed investigation answers the call; one that is queued or running
\* is dispatched again; otherwise a new one is recorded.
Lookup(r) ==
  /\ At(r, "lookup")
  /\ LET i == held[r].incident
         version == held[r].version
     IN \/ \E v \in Reusable(i, version) :
             \/ /\ investigations[v].status = "COMPLETED"
                /\ Return(r, "done")
                /\ UNCHANGED jobs
             \/ /\ investigations[v].status \in Open
                /\ \E j \in Job : Dispatch(j, v)
                /\ Return(r, "done")
        \/ /\ Reusable(i, version) = {}
           /\ Await(r, [step |-> "record", incident |-> i, version |-> version])
           /\ UNCHANGED jobs
  /\ UNCHANGED <<incidents, revision, investigations, tasks, executed>>

RecordInvestigation(r, v) ==
  /\ At(r, "record")
  /\ v \notin DOMAIN investigations
  /\ investigations' = [w \in DOMAIN investigations \cup {v} |->
       IF w = v THEN [incident |-> held[r].incident, version |-> held[r].version,
                      status |-> "QUEUED", action |-> None, findings |-> None,
                      ver |-> 0, by |-> r]
       ELSE investigations[w]]
  /\ Await(r, [step |-> "enqueue", inv |-> v])
  /\ UNCHANGED <<incidents, revision, jobs, tasks, executed>>

\* Mistake: when the queue cannot be reached, nothing runs the job.
EnqueueOrDrop(r) ==
  /\ At(r, "enqueue")
  /\ \/ \E j \in Job : Dispatch(j, held[r].inv)
     \/ UNCHANGED jobs
  /\ Return(r, "done")
  /\ UNCHANGED <<incidents, revision, investigations, tasks, executed>>

Enqueue(r) ==
  /\ At(r, "enqueue")
  /\ \E j \in Job : Dispatch(j, held[r].inv)
  /\ Return(r, "done")
  /\ UNCHANGED <<incidents, revision, investigations, tasks, executed>>

-----------------------------------------------------------------------------
(* processInvestigationJob.  copy is the job's document as last loaded or  *)
(* saved, wanted the fields it has assigned since.                         *)

\* How a job ends: it did its work; the save of FAILED was refused; the database
\* failed it; the process died and nobody runs it again.
Over == {"ended", "refused", "lost", "died"}

Running(j) == j \in DOMAIN jobs /\ jobs[j].step \notin {"waiting"} \cup Over

InStep(j, step) == j \in DOMAIN jobs /\ jobs[j].step = step

\* What BullMQ, or the process, knows of a job that has no document at hand.
AtRest(job, step) ==
  [inv |-> job.inv, kept |-> job.kept, step |-> step, stalls |-> job.stalls]

EndJob(j, step) == jobs' = [jobs EXCEPT ![j] = AtRest(@, step)]

JobGoesOn(j, step, copy, wanted) ==
  jobs' = [jobs EXCEPT ![j] =
             [inv |-> @.inv, kept |-> @.kept, step |-> step, stalls |-> @.stalls,
              copy |-> copy, wanted |-> wanted]]

\* What is assigned stays assigned when the try block is left for its catch.
GoesToCatch(j) ==
  JobGoesOn(j, "abort", jobs[j].copy, [jobs[j].wanted EXCEPT !.status = "FAILED"])

Assigned(j) == SaveCommand(jobs[j].inv, jobs[j].copy, jobs[j].wanted, {"findings"})

\* Mistake: the appended progress does not raise the version.
StoredSilently(v, c) ==
  investigations' = [investigations EXCEPT ![v] = Applied(@, c)]

\* Every save of a job also appends to progressEvents.
Stored(v, c) ==
  investigations' = [investigations EXCEPT
                       ![v] = [Applied(@, c) EXCEPT !.ver = investigations[v].ver + 1]]

\* The copy after a save that went through.
Saved(wanted) == [wanted EXCEPT !.ver = @ + 1]

\* The worker takes up to Slots jobs at once; setImmediate counts none.  The
\* document is loaded outside the try block.
TakeJob(j) ==
  /\ InStep(j, "waiting")
  /\ jobs[j].kept => Cardinality({k \in Job : Running(k) /\ jobs[k].kept}) < Slots
  /\ LET doc == investigations[jobs[j].inv]
     IN JobGoesOn(j, "mark", doc, [doc EXCEPT !.status = "RUNNING"])
  /\ UNCHANGED <<vars, revision, investigations, tasks, executed>>

\* The document cannot be loaded, twice in a row for a job of BullMQ (attempts: 2;
\* after the first failure it waits again).  The catch of setImmediate only logs.
FailToLoad(j) ==
  /\ Failures
  /\ InStep(j, "waiting")
  /\ EndJob(j, "lost")
  /\ UNCHANGED <<vars, revision, investigations, tasks, executed>>

MarkRunning(j) ==
  /\ InStep(j, "mark")
  /\ \/ /\ Stored(jobs[j].inv, Assigned(j))
        /\ LET copy == Saved(jobs[j].wanted) IN JobGoesOn(j, "progress", copy, copy)
     \/ Failures /\ GoesToCatch(j) /\ UNCHANGED investigations
  /\ UNCHANGED <<vars, revision, tasks, executed>>

\* Progress is saved, the context gathered and the provider asked: it answers,
\* with a proposal or without, or fails; or no progress could be saved.
AskProvider(j) ==
  /\ InStep(j, "progress")
  /\ \/ /\ Stored(jobs[j].inv, Assigned(j))
        /\ LET copy == Saved(jobs[j].wanted) IN
           \/ \E p \in Proposal :
                JobGoesOn(j, "finish", copy,
                          [copy EXCEPT !.status = "COMPLETED", !.findings = j,
                                       !.action = Pending(p)])
           \/ JobGoesOn(j, "abort", copy, [copy EXCEPT !.status = "FAILED"])
     \/ Failures /\ GoesToCatch(j) /\ UNCHANGED investigations
  /\ UNCHANGED <<vars, revision, tasks, executed>>

\* Mistake: the status is saved first, the findings with the audit entry.
FinishInTwo(j) ==
  /\ InStep(j, "finish")
  /\ Stored(jobs[j].inv, SetCommand(jobs[j].inv, [status |-> "COMPLETED"]))
  /\ JobGoesOn(j, "audit", Saved(jobs[j].wanted), Saved(jobs[j].wanted))
  /\ UNCHANGED <<vars, revision, tasks, executed>>

\* The outcome replaces whole lists, so it is refused when another job saved
\* the document meanwhile.
Finish(j) ==
  /\ InStep(j, "finish")
  /\ LET v == jobs[j].inv
         copy == Saved(jobs[j].wanted)
     IN \/ /\ Accepts(investigations[v], Assigned(j))
           /\ Stored(v, Assigned(j))
           /\ JobGoesOn(j, "audit", copy, copy)
        \/ /\ Failures \/ ~Accepts(investigations[v], Assigned(j))
           /\ GoesToCatch(j)
           /\ UNCHANGED investigations
  /\ UNCHANGED <<vars, revision, tasks, executed>>

\* The audit entry is written, or fails and the investigation with it.
AuditOutcome(j) ==
  /\ InStep(j, "audit")
  /\ EndJob(j, "ended") \/ GoesToCatch(j)
  /\ UNCHANGED <<vars, revision, investigations, tasks, executed>>

\* The failure is saved, unless that save is refused or fails as well: then the
\* job only logs, and what is stored stays.
Abort(j) ==
  /\ InStep(j, "abort")
  /\ LET v == jobs[j].inv
         c == Assigned(j)
     IN \/ Accepts(investigations[v], c) /\ Stored(v, c) /\ EndJob(j, "ended")
        \/ /\ ~Accepts(investigations[v], c)
           /\ EndJob(j, "refused")
           /\ UNCHANGED investigations
        \/ Failures /\ EndJob(j, "lost") /\ UNCHANGED investigations
  /\ UNCHANGED <<vars, revision, tasks, executed>>

-----------------------------------------------------------------------------
(* Review: approve and reject. *)

\* The incident is loaded.  The investigation is named by the caller, or it
\* is None and the latest one of the incident that is pending is meant.
Review(r, endpoint, i, v, force) ==
  /\ Starts(r, endpoint)
  /\ Await(r, [step |-> endpoint, incident |-> i, loaded |-> incidents[i],
               inv |-> v, force |-> force])
  /\ UNCHANGED <<incidents, aiVars>>

\* The investigations a review may find.
Found(h) ==
  IF h.inv # None THEN {h.inv}
  ELSE {v \in DOMAIN investigations :
          investigations[v].incident = h.incident /\ IsPending(v)}

\* Mistake: a rejected action can be approved after all.
ReviewableAgain(v) ==
  /\ investigations[v].action # None
  /\ investigations[v].action.status # "EXECUTED"

\* An action is reviewed once.
Reviewable(v) == IsPending(v)

\* Rule 1: no action on a resolved incident, but a change of its status.
StaleIncident(incident, action, force) ==
  incident.status = Resolved /\ action.type # "CHANGE_STATUS" /\ ~force

\* The copy of the incident with the action done to it.
Mutated(incident, action, r) ==
  CASE action.type = "CHANGE_SEVERITY" ->
         [incident EXCEPT !.severity = action.value]
    [] action.type = "CHANGE_STATUS" ->
         WithStatus(incident, action.value, r)
    [] action.type = "ASSIGN_INCIDENT" ->
         [incident EXCEPT !.assignee = action.value]

\* Mistake: an action that changes nothing is executed again.
AlwaysEffective(incident, action, r) == TRUE

\* Rule 2: the action must change the incident, and be allowed to the caller.
Effective(incident, action, r) ==
  CASE action.type = "CHANGE_SEVERITY" -> incident.severity # action.value
    [] action.type = "CHANGE_STATUS"   -> incident.status # action.value
    [] action.type = "ASSIGN_INCIDENT" ->
         /\ AssignmentAllowed(Author[r], action.value, incident.assignee)
         /\ incident.assignee # action.value
    [] action.type = "CREATE_TASK"     -> TRUE

\* Mistake: the investigation is marked before the action is done.
ApproveUndone(r) ==
  /\ At(r, "approve")
  /\ \E v \in Found(held[r]) :
       Reviewable(v) /\ Await(r, [step |-> "settle", inv |-> v])
  /\ UNCHANGED <<incidents, aiVars>>

Approve(r) ==
  /\ At(r, "approve")
  /\ LET h == held[r] IN
     \/ /\ \A v \in Found(h) : ~Reviewable(v)
        /\ Return(r, "refused")
     \/ \E v \in Found(h) :
          /\ Reviewable(v)
          /\ LET action == investigations[v].action IN
             IF \/ StaleIncident(h.loaded, action, h.force)
                \/ ~Effective(h.loaded, action, r)
               THEN Return(r, "refused")
               ELSE Await(r, [step |-> IF action.type = "CREATE_TASK"
                                         THEN "task" ELSE "execute",
                              incident |-> h.incident, loaded |-> h.loaded,
                              inv |-> v, action |-> action, force |-> h.force])
  /\ UNCHANGED <<incidents, aiVars>>

NoteExecution(r) ==
  executed' = executed \cup
    {[by |-> r, inv |-> held[r].inv, incident |-> held[r].incident,
      type |-> held[r].action.type, value |-> held[r].action.value]}

\* The incident is saved; the investigation comes next.
Execute(r) ==
  /\ At(r, "execute")
  /\ LET h == held[r]
         c == Saves(h.incident, h.loaded, Mutated(h.loaded, h.action, r))
     IN /\ incidents' = [incidents EXCEPT ![h.incident] = Applied(@, c)]
        /\ revision' = [revision EXCEPT ![h.incident] = @ + 1]
        /\ Await(r, [step |-> "settle", inv |-> h.inv])
  /\ NoteExecution(r)
  /\ UNCHANGED <<investigations, jobs, tasks>>

\* A task with the title of the action must not exist yet.
LookForTask(r) ==
  /\ At(r, "task")
  /\ IF /\ ~held[r].force
        /\ \E t \in tasks : /\ t.incident = held[r].incident
                            /\ t.title = held[r].action.value
       THEN Return(r, "refused")
       ELSE Await(r, [held[r] EXCEPT !.step = "create"])
  /\ UNCHANGED <<incidents, aiVars>>

CreateTask(r) ==
  /\ At(r, "create")
  /\ tasks' = tasks \cup {[incident |-> held[r].incident,
                           title |-> held[r].action.value, by |-> r]}
  /\ Await(r, [step |-> "settle", inv |-> held[r].inv])
  /\ NoteExecution(r)
  /\ UNCHANGED <<incidents, revision, investigations, jobs>>

\* proposedAction.status of the investigation is set, whatever it is now; the
\* save fails when a job has removed the action meanwhile.
Decide(r, status) ==
  /\ IF investigations[held[r].inv].action = None
       THEN Return(r, "failed") /\ UNCHANGED investigations
       ELSE /\ investigations' =
                 [investigations EXCEPT ![held[r].inv].action.status = status]
            /\ Send(r, {})
  /\ UNCHANGED <<incidents, revision, jobs, tasks, executed>>

MarkExecuted(r) == At(r, "settle") /\ Decide(r, "EXECUTED")

Reject(r) ==
  /\ At(r, "reject")
  /\ \/ /\ \A v \in Found(held[r]) : ~Reviewable(v)
        /\ Return(r, "refused")
     \/ \E v \in Found(held[r]) :
          Reviewable(v) /\ Await(r, [step |-> "dismiss", inv |-> v])
  /\ UNCHANGED <<incidents, aiVars>>

MarkRejected(r) == At(r, "dismiss") /\ Decide(r, "REJECTED")

-----------------------------------------------------------------------------
(* Failures, and the handlers of Incidents. *)

\* A call to the database or the audit log fails, and the handler with it.  A
\* recorded investigation is dispatched without one.
Fail(r) ==
  /\ Failures
  /\ pc[r] \in {"working", "written"} /\ ~At(r, "enqueue")
  /\ Return(r, "failed")
  /\ UNCHANGED <<incidents, aiVars>>

\* A job after the process died: BullMQ keeps a waiting one, and runs a stalled
\* one once more.
Recovered(job) ==
  IF job.step \in Over \/ (job.kept /\ job.step = "waiting") THEN job
  ELSE IF job.kept /\ job.stalls = 0
         THEN [AtRest(job, "waiting") EXCEPT !.stalls = 1]
         ELSE AtRest(job, "died")

CrashAll ==
  /\ Failures
  /\ \/ Crash
     \/ /\ \A r \in Request : pc[r] \notin InFlight
        /\ \E j \in Job : Running(j)
        /\ UNCHANGED vars
  /\ jobs' = [j \in DOMAIN jobs |-> Recovered(jobs[j])]
  /\ UNCHANGED <<revision, investigations, tasks, executed>>

SaveIncident(r, c) ==
  /\ ExecuteSave(r, c)
  /\ revision' = [revision EXCEPT ![c.doc] = @ + 1]
  /\ UNCHANGED <<investigations, jobs, tasks, executed>>

BeginReview(r) ==
  \E i \in DOMAIN incidents, v \in DOMAIN investigations \cup {None} :
    \/ \E force \in ForceSent : Review(r, "approve", i, v, force)
    \/ Review(r, "reject", i, v, FALSE)

AIStep(r) ==
  \/ Lookup(r)
  \/ \E v \in Investigation : RecordInvestigation(r, v)
  \/ Enqueue(r)
  \/ Approve(r)
  \/ Execute(r)
  \/ LookForTask(r)
  \/ CreateTask(r)
  \/ MarkExecuted(r)
  \/ Reject(r)
  \/ MarkRejected(r)
  \/ \E c \in writes[r] : SaveIncident(r, c)
  \/ Announce(r) /\ UNCHANGED aiVars

BeginAny(r) ==
  \/ Begin(r) /\ UNCHANGED aiVars
  \/ \E i \in DOMAIN incidents : Investigate(r, i)
  \/ BeginReview(r)

JobStep(j) ==
  TakeJob(j) \/ FailToLoad(j) \/ MarkRunning(j) \/ AskProvider(j) \/ Finish(j)
    \/ AuditOutcome(j) \/ Abort(j)

\* What the calls before this instance left: incidents as in Init, and of each
\* stored investigation one job, which waits or has completed it.
InitAI ==
  /\ Init
  /\ revision = [i \in Incident |-> 0]
  /\ tasks = {}
  /\ executed = {}
  /\ \E D \in SUBSET Investigation, C \in SUBSET Investigation :
       \E job \in [D -> Job], of \in [D -> DOMAIN incidents], p \in [D -> Proposal] :
         /\ C \subseteq D
         /\ \A v, w \in D : v # w => job[v] # job[w] /\ of[v] # of[w]
         /\ investigations = [v \in D |->
              [incident |-> of[v], version |-> 0,
               status   |-> IF v \in C THEN "COMPLETED" ELSE "QUEUED",
               action   |-> IF v \in C THEN Pending(p[v]) ELSE None,
               findings |-> IF v \in C THEN job[v] ELSE None,
               ver      |-> IF v \in C THEN 3 ELSE 0,
               by       |-> None]]
         /\ jobs = [j \in {job[v] : v \in D} |->
              LET v == CHOOSE v \in D : job[v] = j
              IN AtRest(NewJob(v, QueueActive),
                        IF v \in C THEN "ended" ELSE "waiting")]

NextAI ==
  \/ CrashAll
  \/ \E r \in Request : BeginAny(r) \/ AIStep(r) \/ Fail(r)
  \/ \E j \in Job : JobStep(j)

SpecAI == InitAI /\ [][NextAI]_allVars

-----------------------------------------------------------------------------
(* Properties. *)

\* One of the proposals, with a review status.
IsAction(a) ==
  /\ \E p \in Proposal \ {None} : a.type = p.type /\ a.value = p.value
  /\ a.status \in {"PENDING_APPROVAL"} \cup Decided

\* Investigations, jobs and tasks are well formed, and a job that is not
\* finished belongs to a stored investigation.
InvestigationTypeOK ==
  /\ \A v \in DOMAIN investigations :
       LET doc == investigations[v] IN
       /\ v \in Investigation /\ doc.incident \in DOMAIN incidents
       /\ doc.version <= revision[doc.incident]
       /\ doc.status \in Open \cup {"COMPLETED", "FAILED"}
       /\ doc.action # None => IsAction(doc.action) /\ doc.findings \in Job
  /\ \A i \in DOMAIN incidents : IsDoc(incidents[i])
  /\ \A j \in DOMAIN jobs :
       /\ j \in Job /\ jobs[j].inv \in DOMAIN investigations
       /\ Running(j) => jobs[j].copy.ver <= investigations[jobs[j].inv].ver
  /\ \A t \in tasks : t.incident \in DOMAIN incidents /\ t.by \in Request

\* Whether a job of the investigation may have run beside or after another run.
RunAgain(v) ==
  \E j \in DOMAIN jobs :
    /\ jobs[j].inv = v
    /\ \/ jobs[j].stalls > 0
       \/ \E k \in DOMAIN jobs \ {j} : jobs[k].inv = v

\* An investigation says EXECUTED only after an approval executed an action of it,
\* and says it of that very action, unless a job ran again: its outcome may then
\* replace the action between the execution and the record (approve saves the
\* incident first, the record afterwards).
ExecutedIsTrue ==
  \A v \in DOMAIN investigations :
    investigations[v].action # None /\ investigations[v].action.status = "EXECUTED"
      => \E e \in executed :
           /\ e.inv = v
           /\ \/ RunAgain(v)
              \/ /\ e.type = investigations[v].action.type
                 /\ e.value = investigations[v].action.value

\* The action of an investigation is executed at most once, also when a review
\* failed or was cut off and is repeated (approve executes, then records).
ExecutedOnce ==
  \A e, f \in executed : e.inv = f.inv => e = f

\* A review is final: what is executed or rejected stays so (approve and reject
\* check, then save; a job replaces the whole action).
DecisionStands ==
  [][\A v \in DOMAIN investigations :
       investigations[v].action # None
         /\ investigations[v].action.status \in Decided
         => investigations'[v].action = investigations[v].action]_allVars

\* A QUEUED investigation has a job that has not stored RUNNING yet, or a handler
\* about to dispatch one.  Otherwise the database failed a job of it, or a process
\* died: under its job, or under the handler between the record and the dispatch.
QueuedHasJob ==
  \A v \in DOMAIN investigations :
    investigations[v].status = "QUEUED" =>
      \/ \E r \in Request : At(r, "enqueue") /\ held[r].inv = v
      \/ \E j \in DOMAIN jobs :
           /\ jobs[j].inv = v
           /\ jobs[j].step \in {"waiting", "mark", "abort", "lost", "died"}
      \/ \E r \in Request : investigations[v].by = r /\ pc[r] = "failed"

\* A COMPLETED investigation has the findings of a job, also when several jobs
\* of it overlapped: status and findings are stored together.
CompletedHasFindings ==
  \A v \in DOMAIN investigations :
    investigations[v].status = "COMPLETED" => investigations[v].findings # None

\* Whether the jobs of an investigation may have left it QUEUED or RUNNING: the
\* database failed one, a process died under one that nobody runs again, or one
\* that overlapped another was refused, its outcome and its failure alike.
Stuck(v) ==
  \E j \in DOMAIN jobs :
    /\ jobs[j].inv = v
    /\ \/ jobs[j].step \in {"lost", "died"}
       \/ /\ jobs[j].step = "refused"
          /\ \E k \in DOMAIN jobs \ {j} : jobs[k].inv = v

\* An investigation that has a job comes to an end, COMPLETED or FAILED, but for
\* the ways named in Stuck; a job that runs alone or once more always does.
InvestigationsSettle ==
  \A v \in Investigation :
    (\E j \in DOMAIN jobs : jobs[j].inv = v)
      ~> (v \in DOMAIN investigations
          /\ (investigations[v].status \in {"COMPLETED", "FAILED"} \/ Stuck(v)))
=============================================================================
