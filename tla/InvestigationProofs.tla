------------------------ MODULE InvestigationProofs ------------------------
(***************************************************************************)
(* Proofs about Investigation, for any number of incidents, calls,         *)
(* investigations and jobs: types, what the record of an executed action   *)
(* says, the job of a QUEUED investigation, and the findings of a          *)
(* COMPLETED one; and, when the calls come one at a time, that decisions   *)
(* stand and actions are executed once.                                    *)
(***************************************************************************)
EXTENDS Investigation, IncidentsProofs


InvestigationField == {"incident", "version", "status", "action", "findings", "ver", "by"}
ActionField        == {"type", "value", "status"}
JobStepName        == {"waiting", "mark", "progress", "finish", "audit", "abort"} \cup Over

\* A stored document of investigation v, or a copy of it: what it says is of a
\* version its incident had, an outcome comes with findings, and an executed
\* action was executed.
Sound(v, d) ==
  /\ DOMAIN d = InvestigationField
  /\ d.incident \in DOMAIN incidents
  /\ d.version \in Nat /\ d.version <= revision[d.incident]
  /\ d.status \in Open \cup {"COMPLETED", "FAILED"}
  /\ d.findings \in Job \cup {None}
  /\ d.ver \in Nat
  /\ d.status = "COMPLETED" => d.findings # None
  /\ d.action # None =>
       /\ DOMAIN d.action = ActionField
       /\ IsAction(d.action)
       /\ d.findings # None
       /\ d.action.status = "EXECUTED" => \E e \in executed : e.inv = v

\* A job at work on the stored document d has a copy no newer than d, and
\* neither undoes findings nor queues the investigation again; it assigns its
\* outcome only after it has stored RUNNING.
Work(d, copy, wanted) ==
  /\ wanted.incident = copy.incident
  /\ wanted.version = copy.version
  /\ wanted.by = copy.by
  /\ wanted.ver = copy.ver
  /\ copy.ver <= d.ver
  /\ copy.findings # None => d.findings # None /\ wanted.findings # None
  /\ copy.status # "QUEUED" => d.status # "QUEUED"
  /\ wanted.status # "QUEUED"
  /\ wanted.findings # copy.findings => copy.status # "QUEUED"

JobInv(j) ==
  /\ j \in Job
  /\ jobs[j].inv \in DOMAIN investigations
  /\ jobs[j].step \in JobStepName
  /\ jobs[j].stalls \in Nat
  /\ jobs[j].kept => QueueActive
  /\ Running(j) =>
       /\ Sound(jobs[j].inv, jobs[j].copy)
       /\ Sound(jobs[j].inv, jobs[j].wanted)
       /\ Work(investigations[jobs[j].inv], jobs[j].copy, jobs[j].wanted)

DocInv(v) == v \in Investigation /\ Sound(v, investigations[v])

\* What a handler holds at its next step.
HeldInv(h) ==
  /\ h.step \in {"lookup", "record"} =>
       /\ h.incident \in DOMAIN incidents
       /\ h.version \in Nat /\ h.version <= revision[h.incident]
  /\ h.step \in {"approve", "reject"} => h.inv \in DOMAIN investigations \cup {None}
  /\ h.step \in {"approve", "execute", "task", "create"} =>
       /\ h.incident \in DOMAIN incidents /\ IsDoc(h.loaded)
  /\ h.step \in {"enqueue", "execute", "task", "create", "settle", "dismiss"} =>
       h.inv \in DOMAIN investigations
  /\ h.step = "task" =>
       DOMAIN h = {"step", "incident", "loaded", "inv", "action", "force"}
  /\ h.step = "execute" => IsAction(h.action) /\ h.action.type # "CREATE_TASK"
  /\ h.step = "settle" => \E e \in executed : e.inv = h.inv

HandlerInv(r) ==
  /\ pc[r] = "working" => HeldInv(held[r])
  /\ At(r, "enqueue") => investigations[held[r].inv].by = r
  /\ \A c \in writes[r] : IsCommand(c)

\* The variables are functions on their domains, and the incidents are sound.
ShapeInv ==
  /\ DOMAIN incidents \subseteq Incident
  /\ \A i \in DOMAIN incidents : IsDoc(incidents[i])
  /\ revision \in [Incident -> Nat]
  /\ DOMAIN pc = Request /\ DOMAIN held = Request /\ DOMAIN writes = Request
  /\ pc = [r \in Request |-> pc[r]]
  /\ \A t \in tasks : t.incident \in DOMAIN incidents /\ t.by \in Request

InvestigationInv ==
  /\ ShapeInv
  /\ \A v \in DOMAIN investigations : DocInv(v)
  /\ \A j \in DOMAIN jobs : JobInv(j)
  /\ \A r \in Request : HandlerInv(r)
  /\ QueuedHasJob

-----------------------------------------------------------------------------
(* What lasts: a step that only adds to the stored documents leaves copies,
   jobs and handlers sound.                                                *)

\* No document, save, findings or executed action is lost, and nothing that
\* has been started is QUEUED again.
Later ==
  /\ DOMAIN incidents \subseteq DOMAIN incidents'
  /\ \A i \in DOMAIN incidents : /\ revision'[i] \in Nat
                                 /\ revision[i] <= revision'[i]
  /\ \A v \in DOMAIN investigations :
       /\ v \in DOMAIN investigations'
       /\ investigations'[v].ver \in Nat
       /\ investigations[v].ver <= investigations'[v].ver
       /\ investigations'[v].by = investigations[v].by
       /\ investigations[v].findings # None => investigations'[v].findings # None
       /\ investigations[v].status # "QUEUED" => investigations'[v].status # "QUEUED"
  /\ executed \subseteq executed'

\* Only handler r moves.
Alone(r) ==
  /\ pc' = [q \in Request |-> pc'[q]]
  /\ DOMAIN held' = Request /\ DOMAIN writes' = Request
  /\ \A q \in Request \ {r} : /\ pc'[q] = pc[q]
                              /\ held'[q] = held[q]
                              /\ writes'[q] = writes[q]

\* A step that leaves documents and executions alone loses none of them.
LEMMA LaterSame ==
  ASSUME InvestigationInv, UNCHANGED <<incidents, revision, investigations, executed>>
  PROVE  Later
<1>1. \A v \in DOMAIN investigations : investigations[v].ver \in Nat
  BY DEF InvestigationInv, DocInv, Sound
<1>2. \A i \in DOMAIN incidents : revision[i] \in Nat
  BY DEF InvestigationInv, ShapeInv
<1> QED  BY <1>1, <1>2 DEF Later

\* A sound copy stays sound while documents and executions only grow.
LEMMA SoundStays ==
  ASSUME NEW v, NEW d, ShapeInv, Sound(v, d), Later
  PROVE  Sound(v, d)'
<1>1. d.incident \in DOMAIN incidents' /\ d.version <= revision'[d.incident]
  <2>1. revision[d.incident] \in Nat
    BY DEF Sound, ShapeInv
  <2> QED  BY <2>1 DEF Sound, Later
<1>2. (\E e \in executed : e.inv = v) => (\E e \in executed' : e.inv = v)
  BY DEF Later
<1> QED  BY <1>1, <1>2 DEF Sound, IsAction

\* A stored document that no one saves stays sound.
LEMMA DocStays ==
  ASSUME NEW v \in DOMAIN investigations, ShapeInv, DocInv(v), Later,
         investigations'[v] = investigations[v]
  PROVE  DocInv(v)'
<1>1. PICK d : d = investigations[v]
  OBVIOUS
<1>2. Sound(v, d)'
  BY <1>1, SoundStays DEF DocInv
<1>3. Sound(v, investigations[v])'
  BY <1>1, <1>2
<1> QED  BY <1>3 DEF DocInv

\* A copy no newer than its document stays so: versions only grow, findings stay
\* and nothing is QUEUED again.
LEMMA WorkStays ==
  ASSUME NEW v \in DOMAIN investigations, NEW copy, NEW wanted, DocInv(v),
         Sound(v, copy), Work(investigations[v], copy, wanted), Later
  PROVE  Work(investigations'[v], copy, wanted)
<1>1. copy.ver \in Nat /\ investigations[v].ver \in Nat
  BY DEF DocInv, Sound
<1> QED  BY <1>1 DEF Work, Later

\* A job that does not move stays sound, whoever saves its document.
LEMMA JobStays ==
  ASSUME NEW j \in DOMAIN jobs, ShapeInv, DocInv(jobs[j].inv), JobInv(j), Later,
         j \in DOMAIN jobs', jobs'[j] = jobs[j]
  PROVE  JobInv(j)'
<1>1. PICK v : v = jobs[j].inv
  OBVIOUS
<1>2. v \in DOMAIN investigations /\ v \in DOMAIN investigations'
  BY <1>1 DEF JobInv, Later
<1>3. Running(j)' => Running(j)
  BY DEF Running
<1>4. ASSUME Running(j)
      PROVE  /\ Sound(v, jobs[j].copy)'
             /\ Sound(v, jobs[j].wanted)'
             /\ Work(investigations'[v], jobs'[j].copy, jobs'[j].wanted)
  <2>1. PICK c, w : c = jobs[j].copy /\ w = jobs[j].wanted
    OBVIOUS
  <2>2. Sound(v, c) /\ Sound(v, w) /\ Work(investigations[v], c, w)
    BY <1>1, <1>4, <2>1 DEF JobInv
  <2>3. Sound(v, c)' /\ Sound(v, w)'
    BY <2>2, SoundStays
  <2>4. Work(investigations'[v], c, w)
    BY <1>1, <1>2, <2>2, WorkStays
  <2> QED  BY <2>1, <2>3, <2>4
<1> QED  BY <1>1, <1>2, <1>3, <1>4 DEF JobInv

\* A save in flight stays addressed to a stored incident.
LEMMA CommandStays ==
  ASSUME NEW c, IsCommand(c), DOMAIN incidents \subseteq DOMAIN incidents'
  PROVE  IsCommand(c)'
BY DEF IsCommand

\* What a handler holds across an await stays sound.
LEMMA HeldStays ==
  ASSUME NEW h, ShapeInv, HeldInv(h), Later
  PROVE  HeldInv(h)'
<1>1. \A v \in DOMAIN investigations : v \in DOMAIN investigations'
  BY DEF Later
<1>2. \A i \in DOMAIN incidents : i \in DOMAIN incidents'
  BY DEF Later
<1>3. h.step \in {"lookup", "record"} => h.version <= revision'[h.incident]
  BY DEF Later, HeldInv, ShapeInv
<1>4. (\E e \in executed : e.inv = h.inv) => (\E e \in executed' : e.inv = h.inv)
  BY DEF Later
<1> QED  BY <1>1, <1>2, <1>3, <1>4 DEF HeldInv, IsAction, IsDoc

\* A handler that does not move stays sound.
LEMMA HandlerStays ==
  ASSUME NEW q \in Request, ShapeInv, HandlerInv(q), Later, pc'[q] = pc[q],
         held'[q] = held[q], writes'[q] = writes[q]
  PROVE  HandlerInv(q)'
<1>1. PICK h : h = held[q]
  OBVIOUS
<1>2. HeldInv(h) => HeldInv(h)'
  BY HeldStays
<1>3. pc'[q] = "working" => HeldInv(held[q])'
  BY <1>1, <1>2 DEF HandlerInv
<1>4. \A c \in writes'[q] : IsCommand(c)'
  BY CommandStays DEF HandlerInv, Later
<1>5. At(q, "enqueue")' => investigations'[held'[q].inv].by = q
  BY DEF HandlerInv, HeldInv, At, Later
<1> QED  BY <1>3, <1>4, <1>5 DEF HandlerInv

\* A handler that moves alone has only itself to answer for.
LEMMA AloneStep ==
  ASSUME InvestigationInv, Later, NEW r \in Request, Alone(r), HandlerInv(r)'
  PROVE  \A q \in Request : HandlerInv(q)'
<1> SUFFICES ASSUME NEW q \in Request, q # r PROVE HandlerInv(q)'
  OBVIOUS
<1> QED  BY HandlerStays DEF InvestigationInv, Alone

\* A handler that waits for nothing, with the saves it had.
LEMMA HandlerRests ==
  ASSUME NEW r \in Request, HandlerInv(r), Later, pc'[r] # "working",
         writes'[r] \subseteq writes[r]
  PROVE  HandlerInv(r)'
<1>1. \A c \in writes'[r] : IsCommand(c)'
  BY CommandStays DEF HandlerInv, Later
<1> QED  BY <1>1 DEF HandlerInv, At

\* The same of all documents, when no one saves an investigation.
LEMMA DocsStay ==
  ASSUME InvestigationInv, Later, UNCHANGED investigations
  PROVE  \A v \in DOMAIN investigations' : DocInv(v)'
BY DocStays DEF InvestigationInv

\* The same of all jobs, when none moves.
LEMMA JobsStay ==
  ASSUME InvestigationInv, Later, UNCHANGED jobs
  PROVE  \A j \in DOMAIN jobs' : JobInv(j)'
<1> SUFFICES ASSUME NEW j \in DOMAIN jobs PROVE JobInv(j)'
  OBVIOUS
<1>1. JobInv(j) /\ DocInv(jobs[j].inv)
  BY DEF InvestigationInv, JobInv
<1> QED  BY <1>1, JobStays DEF InvestigationInv

-----------------------------------------------------------------------------
(* Steps of a handler that leave investigations and jobs alone.            *)

\* Sending, returning and awaiting move only the handler itself.
LEMMA MovesAlone ==
  ASSUME ShapeInv, NEW r \in Request
  PROVE  /\ \A commands : Send(r, commands) =>
              /\ Alone(r)
              /\ pc'[r] \in {"saving", "written"}
              /\ writes'[r] \subseteq commands
         /\ \A answer : Return(r, answer) =>
              /\ Alone(r)
              /\ pc'[r] = answer
              /\ writes'[r] = writes[r]
         /\ \A h : Await(r, h) =>
              /\ Alone(r)
              /\ pc'[r] = "working"
              /\ held'[r] = h
              /\ writes'[r] = writes[r]
<1>1. ASSUME NEW commands, Send(r, commands)
      PROVE  Alone(r) /\ pc'[r] \in {"saving", "written"} /\ writes'[r] \subseteq commands
  BY <1>1 DEF Send, ShapeInv, Alone
<1>2. ASSUME NEW answer, Return(r, answer)
      PROVE  Alone(r) /\ pc'[r] = answer /\ writes'[r] = writes[r]
  BY <1>2 DEF Return, ShapeInv, Alone
<1>3. ASSUME NEW h, Await(r, h)
      PROVE  Alone(r) /\ pc'[r] = "working" /\ held'[r] = h /\ writes'[r] = writes[r]
  BY <1>3 DEF Await, ShapeInv, Alone
<1> QED  BY <1>1, <1>2, <1>3

\* A handler that returns, or awaits with what it may hold, stays sound.
LEMMA MovesSound ==
  ASSUME InvestigationInv, Later, NEW r \in Request
  PROVE  /\ \A commands : Send(r, commands) /\ (\A c \in commands : IsCommand(c))
                            => HandlerInv(r)'
         /\ \A answer \in Ended : Return(r, answer) => HandlerInv(r)'
         /\ \A h : Await(r, h) /\ HeldInv(h)'
                    /\ (h.step = "enqueue" => investigations'[h.inv].by = r)
                      => HandlerInv(r)'
<1>0. ShapeInv /\ HandlerInv(r)
  BY DEF InvestigationInv
<1>1. ASSUME NEW commands, Send(r, commands), \A c \in commands : IsCommand(c)
      PROVE  HandlerInv(r)'
  <2>1. \A c \in writes'[r] : IsCommand(c)'
    BY <1>0, <1>1, MovesAlone, CommandStays DEF Later
  <2> QED  BY <1>0, <1>1, <2>1, MovesAlone DEF HandlerInv, At
<1>2. ASSUME NEW answer \in Ended, Return(r, answer) PROVE HandlerInv(r)'
  BY <1>0, <1>2, MovesAlone, HandlerRests DEF Ended
<1>3. ASSUME NEW h, Await(r, h), HeldInv(h)',
             h.step = "enqueue" => investigations'[h.inv].by = r
      PROVE  HandlerInv(r)'
  <2>1. \A c \in writes'[r] : IsCommand(c)'
    BY <1>0, <1>3, MovesAlone, CommandStays DEF HandlerInv, Later
  <2>2. held'[r] = h
    BY <1>0, <1>3, MovesAlone
  <2>3. HeldInv(held[r])'
    BY <1>3, <2>2
  <2> QED  BY <1>3, <2>1, <2>2, <2>3 DEF HandlerInv, At
<1> QED  BY <1>1, <1>2, <1>3

\* The steps of a job that answers for a QUEUED investigation.
Answers == {"waiting", "mark", "abort", "lost", "died"}

\* A QUEUED investigation has a job, a handler or a death to answer for it.
Answered(v) ==
  \/ \E r \in Request : At(r, "enqueue") /\ held[r].inv = v
  \/ \E j \in DOMAIN jobs : jobs[j].inv = v /\ jobs[j].step \in Answers
  \/ \E r \in Request : investigations[v].by = r /\ pc[r] = "failed"

\* QueuedHasJob in these words.
LEMMA QueuedAnswered ==
  QueuedHasJob <=>
    \A v \in DOMAIN investigations : investigations[v].status = "QUEUED" => Answered(v)
BY DEF QueuedHasJob, Answered, Answers

\* A failed handler stays failed, and one about to dispatch its job does so
\* until it moves itself.
LEMMA AnsweredStays ==
  ASSUME NEW v, Answered(v), NEW r \in Request, Alone(r),
         pc[r] = "failed" => pc'[r] = "failed",
         ~At(r, "enqueue"),
         investigations'[v].by = investigations[v].by,
         \A j \in DOMAIN jobs : j \in DOMAIN jobs' /\ jobs'[j] = jobs[j]
  PROVE  Answered(v)'
<1>1. ASSUME NEW q \in Request, At(q, "enqueue"), held[q].inv = v PROVE Answered(v)'
  <2>1. At(q, "enqueue")' /\ held'[q].inv = v
    BY <1>1 DEF Alone, At
  <2> QED  BY <2>1 DEF Answered
<1>2. ASSUME NEW q \in Request, investigations[v].by = q, pc[q] = "failed"
      PROVE  Answered(v)'
  <2>1. investigations'[v].by = q /\ pc'[q] = "failed"
    BY <1>2 DEF Alone
  <2> QED  BY <2>1 DEF Answered
<1>3. ASSUME NEW j \in DOMAIN jobs, jobs[j].inv = v, jobs[j].step \in Answers
      PROVE  Answered(v)'
  BY <1>3 DEF Answered
<1> QED  BY <1>1, <1>2, <1>3 DEF Answered

\* QueuedHasJob outlasts every step that neither queues an investigation nor moves
\* a job or the handler that dispatches one.
LEMMA QueuedStays ==
  ASSUME InvestigationInv, Later, NEW r \in Request, Alone(r),
         pc[r] = "failed" => pc'[r] = "failed",
         ~At(r, "enqueue"),
         \A v \in DOMAIN investigations' : investigations'[v].status = "QUEUED" =>
           /\ v \in DOMAIN investigations /\ investigations[v].status = "QUEUED",
         \A j \in DOMAIN jobs : j \in DOMAIN jobs' /\ jobs'[j] = jobs[j]
  PROVE  QueuedHasJob'
<1>1. \A v \in DOMAIN investigations : investigations[v].status = "QUEUED" => Answered(v)
  BY QueuedAnswered DEF InvestigationInv
<1>2. ASSUME NEW v \in DOMAIN investigations', investigations'[v].status = "QUEUED"
      PROVE  Answered(v)'
  BY <1>1, <1>2, AnsweredStays DEF Later
<1> QED  BY <1>2 DEF QueuedHasJob, Answered, Answers

\* What the variables must be for the incidents to stay well formed.
LEMMA ShapeStays ==
  ASSUME InvestigationInv, Later, NEW r \in Request, Alone(r),
         UNCHANGED <<incidents, revision, tasks>>
  PROVE  ShapeInv'
BY DEF InvestigationInv, ShapeInv, Alone, IsDoc

\* A handler that only returns or awaits.
LEMMA QuietStep ==
  ASSUME InvestigationInv, NEW r \in Request,
         UNCHANGED <<incidents, aiVars>>,
         ~At(r, "enqueue"),
         pc[r] # "failed",
         \/ \E answer \in Ended : Return(r, answer)
         \/ \E h : HeldInv(h) /\ h.step # "enqueue" /\ Await(r, h)
  PROVE  InvestigationInv'
<1>0. ShapeInv
  BY DEF InvestigationInv
<1>1. Later
  BY LaterSame DEF aiVars
<1>2. HandlerInv(r)' /\ Alone(r)
  <2>1. ASSUME NEW h, HeldInv(h), h.step # "enqueue", Await(r, h)
        PROVE  HandlerInv(r)' /\ Alone(r)
    BY <1>0, <1>1, <2>1, HeldStays, MovesSound, MovesAlone
  <2>2. ASSUME NEW answer \in Ended, Return(r, answer) PROVE HandlerInv(r)' /\ Alone(r)
    BY <1>0, <1>1, <2>2, MovesSound, MovesAlone
  <2> QED  BY <2>1, <2>2
<1>3. ShapeInv'
  BY <1>1, <1>2, ShapeStays DEF aiVars
<1>4. \A v \in DOMAIN investigations' : DocInv(v)'
  BY <1>1, DocsStay DEF aiVars
<1>5. \A j \in DOMAIN jobs' : JobInv(j)'
  BY <1>1, JobsStay DEF aiVars
<1>6. \A q \in Request : HandlerInv(q)'
  BY <1>1, <1>2, AloneStep
<1>8. QueuedHasJob'
  BY <1>1, <1>2, QueuedStays DEF aiVars
<1> QED  BY <1>3, <1>4, <1>5, <1>6, <1>8 DEF InvestigationInv

-----------------------------------------------------------------------------
(* POST /incidents/:ref/investigate.                                       *)

\* The version that startInvestigation keeps is one the incident had.
LEMMA InvestigateStep ==
  ASSUME InvestigationInv, NEW r \in Request, NEW i \in DOMAIN incidents,
         Investigate(r, i)
  PROVE  InvestigationInv'
<1>1. PICK h : h = [step |-> "lookup", incident |-> i, version |-> revision[i]]
  OBVIOUS
<1>2. revision[i] \in Nat
  BY DEF InvestigationInv, ShapeInv
<1>3. HeldInv(h)
  BY <1>1, <1>2 DEF HeldInv
<1>4. Await(r, h) /\ pc[r] = "idle" /\ UNCHANGED <<incidents, aiVars>>
  BY <1>1 DEF Investigate, Starts
<1>5. ~At(r, "enqueue") /\ h.step # "enqueue"
  BY <1>1, <1>4 DEF At
<1> QED  BY <1>3, <1>4, <1>5, QuietStep

\* A dispatched job waits, and answers for the investigation.
LEMMA DispatchStep ==
  ASSUME InvestigationInv, NEW r \in Request, NEW j \in Job,
         NEW v \in DOMAIN investigations, Dispatch(j, v), Return(r, "done"),
         pc[r] = "working", At(r, "enqueue") => held[r].inv = v,
         UNCHANGED <<incidents, revision, investigations, tasks, executed>>
  PROVE  InvestigationInv'
<1>0. ShapeInv
  BY DEF InvestigationInv
<1>1. Later
  BY LaterSame
<1>2. Alone(r) /\ HandlerInv(r)'
  BY <1>0, <1>1, MovesAlone, MovesSound DEF Ended
<1>3. ShapeInv'
  BY <1>1, <1>2, ShapeStays
<1>4. \A w \in DOMAIN investigations' : DocInv(w)'
  BY <1>1, DocsStay
<1>5. /\ DOMAIN jobs' = DOMAIN jobs \cup {j}
      /\ jobs'[j].inv = v /\ jobs'[j].step = "waiting" /\ jobs'[j].stalls = 0
      /\ jobs'[j].kept => QueueActive
      /\ \A k \in DOMAIN jobs : jobs'[k] = jobs[k]
  <2>1. PICK kept :
          /\ kept => QueueActive
          /\ jobs' = [k \in DOMAIN jobs \cup {j} |->
                       IF k = j THEN NewJob(v, kept) ELSE jobs[k]]
    BY Zenon DEF Dispatch
  <2>2. PICK job : job = NewJob(v, kept)
    OBVIOUS
  <2>3. jobs' = [k \in DOMAIN jobs \cup {j} |-> IF k = j THEN job ELSE jobs[k]]
    BY <2>1, <2>2
  <2>4. /\ job.inv = v /\ job.step = "waiting" /\ job.stalls = 0
        /\ job.kept => QueueActive
    BY <2>1, <2>2 DEF NewJob
  <2>5. j \notin DOMAIN jobs
    BY DEF Dispatch
  <2> QED  BY <2>3, <2>4, <2>5
<1>6. ASSUME NEW k \in DOMAIN jobs' PROVE JobInv(k)'
  <2>1. CASE k \in DOMAIN jobs
    <3>1. JobInv(k) /\ DocInv(jobs[k].inv)
      BY <2>1 DEF InvestigationInv, JobInv
    <3> QED  BY <1>0, <1>1, <1>5, <2>1, <3>1, JobStays
  <2>2. CASE k = j
    <3>1. ~Running(j)'
      BY <1>5 DEF Running
    <3> QED  BY <1>5, <2>2, <3>1 DEF JobInv, JobStepName
  <2> QED  BY <1>5, <2>1, <2>2
<1>7. \A q \in Request : HandlerInv(q)'
  BY <1>1, <1>2, AloneStep
<1>8. Answered(v)'
  BY <1>5 DEF Answered, Answers
<1>9. ASSUME NEW w \in DOMAIN investigations, investigations[w].status = "QUEUED", w # v
      PROVE  Answered(w)'
  <2>1. Answered(w)
    BY <1>9, QueuedAnswered DEF InvestigationInv
  <2>2. ASSUME NEW q \in Request, At(q, "enqueue"), held[q].inv = w PROVE Answered(w)'
    <3>1. q # r
      BY <1>9, <2>2
    <3>2. At(q, "enqueue")' /\ held'[q].inv = w
      BY <1>2, <2>2, <3>1 DEF Alone, At
    <3> QED  BY <3>2 DEF Answered
  <2>3. ASSUME NEW q \in Request, investigations[w].by = q, pc[q] = "failed"
        PROVE  Answered(w)'
    <3>1. pc'[q] = "failed"
      BY <1>2, <2>3 DEF Alone
    <3> QED  BY <2>3, <3>1 DEF Answered
  <2>4. ASSUME NEW k \in DOMAIN jobs, jobs[k].inv = w, jobs[k].step \in Answers
        PROVE  Answered(w)'
    BY <1>5, <2>4 DEF Answered
  <2> QED  BY <2>1, <2>2, <2>3, <2>4 DEF Answered
<1>10. QueuedHasJob'
  BY <1>8, <1>9 DEF QueuedHasJob, Answered, Answers
<1> QED  BY <1>3, <1>4, <1>6, <1>7, <1>10 DEF InvestigationInv

\* The lookup answers, dispatches the job again, or goes on to record.
LEMMA LookupStep ==
  ASSUME InvestigationInv, NEW r \in Request, Lookup(r)
  PROVE  InvestigationInv'
<1> DEFINE i == held[r].incident
           version == held[r].version
           same == UNCHANGED <<incidents, revision, investigations, tasks, executed>>
<1>1. pc[r] = "working" /\ held[r].step = "lookup" /\ same
  BY DEF Lookup, At
<1>2. ~At(r, "enqueue")
  BY <1>1 DEF At
<1>3. ASSUME NEW v \in Reusable(i, version), NEW j \in Job, Dispatch(j, v),
             Return(r, "done")
      PROVE  InvestigationInv'
  <2>1. v \in DOMAIN investigations
    BY DEF Reusable
  <2> QED  BY <1>1, <1>2, <1>3, <2>1, DispatchStep
<1>4. ASSUME Return(r, "done"), UNCHANGED jobs PROVE InvestigationInv'
  BY <1>1, <1>2, <1>4, QuietStep DEF aiVars, Ended
<1>5. ASSUME Await(r, [step |-> "record", incident |-> i, version |-> version]),
             UNCHANGED jobs
      PROVE  InvestigationInv'
  <2>1. PICK h : h = [step |-> "record", incident |-> i, version |-> version]
    OBVIOUS
  <2>2. HeldInv(held[r])
    BY <1>1 DEF InvestigationInv, HandlerInv
  <2>3. HeldInv(h)
    BY <1>1, <2>1, <2>2 DEF HeldInv
  <2> QED  BY <1>1, <1>2, <1>5, <2>1, <2>3, QuietStep DEF aiVars
<1> QED  BY <1>3, <1>4, <1>5 DEF Lookup

\* A new document is sound, and its handler answers for it until the job is
\* dispatched.
LEMMA RecordStep ==
  ASSUME InvestigationInv, NEW r \in Request, NEW v \in Investigation,
         RecordInvestigation(r, v)
  PROVE  InvestigationInv'
<1> DEFINE h == held[r]
           d == [incident |-> h.incident, version |-> h.version, status |-> "QUEUED",
                 action |-> None, findings |-> None, ver |-> 0, by |-> r]
<1>0. ShapeInv
  BY DEF InvestigationInv
<1>1. /\ pc[r] = "working" /\ h.step = "record" /\ v \notin DOMAIN investigations
      /\ DOMAIN investigations' = DOMAIN investigations \cup {v}
      /\ investigations'[v] = d
      /\ \A w \in DOMAIN investigations : investigations'[w] = investigations[w]
      /\ Await(r, [step |-> "enqueue", inv |-> v])
      /\ UNCHANGED <<incidents, revision, jobs, tasks, executed>>
  BY DEF RecordInvestigation, At
<1>2. HeldInv(h)
  BY <1>1 DEF InvestigationInv, HandlerInv
<1>3. Later
  <2>1. \A w \in DOMAIN investigations : investigations[w].ver \in Nat
    BY DEF InvestigationInv, DocInv, Sound
  <2> HIDE DEF d
  <2> QED  BY <1>0, <1>1, <2>1 DEF Later, ShapeInv
<1>4. DocInv(v)'
  <2>0. PICK e : e = d
    OBVIOUS
  <2>1. Sound(v, e)'
    BY <1>1, <1>2, <2>0 DEF Sound, HeldInv, InvestigationField, Open
  <2>2. Sound(v, investigations[v])'
    <3> HIDE DEF d
    <3> QED  BY <1>1, <2>0, <2>1
  <2> QED  BY <2>2 DEF DocInv
<1>5. \A w \in DOMAIN investigations' : DocInv(w)'
  BY <1>0, <1>1, <1>3, <1>4, DocStays DEF InvestigationInv
<1>6. \A j \in DOMAIN jobs' : JobInv(j)'
  BY <1>1, <1>3, JobsStay
<1>7. Alone(r) /\ pc'[r] = "working" /\ held'[r] = [step |-> "enqueue", inv |-> v]
  BY <1>0, <1>1, MovesAlone
<1>8. HandlerInv(r)'
  <2>1. PICK e : e = [step |-> "enqueue", inv |-> v]
    OBVIOUS
  <2>2. HeldInv(e)'
    BY <1>1, <2>1 DEF HeldInv
  <2>3. investigations'[e.inv].by = r
    BY <1>1, <2>1
  <2> QED  BY <1>1, <1>3, <2>1, <2>2, <2>3, MovesSound
<1>9. ShapeInv'
  BY <1>1, <1>3, <1>7, ShapeStays
<1>10. \A q \in Request : HandlerInv(q)'
  BY <1>3, <1>7, <1>8, AloneStep
<1>11. Answered(v)'
  BY <1>7 DEF Answered, At
<1>12. ASSUME NEW w \in DOMAIN investigations, investigations[w].status = "QUEUED"
       PROVE  Answered(w)'
  <2>1. Answered(w)
    BY <1>12, QueuedAnswered DEF InvestigationInv
  <2>2. ~At(r, "enqueue") /\ pc[r] # "failed"
    BY <1>1 DEF At
  <2> QED  BY <1>1, <1>7, <2>1, <2>2, AnsweredStays
<1>13. QueuedHasJob'
  BY <1>1, <1>11, <1>12 DEF QueuedHasJob, Answered, Answers
<1> QED  BY <1>5, <1>6, <1>9, <1>10, <1>13 DEF InvestigationInv

\* Enqueueing dispatches the job of the recorded investigation.
LEMMA EnqueueStep ==
  ASSUME InvestigationInv, NEW r \in Request, Enqueue(r)
  PROVE  InvestigationInv'
<1>1. pc[r] = "working" /\ held[r].step = "enqueue"
  BY DEF Enqueue, At
<1>2. HeldInv(held[r])
  BY <1>1 DEF InvestigationInv, HandlerInv
<1>3. held[r].inv \in DOMAIN investigations
  BY <1>1, <1>2 DEF HeldInv
<1> QED  BY <1>1, <1>3, DispatchStep DEF Enqueue

-----------------------------------------------------------------------------
(* Jobs.                                                                   *)

\* The document after the job's save, and the copy the job keeps.
After(v, d, copy, wanted) ==
  [Applied(d, SaveCommand(v, copy, wanted, {"findings"})) EXCEPT !.ver = d.ver + 1]

\* Field by field, what the save of a job leaves behind.
LEMMA AfterDoes ==
  ASSUME NEW v, NEW d, NEW copy, NEW wanted, DOMAIN d = InvestigationField,
         DOMAIN copy = InvestigationField, DOMAIN wanted = InvestigationField
  PROVE  /\ DOMAIN After(v, d, copy, wanted) = InvestigationField
         /\ After(v, d, copy, wanted).ver = d.ver + 1
         /\ \A f \in InvestigationField \ {"ver"} :
              After(v, d, copy, wanted)[f] =
                IF wanted[f] # copy[f] THEN wanted[f] ELSE d[f]
<1> DEFINE c == SaveCommand(v, copy, wanted, {"findings"})
           a == Applied(d, c)
<1>1. c.set = [f \in Dirty(copy, wanted) |-> wanted[f]]
  BY DEF SaveCommand
<1>2. Dirty(copy, wanted) = {f \in InvestigationField : wanted[f] # copy[f]}
  BY DEF Dirty
<1> HIDE DEF c
<1>3. DOMAIN a = InvestigationField
  BY DEF Applied
<1>4. \A f \in InvestigationField \ {"ver"} :
        a[f] = IF wanted[f] # copy[f] THEN wanted[f] ELSE d[f]
  BY <1>1, <1>2 DEF Applied
<1>5. After(v, d, copy, wanted) = [a EXCEPT !["ver"] = d.ver + 1]
  BY DEF After, c
<1>6. "ver" \in InvestigationField
  BY DEF InvestigationField
<1> HIDE DEF a
<1> QED  BY <1>3, <1>4, <1>5, <1>6

\* The copy after a save differs in its version only.
LEMMA SavedDoes ==
  ASSUME NEW d, DOMAIN d = InvestigationField
  PROVE  /\ DOMAIN Saved(d) = InvestigationField
         /\ Saved(d).ver = d.ver + 1
         /\ \A f \in InvestigationField \ {"ver"} : Saved(d)[f] = d[f]
BY DEF Saved, InvestigationField

\* What a job has saved is sound, and the copy it keeps is in keeping with it.
LEMMA AfterSound ==
  ASSUME NEW v, NEW d, NEW copy, NEW wanted, Sound(v, d), Sound(v, copy),
         Sound(v, wanted), Work(d, copy, wanted)
  PROVE  /\ Sound(v, After(v, d, copy, wanted))
         /\ Sound(v, Saved(wanted))
         /\ Work(After(v, d, copy, wanted), Saved(wanted), Saved(wanted))
         /\ After(v, d, copy, wanted).ver = d.ver + 1
         /\ After(v, d, copy, wanted).status # "QUEUED"
         /\ After(v, d, copy, wanted).by = d.by
         /\ d.findings # None => After(v, d, copy, wanted).findings # None
<1> DEFINE e == After(v, d, copy, wanted)
           s == Saved(wanted)
<1>1. /\ DOMAIN d = InvestigationField /\ DOMAIN copy = InvestigationField
      /\ DOMAIN wanted = InvestigationField
      /\ d.ver \in Nat /\ copy.ver \in Nat /\ wanted.ver \in Nat
  BY DEF Sound
<1>2. /\ DOMAIN e = InvestigationField /\ e.ver = d.ver + 1
      /\ e.incident = d.incident /\ e.version = d.version /\ e.by = d.by
      /\ e.status = IF wanted.status # copy.status THEN wanted.status ELSE d.status
      /\ e.action = IF wanted.action # copy.action THEN wanted.action ELSE d.action
      /\ e.findings = IF wanted.findings # copy.findings THEN wanted.findings
                                                         ELSE d.findings
  BY <1>1, AfterDoes DEF InvestigationField, Work
<1>3. /\ DOMAIN s = InvestigationField /\ s.ver = wanted.ver + 1
      /\ s.incident = wanted.incident /\ s.version = wanted.version
      /\ s.by = wanted.by
      /\ s.status = wanted.status /\ s.action = wanted.action
      /\ s.findings = wanted.findings
  BY <1>1, SavedDoes DEF InvestigationField
<1> HIDE DEF e, s
<1>4. e.status # "QUEUED" /\ (d.findings # None => e.findings # None)
  BY <1>2 DEF Work
<1>5. wanted.findings # None => e.findings # None
  BY <1>2 DEF Work
<1>6. e.status = "COMPLETED" => e.findings # None
  BY <1>2, <1>4, <1>5 DEF Sound
<1>7. e.action # None => /\ DOMAIN e.action = ActionField
                         /\ IsAction(e.action)
                         /\ e.findings # None
                         /\ e.action.status = "EXECUTED" => \E x \in executed : x.inv = v
  <2>1. CASE e.action = wanted.action
    BY <2>1, <1>5 DEF Sound
  <2>2. CASE e.action = d.action
    BY <2>2, <1>4 DEF Sound
  <2> QED  BY <1>2, <2>1, <2>2
<1>8. Sound(v, e)
  <2>1. e.status \in Open \cup {"COMPLETED", "FAILED"}
    BY <1>2 DEF Sound
  <2>2. e.findings \in Job \cup {None}
    BY <1>2 DEF Sound
  <2>3. /\ e.incident \in DOMAIN incidents
        /\ e.version \in Nat /\ e.version <= revision[e.incident]
    BY <1>2 DEF Sound
  <2>4. e.ver \in Nat
    BY <1>1, <1>2
  <2> QED  BY <1>2, <1>6, <1>7, <2>1, <2>2, <2>3, <2>4 DEF Sound
<1>9. Sound(v, s)
  <2>1. s.ver \in Nat
    BY <1>1, <1>3
  <2> QED  BY <1>3, <2>1 DEF Sound
<1>10. Work(e, s, s)
  <2>1. s.ver <= e.ver
    BY <1>1, <1>2, <1>3 DEF Work
  <2>2. s.status # "QUEUED"
    BY <1>3 DEF Work
  <2> QED  BY <1>3, <1>4, <1>5, <2>1, <2>2 DEF Work
<1> QED  BY <1>2, <1>4, <1>8, <1>9, <1>10 DEF e, s

\* The job's save takes place.
LEMMA StoredStep ==
  ASSUME InvestigationInv, NEW j \in DOMAIN jobs, Running(j),
         Stored(jobs[j].inv, Assigned(j)),
         UNCHANGED <<incidents, revision, executed>>
  PROVE  /\ Later
         /\ DOMAIN investigations' = DOMAIN investigations
         /\ \A v \in DOMAIN investigations' : DocInv(v)'
         /\ \A v \in DOMAIN investigations \ {jobs[j].inv} :
              investigations'[v] = investigations[v]
         /\ investigations'[jobs[j].inv].status # "QUEUED"
         /\ Sound(jobs[j].inv, Saved(jobs[j].wanted))
         /\ Work(investigations'[jobs[j].inv], Saved(jobs[j].wanted), Saved(jobs[j].wanted))
<1>0. ShapeInv
  BY DEF InvestigationInv
<1>1. PICK v, copy, wanted : v = jobs[j].inv /\ copy = jobs[j].copy /\ wanted = jobs[j].wanted
  OBVIOUS
<1>2. /\ v \in DOMAIN investigations
      /\ Sound(v, copy) /\ Sound(v, wanted) /\ Work(investigations[v], copy, wanted)
  BY <1>1 DEF InvestigationInv, JobInv
<1>3. PICK d : d = investigations[v]
  OBVIOUS
<1>4. Sound(v, d)
  BY <1>2, <1>3 DEF InvestigationInv, DocInv
<1>5. investigations' = [investigations EXCEPT ![v] = After(v, d, copy, wanted)]
  BY <1>1, <1>3 DEF Stored, Assigned, After
<1>6. PICK e : e = After(v, d, copy, wanted)
  OBVIOUS
<1>7. /\ Sound(v, e) /\ Sound(v, Saved(wanted)) /\ Work(e, Saved(wanted), Saved(wanted))
      /\ e.ver = d.ver + 1 /\ e.status # "QUEUED" /\ e.by = d.by
      /\ d.findings # None => e.findings # None
  BY <1>2, <1>3, <1>4, <1>6, AfterSound
<1>8. /\ DOMAIN investigations' = DOMAIN investigations
      /\ investigations'[v] = e
      /\ \A w \in DOMAIN investigations \ {v} : investigations'[w] = investigations[w]
  BY <1>2, <1>5, <1>6
<1>9. Later
  <2>1. \A w \in DOMAIN investigations : investigations[w].ver \in Nat
    BY DEF InvestigationInv, DocInv, Sound
  <2> QED  BY <1>0, <1>3, <1>7, <1>8, <2>1 DEF Later, ShapeInv
<1>10. DocInv(v)'
  <2>1. Sound(v, e)'
    BY <1>0, <1>7, <1>9, SoundStays
  <2>2. Sound(v, investigations[v])'
    BY <1>8, <2>1
  <2> QED  BY <1>2, <2>2 DEF InvestigationInv, DocInv
<1>11. \A w \in DOMAIN investigations' : DocInv(w)'
  BY <1>0, <1>8, <1>9, <1>10, DocStays DEF InvestigationInv
<1> QED  BY <1>1, <1>7, <1>8, <1>9, <1>11

\* Handlers at rest during a job's step.
LEMMA HandlersRest ==
  ASSUME InvestigationInv, Later, UNCHANGED <<vars, revision, tasks>>
  PROVE  ShapeInv' /\ \A q \in Request : HandlerInv(q)'
<1>1. ShapeInv'
  BY DEF InvestigationInv, ShapeInv, IsDoc, vars
<1>2. \A q \in Request : HandlerInv(q)'
  BY HandlerStays DEF InvestigationInv, vars
<1> QED  BY <1>1, <1>2

\* Only job j moves, and it keeps its investigation.
JobAlone(j) ==
  /\ DOMAIN jobs' = DOMAIN jobs
  /\ \A k \in DOMAIN jobs \ {j} : jobs'[k] = jobs[k]
  /\ jobs'[j].inv = jobs[j].inv
  /\ jobs'[j].stalls = jobs[j].stalls
  /\ jobs'[j].kept = jobs[j].kept

\* A job that goes on or ends changes nothing of another job.
LEMMA JobMoves ==
  ASSUME NEW j \in DOMAIN jobs
  PROVE  /\ \A step, copy, wanted : JobGoesOn(j, step, copy, wanted) =>
              /\ JobAlone(j) /\ jobs'[j].step = step
              /\ jobs'[j].copy = copy /\ jobs'[j].wanted = wanted
         /\ \A step : EndJob(j, step) => JobAlone(j) /\ jobs'[j].step = step
<1>1. ASSUME NEW step, NEW copy, NEW wanted, JobGoesOn(j, step, copy, wanted)
      PROVE  /\ JobAlone(j) /\ jobs'[j].step = step
             /\ jobs'[j].copy = copy /\ jobs'[j].wanted = wanted
  BY <1>1 DEF JobGoesOn, JobAlone
<1>2. \A step : EndJob(j, step) => JobAlone(j) /\ jobs'[j].step = step
  BY DEF EndJob, AtRest, JobAlone
<1> QED  BY <1>1, <1>2

\* A job that moves alone has only itself to answer for.
LEMMA JobAloneStep ==
  ASSUME InvestigationInv, Later, NEW j \in DOMAIN jobs, JobAlone(j), JobInv(j)'
  PROVE  \A k \in DOMAIN jobs' : JobInv(k)'
<1> SUFFICES ASSUME NEW k \in DOMAIN jobs, k # j PROVE JobInv(k)'
  BY DEF JobAlone
<1>1. JobInv(k) /\ DocInv(jobs[k].inv)
  BY DEF InvestigationInv, JobInv
<1> QED  BY <1>1, JobStays DEF InvestigationInv, JobAlone

\* The job's investigation has a job as long as it may be QUEUED.
LEMMA JobAnswers ==
  ASSUME InvestigationInv, Later, NEW j \in DOMAIN jobs, JobAlone(j), UNCHANGED vars,
         DOMAIN investigations' = DOMAIN investigations,
         \A v \in DOMAIN investigations \ {jobs[j].inv} :
           investigations'[v] = investigations[v],
         \/ investigations'[jobs[j].inv].status # "QUEUED"
         \/ /\ UNCHANGED investigations
            /\ jobs[j].step \in Answers /\ investigations[jobs[j].inv].status = "QUEUED"
                 => jobs'[j].step \in Answers
  PROVE  QueuedHasJob'
<1> SUFFICES ASSUME NEW v \in DOMAIN investigations, investigations'[v].status = "QUEUED"
             PROVE  Answered(v)'
  BY DEF QueuedHasJob, Answered, Answers
<1>1. investigations[v].status = "QUEUED" /\ investigations'[v].by = investigations[v].by
  BY DEF Later
<1>2. Answered(v)
  BY <1>1, QueuedAnswered DEF InvestigationInv
<1>3. ASSUME NEW k \in DOMAIN jobs, jobs[k].inv = v, jobs[k].step \in Answers
      PROVE  Answered(v)'
  <2>1. CASE k # j
    BY <1>3, <2>1 DEF JobAlone, Answered
  <2>2. CASE k = j
    BY <1>1, <1>3, <2>2 DEF JobAlone, Answered
  <2> QED  BY <2>1, <2>2
<1>4. ASSUME NEW q \in Request, At(q, "enqueue"), held[q].inv = v PROVE Answered(v)'
  BY <1>4 DEF Answered, At, vars
<1>5. ASSUME NEW q \in Request, investigations[v].by = q, pc[q] = "failed"
      PROVE  Answered(v)'
  BY <1>1, <1>5 DEF Answered, vars
<1> QED  BY <1>2, <1>3, <1>4, <1>5 DEF Answered

\* A job that goes on with sound copies, or ends, is sound.
LEMMA GoesOnSound ==
  ASSUME InvestigationInv, Later, NEW j \in DOMAIN jobs,
         NEW step \in JobStepName, NEW copy, NEW wanted,
         JobGoesOn(j, step, copy, wanted),
         Sound(jobs[j].inv, copy), Sound(jobs[j].inv, wanted),
         Work(investigations'[jobs[j].inv], copy, wanted)
  PROVE  JobAlone(j) /\ jobs'[j].step = step /\ JobInv(j)'
<1>0. ShapeInv /\ JobInv(j)
  BY DEF InvestigationInv
<1>1. /\ JobAlone(j) /\ jobs'[j].step = step
      /\ jobs'[j].copy = copy /\ jobs'[j].wanted = wanted
  BY JobMoves
<1>2. PICK v : v = jobs[j].inv
  OBVIOUS
<1>3. Sound(v, copy)' /\ Sound(v, wanted)'
  BY <1>0, <1>2, SoundStays
<1>4. jobs'[j].inv = v /\ v \in DOMAIN investigations'
  BY <1>0, <1>1, <1>2 DEF JobAlone, JobInv, Later
<1>5. Sound(v, jobs[j].copy)' /\ Sound(v, jobs[j].wanted)'
  BY <1>1, <1>3
<1>6. Work(investigations'[v], jobs'[j].copy, jobs'[j].wanted)
  BY <1>1, <1>2
<1>7. /\ j \in Job /\ jobs'[j].stalls \in Nat /\ jobs'[j].step \in JobStepName
      /\ jobs'[j].kept => QueueActive
  BY <1>0, <1>1 DEF JobInv, JobAlone
<1> QED  BY <1>1, <1>4, <1>5, <1>6, <1>7 DEF JobInv

\* A job that ends is sound.
LEMMA EndSound ==
  ASSUME InvestigationInv, Later, NEW j \in DOMAIN jobs, NEW step \in Over, EndJob(j, step)
  PROVE  JobAlone(j) /\ jobs'[j].step = step /\ JobInv(j)'
<1>0. JobInv(j)
  BY DEF InvestigationInv
<1>1. JobAlone(j) /\ jobs'[j].step = step
  BY JobMoves
<1>2. ~Running(j)'
  BY <1>1 DEF Running
<1> QED  BY <1>0, <1>1, <1>2 DEF JobInv, JobAlone, JobStepName, Later

\* Assigning the status, or a whole outcome, to a copy.
LEMMA StatusSound ==
  ASSUME NEW v, NEW copy, NEW d, NEW wanted, Sound(v, copy), Sound(v, wanted),
         Work(d, copy, wanted), NEW s \in {"RUNNING", "FAILED"}
  PROVE  /\ Sound(v, [wanted EXCEPT !.status = s])
         /\ Work(d, copy, [wanted EXCEPT !.status = s])
<1> DEFINE w == [wanted EXCEPT !["status"] = s]
<1>1. /\ DOMAIN w = InvestigationField /\ w.status = s
      /\ w.incident = wanted.incident /\ w.version = wanted.version
      /\ w.findings = wanted.findings /\ w.action = wanted.action /\ w.ver = wanted.ver
      /\ w.by = wanted.by
  BY DEF Sound, InvestigationField
<1> HIDE DEF w
<1>2. Sound(v, w)
  BY <1>1 DEF Sound, Open
<1>3. Work(d, copy, w)
  BY <1>1 DEF Work
<1> QED  BY <1>2, <1>3 DEF w

\* The outcome a job assigns to its copy is sound: findings come with it, and its
\* action is pending.
LEMMA OutcomeSound ==
  ASSUME NEW v, NEW copy, NEW d, Sound(v, copy), Work(d, copy, copy),
         NEW j \in Job, NEW p \in Proposal
  PROVE  LET w == [copy EXCEPT !.status = "COMPLETED", !.findings = j,
                               !.action = Pending(p)]
         IN Sound(v, w) /\ Work(d, copy, w)
<1> DEFINE w == [copy EXCEPT !["status"] = "COMPLETED", !["findings"] = j,
                             !["action"] = Pending(p)]
<1>1. /\ DOMAIN w = InvestigationField /\ w.status = "COMPLETED"
      /\ w.incident = copy.incident /\ w.version = copy.version
      /\ w.findings = j /\ w.action = Pending(p) /\ w.ver = copy.ver
      /\ w.by = copy.by
  BY DEF Sound, InvestigationField
<1>2. j # None
  BY JobAssumption
<1>3. Pending(p) # None => /\ DOMAIN Pending(p) = ActionField
                           /\ IsAction(Pending(p))
                           /\ Pending(p).status # "EXECUTED"
  BY DEF Pending, ActionField, IsAction
<1> HIDE DEF w
<1>4. Sound(v, w)
  BY <1>1, <1>2, <1>3 DEF Sound
<1>5. Work(d, copy, w)
  BY <1>1, <1>2 DEF Work
<1> QED  BY <1>4, <1>5 DEF w

\* A worker takes the job and loads its document.
LEMMA TakeJobStep ==
  ASSUME InvestigationInv, NEW j \in Job, TakeJob(j)
  PROVE  InvestigationInv'
<1>1. /\ j \in DOMAIN jobs /\ jobs[j].step = "waiting"
      /\ UNCHANGED <<vars, revision, investigations, tasks, executed>>
  BY DEF TakeJob, InStep
<1>2. PICK v, doc : v = jobs[j].inv /\ doc = investigations[v]
  OBVIOUS
<1>3. v \in DOMAIN investigations /\ Sound(v, doc)
  BY <1>1, <1>2 DEF InvestigationInv, JobInv, DocInv
<1>4. PICK wanted : wanted = [doc EXCEPT !.status = "RUNNING"]
  OBVIOUS
<1>5. JobGoesOn(j, "mark", doc, wanted)
  BY <1>2, <1>4 DEF TakeJob
<1>6. Sound(v, wanted) /\ Work(doc, doc, wanted)
  <2>1. /\ DOMAIN wanted = InvestigationField /\ wanted.status = "RUNNING"
        /\ wanted.incident = doc.incident /\ wanted.version = doc.version
        /\ wanted.findings = doc.findings /\ wanted.action = doc.action
        /\ wanted.ver = doc.ver /\ wanted.by = doc.by
    BY <1>3, <1>4 DEF Sound, InvestigationField
  <2>2. Sound(v, wanted)
    BY <1>3, <2>1 DEF Sound, Open
  <2>3. Work(doc, doc, wanted)
    BY <1>3, <2>1 DEF Work, Sound
  <2> QED  BY <2>2, <2>3
<1>7. Later
  BY <1>1, LaterSame DEF vars
<1>8. JobAlone(j) /\ jobs'[j].step = "mark" /\ JobInv(j)'
  BY <1>1, <1>2, <1>3, <1>5, <1>6, <1>7, GoesOnSound DEF JobStepName
<1>9. \A v1 \in DOMAIN investigations' : DocInv(v1)'
  BY <1>1, <1>7, DocsStay
<1>10. \A k \in DOMAIN jobs' : JobInv(k)'
  BY <1>1, <1>7, <1>8, JobAloneStep
<1>11. QueuedHasJob'
  BY <1>1, <1>7, <1>8, JobAnswers DEF Answers
<1> QED  BY <1>1, <1>7, <1>9, <1>10, <1>11, HandlersRest DEF InvestigationInv

\* The document cannot be loaded, and nobody runs the job again.
LEMMA FailToLoadStep ==
  ASSUME InvestigationInv, NEW j \in Job, FailToLoad(j)
  PROVE  InvestigationInv'
<1>1. /\ j \in DOMAIN jobs /\ EndJob(j, "lost") /\ "lost" \in Over
      /\ UNCHANGED <<vars, revision, investigations, tasks, executed>>
  BY DEF FailToLoad, InStep, Over
<1>2. Later
  BY <1>1, LaterSame DEF vars
<1>3. JobAlone(j) /\ jobs'[j].step = "lost" /\ JobInv(j)'
  BY <1>1, <1>2, EndSound
<1>4. \A v \in DOMAIN investigations' : DocInv(v)'
  BY <1>1, <1>2, DocsStay
<1>5. \A k \in DOMAIN jobs' : JobInv(k)'
  BY <1>1, <1>2, <1>3, JobAloneStep
<1>6. QueuedHasJob'
  BY <1>1, <1>2, <1>3, JobAnswers DEF Answers
<1> QED  BY <1>1, <1>2, <1>4, <1>5, <1>6, HandlersRest DEF InvestigationInv

\* A job that saved, and goes on with what it saved.
LEMMA SavedStep ==
  ASSUME InvestigationInv, NEW j \in DOMAIN jobs, Running(j),
         Stored(jobs[j].inv, Assigned(j)),
         UNCHANGED <<vars, revision, tasks, executed>>,
         \/ EndJob(j, "ended")
         \/ \E step \in JobStepName : \E wanted :
              /\ JobGoesOn(j, step, Saved(jobs[j].wanted), wanted)
              /\ Sound(jobs[j].inv, wanted)
              /\ Work(investigations'[jobs[j].inv], Saved(jobs[j].wanted), wanted)
  PROVE  InvestigationInv'
<1>1. /\ Later
      /\ DOMAIN investigations' = DOMAIN investigations
      /\ \A v \in DOMAIN investigations' : DocInv(v)'
      /\ \A v \in DOMAIN investigations \ {jobs[j].inv} :
           investigations'[v] = investigations[v]
      /\ investigations'[jobs[j].inv].status # "QUEUED"
      /\ Sound(jobs[j].inv, Saved(jobs[j].wanted))
  BY StoredStep DEF vars
<1>2. JobAlone(j) /\ JobInv(j)'
  <2>1. CASE EndJob(j, "ended")
    BY <1>1, <2>1, EndSound DEF Over
  <2>2. ASSUME NEW step \in JobStepName, NEW wanted,
               JobGoesOn(j, step, Saved(jobs[j].wanted), wanted),
               Sound(jobs[j].inv, wanted),
               Work(investigations'[jobs[j].inv], Saved(jobs[j].wanted), wanted)
        PROVE  JobAlone(j) /\ JobInv(j)'
    BY <1>1, <2>2, GoesOnSound
  <2> QED  BY <2>1, <2>2
<1>3. \A k \in DOMAIN jobs' : JobInv(k)'
  BY <1>1, <1>2, JobAloneStep
<1>4. QueuedHasJob'
  BY <1>1, <1>2, JobAnswers
<1> QED  BY <1>1, <1>3, <1>4, HandlersRest DEF InvestigationInv

\* A job that goes on without a save.
LEMMA UnsavedStep ==
  ASSUME InvestigationInv, NEW j \in DOMAIN jobs, Running(j),
         UNCHANGED <<vars, revision, investigations, tasks, executed>>,
         \/ GoesToCatch(j)
         \/ \E step \in Over :
              /\ EndJob(j, step)
              /\ jobs[j].step \in Answers /\ investigations[jobs[j].inv].status = "QUEUED"
                   => step \in Answers
  PROVE  InvestigationInv'
<1>1. Later
  BY LaterSame DEF vars
<1>2. PICK v, copy, wanted, d : /\ v = jobs[j].inv /\ copy = jobs[j].copy
                                /\ wanted = jobs[j].wanted /\ d = investigations[v]
  OBVIOUS
<1>3. Sound(v, copy) /\ Sound(v, wanted) /\ Work(d, copy, wanted)
  BY <1>2 DEF InvestigationInv, JobInv
<1>4. /\ JobAlone(j) /\ JobInv(j)'
      /\ jobs[j].step \in Answers /\ investigations[jobs[j].inv].status = "QUEUED"
           => jobs'[j].step \in Answers
  <2>1. ASSUME NEW step \in Over, EndJob(j, step)
        PROVE  JobAlone(j) /\ JobInv(j)' /\ jobs'[j].step = step
    BY <1>1, <2>1, EndSound
  <2>2. CASE GoesToCatch(j)
    <3>1. PICK w : w = [wanted EXCEPT !.status = "FAILED"]
      OBVIOUS
    <3>2. Sound(v, w) /\ Work(d, copy, w)
      BY <1>3, <3>1, StatusSound
    <3>3. "abort" \in JobStepName /\ JobGoesOn(j, "abort", copy, w)
      BY <1>2, <2>2, <3>1 DEF JobStepName, GoesToCatch
    <3>4. d = investigations'[jobs[j].inv]
      BY <1>2
    <3>5. JobAlone(j) /\ JobInv(j)' /\ jobs'[j].step = "abort"
      BY <1>1, <1>2, <1>3, <3>2, <3>3, <3>4, GoesOnSound
    <3> QED  BY <3>5 DEF Answers
  <2> QED  BY <2>1, <2>2
<1>5. \A w \in DOMAIN investigations' : DocInv(w)'
  BY <1>1, DocsStay
<1>6. \A k \in DOMAIN jobs' : JobInv(k)'
  BY <1>1, <1>4, JobAloneStep
<1>8. QueuedHasJob'
  BY <1>1, <1>4, JobAnswers
<1> QED  BY <1>1, <1>5, <1>6, <1>8, HandlersRest DEF InvestigationInv

\* The job saves that it is RUNNING, or fails to.
LEMMA MarkRunningStep ==
  ASSUME InvestigationInv, NEW j \in Job, MarkRunning(j)
  PROVE  InvestigationInv'
<1>1. /\ j \in DOMAIN jobs /\ Running(j)
      /\ UNCHANGED <<vars, revision, tasks, executed>>
  BY DEF MarkRunning, InStep, Running, Over
<1>2. CASE /\ Stored(jobs[j].inv, Assigned(j))
           /\ JobGoesOn(j, "progress", Saved(jobs[j].wanted), Saved(jobs[j].wanted))
  <2>1. /\ Sound(jobs[j].inv, Saved(jobs[j].wanted))
        /\ Work(investigations'[jobs[j].inv], Saved(jobs[j].wanted), Saved(jobs[j].wanted))
    BY <1>1, <1>2, StoredStep DEF vars
  <2>2. "progress" \in JobStepName
    BY DEF JobStepName
  <2> QED  BY <1>1, <1>2, <2>1, <2>2, SavedStep
<1>3. CASE GoesToCatch(j) /\ UNCHANGED investigations
  BY <1>1, <1>3, UnsavedStep
<1> QED  BY <1>2, <1>3 DEF MarkRunning

\* The job saves its progress and assigns the outcome, or the failure.
LEMMA AskProviderStep ==
  ASSUME InvestigationInv, NEW j \in Job, AskProvider(j)
  PROVE  InvestigationInv'
<1>1. /\ j \in DOMAIN jobs /\ Running(j)
      /\ UNCHANGED <<vars, revision, tasks, executed>>
  BY DEF AskProvider, InStep, Running, Over
<1>2. PICK v, copy, d : /\ v = jobs[j].inv /\ copy = Saved(jobs[j].wanted)
                        /\ d = investigations'[jobs[j].inv]
  OBVIOUS
<1>3. ASSUME Stored(jobs[j].inv, Assigned(j))
      PROVE  Sound(v, copy) /\ Work(d, copy, copy)
  BY <1>1, <1>2, <1>3, StoredStep DEF vars
<1>4. ASSUME NEW p \in Proposal, Stored(jobs[j].inv, Assigned(j)),
             JobGoesOn(j, "finish", copy, [copy EXCEPT !.status = "COMPLETED",
                         !.findings = j, !.action = Pending(p)])
      PROVE  InvestigationInv'
  <2>1. PICK w : w = [copy EXCEPT !.status = "COMPLETED", !.findings = j,
                                  !.action = Pending(p)]
    OBVIOUS
  <2>2. Sound(v, w) /\ Work(d, copy, w)
    BY <1>3, <1>4, <2>1, OutcomeSound
  <2>3. "finish" \in JobStepName
    BY DEF JobStepName
  <2> QED  BY <1>1, <1>2, <1>4, <2>1, <2>2, <2>3, SavedStep
<1>5. ASSUME Stored(jobs[j].inv, Assigned(j)),
             JobGoesOn(j, "abort", copy, [copy EXCEPT !.status = "FAILED"])
      PROVE  InvestigationInv'
  <2>1. PICK w : w = [copy EXCEPT !.status = "FAILED"]
    OBVIOUS
  <2>2. Sound(v, w) /\ Work(d, copy, w)
    BY <1>3, <1>5, <2>1, StatusSound
  <2>3. "abort" \in JobStepName
    BY DEF JobStepName
  <2> QED  BY <1>1, <1>2, <1>5, <2>1, <2>2, <2>3, SavedStep
<1>6. CASE GoesToCatch(j) /\ UNCHANGED investigations
  BY <1>1, <1>6, UnsavedStep
<1> QED  BY <1>2, <1>4, <1>5, <1>6 DEF AskProvider

\* The outcome is saved, or refused or lost and given up for FAILED.
LEMMA FinishStep ==
  ASSUME InvestigationInv, NEW j \in Job, Finish(j)
  PROVE  InvestigationInv'
<1>1. /\ j \in DOMAIN jobs /\ Running(j)
      /\ UNCHANGED <<vars, revision, tasks, executed>>
  BY DEF Finish, InStep, Running, Over
<1>2. CASE /\ Stored(jobs[j].inv, Assigned(j))
           /\ JobGoesOn(j, "audit", Saved(jobs[j].wanted), Saved(jobs[j].wanted))
  <2>1. /\ Sound(jobs[j].inv, Saved(jobs[j].wanted))
        /\ Work(investigations'[jobs[j].inv], Saved(jobs[j].wanted), Saved(jobs[j].wanted))
    BY <1>1, <1>2, StoredStep DEF vars
  <2>2. "audit" \in JobStepName
    BY DEF JobStepName
  <2> QED  BY <1>1, <1>2, <2>1, <2>2, SavedStep
<1>3. CASE GoesToCatch(j) /\ UNCHANGED investigations
  BY <1>1, <1>3, UnsavedStep
<1> QED  BY <1>2, <1>3 DEF Finish

\* The audit entry ends the job, or sends it to its failure.
LEMMA AuditOutcomeStep ==
  ASSUME InvestigationInv, NEW j \in Job, AuditOutcome(j)
  PROVE  InvestigationInv'
<1>1. /\ j \in DOMAIN jobs /\ Running(j) /\ jobs[j].step \notin Answers
      /\ EndJob(j, "ended") \/ GoesToCatch(j)
      /\ UNCHANGED <<vars, revision, investigations, tasks, executed>>
  BY DEF AuditOutcome, InStep, Running, Over, Answers
<1>2. "ended" \in Over
  BY DEF Over
<1> QED  BY <1>1, <1>2, UnsavedStep

\* A save that is refused demands a version, so it assigns an outcome, and its
\* job has stored RUNNING.
LEMMA RefusedStarted ==
  ASSUME InvestigationInv, NEW j \in DOMAIN jobs, Running(j),
         ~Accepts(investigations[jobs[j].inv], Assigned(j))
  PROVE  investigations[jobs[j].inv].status # "QUEUED"
<1>1. PICK v, copy, wanted : v = jobs[j].inv /\ copy = jobs[j].copy /\ wanted = jobs[j].wanted
  OBVIOUS
<1>2. Work(investigations[v], copy, wanted)
  BY <1>1 DEF InvestigationInv, JobInv
<1>3. Dirty(copy, wanted) \cap {"findings"} # {}
  BY <1>1 DEF Accepts, Assigned, SaveCommand
<1>4. wanted.findings # copy.findings
  BY <1>3 DEF Dirty
<1> QED  BY <1>1, <1>2, <1>4 DEF Work

\* The failure is saved, refused or lost, and the job ends.
LEMMA AbortStep ==
  ASSUME InvestigationInv, NEW j \in Job, Abort(j)
  PROVE  InvestigationInv'
<1>1. /\ j \in DOMAIN jobs /\ Running(j)
      /\ UNCHANGED <<vars, revision, tasks, executed>>
  BY DEF Abort, InStep, Running, Over
<1>2. CASE Stored(jobs[j].inv, Assigned(j)) /\ EndJob(j, "ended")
  BY <1>1, <1>2, SavedStep
<1>3. CASE /\ ~Accepts(investigations[jobs[j].inv], Assigned(j))
           /\ EndJob(j, "refused")
           /\ UNCHANGED investigations
  <2>1. investigations[jobs[j].inv].status # "QUEUED" /\ "refused" \in Over
    BY <1>1, <1>3, RefusedStarted DEF Over
  <2> QED  BY <1>1, <1>3, <2>1, UnsavedStep
<1>4. CASE EndJob(j, "lost") /\ UNCHANGED investigations
  <2>1. "lost" \in Over /\ "lost" \in Answers
    BY DEF Over, Answers
  <2> QED  BY <1>1, <1>4, <2>1, UnsavedStep
<1> QED  BY <1>2, <1>3, <1>4 DEF Abort

-----------------------------------------------------------------------------
(* Reviews.                                                                *)

\* A review loads the incident and names a stored investigation, or none.
LEMMA ReviewStep ==
  ASSUME InvestigationInv, NEW r \in Request, NEW endpoint \in {"approve", "reject"},
         NEW i \in DOMAIN incidents, NEW v \in DOMAIN investigations \cup {None},
         NEW force, Review(r, endpoint, i, v, force)
  PROVE  InvestigationInv'
<1>1. PICK h : h = [step |-> endpoint, incident |-> i, loaded |-> incidents[i],
                    inv |-> v, force |-> force]
  OBVIOUS
<1>2. IsDoc(incidents[i])
  BY DEF InvestigationInv, ShapeInv
<1>3. HeldInv(h)
  BY <1>1, <1>2 DEF HeldInv
<1>4. Await(r, h) /\ pc[r] = "idle" /\ UNCHANGED <<incidents, aiVars>>
  BY <1>1 DEF Review, Starts
<1>5. ~At(r, "enqueue") /\ h.step # "enqueue"
  BY <1>1, <1>4 DEF At
<1> QED  BY <1>3, <1>4, <1>5, QuietStep

\* What a review finds is stored.
LEMMA FoundStored ==
  ASSUME NEW h, h.inv \in DOMAIN investigations \cup {None}
  PROVE  Found(h) \subseteq DOMAIN investigations
BY DEF Found

\* approveAction refuses, or goes on with a stored investigation and its action.
LEMMA ApproveStep ==
  ASSUME InvestigationInv, NEW r \in Request, Approve(r)
  PROVE  InvestigationInv'
<1>1. PICK h : h = held[r]
  OBVIOUS
<1>2. /\ pc[r] = "working" /\ h.step = "approve" /\ ~At(r, "enqueue")
      /\ UNCHANGED <<incidents, aiVars>>
  BY <1>1 DEF Approve, At
<1>3. HeldInv(h)
  BY <1>1, <1>2 DEF InvestigationInv, HandlerInv
<1>4. ASSUME Return(r, "refused") PROVE InvestigationInv'
  BY <1>2, <1>4, QuietStep DEF Ended
<1>5. ASSUME NEW v \in Found(h), NEW step \in {"task", "execute"}, NEW action,
             Reviewable(v), action = investigations[v].action,
             step = "execute" => action.type # "CREATE_TASK",
             Await(r, [step |-> step, incident |-> h.incident, loaded |-> h.loaded,
                       inv |-> v, action |-> action, force |-> h.force])
      PROVE  InvestigationInv'
  <2>1. PICK g : g = [step |-> step, incident |-> h.incident, loaded |-> h.loaded,
                      inv |-> v, action |-> action, force |-> h.force]
    OBVIOUS
  <2>2. v \in DOMAIN investigations
    BY <1>2, <1>3, FoundStored DEF HeldInv
  <2>3. IsAction(action)
    BY <1>5, <2>2 DEF InvestigationInv, DocInv, Sound, Reviewable, IsPending
  <2>4. HeldInv(g)
    BY <1>2, <1>3, <1>5, <2>1, <2>2, <2>3 DEF HeldInv
  <2> QED  BY <1>2, <1>5, <2>1, <2>4, QuietStep
<1>6. ASSUME NEW v \in Found(h), Reviewable(v),
             ~Return(r, "refused"),
             LET action == investigations[v].action IN
             IF \/ StaleIncident(h.loaded, action, h.force)
                \/ ~Effective(h.loaded, action, r)
               THEN Return(r, "refused")
               ELSE Await(r, [step |-> IF action.type = "CREATE_TASK"
                                         THEN "task" ELSE "execute",
                              incident |-> h.incident, loaded |-> h.loaded,
                              inv |-> v, action |-> action, force |-> h.force])
      PROVE  InvestigationInv'
  <2>1. PICK action : action = investigations[v].action
    OBVIOUS
  <2>2. PICK step : step = IF action.type = "CREATE_TASK" THEN "task" ELSE "execute"
    OBVIOUS
  <2>3. Await(r, [step |-> step, incident |-> h.incident, loaded |-> h.loaded,
                  inv |-> v, action |-> action, force |-> h.force])
    BY <1>6, <2>1, <2>2
  <2>4. step \in {"task", "execute"} /\ (step = "execute" => action.type # "CREATE_TASK")
    BY <2>2
  <2> QED  BY <1>5, <1>6, <2>1, <2>3, <2>4
<1> QED  BY <1>1, <1>4, <1>6 DEF Approve

\* rejectAction refuses, or goes on with a stored investigation.
LEMMA RejectStep ==
  ASSUME InvestigationInv, NEW r \in Request, Reject(r)
  PROVE  InvestigationInv'
<1>1. /\ pc[r] = "working" /\ held[r].step = "reject" /\ ~At(r, "enqueue")
      /\ UNCHANGED <<incidents, aiVars>>
  BY DEF Reject, At
<1>2. HeldInv(held[r])
  BY <1>1 DEF InvestigationInv, HandlerInv
<1>3. ASSUME NEW v \in Found(held[r]), Await(r, [step |-> "dismiss", inv |-> v])
      PROVE  InvestigationInv'
  <2>1. PICK g : g = [step |-> "dismiss", inv |-> v]
    OBVIOUS
  <2>2. v \in DOMAIN investigations
    BY <1>1, <1>2, FoundStored DEF HeldInv
  <2>3. HeldInv(g)
    BY <2>1, <2>2 DEF HeldInv
  <2> QED  BY <1>1, <1>3, <2>1, <2>3, QuietStep
<1>4. ASSUME Return(r, "refused") PROVE InvestigationInv'
  BY <1>1, <1>4, QuietStep DEF Ended
<1> QED  BY <1>3, <1>4 DEF Reject

\* CREATE_TASK looks for a task of the same title before it creates one.
LEMMA LookForTaskStep ==
  ASSUME InvestigationInv, NEW r \in Request, LookForTask(r)
  PROVE  InvestigationInv'
<1>1. PICK h : h = held[r]
  OBVIOUS
<1>2. /\ pc[r] = "working" /\ h.step = "task" /\ ~At(r, "enqueue")
      /\ UNCHANGED <<incidents, aiVars>>
  BY <1>1 DEF LookForTask, At
<1>3. HeldInv(h)
  BY <1>1, <1>2 DEF InvestigationInv, HandlerInv
<1>4. ASSUME Return(r, "refused") PROVE InvestigationInv'
  BY <1>2, <1>4, QuietStep DEF Ended
<1>5. ASSUME Await(r, [h EXCEPT !.step = "create"]) PROVE InvestigationInv'
  <2>1. PICK g : g = [h EXCEPT !["step"] = "create"]
    OBVIOUS
  <2>2. /\ g.step = "create" /\ g.incident = h.incident /\ g.loaded = h.loaded
        /\ g.inv = h.inv
    BY <1>2, <1>3, <2>1 DEF HeldInv
  <2>3. HeldInv(g)
    BY <1>2, <1>3, <2>2 DEF HeldInv
  <2> QED  BY <1>2, <1>5, <2>1, <2>2, <2>3, QuietStep
<1> QED  BY <1>1, <1>4, <1>5 DEF LookForTask

\* A proposed change of the incident is one it can take.
LEMMA MutatedType ==
  ASSUME NEW d, IsDoc(d), NEW action, IsAction(action), NEW r \in Request,
         action.type # "CREATE_TASK", SoundIncidents, NEW i \in DOMAIN incidents
  PROVE  IsCommand(Saves(i, d, Mutated(d, action, r)))
<1>1. PICK p \in Proposal \ {None} : action.type = p.type /\ action.value = p.value
  BY DEF IsAction
<1>2. \/ p.type = "CHANGE_SEVERITY" /\ p.value \in Severity
      \/ p.type = "CHANGE_STATUS"   /\ p.value \in Status
      \/ p.type = "ASSIGN_INCIDENT" /\ p.value \in User
  BY <1>1, ProposalAssumption
<1>3. CASE p.type = "CHANGE_SEVERITY" /\ p.value \in Severity
  <2>1. Mutated(d, action, r) = [d EXCEPT !["severity"] = action.value]
    BY <1>1, <1>3 DEF Mutated
  <2>2. action.value \in FieldType["severity"] /\ "severity" \in Field
    BY <1>1, <1>3, FieldFacts
  <2> QED  BY <2>1, <2>2, FieldSends
<1>4. CASE p.type = "CHANGE_STATUS" /\ p.value \in Status
  <2>1. Mutated(d, action, r) = WithStatus(d, action.value, r)
    BY <1>1, <1>4 DEF Mutated
  <2>2. action.value \in Status
    BY <1>1, <1>4
  <2> QED  BY <2>1, <2>2, ChangeStatusSends
<1>5. CASE p.type = "ASSIGN_INCIDENT" /\ p.value \in User
  <2>1. Mutated(d, action, r) = [d EXCEPT !["assignee"] = action.value]
    BY <1>1, <1>5 DEF Mutated
  <2>2. action.value \in FieldType["assignee"] /\ "assignee" \in Field
    BY <1>1, <1>5, FieldFacts
  <2> QED  BY <2>1, <2>2, FieldSends
<1> QED  BY <1>2, <1>3, <1>4, <1>5

\* Incidents, revisions, tasks and executions grow; the handler moves alone.
LEMMA GrowStep ==
  ASSUME InvestigationInv, NEW r \in Request, Alone(r),
         UNCHANGED <<investigations, jobs>>,
         Later, ShapeInv', HandlerInv(r)',
         pc[r] = "failed" => pc'[r] = "failed",
         ~At(r, "enqueue")
  PROVE  InvestigationInv'
<1>1. \A v \in DOMAIN investigations' : DocInv(v)'
  BY DocsStay
<1>2. \A j \in DOMAIN jobs' : JobInv(j)'
  BY JobsStay
<1>3. \A q \in Request : HandlerInv(q)'
  BY AloneStep
<1>4. QueuedHasJob'
  BY QueuedStays
<1> QED  BY <1>1, <1>2, <1>3, <1>4 DEF InvestigationInv

\* A command changes one incident, and its revision.
LEMMA CommandShape ==
  ASSUME InvestigationInv, NEW c, IsCommand(c),
         incidents' = [incidents EXCEPT ![c.doc] = Applied(@, c)],
         revision' = [revision EXCEPT ![c.doc] = @ + 1],
         UNCHANGED <<investigations, tasks>>, executed \subseteq executed',
         NEW r \in Request, Alone(r)
  PROVE  Later /\ ShapeInv'
<1>1. c.doc \in DOMAIN incidents /\ IsDoc(incidents[c.doc])
  BY DEF IsCommand, InvestigationInv, ShapeInv
<1>2. IsDoc(Applied(incidents[c.doc], c))
  BY <1>1, AppliedType
<1>3. /\ DOMAIN incidents' = DOMAIN incidents
      /\ \A i \in DOMAIN incidents : IsDoc(incidents'[i])
  BY <1>1, <1>2 DEF InvestigationInv, ShapeInv
<1>4. revision \in [Incident -> Nat] /\ DOMAIN incidents \subseteq Incident
  BY DEF InvestigationInv, ShapeInv
<1>5. revision' \in [Incident -> Nat]
  BY <1>1, <1>4
<1>6. \A i \in DOMAIN incidents : revision'[i] \in Nat /\ revision[i] <= revision'[i]
  BY <1>1, <1>4
<1>7. \A v \in DOMAIN investigations : investigations[v].ver \in Nat
  BY DEF InvestigationInv, DocInv, Sound
<1>8. Later
  BY <1>3, <1>6, <1>7 DEF Later
<1>9. \A i \in DOMAIN incidents' : IsDoc(incidents[i])'
  BY <1>3 DEF IsDoc
<1>10. ShapeInv'
  BY <1>3, <1>4, <1>5, <1>9 DEF InvestigationInv, ShapeInv, Alone
<1> QED  BY <1>8, <1>10

\* The incident is saved and the execution noted, before the record says so.
LEMMA ExecuteStep ==
  ASSUME InvestigationInv, NEW r \in Request, Execute(r)
  PROVE  InvestigationInv'
<1>1. PICK h : h = held[r]
  OBVIOUS
<1>2. pc[r] = "working" /\ h.step = "execute" /\ ~At(r, "enqueue")
  BY <1>1 DEF Execute, At
<1>3. HeldInv(h) /\ ShapeInv
  BY <1>1, <1>2 DEF InvestigationInv, HandlerInv
<1>4. PICK c : c = Saves(h.incident, h.loaded, Mutated(h.loaded, h.action, r))
  OBVIOUS
<1>5. SoundIncidents
  BY <1>3 DEF ShapeInv, SoundIncidents
<1>6. IsCommand(c)
  BY <1>2, <1>3, <1>4, <1>5, MutatedType DEF HeldInv
<1>7. c.doc = h.incident
  BY <1>4 DEF Saves, SaveCommand
<1>x. PICK x : x = [by |-> r, inv |-> h.inv, incident |-> h.incident,
                    type |-> h.action.type, value |-> h.action.value]
  OBVIOUS
<1>8. /\ incidents' = [incidents EXCEPT ![c.doc] = Applied(@, c)]
      /\ revision' = [revision EXCEPT ![c.doc] = @ + 1]
      /\ Await(r, [step |-> "settle", inv |-> h.inv])
      /\ executed' = executed \cup {x}
      /\ UNCHANGED <<investigations, jobs, tasks>>
  BY <1>1, <1>4, <1>7, <1>x DEF Execute, NoteExecution
<1>9. Alone(r)
  BY <1>3, <1>8, MovesAlone
<1>10. Later /\ ShapeInv'
  BY <1>6, <1>8, <1>9, CommandShape
<1>11. HandlerInv(r)'
  <2>1. PICK g : g = [step |-> "settle", inv |-> h.inv]
    OBVIOUS
  <2>2. h.inv \in DOMAIN investigations'
    BY <1>2, <1>3, <1>8 DEF HeldInv
  <2>3. \E e \in executed' : e.inv = h.inv
    BY <1>x, <1>8
  <2>4. HeldInv(g)'
    BY <2>1, <2>2, <2>3 DEF HeldInv
  <2> QED  BY <1>8, <1>10, <2>1, <2>4, MovesSound
<1> QED  BY <1>2, <1>8, <1>9, <1>10, <1>11, GrowStep

\* The task is inserted and the execution noted, before the record says so.
LEMMA CreateTaskStep ==
  ASSUME InvestigationInv, NEW r \in Request, CreateTask(r)
  PROVE  InvestigationInv'
<1>1. PICK h : h = held[r]
  OBVIOUS
<1>2. pc[r] = "working" /\ h.step = "create" /\ ~At(r, "enqueue")
  BY <1>1 DEF CreateTask, At
<1>3. HeldInv(h) /\ ShapeInv
  BY <1>1, <1>2 DEF InvestigationInv, HandlerInv
<1>x. PICK x : x = [by |-> r, inv |-> h.inv, incident |-> h.incident,
                    type |-> h.action.type, value |-> h.action.value]
  OBVIOUS
<1>4. /\ tasks' = tasks \cup {[incident |-> h.incident, title |-> h.action.value, by |-> r]}
      /\ Await(r, [step |-> "settle", inv |-> h.inv])
      /\ executed' = executed \cup {x}
      /\ UNCHANGED <<incidents, revision, investigations, jobs>>
  BY <1>1, <1>x DEF CreateTask, NoteExecution
<1>5. Alone(r)
  BY <1>3, <1>4, MovesAlone
<1>6. Later
  <2>1. \A v \in DOMAIN investigations : investigations[v].ver \in Nat
    BY DEF InvestigationInv, DocInv, Sound
  <2> QED  BY <1>3, <1>4, <2>1 DEF Later, ShapeInv
<1>7. ShapeInv'
  <2>1. h.incident \in DOMAIN incidents
    BY <1>2, <1>3 DEF HeldInv
  <2>2. \A t \in tasks' : t.incident \in DOMAIN incidents' /\ t.by \in Request
    BY <1>3, <1>4, <2>1 DEF ShapeInv
  <2> QED  BY <1>3, <1>4, <1>5, <2>2 DEF ShapeInv, Alone, IsDoc
<1>8. HandlerInv(r)'
  <2>1. PICK g : g = [step |-> "settle", inv |-> h.inv]
    OBVIOUS
  <2>2. h.inv \in DOMAIN investigations'
    BY <1>2, <1>3, <1>4 DEF HeldInv
  <2>3. \E e \in executed' : e.inv = h.inv
    BY <1>x, <1>4
  <2>4. HeldInv(g)'
    BY <2>1, <2>2, <2>3 DEF HeldInv
  <2> QED  BY <1>4, <1>6, <2>1, <2>4, MovesSound
<1> QED  BY <1>2, <1>4, <1>5, <1>6, <1>7, <1>8, GrowStep

\* The review is recorded: EXECUTED only by a handler that executed.
LEMMA DecideStep ==
  ASSUME InvestigationInv, NEW r \in Request, NEW status \in Decided,
         pc[r] = "working", held[r].step \in {"settle", "dismiss"},
         status = "EXECUTED" => held[r].step = "settle", Decide(r, status)
  PROVE  InvestigationInv'
<1>0. ShapeInv
  BY DEF InvestigationInv
<1>1. PICK v : v = held[r].inv
  OBVIOUS
<1>2. HeldInv(held[r])
  BY DEF InvestigationInv, HandlerInv
<1>3. /\ v \in DOMAIN investigations
      /\ status = "EXECUTED" => \E e \in executed : e.inv = v
      /\ ~At(r, "enqueue")
  BY <1>1, <1>2 DEF HeldInv, At
<1>4. PICK d : d = investigations[v]
  OBVIOUS
<1>5. Sound(v, d)
  BY <1>3, <1>4 DEF InvestigationInv, DocInv
<1>6. UNCHANGED <<incidents, revision, jobs, tasks, executed>>
  BY DEF Decide
<1>7. CASE d.action = None
  <2>1. Return(r, "failed") /\ UNCHANGED investigations
    BY <1>1, <1>4, <1>7 DEF Decide
  <2> QED  BY <1>3, <1>6, <2>1, QuietStep DEF aiVars, Ended
<1>8. CASE d.action # None
  <2>1. PICK a : a = [d.action EXCEPT !["status"] = status]
    OBVIOUS
  <2>2. PICK e : e = [d EXCEPT !["action"] = a]
    OBVIOUS
  <2>3. investigations' = [investigations EXCEPT ![v] = e] /\ Send(r, {})
    BY <1>1, <1>4, <1>8, <2>1, <2>2 DEF Decide
  <2>4. /\ DOMAIN a = ActionField /\ a.status = status
        /\ a.type = d.action.type /\ a.value = d.action.value
    BY <1>5, <1>8, <2>1 DEF Sound, ActionField
  <2>5. IsAction(a)
    BY <1>5, <1>8, <2>4 DEF Sound, IsAction
  <2>6. /\ DOMAIN e = InvestigationField /\ e.action = a
        /\ e.incident = d.incident /\ e.version = d.version /\ e.status = d.status
        /\ e.findings = d.findings /\ e.ver = d.ver /\ e.by = d.by
    BY <1>5, <2>2 DEF Sound, InvestigationField
  <2>7. Sound(v, e)
    BY <1>3, <1>5, <1>8, <2>4, <2>5, <2>6 DEF Sound
  <2>8. /\ DOMAIN investigations' = DOMAIN investigations
        /\ investigations'[v] = e
        /\ \A w \in DOMAIN investigations \ {v} : investigations'[w] = investigations[w]
    BY <1>3, <2>3
  <2>9. Later
    <3>1. \A w \in DOMAIN investigations : investigations[w].ver \in Nat
      BY DEF InvestigationInv, DocInv, Sound
    <3> QED  BY <1>0, <1>4, <1>6, <2>6, <2>8, <3>1 DEF Later, ShapeInv
  <2>10. DocInv(v)'
    <3>1. Sound(v, e)'
      BY <1>0, <2>7, <2>9, SoundStays
    <3>2. Sound(v, investigations[v])'
      BY <2>8, <3>1
    <3> QED  BY <1>3, <3>2 DEF InvestigationInv, DocInv
  <2>11. \A w \in DOMAIN investigations' : DocInv(w)'
    BY <1>0, <2>8, <2>9, <2>10, DocStays DEF InvestigationInv
  <2>12. Alone(r) /\ HandlerInv(r)'
    BY <1>0, <2>3, <2>9, MovesAlone, MovesSound
  <2>13. ShapeInv'
    BY <1>6, <2>9, <2>12, ShapeStays
  <2>14. \A j \in DOMAIN jobs' : JobInv(j)'
    BY <1>6, <2>9, JobsStay
  <2>15. \A q \in Request : HandlerInv(q)'
    BY <2>9, <2>12, AloneStep
  <2>16. QueuedHasJob'
    BY <1>3, <1>4, <1>6, <2>6, <2>8, <2>9, <2>12, QueuedStays
  <2> QED  BY <2>11, <2>13, <2>14, <2>15, <2>16 DEF InvestigationInv
<1> QED  BY <1>7, <1>8

-----------------------------------------------------------------------------
(* Failures, and the handlers of Incidents.                                *)

\* A handler fails at an await.
LEMMA FailStep ==
  ASSUME InvestigationInv, NEW r \in Request, Fail(r)
  PROVE  InvestigationInv'
BY QuietStep DEF Fail, Ended

\* A handler announces what it saved.
LEMMA AnnounceStep ==
  ASSUME InvestigationInv, NEW r \in Request, Announce(r), UNCHANGED aiVars
  PROVE  InvestigationInv'
<1>1. /\ pc[r] = "written" /\ pc'[r] = "done" /\ Alone(r)
      /\ writes' = writes /\ UNCHANGED <<incidents, aiVars>>
  BY DEF Announce, InvestigationInv, ShapeInv, Alone
<1>2. Later
  BY <1>1, LaterSame DEF aiVars
<1>3. ShapeInv'
  BY <1>1, <1>2, ShapeStays DEF aiVars
<1>4. HandlerInv(r)'
  BY <1>1, <1>2, HandlerRests DEF InvestigationInv
<1>5. ~At(r, "enqueue")
  BY <1>1 DEF At
<1> QED  BY <1>1, <1>2, <1>3, <1>4, <1>5, GrowStep DEF aiVars

\* MongoDB executes a save of an incident.
LEMMA SaveIncidentStep ==
  ASSUME InvestigationInv, NEW r \in Request, NEW c \in writes[r], SaveIncident(r, c)
  PROVE  InvestigationInv'
<1>1. IsCommand(c) /\ HandlerInv(r)
  BY DEF InvestigationInv, HandlerInv
<1>2. /\ incidents' = [incidents EXCEPT ![c.doc] = Applied(@, c)]
      /\ revision' = [revision EXCEPT ![c.doc] = @ + 1]
      /\ writes' = [writes EXCEPT ![r] = @ \ {c}]
      /\ held' = held
      /\ UNCHANGED <<investigations, jobs, tasks, executed>>
  BY DEF SaveIncident, ExecuteSave
<1>3. pc' = pc \/ (pc[r] = "saving" /\ pc' = [pc EXCEPT ![r] = "written"])
  BY DEF SaveIncident, ExecuteSave
<1>4. Alone(r) /\ writes'[r] \subseteq writes[r]
  BY <1>2, <1>3 DEF InvestigationInv, ShapeInv, Alone
<1>5. Later /\ ShapeInv'
  BY <1>1, <1>2, <1>4, CommandShape
<1>6. \/ pc'[r] = pc[r]
      \/ pc[r] = "saving" /\ pc'[r] = "written"
  BY <1>3 DEF InvestigationInv, ShapeInv
<1>7. HandlerInv(r)'
  <2>1. CASE pc'[r] # "working"
    BY <1>1, <1>4, <1>5, <2>1, HandlerRests
  <2>2. CASE pc'[r] = "working"
    <3>1. PICK h : h = held[r]
      OBVIOUS
    <3>2. HeldInv(h)
      BY <1>1, <1>6, <2>2, <3>1 DEF HandlerInv
    <3>3. HeldInv(h)'
      BY <1>5, <3>2, HeldStays DEF InvestigationInv
    <3>4. HeldInv(held[r])'
      BY <1>2, <3>1, <3>3
    <3>5. \A b \in writes'[r] : IsCommand(b)'
      BY <1>1, <1>4, <1>5, CommandStays DEF HandlerInv, Later
    <3>6. At(r, "enqueue")' => investigations'[held'[r].inv].by = r
      BY <1>1, <1>2, <1>6, <2>2 DEF HandlerInv, At
    <3> QED  BY <3>4, <3>5, <3>6 DEF HandlerInv
  <2> QED  BY <2>1, <2>2
<1>8. ASSUME NEW v \in DOMAIN investigations, Answered(v) PROVE Answered(v)'
  <2>1. ASSUME NEW q \in Request, At(q, "enqueue"), held[q].inv = v PROVE Answered(v)'
    <3>1. pc'[q] = "working" /\ held'[q] = held[q]
      BY <1>2, <1>4, <1>6, <2>1 DEF Alone, At
    <3> QED  BY <2>1, <3>1 DEF Answered, At
  <2>2. ASSUME NEW q \in Request, investigations[v].by = q, pc[q] = "failed"
        PROVE  Answered(v)'
    <3>1. pc'[q] = "failed"
      BY <1>4, <1>6, <2>2 DEF Alone
    <3> QED  BY <1>2, <2>2, <3>1 DEF Answered
  <2>3. ASSUME NEW j \in DOMAIN jobs, jobs[j].inv = v, jobs[j].step \in Answers
        PROVE  Answered(v)'
    BY <1>2, <2>3 DEF Answered
  <2> QED  BY <1>8, <2>1, <2>2, <2>3 DEF Answered
<1>9. QueuedHasJob'
  BY <1>2, <1>8 DEF InvestigationInv, QueuedHasJob, Answered, Answers
<1>10. \A v \in DOMAIN investigations' : DocInv(v)'
  BY <1>2, <1>5, DocsStay
<1>11. \A j \in DOMAIN jobs' : JobInv(j)'
  BY <1>2, <1>5, JobsStay
<1>12. \A q \in Request : HandlerInv(q)'
  BY <1>4, <1>5, <1>7, AloneStep
<1> QED  BY <1>5, <1>9, <1>10, <1>11, <1>12 DEF InvestigationInv

\* A handler of Incidents starts.
LEMMA BeginStep ==
  ASSUME InvestigationInv, NEW r \in Request, Begin(r), UNCHANGED aiVars
  PROVE  InvestigationInv'
<1>0. ShapeInv /\ SoundIncidents
  BY DEF InvestigationInv, ShapeInv, SoundIncidents
<1>1. pc[r] = "idle" /\ Opens(r)
  BY <1>0, BeginOpens
<1>2. ~At(r, "enqueue")
  BY <1>1 DEF At
<1>3. ASSUME NEW i \in Incident, NEW sev \in Severity, NEW sv \in ServiceList,
             NEW a \in User \cup {None}, Create(r, i, sev, sv, a)
      PROVE  InvestigationInv'
  <2>1. /\ DOMAIN incidents' = DOMAIN incidents \cup {i}
        /\ incidents'[i] = NewIncident(sev, sv, a)
        /\ \A k \in DOMAIN incidents : incidents'[k] = incidents[k]
        /\ pc' = [pc EXCEPT ![r] = "written"] /\ UNCHANGED <<held, writes>>
    BY <1>3 DEF Create
  <2>2. Alone(r) /\ pc'[r] = "written" /\ writes'[r] = writes[r]
    BY <1>0, <2>1 DEF ShapeInv, Alone
  <2>3. Later
    <3>1. \A v \in DOMAIN investigations : investigations[v].ver \in Nat
      BY DEF InvestigationInv, DocInv, Sound
    <3> QED  BY <1>0, <2>1, <3>1 DEF Later, ShapeInv, aiVars
  <2>4. IsDoc(NewIncident(sev, sv, a))
    BY NewIncidentType
  <2>5. \A k \in DOMAIN incidents' : IsDoc(incidents'[k])
    BY <1>0, <2>1, <2>4 DEF ShapeInv
  <2>6. \A k \in DOMAIN incidents' : IsDoc(incidents[k])'
    BY <2>5 DEF IsDoc
  <2>7. ShapeInv'
    BY <1>0, <2>1, <2>2, <2>6 DEF ShapeInv, Alone, aiVars
  <2>8. HandlerInv(r)'
    BY <2>2, <2>3, HandlerRests DEF InvestigationInv
  <2> QED  BY <1>1, <1>2, <2>2, <2>3, <2>7, <2>8, GrowStep DEF aiVars
<1>4. ASSUME UNCHANGED incidents, NEW commands, \A c \in commands : IsCommand(c),
             Send(r, commands)
      PROVE  InvestigationInv'
  <2>1. Later
    BY <1>4, LaterSame DEF aiVars
  <2>2. Alone(r) /\ HandlerInv(r)'
    BY <1>0, <1>4, <2>1, MovesAlone, MovesSound
  <2>3. ShapeInv'
    BY <1>4, <2>1, <2>2, ShapeStays DEF aiVars
  <2> QED  BY <1>1, <1>2, <2>1, <2>2, <2>3, GrowStep DEF aiVars
<1>5. ASSUME UNCHANGED incidents, NEW answer \in Ended, Return(r, answer)
      PROVE  InvestigationInv'
  BY <1>1, <1>2, <1>5, QuietStep
<1>6. ASSUME UNCHANGED incidents, NEW h, h.step \in {"relate", "unrelate"}, Await(r, h)
      PROVE  InvestigationInv'
  <2>1. HeldInv(h) /\ h.step # "enqueue"
    BY <1>6 DEF HeldInv
  <2> QED  BY <1>1, <1>2, <1>6, <2>1, QuietStep
<1> QED  BY <1>1, <1>3, <1>4, <1>5, <1>6 DEF Opens

\* The process dies: BullMQ hands a stalled job out again, once.
LEMMA CrashStep ==
  ASSUME InvestigationInv, CrashAll
  PROVE  InvestigationInv'
<1>0. ShapeInv
  BY DEF InvestigationInv
<1>1. /\ UNCHANGED <<incidents, revision, investigations, tasks, executed>>
      /\ jobs' = [j \in DOMAIN jobs |-> Recovered(jobs[j])]
  BY DEF CrashAll, Crash, vars
<1>2. \/ Crash
      \/ (\A r \in Request : pc[r] \notin InFlight) /\ UNCHANGED vars
  BY DEF CrashAll
<1>3. Later
  BY <1>1, LaterSame
<1>4. /\ pc' = [r \in Request |-> pc'[r]]
      /\ DOMAIN held' = Request /\ DOMAIN writes' = Request
  BY <1>0, <1>2 DEF Crash, ShapeInv, vars
<1>5. \A r \in Request : /\ pc'[r] # "working"
                         /\ writes'[r] \subseteq writes[r]
                         /\ pc[r] \in {"failed", "working"} => pc'[r] = "failed"
  <2>1. CASE Crash
    BY <2>1 DEF Crash, InFlight
  <2>2. CASE (\A r \in Request : pc[r] \notin InFlight) /\ UNCHANGED vars
    BY <2>2 DEF vars, InFlight
  <2> QED  BY <1>2, <2>1, <2>2
<1>6. ShapeInv'
  BY <1>0, <1>1, <1>4 DEF ShapeInv, IsDoc
<1>7. \A q \in Request : HandlerInv(q)'
  BY <1>3, <1>5, HandlerRests DEF InvestigationInv
<1>8. \A v \in DOMAIN investigations' : DocInv(v)'
  BY <1>1, <1>3, DocsStay
<1>9. ASSUME NEW j \in DOMAIN jobs
      PROVE  \/ jobs'[j] = jobs[j] /\ ~Running(j)
             \/ /\ jobs'[j].inv = jobs[j].inv
                /\ jobs'[j].step \in {"waiting", "died"}
                /\ jobs'[j].stalls \in Nat
                /\ jobs'[j].kept = jobs[j].kept
  <2>1. jobs'[j] = Recovered(jobs[j]) /\ jobs[j].stalls \in Nat
    BY <1>1 DEF InvestigationInv, JobInv
  <2> QED  BY <2>1 DEF Recovered, AtRest, Running
<1>10. ASSUME NEW j \in DOMAIN jobs' PROVE JobInv(j)'
  <2>1. j \in DOMAIN jobs /\ JobInv(j) /\ DocInv(jobs[j].inv)
    BY <1>1 DEF InvestigationInv, JobInv
  <2>2. CASE jobs'[j] = jobs[j]
    BY <1>0, <1>3, <2>1, <2>2, JobStays
  <2>3. CASE /\ jobs'[j].inv = jobs[j].inv
             /\ jobs'[j].step \in {"waiting", "died"}
             /\ jobs'[j].stalls \in Nat
             /\ jobs'[j].kept = jobs[j].kept
    <3>1. ~Running(j)'
      BY <2>3 DEF Running, Over
    <3> QED  BY <1>1, <2>1, <2>3, <3>1 DEF JobInv, JobStepName, Over
  <2> QED  BY <1>9, <2>1, <2>2, <2>3
<1>11. ASSUME NEW v, Answered(v) PROVE Answered(v)'
  <2>1. ASSUME NEW q \in Request,
               \/ At(q, "enqueue") /\ held[q].inv = v
               \/ pc[q] = "failed" /\ investigations[v].by = q
        PROVE  Answered(v)'
    <3>1. pc'[q] = "failed"
      BY <1>5, <2>1 DEF At
    <3>2. investigations[v].by = q
      BY <2>1 DEF InvestigationInv, HandlerInv
    <3> QED  BY <1>1, <3>1, <3>2 DEF Answered
  <2>2. ASSUME NEW j \in DOMAIN jobs, jobs[j].inv = v, jobs[j].step \in Answers
        PROVE  Answered(v)'
    BY <1>1, <1>9, <2>2 DEF Answered, Answers
  <2> QED  BY <1>11, <2>1, <2>2 DEF Answered
<1>12. QueuedHasJob'
  BY <1>1, <1>11 DEF InvestigationInv, QueuedHasJob, Answered, Answers
<1> QED  BY <1>6, <1>7, <1>8, <1>10, <1>12 DEF InvestigationInv

-----------------------------------------------------------------------------
(* The theorems.                                                           *)

\* The documents D with their jobs, those of C completed.
Left(D, C, job, of, p) ==
  /\ C \subseteq D
  /\ \A v, w \in D : v # w => job[v] # job[w] /\ of[v] # of[w]
  /\ investigations = [v \in D |->
       [incident |-> of[v], version |-> 0,
        status   |-> IF v \in C THEN "COMPLETED" ELSE "QUEUED",
        action   |-> IF v \in C THEN Pending(p[v]) ELSE None,
        findings |-> IF v \in C THEN job[v] ELSE None,
        ver      |-> IF v \in C THEN 3 ELSE 0,
        by       |-> None]]
  /\ jobs = [j \in {job[v] : v \in D} |->
       LET v == CHOOSE v \in D : job[v] = j
       IN AtRest(NewJob(v, QueueActive), IF v \in C THEN "ended" ELSE "waiting")]

\* What InitAI says of investigations and jobs.
LEMMA LeftByCalls ==
  ASSUME InitAI
  PROVE  \E D \in SUBSET Investigation, C \in SUBSET Investigation :
           \E job \in [D -> Job], of \in [D -> DOMAIN incidents], p \in [D -> Proposal] :
             Left(D, C, job, of, p)
BY DEF InitAI, Left

\* What earlier calls left satisfies the invariant.
LEMMA InvInit == InitAI => InvestigationInv
<1> SUFFICES ASSUME InitAI PROVE InvestigationInv
  OBVIOUS
<1>0. /\ Init /\ tasks = {} /\ executed = {}
      /\ revision = [i \in Incident |-> 0]
  BY DEF InitAI
<1>a. PICK D \in SUBSET Investigation, C \in SUBSET Investigation :
       \E job \in [D -> Job], of \in [D -> DOMAIN incidents], p \in [D -> Proposal] :
         Left(D, C, job, of, p)
  BY LeftByCalls
<1> USE DEF Left
<1>1. PICK job \in [D -> Job], of \in [D -> DOMAIN incidents], p \in [D -> Proposal] :
         Left(D, C, job, of, p)
  BY <1>a
<1>2. /\ DOMAIN incidents \subseteq Incident
      /\ \A i \in DOMAIN incidents : IsDoc(incidents[i])
  BY <1>0, InitType DEF TypeOK
<1>3. /\ pc = [r \in Request |-> "idle"]
      /\ held = [r \in Request |-> None]
      /\ writes = [r \in Request |-> {}]
  BY <1>0 DEF Init
<1>4. ShapeInv
  BY <1>0, <1>2, <1>3 DEF ShapeInv
<1>5. ASSUME NEW v \in DOMAIN investigations PROVE DocInv(v)
  <2> DEFINE d == investigations[v]
  <2>1. v \in D /\ v \in Investigation /\ of[v] \in DOMAIN incidents /\ job[v] \in Job
    BY <1>1
  <2>2. /\ DOMAIN d = InvestigationField /\ d.incident = of[v] /\ d.version = 0
        /\ d.status = (IF v \in C THEN "COMPLETED" ELSE "QUEUED")
        /\ d.action = (IF v \in C THEN Pending(p[v]) ELSE None)
        /\ d.findings = (IF v \in C THEN job[v] ELSE None)
        /\ d.ver \in Nat
    BY <1>1, <2>1 DEF InvestigationField
  <2>3. p[v] \in Proposal /\ job[v] # None
    BY <1>1, <2>1, JobAssumption
  <2>4. Pending(p[v]) # None => /\ DOMAIN Pending(p[v]) = ActionField
                                /\ IsAction(Pending(p[v]))
                                /\ Pending(p[v]).status # "EXECUTED"
    BY <2>3 DEF Pending, ActionField, IsAction
  <2>5. revision[of[v]] = 0
    BY <1>0, <1>2, <2>1
  <2> HIDE DEF d
  <2>6. Sound(v, d)
    BY <2>1, <2>2, <2>3, <2>4, <2>5 DEF Sound, Open
  <2> QED  BY <2>1, <2>6 DEF DocInv, d
<1>6. ASSUME NEW v \in D
      PROVE  /\ job[v] \in DOMAIN jobs
             /\ jobs[job[v]].inv = v /\ jobs[job[v]].stalls = 0
             /\ jobs[job[v]].kept = QueueActive
             /\ jobs[job[v]].step = IF v \in C THEN "ended" ELSE "waiting"
  <2>1. (CHOOSE w \in D : job[w] = job[v]) = v
    BY <1>1
  <2>2. jobs[job[v]] = AtRest(NewJob(v, QueueActive),
                              IF v \in C THEN "ended" ELSE "waiting")
    BY <1>1, <2>1
  <2> QED  BY <1>1, <2>2 DEF AtRest, NewJob
<1>7. ASSUME NEW j \in DOMAIN jobs PROVE JobInv(j)
  <2>1. PICK v \in D : j = job[v]
    BY <1>1
  <2>2. /\ jobs[j].inv = v /\ jobs[j].stalls = 0 /\ jobs[j].kept = QueueActive
        /\ jobs[j].step \in {"ended", "waiting"}
    BY <1>6, <2>1
  <2>3. ~Running(j)
    BY <2>2 DEF Running, Over
  <2>4. v \in DOMAIN investigations /\ j \in Job
    BY <1>1, <2>1
  <2> QED  BY <2>2, <2>3, <2>4 DEF JobInv, JobStepName, Over
<1>8. \A r \in Request : HandlerInv(r)
  BY <1>3 DEF HandlerInv, At
<1>9. QueuedHasJob
  <2> SUFFICES ASSUME NEW v \in DOMAIN investigations,
                      investigations[v].status = "QUEUED"
               PROVE  Answered(v)
    BY DEF QueuedHasJob, Answered, Answers
  <2>1. v \in D /\ v \notin C
    BY <1>1
  <2> QED  BY <1>6, <2>1 DEF Answered, Answers
<1> QED  BY <1>4, <1>5, <1>7, <1>8, <1>9 DEF InvestigationInv

\* Every step keeps the invariant.
LEMMA InvNext ==
  ASSUME InvestigationInv, [NextAI]_allVars
  PROVE  InvestigationInv'
<1>1. CASE UNCHANGED allVars
  <2>1. Later
    BY <1>1, LaterSame DEF allVars, vars, aiVars
  <2>2. UNCHANGED <<vars, revision, tasks, investigations, jobs>>
    BY <1>1 DEF allVars, aiVars
  <2>3. QueuedHasJob'
    BY <2>2 DEF InvestigationInv, QueuedHasJob, At, vars
  <2> QED  BY <2>1, <2>2, <2>3, DocsStay, JobsStay, HandlersRest DEF InvestigationInv
<1>2. CASE CrashAll
  BY <1>2, CrashStep
<1>3. ASSUME NEW r \in Request, BeginAny(r) PROVE InvestigationInv'
  <2>1. ASSUME NEW i \in DOMAIN incidents, Investigate(r, i) PROVE InvestigationInv'
    BY <2>1, InvestigateStep
  <2>2. CASE BeginReview(r)
    BY <2>2, ReviewStep DEF BeginReview
  <2>3. CASE Begin(r) /\ UNCHANGED aiVars
    BY <2>3, BeginStep
  <2> QED  BY <1>3, <2>1, <2>2, <2>3 DEF BeginAny
<1>4. ASSUME NEW r \in Request, AIStep(r) PROVE InvestigationInv'
  <2>1. CASE MarkExecuted(r)
    <3>1. pc[r] = "working" /\ held[r].step = "settle" /\ Decide(r, "EXECUTED")
      BY <2>1 DEF MarkExecuted, At
    <3> QED  BY <3>1, DecideStep DEF Decided
  <2>2. CASE MarkRejected(r)
    <3>1. pc[r] = "working" /\ held[r].step = "dismiss" /\ Decide(r, "REJECTED")
      BY <2>2 DEF MarkRejected, At
    <3> QED  BY <3>1, DecideStep DEF Decided
  <2>3. ASSUME NEW v \in Investigation, RecordInvestigation(r, v) PROVE InvestigationInv'
    BY <2>3, RecordStep
  <2>4. ASSUME NEW c \in writes[r], SaveIncident(r, c) PROVE InvestigationInv'
    BY <2>4, SaveIncidentStep
  <2>5. CASE Announce(r) /\ UNCHANGED aiVars
    BY <2>5, AnnounceStep
  <2>6. CASE Lookup(r) \/ Enqueue(r)
    BY <2>6, LookupStep, EnqueueStep
  <2>7. CASE Approve(r) \/ Execute(r) \/ LookForTask(r) \/ CreateTask(r) \/ Reject(r)
    BY <2>7, ApproveStep, ExecuteStep, LookForTaskStep, CreateTaskStep, RejectStep
  <2> QED  BY <1>4, <2>1, <2>2, <2>3, <2>4, <2>5, <2>6, <2>7 DEF AIStep
<1>5. ASSUME NEW r \in Request, Fail(r) PROVE InvestigationInv'
  BY <1>5, FailStep
<1>6. ASSUME NEW j \in Job, JobStep(j) PROVE InvestigationInv'
  BY <1>6, TakeJobStep, FailToLoadStep, MarkRunningStep, AskProviderStep, FinishStep, AuditOutcomeStep,
     AbortStep DEF JobStep
<1> QED  BY <1>1, <1>2, <1>3, <1>4, <1>5, <1>6 DEF NextAI

\* The invariant holds in every state, whatever calls, jobs, failures and
\* crashes come in between.
THEOREM InvestigationsSound == SpecAI => []InvestigationInv
<1> QED  BY InvInit, InvNext, PTL DEF SpecAI

\* Investigations, jobs and tasks have their types; a finished job or not, it
\* belongs to a stored investigation, and its copy is no newer than that one.
THEOREM InvestigationTypeCorrect == SpecAI => []InvestigationTypeOK
<1>1. InvestigationInv => InvestigationTypeOK
  <2> SUFFICES ASSUME InvestigationInv PROVE InvestigationTypeOK
    OBVIOUS
  <2>1. ASSUME NEW v \in DOMAIN investigations
        PROVE  LET doc == investigations[v] IN
               /\ v \in Investigation /\ doc.incident \in DOMAIN incidents
               /\ doc.version <= revision[doc.incident]
               /\ doc.status \in Open \cup {"COMPLETED", "FAILED"}
               /\ doc.action # None => IsAction(doc.action) /\ doc.findings \in Job
    BY DEF InvestigationInv, DocInv, Sound
  <2>2. ASSUME NEW j \in DOMAIN jobs
        PROVE  /\ j \in Job /\ jobs[j].inv \in DOMAIN investigations
               /\ Running(j) => jobs[j].copy.ver <= investigations[jobs[j].inv].ver
    BY DEF InvestigationInv, JobInv, Work
  <2>3. /\ \A i \in DOMAIN incidents : IsDoc(incidents[i])
        /\ \A t \in tasks : t.incident \in DOMAIN incidents /\ t.by \in Request
    BY DEF InvestigationInv, ShapeInv
  <2> QED  BY <2>1, <2>2, <2>3 DEF InvestigationTypeOK
<1> QED  BY InvestigationsSound, <1>1, PTL

\* A QUEUED investigation has a job that has not stored RUNNING, or a handler that
\* will dispatch one; or the database failed a job, or a process died under one.
THEOREM QueuedIsServed == SpecAI => []QueuedHasJob
<1>1. InvestigationInv => QueuedHasJob
  BY DEF InvestigationInv
<1> QED  BY InvestigationsSound, <1>1, PTL

\* However many jobs of an investigation overlap, and whatever is refused, a
\* COMPLETED investigation has findings.
THEOREM CompletedIsFound == SpecAI => []CompletedHasFindings
<1>1. InvestigationInv => CompletedHasFindings
  BY DEF InvestigationInv, DocInv, Sound, CompletedHasFindings
<1> QED  BY InvestigationsSound, <1>1, PTL

-----------------------------------------------------------------------------
(* Decisions, when the calls come one at a time, none starts a further job *)
(* and no stalled job runs again.                                          *)

OneByOne == MaxInFlight = 1 /\ "investigate" \notin Endpoint /\ ~(QueueActive /\ Failures)

\* A job that has not stored its outcome works on a document without an action,
\* and the only action it ever assigns is pending; one that has stored it assigns
\* no action any more.
JobFits(j) ==
  LET d == investigations[jobs[j].inv]
      copy == jobs[j].copy
      wanted == jobs[j].wanted
  IN
  /\ jobs[j].step \in {"waiting", "mark", "progress", "finish"} => d.action = None
  /\ jobs[j].step \in {"mark", "progress"} => wanted.action = None
  /\ jobs[j].step \in {"mark", "progress", "finish"} => copy.action = None
  /\ jobs[j].step = "audit" => wanted.action = copy.action
  /\ jobs[j].step \in {"finish", "abort"} /\ wanted.action # copy.action =>
       /\ d.action = None
       /\ wanted.action # None /\ wanted.action.status = "PENDING_APPROVAL"

\* What a handler of a review has found pending still is.
ReviewHeld(h) ==
  /\ h.step \notin {"lookup", "record", "enqueue"}
  /\ h.step \in {"execute", "task", "create", "settle", "dismiss"} => IsPending(h.inv)

OneInFlight == \A q, r \in Request : pc[q] \in InFlight /\ pc[r] \in InFlight => q = r

\* One handler is at work, and each investigation has one job.
ReviewInv ==
  /\ OneInFlight
  /\ \A j, k \in DOMAIN jobs : jobs[j].inv = jobs[k].inv => j = k
  /\ \A j \in DOMAIN jobs : JobFits(j)
  /\ \A r \in Request : pc[r] = "working" => ReviewHeld(held[r])

\* No decided action changes in this step.
Stands ==
  \A v \in DOMAIN investigations :
    investigations[v].action # None /\ investigations[v].action.status \in Decided
      => investigations'[v].action = investigations[v].action

\* No action is removed or decided in this step.
ActionsStay ==
  /\ DOMAIN investigations' = DOMAIN investigations
  /\ \A v \in DOMAIN investigations :
       investigations[v].action # None =>
         investigations'[v].action = investigations[v].action

\* A handler starts when none is at work.
LEMMA StartsAlone ==
  ASSUME MaxInFlight = 1, OneInFlight, NEW r \in Request, NEW endpoint,
         Starts(r, endpoint)
  PROVE  \A q \in Request : pc[q] \notin InFlight
<1> DEFINE S == {q \in Request : pc[q] \in InFlight}
<1> SUFFICES ASSUME NEW q \in S PROVE FALSE
  OBVIOUS
<1>1. S = {q}
  BY DEF OneInFlight
<1>2. Cardinality({q}) = 1
  BY FS_Singleton
<1>3. Cardinality(S) < 1
  BY DEF Starts
<1> QED  BY <1>1, <1>2, <1>3

\* The handlers of Incidents start as the others do.
LEMMA BeginStarts ==
  ASSUME NEW r \in Request, Begin(r)
  PROVE  \E endpoint : Starts(r, endpoint)
<1>1. ASSUME NEW i \in Incident, NEW sev \in Severity, NEW sv \in ServiceList,
             NEW a \in User \cup {None}, Create(r, i, sev, sv, a)
      PROVE  Starts(r, "create")
  BY <1>1 DEF Create
<1>2. ASSUME NEW i \in DOMAIN incidents,
             \/ \E s \in Status : ChangeStatus(r, i, s)
             \/ \E sev \in Severity : ChangeSeverity(r, i, sev)
             \/ \E a \in User \cup {None} : Assign(r, i, a)
             \/ \E b \in Body : Update(r, i, b)
             \/ \E j \in DOMAIN incidents, e \in {"relate", "unrelate"} :
                  ReadFirst(r, e, i, j)
      PROVE  \E endpoint : Starts(r, endpoint)
  <2>1. CASE \E s \in Status : ChangeStatus(r, i, s)
    BY <2>1 DEF ChangeStatus
  <2>2. CASE \E sev \in Severity : ChangeSeverity(r, i, sev)
    BY <2>2 DEF ChangeSeverity
  <2>3. CASE \E a \in User \cup {None} : Assign(r, i, a)
    BY <2>3 DEF Assign
  <2>4. CASE \E b \in Body : Update(r, i, b)
    BY <2>4 DEF Update
  <2>5. CASE \E j \in DOMAIN incidents, e \in {"relate", "unrelate"} :
                  ReadFirst(r, e, i, j)
    BY <2>5 DEF ReadFirst
  <2> QED  BY <1>2, <2>1, <2>2, <2>3, <2>4, <2>5
<1> QED  BY <1>1, <1>2 DEF Begin

\* A handler that leaves investigations and jobs alone.
LEMMA QuietReview ==
  ASSUME ReviewInv, NEW r \in Request, Alone(r), UNCHANGED <<investigations, jobs>>,
         pc'[r] \in InFlight =>
           pc[r] \in InFlight \/ \A q \in Request : pc[q] \notin InFlight,
         pc'[r] = "working" => ReviewHeld(held'[r])
  PROVE  ReviewInv' /\ Stands
<1>1. OneInFlight'
  BY DEF ReviewInv, OneInFlight, Alone
<1>2. ASSUME NEW q \in Request, pc'[q] = "working" PROVE ReviewHeld(held'[q])
  <2>1. CASE q = r
    BY <1>2, <2>1
  <2>2. CASE q # r
    BY <1>2, <2>2 DEF ReviewInv, Alone
  <2> QED  BY <2>1, <2>2
<1>3. ASSUME NEW q \in Request, pc'[q] = "working" PROVE ReviewHeld(held[q])'
  BY <1>2, <1>3 DEF ReviewHeld, IsPending
<1>4. \A j \in DOMAIN jobs' : JobFits(j)'
  BY DEF ReviewInv, JobFits
<1> QED  BY <1>1, <1>3, <1>4 DEF ReviewInv, Stands

\* The calls of Incidents move alone, and wait only to read a second incident.
LEMMA BeginMoves ==
  ASSUME InvestigationInv, NEW r \in Request, Begin(r)
  PROVE  Alone(r) /\ (pc'[r] = "working" => held'[r].step \in {"relate", "unrelate"})
<1>0. ShapeInv /\ SoundIncidents
  BY DEF InvestigationInv, ShapeInv, SoundIncidents
<1>1. Opens(r)
  BY <1>0, BeginOpens
<1>2. ASSUME NEW commands, Send(r, commands)
      PROVE  Alone(r) /\ pc'[r] # "working"
  BY <1>0, <1>2, MovesAlone
<1>3. ASSUME NEW answer \in Ended, Return(r, answer)
      PROVE  Alone(r) /\ pc'[r] # "working"
  BY <1>0, <1>3, MovesAlone DEF Ended
<1>4. ASSUME NEW h, h.step \in {"relate", "unrelate"}, Await(r, h)
      PROVE  Alone(r) /\ held'[r].step \in {"relate", "unrelate"}
  BY <1>0, <1>4, MovesAlone
<1>5. ASSUME NEW i \in Incident, NEW sev \in Severity, NEW sv \in ServiceList,
             NEW a \in User \cup {None}, Create(r, i, sev, sv, a)
      PROVE  Alone(r) /\ pc'[r] # "working"
  BY <1>0, <1>5 DEF Create, ShapeInv, Alone
<1> QED  BY <1>1, <1>2, <1>3, <1>4, <1>5 DEF Opens

\* The calls of Incidents hold nothing of a review.
LEMMA BeginReviewed ==
  ASSUME OneByOne, InvestigationInv, ReviewInv, NEW r \in Request,
         Begin(r), UNCHANGED aiVars
  PROVE  ReviewInv' /\ Stands
<1>0. ShapeInv /\ SoundIncidents
  BY DEF InvestigationInv, ShapeInv, SoundIncidents
<1>1. Opens(r) /\ \A q \in Request : pc[q] \notin InFlight
  BY <1>0, BeginOpens, BeginStarts, StartsAlone DEF OneByOne, ReviewInv
<1>2. Alone(r) /\ (pc'[r] = "working" => held'[r].step \in {"relate", "unrelate"})
  BY BeginMoves
<1>3. pc'[r] = "working" => ReviewHeld(held'[r])
  BY <1>2 DEF ReviewHeld
<1> QED  BY <1>1, <1>2, <1>3, QuietReview DEF aiVars

\* A handler of a review that goes on or returns.
LEMMA ReviewGoesOn ==
  ASSUME InvestigationInv, ReviewInv, NEW r \in Request,
         UNCHANGED <<investigations, jobs>>,
         pc[r] \in InFlight \/ \A q \in Request : pc[q] \notin InFlight,
         \/ \E answer \in Ended : Return(r, answer)
         \/ \E h : ReviewHeld(h) /\ Await(r, h)
  PROVE  ReviewInv' /\ Stands
<1>1. ShapeInv
  BY DEF InvestigationInv
<1>2. Alone(r) /\ (pc'[r] = "working" => ReviewHeld(held'[r]))
  <2>1. ASSUME NEW answer \in Ended, Return(r, answer)
        PROVE  Alone(r) /\ pc'[r] # "working"
    BY <1>1, <2>1, MovesAlone DEF Ended
  <2>2. ASSUME NEW h, ReviewHeld(h), Await(r, h)
        PROVE  Alone(r) /\ held'[r] = h
    BY <1>1, <2>2, MovesAlone
  <2> QED  BY <2>1, <2>2
<1> QED  BY <1>2, QuietReview

\* Approving and rejecting start with nothing found.
LEMMA ReviewReviewed ==
  ASSUME OneByOne, InvestigationInv, ReviewInv, NEW r \in Request, BeginReview(r)
  PROVE  ReviewInv' /\ Stands
<1>1. ASSUME NEW endpoint \in {"approve", "reject"}, NEW i, NEW v, NEW force,
             Review(r, endpoint, i, v, force)
      PROVE  ReviewInv' /\ Stands
  <2>1. PICK h : h = [step |-> endpoint, incident |-> i, loaded |-> incidents[i],
                      inv |-> v, force |-> force]
    OBVIOUS
  <2>2. Starts(r, endpoint) /\ Await(r, h) /\ UNCHANGED <<investigations, jobs>>
    BY <1>1, <2>1 DEF Review, aiVars
  <2>3. ReviewHeld(h)
    BY <2>1 DEF ReviewHeld
  <2>4. \A q \in Request : pc[q] \notin InFlight
    BY <2>2, StartsAlone DEF OneByOne, ReviewInv
  <2> QED  BY <2>2, <2>3, <2>4, ReviewGoesOn
<1> QED  BY <1>1 DEF BeginReview

\* A review finds only what is pending, and holds to it.
LEMMA ApproveReviewed ==
  ASSUME InvestigationInv, ReviewInv, NEW r \in Request, Approve(r)
  PROVE  ReviewInv' /\ Stands
<1>1. PICK h : h = held[r]
  OBVIOUS
<1>2. /\ pc[r] \in InFlight /\ UNCHANGED <<investigations, jobs>>
      /\ "refused" \in Ended
  BY DEF Approve, At, aiVars, InFlight, Ended
<1>3. ASSUME Return(r, "refused") PROVE ReviewInv' /\ Stands
  BY <1>2, <1>3, ReviewGoesOn
<1>4. ASSUME NEW v, NEW step, Reviewable(v), step \in {"task", "execute"},
             Await(r, [step |-> step, incident |-> h.incident, loaded |-> h.loaded,
                       inv |-> v, action |-> investigations[v].action, force |-> h.force])
      PROVE  ReviewInv' /\ Stands
  <2>1. PICK g : g = [step |-> step, incident |-> h.incident, loaded |-> h.loaded,
                      inv |-> v, action |-> investigations[v].action, force |-> h.force]
    OBVIOUS
  <2>2. ReviewHeld(g)
    BY <1>4, <2>1 DEF ReviewHeld, Reviewable
  <2> QED  BY <1>2, <1>4, <2>1, <2>2, ReviewGoesOn
<1>5. ASSUME NEW v, Reviewable(v), ~Return(r, "refused"),
             LET action == investigations[v].action IN
             IF \/ StaleIncident(h.loaded, action, h.force)
                \/ ~Effective(h.loaded, action, r)
               THEN Return(r, "refused")
               ELSE Await(r, [step |-> IF action.type = "CREATE_TASK"
                                         THEN "task" ELSE "execute",
                              incident |-> h.incident, loaded |-> h.loaded,
                              inv |-> v, action |-> action, force |-> h.force])
      PROVE  ReviewInv' /\ Stands
  <2>1. PICK step : step = IF investigations[v].action.type = "CREATE_TASK"
                             THEN "task" ELSE "execute"
    OBVIOUS
  <2>2. Await(r, [step |-> step, incident |-> h.incident, loaded |-> h.loaded,
                  inv |-> v, action |-> investigations[v].action, force |-> h.force])
    BY <1>5, <2>1
  <2>3. step \in {"task", "execute"}
    BY <2>1
  <2> QED  BY <1>4, <1>5, <2>2, <2>3
<1> QED  BY <1>1, <1>3, <1>5 DEF Approve

\* The same of a rejection.
LEMMA RejectReviewed ==
  ASSUME InvestigationInv, ReviewInv, NEW r \in Request, Reject(r)
  PROVE  ReviewInv' /\ Stands
<1>1. /\ pc[r] \in InFlight /\ UNCHANGED <<investigations, jobs>>
      /\ "refused" \in Ended
  BY DEF Reject, At, aiVars, InFlight, Ended
<1>2. ASSUME NEW v, Reviewable(v), Await(r, [step |-> "dismiss", inv |-> v])
      PROVE  ReviewInv' /\ Stands
  <2>1. PICK g : g = [step |-> "dismiss", inv |-> v]
    OBVIOUS
  <2>2. ReviewHeld(g)
    BY <1>2, <2>1 DEF ReviewHeld, Reviewable
  <2> QED  BY <1>1, <1>2, <2>1, <2>2, ReviewGoesOn
<1> QED  BY <1>1, <1>2, ReviewGoesOn DEF Reject

\* What is pending stays so while the action is done.
LEMMA ActionReviewed ==
  ASSUME InvestigationInv, ReviewInv, NEW r \in Request,
         Execute(r) \/ LookForTask(r) \/ CreateTask(r)
  PROVE  ReviewInv' /\ Stands
<1>1. PICK h : h = held[r]
  OBVIOUS
<1>2. /\ pc[r] = "working" /\ h.step \in {"execute", "task", "create"}
      /\ UNCHANGED <<investigations, jobs>>
  BY <1>1 DEF Execute, LookForTask, CreateTask, At, aiVars
<1>3. IsPending(h.inv) /\ pc[r] \in InFlight /\ "refused" \in Ended
  BY <1>1, <1>2 DEF ReviewInv, ReviewHeld, InFlight, Ended
<1>4. ASSUME Await(r, [step |-> "settle", inv |-> h.inv])
      PROVE  ReviewInv' /\ Stands
  <2>1. PICK g : g = [step |-> "settle", inv |-> h.inv]
    OBVIOUS
  <2>2. ReviewHeld(g)
    BY <1>3, <2>1 DEF ReviewHeld
  <2> QED  BY <1>2, <1>3, <1>4, <2>1, <2>2, ReviewGoesOn
<1>5. CASE LookForTask(r)
  <2>1. h.step = "task" /\ HeldInv(h)
    BY <1>1, <1>2, <1>5 DEF LookForTask, At, InvestigationInv, HandlerInv
  <2>2. PICK g : g = [h EXCEPT !["step"] = "create"]
    OBVIOUS
  <2>3. g.step = "create" /\ g.inv = h.inv
    BY <2>1, <2>2 DEF HeldInv
  <2>4. ReviewHeld(g)
    BY <1>3, <2>3 DEF ReviewHeld
  <2>5. Return(r, "refused") \/ Await(r, g)
    BY <1>1, <1>5, <2>2 DEF LookForTask
  <2> QED  BY <1>2, <1>3, <2>4, <2>5, ReviewGoesOn
<1>6. ~LookForTask(r) => Await(r, [step |-> "settle", inv |-> h.inv])
  BY <1>1 DEF Execute, CreateTask
<1> QED  BY <1>4, <1>5, <1>6

\* Only a pending action is decided.
LEMMA DecideReviewed ==
  ASSUME InvestigationInv, ReviewInv, NEW r \in Request, NEW status \in Decided,
         pc[r] = "working", held[r].step \in {"settle", "dismiss"}, Decide(r, status)
  PROVE  ReviewInv' /\ Stands
<1>0. ShapeInv
  BY DEF InvestigationInv
<1>1. PICK v : v = held[r].inv
  OBVIOUS
<1>2. HeldInv(held[r]) /\ ReviewHeld(held[r])
  BY DEF InvestigationInv, HandlerInv, ReviewInv
<1>3. v \in DOMAIN investigations /\ IsPending(v) /\ pc[r] \in InFlight
  BY <1>1, <1>2 DEF HeldInv, ReviewHeld, InFlight
<1>4. PICK d : d = investigations[v]
  OBVIOUS
<1>5. d.action # None /\ d.action.status = "PENDING_APPROVAL" /\ Sound(v, d)
  BY <1>3, <1>4 DEF IsPending, InvestigationInv, DocInv
<1>6. PICK a : a = [d.action EXCEPT !["status"] = status]
  OBVIOUS
<1>7. PICK e : e = [d EXCEPT !["action"] = a]
  OBVIOUS
<1>8. /\ investigations' = [investigations EXCEPT ![v] = e]
      /\ Send(r, {}) /\ UNCHANGED jobs
  BY <1>1, <1>4, <1>5, <1>6, <1>7 DEF Decide
<1>9. e.ver = d.ver
  BY <1>5, <1>7 DEF Sound, InvestigationField
<1>10. /\ DOMAIN investigations' = DOMAIN investigations
       /\ investigations'[v] = e
       /\ \A w \in DOMAIN investigations \ {v} : investigations'[w] = investigations[w]
  BY <1>3, <1>8
<1>11. Alone(r) /\ pc'[r] # "working"
  BY <1>0, <1>8, MovesAlone
<1>12. OneInFlight'
  BY <1>3, <1>11 DEF ReviewInv, OneInFlight, Alone
<1>13. \A q \in Request : pc'[q] # "working"
  BY <1>3, <1>11 DEF ReviewInv, OneInFlight, Alone, InFlight
<1>14. ASSUME NEW j \in DOMAIN jobs PROVE JobFits(j)'
  <2>1. JobFits(j) /\ jobs[j].inv \in DOMAIN investigations
    BY DEF ReviewInv, InvestigationInv, JobInv
  <2>2. CASE jobs[j].inv # v
    BY <1>8, <1>10, <2>1, <2>2 DEF JobFits
  <2>3. CASE jobs[j].inv = v
    <3>1. /\ jobs[j].step \notin {"waiting", "mark", "progress", "finish"}
          /\ jobs[j].step = "abort" => jobs[j].wanted.action = jobs[j].copy.action
      BY <1>4, <1>5, <2>1, <2>3 DEF JobFits
    <3> QED  BY <1>8, <2>1, <3>1 DEF JobFits
  <2> QED  BY <2>2, <2>3
<1>15. ReviewInv'
  BY <1>8, <1>12, <1>13, <1>14 DEF ReviewInv
<1>16. Stands
  BY <1>4, <1>5, <1>10 DEF Stands, Decided
<1> QED  BY <1>15, <1>16

\* A job that fits its document again, and has removed no action.
LEMMA JobReviewed ==
  ASSUME InvestigationInv, ReviewInv, NEW j \in DOMAIN jobs, NEW v, v = jobs[j].inv,
         JobAlone(j), UNCHANGED vars,
         DOMAIN investigations' = DOMAIN investigations,
         \A w \in DOMAIN investigations \ {v} : investigations'[w] = investigations[w],
         investigations[v].action # None =>
           investigations'[v].action = investigations[v].action,
         JobFits(j)'
  PROVE  ReviewInv' /\ ActionsStay
<1>1. OneInFlight'
  BY DEF ReviewInv, OneInFlight, vars
<1>2. \A k, l \in DOMAIN jobs' : jobs'[k].inv = jobs'[l].inv => k = l
  BY DEF ReviewInv, JobAlone
<1>3. ASSUME NEW k \in DOMAIN jobs, k # j PROVE JobFits(k)'
  <2>1. /\ JobFits(k) /\ jobs[k].inv # v /\ jobs'[k] = jobs[k]
        /\ jobs[k].inv \in DOMAIN investigations
    BY <1>3 DEF ReviewInv, JobAlone, InvestigationInv, JobInv
  <2>2. investigations'[jobs[k].inv] = investigations[jobs[k].inv]
    BY <2>1
  <2> QED  BY <2>1, <2>2 DEF JobFits
<1>4. ASSUME NEW q \in Request, pc'[q] = "working" PROVE ReviewHeld(held[q])'
  <2>1. PICK h : h = held[q]
    OBVIOUS
  <2>2. ReviewHeld(h) /\ HeldInv(h)
    BY <1>4, <2>1 DEF ReviewInv, InvestigationInv, HandlerInv, vars
  <2>3. ASSUME h.step \in {"execute", "task", "create", "settle", "dismiss"}
        PROVE  IsPending(h.inv)'
    <3>1. IsPending(h.inv) /\ h.inv \in DOMAIN investigations
      BY <2>2, <2>3 DEF ReviewHeld, HeldInv
    <3>2. investigations'[h.inv].action = investigations[h.inv].action
      BY <3>1 DEF IsPending
    <3> QED  BY <3>1, <3>2 DEF IsPending
  <2>4. ReviewHeld(h)'
    BY <2>2, <2>3 DEF ReviewHeld
  <2>5. held' = held
    BY DEF vars
  <2> QED  BY <2>1, <2>4, <2>5
<1>5. ReviewInv'
  BY <1>1, <1>2, <1>3, <1>4 DEF ReviewInv, JobAlone
<1>6. ActionsStay
  BY DEF ActionsStay
<1> QED  BY <1>5, <1>6

\* What the save of a job leaves of the action.
LEMMA JobSaves ==
  ASSUME InvestigationInv, NEW j \in DOMAIN jobs, Running(j),
         Stored(jobs[j].inv, Assigned(j)), NEW v, v = jobs[j].inv
  PROVE  /\ DOMAIN investigations' = DOMAIN investigations
         /\ \A w \in DOMAIN investigations \ {v} : investigations'[w] = investigations[w]
         /\ investigations'[v].action =
              IF jobs[j].wanted.action # jobs[j].copy.action
                THEN jobs[j].wanted.action ELSE investigations[v].action
         /\ Saved(jobs[j].wanted).action = jobs[j].wanted.action
         /\ DOMAIN Saved(jobs[j].wanted) = InvestigationField
<1>1. PICK d, copy, wanted : /\ d = investigations[v] /\ copy = jobs[j].copy
                             /\ wanted = jobs[j].wanted
  OBVIOUS
<1>2. /\ v \in DOMAIN investigations
      /\ DOMAIN d = InvestigationField /\ DOMAIN copy = InvestigationField
      /\ DOMAIN wanted = InvestigationField
  BY <1>1 DEF InvestigationInv, JobInv, DocInv, Sound
<1>3. PICK e : e = After(v, d, copy, wanted)
  OBVIOUS
<1>4. investigations' = [investigations EXCEPT ![v] = e]
  BY <1>1, <1>3 DEF Stored, Assigned, After
<1>5. e.action = IF wanted.action # copy.action THEN wanted.action ELSE d.action
  BY <1>2, <1>3, AfterDoes DEF InvestigationField
<1>6. /\ Saved(wanted).action = wanted.action
      /\ DOMAIN Saved(wanted) = InvestigationField
  BY <1>2, SavedDoes DEF InvestigationField
<1> QED  BY <1>1, <1>2, <1>4, <1>5, <1>6

\* Job j moves alone, stores an action only where there was none, and a pending
\* one, and fits its document again.
FitsOn(j) ==
  /\ JobAlone(j) /\ UNCHANGED vars
  /\ DOMAIN investigations' = DOMAIN investigations
  /\ \A w \in DOMAIN investigations \ {jobs[j].inv} : investigations'[w] = investigations[w]
  /\ investigations'[jobs[j].inv].action # investigations[jobs[j].inv].action =>
       /\ investigations[jobs[j].inv].action = None
       /\ investigations'[jobs[j].inv].action # None
       /\ investigations'[jobs[j].inv].action.status = "PENDING_APPROVAL"
  /\ JobFits(j)'

\* A worker takes the job: the document has no action yet.
LEMMA TakeJobFits ==
  ASSUME InvestigationInv, NEW j \in Job, JobFits(j), TakeJob(j)
  PROVE  FitsOn(j)
<1>1. PICK v, doc : v = jobs[j].inv /\ doc = investigations[v]
  OBVIOUS
<1>2. PICK wanted : wanted = [doc EXCEPT !["status"] = "RUNNING"]
  OBVIOUS
<1>3. /\ j \in DOMAIN jobs /\ jobs[j].step = "waiting" /\ JobGoesOn(j, "mark", doc, wanted)
      /\ UNCHANGED vars /\ UNCHANGED investigations
  BY <1>1, <1>2 DEF TakeJob, InStep
<1>4. /\ JobAlone(j) /\ jobs'[j].step = "mark"
      /\ jobs'[j].copy = doc /\ jobs'[j].wanted = wanted
  BY <1>3, JobMoves
<1>5. doc.action = None
  BY <1>1, <1>3 DEF JobFits
<1>6. DOMAIN doc = InvestigationField
  BY <1>1, <1>3 DEF InvestigationInv, JobInv, DocInv, Sound
<1>7. wanted.action = doc.action
  BY <1>2, <1>6 DEF InvestigationField
<1>8. JobFits(j)'
  BY <1>1, <1>3, <1>4, <1>5, <1>7 DEF JobFits, JobAlone
<1> QED  BY <1>3, <1>4, <1>8 DEF FitsOn

\* A job that ends without a save has nothing left to fit.
LEMMA EndFits ==
  ASSUME NEW j \in DOMAIN jobs, NEW step \in Over, EndJob(j, step),
         UNCHANGED <<vars, investigations>>
  PROVE  FitsOn(j)
<1>1. JobAlone(j) /\ jobs'[j].step = step
  BY JobMoves
<1>2. JobFits(j)'
  BY <1>1 DEF JobFits, Over
<1> QED  BY <1>1, <1>2 DEF FitsOn, vars

\* The catch of a job keeps what was assigned, and only adds the status.
LEMMA CatchFits ==
  ASSUME InvestigationInv, NEW j \in DOMAIN jobs, Running(j), JobFits(j),
         jobs[j].step # "abort", GoesToCatch(j), UNCHANGED <<vars, investigations>>
  PROVE  FitsOn(j)
<1>1. PICK w : w = [jobs[j].wanted EXCEPT !["status"] = "FAILED"]
  OBVIOUS
<1>2. DOMAIN jobs[j].wanted = InvestigationField
  BY DEF InvestigationInv, JobInv, Sound
<1>3. w.action = jobs[j].wanted.action
  BY <1>1, <1>2 DEF InvestigationField
<1>4. JobGoesOn(j, "abort", jobs[j].copy, w)
  BY <1>1 DEF GoesToCatch
<1>5. /\ JobAlone(j) /\ jobs'[j].step = "abort"
      /\ jobs'[j].copy = jobs[j].copy /\ jobs'[j].wanted = w
  BY <1>4, JobMoves
<1>6. jobs[j].step \in {"mark", "progress", "finish", "audit"}
  BY DEF InvestigationInv, JobInv, JobStepName, Running
<1>7. JobFits(j)'
  BY <1>3, <1>5, <1>6 DEF JobFits, JobAlone
<1> QED  BY <1>5, <1>7 DEF FitsOn, vars

\* A job that has stored its copy with no action, and goes on from what it stored.
LEMMA StoresFits ==
  ASSUME InvestigationInv, NEW j \in DOMAIN jobs, JobFits(j),
         jobs[j].step \in {"mark", "progress"},
         Stored(jobs[j].inv, Assigned(j)), UNCHANGED vars,
         NEW step \in {"progress", "finish", "abort"}, NEW wanted,
         JobGoesOn(j, step, Saved(jobs[j].wanted), wanted),
         wanted.action # Saved(jobs[j].wanted).action =>
           /\ step = "finish"
           /\ wanted.action # None /\ wanted.action.status = "PENDING_APPROVAL"
  PROVE  FitsOn(j)
<1>1. PICK v, copy : v = jobs[j].inv /\ copy = Saved(jobs[j].wanted)
  OBVIOUS
<1>2. Running(j)
  BY DEF Running, Over
<1>3. /\ DOMAIN investigations' = DOMAIN investigations
      /\ \A w \in DOMAIN investigations \ {v} : investigations'[w] = investigations[w]
      /\ jobs[j].wanted.action = jobs[j].copy.action =>
           investigations'[v].action = investigations[v].action
      /\ copy.action = jobs[j].wanted.action
  BY <1>1, <1>2, JobSaves
<1>4. /\ investigations[v].action = None
      /\ jobs[j].copy.action = None /\ jobs[j].wanted.action = jobs[j].copy.action
  BY <1>1 DEF JobFits
<1>5. /\ JobAlone(j) /\ jobs'[j].step = step
      /\ jobs'[j].copy = copy /\ jobs'[j].wanted = wanted
  BY <1>1, JobMoves
<1>6. jobs'[j].inv = v
  BY <1>1, <1>5 DEF JobAlone
<1>7. JobFits(j)'
  BY <1>1, <1>3, <1>4, <1>5, <1>6 DEF JobFits
<1> QED  BY <1>1, <1>3, <1>4, <1>5, <1>7 DEF FitsOn

\* RUNNING is stored, with the action there is, or not stored.
LEMMA MarkFits ==
  ASSUME InvestigationInv, NEW j \in Job, JobFits(j), MarkRunning(j)
  PROVE  FitsOn(j)
<1>1. PICK copy : copy = Saved(jobs[j].wanted)
  OBVIOUS
<1>2. /\ j \in DOMAIN jobs /\ jobs[j].step = "mark" /\ Running(j) /\ UNCHANGED vars
  BY DEF MarkRunning, InStep, Running, Over
<1>3. CASE Stored(jobs[j].inv, Assigned(j)) /\ JobGoesOn(j, "progress", copy, copy)
  BY <1>1, <1>2, <1>3, StoresFits
<1>4. CASE GoesToCatch(j) /\ UNCHANGED investigations
  BY <1>2, <1>4, CatchFits
<1> QED  BY <1>1, <1>3, <1>4 DEF MarkRunning

\* Progress is stored, with the action there is, or not stored.
LEMMA AskFits ==
  ASSUME InvestigationInv, NEW j \in Job, JobFits(j), AskProvider(j)
  PROVE  FitsOn(j)
<1>1. PICK copy : copy = Saved(jobs[j].wanted)
  OBVIOUS
<1>2. /\ j \in DOMAIN jobs /\ jobs[j].step = "progress" /\ Running(j) /\ UNCHANGED vars
  BY DEF AskProvider, InStep, Running, Over
<1>3. DOMAIN copy = InvestigationField
  <2>1. DOMAIN jobs[j].wanted = InvestigationField
    BY <1>2 DEF InvestigationInv, JobInv, Sound
  <2> QED  BY <1>1, <2>1, SavedDoes
<1>4. ASSUME NEW p \in Proposal, Stored(jobs[j].inv, Assigned(j)),
             JobGoesOn(j, "finish", copy, [copy EXCEPT !.status = "COMPLETED",
                         !.findings = j, !.action = Pending(p)])
      PROVE  FitsOn(j)
  <2>1. PICK w : w = [copy EXCEPT !["status"] = "COMPLETED", !["findings"] = j,
                                  !["action"] = Pending(p)]
    OBVIOUS
  <2>2. w.action = Pending(p) /\ JobGoesOn(j, "finish", copy, w)
    BY <1>3, <1>4, <2>1 DEF InvestigationField
  <2>3. copy.action = None
    <3>1. jobs[j].wanted.action = None
      BY <1>2 DEF JobFits
    <3> QED  BY <1>1, <1>2, <1>4, <3>1, JobSaves
  <2>4. Pending(p) # None => Pending(p).status = "PENDING_APPROVAL"
    BY DEF Pending
  <2> QED  BY <1>1, <1>2, <1>4, <2>2, <2>3, <2>4, StoresFits
<1>5. ASSUME Stored(jobs[j].inv, Assigned(j)),
             JobGoesOn(j, "abort", copy, [copy EXCEPT !.status = "FAILED"])
      PROVE  FitsOn(j)
  <2>1. PICK w : w = [copy EXCEPT !["status"] = "FAILED"]
    OBVIOUS
  <2>2. w.action = copy.action /\ JobGoesOn(j, "abort", copy, w)
    BY <1>3, <1>5, <2>1 DEF InvestigationField
  <2> QED  BY <1>1, <1>2, <1>5, <2>2, StoresFits
<1>6. CASE GoesToCatch(j) /\ UNCHANGED investigations
  BY <1>2, <1>6, CatchFits
<1> QED  BY <1>1, <1>4, <1>5, <1>6 DEF AskProvider

\* The outcome is stored where there was no action, or given up.
LEMMA FinishFits ==
  ASSUME InvestigationInv, NEW j \in Job, JobFits(j), Finish(j)
  PROVE  FitsOn(j)
<1>1. PICK v, copy : v = jobs[j].inv /\ copy = Saved(jobs[j].wanted)
  OBVIOUS
<1>2. j \in DOMAIN jobs /\ jobs[j].step = "finish" /\ Running(j) /\ UNCHANGED vars
  BY DEF Finish, InStep, Running, Over
<1>3. CASE Stored(v, Assigned(j)) /\ JobGoesOn(j, "audit", copy, copy)
  <2>1. /\ JobAlone(j) /\ jobs'[j].step = "audit"
        /\ jobs'[j].copy = copy /\ jobs'[j].wanted = copy
    BY <1>2, <1>3, JobMoves
  <2>2. JobFits(j)'
    BY <2>1 DEF JobFits
  <2>3. /\ DOMAIN investigations' = DOMAIN investigations
        /\ \A w \in DOMAIN investigations \ {v} : investigations'[w] = investigations[w]
        /\ investigations'[v].action =
             IF jobs[j].wanted.action # jobs[j].copy.action
               THEN jobs[j].wanted.action ELSE investigations[v].action
    BY <1>1, <1>2, <1>3, JobSaves
  <2>4. /\ investigations[v].action = None
        /\ jobs[j].wanted.action # jobs[j].copy.action =>
             /\ jobs[j].wanted.action # None
             /\ jobs[j].wanted.action.status = "PENDING_APPROVAL"
    BY <1>1, <1>2 DEF JobFits
  <2> QED  BY <1>1, <1>2, <2>1, <2>2, <2>3, <2>4 DEF FitsOn
<1>4. CASE GoesToCatch(j) /\ UNCHANGED investigations
  BY <1>2, <1>4, CatchFits
<1> QED  BY <1>1, <1>3, <1>4 DEF Finish

\* The audit entry changes nothing of the document.
LEMMA AuditFits ==
  ASSUME InvestigationInv, NEW j \in Job, JobFits(j), AuditOutcome(j)
  PROVE  FitsOn(j)
<1>1. /\ j \in DOMAIN jobs /\ jobs[j].step = "audit" /\ Running(j)
      /\ UNCHANGED <<vars, investigations>> /\ "ended" \in Over
  BY DEF AuditOutcome, InStep, Running, Over
<1>2. CASE EndJob(j, "ended")
  BY <1>1, <1>2, EndFits
<1>3. CASE GoesToCatch(j)
  BY <1>1, <1>3, CatchFits
<1> QED  BY <1>2, <1>3 DEF AuditOutcome

\* A failure is stored, with an action only where the outcome was not stored.
LEMMA AbortFits ==
  ASSUME InvestigationInv, NEW j \in Job, JobFits(j), Abort(j)
  PROVE  FitsOn(j)
<1>1. PICK v : v = jobs[j].inv
  OBVIOUS
<1>2. /\ j \in DOMAIN jobs /\ jobs[j].step = "abort" /\ Running(j) /\ UNCHANGED vars
  BY DEF Abort, InStep, Running, Over
<1>3. CASE Stored(v, Assigned(j)) /\ EndJob(j, "ended")
  <2>1. JobAlone(j) /\ jobs'[j].step = "ended"
    BY <1>2, <1>3, JobMoves
  <2>2. JobFits(j)'
    BY <2>1 DEF JobFits
  <2>3. /\ DOMAIN investigations' = DOMAIN investigations
        /\ \A w \in DOMAIN investigations \ {v} : investigations'[w] = investigations[w]
        /\ investigations'[v].action =
             IF jobs[j].wanted.action # jobs[j].copy.action
               THEN jobs[j].wanted.action ELSE investigations[v].action
    BY <1>1, <1>2, <1>3, JobSaves
  <2>4. jobs[j].wanted.action # jobs[j].copy.action =>
          /\ investigations[v].action = None
          /\ jobs[j].wanted.action # None
          /\ jobs[j].wanted.action.status = "PENDING_APPROVAL"
    BY <1>1, <1>2 DEF JobFits
  <2> QED  BY <1>1, <1>2, <2>1, <2>2, <2>3, <2>4 DEF FitsOn
<1>4. CASE \E step \in Over : EndJob(j, step) /\ UNCHANGED investigations
  BY <1>2, <1>4, EndFits
<1> QED  BY <1>1, <1>3, <1>4 DEF Abort, Over

\* Whatever a job does, it fits its document again, if it did.
LEMMA JobStepFits ==
  ASSUME InvestigationInv, NEW j \in Job, JobFits(j), JobStep(j)
  PROVE  j \in DOMAIN jobs /\ executed' = executed /\ FitsOn(j)
<1>1. j \in DOMAIN jobs /\ executed' = executed
  BY DEF JobStep, TakeJob, FailToLoad, MarkRunning, AskProvider, Finish, AuditOutcome,
         Abort, InStep
<1>2. CASE FailToLoad(j)
  BY <1>1, <1>2, EndFits DEF FailToLoad, Over
<1> QED  BY <1>1, <1>2, TakeJobFits, MarkFits, AskFits, FinishFits, AuditFits, AbortFits
         DEF JobStep

\* No job removes an action, and each fits its document.
LEMMA JobStepReviewed ==
  ASSUME InvestigationInv, ReviewInv, NEW j \in Job, JobStep(j)
  PROVE  ReviewInv' /\ ActionsStay
<1>1. j \in DOMAIN jobs
  BY DEF JobStep, TakeJob, FailToLoad, MarkRunning, AskProvider, Finish, AuditOutcome,
         Abort, InStep
<1>2. FitsOn(j)
  BY <1>1, JobStepFits DEF ReviewInv
<1>3. PICK v : v = jobs[j].inv
  OBVIOUS
<1>4. investigations[v].action # None =>
        investigations'[v].action = investigations[v].action
  BY <1>2, <1>3 DEF FitsOn
<1> QED  BY <1>1, <1>2, <1>3, <1>4, JobReviewed DEF FitsOn

\* The process dies: no handler and no job goes on.
LEMMA CrashReviewed ==
  ASSUME OneByOne, InvestigationInv, ReviewInv, CrashAll
  PROVE  ReviewInv' /\ Stands
<1>1. /\ ~QueueActive /\ UNCHANGED investigations
      /\ jobs' = [j \in DOMAIN jobs |-> Recovered(jobs[j])]
  BY DEF CrashAll, OneByOne
<1>2. \A q \in Request : pc'[q] \notin InFlight
  BY DEF CrashAll, Crash, vars, InvestigationInv, ShapeInv, InFlight
<1>3. ASSUME NEW j \in DOMAIN jobs
      PROVE  jobs'[j].step \in Over /\ jobs'[j].inv = jobs[j].inv
  <2>1. ~jobs[j].kept /\ jobs'[j] = Recovered(jobs[j])
    BY <1>1 DEF InvestigationInv, JobInv
  <2>2. CASE jobs[j].step \in Over
    BY <2>1, <2>2 DEF Recovered
  <2>3. CASE jobs[j].step \notin Over
    <3>1. jobs'[j] = AtRest(jobs[j], "died")
      BY <2>1, <2>3 DEF Recovered
    <3> QED  BY <3>1 DEF AtRest, Over
  <2> QED  BY <2>2, <2>3
<1>4. \A j \in DOMAIN jobs' : JobFits(j)'
  BY <1>1, <1>3 DEF JobFits, Over
<1>5. \A j, k \in DOMAIN jobs' : jobs'[j].inv = jobs'[k].inv => j = k
  BY <1>1, <1>3 DEF ReviewInv
<1>6. OneInFlight' /\ \A q \in Request : pc'[q] # "working"
  BY <1>2 DEF OneInFlight, InFlight
<1>7. Stands
  BY <1>1 DEF Stands
<1> QED  BY <1>4, <1>5, <1>6, <1>7 DEF ReviewInv

\* Saves and announcements of an incident are no business of a review.
LEMMA SaveReviewed ==
  ASSUME InvestigationInv, ReviewInv, NEW r \in Request,
         \/ \E c \in writes[r] : SaveIncident(r, c)
         \/ Announce(r) /\ UNCHANGED aiVars
  PROVE  ReviewInv' /\ Stands
<1>1. /\ UNCHANGED <<investigations, jobs>> /\ held' = held
      /\ \/ pc' = pc
         \/ pc[r] \in {"saving", "written"} /\ pc' = [pc EXCEPT ![r] = "written"]
         \/ pc' = [pc EXCEPT ![r] = "done"]
      /\ writes' = writes \/ \E c : writes' = [writes EXCEPT ![r] = @ \ {c}]
  BY DEF SaveIncident, ExecuteSave, Announce, aiVars
<1>2. Alone(r)
  BY <1>1 DEF InvestigationInv, ShapeInv, Alone
<1>3. /\ pc'[r] \in InFlight => pc[r] \in InFlight
      /\ pc'[r] = "working" => pc[r] = "working"
  BY <1>1 DEF InvestigationInv, ShapeInv, InFlight
<1>4. pc'[r] = "working" => ReviewHeld(held'[r])
  BY <1>1, <1>3 DEF ReviewInv
<1> QED  BY <1>1, <1>2, <1>3, <1>4, QuietReview

\* Every step keeps the invariant, and the decisions.
LEMMA ReviewNext ==
  ASSUME OneByOne, InvestigationInv, ReviewInv, [NextAI]_allVars
  PROVE  ReviewInv' /\ Stands
<1>1. CASE UNCHANGED allVars
  BY <1>1 DEF allVars, vars, aiVars, ReviewInv, OneInFlight, JobFits, ReviewHeld,
              IsPending, Stands
<1>2. CASE CrashAll
  BY <1>2, CrashReviewed
<1>3. ASSUME NEW r \in Request, BeginAny(r) PROVE ReviewInv' /\ Stands
  <2>1. \A i \in DOMAIN incidents : ~Investigate(r, i)
    BY DEF OneByOne, Investigate, Starts
  <2>2. CASE BeginReview(r)
    BY <2>2, ReviewReviewed
  <2>3. CASE Begin(r) /\ UNCHANGED aiVars
    BY <2>3, BeginReviewed
  <2> QED  BY <1>3, <2>1, <2>2, <2>3 DEF BeginAny
<1>4. ASSUME NEW r \in Request, AIStep(r) PROVE ReviewInv' /\ Stands
  <2>1. ~Lookup(r) /\ ~Enqueue(r) /\ \A v \in Investigation : ~RecordInvestigation(r, v)
    BY DEF Lookup, Enqueue, RecordInvestigation, At, ReviewInv, ReviewHeld
  <2>2. CASE MarkExecuted(r)
    BY <2>2, DecideReviewed DEF MarkExecuted, At, Decided
  <2>3. CASE MarkRejected(r)
    BY <2>3, DecideReviewed DEF MarkRejected, At, Decided
  <2>4. CASE Approve(r) \/ Reject(r)
    BY <2>4, ApproveReviewed, RejectReviewed
  <2>5. CASE Execute(r) \/ LookForTask(r) \/ CreateTask(r)
    BY <2>5, ActionReviewed
  <2>6. CASE (\E c \in writes[r] : SaveIncident(r, c)) \/ (Announce(r) /\ UNCHANGED aiVars)
    BY <2>6, SaveReviewed
  <2> QED  BY <1>4, <2>1, <2>2, <2>3, <2>4, <2>5, <2>6 DEF AIStep
<1>5. ASSUME NEW r \in Request, Fail(r) PROVE ReviewInv' /\ Stands
  BY <1>5, ReviewGoesOn DEF Fail, InFlight, Ended, aiVars
<1>6. ASSUME NEW j \in Job, JobStep(j) PROVE ReviewInv' /\ Stands
  BY <1>6, JobStepReviewed DEF ActionsStay, Stands
<1> QED  BY <1>1, <1>2, <1>3, <1>4, <1>5, <1>6 DEF NextAI

\* Each stored investigation is left with one job, which has ended or will find
\* it without an action.
LEMMA ReviewInit == InitAI => ReviewInv
<1> SUFFICES ASSUME InitAI PROVE ReviewInv
  OBVIOUS
<1>1. PICK D \in SUBSET Investigation, C \in SUBSET Investigation :
       \E job \in [D -> Job], of \in [D -> DOMAIN incidents], p \in [D -> Proposal] :
         Left(D, C, job, of, p)
  BY LeftByCalls
<1> USE DEF Left
<1>2. PICK job \in [D -> Job], of \in [D -> DOMAIN incidents], p \in [D -> Proposal] :
         Left(D, C, job, of, p)
  BY <1>1
<1>3. ASSUME NEW j \in DOMAIN jobs
      PROVE  \E v \in D : /\ j = job[v] /\ jobs[j].inv = v
                          /\ jobs[j].step = IF v \in C THEN "ended" ELSE "waiting"
  <2>1. PICK v \in D : j = job[v]
    BY <1>2
  <2>2. (CHOOSE w \in D : job[w] = job[v]) = v
    BY <1>2
  <2>3. jobs[j] = AtRest(NewJob(v, QueueActive), IF v \in C THEN "ended" ELSE "waiting")
    BY <1>2, <2>1, <2>2
  <2> QED  BY <2>1, <2>3 DEF AtRest, NewJob
<1>4. \A j, k \in DOMAIN jobs : jobs[j].inv = jobs[k].inv => j = k
  BY <1>3
<1>5. \A v \in D : v \notin C => investigations[v].action = None
  BY <1>2
<1>6. ASSUME NEW j \in DOMAIN jobs PROVE JobFits(j)
  BY <1>3, <1>5 DEF JobFits
<1>7. \A r \in Request : pc[r] = "idle"
  BY DEF InitAI, Init
<1> QED  BY <1>4, <1>6, <1>7 DEF ReviewInv, OneInFlight, InFlight

\* Calls that come one at a time find one job per investigation, whose outcome
\* is stored before a review finds it.
THEOREM ReviewsSound ==
  ASSUME OneByOne PROVE SpecAI => []ReviewInv
<1>1. InvestigationInv /\ ReviewInv /\ [NextAI]_allVars => ReviewInv'
  BY ReviewNext
<1> QED  BY InvestigationsSound, ReviewInit, <1>1, PTL DEF SpecAI

\* An executed or rejected action stays as it was decided, whatever jobs are at
\* work, handlers fail and crashes come in between.
THEOREM DecisionsStand ==
  ASSUME OneByOne PROVE SpecAI => DecisionStands
<1>1. InvestigationInv /\ ReviewInv /\ [NextAI]_allVars =>
        [Stands]_allVars
  BY ReviewNext
<1>2. Stands <=> \A v \in DOMAIN investigations :
       investigations[v].action # None
         /\ investigations[v].action.status \in Decided
         => investigations'[v].action = investigations[v].action
  BY DEF Stands
<1> QED  BY InvestigationsSound, ReviewsSound, <1>1, <1>2, PTL DEF SpecAI, DecisionStands

-----------------------------------------------------------------------------
(* What a review did is still to be seen when the review is repeated: of   *)
(* one incident, while no call takes it back and no reviewer insists.      *)

NothingUndone ==
  /\ \A i, j \in Incident : i = j
  /\ Endpoint \cap {"severity", "assign", "update"} = {}
  /\ ForceSent \subseteq {FALSE}
  /\ \A p \in Proposal \ {None} : p.type # "CHANGE_STATUS"

\* The effect of an action on incident i is there.
Shows(i, a) ==
  /\ a.type = "CHANGE_SEVERITY" => incidents[i].severity = a.value
  /\ a.type = "ASSIGN_INCIDENT" => incidents[i].assignee = a.value
  /\ a.type = "CREATE_TASK" => \E t \in tasks : t.incident = i /\ t.title = a.value

Lasts(v) ==
  /\ v \in DOMAIN investigations
  /\ investigations[v].action # None
  /\ \A i \in DOMAIN incidents : Shows(i, investigations[v].action)

\* What a handler of a review holds is what is stored, and what it is about to do
\* has not been done.
ReviewHolds(h) ==
  /\ h.step \in {"approve", "execute"} => h.loaded = incidents[h.incident]
  /\ h.step \in {"approve", "task"} => h.force = FALSE
  /\ h.step \in {"execute", "task", "create"} => h.action = investigations[h.inv].action
  /\ h.step \in {"task", "create"} => h.action.type = "CREATE_TASK"
  /\ h.step \in {"execute", "create"} => \A e \in executed : e.inv # h.inv

\* Saves are awaited, and change nothing that an action changes.
HarmlessSaves(W) == \A c \in W : {"severity", "assignee"} \cap DOMAIN c.set = {}

OnceInv ==
  /\ ExecutedOnce
  /\ \A e \in executed : Lasts(e.inv)
  /\ \A v, w \in DOMAIN investigations : v = w
  /\ \A r \in Request : pc[r] = "working" => ReviewHolds(held[r])
  /\ \A r \in Request : /\ writes[r] # {} => pc[r] = "saving"
                        /\ HarmlessSaves(writes[r])

\* A handler that leaves incidents, investigations, tasks and executions alone.
LEMMA QuietOnce ==
  ASSUME OnceInv, NEW r \in Request, Alone(r),
         UNCHANGED <<incidents, investigations, tasks, executed>>,
         pc'[r] = "working" => ReviewHolds(held'[r]),
         writes'[r] # {} => pc'[r] = "saving", HarmlessSaves(writes'[r])
  PROVE  OnceInv'
<1>1. ExecutedOnce' /\ \A v, w \in DOMAIN investigations' : v = w
  BY DEF OnceInv, ExecutedOnce
<1>2. \A e \in executed' : Lasts(e.inv)'
  BY DEF OnceInv, Lasts, Shows
<1>3. ASSUME NEW q \in Request, pc'[q] = "working" PROVE ReviewHolds(held[q])'
  <2>1. ReviewHolds(held'[q])
    BY <1>3 DEF OnceInv, Alone
  <2> QED  BY <2>1 DEF ReviewHolds
<1>4. ASSUME NEW q \in Request
      PROVE  /\ writes'[q] # {} => pc'[q] = "saving"
             /\ HarmlessSaves(writes'[q])
  BY DEF OnceInv, Alone
<1>5. \A q \in Request : HarmlessSaves(writes[q])'
  BY <1>4 DEF HarmlessSaves
<1> QED  BY <1>1, <1>2, <1>3, <1>4, <1>5 DEF OnceInv

\* The same, when it returns or awaits.
LEMMA GoesOnOnce ==
  ASSUME InvestigationInv, OnceInv, NEW r \in Request, pc[r] # "saving",
         UNCHANGED <<incidents, investigations, tasks, executed>>,
         \/ \E answer \in Ended : Return(r, answer)
         \/ \E h : ReviewHolds(h) /\ Await(r, h)
  PROVE  OnceInv'
<1>0. ShapeInv
  BY DEF InvestigationInv
<1>1. /\ Alone(r) /\ writes'[r] = writes[r]
      /\ pc'[r] = "working" => ReviewHolds(held'[r])
  <2>1. ASSUME NEW answer \in Ended, Return(r, answer)
        PROVE  Alone(r) /\ writes'[r] = writes[r] /\ pc'[r] # "working"
    BY <1>0, <2>1, MovesAlone DEF Ended
  <2>2. ASSUME NEW h, ReviewHolds(h), Await(r, h)
        PROVE  Alone(r) /\ writes'[r] = writes[r] /\ held'[r] = h
    BY <1>0, <2>2, MovesAlone
  <2> QED  BY <2>1, <2>2
<1>2. writes[r] = {}
  BY DEF OnceInv
<1>3. HarmlessSaves(writes'[r])
  BY <1>1, <1>2 DEF HarmlessSaves
<1> QED  BY <1>1, <1>2, <1>3, QuietOnce

\* A change of status saves neither severity nor assignee.
LEMMA StatusHarmless ==
  ASSUME SoundIncidents, NEW r \in Request, NEW i \in DOMAIN incidents, NEW s \in Status
  PROVE  HarmlessSaves({Saves(i, incidents[i], WithStatus(incidents[i], s, r))})
<1>1. PICK d, w : d = incidents[i] /\ w = WithStatus(d, s, r)
  OBVIOUS
<1>2. IsDoc(d)
  BY <1>1 DEF SoundIncidents
<1>3. IsDoc(w)
  BY <1>1, <1>2, ChangeStatusSends
<1>4. w.severity = d.severity /\ w.assignee = d.assignee
  BY <1>1, <1>2, FieldFacts DEF WithStatus, IsDoc
<1>5. PICK c : c = Saves(i, d, w)
  OBVIOUS
<1>6. \A f \in Field : f \in DOMAIN c.set <=> w[f] # d[f]
  BY <1>2, <1>3, <1>5, SavesApplied
<1>7. "severity" \notin DOMAIN c.set /\ "assignee" \notin DOMAIN c.set
  BY <1>4, <1>6, FieldFacts
<1> QED  BY <1>1, <1>5, <1>7 DEF HarmlessSaves

\* Of the calls of Incidents only these start, and none takes back what an action did.
LEMMA BeginOnce ==
  ASSUME NothingUndone, InvestigationInv, OnceInv, NEW r \in Request,
         Begin(r), UNCHANGED aiVars
  PROVE  OnceInv'
<1>0. ShapeInv /\ SoundIncidents
  BY DEF InvestigationInv, ShapeInv, SoundIncidents
<1>1. pc[r] = "idle" /\ writes[r] = {}
  BY <1>0, BeginOpens DEF OnceInv
<1>2. UNCHANGED <<investigations, tasks, executed>>
  BY DEF aiVars
<1>3. ASSUME NEW i \in Incident, NEW sev \in Severity, NEW sv \in ServiceList,
             NEW a \in User \cup {None}, Create(r, i, sev, sv, a)
      PROVE  OnceInv'
  <2>1. DOMAIN incidents = {}
    BY <1>0, <1>3 DEF Create, NothingUndone, ShapeInv
  <2>2. DOMAIN investigations = {}
    BY <2>1 DEF InvestigationInv, DocInv, Sound
  <2>3. executed = {}
    BY <2>2 DEF OnceInv, Lasts
  <2>4. /\ pc' = [pc EXCEPT ![r] = "written"] /\ UNCHANGED <<held, writes>>
    BY <1>3 DEF Create
  <2>5. ASSUME NEW q \in Request, pc'[q] = "working" PROVE ReviewHolds(held[q])'
    <3>1. pc[q] = "working" /\ HeldInv(held[q]) /\ ReviewHolds(held[q])
      BY <1>0, <2>4, <2>5 DEF ShapeInv, InvestigationInv, HandlerInv, OnceInv
    <3>2. held[q].step \notin {"approve", "execute"}
      BY <2>1, <3>1 DEF HeldInv
    <3> QED  BY <1>2, <2>4, <3>1, <3>2 DEF ReviewHolds
  <2>6. \A q \in Request : /\ writes'[q] # {} => pc'[q] = "saving"
                           /\ HarmlessSaves(writes[q])'
    BY <1>0, <1>1, <2>4 DEF ShapeInv, OnceInv, HarmlessSaves
  <2>7. ExecutedOnce' /\ (\A v, w \in DOMAIN investigations' : v = w)
          /\ (\A e \in executed' : Lasts(e.inv)')
    BY <1>2, <2>2, <2>3 DEF ExecutedOnce
  <2> QED  BY <2>5, <2>6, <2>7 DEF OnceInv
<1>4. ASSUME NEW i \in DOMAIN incidents, NEW s \in Status, ChangeStatus(r, i, s)
      PROVE  OnceInv'
  <2>1. PICK C : C = {Saves(i, incidents[i], WithStatus(incidents[i], s, r))}
    OBVIOUS
  <2>2. HarmlessSaves(C)
    BY <1>0, <2>1, StatusHarmless
  <2>3. UNCHANGED incidents /\ (Return(r, "done") \/ Send(r, C))
    BY <1>4, <2>1 DEF ChangeStatus
  <2>4. CASE Return(r, "done")
    BY <1>1, <1>2, <2>3, <2>4, GoesOnOnce DEF Ended
  <2>5. CASE Send(r, C)
    <3>1. Alone(r) /\ pc'[r] \in {"saving", "written"} /\ writes'[r] \subseteq C
      BY <1>0, <2>5, MovesAlone
    <3>2. writes'[r] # {} => pc'[r] = "saving"
      BY <1>0, <2>5 DEF Send, ShapeInv
    <3>3. HarmlessSaves(writes'[r])
      BY <2>2, <3>1 DEF HarmlessSaves
    <3> QED  BY <1>2, <2>3, <3>1, <3>2, <3>3, QuietOnce
  <2> QED  BY <2>3, <2>4, <2>5
<1>5. ASSUME NEW i \in DOMAIN incidents, NEW j \in DOMAIN incidents,
             NEW e \in {"relate", "unrelate"}, ReadFirst(r, e, i, j)
      PROVE  OnceInv'
  <2>1. PICK h : h = [step |-> e, source |-> i, loaded |-> incidents[i], target |-> j]
    OBVIOUS
  <2>2. ReviewHolds(h)
    BY <2>1 DEF ReviewHolds
  <2>3. Await(r, h) /\ UNCHANGED incidents
    BY <1>5, <2>1 DEF ReadFirst
  <2> QED  BY <1>1, <1>2, <2>2, <2>3, GoesOnOnce
<1>6. \A i \in DOMAIN incidents :
        /\ \A sev \in Severity : ~ChangeSeverity(r, i, sev)
        /\ \A a \in User \cup {None} : ~Assign(r, i, a)
        /\ \A b \in Body : ~Update(r, i, b)
  BY DEF NothingUndone, ChangeSeverity, Assign, Update, Starts
<1> QED  BY <1>3, <1>4, <1>5, <1>6 DEF Begin

\* A review starts with the incident as stored.
LEMMA ReviewOnce ==
  ASSUME NothingUndone, InvestigationInv, OnceInv, NEW r \in Request, BeginReview(r)
  PROVE  OnceInv'
<1>1. ASSUME NEW endpoint \in {"approve", "reject"}, NEW i, NEW v,
             Review(r, endpoint, i, v, FALSE)
      PROVE  OnceInv'
  <2>1. PICK h : h = [step |-> endpoint, incident |-> i, loaded |-> incidents[i],
                      inv |-> v, force |-> FALSE]
    OBVIOUS
  <2>2. pc[r] = "idle" /\ Await(r, h) /\ UNCHANGED <<incidents, aiVars>>
    BY <1>1, <2>1 DEF Review, Starts
  <2>3. ReviewHolds(h)
    BY <2>1 DEF ReviewHolds
  <2> QED  BY <2>2, <2>3, GoesOnOnce DEF aiVars
<1>2. ASSUME NEW i, NEW v, NEW force \in ForceSent, Review(r, "approve", i, v, force)
      PROVE  OnceInv'
  <2>1. force = FALSE
    BY DEF NothingUndone
  <2> QED  BY <1>1, <1>2, <2>1
<1> QED  BY <1>1, <1>2 DEF BeginReview

\* An action that already shows is not effective, so what goes on to the incident
\* has not been executed.
LEMMA ApproveOnce ==
  ASSUME NothingUndone, InvestigationInv, OnceInv, NEW r \in Request, Approve(r)
  PROVE  OnceInv'
<1>1. PICK h : h = held[r]
  OBVIOUS
<1>2. /\ pc[r] = "working" /\ h.step = "approve"
      /\ UNCHANGED <<incidents, investigations, tasks, executed>>
  BY <1>1 DEF Approve, At, aiVars
<1>3. HeldInv(h) /\ ReviewHolds(h)
  BY <1>1, <1>2 DEF InvestigationInv, HandlerInv, OnceInv
<1>4. /\ h.incident \in DOMAIN incidents /\ h.loaded = incidents[h.incident]
      /\ h.force = FALSE
  BY <1>2, <1>3 DEF HeldInv, ReviewHolds
<1>5. ASSUME Return(r, "refused") PROVE OnceInv'
  BY <1>2, <1>5, GoesOnOnce DEF Ended
<1>6. ASSUME NEW v \in Found(h), NEW step, NEW action, Reviewable(v),
             action = investigations[v].action, Effective(h.loaded, action, r),
             step = IF action.type = "CREATE_TASK" THEN "task" ELSE "execute",
             Await(r, [step |-> step, incident |-> h.incident, loaded |-> h.loaded,
                       inv |-> v, action |-> action, force |-> h.force])
      PROVE  OnceInv'
  <2>1. PICK g : g = [step |-> step, incident |-> h.incident, loaded |-> h.loaded,
                      inv |-> v, action |-> action, force |-> h.force]
    OBVIOUS
  <2>2. v \in DOMAIN investigations
    BY <1>2, <1>3, FoundStored DEF HeldInv
  <2>3. IsAction(action)
    BY <1>6, <2>2 DEF InvestigationInv, DocInv, Sound, Reviewable, IsPending
  <2>4. action.type \in {"CHANGE_SEVERITY", "ASSIGN_INCIDENT", "CREATE_TASK"}
    BY <2>3, ProposalAssumption DEF IsAction, NothingUndone
  <2>5. ASSUME step = "execute", NEW e \in executed, e.inv = v PROVE FALSE
    <3>1. Shows(h.incident, action)
      BY <1>4, <1>6, <2>5 DEF OnceInv, Lasts
    <3>2. action.type \in {"CHANGE_SEVERITY", "ASSIGN_INCIDENT"}
      BY <1>6, <2>4, <2>5
    <3> QED  BY <1>4, <1>6, <3>1, <3>2 DEF Shows, Effective
  <2>6. step = "task" => action.type = "CREATE_TASK"
    BY <1>6
  <2>7. step \in {"task", "execute"}
    BY <1>6
  <2>8. ReviewHolds(g)
    BY <1>4, <1>6, <2>1, <2>5, <2>6, <2>7 DEF ReviewHolds
  <2> QED  BY <1>2, <1>6, <2>1, <2>8, GoesOnOnce
<1>7. ASSUME NEW v \in Found(h), Reviewable(v), ~Return(r, "refused"),
             LET action == investigations[v].action IN
             IF \/ StaleIncident(h.loaded, action, h.force)
                \/ ~Effective(h.loaded, action, r)
               THEN Return(r, "refused")
               ELSE Await(r, [step |-> IF action.type = "CREATE_TASK"
                                         THEN "task" ELSE "execute",
                              incident |-> h.incident, loaded |-> h.loaded,
                              inv |-> v, action |-> action, force |-> h.force])
      PROVE  OnceInv'
  <2>1. PICK action : action = investigations[v].action
    OBVIOUS
  <2>2. PICK step : step = IF action.type = "CREATE_TASK" THEN "task" ELSE "execute"
    OBVIOUS
  <2>3. /\ Effective(h.loaded, action, r)
        /\ Await(r, [step |-> step, incident |-> h.incident, loaded |-> h.loaded,
                     inv |-> v, action |-> action, force |-> h.force])
    BY <1>7, <2>1, <2>2
  <2> QED  BY <1>6, <1>7, <2>1, <2>2, <2>3
<1> QED  BY <1>1, <1>5, <1>7 DEF Approve

\* Rejecting changes nothing that an action changes.
LEMMA RejectOnce ==
  ASSUME InvestigationInv, OnceInv, NEW r \in Request, Reject(r)
  PROVE  OnceInv'
<1>1. /\ pc[r] = "working" /\ UNCHANGED <<incidents, investigations, tasks, executed>>
      /\ "refused" \in Ended
  BY DEF Reject, At, aiVars, Ended
<1>2. ASSUME NEW v, Await(r, [step |-> "dismiss", inv |-> v]) PROVE OnceInv'
  <2>1. PICK g : g = [step |-> "dismiss", inv |-> v]
    OBVIOUS
  <2>2. ReviewHolds(g)
    BY <2>1 DEF ReviewHolds
  <2> QED  BY <1>1, <1>2, <2>1, <2>2, GoesOnOnce
<1> QED  BY <1>1, <1>2, GoesOnOnce DEF Reject

\* A task that exists is not created again, so the action has not been executed.
LEMMA LookOnce ==
  ASSUME InvestigationInv, ReviewInv, OnceInv, NEW r \in Request, LookForTask(r)
  PROVE  OnceInv'
<1>1. PICK h : h = held[r]
  OBVIOUS
<1>2. /\ pc[r] = "working" /\ h.step = "task"
      /\ UNCHANGED <<incidents, investigations, tasks, executed>>
  BY <1>1 DEF LookForTask, At, aiVars
<1>3. HeldInv(h) /\ ReviewHolds(h)
  BY <1>1, <1>2 DEF InvestigationInv, HandlerInv, OnceInv
<1>4. /\ h.incident \in DOMAIN incidents /\ h.force = FALSE
      /\ h.action = investigations[h.inv].action /\ h.action.type = "CREATE_TASK"
  BY <1>2, <1>3 DEF HeldInv, ReviewHolds
<1>5. PICK g : g = [h EXCEPT !["step"] = "create"]
  OBVIOUS
<1>6. /\ g.step = "create" /\ g.inv = h.inv /\ g.action = h.action
  BY <1>2, <1>3, <1>5 DEF HeldInv
<1>7. CASE \E t \in tasks : t.incident = h.incident /\ t.title = h.action.value
  BY <1>1, <1>2, <1>4, <1>7, GoesOnOnce DEF LookForTask, Ended
<1>8. CASE ~\E t \in tasks : t.incident = h.incident /\ t.title = h.action.value
  <2>1. ASSUME NEW e \in executed, e.inv = h.inv PROVE FALSE
    BY <1>4, <1>8, <2>1 DEF OnceInv, Lasts, Shows
  <2>2. ReviewHolds(g)
    BY <1>4, <1>6, <2>1 DEF ReviewHolds
  <2>3. Await(r, g)
    BY <1>1, <1>5, <1>8 DEF LookForTask
  <2> QED  BY <1>2, <2>2, <2>3, GoesOnOnce
<1> QED  BY <1>7, <1>8

\* The first execution of an action, which shows from now on.
LEMMA FirstExecution ==
  ASSUME NothingUndone, InvestigationInv, ReviewInv, OnceInv, NEW r \in Request,
         pc[r] = "working", NEW h, h = held[r], h.step \in {"execute", "create"},
         Await(r, [step |-> "settle", inv |-> h.inv]), NoteExecution(r),
         UNCHANGED investigations, DOMAIN incidents' = DOMAIN incidents,
         Shows(h.incident, h.action)'
  PROVE  OnceInv'
<1>0. ShapeInv
  BY DEF InvestigationInv
<1>1. HeldInv(h) /\ ReviewHolds(h) /\ ReviewHeld(h)
  BY DEF InvestigationInv, HandlerInv, OnceInv, ReviewInv
<1>2. /\ h.inv \in DOMAIN investigations /\ h.incident \in DOMAIN incidents
      /\ h.action = investigations[h.inv].action
      /\ \A e \in executed : e.inv # h.inv
      /\ IsPending(h.inv)
  BY <1>1 DEF HeldInv, ReviewHolds, ReviewHeld
<1>3. executed = {}
  BY <1>2 DEF OnceInv, Lasts
<1>4. executed' = {[by |-> r, inv |-> h.inv, incident |-> h.incident,
                    type |-> h.action.type, value |-> h.action.value]}
  BY <1>3 DEF NoteExecution
<1>5. ExecutedOnce'
  BY <1>4 DEF ExecutedOnce
<1>6. \A i \in DOMAIN incidents' : Shows(i, h.action)'
  <2>1. \A i \in DOMAIN incidents' : i = h.incident
    BY <1>0, <1>2 DEF ShapeInv, NothingUndone
  <2> QED  BY <2>1
<1>7. Lasts(h.inv)'
  <2>1. PICK a : a = h.action
    OBVIOUS
  <2>2. \A i \in DOMAIN incidents' : Shows(i, a)'
    BY <1>6, <2>1
  <2>3. investigations'[h.inv].action = a /\ a # None
    BY <1>2, <2>1 DEF IsPending
  <2>4. h.inv \in DOMAIN investigations'
    BY <1>2
  <2> QED  BY <2>2, <2>3, <2>4 DEF Lasts
<1>8. \A e \in executed' : Lasts(e.inv)'
  <2>1. PICK v : v = h.inv
    OBVIOUS
  <2>2. \A e \in executed' : e.inv = v
    BY <1>4, <2>1
  <2>3. Lasts(v)'
    BY <1>7, <2>1
  <2> QED  BY <2>2, <2>3
<1>9. Alone(r) /\ held'[r] = [step |-> "settle", inv |-> h.inv] /\ writes'[r] = writes[r]
        /\ pc'[r] = "working"
  BY <1>0, MovesAlone
<1>10. ASSUME NEW q \in Request, pc'[q] = "working" PROVE ReviewHolds(held[q])'
  <2>1. q = r
    BY <1>9, <1>10 DEF Alone, ReviewInv, OneInFlight, InFlight
  <2>2. held'[q].step = "settle"
    BY <1>9, <2>1
  <2> QED  BY <2>2 DEF ReviewHolds
<1>11. \A q \in Request : /\ writes'[q] # {} => pc'[q] = "saving"
                          /\ HarmlessSaves(writes[q])'
  BY <1>9 DEF Alone, OnceInv, HarmlessSaves
<1> QED  BY <1>5, <1>8, <1>10, <1>11 DEF OnceInv

\* A proposed severity or assignee is there to see once it is saved.
LEMMA ExecuteOnce ==
  ASSUME NothingUndone, InvestigationInv, ReviewInv, OnceInv, NEW r \in Request, Execute(r)
  PROVE  OnceInv'
<1>1. PICK h : h = held[r]
  OBVIOUS
<1>2. pc[r] = "working" /\ h.step = "execute"
  BY <1>1 DEF Execute, At
<1>3. HeldInv(h) /\ ReviewHolds(h)
  BY <1>1, <1>2 DEF InvestigationInv, HandlerInv, OnceInv
<1>4. PICK i, a, d : i = h.incident /\ a = h.action /\ d = incidents[i]
  OBVIOUS
<1>5. /\ i \in DOMAIN incidents /\ IsDoc(d) /\ h.loaded = d
      /\ IsAction(a) /\ a.type # "CREATE_TASK"
  BY <1>2, <1>3, <1>4 DEF HeldInv, ReviewHolds
<1>6. PICK p \in Proposal \ {None} : a.type = p.type /\ a.value = p.value
  BY <1>5 DEF IsAction
<1>7. \/ a.type = "CHANGE_SEVERITY" /\ a.value \in Severity
      \/ a.type = "ASSIGN_INCIDENT" /\ a.value \in User
  BY <1>5, <1>6, ProposalAssumption DEF NothingUndone
<1>8. PICK w : w = Mutated(d, a, r)
  OBVIOUS
<1>9. PICK e : e = Applied(d, Saves(i, d, w))
  OBVIOUS
<1>10. /\ incidents' = [incidents EXCEPT ![i] = e]
       /\ Await(r, [step |-> "settle", inv |-> h.inv]) /\ NoteExecution(r)
       /\ UNCHANGED investigations
  BY <1>1, <1>4, <1>5, <1>8, <1>9 DEF Execute
<1>11. CASE a.type = "CHANGE_SEVERITY" /\ a.value \in Severity
  <2>1. w = [d EXCEPT !["severity"] = a.value]
    BY <1>8, <1>11 DEF Mutated
  <2>2. "severity" \in Field /\ a.value \in FieldType["severity"]
    BY <1>11, FieldFacts
  <2>3. IsDoc(w)
    BY <1>5, <2>1, <2>2, ExceptType
  <2>4. w["severity"] = a.value
    BY <1>5, <2>1, <2>2 DEF IsDoc
  <2>5. \A f \in Field : e[f] = w[f]
    BY <1>5, <1>9, <2>3, SavesApplied
  <2>6. e.severity = a.value
    BY <2>2, <2>4, <2>5
  <2>7. incidents'[i].severity = a.value
    BY <1>5, <1>10, <2>6
  <2>8. Shows(i, a)'
    BY <1>11, <2>7 DEF Shows
  <2> QED  BY <1>1, <1>2, <1>4, <1>10, <2>8, FirstExecution
<1>12. CASE a.type = "ASSIGN_INCIDENT" /\ a.value \in User
  <2>1. w = [d EXCEPT !["assignee"] = a.value]
    BY <1>8, <1>12 DEF Mutated
  <2>2. "assignee" \in Field /\ a.value \in FieldType["assignee"]
    BY <1>12, FieldFacts
  <2>3. IsDoc(w)
    BY <1>5, <2>1, <2>2, ExceptType
  <2>4. w["assignee"] = a.value
    BY <1>5, <2>1, <2>2 DEF IsDoc
  <2>5. \A f \in Field : e[f] = w[f]
    BY <1>5, <1>9, <2>3, SavesApplied
  <2>6. e.assignee = a.value
    BY <2>2, <2>4, <2>5
  <2>7. incidents'[i].assignee = a.value
    BY <1>5, <1>10, <2>6
  <2>8. Shows(i, a)'
    BY <1>12, <2>7 DEF Shows
  <2> QED  BY <1>1, <1>2, <1>4, <1>10, <2>8, FirstExecution
<1> QED  BY <1>7, <1>11, <1>12

\* A task is there to see once it is created.
LEMMA CreateOnce ==
  ASSUME NothingUndone, InvestigationInv, ReviewInv, OnceInv, NEW r \in Request,
         CreateTask(r)
  PROVE  OnceInv'
<1>1. PICK h : h = held[r]
  OBVIOUS
<1>2. pc[r] = "working" /\ h.step = "create"
  BY <1>1 DEF CreateTask, At
<1>3. h.action.type = "CREATE_TASK"
  BY <1>1, <1>2 DEF OnceInv, ReviewHolds
<1>4. PICK i, a, t : /\ i = h.incident /\ a = h.action
                     /\ t = [incident |-> h.incident, title |-> h.action.value, by |-> r]
  OBVIOUS
<1>5. /\ tasks' = tasks \cup {t} /\ NoteExecution(r)
      /\ Await(r, [step |-> "settle", inv |-> h.inv])
      /\ UNCHANGED <<investigations, incidents>>
  BY <1>1, <1>4 DEF CreateTask
<1>6. t \in tasks' /\ t.incident = i /\ t.title = a.value
  BY <1>4, <1>5
<1>7. Shows(i, a)'
  BY <1>3, <1>4, <1>6 DEF Shows
<1> QED  BY <1>1, <1>2, <1>4, <1>5, <1>7, FirstExecution

\* Deciding keeps the type and the value of the action.
LEMMA DecideOnce ==
  ASSUME InvestigationInv, ReviewInv, OnceInv, NEW r \in Request, NEW status \in Decided,
         pc[r] = "working", held[r].step \in {"settle", "dismiss"}, Decide(r, status)
  PROVE  OnceInv'
<1>0. ShapeInv
  BY DEF InvestigationInv
<1>1. PICK v : v = held[r].inv
  OBVIOUS
<1>2. HeldInv(held[r]) /\ ReviewHeld(held[r])
  BY DEF InvestigationInv, HandlerInv, ReviewInv
<1>3. v \in DOMAIN investigations /\ IsPending(v)
  BY <1>1, <1>2 DEF HeldInv, ReviewHeld
<1>4. PICK d : d = investigations[v]
  OBVIOUS
<1>5. d.action # None /\ Sound(v, d)
  BY <1>3, <1>4 DEF IsPending, InvestigationInv, DocInv
<1>6. PICK a : a = [d.action EXCEPT !["status"] = status]
  OBVIOUS
<1>7. PICK e : e = [d EXCEPT !["action"] = a]
  OBVIOUS
<1>8. /\ investigations' = [investigations EXCEPT ![v] = e] /\ Send(r, {})
      /\ UNCHANGED <<incidents, tasks, executed>>
  BY <1>1, <1>4, <1>5, <1>6, <1>7 DEF Decide
<1>9. a.type = d.action.type /\ a.value = d.action.value
  BY <1>5, <1>6 DEF Sound, ActionField
<1>10. e.action = a
  BY <1>5, <1>7 DEF Sound, InvestigationField
<1>11. a # None
  <2>1. PICK p \in Proposal \ {None} : d.action.type = p.type /\ d.action.value = p.value
    BY <1>5 DEF Sound, IsAction
  <2>2. a = [type |-> p.type, value |-> p.value, status |-> status]
    BY <1>5, <1>6, <2>1 DEF Sound, ActionField
  <2> QED  BY <2>2, ActionAssumption DEF Decided
<1>12. \A i, x : Shows(i, x) => Shows(i, x)'
  BY <1>8 DEF Shows
<1>13. ASSUME NEW x \in executed' PROVE Lasts(x.inv)'
  <2>1. PICK w : w = x.inv
    OBVIOUS
  <2>2. Lasts(w) /\ w = v
    BY <1>3, <1>8, <2>1 DEF OnceInv, Lasts
  <2>3. \A i \in DOMAIN incidents : Shows(i, d.action)
    BY <1>4, <2>2 DEF Lasts
  <2>4. \A i \in DOMAIN incidents' : Shows(i, a)'
    BY <1>8, <1>9, <2>3 DEF Shows
  <2>5. investigations'[w].action = a /\ w \in DOMAIN investigations'
    BY <1>3, <1>8, <1>10, <2>2
  <2>6. Lasts(w)'
    BY <1>11, <2>4, <2>5 DEF Lasts
  <2> QED  BY <2>1, <2>6
<1>14. Alone(r) /\ pc'[r] \in {"saving", "written"} /\ writes'[r] = {}
  BY <1>0, <1>8, MovesAlone
<1>15. \A q \in Request : pc'[q] # "working"
  BY <1>14 DEF ReviewInv, OneInFlight, Alone, InFlight
<1>16. \A q \in Request : /\ writes'[q] # {} => pc'[q] = "saving"
                          /\ HarmlessSaves(writes[q])'
  BY <1>14 DEF Alone, OnceInv, HarmlessSaves
<1>17. ExecutedOnce' /\ \A w, x \in DOMAIN investigations' : w = x
  BY <1>8 DEF OnceInv, ExecutedOnce
<1> QED  BY <1>13, <1>15, <1>16, <1>17 DEF OnceInv

\* A job keeps the actions there are.
LEMMA JobOnce ==
  ASSUME InvestigationInv, ReviewInv, OnceInv, NEW j \in Job, JobStep(j)
  PROVE  OnceInv'
<1>1. UNCHANGED <<vars, tasks, executed>>
  BY DEF JobStep, TakeJob, FailToLoad, MarkRunning, AskProvider, Finish, AuditOutcome,
         Abort
<1>2. ActionsStay
  BY JobStepReviewed
<1>3. ASSUME NEW e \in executed' PROVE Lasts(e.inv)'
  <2>1. PICK v : v = e.inv
    OBVIOUS
  <2>2. Lasts(v)
    BY <1>1, <2>1 DEF OnceInv
  <2>3. PICK a : a = investigations[v].action
    OBVIOUS
  <2>4. \A i \in DOMAIN incidents' : Shows(i, a)'
    BY <1>1, <2>2, <2>3 DEF Lasts, Shows, vars
  <2>5. investigations'[v].action = a /\ a # None /\ v \in DOMAIN investigations'
    BY <1>2, <2>2, <2>3 DEF Lasts, ActionsStay
  <2>6. Lasts(v)'
    BY <2>4, <2>5 DEF Lasts
  <2> QED  BY <2>1, <2>6
<1>4. ASSUME NEW q \in Request, pc'[q] = "working" PROVE ReviewHolds(held[q])'
  <2>1. PICK h : h = held[q]
    OBVIOUS
  <2>2. ReviewHolds(h) /\ ReviewHeld(h) /\ HeldInv(h)
    BY <1>1, <1>4, <2>1 DEF OnceInv, ReviewInv, InvestigationInv, HandlerInv, vars
  <2>3. h.step \in {"execute", "task", "create"} =>
          investigations'[h.inv].action = investigations[h.inv].action
    BY <1>2, <2>2 DEF ReviewHeld, HeldInv, IsPending, ActionsStay
  <2>4. ReviewHolds(h)'
    BY <1>1, <2>2, <2>3 DEF ReviewHolds, vars
  <2> QED  BY <1>1, <2>1, <2>4 DEF vars
<1>5. \A q \in Request : /\ writes'[q] # {} => pc'[q] = "saving"
                         /\ HarmlessSaves(writes[q])'
  BY <1>1 DEF OnceInv, HarmlessSaves, vars
<1>6. ExecutedOnce' /\ \A w, x \in DOMAIN investigations' : w = x
  BY <1>1, <1>2 DEF OnceInv, ExecutedOnce, ActionsStay
<1> QED  BY <1>3, <1>4, <1>5, <1>6 DEF OnceInv

\* A save that is on its way hides no action.
LEMMA SaveOnce ==
  ASSUME InvestigationInv, ReviewInv, OnceInv, NEW r \in Request,
         NEW c \in writes[r], SaveIncident(r, c)
  PROVE  OnceInv'
<1>0. ShapeInv
  BY DEF InvestigationInv
<1>1. /\ incidents' = [incidents EXCEPT ![c.doc] = Applied(@, c)]
      /\ writes' = [writes EXCEPT ![r] = @ \ {c}]
      /\ pc' = IF pc[r] = "saving" /\ writes[r] = {c}
                 THEN [pc EXCEPT ![r] = "written"] ELSE pc
      /\ UNCHANGED <<investigations, tasks, executed>>
  BY DEF SaveIncident, ExecuteSave
<1>2. pc[r] = "saving" /\ HarmlessSaves(writes[r]) /\ IsCommand(c)
  BY DEF OnceInv, InvestigationInv, HandlerInv
<1>3. "severity" \notin DOMAIN c.set /\ "assignee" \notin DOMAIN c.set
  BY <1>2 DEF HarmlessSaves
<1>4. ASSUME NEW i \in DOMAIN incidents
      PROVE  /\ incidents'[i].severity = incidents[i].severity
             /\ incidents'[i].assignee = incidents[i].assignee
  <2>1. IsDoc(incidents[i])
    BY <1>0 DEF ShapeInv
  <2>2. "severity" \in DOMAIN incidents[i] /\ "assignee" \in DOMAIN incidents[i]
    BY <2>1, FieldFacts DEF IsDoc
  <2>3. /\ Applied(incidents[i], c).severity = incidents[i].severity
        /\ Applied(incidents[i], c).assignee = incidents[i].assignee
    BY <1>3, <2>2 DEF Applied
  <2> QED  BY <1>1, <2>3
<1>5. DOMAIN incidents' = DOMAIN incidents
  BY <1>1
<1>6. ASSUME NEW e \in executed' PROVE Lasts(e.inv)'
  <2>1. PICK v : v = e.inv
    OBVIOUS
  <2>2. Lasts(v)
    BY <1>1, <2>1 DEF OnceInv
  <2>3. PICK a : a = investigations[v].action
    OBVIOUS
  <2>4. \A i \in DOMAIN incidents' : Shows(i, a)'
    BY <1>1, <1>4, <1>5, <2>2, <2>3 DEF Lasts, Shows
  <2>5. investigations'[v].action = a /\ a # None /\ v \in DOMAIN investigations'
    BY <1>1, <2>2, <2>3 DEF Lasts
  <2>6. Lasts(v)'
    BY <2>4, <2>5 DEF Lasts
  <2> QED  BY <2>1, <2>6
<1>7. \A q \in Request : pc'[q] # "working"
  BY <1>0, <1>1, <1>2 DEF ReviewInv, OneInFlight, InFlight, ShapeInv
<1>8. \A q \in Request : /\ writes'[q] # {} => pc'[q] = "saving"
                         /\ HarmlessSaves(writes[q])'
  <2>1. \A q \in Request \ {r} : pc'[q] = pc[q] /\ writes'[q] = writes[q]
    BY <1>0, <1>1 DEF ShapeInv
  <2>2. writes'[r] = writes[r] \ {c} /\ (writes'[r] # {} => pc'[r] = "saving")
    BY <1>0, <1>1, <1>2 DEF ShapeInv
  <2> QED  BY <2>1, <2>2 DEF OnceInv, HarmlessSaves
<1>9. ExecutedOnce' /\ \A w, x \in DOMAIN investigations' : w = x
  BY <1>1 DEF OnceInv, ExecutedOnce
<1> QED  BY <1>6, <1>7, <1>8, <1>9 DEF OnceInv

\* A handler announces what it saved.
LEMMA AnnounceOnce ==
  ASSUME InvestigationInv, OnceInv, NEW r \in Request, Announce(r), UNCHANGED aiVars
  PROVE  OnceInv'
<1>1. /\ pc[r] = "written" /\ pc'[r] = "done" /\ Alone(r) /\ writes'[r] = writes[r]
      /\ UNCHANGED <<incidents, investigations, tasks, executed>>
  BY DEF Announce, InvestigationInv, ShapeInv, Alone, aiVars
<1>2. writes'[r] = {} /\ HarmlessSaves(writes'[r])
  BY <1>1 DEF OnceInv, HarmlessSaves
<1> QED  BY <1>1, <1>2, QuietOnce

\* The process dies: what was done is still there.
LEMMA DeathOnce ==
  ASSUME OnceInv, CrashAll
  PROVE  OnceInv'
<1>1. UNCHANGED <<incidents, investigations, tasks, executed>>
  BY DEF CrashAll, Crash, vars
<1>2. \/ \A q \in Request : pc'[q] # "working" /\ writes'[q] = {}
      \/ UNCHANGED vars
  BY DEF CrashAll, Crash, InFlight
<1>3. \A e \in executed' : Lasts(e.inv)'
  BY <1>1 DEF OnceInv, Lasts, Shows
<1>4. \A q \in Request : pc'[q] = "working" => ReviewHolds(held[q])'
  BY <1>1, <1>2 DEF OnceInv, ReviewHolds, vars
<1>5. \A q \in Request : /\ writes'[q] # {} => pc'[q] = "saving"
                         /\ HarmlessSaves(writes[q])'
  BY <1>2 DEF OnceInv, HarmlessSaves, vars
<1>6. ExecutedOnce' /\ \A w, x \in DOMAIN investigations' : w = x
  BY <1>1 DEF OnceInv, ExecutedOnce
<1> QED  BY <1>3, <1>4, <1>5, <1>6 DEF OnceInv

\* Every step keeps what was done in sight.
LEMMA OnceNext ==
  ASSUME OneByOne, NothingUndone, InvestigationInv, ReviewInv, OnceInv, [NextAI]_allVars
  PROVE  OnceInv'
<1>1. CASE UNCHANGED allVars
  BY <1>1 DEF allVars, vars, aiVars, OnceInv, ExecutedOnce, Lasts, Shows, ReviewHolds,
              HarmlessSaves
<1>2. CASE CrashAll
  BY <1>2, DeathOnce
<1>3. ASSUME NEW r \in Request, BeginAny(r) PROVE OnceInv'
  <2>1. \A i \in DOMAIN incidents : ~Investigate(r, i)
    BY DEF OneByOne, Investigate, Starts
  <2>2. CASE BeginReview(r)
    BY <2>2, ReviewOnce
  <2>3. CASE Begin(r) /\ UNCHANGED aiVars
    BY <2>3, BeginOnce
  <2> QED  BY <1>3, <2>1, <2>2, <2>3 DEF BeginAny
<1>4. ASSUME NEW r \in Request, AIStep(r) PROVE OnceInv'
  <2>1. ~Lookup(r) /\ ~Enqueue(r) /\ \A v \in Investigation : ~RecordInvestigation(r, v)
    BY DEF Lookup, Enqueue, RecordInvestigation, At, ReviewInv, ReviewHeld
  <2>2. CASE MarkExecuted(r)
    BY <2>2, DecideOnce DEF MarkExecuted, At, Decided
  <2>3. CASE MarkRejected(r)
    BY <2>3, DecideOnce DEF MarkRejected, At, Decided
  <2>4. CASE Approve(r) \/ Reject(r)
    BY <2>4, ApproveOnce, RejectOnce
  <2>5. CASE Execute(r) \/ LookForTask(r) \/ CreateTask(r)
    BY <2>5, ExecuteOnce, LookOnce, CreateOnce
  <2>6. ASSUME NEW c \in writes[r], SaveIncident(r, c) PROVE OnceInv'
    BY <2>6, SaveOnce
  <2>7. CASE Announce(r) /\ UNCHANGED aiVars
    BY <2>7, AnnounceOnce
  <2> QED  BY <1>4, <2>1, <2>2, <2>3, <2>4, <2>5, <2>6, <2>7 DEF AIStep
<1>5. ASSUME NEW r \in Request, Fail(r) PROVE OnceInv'
  BY <1>5, GoesOnOnce DEF Fail, Ended, aiVars
<1>6. ASSUME NEW j \in Job, JobStep(j) PROVE OnceInv'
  BY <1>6, JobOnce
<1> QED  BY <1>1, <1>2, <1>3, <1>4, <1>5, <1>6 DEF NextAI

\* Nothing has been executed, and one incident has one investigation.
LEMMA OnceInit ==
  ASSUME NothingUndone, InitAI
  PROVE  OnceInv
<1>1. /\ executed = {} /\ \A r \in Request : pc[r] = "idle" /\ writes[r] = {}
  BY DEF InitAI, Init
<1>2. DOMAIN incidents \subseteq Incident
  BY DEF InitAI, Init
<1>3. ASSUME NEW v \in DOMAIN investigations, NEW w \in DOMAIN investigations
      PROVE  v = w
  <2>1. PICK D \in SUBSET Investigation, C \in SUBSET Investigation :
       \E job \in [D -> Job], of \in [D -> DOMAIN incidents], p \in [D -> Proposal] :
         Left(D, C, job, of, p)
    BY LeftByCalls
  <2>2. PICK of \in [D -> DOMAIN incidents] :
          DOMAIN investigations = D /\ \A x, y \in D : x # y => of[x] # of[y]
    BY <2>1 DEF Left
  <2> QED  BY <1>2, <2>2 DEF NothingUndone
<1>4. \A r \in Request : HarmlessSaves(writes[r])
  BY <1>1 DEF HarmlessSaves
<1> QED  BY <1>1, <1>3, <1>4 DEF OnceInv, ExecutedOnce

\* Reviews that fail or are cut off between the action and its record, and are
\* repeated, execute it once: of one incident, while no call takes it back.
THEOREM ActionsExecutedOnce ==
  ASSUME OneByOne, NothingUndone PROVE SpecAI => []ExecutedOnce
<1>1. InvestigationInv /\ ReviewInv /\ OnceInv /\ [NextAI]_allVars => OnceInv'
  BY OnceNext
<1>2. InitAI => OnceInv
  BY OnceInit
<1>3. OnceInv => ExecutedOnce
  BY DEF OnceInv
<1> QED  BY InvestigationsSound, ReviewsSound, <1>1, <1>2, <1>3, PTL DEF SpecAI
-----------------------------------------------------------------------------
(* The action a record calls EXECUTED, of an investigation whose job runs  *)
(* once: the job stores it once, and the reviews hold to it.               *)

\* The stored action of v is a, whatever its review status.
Named(v, a) ==
  /\ investigations[v].action # None
  /\ investigations[v].action.type = a.type
  /\ investigations[v].action.value = a.value

\* The stored action of v was executed.
Done(v) == \E e \in executed : e.inv = v /\ Named(v, e)

\* A review of v holds the stored action, and settles what was executed.
HoldsAction(h, v) ==
  h.inv = v =>
    /\ h.step \in {"execute", "task", "create"} => Named(v, h.action)
    /\ h.step = "settle" => Done(v)

IsExecuted(v) ==
  investigations[v].action # None /\ investigations[v].action.status = "EXECUTED"

ActionInv(v) ==
  /\ (\A j \in DOMAIN jobs : jobs[j].inv # v) => investigations[v].action = None
  /\ ~RunAgain(v) =>
       /\ \A j \in DOMAIN jobs : jobs[j].inv = v => JobFits(j)
       /\ \A r \in Request : pc[r] = "working" => HoldsAction(held[r], v)
       /\ IsExecuted(v) => Done(v)

ActionsInv == \A v \in DOMAIN investigations : ActionInv(v)

\* No job is lost, nor changes its investigation, nor forgets that it stalled.
JobsLast ==
  \A j \in DOMAIN jobs : /\ j \in DOMAIN jobs'
                         /\ jobs'[j].inv = jobs[j].inv
                         /\ jobs[j].stalls > 0 => jobs'[j].stalls > 0

\* What ran again has run again.
LEMMA RunAgainLasts ==
  ASSUME NEW v, JobsLast, RunAgain(v) PROVE RunAgain(v)'
BY DEF RunAgain, JobsLast

\* What was done to a stored action stays done as long as it is that action.
LEMMA DoneLasts ==
  ASSUME NEW v, executed \subseteq executed', \A a : Named(v, a) => Named(v, a)'
  PROVE  Done(v) => Done(v)'
<1> SUFFICES ASSUME Done(v) PROVE Done(v)'
  OBVIOUS
<1>1. PICK e \in executed : e.inv = v /\ Named(v, e)
  BY DEF Done
<1>2. Named(v, e)'
  BY <1>1
<1> QED  BY <1>1, <1>2 DEF Done

\* What a step owes to an investigation that was stored before it.
LEMMA ActionKept ==
  ASSUME NEW v \in DOMAIN investigations, ActionInv(v), JobsLast,
         executed \subseteq executed',
         \/ investigations'[v].action = None
         \/ investigations[v].action # None
         \/ \E j \in DOMAIN jobs : jobs[j].inv = v,
         ~RunAgain(v)' /\ ~RunAgain(v) =>
           /\ \A a : Named(v, a) => Named(v, a)'
           /\ \A j \in DOMAIN jobs' : jobs'[j].inv = v => JobFits(j)'
           /\ \A r \in Request : pc'[r] = "working" =>
                (pc[r] = "working" /\ held'[r] = held[r]) \/ HoldsAction(held[r], v)'
           /\ IsExecuted(v)' => IsExecuted(v) \/ Done(v)'
  PROVE  ActionInv(v)'
<1>1. (\A j \in DOMAIN jobs' : jobs'[j].inv # v) => investigations'[v].action = None
  BY DEF JobsLast, ActionInv
<1>2. ASSUME ~RunAgain(v)'
      PROVE  /\ \A j \in DOMAIN jobs' : jobs'[j].inv = v => JobFits(j)'
             /\ \A r \in Request : pc'[r] = "working" => HoldsAction(held[r], v)'
             /\ IsExecuted(v)' => Done(v)'
  <2>1. ~RunAgain(v)
    BY <1>2, RunAgainLasts
  <2>2. \A a : Named(v, a) => Named(v, a)'
    BY <1>2, <2>1
  <2>3. Done(v) => Done(v)'
    BY <2>2, DoneLasts
  <2>4. ASSUME NEW r \in Request, pc[r] = "working", held'[r] = held[r]
        PROVE  HoldsAction(held[r], v)'
    <3>1. PICK h : h = held[r]
      OBVIOUS
    <3>2. HoldsAction(h, v)
      BY <2>1, <2>4, <3>1 DEF ActionInv
    <3>3. Named(v, h.action) => Named(v, h.action)'
      BY <2>2
    <3>4. HoldsAction(h, v)'
      BY <2>3, <3>2, <3>3 DEF HoldsAction
    <3> QED  BY <2>4, <3>1, <3>4
  <2>5. IsExecuted(v)' => Done(v)'
    BY <1>2, <2>1, <2>3 DEF ActionInv
  <2> QED  BY <1>2, <2>1, <2>4, <2>5
<1> QED  BY <1>1, <1>2 DEF ActionInv

\* Handlers that change no investigation and no job.
LEMMA QuietAction ==
  ASSUME ActionsInv, NEW r \in Request, Alone(r), UNCHANGED <<investigations, jobs>>,
         executed \subseteq executed',
         pc'[r] = "working" =>
           \/ pc[r] = "working" /\ held'[r] = held[r]
           \/ \A v \in DOMAIN investigations :
                ~RunAgain(v) => HoldsAction(held[r], v)'
  PROVE  ActionsInv'
<1> SUFFICES ASSUME NEW v \in DOMAIN investigations PROVE ActionInv(v)'
  BY DEF ActionsInv
<1>1. ActionInv(v) /\ JobsLast
  BY DEF ActionsInv, JobsLast
<1>2. \A a : Named(v, a) => Named(v, a)'
  BY DEF Named
<1>3. RunAgain(v)' <=> RunAgain(v)
  BY DEF RunAgain
<1>4. ASSUME ~RunAgain(v)
      PROVE  /\ \A j \in DOMAIN jobs' : jobs'[j].inv = v => JobFits(j)'
             /\ \A q \in Request : pc'[q] = "working" =>
                  (pc[q] = "working" /\ held'[q] = held[q]) \/ HoldsAction(held[q], v)'
             /\ IsExecuted(v)' => IsExecuted(v)
  <2>1. \A j \in DOMAIN jobs' : jobs'[j].inv = v => JobFits(j)'
    BY <1>1, <1>4 DEF ActionInv, JobFits
  <2>2. \A q \in Request \ {r} : pc'[q] = pc[q] /\ held'[q] = held[q]
    BY DEF Alone
  <2> QED  BY <1>4, <2>1, <2>2 DEF IsExecuted
<1>5. \/ investigations'[v].action = None
      \/ investigations[v].action # None
      \/ \E j \in DOMAIN jobs : jobs[j].inv = v
  OBVIOUS
<1> QED  BY <1>1, <1>2, <1>3, <1>4, <1>5, ActionKept

\* A handler that returns, or awaits with nothing found.
LEMMA PlainAction ==
  ASSUME InvestigationInv, ActionsInv, NEW r \in Request,
         UNCHANGED <<investigations, jobs, executed>>,
         \/ \E answer \in Ended : Return(r, answer)
         \/ \E commands : Send(r, commands)
         \/ \E h : Await(r, h) /\ h.step \notin {"execute", "task", "create", "settle"}
  PROVE  ActionsInv'
<1>1. ShapeInv
  BY DEF InvestigationInv
<1>2. Alone(r) /\ (pc'[r] = "working" => \A v : HoldsAction(held[r], v)')
  <2>1. ASSUME NEW answer \in Ended, Return(r, answer)
        PROVE  Alone(r) /\ pc'[r] # "working"
    BY <1>1, <2>1, MovesAlone DEF Ended
  <2>2. ASSUME NEW commands, Send(r, commands) PROVE Alone(r) /\ pc'[r] # "working"
    BY <1>1, <2>2, MovesAlone
  <2>3. ASSUME NEW h, Await(r, h), h.step \notin {"execute", "task", "create", "settle"}
        PROVE  Alone(r) /\ \A v : HoldsAction(held[r], v)'
    <3>1. Alone(r) /\ held'[r] = h
      BY <1>1, <2>3, MovesAlone
    <3> QED  BY <2>3, <3>1 DEF HoldsAction
  <2> QED  BY <2>1, <2>2, <2>3
<1> QED  BY <1>2, QuietAction

\* An approval holds the action it found.
LEMMA ApproveAction ==
  ASSUME InvestigationInv, ActionsInv, NEW r \in Request, Approve(r)
  PROVE  ActionsInv'
<1>1. PICK h : h = held[r]
  OBVIOUS
<1>2. UNCHANGED <<investigations, jobs, executed>> /\ "refused" \in Ended /\ ShapeInv
  BY DEF Approve, aiVars, Ended, InvestigationInv
<1>3. ASSUME Return(r, "refused") PROVE ActionsInv'
  BY <1>2, <1>3, PlainAction
<1>4. ASSUME NEW v, NEW step, Reviewable(v),
             Await(r, [step |-> step, incident |-> h.incident, loaded |-> h.loaded,
                       inv |-> v, action |-> investigations[v].action, force |-> h.force]),
             step \in {"task", "execute"}
      PROVE  ActionsInv'
  <2>1. PICK g : g = [step |-> step, incident |-> h.incident, loaded |-> h.loaded,
                      inv |-> v, action |-> investigations[v].action, force |-> h.force]
    OBVIOUS
  <2>2. Alone(r) /\ held'[r] = g
    BY <1>2, <1>4, <2>1, MovesAlone
  <2>3. Named(v, g.action)'
    BY <1>2, <1>4, <2>1 DEF Named, Reviewable, IsPending
  <2>4. \A w : HoldsAction(held[r], w)'
    BY <1>4, <2>1, <2>2, <2>3 DEF HoldsAction
  <2> QED  BY <1>2, <2>2, <2>4, QuietAction
<1>5. ASSUME NEW v, Reviewable(v), ~Return(r, "refused"),
             LET action == investigations[v].action IN
             IF \/ StaleIncident(h.loaded, action, h.force)
                \/ ~Effective(h.loaded, action, r)
               THEN Return(r, "refused")
               ELSE Await(r, [step |-> IF action.type = "CREATE_TASK"
                                         THEN "task" ELSE "execute",
                              incident |-> h.incident, loaded |-> h.loaded,
                              inv |-> v, action |-> action, force |-> h.force])
      PROVE  ActionsInv'
  <2>1. PICK step : step = IF investigations[v].action.type = "CREATE_TASK"
                             THEN "task" ELSE "execute"
    OBVIOUS
  <2>2. Await(r, [step |-> step, incident |-> h.incident, loaded |-> h.loaded,
                  inv |-> v, action |-> investigations[v].action, force |-> h.force])
    BY <1>5, <2>1
  <2>3. step \in {"task", "execute"}
    BY <2>1
  <2> QED  BY <1>4, <1>5, <2>2, <2>3
<1> QED  BY <1>1, <1>3, <1>5 DEF Approve

\* The action that is done is the one that was found.
LEMMA ExecuteAction ==
  ASSUME InvestigationInv, ActionsInv, NEW r \in Request, Execute(r) \/ CreateTask(r)
  PROVE  ActionsInv'
<1>1. PICK h : h = held[r]
  OBVIOUS
<1>2. PICK x : x = [by |-> r, inv |-> h.inv, incident |-> h.incident,
                    type |-> h.action.type, value |-> h.action.value]
  OBVIOUS
<1>3. /\ pc[r] = "working" /\ h.step \in {"execute", "create"}
      /\ Await(r, [step |-> "settle", inv |-> h.inv])
      /\ executed' = executed \cup {x} /\ UNCHANGED <<investigations, jobs>>
  BY <1>1, <1>2 DEF Execute, CreateTask, NoteExecution, At
<1>4. PICK g : g = [step |-> "settle", inv |-> h.inv]
  OBVIOUS
<1>5. Alone(r) /\ held'[r] = g
  BY <1>3, <1>4, MovesAlone DEF InvestigationInv
<1>6. ASSUME NEW v \in DOMAIN investigations, ~RunAgain(v)
      PROVE  HoldsAction(held[r], v)'
  <2>1. ASSUME h.inv = v PROVE Done(v)'
    <3>1. Named(v, h.action)
      BY <1>1, <1>3, <1>6, <2>1 DEF ActionsInv, ActionInv, HoldsAction
    <3>2. Named(v, x)'
      BY <1>2, <1>3, <3>1 DEF Named
    <3> QED  BY <1>2, <1>3, <2>1, <3>2 DEF Done
  <2> QED  BY <1>4, <1>5, <2>1 DEF HoldsAction
<1> QED  BY <1>3, <1>5, <1>6, QuietAction

\* The task that is created is the one that was looked for.
LEMMA LookAction ==
  ASSUME InvestigationInv, ActionsInv, NEW r \in Request, LookForTask(r)
  PROVE  ActionsInv'
<1>1. PICK h : h = held[r]
  OBVIOUS
<1>2. /\ pc[r] = "working" /\ h.step = "task" /\ HeldInv(h) /\ "refused" \in Ended
      /\ UNCHANGED <<investigations, jobs, executed>>
  BY <1>1 DEF LookForTask, At, aiVars, InvestigationInv, HandlerInv, Ended
<1>3. CASE Return(r, "refused")
  BY <1>2, <1>3, PlainAction
<1>4. CASE Await(r, [h EXCEPT !.step = "create"])
  <2>1. PICK g : g = [h EXCEPT !["step"] = "create"]
    OBVIOUS
  <2>2. g.step = "create" /\ g.inv = h.inv /\ g.action = h.action
    BY <1>2, <2>1 DEF HeldInv
  <2>3. Alone(r) /\ held'[r] = g
    <3>1. Await(r, g)
      BY <1>4, <2>1
    <3> QED  BY <3>1, MovesAlone DEF InvestigationInv
  <2>4. ASSUME NEW v \in DOMAIN investigations, ~RunAgain(v)
        PROVE  HoldsAction(held[r], v)'
    <3>1. h.inv = v => Named(v, h.action)
      BY <1>1, <1>2, <2>4 DEF ActionsInv, ActionInv, HoldsAction
    <3>2. h.inv = v => Named(v, h.action)'
      BY <1>2, <3>1 DEF Named
    <3> QED  BY <2>2, <2>3, <3>2 DEF HoldsAction
  <2> QED  BY <1>2, <2>3, <2>4, QuietAction
<1> QED  BY <1>1, <1>3, <1>4 DEF LookForTask

\* A decision changes the review status only, and EXECUTED follows an execution.
LEMMA DecideAction ==
  ASSUME InvestigationInv, ActionsInv, NEW r \in Request, NEW status \in Decided,
         pc[r] = "working", held[r].step \in {"settle", "dismiss"},
         status = "EXECUTED" => held[r].step = "settle", Decide(r, status)
  PROVE  ActionsInv'
<1>0. ShapeInv
  BY DEF InvestigationInv
<1>1. PICK v : v = held[r].inv
  OBVIOUS
<1>2. v \in DOMAIN investigations /\ UNCHANGED <<jobs, executed>>
  BY <1>1 DEF InvestigationInv, HandlerInv, HeldInv, Decide
<1>3. PICK d : d = investigations[v]
  OBVIOUS
<1>4. CASE d.action = None
  <2>1. Return(r, "failed") /\ UNCHANGED investigations /\ "failed" \in Ended
    BY <1>1, <1>3, <1>4 DEF Decide, Ended
  <2> QED  BY <1>2, <2>1, PlainAction
<1>5. CASE d.action # None
  <2>1. Sound(v, d)
    BY <1>2, <1>3 DEF InvestigationInv, DocInv
  <2>2. PICK a : a = [d.action EXCEPT !["status"] = status]
    OBVIOUS
  <2>3. PICK e : e = [d EXCEPT !["action"] = a]
    OBVIOUS
  <2>4. investigations' = [investigations EXCEPT ![v] = e] /\ Send(r, {})
    BY <1>1, <1>3, <1>5, <2>2, <2>3 DEF Decide
  <2>5. /\ e.action = a /\ a.status = status
        /\ a.type = d.action.type /\ a.value = d.action.value
    BY <1>5, <2>1, <2>2, <2>3 DEF Sound, ActionField, InvestigationField
  <2>6. /\ DOMAIN investigations' = DOMAIN investigations
        /\ investigations'[v] = e
        /\ \A w \in DOMAIN investigations \ {v} : investigations'[w] = investigations[w]
    BY <1>2, <2>4
  <2>7. a # None
    <3>1. PICK p \in Proposal \ {None} : d.action.type = p.type /\ d.action.value = p.value
      BY <1>5, <2>1 DEF Sound, IsAction
    <3>2. a = [type |-> p.type, value |-> p.value, status |-> status]
      BY <1>5, <2>1, <2>2, <3>1 DEF Sound, ActionField
    <3> QED  BY <3>2, ActionAssumption DEF Decided
  <2>8. Alone(r) /\ pc'[r] # "working"
    BY <1>0, <2>4, MovesAlone
  <2>9. \A q \in Request : pc'[q] = "working" => pc[q] = "working" /\ held'[q] = held[q]
    BY <2>8 DEF Alone
  <2>10. JobsLast
    BY <1>2 DEF JobsLast
  <2>11. ASSUME NEW w \in DOMAIN investigations \ {v} PROVE ActionInv(w)'
    <3>1. ActionInv(w) /\ investigations'[w] = investigations[w]
      BY <2>6 DEF ActionsInv
    <3>2. ASSUME ~RunAgain(w)
          PROVE  \A j \in DOMAIN jobs' : jobs'[j].inv = w => JobFits(j)'
      BY <1>2, <3>1, <3>2 DEF ActionInv, JobFits
    <3>3. \A b : Named(w, b) => Named(w, b)'
      BY <3>1 DEF Named
    <3>4. IsExecuted(w)' => IsExecuted(w)
      BY <3>1 DEF IsExecuted
    <3>5. \/ investigations'[w].action = None
          \/ investigations[w].action # None
      BY <3>1
    <3>6. executed \subseteq executed'
      BY <1>2
    <3> QED  BY <2>9, <2>10, <3>1, <3>2, <3>3, <3>4, <3>5, <3>6, ActionKept
  <2>12. ActionInv(v)'
    <3>1. ActionInv(v)
      BY <1>2 DEF ActionsInv
    <3>2. \A b : Named(v, b) => Named(v, b)'
      BY <1>3, <2>5, <2>6, <2>7 DEF Named
    <3>3. ASSUME ~RunAgain(v), NEW j \in DOMAIN jobs', jobs'[j].inv = v PROVE JobFits(j)'
      <4>1. JobFits(j) /\ jobs' = jobs
        BY <1>2, <3>1, <3>3 DEF ActionInv
      <4>2. /\ jobs[j].step \notin {"waiting", "mark", "progress", "finish"}
            /\ jobs[j].step = "abort" => jobs[j].wanted.action = jobs[j].copy.action
        BY <1>3, <1>5, <3>3, <4>1 DEF JobFits
      <4> QED  BY <4>1, <4>2 DEF JobFits
    <3>4. ASSUME ~RunAgain(v), IsExecuted(v)' PROVE Done(v)'
      <4>1. held[r].step = "settle"
        BY <2>5, <2>6, <3>4 DEF IsExecuted
      <4>2. Done(v)
        BY <1>1, <3>1, <3>4, <4>1 DEF ActionInv, HoldsAction
      <4> QED  BY <1>2, <3>2, <4>2, DoneLasts
    <3>5. executed \subseteq executed' /\ investigations[v].action # None
      BY <1>2, <1>3, <1>5
    <3> QED  BY <1>2, <2>9, <2>10, <3>1, <3>2, <3>3, <3>4, <3>5, ActionKept
  <2> QED  BY <2>6, <2>11, <2>12 DEF ActionsInv
<1> QED  BY <1>4, <1>5

\* A new investigation has no action, and no job and no review knows of it.
LEMMA RecordAction ==
  ASSUME InvestigationInv, ActionsInv, NEW r \in Request, NEW v \in Investigation,
         RecordInvestigation(r, v)
  PROVE  ActionsInv'
<1>1. /\ v \notin DOMAIN investigations
      /\ DOMAIN investigations' = DOMAIN investigations \cup {v}
      /\ investigations'[v].action = None
      /\ \A w \in DOMAIN investigations : investigations'[w] = investigations[w]
      /\ Await(r, [step |-> "enqueue", inv |-> v])
      /\ UNCHANGED <<jobs, executed>>
  BY DEF RecordInvestigation
<1>2. PICK g : g = [step |-> "enqueue", inv |-> v]
  OBVIOUS
<1>3. Alone(r) /\ held'[r] = g
  BY <1>1, <1>2, MovesAlone DEF InvestigationInv
<1>4. \A w : HoldsAction(held[r], w)'
  BY <1>2, <1>3 DEF HoldsAction
<1>5. \A q \in Request : pc'[q] = "working" =>
        (pc[q] = "working" /\ held'[q] = held[q]) \/ \A w : HoldsAction(held[q], w)'
  BY <1>3, <1>4 DEF Alone
<1>6. \A j \in DOMAIN jobs : jobs[j].inv \in DOMAIN investigations
  BY DEF InvestigationInv, JobInv
<1>7. ASSUME NEW w \in DOMAIN investigations PROVE ActionInv(w)'
  <2>1. ActionInv(w) /\ JobsLast /\ investigations'[w] = investigations[w]
    BY <1>1, <1>7 DEF ActionsInv, JobsLast
  <2>2. ASSUME ~RunAgain(w)
        PROVE  \A j \in DOMAIN jobs' : jobs'[j].inv = w => JobFits(j)'
    BY <1>1, <2>1, <2>2 DEF ActionInv, JobFits
  <2>3. \A a : Named(w, a) => Named(w, a)'
    BY <2>1 DEF Named
  <2>4. IsExecuted(w)' => IsExecuted(w)
    BY <2>1 DEF IsExecuted
  <2> QED  BY <1>1, <1>5, <2>1, <2>2, <2>3, <2>4, ActionKept
<1>8. ActionInv(v)'
  <2>1. ASSUME NEW q \in Request, pc'[q] = "working" PROVE HoldsAction(held[q], v)'
    <3>1. CASE \A w : HoldsAction(held[q], w)'
      BY <3>1
    <3>2. CASE pc[q] = "working" /\ held'[q] = held[q]
      <4>1. PICK h : h = held[q] /\ HeldInv(h)
        BY <3>2 DEF InvestigationInv, HandlerInv
      <4>2. h.step \in {"execute", "task", "create", "settle"} => h.inv # v
        BY <1>1, <4>1 DEF HeldInv
      <4>3. HoldsAction(h, v)'
        BY <4>2 DEF HoldsAction
      <4> QED  BY <3>2, <4>1, <4>3
    <3> QED  BY <1>5, <2>1, <3>1, <3>2
  <2>2. /\ \A j \in DOMAIN jobs' : jobs'[j].inv # v
        /\ ~IsExecuted(v)'
    BY <1>1, <1>6 DEF IsExecuted
  <2> QED  BY <1>1, <2>1, <2>2 DEF ActionInv
<1> QED  BY <1>1, <1>7, <1>8 DEF ActionsInv

\* The first job of an investigation finds no action; any further one runs again.
LEMMA DispatchAction ==
  ASSUME InvestigationInv, ActionsInv, NEW r \in Request, NEW j \in Job, NEW v,
         Dispatch(j, v), Return(r, "done"), UNCHANGED <<investigations, executed>>
  PROVE  ActionsInv'
<1>1. PICK kept : jobs' = [k \in DOMAIN jobs \cup {j} |->
                    IF k = j THEN NewJob(v, kept) ELSE jobs[k]]
  BY DEF Dispatch
<1>2. PICK job : job = NewJob(v, kept)
  OBVIOUS
<1>3. job.inv = v /\ job.step = "waiting"
  BY <1>2 DEF NewJob
<1>4. /\ j \notin DOMAIN jobs /\ DOMAIN jobs' = DOMAIN jobs \cup {j}
      /\ jobs'[j] = job /\ \A k \in DOMAIN jobs : jobs'[k] = jobs[k]
  BY <1>1, <1>2 DEF Dispatch
<1>5. JobsLast
  BY <1>4 DEF JobsLast
<1>6. Alone(r) /\ pc'[r] = "done"
  BY MovesAlone DEF InvestigationInv
<1>7. \A q \in Request : pc'[q] = "working" => pc[q] = "working" /\ held'[q] = held[q]
  BY <1>6 DEF Alone
<1> SUFFICES ASSUME NEW w \in DOMAIN investigations PROVE ActionInv(w)'
  BY DEF ActionsInv
<1>8. ActionInv(w)
  BY DEF ActionsInv
<1>9. ASSUME ~RunAgain(w)', ~RunAgain(w), NEW k \in DOMAIN jobs', jobs'[k].inv = w
      PROVE  JobFits(k)'
  <2>1. CASE k # j
    BY <1>4, <1>8, <1>9, <2>1 DEF ActionInv, JobFits
  <2>2. CASE k = j
    <3>1. \A l \in DOMAIN jobs : jobs[l].inv # w
      BY <1>4, <1>9, <2>2 DEF RunAgain
    <3>2. investigations[w].action = None
      BY <1>8, <3>1 DEF ActionInv
    <3> QED  BY <1>3, <1>4, <1>9, <2>2, <3>2 DEF JobFits
  <2> QED  BY <2>1, <2>2
<1>10. \A a : Named(w, a) => Named(w, a)'
  BY DEF Named
<1>11. IsExecuted(w)' => IsExecuted(w)
  BY DEF IsExecuted
<1>12. executed \subseteq executed'
  OBVIOUS
<1>13. \/ investigations'[w].action = None
       \/ investigations[w].action # None
  OBVIOUS
<1> QED  BY <1>5, <1>7, <1>8, <1>9, <1>10, <1>11, <1>12, <1>13, ActionKept

\* Whatever a job does, it moves alone and changes its own document only.
LEMMA JobFrame ==
  ASSUME NEW j \in Job, JobStep(j)
  PROVE  /\ j \in DOMAIN jobs /\ JobAlone(j) /\ UNCHANGED <<vars, executed>>
         /\ DOMAIN investigations' = DOMAIN investigations
         /\ \A w \in DOMAIN investigations \ {jobs[j].inv} :
              investigations'[w] = investigations[w]
<1>1. j \in DOMAIN jobs /\ UNCHANGED <<vars, executed>>
  BY DEF JobStep, TakeJob, FailToLoad, MarkRunning, AskProvider, Finish, AuditOutcome,
         Abort, InStep
<1>2. ASSUME \/ \E step, copy, wanted : JobGoesOn(j, step, copy, wanted)
             \/ \E step : EndJob(j, step)
             \/ GoesToCatch(j)
      PROVE  JobAlone(j)
  BY <1>1, <1>2, JobMoves DEF GoesToCatch
<1>3. ASSUME NEW v, NEW c, Stored(v, c) \/ UNCHANGED investigations
      PROVE  /\ DOMAIN investigations' = DOMAIN investigations
             /\ \A w \in DOMAIN investigations \ {v} : investigations'[w] = investigations[w]
  BY <1>3 DEF Stored
<1>4. CASE TakeJob(j)
  <2>1. PICK doc : doc = investigations[jobs[j].inv]
    OBVIOUS
  <2>2. JobGoesOn(j, "mark", doc, [doc EXCEPT !.status = "RUNNING"])
    BY <1>4, <2>1 DEF TakeJob
  <2> QED  BY <1>1, <1>2, <1>4, <2>2 DEF TakeJob
<1>5. CASE FailToLoad(j) \/ AuditOutcome(j)
  BY <1>1, <1>2, <1>5 DEF FailToLoad, AuditOutcome
<1>6. CASE MarkRunning(j)
  BY <1>1, <1>2, <1>3, <1>6 DEF MarkRunning
<1>7. CASE AskProvider(j)
  <2>1. PICK copy : copy = Saved(jobs[j].wanted)
    OBVIOUS
  <2>2. Stored(jobs[j].inv, Assigned(j)) \/ UNCHANGED investigations
    BY <1>7 DEF AskProvider
  <2>3. \/ \E p \in Proposal :
             JobGoesOn(j, "finish", copy,
                       [copy EXCEPT !.status = "COMPLETED", !.findings = j,
                                    !.action = Pending(p)])
        \/ JobGoesOn(j, "abort", copy, [copy EXCEPT !.status = "FAILED"])
        \/ GoesToCatch(j)
    BY <1>7, <2>1 DEF AskProvider
  <2> QED  BY <1>1, <1>2, <1>3, <2>2, <2>3
<1>8. CASE Finish(j)
  BY <1>1, <1>2, <1>3, <1>8 DEF Finish
<1>9. CASE Abort(j)
  BY <1>1, <1>2, <1>3, <1>9 DEF Abort
<1> QED  BY <1>4, <1>5, <1>6, <1>7, <1>8, <1>9 DEF JobStep

\* A job that runs alone stores an action where there was none.
LEMMA JobAction ==
  ASSUME InvestigationInv, ActionsInv, NEW j \in Job, JobStep(j)
  PROVE  ActionsInv'
<1>1. /\ j \in DOMAIN jobs /\ JobAlone(j) /\ UNCHANGED <<vars, executed>>
      /\ DOMAIN investigations' = DOMAIN investigations
      /\ \A w \in DOMAIN investigations \ {jobs[j].inv} :
           investigations'[w] = investigations[w]
  BY JobFrame
<1>2. JobsLast
  BY <1>1 DEF JobsLast, JobAlone
<1>3. \A q \in Request : pc'[q] = "working" => pc[q] = "working" /\ held'[q] = held[q]
  BY <1>1 DEF vars
<1> SUFFICES ASSUME NEW v \in DOMAIN investigations PROVE ActionInv(v)'
  BY <1>1 DEF ActionsInv
<1>4. ActionInv(v) /\ executed \subseteq executed'
  BY <1>1 DEF ActionsInv
<1>5. CASE jobs[j].inv # v
  <2>1. investigations'[v] = investigations[v]
    BY <1>1, <1>5
  <2>2. ASSUME ~RunAgain(v)
        PROVE  \A k \in DOMAIN jobs' : jobs'[k].inv = v => JobFits(k)'
    BY <1>1, <1>4, <1>5, <2>1, <2>2 DEF ActionInv, JobAlone, JobFits
  <2>3. \A a : Named(v, a) => Named(v, a)'
    BY <2>1 DEF Named
  <2>4. IsExecuted(v)' => IsExecuted(v)
    BY <2>1 DEF IsExecuted
  <2> QED  BY <1>2, <1>3, <1>4, <2>1, <2>2, <2>3, <2>4, ActionKept
<1>6. CASE jobs[j].inv = v
  <2>1. ASSUME ~RunAgain(v)
        PROVE  /\ \A a : Named(v, a) => Named(v, a)'
               /\ \A k \in DOMAIN jobs' : jobs'[k].inv = v => JobFits(k)'
               /\ IsExecuted(v)' => IsExecuted(v)
    <3>1. FitsOn(j)
      BY <1>1, <1>4, <1>6, <2>1, JobStepFits DEF ActionInv
    <3>2. \A k \in DOMAIN jobs' : jobs'[k].inv = v => k = j
      BY <1>1, <1>6, <2>1 DEF RunAgain, JobAlone
    <3>3. investigations'[v].action # investigations[v].action =>
            /\ investigations[v].action = None
            /\ investigations'[v].action.status = "PENDING_APPROVAL"
      BY <1>6, <3>1 DEF FitsOn
    <3>4. JobFits(j)'
      BY <3>1 DEF FitsOn
    <3>5. \A a : Named(v, a) => Named(v, a)'
      BY <3>3 DEF Named
    <3>6. IsExecuted(v)' => IsExecuted(v)
      BY <3>3 DEF IsExecuted
    <3> QED  BY <3>2, <3>4, <3>5, <3>6
  <2> QED  BY <1>1, <1>2, <1>3, <1>4, <1>6, <2>1, ActionKept
<1> QED  BY <1>5, <1>6

\* The process dies: a job it was running is over, or runs again.
LEMMA CrashAction ==
  ASSUME InvestigationInv, ActionsInv, CrashAll
  PROVE  ActionsInv'
<1>1. /\ UNCHANGED <<investigations, executed>>
      /\ jobs' = [k \in DOMAIN jobs |-> Recovered(jobs[k])]
  BY DEF CrashAll
<1>2. \A q \in Request : pc'[q] # "working"
  <2>1. CASE Crash
    BY <2>1 DEF Crash, InFlight
  <2>2. CASE (\A r \in Request : pc[r] \notin InFlight) /\ UNCHANGED vars
    BY <2>2 DEF vars, InFlight
  <2> QED  BY <2>1, <2>2 DEF CrashAll
<1>3. ASSUME NEW k \in DOMAIN jobs
      PROVE  /\ jobs'[k].inv = jobs[k].inv
             /\ jobs[k].stalls > 0 => jobs'[k].stalls > 0
             /\ \/ jobs'[k] = jobs[k]
                \/ jobs'[k].step = "died"
                \/ jobs'[k].stalls > 0
  <2>1. jobs'[k] = Recovered(jobs[k])
    BY <1>1
  <2> QED  BY <2>1 DEF Recovered, AtRest
<1>4. JobsLast
  BY <1>1, <1>3 DEF JobsLast
<1> SUFFICES ASSUME NEW v \in DOMAIN investigations PROVE ActionInv(v)'
  BY <1>1 DEF ActionsInv
<1>5. ActionInv(v) /\ executed \subseteq executed'
  BY <1>1 DEF ActionsInv
<1>6. ASSUME ~RunAgain(v)', ~RunAgain(v), NEW k \in DOMAIN jobs', jobs'[k].inv = v
      PROVE  JobFits(k)'
  <2>1. k \in DOMAIN jobs /\ jobs[k].inv = v /\ ~(jobs'[k].stalls > 0)
    BY <1>1, <1>3, <1>6 DEF RunAgain
  <2>2. CASE jobs'[k] = jobs[k]
    BY <1>1, <1>5, <1>6, <2>1, <2>2 DEF ActionInv, JobFits
  <2>3. CASE jobs'[k].step = "died"
    BY <2>3 DEF JobFits
  <2> QED  BY <1>3, <2>1, <2>2, <2>3
<1>7. \A a : Named(v, a) => Named(v, a)'
  BY <1>1 DEF Named
<1>8. IsExecuted(v)' => IsExecuted(v)
  BY <1>1 DEF IsExecuted
<1>9. \/ investigations'[v].action = None
      \/ investigations[v].action # None
  BY <1>1
<1> QED  BY <1>2, <1>4, <1>5, <1>6, <1>7, <1>8, <1>9, ActionKept

\* The handlers of Incidents hold no action.
LEMMA OtherAction ==
  ASSUME InvestigationInv, ActionsInv, NEW r \in Request,
         \/ BeginAny(r)
         \/ Fail(r)
         \/ \E c \in writes[r] : SaveIncident(r, c)
         \/ Announce(r) /\ UNCHANGED aiVars
  PROVE  ActionsInv'
<1>1. CASE \/ \E c \in writes[r] : SaveIncident(r, c)
           \/ Announce(r) /\ UNCHANGED aiVars
  <2>1. /\ UNCHANGED <<investigations, jobs, executed>> /\ held' = held
        /\ \/ pc' = pc
           \/ pc' = [pc EXCEPT ![r] = "written"]
           \/ pc' = [pc EXCEPT ![r] = "done"]
        /\ writes' = writes \/ \E c : writes' = [writes EXCEPT ![r] = @ \ {c}]
    BY <1>1 DEF SaveIncident, ExecuteSave, Announce, aiVars
  <2>2. Alone(r)
    BY <2>1 DEF InvestigationInv, ShapeInv, Alone
  <2>3. pc'[r] = "working" => pc[r] = "working"
    BY <2>1 DEF InvestigationInv, ShapeInv
  <2> QED  BY <2>1, <2>2, <2>3, QuietAction
<1>2. CASE Fail(r)
  BY <1>2, PlainAction DEF Fail, aiVars, Ended
<1>3. ASSUME NEW i \in DOMAIN incidents, Investigate(r, i) PROVE ActionsInv'
  <2>1. PICK h : h = [step |-> "lookup", incident |-> i, version |-> revision[i]]
    OBVIOUS
  <2>2. Await(r, h) /\ h.step = "lookup" /\ UNCHANGED <<investigations, jobs, executed>>
    BY <1>3, <2>1 DEF Investigate, aiVars
  <2> QED  BY <2>2, PlainAction
<1>4. ASSUME NEW endpoint \in {"approve", "reject"}, NEW i, NEW v, NEW force,
             Review(r, endpoint, i, v, force)
      PROVE  ActionsInv'
  <2>1. PICK h : h = [step |-> endpoint, incident |-> i, loaded |-> incidents[i],
                      inv |-> v, force |-> force]
    OBVIOUS
  <2>2. /\ Await(r, h) /\ h.step \in {"approve", "reject"}
        /\ UNCHANGED <<investigations, jobs, executed>>
    BY <1>4, <2>1 DEF Review, aiVars
  <2> QED  BY <2>2, PlainAction
<1>5. CASE BeginReview(r)
  BY <1>4, <1>5 DEF BeginReview
<1>6. CASE Begin(r) /\ UNCHANGED aiVars
  <2>1. Alone(r) /\ (pc'[r] = "working" => held'[r].step \in {"relate", "unrelate"})
    BY <1>6, BeginMoves
  <2>2. pc'[r] = "working" => \A v : HoldsAction(held[r], v)'
    BY <2>1 DEF HoldsAction
  <2>3. UNCHANGED <<investigations, jobs, executed>>
    BY <1>6 DEF aiVars
  <2> QED  BY <2>1, <2>2, <2>3, QuietAction
<1> QED  BY <1>1, <1>2, <1>3, <1>5, <1>6 DEF BeginAny

\* What was rejected, looked up or dispatched was not done.
LEMMA RejectAction ==
  ASSUME InvestigationInv, ActionsInv, NEW r \in Request,
         Reject(r) \/ Lookup(r) \/ Enqueue(r)
  PROVE  ActionsInv'
<1>1. ASSUME Return(r, "refused") \/ Return(r, "done"),
             UNCHANGED <<investigations, jobs, executed>>
      PROVE  ActionsInv'
  BY <1>1, PlainAction DEF Ended
<1>2. ASSUME NEW j \in Job, NEW v, Dispatch(j, v), Return(r, "done"),
             UNCHANGED <<investigations, executed>>
      PROVE  ActionsInv'
  BY <1>2, DispatchAction
<1>3. ASSUME NEW v, Await(r, [step |-> "dismiss", inv |-> v]),
             UNCHANGED <<investigations, jobs, executed>>
      PROVE  ActionsInv'
  <2>1. PICK h : h = [step |-> "dismiss", inv |-> v]
    OBVIOUS
  <2> QED  BY <1>3, <2>1, PlainAction
<1>4. ASSUME NEW i, NEW version,
             Await(r, [step |-> "record", incident |-> i, version |-> version]),
             UNCHANGED <<investigations, jobs, executed>>
      PROVE  ActionsInv'
  <2>1. PICK h : h = [step |-> "record", incident |-> i, version |-> version]
    OBVIOUS
  <2> QED  BY <1>4, <2>1, PlainAction
<1>5. CASE Reject(r)
  BY <1>1, <1>3, <1>5 DEF Reject, aiVars
<1>6. CASE Lookup(r)
  BY <1>1, <1>2, <1>4, <1>6 DEF Lookup
<1>7. CASE Enqueue(r)
  BY <1>2, <1>7 DEF Enqueue
<1> QED  BY <1>5, <1>6, <1>7

\* Every step keeps to the action that was executed.
LEMMA ActionsNext ==
  ASSUME InvestigationInv, ActionsInv, [NextAI]_allVars
  PROVE  ActionsInv'
<1>1. CASE UNCHANGED allVars
  BY <1>1 DEF allVars, vars, aiVars, ActionsInv, ActionInv, RunAgain, JobFits, HoldsAction,
              Named, Done, IsExecuted
<1>2. CASE CrashAll
  BY <1>2, CrashAction
<1>3. ASSUME NEW r \in Request, BeginAny(r) \/ Fail(r) PROVE ActionsInv'
  BY <1>3, OtherAction
<1>4. ASSUME NEW r \in Request, AIStep(r) PROVE ActionsInv'
  <2>1. CASE MarkExecuted(r)
    <3>1. pc[r] = "working" /\ held[r].step = "settle" /\ Decide(r, "EXECUTED")
      BY <2>1 DEF MarkExecuted, At
    <3> QED  BY <3>1, DecideAction DEF Decided
  <2>2. CASE MarkRejected(r)
    <3>1. pc[r] = "working" /\ held[r].step = "dismiss" /\ Decide(r, "REJECTED")
      BY <2>2 DEF MarkRejected, At
    <3> QED  BY <3>1, DecideAction DEF Decided
  <2>3. CASE \E v \in Investigation : RecordInvestigation(r, v)
    BY <2>3, RecordAction
  <2>4. CASE Lookup(r) \/ Enqueue(r) \/ Reject(r)
    BY <2>4, RejectAction
  <2>5. CASE Approve(r) \/ Execute(r) \/ LookForTask(r) \/ CreateTask(r)
    BY <2>5, ApproveAction, ExecuteAction, LookAction
  <2>6. CASE \/ \E c \in writes[r] : SaveIncident(r, c)
             \/ Announce(r) /\ UNCHANGED aiVars
    BY <2>6, OtherAction
  <2> QED  BY <1>4, <2>1, <2>2, <2>3, <2>4, <2>5, <2>6 DEF AIStep
<1>5. ASSUME NEW j \in Job, JobStep(j) PROVE ActionsInv'
  BY <1>5, JobAction
<1> QED  BY <1>1, <1>2, <1>3, <1>4, <1>5 DEF NextAI

\* What earlier calls left: a job that waits without an action, or one that is over.
LEMMA ActionsInit == InitAI => ActionsInv
<1> SUFFICES ASSUME InitAI PROVE ActionsInv
  OBVIOUS
<1>1. PICK D \in SUBSET Investigation, C \in SUBSET Investigation :
        \E job \in [D -> Job], of \in [D -> DOMAIN incidents], p \in [D -> Proposal] :
          Left(D, C, job, of, p)
  BY LeftByCalls
<1>2. PICK job \in [D -> Job], of \in [D -> DOMAIN incidents], p \in [D -> Proposal] :
        Left(D, C, job, of, p)
  BY <1>1
<1>3. \A r \in Request : pc[r] # "working"
  BY DEF InitAI, Init
<1>4. ASSUME NEW v \in D
      PROVE  /\ v \in DOMAIN investigations /\ ~IsExecuted(v)
             /\ v \notin C => investigations[v].action = None
             /\ job[v] \in DOMAIN jobs /\ jobs[job[v]].inv = v
             /\ jobs[job[v]].step = IF v \in C THEN "ended" ELSE "waiting"
  <2>1. (CHOOSE w \in D : job[w] = job[v]) = v
    BY <1>2 DEF Left
  <2>2. jobs[job[v]] = AtRest(NewJob(v, QueueActive),
                              IF v \in C THEN "ended" ELSE "waiting")
    BY <1>2, <2>1 DEF Left
  <2>3. /\ v \in DOMAIN investigations /\ job[v] \in DOMAIN jobs
        /\ investigations[v].action = IF v \in C THEN Pending(p[v]) ELSE None
    BY <1>2 DEF Left
  <2>4. ~IsExecuted(v)
    BY <2>3 DEF IsExecuted, Pending
  <2> QED  BY <2>2, <2>3, <2>4 DEF AtRest, NewJob
<1>5. DOMAIN investigations = D /\ DOMAIN jobs = {job[v] : v \in D}
  BY <1>2 DEF Left
<1>6. ASSUME NEW k \in DOMAIN jobs PROVE JobFits(k)
  <2>1. PICK v \in D : k = job[v]
    BY <1>5
  <2>2. CASE v \in C
    BY <1>4, <2>1, <2>2 DEF JobFits
  <2>3. CASE v \notin C
    BY <1>4, <2>1, <2>3 DEF JobFits
  <2> QED  BY <2>2, <2>3
<1> QED  BY <1>3, <1>4, <1>5, <1>6 DEF ActionsInv, ActionInv

\* EXECUTED is said only of an investigation an action of which was executed, and
\* of that very action, unless a job of it ran beside or after another run: approve
\* saves the incident first and the record last.
THEOREM ExecutedWasExecuted == SpecAI => []ExecutedIsTrue
<1>1. InvestigationInv /\ ActionsInv => ExecutedIsTrue
  <2> SUFFICES ASSUME InvestigationInv, ActionsInv, NEW v \in DOMAIN investigations,
                      IsExecuted(v)
               PROVE  \E e \in executed :
                        /\ e.inv = v
                        /\ \/ RunAgain(v)
                           \/ /\ e.type = investigations[v].action.type
                              /\ e.value = investigations[v].action.value
    BY DEF ExecutedIsTrue, IsExecuted
  <2>1. \E e \in executed : e.inv = v
    BY DEF InvestigationInv, DocInv, Sound, IsExecuted
  <2>2. ~RunAgain(v) => Done(v)
    BY DEF ActionsInv, ActionInv
  <2> QED  BY <2>1, <2>2 DEF Done, Named
<1> QED  BY InvInit, InvNext, ActionsInit, ActionsNext, <1>1, PTL DEF SpecAI
=============================================================================
