# incident-pulse: TLA+ specifications and proofs

incident-pulse is an incident desk: a NestJS back end on MongoDB (Mongoose), Redis and
BullMQ, and a Next.js client that follows it over Socket.IO. Its state is shared by every
handler of one Node process, so what is hard about it is not a single call but two: each
handler loads documents, decides on the copies, and saves them later, and any other handler
runs at each `await` in between. The specifications here model exactly that.

## 1. The system

| part | state | operations | what must hold |
|---|---|---|---|
| Incidents (`incidents.service.ts`) | collection `incidents` | create, update, changeStatus/resolve, changeSeverity, assign, relate, unrelate, merge | status and `resolvedAt` agree; links are mutual and none is lost |
| Alerts (`alerts.service.ts`) | collection `alerts` | ingest (dedupe, escalate, correlate, spawn), associate, unassociate | one alert per fingerprint and window; linked alerts are covered by their incident (services, severity); none stays on a merged incident; an incident is merged once |
| AI (`ai.service.ts`, `providers/`) | `aiinvestigations`, BullMQ queue | startInvestigation, processInvestigationJob (context, provider, outcome), approveAction, rejectAction | one execution per action, decisions final, every investigation ends or shows why not |
| Cache (`redis.service.ts`, `findOne`, `dashboard.service.ts`) | Redis and an in-memory fallback | read-through fill, evict, expire | what a finished change evicted is not served again; the caches come true |
| Realtime (`events.gateway.ts`, `SocketContext.tsx`, pages) | rooms, sockets, page state | join, emit, reconnect, patch, refetch | a page that asks after an event gets the change; a change is shown, after a reconnect too |
| Teams, users (`teams.service.ts`, `users.service.ts`, Teams & Users page) | `teams`, `users` (`teamId` on the user), forms | create, update, archive, restore, updateMembers, deactivate, resetPassword | a save undoes nothing it does not speak of; archived teams gain no members |
| Sessions (`auth.service.ts`, guards, `AuthContext.tsx`) | tokens, role kept by the page | login, refresh, logout | who is deactivated is out in the end |
| Start (`incident-ref.service.ts`, `counters.service.ts`, `seed.service.ts`) | `counters`, migrations | `$inc`, number and key old incidents, migrate services, seed | numbers unique; migrations before service |
| Tasks, comments, audit | lists | insert, update, delete | audit entry before eviction and event |
| Health, logging, error filter | – | – | read or format only |

How they interact. An HTTP call enters a controller and one service method. The method
awaits MongoDB for each load and save, then `AuditService.logEvent`, then
`RedisService.invalidateIncident`, then emits Socket.IO events, which the gateway sends to the
rooms and the pages answer with patches and further GETs. AlertsService and AIService
save incidents through the same Mongoose model as IncidentsService, with no lock and no
transaction; their only protection is Mongoose's version key, and that only for saves that
assign an array. AI jobs run in BullMQ workers (two at a time) or, when the queue could not
be made, in the process. The hard behaviours are therefore: reads that are stale when used;
pairs of saves of which one is refused; audit failures that end a handler after its save;
jobs that are dispatched twice; crashes between an effect and its record; cache fills that
race evictions; events that race answers; forms that are older than what they overwrite;
back ends that start side by side. `PROJECT.json` lists them as hazards, each at its line.

## 2. The modules

**`Mongoose`** says what a save is: `SaveCommand` sends the changed fields of the loaded copy
and demands the loaded version if a whole array is among them; `SetCommand`
(`findByIdAndUpdate`) demands nothing; `Accepts` and `Applied` are MongoDB's part. It is
modelled from how the services use the library (Mongoose 8) and is marked external.

**`LinkLists`** is the abstract specification of `relatedIncidentIds`: lists change by one
link at a time, each change applied to the list as it stands.

**`Incidents`** has the collection and the handlers of IncidentsService but merge.
`pc[r]` is where call `r` stands, `held[r]` the copies it keeps across an await, `writes[r]`
the saves it has sent. `ChangeStatus`, `ChangeSeverity`, `Assign`, `Update` load and decide
in one step and send a save; `relate`/`unrelate` load twice (`ReadFirst`, then `Relate` or
`Unrelate`), and send two saves at once (`Promise.all`). `ExecuteSave`/`RefuseSave` are
MongoDB; a refusal ends the call at once while its other save is still on its way, as
`Promise.all` does. `Announce` is the audit entry, the eviction and the event; `Crash` ends
the process and every call in it.

**`AlertCorrelation`** extends it with the alerts and with ingest, associate, unassociate and
merge, one step per await (`held[r].step` names the awaited call). `Age` moves an alert out of
the five-minute window or an incident out of the thirty-minute one; a save of an incident
brings it back. `Fail` is a failing database or audit call.

**`Investigation`** extends `Incidents` with `aiinvestigations`, the jobs and the checklist
tasks. `Investigate`, `Lookup`, `RecordInvestigation`, `Enqueue` are startInvestigation;
`TakeJob` … `Abort` are processInvestigationJob; `Review`, `Approve`, `Execute` (or
`LookForTask`, `CreateTask`) and `MarkExecuted` are approveAction; `Reject`, `MarkRejected` are
rejectAction. `executed` is a history variable: which call executed which action of which
investigation. Every database call of a job may fail. `FailToLoad` is `findById`, which stands
outside the try: the job is over (*lost*). Whatever fails later leads to the catch
(`GoesToCatch`) and there to `Abort`, whose save of FAILED may fail as well (*lost*) or be
refused for its version (*refused*); the code logs both and ends the job. `Recovered`
is what a crash leaves of a job: BullMQ runs a stalled job once more, a job of `setImmediate`
is gone (*died*).

**`Provider`** extends `Investigation` and opens its one step `AskProvider`: `Consult` saves the
progress and asks, `ReadHeaders`, `ReadBody` and `Retry` are the attempts of
OpenRouterProvider, `Failed` the catch of its loop, `Mock` the fallback, `TakeAnswer` the rest of the job.
`GiveUp` is a failure of the context gatherer. `CrashOnce` lets each job stall once.

**`DetailCache`** follows one incident, its lists and the other incidents as sets of writes. `Plan` has
every handler as the sequence of its saves, audit entries, evictions and events, in the
order of the source; `SaveWrite`, `LogEvent`, `Evict` and `EmitEvent` run it step by step. `cache` holds
both stores, Redis and the Map of the process; `Ask`, `Lookup`, `Read`, `Fill`, `Answer` are a GET, whose
queries read the parts in the order in which findOne (one after the other) and getOverview
(all at once) do. `Expire`, `LoseRedis`, `RegainRedis`, `Crash` are time and faults. `evicted` and `missed`
are history variables.

**`LiveView`** extends `DetailCache` with the gateway and browser tabs. `link`, `joining`, `room` and `inbox` are
the socket of a tab; `view` what it shows; `fetch` says for each GET which page asked and after
which changes. `HandleEvent` is the listeners of the page, `ReceiveReply` what a page does when its own
POST is answered, `Receive` the arrival of a GET. Events are in order on one socket; answers are not
ordered with anything. `LiveBegin` makes a change on a page or elsewhere; a detail page makes only the
calls of its own forms (`MadeOnDetail`). Queue and alerts leave their room and join it again when
a filter changes (`Refilter`, `Leave`, `Join`): for a moment they hear nothing.

**`Directory`** has teams, users and sessions. `desk[d]` is a browser with the form that is open or the
call under way; `Load`, `Check` and the saves are the handlers of TeamsService and UsersService, a
step for each await; `Passes` is JwtStrategy and RolesGuard. `allowed` is a history variable: which
teams and accounts named by a call were eligible at some time during it. A renewal of a session loads the
account (`refreshToken`) and signs an await later (`Refreshed`), as a login does.

**`Startup`** has several processes: `ref` and `legacy` are the two `onModuleInit` loops, side by side; then
the seed runs (`SeedOrSkip` … `SyncCounter`); then the server takes numbers for new incidents.
`BuildIndex` is the unique index on the number: Mongoose asks for it when the model is registered
(`autoIndex`) and nothing awaits the answer, so it comes anywhere beside the two loops, and it is
refused for good while two incidents have the same number or none. `IndexAnswered` is the one assumption about
the database's pace: the answer is there before the seed, or the first request, comes to the incidents.
The code does not ensure it. Without it TLC finds `NumbersUnique` violated: one process creates an
incident while another, started beside it on the empty database, inserts the seeded ones, whose numbers begin at 1 as well.

**`MC*`** only give constants their values. The theorems are in modules of their own, each extending
the one it is about: **`IncidentsProofs`**, **`AlertCorrelationProofs`**, **`InvestigationProofs`**,
**`ProviderProofs`**, **`DetailCacheProofs`**, **`LiveViewProofs`**, **`DirectoryProofs`**, **`StartupProofs`**.

Definitions whose comment begins with *Mistake* are mutated forms of the definition that
follows them, used to see that each property can fail; no specification uses them.

### Abstractions

* Text is left out: titles, descriptions, reasons, prompts. `teamId` of incidents is left out with them; of
  the decisions modelled only the operator's policy reads it.
* The tags of a new incident are left out, so `tags` shows only what merge and update put there.
* Times are reduced to what is decided with them: `resolvedAt` is the call that stamped it,
  windows are `aged`, an incident's `updatedAt` is a count of its saves (`revision`); timeouts, backoffs,
  times to live and the life of tokens are steps that may be taken at any time.
* An `update` whose body assigns nothing sends nothing in the model; the code renews
  `updatedAt`. No run that looks at ages or versions offers `update`.
* Where a query sorts and takes the newest of several matches, any match may be taken.
* The progress saves of a job between RUNNING and its outcome are one step (in `Provider` two, before
  and after the call): each only appends to `progressEvents`, which raises the version and demands none.
* `Fail` stands for the failure of any awaited call; a failing save of an incident is
  `RefuseSave` or a crash.
* `DetailCache` knows of a write only that it happened and which part of the detail shows it; what it
  says is the business of the other modules. Queries of one part read it at one moment.
* A page's `view` is the set of writes it shows; scrolling, filters and paging are left out, but for the
  reload they cause (`Refilter`).
* Forms give every field they show, of which one is changed; the API is given single fields as well.
* Init starts from incidents (alerts, investigations, accounts) that earlier calls left behind, none
  linked, so that few calls are needed to reach the interesting states.

## 3. The runs

| run | bounds | question and answer |
|---|---|---|
| `incidents_overlap` | 3 incidents, 2 overlapping calls of every endpoint, crashes | `TypeOK`; `ResolvedIsDated`; `LinksAreAtomic` (refinement of `LinkLists`). All hold |
| `incidents_sequential` | 2 incidents, 3 calls in turn | `OnlyResolvedIsDated` and `LinksAgree` hold of calls that do not overlap |
| `correlation_overlap` | 3 incidents, 1 alert, 3 calls, 2 at a time | `CorrelationTypeOK`, `ServicesCoverAlerts`: the version key protects the list of services; `LinksAreAtomic` also holds of merge; `MergedOnce`: of two merges of one incident at once only one takes it |
| `correlation_sequential` | 2 incidents of one service, 2 alerts, 3 reports of two services, 3 calls in turn, everything may age | dedupe, merge, status and severity: `OneAlertPerPrint`, `NoStrandedAlert`, `AlertStatusAgrees`, `IncidentAsSevere`, `SeverityOnlyRises` |
| `review_overlap` | 1 incident, 2 investigations, 2 jobs, 2 overlapping calls that investigate or approve, failures, crashes | `InvestigationTypeOK`, `ExecutedIsTrue`, `QueuedHasJob`, `CompletedHasFindings` |
| `review_sequential` | 1 incident, 1 investigation, 3 calls in turn, failures, crashes | `ExecutedOnce`, `DecisionStands` |
| `investigation_settles` | 1 investigation, 2 jobs of it, 1 slot and the process beside it, 3 attempts, 1 call at a time, failures, one crash under each job, fairness | `ProviderTypeOK`, `InvestigationsSettle`, with the ways out of `Stuck` |
| `detail_cache` | 1 change of each of the 8 shapes of handlers, 1 reader asking again and again, 1 fault, fairness | `EvictionSticks`, `CachesSettle` |
| `live_view` | 1 change of 3 kinds (patch, added item, reload), 1 tab on any page, 2 GETs at a time, 1 fault, fairness | `LiveTypeOK` (with `CacheTypeOK`), `AnswersAreFresh`, `QuietChangeIsShown`, `PagesCatchUp` |
| `directory` | 3 accounts, 2 teams, 2 admins at 2 browsers, 2 calls of any kind, any number of logins, fairness of expiry | `TypeOK`, `NothingElseUndone`, `NamesAreSound`, `ReplacesWhatItRead`, `RevokedRunsOut` |
| `startup` | 2 processes, an empty database or one with 1 or 2 incidents of earlier versions (4 such databases, at most one incident with the old fields), a seed of 2, 1 new incident, 1 crash, fairness | `TypeOK`, `NumbersUnique`, `CounterCovers`, `ServesComplete`, `MigrationsEnd`, `SeedIsWhole` |
| `rooms_not_joined` | 1 tab on the overview, no fault, fairness | `PagesJoin` fails: a page that loads before its socket has connected is never in its room |

Why these bounds. Every race of the handlers is between two of them (or two jobs) over one or two documents:
two overlapping calls reach it, a third incident is needed for a list with more than one link, a third call
for the state that the other two meet (an alert already linked, an incident already merged, a review already
failed). Two alerts give two fingerprints with one correlation key. Thresholds 5, 15, 30 become 2 and 3
repetitions (`StepThreshold`): what counts is their order. The cache's properties speak of one change and one
answer; a second change adds nothing to either, since an entry is judged by each change alone, and a reader
that asks again meets its own earlier fill. On a page the event, the page's own answer and one more GET are
the three things that race. A stale form needs one call that opens it late and one that is saved meanwhile. A
second job of one investigation needs the second investigate call. Two processes with a crash meet each
other's migration half done. Symmetry is used only where every constant treats the permuted identities alike,
and in no run with a liveness property. `MaxInFlight` is 1 where the question is what calls do that do not
overlap; the properties of those runs that overlapping calls break are named as such in the modules and under
"hazards", with what TLC finds. Deadlock is checked in `directory`, where somebody can always log in; the
others rest when each of their calls is made or each process is down for good.

Fairness. `FairProviderSpec`: weak fairness of the steps of each call that has begun and of each job: Node
resumes every handler whose await is answered, BullMQ runs every job, timers go off; that the body of an
answer ends is assumed, and rests on the HTTP client, since the timeout of OpenRouterProvider does not cover
it. `CacheFairness`: handlers and reads go on, entries expire (each is stored with a time to live); Redis need
not come back. `LiveFairness`: sockets connect again (reconnectionAttempts is Infinity), joins and events are
handled, answers arrive. `Directory`: tokens run out. `Startup`: a process that is down is started again and
its loops go on. Nobody is obliged to make a call or open a page, and nothing need fail: failures, crashes and
the beginnings of calls have no fairness.

What TLC shows when a bound of the sequential runs is lifted: `startInvestigation` dispatches an investigation
again that has a job under way, and `processInvestigationJob` does not look at what is stored before it stores
its outcome; one of the two is enough to lose a decision. Two jobs of one investigation that make each other's
saves stale leave it RUNNING for ever; the run `investigation_settles` reaches this, and `Stuck` names it. Two
approvals at once execute one action twice. A relate and an unrelate of one pair that straddle each other
leave a link on one side. Two merges in opposite directions may close both incidents, each merged into the
other. The checks of `approveAction`, `relate` and `unrelate` are made on copies, and only the array saves are
protected by a version, each document by itself.

What the exceptions in the properties say: an eviction is undone by a fill that raced it and by a Redis it
could not reach, each for the time to live of the entry (15 or 30 seconds); handlers of `TellsEarly` send
their event before they evict; EXECUTED may be said of an action that replaced the executed one if a job of
the investigation ran again between execution and record (`RunAgain`); an investigation may stay QUEUED or
RUNNING in the ways of `Stuck`; an admin's form overwrites every field it shows; a second process renumbers
incidents the first has numbered, and the two migrations may lose the old services to 'unknown-service'; a
seed that dies halfway is never completed, and leaves the counter behind if it dies after its incidents. The
web client neither stores the refresh token nor calls /auth/refresh: `refreshToken` is there for other clients
of the API.

## 4. What is proved

`IncidentsProofs`, for any number of incidents, calls, users and any `MaxInFlight`, from the
assumptions `NoneAssumption` (null is not a user, incident or request), `StatusAssumption`,
`SeverityAssumption` and `AuthorAssumption`:

* `TypeCorrect`: `Spec => [](TypeOK /\ SavesAwaited)`. TypeOK is inductive with the fact that saves are in
  flight only while they are awaited or after a refusal (a new call finds no old saves of its
  own).
* `ResolvedHasDate`: `Spec => []ResolvedIsDated`. It is not inductive: what must be known is that
  every save in flight that resolves an incident carries its stamp, that a save that clears the
  stamp carries a status that is not RESOLVED, and that a stamp is never null. That is
  `StampInv`; the step that matters is `ExecuteSave`, where a save meets a document other
  handlers have changed.
* `LinksImplemented`: `Spec => LinksAreAtomic`, the refinement. `LinkInv` says that a save that assigns
  a list demands a version, and that at this version the stored list differs from it by one
  link; a held copy with the stored version has the stored list. A save that is accepted is then
  an `Add` or a `Drop` of `LinkLists`, or changes no list.

Two more assume `MaxInFlight = 1`: calls do not overlap, but still fail, are cut off by crashes and follow one
another in any order. Overlapping calls break both properties, as the runs and hazards tell.
They share `SequentialInv`: one handler is at work and what it holds is what is stored
(`OneAtWork`); every save in flight will be accepted (`OneSaving`) and, executed on the document as it
is, dates only what it resolves (`SendsDated`).

* `ReopenedHasNoDate`: `OnlyResolvedIsDated`.
* `LinksAreMutual`: `LinksAgree`. Between the two saves of relate the lists disagree, so the invariant speaks of
  the lists as they will be once the saves in flight are executed (`ListToBe`, `ListsWillAgree`), and only
  as long as no handler has failed half way.

`DetailCacheProofs`, for any set of handlers (`Kind`), any number of changes, reads and faults, from
`KindAssumption`, `FaultAssumption` and `NoneAssumption`:

* `CacheTypeCorrect`: `CacheSpec => []CacheTypeOK`. The step that saves needs `PlansSaveFirst`: every plan
  saves known parts.
* `EvictionsStick`: `CacheSpec => []EvictionSticks`. The inductive invariant is `CacheInv`. An entry is
  as good as the read that fills it, so `ReadsWhole` says of every read under way that of the parts
  it has read it shows all writes of a change whose eviction is over, unless that eviction came
  while it read. That stays true only if such a change writes nothing more: `EvictedPast` says
  that it has passed an eviction of its plan, and `PlansSaveFirst`, proved of each of the 23 plans,
  that no plan saves after its first eviction.

`LiveViewProofs`, for any number of tabs on any page, changes, requests and faults, from `PageAssumption` (null
is no tab and no page) and the assumptions of `DetailCache`. A step of `LiveView` is, for the stores, one of
`DetailCache`, a request for a list, which is not cached, or a socket that drops (`LiveStepInStore`), so
`CacheInv` carries over.

* `LiveTypeCorrect`: `LiveTypeOK`.
* `FreshAnswers`: `AnswersAreFresh`. A page may be told of a change in three ways: by an event, by the answer
  to its own call, or by what it knew when it asked before. The inductive invariant, `LiveInv`, says of each
  that the handler was past the eviction of what the page asks for (`EventsSettled`, `ToldSettled`), and of
  each request under way that it will show what it was made for or has raced (`RequestsFresh`).
  `PlansTellLast`, proved of each plan outside `TellsEarly`, says that a handler evicts what its listeners ask
  for before its first event; `OwnChangesEvict`, of each call of `MadeOnDetail` outside it, that the detail is
  among what it evicts before it answers.

`AlertCorrelationProofs`, for any number of incidents, alerts, reports and overlapping calls, with
failures, crashes and the passing of time, from the assumptions of `Incidents` and
`RequestAssumption` (the calls are finitely many; repetitions are counted), `TagAssumption`,
`ListAssumption` (lists of services are finite and closed under merging), `ReportAssumption` and
`FrequencyAssumption` (reports and thresholds give severities and services that exist), and
`IdentityAssumption` (an ObjectId names an alert or an incident, not both). The module uses
the lemmas of `IncidentsProofs` about documents and saves.

* `CorrelationSound`: `CorrelationInv` is inductive. Its parts are the documents (`SoundIncidents`,
  `AlertsInv`), the saves in flight (`WriteInv`: well formed, one link from the version they demand, stamped by
  their own call) and, what the earlier invariant of `Incidents` could not say, the copies that
  merge and the engine hold over up to three awaits (`HeldInv`, `IsCopy`: a version the incident
  had, with the links of that version).
* `CorrelationTypeCorrect`, `ResolvedHasDateBesideAlerts` and `LinksImplementedBesideAlerts` follow:
  `CorrelationTypeOK`, `ResolvedIsDated` and the refinement of `LinkLists` when merge writes beside
  all the other handlers. The step that matters for the last is merge's save of two copies
  of different ages.
* `ServicesCover`: `ServicesCoverAlerts`, if no call sets a status or a list of services outright
  (`Endpoint` has neither `status` nor `update`). An alert may be linked before the incident lists its
  service, so the invariant (`CoverInv`) says that the incident lists it or a save in
  flight will bring it (`Covered`, `Brings`), *unless* a call has failed or is bound to: its save demands a
  version that is gone (`Doomed`), or two saves in flight demand the same one (`Clash`). `Broken`, the
  disjunction, never becomes false again (`BrokenStays`), and it is false when all calls
  have succeeded. `Behind` says of every held copy that it lists no more than its incident, and
  the same if the version is the same; `ListBase` that a save of the list demands a version and adds to
  the list of that version; `TaggedLate` that a copy of an incident that merge may still close has no
  tag, which is why closing it always demands its version.

  The hypothesis is needed. An incident that was merged, reopened by `PATCH status` and merged again is
  tagged and related already, so the second merge's save of it assigns no array that changed and
  Mongoose demands no version; a service that an ingest adds between `collect` and `move` is then
  missing on the target although every call succeeded. `update` assigns the list with
  `findByIdAndUpdate`, which demands none either. TLC's runs leave both out for the same reason.
* `MergesOnce`: the action property `MergedOnce`, from the same invariant and under the same hypothesis. Only merge's
  save of its source assigns `mergedIntoId`; it demands the version of a copy that is merged into none
  (`TaggedLate`), and a copy of the stored version agrees with what is stored.

Of calls that do not overlap (`MaxInFlight = 1`), with failures, crashes and ageing, five theorems share the
invariant `AlertsSequentialInv`. It says, step by step, that what the handler at work found is
still so (`HoldsStored`: the alert and the incidents it holds are the stored ones; when ingest is about to insert, no
recent alert has the fingerprint; when it is about to attach, the incident is not merged and
severe enough), and what a save in flight does to the documents as they are (`SaveFits`).

* `StatusFollowsIncident`: `AlertStatusAgrees`, and `RepetitionsAreAbsorbed`: `OneAlertPerPrint`, with no
  further hypothesis.
* `MergeTakesAllAlerts`: `NoStrandedAlert`, also after calls that fail or are cut off, if no call reopens an
  incident (neither the endpoint `status` nor an `update` with a status). A merged incident that is reopened
  takes alerts again. `NoneStranded` adds that a merged incident is resolved, so that the engine does not find
  it.
* `IncidentsFollowAlerts`: `IncidentAsSevere`, if moreover no call sets a severity outright and no responder
  associates alerts, since associate never escalates. An incident lags behind its alert until the escalation
  is saved; `WillBeAsSevere` says that it is severe enough or a handler at work or a save in flight sees to
  it.
* `EscalationOnlyRaises`: the action property `SeverityOnlyRises`, if no call sets a severity outright.

`InvestigationProofs`, for any number of incidents, calls, investigations, jobs and slots, from
`ProposalAssumption` and `JobAssumption` beside those of `Incidents`. The inductive invariant,
`InvestigationInv`, is the conjunction of `ShapeInv`, `DocInv` of each stored document, `JobInv` of each job,
`HandlerInv` of each call, and `QueuedHasJob` itself.

* `InvestigationTypeCorrect`: `InvestigationTypeOK`.
* `ExecutedWasExecuted`: `ExecutedIsTrue`. A job saves a copy it has loaded long before, so not only the stored
  document but every copy must be `Sound`: an action it calls EXECUTED has an execution, for
  that investigation. That it is the very action that was executed is `ActionsInv`: unless a job of the investigation
  runs again (`RunAgain`), its one job assigns the action once (`JobFits`), before any review can hold
  it, and what a review holds is the stored action (`HoldsAction`).
* `CompletedIsFound`: `CompletedHasFindings`. `Work` relates a job's copy to the document it is going to
  overwrite: the copy is no newer, and what it saves undoes no findings the document has.
* `QueuedIsServed`: `QueuedHasJob`, across failures and crashes. The converse part of `Work` carries it: no job saves
  QUEUED, so only startInvestigation can bring it about; it dispatches a job or its own call has failed, and
  a job ends without having stored anything only in the ways that `FailToLoad`, `Abort` and `Recovered` record.

What is true of reviews one at a time is proved under the hypotheses that it needs, which the
run `review_sequential` meets. `OneByOne`: calls do not overlap, none of them is `investigate`, and a crash does not
make BullMQ run a stalled job again. A second job of an investigation, or a second run of the first, stores its
outcome without looking at what is stored and replaces an action that was decided meanwhile.

* `ReviewsSound`: `ReviewInv`. Each investigation has one job; until that job has stored its outcome there is no
  action and the copy is as stored, afterwards the job assigns none (`JobFits`); what a review has found pending still
  is (`ReviewHeld`).
* `DecisionsStand`: the action property `DecisionStands`, for any number of incidents and investigations.
* `ActionsExecutedOnce`: `ExecutedOnce`, with `NothingUndone`: one incident, no call that sets severity or assignee
  outright, no proposal of a status and no `force`. approveAction protects itself from a repetition by
  looking whether the effect is there: another call may have taken it back, `force` skips the
  look, and approve does not check that the investigation belongs to the incident it names, so with
  two incidents the effect may be on the other one. `OnceInv` says that what was executed still shows
  (`Lasts`), and that what a review is about to do has not been done (`ReviewHolds`).

`ActionAssumption` (a stored action is not null) is used by these three and by `ExecutedWasExecuted`.

`ProviderProofs`, from `RetriesAssumption` and `KeyAssumption`: `InvestigationsSoundWithProvider` shows that
`InvestigationInv` survives when the one step of the provider becomes many, and `ProviderTypeCorrect` bounds
the attempts by MaxRetries + 1. `ProviderInv` adds that a call of a provider is under way only for a job
that waits for it (`CallInv`), which is what a crash or a failing gatherer could break.

`DirectoryProofs`, for any accounts, teams, browsers and calls, from `OwnerAssumption`, `CallsAssumption`,
`NoneAssumption`, `ServiceAssumption` (there is a value for responsibilities) and `FirstAssumption`
(what is stored at first is of the schemas). `DirectoryInv` says what each call may hold at each of its awaits (`StepInv`,
`BodyInv`), how old the copy of an edit may be (`CopyInv`), and what it has seen to be open or active
(`SeenInv`).

* `TypeCorrect`: `TypeOK`.
* `NothingUndone`: the action property `NothingElseUndone`, from `BodyInv`: saves send the fields of the
  body, whatever the copy says.
* `EditsReplaceWhatTheyRead`: `ReplacesWhatItRead`, from `CopyInv`: a copy of the stored version has the
  stored responsibilities.
* `NamesSound`: `NamesAreSound`, of who joins a team and of the lead of a team that is there already (a new team is
  stored with any lead), from `SeenInv`, which relates the step at which a call stands to what
  the history variable `allowed` has seen since the call began.

`StartupProofs`, for any number of processes, old, seeded and new incidents and crashes, from
`CrashAssumption`, `SequenceAssumption`, `DocumentAssumption` and `EarlierAssumption` (which databases of an
earlier version there are), and under `IndexAnswered`, which is part of the specification. `Inductive`
establishes `StartupInv`; `TypeCorrect`, `NumbersAreUnique` (`NumbersUnique`), `CounterIsAhead`
(`CounterCovers`) and `ServersFindMigrated` (`ServesComplete`) follow.

* `NumberInv`: the numbers held by processes that have not yet stored them differ from one
  another and from the stored ones, and none is above the counter. Without it a number taken
  from the counter might already be held by another process.
* `SeedInv`: at most one process is past the insert of the teams, the seeded incidents have the
  numbers 1, 2, ..., and how far the counter may be behind at each step of the seed.
* `LoopsInv` and `ServedInv` (`Behind`): what the loop of a process has left behind it stays
  migrated, whatever older copies the other processes write back.

What stays with TLC:

* Liveness under fairness and whatever speaks of ENABLED is out of the proof system's reach:
  `InvestigationsSettle`, `CachesSettle`, `QuietChangeIsShown`, `PagesCatchUp`, `RevokedRunsOut`,
  `MigrationsEnd`, `SeedIsWhole`.
* Nothing else: every invariant and every other action property of the runs is stated by a theorem. Those of
  calls that do not overlap are theorems under the hypotheses named above, not about overlapping calls, of
  which they are false.
* What the definitions compute is checked on the values of the runs only where it would need induction over
  data: joining and merging lists of services of any length is left to `ListAssumption`.

## 5. Not modelled, and the plan

Not modelled, and why:

* Text rules: `resolveCorrelationKey`, `normalizeServices`, fingerprints and display ids are values of the
  reports here; they are pure and within reach of unit tests.
* `queue.add` waiting for a Redis that is away: the wait is inside BullMQ.
* `seed --force`, which empties the collections under whatever runs beside it.
* Guards of the controllers other than teams and users, validation of bodies, health, logging, the
  error filter and the layout of the pages: they keep no state, or only decide who calls.

Nothing of the plan is left. What could be added next: the pages' filters and sorting, `seed --force`, and the
guards of the other controllers.
