---------------------------- MODULE DetailCache ----------------------------
(***************************************************************************)
(* RedisService, the two answers cached in it (the detail of an incident   *)
(* and the operations overview), the reads that fill it, and every handler *)
(* of the back end as the order of its saves, audit entries, evictions and *)
(* events.                                                                 *)
(*                                                                         *)
(* One incident is followed.  A change is one call that alters it, what    *)
(* goes with it, or another incident; a cached answer is the set of writes *)
(* it shows.  What a write says is the business of the other modules; here *)
(* only its order against evictions, fills and events counts.              *)
(***************************************************************************)
EXTENDS Naturals, Sequences, FiniteSets

CONSTANTS
  Change,     \* calls and jobs that write, each made once
  Kind,       \* the handlers in use
  Reader,     \* GET requests under way at a time
  MaxFaults,  \* how often Redis may be lost, or the process may die
  None        \* nothing, or a call not made yet

\* Redis, and the Map of this process that stands in for it.
Store == {"redis", "memory"}

\* CACHE_KEYS: the overview, and the detail of the followed incident.
CacheKey == {"detail", "overview"}

\* GET /incidents and GET /alerts are answered without the cache.
Query == CacheKey \cup {"list"}

\* The document of the followed incident; its alerts, tasks, comments, audit
\* entries and investigation; and the other incidents.
Part == {"incident", "lists", "others"}

Write == Change \X Part

-----------------------------------------------------------------------------
(* The handlers: what each awaits and sends, in the order of its source.    *)

Save(part)      == [op |-> "save", part |-> part, keys |-> {}, event |-> None, this |-> TRUE]
Audit           == [op |-> "audit", part |-> None, keys |-> {}, event |-> None, this |-> TRUE]
EvictKeys(keys) == [op |-> "evict", part |-> None, keys |-> keys, event |-> None, this |-> TRUE]
EmitTo(event, this) ==
  [op |-> "emit", part |-> None, keys |-> {}, event |-> event, this |-> this]
Emit(event)     == EmitTo(event, TRUE)
EmitOther(event) == EmitTo(event, FALSE)

invalidateIncident  == EvictKeys({"detail", "overview"})
invalidateDashboard == EvictKeys({"overview"})

createIncident == <<Save("others"), Audit, invalidateDashboard,
                    EmitOther("incident:created")>>
\* Mistake: the event goes out before the eviction.
updateEmitsFirst == <<Save("incident"), Audit, Emit("incident:updated"), invalidateIncident>>
updateIncident == <<Save("incident"), Audit, invalidateIncident, Emit("incident:updated")>>
\* Mistake: the caches are evicted before the save.
statusEvictsFirst == <<invalidateIncident, Save("incident"), Audit,
                       Emit("incident:status_changed")>>
changeStatus   == <<Save("incident"), Audit, invalidateIncident,
                    Emit("incident:status_changed")>>
changeSeverity == <<Save("incident"), Audit, invalidateIncident,
                    Emit("incident:severity_changed")>>
assign         == <<Save("incident"), Audit, invalidateIncident, Emit("incident:assigned")>>
mergeIncident  == <<Save("lists"), Save("incident"), Audit, invalidateIncident,
                    invalidateDashboard, Emit("incident:status_changed"),
                    Emit("incident:updated"), EmitOther("incident:updated")>>

\* The same change of another incident, which the detail may show as related:
\* its own detail is another key.
changeOther    == <<Save("others"), Audit, invalidateDashboard,
                    EmitOther("incident:status_changed")>>

createComment  == <<Save("lists"), Audit, invalidateIncident, Emit("comment:created")>>
createTask     == <<Save("lists"), Audit, invalidateIncident, Emit("task:created")>>
updateTask     == <<Save("lists"), Audit, invalidateIncident, Emit("task:updated")>>
deleteTask     == <<Save("lists"), Audit, invalidateIncident, Emit("task:deleted")>>

\* A repeated report: the alert alone, or with the severity of its incident.
repeatReport   == <<Save("lists")>>
escalate       == <<Save("lists"), Save("incident"), Audit,
                    Emit("incident:severity_changed"), invalidateIncident>>
\* A report that joins the incident and raises its severity.
correlate      == <<Save("lists"), Audit, Emit("incident:severity_changed"),
                    Save("incident"), Audit, invalidateIncident, Emit("alert:associated")>>
\* A report that opens another incident.
spawn          == <<Save("others"), Audit, invalidateDashboard,
                    EmitOther("incident:created"), EmitOther("alert:associated")>>
associate      == <<Save("lists"), Save("incident"), Audit, invalidateIncident,
                    Emit("alert:associated")>>
unassociate    == <<Save("lists"), invalidateIncident>>

\* startInvestigation; the outcome of a job; its failure; the two reviews.
investigate    == <<Save("lists"), Emit("ai:queued")>>
complete       == <<Save("lists"), Audit, invalidateIncident, Emit("ai:completed")>>
failJob        == <<Save("lists"), Audit, Emit("ai:failed")>>
approveAction  == <<Save("incident"), Emit("incident:status_changed"),
                    Emit("incident:updated"), Save("lists"), Audit, Audit,
                    invalidateIncident, Emit("ai:action_executed")>>
rejectAction   == <<Save("lists"), Audit, invalidateIncident, Emit("ai:action_rejected")>>

\* update of TeamsService, updateUser: the overview shows teams, the detail names.
changeTeam     == <<Save("others")>>

Plan == [create |-> createIncident, update |-> updateIncident, status |-> changeStatus,
         severity |-> changeSeverity, assign |-> assign, merge |-> mergeIncident,
         other |-> changeOther, comment |-> createComment, newTask |-> createTask,
         task |-> updateTask, noTask |-> deleteTask, repeat |-> repeatReport,
         escalate |-> escalate, correlate |-> correlate, spawn |-> spawn,
         associate |-> associate, unassociate |-> unassociate,
         investigate |-> investigate, complete |-> complete, failJob |-> failJob,
         approve |-> approveAction, reject |-> rejectAction, team |-> changeTeam]

ASSUME KindAssumption   == Kind \subseteq DOMAIN Plan
ASSUME FaultAssumption  == MaxFaults \in Nat
ASSUME NoneAssumption   == None \notin Kind \cup Part

VARIABLES
  stored,   \* the writes MongoDB holds
  call,     \* where each change stands in its plan
  online,   \* whether Redis answers (isConnected and reachable)
  faults,   \* faults so far
  cache,    \* both stores: the entry of each key, or None
  reader,   \* the GET requests
  evicted,  \* history: the changes whose eviction of a key is over
  missed    \* history: those of them that did not reach Redis

cacheVars == <<stored, call, online, faults, cache, reader, evicted, missed>>

NotCalled == [kind |-> None, at |-> 1, gone |-> {}, failed |-> FALSE]
Idle == [step |-> "idle", query |-> None, unread |-> {}, shows |-> {}, raced |-> {}]

Begun(c)   == call[c].kind # None
Steps(c)   == Plan[call[c].kind]
Over(c)    == Begun(c) /\ (call[c].failed \/ call[c].at > Len(Steps(c)))
Running(c) == Begun(c) /\ ~Over(c)
NextStep(c) == Steps(c)[call[c].at]
AtStep(c, op) == Running(c) /\ NextStep(c).op = op
Onwards(c) == call' = [call EXCEPT ![c].at = @ + 1, ![c].gone = {}]

-----------------------------------------------------------------------------
(* The handlers. *)

Begin(c, kind) ==
  /\ ~Begun(c)
  /\ call' = [call EXCEPT ![c].kind = kind]
  /\ UNCHANGED <<stored, online, faults, cache, reader, evicted, missed>>

SaveWrite(c) ==
  /\ AtStep(c, "save")
  /\ stored' = stored \cup {<<c, NextStep(c).part>>}
  /\ Onwards(c)
  /\ UNCHANGED <<online, faults, cache, reader, evicted, missed>>

\* logEvent rethrows: a handler whose audit entry fails ends there, without
\* its evictions and events.
LogEvent(c) ==
  /\ AtStep(c, "audit")
  /\ \/ Onwards(c)
     \/ call' = [call EXCEPT ![c].failed = TRUE]
  /\ UNCHANGED <<stored, online, faults, cache, reader, evicted, missed>>

\* RedisService.del: in Redis if it answers, and always in memory.
del(key) ==
  cache' = [s \in Store |-> [cache[s] EXCEPT ![key] =
              IF s = "redis" /\ ~online THEN @ ELSE None]]

\* One of the deletions of an invalidation; they are sent together, and
\* complete one by one.  A fill of the same key that is under way has raced it.
Evict(c, key) ==
  /\ AtStep(c, "evict")
  /\ key \in NextStep(c).keys \ call[c].gone
  /\ del(key)
  /\ IF call[c].gone \cup {key} = NextStep(c).keys
     THEN Onwards(c)
     ELSE call' = [call EXCEPT ![c].gone = @ \cup {key}]
  /\ evicted' = [evicted EXCEPT ![key] = @ \cup {c}]
  /\ missed' = [missed EXCEPT ![key] = IF online THEN @ ELSE @ \cup {c}]
  /\ reader' = [r \in Reader |->
       IF reader[r].step = "reading" /\ reader[r].query = key
       THEN [reader[r] EXCEPT !.raced = @ \cup {c}] ELSE reader[r]]
  /\ UNCHANGED <<stored, online, faults>>

\* The event itself is the business of LiveView.
EmitEvent(c) ==
  /\ AtStep(c, "emit")
  /\ Onwards(c)
  /\ UNCHANGED <<stored, online, faults, cache, reader, evicted, missed>>

-----------------------------------------------------------------------------
(* The reads: findOne and getOverview, and the lists. *)

Home == IF online THEN "redis" ELSE "memory"

\* The parts a query may read now.  findOne loads the incident, then what goes
\* with it, then the related incidents; the queries of getOverview run at once.
Readable(r) ==
  LET left == reader[r].unread IN
  IF reader[r].query = "overview" THEN left
  ELSE IF "incident" \in left THEN {"incident"}
  ELSE IF "lists" \in left THEN {"lists"} ELSE left

Ask(r, query) ==
  /\ reader[r].step = "idle"
  /\ reader' = [reader EXCEPT ![r] = [Idle EXCEPT !.step = "lookup", !.query = query]]
  /\ UNCHANGED <<stored, call, online, faults, cache, evicted, missed>>

\* RedisService.get: a miss in Redis is a miss, the memory is for its errors.
Lookup(r) ==
  LET query == reader[r].query
      found == query \in CacheKey /\ cache[Home][query] # None IN
  /\ reader[r].step = "lookup"
  /\ reader' = [reader EXCEPT ![r] =
       IF found
       THEN [@ EXCEPT !.step = "answered", !.shows = cache[Home][query].shows,
                      !.raced = cache[Home][query].raced \cup
                                (IF online THEN missed[query] ELSE {})]
       ELSE [@ EXCEPT !.step = "reading", !.unread = Part]]
  /\ UNCHANGED <<stored, call, online, faults, cache, evicted, missed>>

Read(r, part) ==
  /\ reader[r].step = "reading"
  /\ part \in Readable(r)
  /\ reader' = [reader EXCEPT ![r].unread = @ \ {part},
                              ![r].shows = @ \cup {w \in stored : w[2] = part}]
  /\ UNCHANGED <<stored, call, online, faults, cache, evicted, missed>>

\* Mistake: the entry is stored without a time to live.
setForEver(key, shows, raced) == [shows |-> shows, raced |-> raced, ttl |-> FALSE]

\* RedisService.set, with the time to live of CACHE_TTLS.
set(key, shows, raced) == [shows |-> shows, raced |-> raced, ttl |-> TRUE]

Fill(r) ==
  LET query == reader[r].query IN
  /\ reader[r].step = "reading"
  /\ reader[r].unread = {}
  /\ cache' = IF query \notin CacheKey THEN cache
              ELSE [cache EXCEPT ![Home][query] =
                      set(query, reader[r].shows, reader[r].raced)]
  /\ reader' = [reader EXCEPT ![r].step = "answered"]
  /\ UNCHANGED <<stored, call, online, faults, evicted, missed>>

\* The client has its answer.
Answer(r) ==
  /\ reader[r].step = "answered"
  /\ reader' = [reader EXCEPT ![r] = Idle]
  /\ UNCHANGED <<stored, call, online, faults, cache, evicted, missed>>

-----------------------------------------------------------------------------
(* Time and faults. *)

\* An entry outlives its 15 or 30 seconds: Redis drops it, and get drops what
\* it finds in memory.
Expire(store, key) ==
  /\ cache[store][key] # None
  /\ cache[store][key].ttl
  /\ cache' = [cache EXCEPT ![store][key] = None]
  /\ UNCHANGED <<stored, call, online, faults, reader, evicted, missed>>

LoseRedis ==
  /\ online
  /\ faults < MaxFaults
  /\ online' = FALSE
  /\ faults' = faults + 1
  /\ UNCHANGED <<stored, call, cache, reader, evicted, missed>>

\* One of the three attempts of retryStrategy succeeds; it may also give up.
RegainRedis ==
  /\ ~online
  /\ online' = TRUE
  /\ UNCHANGED <<stored, call, faults, cache, reader, evicted, missed>>

\* The process dies and starts anew: handlers and reads end where they are.
Crash ==
  /\ faults < MaxFaults
  /\ faults' = faults + 1
  /\ online' = TRUE
  /\ call' = [c \in Change |-> IF Running(c) THEN [call[c] EXCEPT !.failed = TRUE]
                               ELSE call[c]]
  /\ cache' = [cache EXCEPT !["memory"] = [key \in CacheKey |-> None]]
  /\ reader' = [r \in Reader |-> Idle]
  /\ UNCHANGED <<stored, evicted, missed>>

-----------------------------------------------------------------------------
CacheInit ==
  /\ stored = {}
  /\ call = [c \in Change |-> NotCalled]
  /\ online = TRUE
  /\ faults = 0
  /\ cache = [s \in Store |-> [key \in CacheKey |-> None]]
  /\ reader = [r \in Reader |-> Idle]
  /\ evicted = [key \in CacheKey |-> {}]
  /\ missed = [key \in CacheKey |-> {}]

HandlerStep(c) == SaveWrite(c) \/ LogEvent(c) \/ (\E key \in CacheKey : Evict(c, key))
ReaderStep(r)  == Lookup(r) \/ (\E part \in Part : Read(r, part)) \/ Fill(r)

CacheNext ==
  \/ \E c \in Change : \/ \E kind \in Kind : Begin(c, kind)
                       \/ HandlerStep(c)
                       \/ EmitEvent(c)
  \/ \E r \in Reader : \/ \E query \in CacheKey : Ask(r, query)
                       \/ ReaderStep(r)
                       \/ Answer(r)
  \/ \E s \in Store, key \in CacheKey : Expire(s, key)
  \/ LoseRedis
  \/ RegainRedis
  \/ Crash

CacheSpec == CacheInit /\ [][CacheNext]_cacheVars

\* Node resumes the handlers and reads it has begun, and entries run out.
CacheFairness ==
  /\ \A c \in Change : WF_cacheVars(HandlerStep(c) \/ EmitEvent(c))
  /\ \A r \in Reader : WF_cacheVars(ReaderStep(r) \/ Answer(r))
  /\ \A s \in Store, key \in CacheKey : WF_cacheVars(Expire(s, key))

FairCacheSpec == CacheSpec /\ CacheFairness

-----------------------------------------------------------------------------
(* Properties. *)

Entry == [shows : SUBSET Write, raced : SUBSET Change, ttl : BOOLEAN]

Position == [kind : Kind \cup {None}, at : Nat \ {0}, gone : SUBSET CacheKey,
             failed : BOOLEAN]
Reading == [step : {"idle", "lookup", "reading", "answered"}, query : Query \cup {None},
            unread : SUBSET Part, shows : SUBSET Write, raced : SUBSET Change]

\* Type correctness of the stores, the handlers and the reads.
CacheTypeOK ==
  /\ stored \subseteq Write
  /\ call \in [Change -> Position]
  /\ online \in BOOLEAN
  /\ faults \in 0..MaxFaults
  /\ cache \in [Store -> [CacheKey -> Entry \cup {None}]]
  /\ reader \in [Reader -> Reading]
  /\ evicted \in [CacheKey -> SUBSET Change]
  /\ missed \in [CacheKey -> SUBSET Change]

WritesOf(c) == {w \in stored : w[1] = c}

\* What a change has evicted stays evicted: no store keeps an answer without
\* the writes of a change whose eviction is over, but for the two ways the
\* code knows of, a fill that was under way during the eviction, and a copy in
\* Redis that could not be reached.  (del of both stores, the order of save and
\* eviction in every handler, and the fills of findOne and getOverview.)
EvictionSticks ==
  \A s \in Store, key \in CacheKey :
    cache[s][key] # None =>
      \A c \in evicted[key] :
        \/ WritesOf(c) \subseteq cache[s][key].shows
        \/ c \in cache[s][key].raced
        \/ s = "redis" /\ c \in missed[key]

\* Whatever was raced, missed, not evicted for want of an audit entry, or never
\* evicted by its handler (a repeated report, an investigation asked for, a
\* failed job), the caches tell the truth in the end and keep telling it,
\* once changes stop: every entry has a time to live.
CachesSettle ==
  <>[](\A s \in Store, key \in CacheKey :
         cache[s][key] # None => stored \subseteq cache[s][key].shows)
=============================================================================
