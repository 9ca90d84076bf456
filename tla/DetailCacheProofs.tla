------------------------- MODULE DetailCacheProofs -------------------------
(***************************************************************************)
(* Proofs about DetailCache: type correctness, and that what a change has  *)
(* evicted stays evicted, for any number of changes, reads and faults.     *)
(***************************************************************************)
EXTENDS DetailCache, TLAPS

-----------------------------------------------------------------------------
(* The plans. *)

\* A plan saves parts that exist, and nothing after its first eviction.
SavesFirst(plan) ==
  /\ Len(plan) \in Nat
  /\ \A n \in 1..Len(plan) : plan[n].op = "save" =>
       /\ plan[n].part \in Part
       /\ \A m \in 1..n : plan[m].op # "evict"

\* What the steps of a plan do.
LEMMA StepKinds ==
  /\ \A part : Save(part).op = "save" /\ Save(part).part = part
  /\ Audit.op = "audit"
  /\ invalidateIncident.op = "evict" /\ invalidateDashboard.op = "evict"
  /\ \A event : Emit(event).op = "emit" /\ EmitOther(event).op = "emit"
BY DEF Save, Audit, EvictKeys, Emit, EmitOther, EmitTo, invalidateIncident,
       invalidateDashboard

\* Every handler evicts after its last save.
LEMMA PlansSaveFirst == \A kind \in DOMAIN Plan : SavesFirst(Plan[kind])
<1>1. SavesFirst(createIncident)
  BY StepKinds DEF SavesFirst, Part, createIncident
<1>2. SavesFirst(updateIncident)
  BY StepKinds DEF SavesFirst, Part, updateIncident
<1>3. SavesFirst(changeStatus)
  BY StepKinds DEF SavesFirst, Part, changeStatus
<1>4. SavesFirst(changeSeverity)
  BY StepKinds DEF SavesFirst, Part, changeSeverity
<1>5. SavesFirst(assign)
  BY StepKinds DEF SavesFirst, Part, assign
<1>6. SavesFirst(changeOther)
  BY StepKinds DEF SavesFirst, Part, changeOther
<1>7. SavesFirst(mergeIncident)
  BY StepKinds DEF SavesFirst, Part, mergeIncident
<1>8. SavesFirst(createComment)
  BY StepKinds DEF SavesFirst, Part, createComment
<1>9. SavesFirst(createTask)
  BY StepKinds DEF SavesFirst, Part, createTask
<1>10. SavesFirst(updateTask)
  BY StepKinds DEF SavesFirst, Part, updateTask
<1>11. SavesFirst(deleteTask)
  BY StepKinds DEF SavesFirst, Part, deleteTask
<1>12. SavesFirst(repeatReport)
  BY StepKinds DEF SavesFirst, Part, repeatReport
<1>13. SavesFirst(escalate)
  BY StepKinds DEF SavesFirst, Part, escalate
<1>14. SavesFirst(correlate)
  BY StepKinds DEF SavesFirst, Part, correlate
<1>15. SavesFirst(spawn)
  BY StepKinds DEF SavesFirst, Part, spawn
<1>16. SavesFirst(associate)
  BY StepKinds DEF SavesFirst, Part, associate
<1>17. SavesFirst(unassociate)
  BY StepKinds DEF SavesFirst, Part, unassociate
<1>18. SavesFirst(investigate)
  BY StepKinds DEF SavesFirst, Part, investigate
<1>19. SavesFirst(complete)
  BY StepKinds DEF SavesFirst, Part, complete
<1>20. SavesFirst(failJob)
  BY StepKinds DEF SavesFirst, Part, failJob
<1>21. SavesFirst(approveAction)
  BY StepKinds DEF SavesFirst, Part, approveAction
<1>22. SavesFirst(rejectAction)
  BY StepKinds DEF SavesFirst, Part, rejectAction
<1>23. SavesFirst(changeTeam)
  BY StepKinds DEF SavesFirst, Part, changeTeam
<1> QED
  BY <1>1, <1>2, <1>3, <1>4, <1>5, <1>6, <1>7, <1>8, <1>9, <1>10, <1>11, <1>12, <1>13, <1>14, <1>15, <1>16, <1>17, <1>18, <1>19, <1>20, <1>21, <1>22, <1>23 DEF Plan

\* A handler under way stands at a step of its plan.
LEMMA StepInPlan ==
  ASSUME CacheTypeOK, NEW c \in Change, Running(c)
  PROVE  /\ SavesFirst(Steps(c))
         /\ call[c].at \in 1..Len(Steps(c))
<1>1. call[c].kind \in DOMAIN Plan /\ call[c].at \in Nat \ {0}
  BY KindAssumption DEF CacheTypeOK, Position, Running, Begun
<1>2. SavesFirst(Steps(c))
  BY <1>1, PlansSaveFirst DEF Steps
<1>3. ~(call[c].at > Len(Steps(c)))
  BY DEF Running, Over
<1> QED  BY <1>1, <1>2, <1>3 DEF SavesFirst

-----------------------------------------------------------------------------
(* Type correctness. *)

\* The initial state is well typed.
LEMMA CacheTypeInit == CacheInit => CacheTypeOK
  BY FaultAssumption
  DEF CacheInit, CacheTypeOK, NotCalled, Idle, Store, CacheKey, Query, Position, Reading

\* A handler that goes on, fails or begins keeps a well-formed position.
LEMMA PositionType ==
  ASSUME NEW p \in Position
  PROVE  /\ [p EXCEPT !.at = @ + 1, !.gone = {}] \in Position
         /\ [p EXCEPT !.failed = TRUE] \in Position
         /\ \A key \in CacheKey : [p EXCEPT !.gone = @ \cup {key}] \in Position
         /\ \A kind \in Kind : [p EXCEPT !.kind = kind] \in Position
<1>1. p.at + 1 \in Nat \ {0}
  BY DEF Position
<1> QED  BY <1>1 DEF Position

\* Every step of a read keeps it well formed.
LEMMA ReadingType ==
  ASSUME NEW r \in Reading
  PROVE  /\ Idle \in Reading
         /\ \A query \in CacheKey :
              [Idle EXCEPT !.step = "lookup", !.query = query] \in Reading
         /\ [r EXCEPT !.step = "answered"] \in Reading
         /\ \A shows \in SUBSET Write, raced \in SUBSET Change :
              [r EXCEPT !.step = "answered", !.shows = shows, !.raced = raced] \in Reading
         /\ [r EXCEPT !.step = "reading", !.unread = Part] \in Reading
         /\ \A part \in Part, shows \in SUBSET Write :
              [r EXCEPT !.unread = @ \ {part}, !.shows = @ \cup shows] \in Reading
         /\ \A c \in Change : [r EXCEPT !.raced = @ \cup {c}] \in Reading
<1>1. Idle \in Reading
  BY DEF Idle, Reading
<1>2. ASSUME NEW query \in CacheKey
      PROVE  [Idle EXCEPT !.step = "lookup", !.query = query] \in Reading
  BY DEF Idle, Reading, Query
<1>3. [r EXCEPT !.step = "answered"] \in Reading
  BY DEF Reading
<1>4. ASSUME NEW shows \in SUBSET Write, NEW raced \in SUBSET Change
      PROVE  [r EXCEPT !.step = "answered", !.shows = shows, !.raced = raced] \in Reading
  BY DEF Reading
<1>5. [r EXCEPT !.step = "reading", !.unread = Part] \in Reading
  BY DEF Reading
<1>6. ASSUME NEW part \in Part, NEW shows \in SUBSET Write
      PROVE  [r EXCEPT !.unread = @ \ {part}, !.shows = @ \cup shows] \in Reading
  BY DEF Reading
<1>7. ASSUME NEW c \in Change PROVE [r EXCEPT !.raced = @ \cup {c}] \in Reading
  BY DEF Reading
<1> QED  BY <1>1, <1>2, <1>3, <1>4, <1>5, <1>6, <1>7

\* Every step keeps the state well typed.
LEMMA CacheTypeNext == CacheTypeOK /\ [CacheNext]_cacheVars => CacheTypeOK'
<1> SUFFICES ASSUME CacheTypeOK, [CacheNext]_cacheVars PROVE CacheTypeOK'
  OBVIOUS
<1> USE DEF CacheTypeOK
<1>1. ASSUME NEW c \in Change, NEW kind \in Kind, Begin(c, kind) PROVE CacheTypeOK'
  BY <1>1, PositionType DEF Begin
<1>2. ASSUME NEW c \in Change, SaveWrite(c) PROVE CacheTypeOK'
  <2>1. NextStep(c).part \in Part
    BY <1>2, StepInPlan DEF SaveWrite, AtStep, NextStep, SavesFirst
  <2>2. stored' \subseteq Write
    BY <1>2, <2>1 DEF SaveWrite, Write
  <2>3. call' \in [Change -> Position]
    BY <1>2, PositionType DEF SaveWrite, Onwards
  <2> QED  BY <1>2, <2>2, <2>3 DEF SaveWrite
<1>3. ASSUME NEW c \in Change, LogEvent(c) PROVE CacheTypeOK'
  <2>1. CASE Onwards(c)
    BY <1>3, <2>1, PositionType DEF LogEvent, Onwards
  <2>2. CASE call' = [call EXCEPT ![c].failed = TRUE]
    BY <1>3, <2>2, PositionType DEF LogEvent
  <2> QED  BY <1>3, <2>1, <2>2 DEF LogEvent
<1>4. ASSUME NEW c \in Change, NEW key \in CacheKey, Evict(c, key) PROVE CacheTypeOK'
  <2>1. call' \in [Change -> Position]
    <3>1. CASE Onwards(c)
      BY <3>1, PositionType DEF Onwards
    <3>2. CASE call' = [call EXCEPT ![c].gone = @ \cup {key}]
      BY <3>2, PositionType
    <3> QED  BY <1>4, <3>1, <3>2 DEF Evict
  <2>2. cache' \in [Store -> [CacheKey -> Entry \cup {None}]]
    BY <1>4 DEF Evict, del
  <2>3. reader' \in [Reader -> Reading]
    BY <1>4, ReadingType DEF Evict
  <2>4. evicted' \in [CacheKey -> SUBSET Change] /\ missed' \in [CacheKey -> SUBSET Change]
    BY <1>4 DEF Evict
  <2> QED  BY <1>4, <2>1, <2>2, <2>3, <2>4 DEF Evict
<1>5. ASSUME NEW c \in Change, EmitEvent(c) PROVE CacheTypeOK'
  BY <1>5, PositionType DEF EmitEvent, Onwards
<1>6. ASSUME NEW r \in Reader, NEW query \in CacheKey, Ask(r, query) PROVE CacheTypeOK'
  BY <1>6, ReadingType DEF Ask
<1>7. ASSUME NEW r \in Reader, Lookup(r) PROVE CacheTypeOK'
  <2> DEFINE query == reader[r].query
             entry == cache[Home][query]
             old   == IF online THEN missed[query] ELSE {}
  <2>1. CASE query \in CacheKey /\ entry # None
    <3>1. entry \in Entry /\ old \subseteq Change
      BY <2>1 DEF Home, Store
    <3>2. entry.shows \in SUBSET Write /\ entry.raced \cup old \in SUBSET Change
      BY <3>1 DEF Entry
    <3>3. reader' = [reader EXCEPT ![r] = [@ EXCEPT !.step = "answered",
                       !.shows = entry.shows, !.raced = entry.raced \cup old]]
      BY <1>7, <2>1 DEF Lookup
    <3>4. reader' \in [Reader -> Reading]
      BY <3>2, <3>3, ReadingType
    <3> QED  BY <1>7, <3>4 DEF Lookup
  <2>2. CASE ~(query \in CacheKey /\ entry # None)
    <3>1. reader' = [reader EXCEPT ![r] = [@ EXCEPT !.step = "reading", !.unread = Part]]
      BY <1>7, <2>2 DEF Lookup
    <3>2. reader' \in [Reader -> Reading]
      BY <3>1, ReadingType
    <3> QED  BY <1>7, <3>2 DEF Lookup
  <2> QED  BY <2>1, <2>2
<1>8. ASSUME NEW r \in Reader, NEW part \in Part, Read(r, part) PROVE CacheTypeOK'
  <2> DEFINE found == {w \in stored : w[2] = part}
  <2>1. found \in SUBSET Write
    OBVIOUS
  <2>2. [reader[r] EXCEPT !.unread = @ \ {part}, !.shows = @ \cup found] \in Reading
    BY <2>1, ReadingType
  <2>3. reader' \in [Reader -> Reading]
    BY <1>8, <2>2 DEF Read
  <2> QED  BY <1>8, <2>3 DEF Read
<1>9. ASSUME NEW r \in Reader, Fill(r) PROVE CacheTypeOK'
  <2>1. cache' \in [Store -> [CacheKey -> Entry \cup {None}]]
    <3>1. set(reader[r].query, reader[r].shows, reader[r].raced) \in Entry
      BY DEF set, Entry, Reading
    <3> QED  BY <1>9, <3>1 DEF Fill, Home, Store
  <2>2. reader' \in [Reader -> Reading]
    BY <1>9, ReadingType DEF Fill
  <2> QED  BY <1>9, <2>1, <2>2 DEF Fill
<1>10. ASSUME NEW r \in Reader, Answer(r) PROVE CacheTypeOK'
  BY <1>10, ReadingType DEF Answer
<1>11. ASSUME NEW s \in Store, NEW key \in CacheKey, Expire(s, key) PROVE CacheTypeOK'
  BY <1>11 DEF Expire
<1>12. CASE LoseRedis
  <2>1. faults' \in 0..MaxFaults
    BY <1>12, FaultAssumption DEF LoseRedis
  <2> QED  BY <1>12, <2>1 DEF LoseRedis
<1>13. CASE RegainRedis
  BY <1>13 DEF RegainRedis
<1>14. CASE Crash
  <2>1. call' \in [Change -> Position]
    BY <1>14, PositionType DEF Crash
  <2>2. cache' \in [Store -> [CacheKey -> Entry \cup {None}]]
    BY <1>14 DEF Crash, Store
  <2>3. reader' \in [Reader -> Reading]
    BY <1>14, ReadingType DEF Crash
  <2>4. faults' \in 0..MaxFaults
    BY <1>14, FaultAssumption DEF Crash
  <2> QED  BY <1>14, <2>1, <2>2, <2>3, <2>4 DEF Crash
<1>15. CASE UNCHANGED cacheVars
  BY <1>15 DEF cacheVars
<1> HIDE DEF CacheTypeOK
<1> QED
  BY <1>1, <1>2, <1>3, <1>4, <1>5, <1>6, <1>7, <1>8, <1>9, <1>10, <1>11, <1>12, <1>13,
     <1>14, <1>15 DEF CacheNext, HandlerStep, ReaderStep

\* Stores, handlers and reads are well formed at all times, for any number of
\* changes, reads and faults (RedisService and the handlers of the back end).
THEOREM CacheTypeCorrect == CacheSpec => []CacheTypeOK
<1> QED  BY CacheTypeInit, CacheTypeNext, PTL DEF CacheSpec

-----------------------------------------------------------------------------
(* Evictions.  EvictionSticks is not inductive: the entry a read fills is as *)
(* good as what the read has read, and what it has read is as good as the    *)
(* promise that a change saves nothing after its first eviction.             *)

PastEviction(c) ==
  /\ Begun(c)
  /\ \E m \in 1..call[c].at : m <= Len(Steps(c)) /\ Steps(c)[m].op = "evict"

EvictedPast == \A key \in CacheKey : \A c \in evicted[key] : PastEviction(c)

\* Of the parts a read has read it shows every write of a change whose eviction
\* is over, unless the eviction came while it read.
ReadSo(r) ==
  \A c \in evicted[reader[r].query] :
    \/ c \in reader[r].raced
    \/ \A w \in WritesOf(c) : w[2] \in reader[r].unread \/ w \in reader[r].shows

ReadsWhole ==
  \A r \in Reader : reader[r].step = "reading" /\ reader[r].query \in CacheKey => ReadSo(r)

CacheInv == EvictedPast /\ ReadsWhole /\ EvictionSticks

\* Nothing is cached or evicted at first.
LEMMA CacheInvInit == CacheInit => CacheInv
  BY DEF CacheInit, CacheInv, EvictedPast, ReadsWhole, EvictionSticks, Idle

\* A handler that is about to save has evicted nothing yet.
LEMMA SaverEvictedNothing ==
  ASSUME CacheTypeOK, EvictedPast, NEW c \in Change, AtStep(c, "save"), NEW key \in CacheKey
  PROVE  c \notin evicted[key]
<1> SUFFICES ASSUME PastEviction(c) PROVE FALSE
  BY DEF EvictedPast
<1>1. SavesFirst(Steps(c)) /\ call[c].at \in 1..Len(Steps(c))
  BY StepInPlan DEF AtStep
<1>2. Steps(c)[call[c].at].op = "save"
  BY DEF AtStep, NextStep
<1>3. \A m \in 1..call[c].at : Steps(c)[m].op # "evict"
  BY <1>1, <1>2 DEF SavesFirst
<1> QED  BY <1>3 DEF PastEviction

\* A change keeps its kind once it has begun, and never goes back.
LEMMA GoesOn ==
  ASSUME CacheTypeOK, NEW d \in Change, PastEviction(d),
         call'[d].kind = call[d].kind, call'[d].at \in Nat, call'[d].at >= call[d].at
  PROVE  PastEviction(d)'
<1>1. call[d].at \in Nat
  BY DEF CacheTypeOK, Position
<1>2. PICK m \in 1..call[d].at : m <= Len(Steps(d)) /\ Steps(d)[m].op = "evict"
  BY DEF PastEviction
<1>3. m \in 1..(call'[d].at)
  BY <1>1, <1>2
<1>4. Steps(d)' = Steps(d)
  BY DEF Steps
<1> QED  BY <1>2, <1>3, <1>4 DEF PastEviction, Begun

\* No step takes a change back.
LEMMA NeverBack ==
  ASSUME CacheTypeOK, [CacheNext]_cacheVars, NEW d \in Change, Begun(d)
  PROVE  /\ call'[d].kind = call[d].kind
         /\ call'[d].at \in Nat
         /\ call'[d].at >= call[d].at
<1>1. call[d].at \in Nat \ {0} /\ call \in [Change -> Position]
  BY DEF CacheTypeOK, Position
<1>2. ASSUME NEW c \in Change, NEW kind \in Kind, Begin(c, kind)
      PROVE  call'[d] = call[d]
  BY <1>1, <1>2 DEF Begin
<1>3. ASSUME NEW c \in Change, Onwards(c)
      PROVE  call'[d].kind = call[d].kind /\ call'[d].at \in {call[d].at, call[d].at + 1}
  BY <1>1, <1>3 DEF Onwards, Position
<1>4. ASSUME NEW c \in Change, SaveWrite(c) \/ LogEvent(c) \/ EmitEvent(c)
               \/ \E key \in CacheKey : Evict(c, key)
      PROVE  call'[d].kind = call[d].kind /\ call'[d].at \in {call[d].at, call[d].at + 1}
  <2>1. CASE Onwards(c)
    BY <1>3, <2>1
  <2>2. CASE call' = [call EXCEPT ![c].failed = TRUE]
    BY <1>1, <2>2 DEF Position
  <2>3. ASSUME NEW key \in CacheKey, call' = [call EXCEPT ![c].gone = @ \cup {key}]
        PROVE  call'[d].kind = call[d].kind /\ call'[d].at = call[d].at
    BY <1>1, <2>3 DEF Position
  <2> QED  BY <1>4, <2>1, <2>2, <2>3 DEF SaveWrite, LogEvent, EmitEvent, Evict
<1>5. CASE Crash
  BY <1>1, <1>5 DEF Crash, Position
<1>6. CASE call' = call
  BY <1>1, <1>6
<1>7. ASSUME NEW r \in Reader,
             (\E query \in CacheKey : Ask(r, query)) \/ ReaderStep(r) \/ Answer(r)
      PROVE  call' = call
  BY <1>7 DEF Ask, ReaderStep, Lookup, Read, Fill, Answer
<1>8. ASSUME (\E s \in Store, key \in CacheKey : Expire(s, key))
               \/ LoseRedis \/ RegainRedis \/ UNCHANGED cacheVars
      PROVE  call' = call
  BY <1>8 DEF Expire, LoseRedis, RegainRedis, cacheVars
<1> QED
  BY <1>1, <1>2, <1>4, <1>5, <1>6, <1>7, <1>8 DEF CacheNext, HandlerStep

\* A change that has evicted a key is past an eviction of its plan, and stays so.
LEMMA EvictedPastNext ==
  CacheTypeOK /\ EvictedPast /\ [CacheNext]_cacheVars => EvictedPast'
<1> SUFFICES ASSUME CacheTypeOK, EvictedPast, [CacheNext]_cacheVars,
                    NEW key \in CacheKey, NEW d \in evicted'[key]
             PROVE  PastEviction(d)'
  BY DEF EvictedPast
<1>1. ASSUME d \in evicted[key] PROVE PastEviction(d)'
  <2>1. d \in Change /\ PastEviction(d)
    BY <1>1 DEF EvictedPast, CacheTypeOK
  <2> QED  BY <2>1, NeverBack, GoesOn DEF PastEviction
<1>2. ASSUME NEW c \in Change, NEW gone \in CacheKey, Evict(c, gone), d = c
      PROVE  PastEviction(d)'
  <2>1. call[c].at \in 1..Len(Steps(c)) /\ Steps(c)[call[c].at].op = "evict" /\ Begun(c)
    BY <1>2, StepInPlan DEF Evict, AtStep, NextStep, Running
  <2>2. call[c].at \in Nat \ {0}
    BY DEF CacheTypeOK, Position
  <2>3. call'[c].kind = call[c].kind /\ call'[c].at \in Nat /\ call'[c].at >= call[c].at
    BY <2>1, NeverBack
  <2>4. Len(Steps(c)) \in Nat
    BY <1>2, StepInPlan DEF Evict, AtStep, SavesFirst
  <2>5. PastEviction(c)
    BY <2>1, <2>2, <2>4 DEF PastEviction
  <2> QED  BY <1>2, <2>3, <2>5, GoesOn
<1>3. d \in evicted[key] \/ \E c \in Change, gone \in CacheKey : Evict(c, gone) /\ d = c
  <2>1. ASSUME NEW c \in Change, NEW gone \in CacheKey, Evict(c, gone)
        PROVE  d \in evicted[key] \/ d = c
    BY <2>1 DEF Evict, CacheTypeOK
  <2>2. CASE UNCHANGED evicted
    BY <2>2
  <2>3. (\E c \in Change, gone \in CacheKey : Evict(c, gone)) \/ UNCHANGED evicted
    BY DEF CacheNext, HandlerStep, ReaderStep, Begin, SaveWrite, LogEvent, EmitEvent, Ask,
           Lookup, Read, Fill, Answer, Expire, LoseRedis, RegainRedis, Crash, cacheVars
  <2> QED  BY <2>1, <2>2, <2>3
<1> QED  BY <1>1, <1>2, <1>3

\* Reads and stores see no write that they did not see before.
LEMMA SameWrites ==
  ASSUME CacheTypeOK, EvictedPast, [CacheNext]_cacheVars, NEW key \in CacheKey,
         NEW d \in evicted[key]
  PROVE  WritesOf(d)' = WritesOf(d)
<1>1. ASSUME NEW c \in Change, SaveWrite(c) PROVE WritesOf(d)' = WritesOf(d)
  <2>1. d # c
    BY <1>1, SaverEvictedNothing DEF SaveWrite
  <2> QED  BY <1>1, <2>1 DEF SaveWrite, WritesOf
<1>2. (\E c \in Change : SaveWrite(c)) \/ UNCHANGED stored
  BY DEF CacheNext, HandlerStep, ReaderStep, Begin, Evict, LogEvent, EmitEvent, Ask,
         Lookup, Read, Fill, Answer, Expire, LoseRedis, RegainRedis, Crash, cacheVars
<1> QED  BY <1>1, <1>2 DEF WritesOf

\* A read in progress keeps showing the writes of the changes that evicted before it.
LEMMA ReadsWholeNext ==
  CacheTypeOK /\ EvictedPast /\ ReadsWhole /\ [CacheNext]_cacheVars => ReadsWhole'
<1> SUFFICES ASSUME CacheTypeOK, EvictedPast, ReadsWhole, [CacheNext]_cacheVars,
                    NEW r \in Reader, reader'[r].step = "reading",
                    reader'[r].query \in CacheKey
             PROVE  ReadSo(r)'
  BY DEF ReadsWhole
<1>1. reader \in [Reader -> Reading] /\ evicted \in [CacheKey -> SUBSET Change]
  BY DEF CacheTypeOK
<1>2. ASSUME UNCHANGED <<reader, evicted>> PROVE ReadSo(r)'
  <2>1. ReadSo(r)
    BY <1>2 DEF ReadsWhole
  <2> QED  BY <1>2, <2>1, SameWrites DEF ReadSo
<1>3. ASSUME NEW c \in Change, NEW key \in CacheKey, Evict(c, key) PROVE ReadSo(r)'
  <2> DEFINE racing == reader[r].step = "reading" /\ reader[r].query = key
  <2>1. reader'[r] = IF racing THEN [reader[r] EXCEPT !.raced = @ \cup {c}] ELSE reader[r]
    BY <1>3 DEF Evict
  <2>2. /\ reader'[r].step = reader[r].step
        /\ reader'[r].query = reader[r].query
        /\ reader'[r].unread = reader[r].unread
        /\ reader'[r].shows = reader[r].shows
        /\ reader'[r].raced = IF racing THEN reader[r].raced \cup {c} ELSE reader[r].raced
    BY <1>1, <2>1 DEF Reading
  <2>3. ReadSo(r)
    BY <2>2 DEF ReadsWhole
  <2>4. evicted'[reader[r].query] =
          IF racing THEN evicted[key] \cup {c} ELSE evicted[reader[r].query]
    BY <1>1, <1>3, <2>2 DEF Evict
  <2> QED  BY <2>2, <2>3, <2>4, SameWrites DEF ReadSo
<1>4. ASSUME NEW s \in Reader, Lookup(s) PROVE ReadSo(r)'
  <2>1. CASE r # s
    <3>1. reader'[r] = reader[r] /\ ReadSo(r)
      BY <1>1, <1>4, <2>1 DEF Lookup, ReadsWhole
    <3> QED  BY <1>4, <2>1, <3>1, SameWrites DEF Lookup, ReadSo
  <2>2. CASE r = s
    <3>1. reader'[r].unread = Part
      BY <1>1, <1>4, <2>2 DEF Lookup, Reading
    <3>2. \A w \in stored : w[2] \in Part
      BY DEF CacheTypeOK, Write
    <3> QED  BY <1>4, <3>1, <3>2 DEF ReadSo, WritesOf, Lookup
  <2> QED  BY <2>1, <2>2
<1>5. ASSUME NEW s \in Reader, NEW part \in Part, Read(s, part) PROVE ReadSo(r)'
  <2>1. reader[r].step = "reading" /\ reader'[r].query = reader[r].query
    BY <1>1, <1>5 DEF Read, Reading
  <2>2. ReadSo(r)
    BY <2>1 DEF ReadsWhole
  <2>3. CASE r # s
    BY <1>1, <1>5, <2>2, <2>3, SameWrites DEF Read, ReadSo
  <2>4. CASE r = s
    <3>1. /\ reader'[r].unread = reader[r].unread \ {part}
          /\ reader'[r].shows = reader[r].shows \cup {w \in stored : w[2] = part}
          /\ reader'[r].raced = reader[r].raced
      BY <1>1, <1>5, <2>4 DEF Read, Reading
    <3>2. UNCHANGED <<stored, evicted>>
      BY <1>5 DEF Read
    <3> QED  BY <2>1, <2>2, <3>1, <3>2 DEF ReadSo, WritesOf
  <2> QED  BY <2>3, <2>4
<1>6. ASSUME NEW s \in Reader, (\E query \in CacheKey : Ask(s, query)) \/ Fill(s) \/ Answer(s)
      PROVE  ReadSo(r)'
  <2>1. reader'[s].step # "reading" /\ \A q \in Reader \ {s} : reader'[q] = reader[q]
    <3>1. ASSUME NEW query \in CacheKey, Ask(s, query) PROVE reader'[s].step = "lookup"
      BY <1>1, <3>1 DEF Ask, Idle
    <3>2. ASSUME Fill(s) PROVE reader'[s].step = "answered"
      BY <1>1, <3>2 DEF Fill, Reading
    <3>3. ASSUME Answer(s) PROVE reader'[s].step = "idle"
      BY <1>1, <3>3 DEF Answer, Idle
    <3>4. \A q \in Reader \ {s} : reader'[q] = reader[q]
      BY <1>1, <1>6 DEF Ask, Fill, Answer
    <3> QED  BY <1>6, <3>1, <3>2, <3>3, <3>4
  <2>2. reader'[r] = reader[r] /\ ReadSo(r)
    BY <2>1 DEF ReadsWhole
  <2>3. UNCHANGED <<stored, evicted>>
    BY <1>6 DEF Ask, Fill, Answer
  <2> QED  BY <2>2, <2>3 DEF ReadSo, WritesOf
<1>7. CASE Crash
  BY <1>1, <1>7 DEF Crash, Idle
<1> QED
  BY <1>2, <1>3, <1>4, <1>5, <1>6, <1>7
  DEF CacheNext, HandlerStep, ReaderStep, Begin, SaveWrite, LogEvent, EmitEvent, Expire,
      LoseRedis, RegainRedis, cacheVars

\* No step caches an answer without the writes of a change that has evicted it,
\* but for the two known ways.
LEMMA EvictionSticksNext ==
  CacheTypeOK /\ CacheInv /\ [CacheNext]_cacheVars => EvictionSticks'
<1> SUFFICES ASSUME CacheTypeOK, EvictedPast, ReadsWhole, EvictionSticks,
                    [CacheNext]_cacheVars,
                    NEW s \in Store, NEW key \in CacheKey, cache'[s][key] # None,
                    NEW d \in evicted'[key]
             PROVE  \/ WritesOf(d)' \subseteq cache'[s][key].shows
                    \/ d \in cache'[s][key].raced
                    \/ s = "redis" /\ d \in missed'[key]
  BY DEF EvictionSticks, CacheInv
<1> DEFINE Sound == \/ WritesOf(d)' \subseteq cache'[s][key].shows
                    \/ d \in cache'[s][key].raced
                    \/ s = "redis" /\ d \in missed'[key]
<1>1. /\ cache \in [Store -> [CacheKey -> Entry \cup {None}]]
      /\ evicted \in [CacheKey -> SUBSET Change] /\ missed \in [CacheKey -> SUBSET Change]
  BY DEF CacheTypeOK
\* An entry that stays is as sound as it was.
<1>2. ASSUME cache'[s][key] = cache[s][key], d \in evicted[key], missed[key] \subseteq missed'[key]
      PROVE  Sound
  BY <1>2, SameWrites DEF EvictionSticks
<1>3. ASSUME NEW c \in Change, NEW gone \in CacheKey, Evict(c, gone) PROVE Sound
  <2>1. cache'[s] = [cache[s] EXCEPT ![gone] = IF s = "redis" /\ ~online THEN @ ELSE None]
    BY <1>3 DEF Evict, del
  <2>2. missed' = [missed EXCEPT ![gone] = IF online THEN @ ELSE @ \cup {c}]
    BY <1>3 DEF Evict
  <2>3. evicted' = [evicted EXCEPT ![gone] = @ \cup {c}]
    BY <1>3 DEF Evict
  <2>4. missed[key] \subseteq missed'[key]
    BY <1>1, <2>2
  <2>5. cache'[s][key] = cache[s][key]
    BY <1>1, <2>1
  <2>6. CASE d \in evicted[key]
    BY <1>2, <2>4, <2>5, <2>6
  <2>7. CASE d \notin evicted[key]
    <3>1. key = gone /\ d = c
      BY <1>1, <2>3, <2>7
    <3>2. s = "redis" /\ ~online
      BY <1>1, <2>1, <3>1
    <3> QED  BY <1>1, <2>2, <3>1, <3>2
  <2> QED  BY <2>6, <2>7
<1>4. ASSUME NEW r \in Reader, Fill(r) PROVE Sound
  <2>1. UNCHANGED <<stored, evicted, missed>>
    BY <1>4 DEF Fill
  <2>2. CASE reader[r].query = key /\ s = Home
    <3>1. cache'[s][key] = set(key, reader[r].shows, reader[r].raced)
      BY <1>1, <1>4, <2>2 DEF Fill
    <3>2. cache'[s][key].shows = reader[r].shows /\ cache'[s][key].raced = reader[r].raced
      BY <3>1 DEF set
    <3>3. ReadSo(r) /\ reader[r].unread = {}
      BY <1>4, <2>2 DEF Fill, ReadsWhole
    <3>4. d \in reader[r].raced \/ WritesOf(d) \subseteq reader[r].shows
      BY <2>1, <2>2, <3>3 DEF ReadSo
    <3> QED  BY <2>1, <3>2, <3>4 DEF WritesOf
  <2>3. CASE ~(reader[r].query = key /\ s = Home)
    <3>1. cache'[s][key] = cache[s][key]
      BY <1>1, <1>4, <2>3 DEF Fill
    <3> QED  BY <1>2, <2>1, <3>1
  <2> QED  BY <2>2, <2>3
<1>5. ASSUME NEW t \in Store, NEW k \in CacheKey, Expire(t, k) PROVE Sound
  <2>1. cache'[s][key] = cache[s][key]
    BY <1>1, <1>5 DEF Expire
  <2> QED  BY <1>2, <1>5, <2>1 DEF Expire
<1>6. CASE Crash
  <2>1. cache'[s][key] = cache[s][key]
    BY <1>1, <1>6 DEF Crash
  <2> QED  BY <1>2, <1>6, <2>1 DEF Crash
<1>7. ASSUME UNCHANGED <<cache, evicted, missed>> PROVE Sound
  BY <1>2, <1>7
<1> QED
  BY <1>3, <1>4, <1>5, <1>6, <1>7
  DEF CacheNext, HandlerStep, ReaderStep, Begin, SaveWrite, LogEvent, EmitEvent, Ask, Lookup,
      Read, Answer, LoseRedis, RegainRedis, cacheVars

\* Every step preserves the invariant.
LEMMA CacheInvNext == CacheTypeOK /\ CacheInv /\ [CacheNext]_cacheVars => CacheInv'
  BY EvictedPastNext, ReadsWholeNext, EvictionSticksNext DEF CacheInv

\* What a change has evicted stays evicted, whatever the number of changes,
\* reads and faults: no handler saves after it has evicted (every plan), a fill
\* knows the evictions that overtook it, and del empties what it can reach
\* (RedisService.del, findOne, getOverview).
THEOREM EvictionsStick == CacheSpec => []EvictionSticks
<1>1. CacheInv => EvictionSticks
  BY DEF CacheInv
<1> QED  BY <1>1, CacheInvInit, CacheInvNext, CacheTypeCorrect, PTL DEF CacheSpec
=============================================================================
