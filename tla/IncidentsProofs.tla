-------------------------- MODULE IncidentsProofs --------------------------
(***************************************************************************)
(* Proofs about Incidents: type correctness, the resolution time of a      *)
(* RESOLVED incident, and the promise of LinkLists; and what a handler     *)
(* does when it starts, for the modules that add handlers.                 *)
(***************************************************************************)
EXTENDS Incidents, FiniteSetTheorems, TLAPS

-----------------------------------------------------------------------------
(* Lemmas about the commands handlers send. *)

\* A handler that keeps its copy well formed, and leaves the version alone,
\* saves with a well-formed command.
LEMMA SavesType ==
  ASSUME NEW i \in DOMAIN incidents, NEW loaded, NEW wanted,
         IsDoc(loaded), IsDoc(wanted), wanted.ver = loaded.ver
  PROVE  IsCommand(Saves(i, loaded, wanted))
<1> DEFINE c == Saves(i, loaded, wanted)
<1>1. c = [doc |-> c.doc, where |-> c.where, set |-> c.set]
  BY DEF Saves, SaveCommand
<1>2. c.doc \in DOMAIN incidents
  BY DEF Saves, SaveCommand
<1>3. c.where \in Nat \cup {AnyVersion}
  BY DEF Saves, SaveCommand, IsDoc
<1>4. Dirty(loaded, wanted) \subseteq Field
  BY DEF Dirty, IsDoc
<1>5. c.set = [f \in Dirty(loaded, wanted) |-> wanted[f]]
  BY DEF Saves, SaveCommand
<1>6. DOMAIN c.set \subseteq Field
  BY <1>4, <1>5
<1>7. \A f \in DOMAIN c.set : c.set[f] \in FieldType[f]
  BY <1>4, <1>5 DEF IsDoc
<1> QED  BY <1>1, <1>2, <1>3, <1>6, <1>7 DEF IsCommand

\* MongoDB turns a well-formed document into a well-formed one.
LEMMA AppliedType ==
  ASSUME NEW d, IsDoc(d), NEW c, IsCommand(c)
  PROVE  IsDoc(Applied(d, c))
<1>1. DOMAIN Applied(d, c) = Field \cup {"ver"}
  BY DEF Applied, IsDoc
<1>2. \A f \in Field : Applied(d, c)[f] \in FieldType[f]
  <2> SUFFICES ASSUME NEW f \in Field PROVE Applied(d, c)[f] \in FieldType[f]
    OBVIOUS
  <2>1. f # "ver"
    BY DEF Field, FieldType
  <2>2. Applied(d, c)[f] = IF f \in DOMAIN c.set THEN c.set[f] ELSE d[f]
    BY <2>1 DEF Applied, IsDoc
  <2> QED  BY <2>2 DEF IsDoc, IsCommand
<1>3. Applied(d, c).ver \in Nat
  <2>1. "ver" \notin Field
    BY DEF Field, FieldType
  <2>2. "ver" \notin DOMAIN c.set
    BY <2>1 DEF IsCommand
  <2>3. Applied(d, c).ver = IF c.where # AnyVersion THEN d.ver + 1 ELSE d.ver
    BY <2>2 DEF Applied, IsDoc
  <2> QED  BY <2>3 DEF IsDoc
<1> QED  BY <1>1, <1>2, <1>3 DEF IsDoc

\* A new incident is well formed.
LEMMA NewIncidentType ==
  ASSUME NEW sev \in Severity, NEW sv \in ServiceList, NEW a \in User \cup {None}
  PROVE  IsDoc(NewIncident(sev, sv, a))
<1> DEFINE d == NewIncident(sev, sv, a)
<1>1. DOMAIN d = Field \cup {"ver"}
  BY DEF NewIncident, Field, FieldType
<1>2. \A f \in Field : d[f] \in FieldType[f]
  BY StatusAssumption
     DEF NewIncident, Field, FieldType, Status, correlationKeyForServices
<1>3. d.ver \in Nat
  BY DEF NewIncident
<1> QED  BY <1>1, <1>2, <1>3 DEF IsDoc

\* A handler may assign a field of a well-formed copy a value of its type.
LEMMA ExceptType ==
  ASSUME NEW d, IsDoc(d), NEW g \in Field, NEW v \in FieldType[g]
  PROVE  /\ IsDoc([d EXCEPT ![g] = v])
         /\ [d EXCEPT ![g] = v].ver = d.ver
<1> DEFINE e == [d EXCEPT ![g] = v]
<1>1. g # "ver"
  BY DEF Field, FieldType
<1>2. DOMAIN e = Field \cup {"ver"}
  BY DEF IsDoc
<1>3. \A f \in Field : e[f] \in FieldType[f]
  BY DEF IsDoc
<1>4. e.ver = d.ver
  BY <1>1 DEF IsDoc
<1> QED  BY <1>2, <1>3, <1>4 DEF IsDoc

\* Sending well-formed commands keeps the state well formed.
LEMMA SendType ==
  ASSUME TypeOK, NEW r \in Request, NEW commands,
         \A c \in commands : IsCommand(c),
         Send(r, commands), UNCHANGED incidents
  PROVE  TypeOK'
<1> USE DEF TypeOK
<1>1. pc' \in [Request -> {"idle"} \cup InFlight \cup Ended]
  BY DEF Send, InFlight
<1>2. /\ held' = [q \in Request |-> held'[q]]
      /\ writes' = [q \in Request |-> writes'[q]]
  BY DEF Send
<1>3. ASSUME NEW q \in Request
      PROVE  IF pc'[q] = "working" THEN IsHeld(held[q])' ELSE held'[q] = None
  <2>1. CASE q = r
    <3>1. pc'[r] # "working" /\ held'[r] = None
      BY DEF Send
    <3> QED  BY <2>1, <3>1
  <2>2. CASE q # r
    <3>1. pc'[q] = pc[q] /\ held'[q] = held[q]
      BY <2>2 DEF Send
    <3> QED  BY <3>1 DEF IsHeld
  <2> QED  BY <2>1, <2>2
<1>4. ASSUME NEW q \in Request, NEW c \in writes'[q]
      PROVE  IsCommand(c)'
  <2>1. IsCommand(c)
    <3>1. CASE q = r
      BY <3>1, <1>4 DEF Send
    <3>2. CASE q # r
      BY <3>2, <1>4 DEF Send
    <3> QED  BY <3>1, <3>2
  <2> QED  BY <2>1 DEF IsCommand
<1> QED  BY <1>1, <1>2, <1>3, <1>4

\* A handler that returns without a change keeps the state well formed.
LEMMA ReturnType ==
  ASSUME TypeOK, NEW r \in Request, NEW answer \in Ended,
         Return(r, answer), UNCHANGED incidents
  PROVE  TypeOK'
<1> USE DEF TypeOK
<1>1. pc' \in [Request -> {"idle"} \cup InFlight \cup Ended]
  BY DEF Return
<1>2. /\ held' = [q \in Request |-> held'[q]]
      /\ writes' = [q \in Request |-> writes'[q]]
  BY DEF Return
<1>3. ASSUME NEW q \in Request
      PROVE  IF pc'[q] = "working" THEN IsHeld(held[q])' ELSE held'[q] = None
  <2>1. CASE q = r
    BY <2>1 DEF Return, Ended
  <2>2. CASE q # r
    <3>1. pc'[q] = pc[q] /\ held'[q] = held[q]
      BY <2>2 DEF Return
    <3> QED  BY <3>1 DEF IsHeld
  <2> QED  BY <2>1, <2>2
<1>4. ASSUME NEW q \in Request, NEW c \in writes'[q]
      PROVE  IsCommand(c)'
  BY <1>4 DEF Return, IsCommand
<1> QED  BY <1>1, <1>2, <1>3, <1>4

\* Field names are not the version.
LEMMA FieldFacts ==
  /\ Field = {"status", "severity", "services", "key", "assignee", "resolvedAt",
              "related", "mergedInto", "tags"}
  /\ FieldType["status"] = Status
  /\ FieldType["severity"] = Severity
  /\ FieldType["services"] = ServiceList
  /\ FieldType["key"] = {Head(l) : l \in ServiceList} \cup Resource
  /\ FieldType["assignee"] = User \cup {None}
  /\ FieldType["resolvedAt"] = Request \cup {None}
  /\ FieldType["related"] = SUBSET Incident
  /\ FieldType["mergedInto"] = Incident \cup {None}
  /\ FieldType["tags"] = SUBSET Tag
BY DEF Field, FieldType

\* Each of the handlers keeps the state well typed.
LEMMA CreateType ==
  ASSUME TypeOK, NEW r \in Request, NEW i \in Incident, NEW sev \in Severity,
         NEW sv \in ServiceList, NEW a \in User \cup {None}, Create(r, i, sev, sv, a)
  PROVE  TypeOK'
<1>1. IsDoc(NewIncident(sev, sv, a))
  BY NewIncidentType
<1>2. /\ DOMAIN incidents' = DOMAIN incidents \cup {i}
      /\ incidents' = [j \in DOMAIN incidents' |-> incidents'[j]]
      /\ \A j \in DOMAIN incidents' : IsDoc(incidents'[j])
  BY <1>1 DEF Create, TypeOK
<1>3. pc' \in [Request -> {"idle"} \cup InFlight \cup Ended]
  BY DEF Create, TypeOK, InFlight
<1>4. \A q \in Request : IF pc'[q] = "working" THEN IsHeld(held[q])'
                                             ELSE held'[q] = None
  <2> SUFFICES ASSUME NEW q \in Request
               PROVE  IF pc'[q] = "working" THEN IsHeld(held[q])' ELSE held'[q] = None
    OBVIOUS
  <2>1. pc'[q] = "working" <=> pc[q] = "working"
    BY DEF Create, TypeOK, Starts
  <2>2. IF pc[q] = "working" THEN IsHeld(held[q]) ELSE held[q] = None
    BY DEF TypeOK
  <2> QED  BY <2>1, <2>2, <1>2 DEF Create, IsHeld
<1>5. \A q \in Request : \A c \in writes'[q] : IsCommand(c)'
  BY <1>2 DEF Create, TypeOK, IsCommand
<1>6. DOMAIN incidents' \subseteq Incident
  BY <1>2 DEF TypeOK
<1> QED  BY <1>2, <1>3, <1>4, <1>5, <1>6 DEF Create, TypeOK

\* PATCH status.
LEMMA ChangeStatusType ==
  ASSUME TypeOK, NEW r \in Request, NEW i \in DOMAIN incidents, NEW s \in Status,
         ChangeStatus(r, i, s)
  PROVE  TypeOK'
<1> DEFINE e == incidents[i]
           w == WithStatus(e, s, r)
<1>1. IsDoc(e)
  BY DEF TypeOK
<1>3. CASE e.status = s
  BY <1>3, ReturnType DEF ChangeStatus, Ended
<1>4. CASE e.status # s
  <2> DEFINE m == [e EXCEPT !["status"] = s]
             v == IF s = Resolved THEN r ELSE None
  <2>1. IsDoc(m) /\ m.ver = e.ver
    BY <1>1, ExceptType, FieldFacts
  <2>a. w = [m EXCEPT !["resolvedAt"] = v]
    BY <1>1 DEF IsDoc, WithStatus
  <2>b. "resolvedAt" \in Field /\ v \in FieldType["resolvedAt"]
    BY FieldFacts
  <2>2. IsDoc(w) /\ w.ver = e.ver
    <3> HIDE DEF m, v, w
    <3> QED  BY <2>1, <2>a, <2>b, ExceptType
  <2>3. IsCommand(Saves(i, e, w))
    BY <1>1, <2>2, SavesType
  <2>4. Send(r, {Saves(i, e, w)}) /\ UNCHANGED incidents
    BY <1>4 DEF ChangeStatus
  <2> HIDE DEF w, e
  <2> QED  BY <2>3, <2>4, SendType
<1> QED  BY <1>3, <1>4

\* PATCH severity.
LEMMA ChangeSeverityType ==
  ASSUME TypeOK, NEW r \in Request, NEW i \in DOMAIN incidents,
         NEW sev \in Severity, ChangeSeverity(r, i, sev)
  PROVE  TypeOK'
<1> DEFINE e == incidents[i]
           w == [e EXCEPT !["severity"] = sev]
<1>1. IsDoc(e)
  BY DEF TypeOK
<1>3. CASE e.severity = sev
  BY <1>3, ReturnType DEF ChangeSeverity, Ended
<1>4. CASE e.severity # sev
  <2>1. IsDoc(w) /\ w.ver = e.ver
    BY <1>1, ExceptType, FieldFacts
  <2>2. IsCommand(Saves(i, e, w))
    BY <1>1, <2>1, SavesType
  <2>3. Send(r, {Saves(i, e, w)}) /\ UNCHANGED incidents
    BY <1>4 DEF ChangeSeverity
  <2> HIDE DEF w, e
  <2> QED  BY <2>2, <2>3, SendType
<1> QED  BY <1>3, <1>4

\* PATCH assign.
LEMMA AssignType ==
  ASSUME TypeOK, NEW r \in Request, NEW i \in DOMAIN incidents,
         NEW a \in User \cup {None}, Assign(r, i, a)
  PROVE  TypeOK'
<1> DEFINE e == incidents[i]
           w == [e EXCEPT !["assignee"] = a]
<1>1. IsDoc(e)
  BY DEF TypeOK
<1>3. CASE ~AssignmentAllowed(Author[r], a, e.assignee)
  BY <1>3, ReturnType DEF Assign, Ended
<1>4. CASE AssignmentAllowed(Author[r], a, e.assignee)
  <2>1. IsDoc(w) /\ w.ver = e.ver
    BY <1>1, ExceptType, FieldFacts
  <2>2. IsCommand(Saves(i, e, w))
    BY <1>1, <2>1, SavesType
  <2>3. Send(r, {Saves(i, e, w)}) /\ UNCHANGED incidents
    BY <1>4 DEF Assign
  <2> HIDE DEF w, e
  <2> QED  BY <2>2, <2>3, SendType
<1> QED  BY <1>3, <1>4

\* The fields of an update are fields of the document, of their types.
LEMMA UpdateFieldsType ==
  ASSUME NEW r \in Request, NEW loaded, NEW body \in Body
  PROVE  LET u == UpdateFields(r, loaded, body)
         IN  /\ DOMAIN u \subseteq Field
             /\ \A f \in DOMAIN u : u[f] \in FieldType[f]
<1> DEFINE u == UpdateFields(r, loaded, body)
<1>1. DOMAIN body = {"status", "severity", "services", "assignee", "tags"}
  BY DEF Body
<1>2. /\ body.status # <<>> => body.status[1] \in Status
      /\ body.severity # <<>> => body.severity[1] \in Severity
      /\ body.services # <<>> => body.services[1] \in ServiceList
      /\ body.assignee # <<>> => body.assignee[1] \in User \cup {None}
      /\ body.tags # <<>> => body.tags[1] \in SUBSET Tag
  BY DEF Body, Optional
<1>3. DOMAIN u \subseteq DOMAIN body \cup {"key", "resolvedAt"}
  BY DEF UpdateFields
<1>4. \A f \in DOMAIN u \cap DOMAIN body : u[f] = body[f][1] /\ body[f] # <<>>
  BY <1>1 DEF UpdateFields, Present
<1>5. "key" \in DOMAIN u => /\ u["key"] = correlationKeyForServices(body.services[1])
                            /\ body.services # <<>>
  BY <1>1 DEF UpdateFields, Present
<1>6. "resolvedAt" \in DOMAIN u => u["resolvedAt"] \in {r, None}
  BY <1>1 DEF UpdateFields, Present
<1> HIDE DEF u
<1>7. DOMAIN u \subseteq Field
  BY <1>1, <1>3, FieldFacts
<1>8. \A f \in DOMAIN u : u[f] \in FieldType[f]
  <2> SUFFICES ASSUME NEW f \in DOMAIN u PROVE u[f] \in FieldType[f]
    OBVIOUS
  <2>1. CASE f = "key"
    BY <2>1, <1>2, <1>5, FieldFacts DEF correlationKeyForServices
  <2>2. CASE f = "resolvedAt"
    BY <2>2, <1>6, FieldFacts
  <2>3. CASE f \in DOMAIN body
    BY <2>3, <1>1, <1>2, <1>4, FieldFacts
  <2> QED  BY <2>1, <2>2, <2>3, <1>3
<1> QED  BY <1>7, <1>8 DEF u

\* PATCH of the incident.
LEMMA UpdateType ==
  ASSUME TypeOK, NEW r \in Request, NEW i \in DOMAIN incidents,
         NEW body \in Body, Update(r, i, body)
  PROVE  TypeOK'
<1> DEFINE u == UpdateFields(r, incidents[i], body)
           allowed == Present(body, "assignee") =>
             AssignmentAllowed(Author[r], body.assignee[1], incidents[i].assignee)
<1>2. CASE ~allowed
  BY <1>2, ReturnType DEF Update, Ended
<1>3. CASE allowed
  <2>1. DOMAIN u \subseteq Field /\ \A f \in DOMAIN u : u[f] \in FieldType[f]
    BY UpdateFieldsType
  <2> HIDE DEF u
  <2>2. IsCommand(SetCommand(i, u))
    BY <2>1 DEF IsCommand, SetCommand
  <2>3. Send(r, {SetCommand(i, u)}) /\ UNCHANGED incidents
    BY <1>3 DEF Update, u
  <2> QED  BY <2>2, <2>3, SendType
<1> QED  BY <1>2, <1>3

\* The first read of relate and unrelate.
LEMMA ReadFirstType ==
  ASSUME TypeOK, NEW r \in Request, NEW e \in {"relate", "unrelate"},
         NEW i \in DOMAIN incidents, NEW j \in DOMAIN incidents, ReadFirst(r, e, i, j)
  PROVE  TypeOK'
<1>1. IsHeld(held[r])'
  BY DEF ReadFirst, Await, IsHeld, TypeOK
<1>2. ASSUME NEW q \in Request
      PROVE  IF pc'[q] = "working" THEN IsHeld(held[q])' ELSE held'[q] = None
  <2>1. CASE q = r
    BY <2>1, <1>1 DEF ReadFirst, Await, TypeOK
  <2>2. CASE q # r
    <3>1. pc'[q] = pc[q] /\ held'[q] = held[q]
      BY <2>2 DEF ReadFirst, Await, TypeOK
    <3>2. IF pc[q] = "working" THEN IsHeld(held[q]) ELSE held[q] = None
      BY DEF TypeOK
    <3> QED  BY <3>1, <3>2 DEF IsHeld, ReadFirst, Await
  <2> QED  BY <2>1, <2>2
<1>3. pc' \in [Request -> {"idle"} \cup InFlight \cup Ended]
  BY DEF ReadFirst, Await, TypeOK, InFlight
<1>4. \A q \in Request : \A c \in writes'[q] : IsCommand(c)'
  BY DEF ReadFirst, Await, TypeOK, IsCommand
<1> QED  BY <1>2, <1>3, <1>4 DEF ReadFirst, Await, TypeOK

\* relate and unrelate only change the lists of the two copies.
LEMMA PairType ==
  ASSUME TypeOK, NEW r \in Request, pc[r] = "working",
         NEW S \in SUBSET Incident, NEW T \in SUBSET Incident
  PROVE  LET h == held[r]
             t == incidents[h.target]
         IN  /\ IsCommand(Saves(h.source, h.loaded, [h.loaded EXCEPT !.related = S]))
             /\ IsCommand(Saves(h.target, t, [t EXCEPT !.related = T]))
<1> DEFINE h == held[r]
           t == incidents[h.target]
<1>1. IsHeld(h)
  BY DEF TypeOK
<1>2. /\ h.source \in DOMAIN incidents /\ h.target \in DOMAIN incidents
      /\ IsDoc(h.loaded) /\ IsDoc(t)
  BY <1>1 DEF IsHeld, TypeOK
<1> HIDE DEF h, t
<1>3. /\ IsDoc([h.loaded EXCEPT !["related"] = S])
      /\ [h.loaded EXCEPT !["related"] = S].ver = h.loaded.ver
  BY <1>2, ExceptType, FieldFacts
<1>4. /\ IsDoc([t EXCEPT !["related"] = T])
      /\ [t EXCEPT !["related"] = T].ver = t.ver
  BY <1>2, ExceptType, FieldFacts
<1>5. IsCommand(Saves(h.source, h.loaded, [h.loaded EXCEPT !["related"] = S]))
  BY <1>2, <1>3, SavesType
<1>6. IsCommand(Saves(h.target, t, [t EXCEPT !["related"] = T]))
  BY <1>2, <1>4, SavesType
<1> QED  BY <1>5, <1>6 DEF h, t

\* The lists of stored and loaded copies are sets of incidents.
LEMMA RelatedType ==
  ASSUME TypeOK, NEW r \in Request, pc[r] = "working"
  PROVE  /\ held[r].source \in Incident /\ held[r].target \in Incident
         /\ held[r].loaded.related \in SUBSET Incident
         /\ incidents[held[r].target].related \in SUBSET Incident
BY FieldFacts DEF TypeOK, IsHeld, IsDoc

\* The second read of relate, and its two saves.
LEMMA RelateType ==
  ASSUME TypeOK, NEW r \in Request, Relate(r)
  PROVE  TypeOK'
<1> DEFINE source == held[r].source   s == held[r].loaded
           target == held[r].target   t == incidents[target]
           S == s.related \cup {target}
           T == t.related \cup {source}
           commands == {Saves(source, s, [s EXCEPT !.related = S]),
                        Saves(target, t, [t EXCEPT !.related = T])}
<1>1. pc[r] = "working" /\ UNCHANGED incidents
  BY DEF Relate, At
<1>2. CASE CanRelate(source, s, target, t)
  <2>1. S \in SUBSET Incident /\ T \in SUBSET Incident
    BY <1>1, RelatedType
  <2>2. \A c \in commands : IsCommand(c)
    BY <1>1, <2>1, PairType
  <2>3. Send(r, commands)
    <3>1. /\ [s EXCEPT !.related = @ \cup {target}] = [s EXCEPT !.related = S]
          /\ [t EXCEPT !.related = @ \cup {source}] = [t EXCEPT !.related = T]
      OBVIOUS
    <3> QED  BY <1>2, <3>1 DEF Relate
  <2> QED  BY <1>1, <2>2, <2>3, SendType
<1>3. CASE ~CanRelate(source, s, target, t)
  BY <1>1, <1>3, ReturnType DEF Relate, Ended
<1> QED  BY <1>2, <1>3

\* The second read of unrelate, and its two saves.
LEMMA UnrelateType ==
  ASSUME TypeOK, NEW r \in Request, Unrelate(r)
  PROVE  TypeOK'
<1> DEFINE source == held[r].source   s == held[r].loaded
           target == held[r].target   t == incidents[target]
           S == s.related \ {target}
           T == t.related \ {source}
           commands == {Saves(source, s, [s EXCEPT !.related = S]),
                        Saves(target, t, [t EXCEPT !.related = T])}
<1>1. pc[r] = "working" /\ UNCHANGED incidents
  BY DEF Unrelate, At
<1>2. S \in SUBSET Incident /\ T \in SUBSET Incident
  BY <1>1, RelatedType
<1>3. \A c \in commands : IsCommand(c)
  BY <1>1, <1>2, PairType
<1>4. Send(r, commands)
  <2>1. /\ [s EXCEPT !.related = @ \ {target}] = [s EXCEPT !.related = S]
        /\ [t EXCEPT !.related = @ \ {source}] = [t EXCEPT !.related = T]
    OBVIOUS
  <2> QED  BY <2>1 DEF Unrelate
<1> QED  BY <1>1, <1>3, <1>4, SendType

\* The database executes a save.
LEMMA ExecuteSaveType ==
  ASSUME TypeOK, NEW r \in Request, NEW c \in writes[r], ExecuteSave(r, c)
  PROVE  TypeOK'
<1>1. IsCommand(c) /\ IsDoc(incidents[c.doc]) /\ c.doc \in DOMAIN incidents
  BY DEF TypeOK, IsCommand
<1>2. IsDoc(Applied(incidents[c.doc], c))
  BY <1>1, AppliedType
<1>3. /\ DOMAIN incidents' = DOMAIN incidents
      /\ incidents' = [j \in DOMAIN incidents' |-> incidents'[j]]
      /\ \A j \in DOMAIN incidents' : IsDoc(incidents'[j])
  BY <1>1, <1>2 DEF ExecuteSave, TypeOK
<1>4. pc' \in [Request -> {"idle"} \cup InFlight \cup Ended]
  BY DEF ExecuteSave, TypeOK, InFlight
<1>5. ASSUME NEW q \in Request
      PROVE  IF pc'[q] = "working" THEN IsHeld(held[q])' ELSE held'[q] = None
  <2>1. pc'[q] = "working" <=> pc[q] = "working"
    BY DEF ExecuteSave, TypeOK
  <2>2. IF pc[q] = "working" THEN IsHeld(held[q]) ELSE held[q] = None
    BY DEF TypeOK
  <2> QED  BY <2>1, <2>2, <1>3 DEF ExecuteSave, IsHeld
<1>6. \A q \in Request : \A d \in writes'[q] : IsCommand(d)'
  BY <1>3 DEF ExecuteSave, TypeOK, IsCommand
<1> QED  BY <1>3, <1>4, <1>5, <1>6 DEF ExecuteSave, TypeOK

\* The database refuses a save for its version.
LEMMA RefuseSaveType ==
  ASSUME TypeOK, NEW r \in Request, NEW c \in writes[r], pc[r] # "working",
         RefuseSave(r, c)
  PROVE  TypeOK'
<1>1. pc' \in [Request -> {"idle"} \cup InFlight \cup Ended]
  BY DEF RefuseSave, TypeOK, Ended
<1>2. ASSUME NEW q \in Request
      PROVE  IF pc'[q] = "working" THEN IsHeld(held[q])' ELSE held'[q] = None
  <2>1. pc'[q] = "working" <=> pc[q] = "working"
    BY DEF RefuseSave, TypeOK
  <2>2. IF pc[q] = "working" THEN IsHeld(held[q]) ELSE held[q] = None
    BY DEF TypeOK
  <2> QED  BY <2>1, <2>2 DEF RefuseSave, IsHeld
<1>3. \A q \in Request : \A d \in writes'[q] : IsCommand(d)'
  BY DEF RefuseSave, TypeOK, IsCommand
<1> QED  BY <1>1, <1>2, <1>3 DEF RefuseSave, TypeOK

\* The saves of a handler are done.
LEMMA AnnounceType ==
  ASSUME TypeOK, NEW r \in Request, Announce(r)
  PROVE  TypeOK'
<1>1. pc' \in [Request -> {"idle"} \cup InFlight \cup Ended]
  BY DEF Announce, TypeOK, Ended
<1>2. ASSUME NEW q \in Request
      PROVE  IF pc'[q] = "working" THEN IsHeld(held[q])' ELSE held'[q] = None
  <2>1. pc'[q] = "working" <=> pc[q] = "working"
    BY DEF Announce, TypeOK
  <2>2. IF pc[q] = "working" THEN IsHeld(held[q]) ELSE held[q] = None
    BY DEF TypeOK
  <2> QED  BY <2>1, <2>2 DEF Announce, IsHeld
<1>3. \A q \in Request : \A d \in writes'[q] : IsCommand(d)'
  BY DEF Announce, TypeOK, IsCommand
<1> QED  BY <1>1, <1>2, <1>3 DEF Announce, TypeOK

\* A crash cuts the calls off.
LEMMA CrashType ==
  ASSUME TypeOK, Crash
  PROVE  TypeOK'
<1>1. pc' \in [Request -> {"idle"} \cup InFlight \cup Ended]
  BY DEF Crash, TypeOK, Ended
<1>2. \A q \in Request : pc'[q] # "working" /\ held'[q] = None /\ writes'[q] = {}
  BY DEF Crash, TypeOK, InFlight, Ended
<1> QED  BY <1>1, <1>2 DEF Crash, TypeOK

-----------------------------------------------------------------------------
(* Type correctness. *)

\* The initial state is well typed.
LEMMA InitType == Init => TypeOK
<1> SUFFICES ASSUME Init PROVE TypeOK
  OBVIOUS
<1>1. PICK D \in SUBSET Incident :
        incidents \in [D -> {NewIncident(sev, sv, None) :
                               sev \in Severity, sv \in ServiceList}]
  BY DEF Init
<1>2. \A i \in DOMAIN incidents : IsDoc(incidents[i])
  BY <1>1, NewIncidentType
<1>3. /\ incidents = [i \in DOMAIN incidents |-> incidents[i]]
      /\ DOMAIN incidents \subseteq Incident
  BY <1>1
<1>4. pc \in [Request -> {"idle"} \cup InFlight \cup Ended]
  BY DEF Init
<1>5. \A r \in Request : pc[r] # "working" /\ held[r] = None /\ writes[r] = {}
  BY DEF Init
<1> QED  BY <1>2, <1>3, <1>4, <1>5 DEF Init, TypeOK

\* Saves are in flight only in a handler that awaits them or has failed.
LEMMA AwaitedStep ==
  ASSUME TypeOK, SavesAwaited, [Next]_vars
  PROVE  SavesAwaited'
<1> SUFFICES ASSUME NEW q \in Request, writes'[q] # {}
             PROVE  pc'[q] \in {"saving", "failed"}
  BY DEF SavesAwaited
<1>0. writes[q] # {} => pc[q] \in {"saving", "failed"}
  BY DEF SavesAwaited
<1>1. CASE UNCHANGED vars
  BY <1>0, <1>1 DEF vars
<1>2. CASE Crash
  BY <1>2 DEF Crash, TypeOK
<1>3. ASSUME NEW r \in Request, Begin(r)
      PROVE  pc'[q] \in {"saving", "failed"}
  <2>1. pc[r] = "idle"
    BY <1>3 DEF Begin, Starts, Create, ChangeStatus, ChangeSeverity, Assign,
                Update, ReadFirst
  <2>2. writes[r] = {}
    BY <2>1 DEF SavesAwaited
  <2>3. CASE q = r
    <3>1. CASE writes'[r] = writes[r]
      BY <1>3, <2>2, <2>3, <3>1 DEF Begin
    <3>2. ASSUME NEW commands, Send(r, commands)
          PROVE  pc'[q] \in {"saving", "failed"}
      BY <2>3, <3>2 DEF Send, TypeOK
    <3>3. (\E commands : Send(r, commands)) \/ UNCHANGED writes
      BY <1>3 DEF Begin, Create, ChangeStatus, ChangeSeverity, Assign,
                  Update, ReadFirst, Await, Return
    <3> QED  BY <3>1, <3>2, <3>3
  <2>4. CASE q # r
    <3>1. pc'[q] = pc[q]
      BY <1>3, <2>4 DEF Begin, Create, ChangeStatus, ChangeSeverity, Assign,
                Update, ReadFirst, Await, Send, Return, TypeOK
    <3>2. writes'[q] = writes[q]
      BY <1>3, <2>4 DEF Begin, Create, ChangeStatus, ChangeSeverity, Assign,
                Update, ReadFirst, Await, Send, Return, TypeOK
    <3> QED  BY <1>0, <3>1, <3>2
  <2> QED  BY <2>3, <2>4
<1>4. ASSUME NEW r \in Request, Proceed(r)
      PROVE  pc'[q] \in {"saving", "failed"}
  <2>1. CASE Relate(r) \/ Unrelate(r)
    <3>1. writes[r] = {}
      BY <2>1 DEF Relate, Unrelate, At, SavesAwaited
    <3>2. CASE q = r
      BY <2>1, <3>1, <3>2 DEF Relate, Unrelate, Send, Return, TypeOK
    <3>3. CASE q # r
      <4>1. pc'[q] = pc[q] /\ writes'[q] = writes[q]
        BY <2>1, <3>3 DEF Relate, Unrelate, Send, Return, TypeOK
      <4> QED  BY <1>0, <4>1
    <3> QED  BY <3>2, <3>3
  <2>2. ASSUME NEW c \in writes[r], ExecuteSave(r, c)
        PROVE  pc'[q] \in {"saving", "failed"}
    BY <1>0, <2>2 DEF ExecuteSave, TypeOK
  <2>3. ASSUME NEW c \in writes[r], RefuseSave(r, c)
        PROVE  pc'[q] \in {"saving", "failed"}
    BY <1>0, <2>3 DEF RefuseSave, TypeOK
  <2>4. CASE Announce(r)
    BY <1>0, <2>4 DEF Announce, TypeOK
  <2> QED  BY <1>4, <2>1, <2>2, <2>3, <2>4 DEF Proceed
<1> QED  BY <1>1, <1>2, <1>3, <1>4 DEF Next

\* Every step keeps the state well formed.
LEMMA StepType ==
  ASSUME TypeOK, SavesAwaited, [Next]_vars
  PROVE  TypeOK'
<1>1. CASE UNCHANGED vars
  BY <1>1 DEF vars, TypeOK, IsCommand, IsHeld
<1>2. CASE Crash
  BY <1>2, CrashType
<1>3. ASSUME NEW r \in Request, Begin(r) PROVE TypeOK'
  <2>1. ASSUME NEW i \in Incident, NEW sev \in Severity, NEW sv \in ServiceList,
               NEW a \in User \cup {None}, Create(r, i, sev, sv, a)
        PROVE  TypeOK'
    BY <2>1, CreateType
  <2>2. ASSUME NEW i \in DOMAIN incidents, NEW s \in Status, ChangeStatus(r, i, s)
        PROVE  TypeOK'
    BY <2>2, ChangeStatusType
  <2>3. ASSUME NEW i \in DOMAIN incidents, NEW sev \in Severity,
               ChangeSeverity(r, i, sev)
        PROVE  TypeOK'
    BY <2>3, ChangeSeverityType
  <2>4. ASSUME NEW i \in DOMAIN incidents, NEW a \in User \cup {None}, Assign(r, i, a)
        PROVE  TypeOK'
    BY <2>4, AssignType
  <2>5. ASSUME NEW i \in DOMAIN incidents, NEW b \in Body, Update(r, i, b)
        PROVE  TypeOK'
    BY <2>5, UpdateType
  <2>6. ASSUME NEW i \in DOMAIN incidents, NEW j \in DOMAIN incidents,
               NEW e \in {"relate", "unrelate"}, ReadFirst(r, e, i, j)
        PROVE  TypeOK'
    BY <2>6, ReadFirstType
  <2> QED  BY <1>3, <2>1, <2>2, <2>3, <2>4, <2>5, <2>6 DEF Begin
<1>4. ASSUME NEW r \in Request, Proceed(r) PROVE TypeOK'
  <2>1. CASE Relate(r)
    BY <2>1, RelateType
  <2>2. CASE Unrelate(r)
    BY <2>2, UnrelateType
  <2>3. ASSUME NEW c \in writes[r], ExecuteSave(r, c) PROVE TypeOK'
    BY <2>3, ExecuteSaveType
  <2>4. ASSUME NEW c \in writes[r], RefuseSave(r, c) PROVE TypeOK'
    BY <2>4, RefuseSaveType DEF SavesAwaited
  <2>5. CASE Announce(r)
    BY <2>5, AnnounceType
  <2> QED  BY <1>4, <2>1, <2>2, <2>3, <2>4, <2>5 DEF Proceed
<1> QED  BY <1>1, <1>2, <1>3, <1>4 DEF Next

\* Type correctness: no interleaving of handlers, refused saves or crash puts
\* a malformed document, copy or command into the state.
THEOREM TypeCorrect == Spec => [](TypeOK /\ SavesAwaited)
<1>1. Init => TypeOK /\ SavesAwaited
  BY InitType DEF Init, SavesAwaited
<1>2. TypeOK /\ SavesAwaited /\ [Next]_vars => (TypeOK /\ SavesAwaited)'
  BY StepType, AwaitedStep
<1> QED  BY <1>1, <1>2, PTL DEF Spec

-----------------------------------------------------------------------------
(* The resolution time of a RESOLVED incident. *)

\* Sending commands stamped by r keeps the invariant.
LEMMA SendStamp ==
  ASSUME TypeOK, StampInv, NEW r \in Request, NEW commands,
         \A c \in commands : StampedBy(r, c), Send(r, commands),
         UNCHANGED incidents
  PROVE  StampsAreSpent' /\ WritesAreStamped' /\ ResolvedIsDated'
<1>1. StampsAreSpent'
  <2> SUFFICES ASSUME NEW i \in DOMAIN incidents, NEW q \in Request,
                      incidents[i].resolvedAt = q
               PROVE  pc'[q] # "idle"
    BY DEF StampsAreSpent
  <2>1. pc[q] # "idle"
    BY DEF StampInv, StampsAreSpent
  <2> QED  BY <2>1 DEF Send, TypeOK
<1>2. WritesAreStamped'
  <2> SUFFICES ASSUME NEW q \in Request, NEW c \in writes'[q] PROVE StampedBy(q, c)
    BY DEF WritesAreStamped, StampedBy
  <2>1. CASE q = r
    BY <2>1 DEF Send, TypeOK
  <2>2. CASE q # r
    BY <2>2 DEF Send, TypeOK, StampInv, WritesAreStamped
  <2> QED  BY <2>1, <2>2
<1>3. ResolvedIsDated'
  BY DEF StampInv, ResolvedIsDated
<1> QED  BY <1>1, <1>2, <1>3

\* A handler that ends without a save changes no resolution time.
LEMMA ReturnStamp ==
  ASSUME TypeOK, StampInv, NEW r \in Request, NEW answer \in Ended,
         Return(r, answer), UNCHANGED incidents
  PROVE  StampsAreSpent' /\ WritesAreStamped' /\ ResolvedIsDated'
<1>1. StampsAreSpent'
  BY DEF Return, TypeOK, StampInv, StampsAreSpent, Ended
<1>2. WritesAreStamped'
  BY DEF Return, StampInv, WritesAreStamped, StampedBy
<1>3. ResolvedIsDated'
  BY DEF StampInv, ResolvedIsDated
<1> QED  BY <1>1, <1>2, <1>3

\* A save that leaves the status fields of its copy alone stamps nothing.
LEMMA SavesUnstamped ==
  ASSUME NEW r, NEW i, NEW loaded, NEW wanted,
         wanted.status = loaded.status, wanted.resolvedAt = loaded.resolvedAt
  PROVE  StampedBy(r, Saves(i, loaded, wanted))
BY DEF StampedBy, Saves, SaveCommand, Dirty

\* changeStatus sends the status, and the time it stamps or clears.
LEMMA ChangeStatusStamp ==
  ASSUME TypeOK, StampInv, NEW r \in Request, NEW i \in DOMAIN incidents,
         NEW s \in Status, pc[r] = "idle", incidents[i].status # s
  PROVE  StampedBy(r, Saves(i, incidents[i], WithStatus(incidents[i], s, r)))
<1> DEFINE e == incidents[i]
           w == WithStatus(e, s, r)
           c == Saves(i, e, w)
<1>1. e.resolvedAt # r
  BY DEF StampInv, StampsAreSpent
<1>2. /\ w.status = s
      /\ w.resolvedAt = (IF s = Resolved THEN r ELSE None)
      /\ "status" \in DOMAIN w /\ "resolvedAt" \in DOMAIN w
  BY FieldFacts DEF TypeOK, IsDoc, WithStatus
<1>3. c.set = [f \in Dirty(e, w) |-> w[f]]
  BY DEF Saves, SaveCommand
<1> HIDE DEF w, e, c
<1>4. "status" \in Dirty(e, w)
  BY <1>2 DEF Dirty, e
<1>5. s = Resolved => "resolvedAt" \in Dirty(e, w)
  BY <1>1, <1>2 DEF Dirty
<1>6. c.set.status = s
  BY <1>2, <1>3, <1>4
<1>7. "resolvedAt" \in DOMAIN c.set => c.set.resolvedAt = (IF s = Resolved THEN r ELSE None)
  BY <1>2, <1>3
<1>8. r # None
  BY NoneAssumption
<1>9. StampedBy(r, c)
  BY <1>3, <1>4, <1>5, <1>6, <1>7, <1>8 DEF StampedBy
<1> QED  BY <1>9 DEF c, e, w

\* update sends a status only together with the time.
LEMMA UpdateStamp ==
  ASSUME NEW r \in Request, NEW i, NEW loaded, NEW body \in Body
  PROVE  StampedBy(r, SetCommand(i, UpdateFields(r, loaded, body)))
<1> DEFINE u == UpdateFields(r, loaded, body)
<1>1. DOMAIN body = {"status", "severity", "services", "assignee", "tags"}
  BY DEF Body
<1>2. body.status = <<>> \/ body.status = <<body.status[1]>>
  BY DEF Body, Optional
<1>3. "status" \in DOMAIN u => /\ "resolvedAt" \in DOMAIN u
                               /\ u.status = body.status[1]
                               /\ body.status # <<>>
  BY <1>1 DEF UpdateFields, Present
<1>4. "resolvedAt" \in DOMAIN u =>
        /\ "status" \in DOMAIN u
        /\ u.resolvedAt = IF body.status = <<Resolved>> THEN r ELSE None
  BY <1>1 DEF UpdateFields
<1>5. r # None
  BY NoneAssumption
<1> HIDE DEF u
<1>6. StampedBy(r, SetCommand(i, u))
  BY <1>2, <1>3, <1>4, <1>5 DEF StampedBy, SetCommand
<1> QED  BY <1>6 DEF u

\* Executing a stamped command.
LEMMA ExecuteStamp ==
  ASSUME TypeOK, SavesAwaited, StampInv, NEW r \in Request, NEW c \in writes[r],
         ExecuteSave(r, c)
  PROVE  StampsAreSpent' /\ WritesAreStamped' /\ ResolvedIsDated'
<1> DEFINE d == incidents[c.doc]
           e == incidents'[c.doc]
<1>1. /\ c.doc \in DOMAIN incidents /\ IsDoc(d) /\ IsCommand(c)
      /\ e = Applied(d, c)
      /\ DOMAIN incidents' = DOMAIN incidents
      /\ \A i \in DOMAIN incidents : i # c.doc => incidents'[i] = incidents[i]
  BY DEF TypeOK, IsCommand, ExecuteSave
<1>2. /\ e.status = IF "status" \in DOMAIN c.set THEN c.set.status ELSE d.status
      /\ e.resolvedAt = IF "resolvedAt" \in DOMAIN c.set THEN c.set.resolvedAt
                                                         ELSE d.resolvedAt
  BY <1>1, FieldFacts DEF Applied, IsDoc
<1>3. StampedBy(r, c) /\ pc[r] # "idle" /\ r # None
  BY NoneAssumption DEF StampInv, WritesAreStamped, SavesAwaited
<1>4. \A q \in Request : pc[q] # "idle" => pc'[q] # "idle"
  BY DEF ExecuteSave, TypeOK
<1> HIDE DEF d, e
<1>5. StampsAreSpent'
  <2> SUFFICES ASSUME NEW i \in DOMAIN incidents, NEW q \in Request,
                      incidents'[i].resolvedAt = q
               PROVE  pc'[q] # "idle"
    BY <1>1 DEF StampsAreSpent
  <2>1. CASE i # c.doc
    BY <2>1, <1>1, <1>4 DEF StampInv, StampsAreSpent
  <2>2. CASE i = c.doc
    <3>1. q # None
      BY NoneAssumption
    <3> QED  BY <2>2, <3>1, <1>1, <1>2, <1>3, <1>4 DEF StampInv, StampsAreSpent, StampedBy, d, e
  <2> QED  BY <2>1, <2>2
<1>6. WritesAreStamped'
  BY DEF ExecuteSave, TypeOK, StampInv, WritesAreStamped, StampedBy
<1>7. ResolvedIsDated'
  <2> SUFFICES ASSUME NEW i \in DOMAIN incidents, incidents'[i].status = Resolved
               PROVE  incidents'[i].resolvedAt # None
    BY <1>1 DEF ResolvedIsDated
  <2>1. CASE i # c.doc
    BY <2>1, <1>1 DEF StampInv, ResolvedIsDated
  <2>2. CASE i = c.doc
    BY <2>2, <1>1, <1>2, <1>3 DEF StampInv, ResolvedIsDated, StampedBy, d, e
  <2> QED  BY <2>1, <2>2
<1> QED  BY <1>5, <1>6, <1>7

\* A handler that begins stamps only an incident that it resolves.
LEMMA BeginStamp ==
  ASSUME TypeOK, StampInv, NEW r \in Request, Begin(r)
  PROVE  StampsAreSpent' /\ WritesAreStamped' /\ ResolvedIsDated'
<1> DEFINE Goal == StampsAreSpent' /\ WritesAreStamped' /\ ResolvedIsDated'
<1>1. ASSUME NEW i \in Incident, NEW sev \in Severity, NEW sv \in ServiceList,
             NEW a \in User \cup {None}, Create(r, i, sev, sv, a)
      PROVE  Goal
  <2>1. /\ DOMAIN incidents' = DOMAIN incidents \cup {i}
        /\ incidents'[i].status = "OPEN" /\ incidents'[i].resolvedAt = None
        /\ \A j \in DOMAIN incidents : incidents'[j] = incidents[j]
    BY <1>1 DEF Create, NewIncident
  <2>2. Resolved # "OPEN"
    BY StatusAssumption
  <2>3. ResolvedIsDated'
    BY <2>1, <2>2 DEF StampInv, ResolvedIsDated
  <2>4. StampsAreSpent'
    BY <1>1, <2>1, NoneAssumption DEF StampInv, StampsAreSpent, Create, TypeOK
  <2>5. WritesAreStamped'
    BY <1>1 DEF StampInv, WritesAreStamped, StampedBy, Create
  <2> QED  BY <2>3, <2>4, <2>5
<1>2. ASSUME NEW i \in DOMAIN incidents, NEW s \in Status, ChangeStatus(r, i, s)
      PROVE  Goal
  <2>1. CASE incidents[i].status = s
    BY <1>2, <2>1, ReturnStamp DEF ChangeStatus, Ended
  <2>2. CASE incidents[i].status # s
    BY <1>2, <2>2, ChangeStatusStamp, SendStamp DEF ChangeStatus, Starts
  <2> QED  BY <2>1, <2>2
<1>3. ASSUME NEW i \in DOMAIN incidents, NEW sev \in Severity,
             ChangeSeverity(r, i, sev)
      PROVE  Goal
  <2> DEFINE e == incidents[i]
             w == [e EXCEPT !.severity = sev]
  <2>1. CASE e.severity = sev
    BY <1>3, <2>1, ReturnStamp DEF ChangeSeverity, Ended
  <2>2. CASE e.severity # sev
    <3>1. w.status = e.status /\ w.resolvedAt = e.resolvedAt
      OBVIOUS
    <3>2. StampedBy(r, Saves(i, e, w))
      BY <3>1, SavesUnstamped
    <3> QED  BY <1>3, <2>2, <3>2, SendStamp DEF ChangeSeverity
  <2> QED  BY <2>1, <2>2
<1>4. ASSUME NEW i \in DOMAIN incidents, NEW a \in User \cup {None}, Assign(r, i, a)
      PROVE  Goal
  <2> DEFINE e == incidents[i]
             w == [e EXCEPT !.assignee = a]
  <2>1. CASE ~AssignmentAllowed(Author[r], a, e.assignee)
    BY <1>4, <2>1, ReturnStamp DEF Assign, Ended
  <2>2. CASE AssignmentAllowed(Author[r], a, e.assignee)
    <3>1. w.status = e.status /\ w.resolvedAt = e.resolvedAt
      OBVIOUS
    <3>2. StampedBy(r, Saves(i, e, w))
      BY <3>1, SavesUnstamped
    <3> QED  BY <1>4, <2>2, <3>2, SendStamp DEF Assign
  <2> QED  BY <2>1, <2>2
<1>5. ASSUME NEW i \in DOMAIN incidents, NEW b \in Body, Update(r, i, b)
      PROVE  Goal
  <2>1. CASE Send(r, {SetCommand(i, UpdateFields(r, incidents[i], b))})
    BY <1>5, <2>1, UpdateStamp, SendStamp DEF Update
  <2>2. CASE Return(r, "refused")
    BY <1>5, <2>2, ReturnStamp DEF Update, Ended
  <2> QED  BY <1>5, <2>1, <2>2 DEF Update
<1>6. ASSUME NEW i \in DOMAIN incidents, NEW j \in DOMAIN incidents,
             NEW e \in {"relate", "unrelate"}, ReadFirst(r, e, i, j)
      PROVE  Goal
  BY <1>6 DEF ReadFirst, Await, StampInv, StampsAreSpent, WritesAreStamped,
              ResolvedIsDated, StampedBy, TypeOK
<1> QED  BY <1>1, <1>2, <1>3, <1>4, <1>5, <1>6 DEF Begin

\* A copy whose list changed, and nothing else, is saved unstamped.
LEMMA ListUnstamped ==
  ASSUME NEW r, NEW i, NEW d, NEW S
  PROVE  StampedBy(r, Saves(i, d, [d EXCEPT !.related = S]))
<1> DEFINE w == [d EXCEPT !.related = S]
<1>1. w.status = d.status /\ w.resolvedAt = d.resolvedAt
  OBVIOUS
<1> QED  BY <1>1, SavesUnstamped

\* A handler that goes on stamps only what its own saves resolve.
LEMMA ProceedStamp ==
  ASSUME TypeOK, SavesAwaited, StampInv, NEW r \in Request, Proceed(r)
  PROVE  StampsAreSpent' /\ WritesAreStamped' /\ ResolvedIsDated'
<1> DEFINE Goal == StampsAreSpent' /\ WritesAreStamped' /\ ResolvedIsDated'
           source == held[r].source   s == held[r].loaded
           target == held[r].target   t == incidents[target]
           pair(S, T) == {Saves(source, s, [s EXCEPT !.related = S]),
                          Saves(target, t, [t EXCEPT !.related = T])}
<1>0. ASSUME NEW S, NEW T PROVE \A c \in pair(S, T) : StampedBy(r, c)
  <2>1. StampedBy(r, Saves(source, s, [s EXCEPT !.related = S]))
    BY ListUnstamped
  <2>2. StampedBy(r, Saves(target, t, [t EXCEPT !.related = T]))
    BY ListUnstamped
  <2> QED  BY <2>1, <2>2
<1>1. CASE Relate(r)
  <2>1. CASE CanRelate(source, s, target, t)
    <3>1. Send(r, pair(s.related \cup {target}, t.related \cup {source}))
      BY <1>1, <2>1 DEF Relate
    <3>2. UNCHANGED incidents
      BY <1>1 DEF Relate
    <3> HIDE DEF pair
    <3> QED  BY <1>0, <3>1, <3>2, SendStamp
  <2>2. CASE ~CanRelate(source, s, target, t)
    BY <1>1, <2>2, ReturnStamp DEF Relate, Ended
  <2> QED  BY <2>1, <2>2
<1>2. CASE Unrelate(r)
  <2>1. Send(r, pair(s.related \ {target}, t.related \ {source}))
    BY <1>2 DEF Unrelate
  <2>2. UNCHANGED incidents
    BY <1>2 DEF Unrelate
  <2> HIDE DEF pair
  <2> QED  BY <1>0, <2>1, <2>2, SendStamp
<1>3. ASSUME NEW c \in writes[r], ExecuteSave(r, c) PROVE Goal
  BY <1>3, ExecuteStamp
<1>4. ASSUME NEW c \in writes[r], RefuseSave(r, c) PROVE Goal
  BY <1>4 DEF RefuseSave, StampInv, StampsAreSpent, WritesAreStamped,
              ResolvedIsDated, StampedBy, TypeOK
<1>5. CASE Announce(r)
  BY <1>5 DEF Announce, StampInv, StampsAreSpent, WritesAreStamped,
              ResolvedIsDated, StampedBy, TypeOK
<1> QED  BY <1>1, <1>2, <1>3, <1>4, <1>5 DEF Proceed

\* A RESOLVED incident has a resolution time, for any number of overlapping
\* calls, whatever is refused or lost in a crash.
THEOREM ResolvedHasDate == Spec => []ResolvedIsDated
<1>1. Init => StampInv
  <2> SUFFICES ASSUME Init PROVE StampInv
    OBVIOUS
  <2>1. PICK D \in SUBSET Incident :
          incidents \in [D -> {NewIncident(sev, sv, None) :
                                 sev \in Severity, sv \in ServiceList}]
    BY DEF Init
  <2>2. \A i \in DOMAIN incidents : incidents[i].status = "OPEN" /\ incidents[i].resolvedAt = None
    BY <2>1 DEF NewIncident
  <2> QED  BY <2>2, StatusAssumption, NoneAssumption
           DEF Init, StampInv, SavesAwaited, StampsAreSpent, WritesAreStamped, ResolvedIsDated
<1>2. TypeOK /\ SavesAwaited /\ StampInv /\ [Next]_vars => StampInv'
  <2> SUFFICES ASSUME TypeOK, SavesAwaited, StampInv, [Next]_vars PROVE StampInv'
    OBVIOUS
  <2>1. SavesAwaited'
    BY AwaitedStep
  <2>2. CASE UNCHANGED vars
    BY <2>2 DEF vars, StampInv, SavesAwaited, StampsAreSpent, WritesAreStamped,
                ResolvedIsDated, StampedBy
  <2>3. CASE Crash
    BY <2>1, <2>3 DEF Crash, StampInv, StampsAreSpent, WritesAreStamped,
                      ResolvedIsDated
  <2>4. ASSUME NEW r \in Request, Begin(r) PROVE StampInv'
    BY <2>1, <2>4, BeginStamp DEF StampInv
  <2>5. ASSUME NEW r \in Request, Proceed(r) PROVE StampInv'
    BY <2>1, <2>5, ProceedStamp DEF StampInv
  <2> QED  BY <2>2, <2>3, <2>4, <2>5 DEF Next
<1>3. StampInv => ResolvedIsDated
  BY DEF StampInv
<1> QED  BY <1>1, <1>2, <1>3, TypeCorrect, PTL DEF Spec

-----------------------------------------------------------------------------
(* The link lists implement LinkLists. *)

\* Sending commands based on the stored lists keeps the invariant.
LEMMA SendLink ==
  ASSUME TypeOK, LinkInv, NEW r \in Request, NEW commands,
         \A c \in commands : WriteBase(c), Send(r, commands), UNCHANGED incidents
  PROVE  LinkInv'
<1>1. ASSUME NEW q \in Request, NEW c \in writes'[q] PROVE WriteBase(c)'
  <2>1. WriteBase(c)
    <3>1. CASE q = r
      BY <3>1, <1>1 DEF Send, TypeOK
    <3>2. CASE q # r
      BY <3>2, <1>1 DEF Send, TypeOK, LinkInv
    <3> QED  BY <3>1, <3>2
  <2> QED  BY <2>1 DEF WriteBase, OneLink
<1>2. ASSUME NEW q \in Request, pc'[q] = "working" PROVE HeldBase(held[q])'
  <2>1. q # r
    BY <1>2 DEF Send, TypeOK
  <2>2. pc[q] = "working" /\ held'[q] = held[q]
    BY <1>2, <2>1 DEF Send, TypeOK
  <2> QED  BY <2>2 DEF LinkInv, HeldBase
<1> QED  BY <1>1, <1>2 DEF LinkInv

\* A handler that ends without a save changes no link.
LEMMA ReturnLink ==
  ASSUME TypeOK, LinkInv, NEW r \in Request, NEW answer \in Ended,
         Return(r, answer), UNCHANGED incidents
  PROVE  LinkInv'
<1>1. ASSUME NEW q \in Request, NEW c \in writes'[q] PROVE WriteBase(c)'
  BY <1>1 DEF Return, LinkInv, WriteBase, OneLink
<1>2. ASSUME NEW q \in Request, pc'[q] = "working" PROVE HeldBase(held[q])'
  <2>1. q # r
    BY <1>2 DEF Return, TypeOK, Ended
  <2>2. pc[q] = "working" /\ held'[q] = held[q]
    BY <1>2, <2>1 DEF Return, TypeOK
  <2> QED  BY <2>2 DEF LinkInv, HeldBase
<1> QED  BY <1>1, <1>2 DEF LinkInv

\* A save of the stored copy that leaves its list alone.
LEMMA SavesUnlinked ==
  ASSUME TypeOK, NEW i \in DOMAIN incidents, NEW w,
         w.related = incidents[i].related
  PROVE  WriteBase(Saves(i, incidents[i], w))
<1> DEFINE e == incidents[i]
           c == Saves(i, e, w)
<1>1. e.ver \in Nat
  BY DEF TypeOK, IsDoc
<1>2. c.doc = i /\ c.where \in {e.ver, AnyVersion} /\ "related" \notin DOMAIN c.set
  BY DEF Saves, SaveCommand, Dirty
<1> HIDE DEF c
<1>3. WriteBase(c)
  BY <1>1, <1>2 DEF WriteBase, AnyVersion
<1> QED  BY <1>3 DEF c

\* A save of a loaded copy, no newer than the stored one and with the stored
\* list if it is as new, whose list differs by one link.
LEMMA SavesLinked ==
  ASSUME TypeOK, NEW i \in DOMAIN incidents, NEW d, NEW S, IsDoc(d),
         OneLink(i, d.related, S), d.ver <= incidents[i].ver,
         d.ver = incidents[i].ver => d.related = incidents[i].related
  PROVE  WriteBase(Saves(i, d, [d EXCEPT !.related = S]))
<1> DEFINE w == [d EXCEPT !.related = S]
           c == Saves(i, d, w)
<1>1. d.ver \in Nat /\ incidents[i].ver \in Nat
  BY DEF TypeOK, IsDoc
<1>2. DOMAIN w = DOMAIN d /\ w.related = S /\ "related" \in DOMAIN d
  BY FieldFacts DEF IsDoc
<1>3. c.doc = i
  BY DEF Saves, SaveCommand
<1>4. c.where \in {d.ver, AnyVersion}
  BY DEF Saves, SaveCommand
<1>5. "related" \in DOMAIN c.set => c.where = d.ver /\ c.set.related = S
  BY <1>2 DEF Saves, SaveCommand, ArrayFields
<1> HIDE DEF c, w
<1>6. WriteBase(c)
  BY <1>1, <1>3, <1>4, <1>5 DEF WriteBase, AnyVersion
<1> QED  BY <1>6 DEF c, w

\* The two saves of a pair change one link each, of the version they demand.
LEMMA PairLink ==
  ASSUME TypeOK, LinkInv, NEW r \in Request, pc[r] = "working", NEW S, NEW T,
         OneLink(held[r].source, held[r].loaded.related, S),
         OneLink(held[r].target, incidents[held[r].target].related, T)
  PROVE  LET h == held[r]
             t == incidents[h.target]
         IN  /\ WriteBase(Saves(h.source, h.loaded, [h.loaded EXCEPT !.related = S]))
             /\ WriteBase(Saves(h.target, t, [t EXCEPT !.related = T]))
<1> DEFINE h == held[r]
           t == incidents[h.target]
<1>1. /\ h.source \in DOMAIN incidents /\ h.target \in DOMAIN incidents
      /\ IsDoc(h.loaded) /\ IsDoc(t) /\ t.ver \in Nat
  BY DEF TypeOK, IsHeld, IsDoc
<1>2. HeldBase(h)
  BY DEF LinkInv
<1>3. WriteBase(Saves(h.source, h.loaded, [h.loaded EXCEPT !.related = S]))
  BY <1>1, <1>2, SavesLinked DEF HeldBase
<1>4. WriteBase(Saves(h.target, t, [t EXCEPT !.related = T]))
  <2>1. t.ver <= incidents[h.target].ver
    BY <1>1
  <2>2. OneLink(h.target, t.related, T)
    OBVIOUS
  <2> HIDE DEF h
  <2> QED  BY <1>1, <2>1, <2>2, SavesLinked
<1> QED  BY <1>3, <1>4

\* relate adds one link to each list.
LEMMA RelateLink ==
  ASSUME TypeOK, LinkInv, NEW r \in Request, Relate(r)
  PROVE  LinkInv'
<1> DEFINE source == held[r].source   s == held[r].loaded
           target == held[r].target   t == incidents[target]
           S == s.related \cup {target}
           T == t.related \cup {source}
           commands == {Saves(source, s, [s EXCEPT !.related = S]),
                        Saves(target, t, [t EXCEPT !.related = T])}
<1>1. pc[r] = "working" /\ UNCHANGED incidents
  BY DEF Relate, At
<1>2. source \in DOMAIN incidents /\ target \in DOMAIN incidents
  BY <1>1 DEF TypeOK, IsHeld
<1>3. CASE CanRelate(source, s, target, t)
  <2>1. OneLink(source, s.related, S) /\ OneLink(target, t.related, T)
    BY <1>2, <1>3 DEF OneLink, CanRelate
  <2>2. \A c \in commands : WriteBase(c)
    BY <1>1, <2>1, PairLink
  <2>3. Send(r, commands)
    <3>1. /\ [s EXCEPT !.related = @ \cup {target}] = [s EXCEPT !.related = S]
          /\ [t EXCEPT !.related = @ \cup {source}] = [t EXCEPT !.related = T]
      OBVIOUS
    <3> QED  BY <1>3, <3>1 DEF Relate
  <2> QED  BY <1>1, <2>2, <2>3, SendLink
<1>4. CASE ~CanRelate(source, s, target, t)
  BY <1>1, <1>4, ReturnLink DEF Relate, Ended
<1> QED  BY <1>3, <1>4

\* unrelate drops one link from each list.
LEMMA UnrelateLink ==
  ASSUME TypeOK, LinkInv, NEW r \in Request, Unrelate(r)
  PROVE  LinkInv'
<1> DEFINE source == held[r].source   s == held[r].loaded
           target == held[r].target   t == incidents[target]
           S == s.related \ {target}
           T == t.related \ {source}
           commands == {Saves(source, s, [s EXCEPT !.related = S]),
                        Saves(target, t, [t EXCEPT !.related = T])}
<1>1. pc[r] = "working" /\ UNCHANGED incidents
  BY DEF Unrelate, At
<1>2. source \in DOMAIN incidents /\ target \in DOMAIN incidents
  BY <1>1 DEF TypeOK, IsHeld
<1>3. OneLink(source, s.related, S) /\ OneLink(target, t.related, T)
  BY <1>2 DEF OneLink
<1>4. \A c \in commands : WriteBase(c)
  BY <1>1, <1>3, PairLink
<1>5. Send(r, commands)
  <2>1. /\ [s EXCEPT !.related = @ \ {target}] = [s EXCEPT !.related = S]
        /\ [t EXCEPT !.related = @ \ {source}] = [t EXCEPT !.related = T]
    OBVIOUS
  <2> QED  BY <2>1 DEF Unrelate
<1> QED  BY <1>1, <1>4, <1>5, SendLink

\* A handler that begins changes no list, or holds what it read.
LEMMA BeginLink ==
  ASSUME TypeOK, LinkInv, NEW r \in Request, Begin(r)
  PROVE  LinkInv'
<1>1. ASSUME NEW i \in Incident, NEW sev \in Severity, NEW sv \in ServiceList,
             NEW a \in User \cup {None}, Create(r, i, sev, sv, a)
      PROVE  LinkInv'
  <2>1. /\ DOMAIN incidents' = DOMAIN incidents \cup {i}
        /\ \A j \in DOMAIN incidents : incidents'[j] = incidents[j]
        /\ writes' = writes /\ held' = held
    BY <1>1 DEF Create
  <2>2. ASSUME NEW q \in Request, NEW c \in writes'[q] PROVE WriteBase(c)'
    <3>1. WriteBase(c) /\ c.doc \in DOMAIN incidents
      BY <2>1, <2>2 DEF LinkInv, TypeOK, IsCommand
    <3> QED  BY <2>1, <3>1 DEF WriteBase, OneLink
  <2>3. ASSUME NEW q \in Request, pc'[q] = "working" PROVE HeldBase(held[q])'
    <3>1. pc[q] = "working"
      BY <1>1, <2>3 DEF Create, TypeOK
    <3>2. HeldBase(held[q]) /\ held[q].source \in DOMAIN incidents
      BY <3>1 DEF LinkInv, TypeOK, IsHeld
    <3> QED  BY <2>1, <3>2 DEF HeldBase
  <2> QED  BY <2>2, <2>3 DEF LinkInv
<1>2. ASSUME NEW i \in DOMAIN incidents, NEW s \in Status, ChangeStatus(r, i, s)
      PROVE  LinkInv'
  <2> DEFINE w == WithStatus(incidents[i], s, r)
  <2>1. w.related = incidents[i].related
    BY DEF WithStatus
  <2>2. WriteBase(Saves(i, incidents[i], w))
    BY <2>1, SavesUnlinked
  <2> QED  BY <1>2, <2>2, SendLink, ReturnLink DEF ChangeStatus, Ended
<1>3. ASSUME NEW i \in DOMAIN incidents, NEW sev \in Severity, ChangeSeverity(r, i, sev)
      PROVE  LinkInv'
  <2> DEFINE w == [incidents[i] EXCEPT !.severity = sev]
  <2>1. w.related = incidents[i].related
    OBVIOUS
  <2>2. WriteBase(Saves(i, incidents[i], w))
    BY <2>1, SavesUnlinked
  <2> QED  BY <1>3, <2>2, SendLink, ReturnLink DEF ChangeSeverity, Ended
<1>4. ASSUME NEW i \in DOMAIN incidents, NEW a \in User \cup {None}, Assign(r, i, a)
      PROVE  LinkInv'
  <2> DEFINE w == [incidents[i] EXCEPT !.assignee = a]
  <2>1. w.related = incidents[i].related
    OBVIOUS
  <2>2. WriteBase(Saves(i, incidents[i], w))
    BY <2>1, SavesUnlinked
  <2> QED  BY <1>4, <2>2, SendLink, ReturnLink DEF Assign, Ended
<1>5. ASSUME NEW i \in DOMAIN incidents, NEW b \in Body, Update(r, i, b)
      PROVE  LinkInv'
  <2> DEFINE u == UpdateFields(r, incidents[i], b)
  <2>1. "related" \notin DOMAIN u
    BY DEF UpdateFields, Body
  <2>2. incidents[i].ver \in Nat
    BY DEF TypeOK, IsDoc
  <2> HIDE DEF u
  <2>3. WriteBase(SetCommand(i, u))
    BY <2>1, <2>2 DEF WriteBase, SetCommand, AnyVersion
  <2> QED  BY <1>5, <2>3, SendLink, ReturnLink DEF Update, Ended, u
<1>6. ASSUME NEW i \in DOMAIN incidents, NEW j \in DOMAIN incidents,
             NEW e \in {"relate", "unrelate"}, ReadFirst(r, e, i, j)
      PROVE  LinkInv'
  <2>1. ASSUME NEW q \in Request, NEW c \in writes'[q] PROVE WriteBase(c)'
    BY <1>6, <2>1 DEF ReadFirst, Await, LinkInv, WriteBase, OneLink
  <2>2. ASSUME NEW q \in Request, pc'[q] = "working" PROVE HeldBase(held[q])'
    <3>1. CASE q = r
      <4>1. held'[r].loaded = incidents[i] /\ held'[r].source = i
        BY <1>6 DEF ReadFirst, Await, TypeOK
      <4>2. incidents[i].ver \in Nat
        BY DEF TypeOK, IsDoc
      <4> QED  BY <1>6, <3>1, <4>1, <4>2 DEF HeldBase, ReadFirst, Await
    <3>2. CASE q # r
      <4>1. pc[q] = "working" /\ held'[q] = held[q]
        BY <1>6, <2>2, <3>2 DEF ReadFirst, Await, TypeOK
      <4> QED  BY <1>6, <4>1 DEF LinkInv, HeldBase, ReadFirst, Await
    <3> QED  BY <3>1, <3>2
  <2> QED  BY <2>1, <2>2 DEF LinkInv
<1> QED  BY <1>1, <1>2, <1>3, <1>4, <1>5, <1>6 DEF Begin

\* What an executed command does to a list and to the version.
LEMMA ExecuteEffect ==
  ASSUME TypeOK, NEW r \in Request, NEW c \in writes[r], ExecuteSave(r, c)
  PROVE  LET d == incidents[c.doc]
             e == incidents'[c.doc]
         IN  /\ c.doc \in DOMAIN incidents /\ DOMAIN incidents' = DOMAIN incidents
             /\ \A i \in DOMAIN incidents : i # c.doc => incidents'[i] = incidents[i]
             /\ d.ver \in Nat
             /\ e.ver = IF c.where = AnyVersion THEN d.ver ELSE d.ver + 1
             /\ e.related = IF "related" \in DOMAIN c.set THEN c.set.related
                                                          ELSE d.related
             /\ c.where \in {AnyVersion, d.ver}
<1> DEFINE d == incidents[c.doc]
<1>1. c.doc \in DOMAIN incidents /\ IsDoc(d) /\ IsCommand(c)
  BY DEF TypeOK, IsCommand
<1>2. incidents'[c.doc] = Applied(d, c) /\ DOMAIN incidents' = DOMAIN incidents
      /\ \A i \in DOMAIN incidents : i # c.doc => incidents'[i] = incidents[i]
  BY <1>1 DEF ExecuteSave, TypeOK
<1>3. c.where \in {AnyVersion, d.ver}
  BY DEF ExecuteSave, Accepts
<1>4. "ver" \notin DOMAIN c.set /\ "related" \in DOMAIN d /\ "ver" \in DOMAIN d
  BY <1>1, FieldFacts DEF IsCommand, IsDoc
<1> HIDE DEF d
<1>5. /\ Applied(d, c).ver = IF c.where = AnyVersion THEN d.ver ELSE d.ver + 1
      /\ Applied(d, c).related = IF "related" \in DOMAIN c.set THEN c.set.related
                                                               ELSE d.related
  BY <1>4 DEF Applied
<1> QED  BY <1>1, <1>2, <1>3, <1>5 DEF d, IsDoc

\* A save of a list finds the version that it demands.
LEMMA ExecuteLink ==
  ASSUME TypeOK, LinkInv, NEW r \in Request, NEW c \in writes[r], ExecuteSave(r, c)
  PROVE  LinkInv'
<1> DEFINE d == incidents[c.doc]
           e == incidents'[c.doc]
<1>1. WriteBase(c)
  BY DEF LinkInv
<1>2. /\ c.doc \in DOMAIN incidents /\ DOMAIN incidents' = DOMAIN incidents
      /\ \A i \in DOMAIN incidents : i # c.doc => incidents'[i] = incidents[i]
      /\ d.ver \in Nat /\ e.ver \in Nat /\ d.ver <= e.ver
      /\ e.ver = d.ver => e.related = d.related
  BY <1>1, ExecuteEffect DEF WriteBase, AnyVersion
<1>3. ASSUME NEW q \in Request, NEW b \in writes'[q] PROVE WriteBase(b)'
  <2>1. b \in writes[q] /\ WriteBase(b) /\ IsCommand(b)
    BY <1>3 DEF ExecuteSave, TypeOK, LinkInv
  <2>2. b.where \in Int /\ b.doc \in DOMAIN incidents /\ incidents[b.doc].ver \in Nat
    BY <2>1 DEF IsCommand, AnyVersion, TypeOK, IsDoc
  <2>3. CASE b.doc # c.doc
    BY <1>2, <2>1, <2>2, <2>3 DEF WriteBase, OneLink
  <2>4. CASE b.doc = c.doc
    <3>1. b.where <= e.ver
      BY <1>2, <2>1, <2>2, <2>4 DEF WriteBase
    <3>2. b.where = e.ver => b.where = d.ver /\ e.related = d.related
      BY <1>2, <2>1, <2>2, <2>4 DEF WriteBase
    <3> QED  BY <1>2, <2>1, <2>4, <3>1, <3>2 DEF WriteBase, OneLink
  <2> QED  BY <2>3, <2>4
<1>4. ASSUME NEW q \in Request, pc'[q] = "working" PROVE HeldBase(held[q])'
  <2>1. pc[q] = "working" /\ held'[q] = held[q]
    BY <1>4 DEF ExecuteSave, TypeOK
  <2>2. HeldBase(held[q]) /\ held[q].source \in DOMAIN incidents /\ held[q].loaded.ver \in Nat
    BY <2>1 DEF LinkInv, TypeOK, IsHeld, IsDoc
  <2>3. CASE held[q].source # c.doc
    BY <1>2, <2>1, <2>2, <2>3 DEF HeldBase
  <2>4. CASE held[q].source = c.doc
    BY <1>2, <2>1, <2>2, <2>4 DEF HeldBase
  <2> QED  BY <2>3, <2>4
<1> QED  BY <1>3, <1>4 DEF LinkInv

\* Every step preserves the invariant of the lists of links.
LEMMA LinkStep ==
  ASSUME TypeOK, SavesAwaited, LinkInv, [Next]_vars
  PROVE  LinkInv'
<1>1. CASE UNCHANGED vars
  BY <1>1 DEF vars, LinkInv, WriteBase, OneLink, HeldBase
<1>2. CASE Crash
  BY <1>2 DEF Crash, LinkInv, InFlight, TypeOK
<1>3. ASSUME NEW r \in Request, Begin(r) PROVE LinkInv'
  BY <1>3, BeginLink
<1>4. ASSUME NEW r \in Request, Proceed(r) PROVE LinkInv'
  <2>1. CASE Relate(r)
    BY <2>1, RelateLink
  <2>2. CASE Unrelate(r)
    BY <2>2, UnrelateLink
  <2>3. ASSUME NEW c \in writes[r], ExecuteSave(r, c) PROVE LinkInv'
    BY <2>3, ExecuteLink
  <2>4. ASSUME NEW c \in writes[r], RefuseSave(r, c) PROVE LinkInv'
    <3>1. ASSUME NEW q \in Request, NEW b \in writes'[q] PROVE WriteBase(b)'
      BY <2>4, <3>1 DEF RefuseSave, LinkInv, WriteBase, OneLink, TypeOK
    <3>2. ASSUME NEW q \in Request, pc'[q] = "working" PROVE HeldBase(held[q])'
      BY <2>4, <3>2 DEF RefuseSave, LinkInv, HeldBase, TypeOK
    <3> QED  BY <3>1, <3>2 DEF LinkInv
  <2>5. CASE Announce(r)
    <3>1. ASSUME NEW q \in Request, NEW b \in writes'[q] PROVE WriteBase(b)'
      BY <2>5, <3>1 DEF Announce, LinkInv, WriteBase, OneLink
    <3>2. ASSUME NEW q \in Request, pc'[q] = "working" PROVE HeldBase(held[q])'
      BY <2>5, <3>2 DEF Announce, LinkInv, HeldBase, TypeOK
    <3> QED  BY <3>1, <3>2 DEF LinkInv
  <2> QED  BY <1>4, <2>1, <2>2, <2>3, <2>4, <2>5 DEF Proceed
<1> QED  BY <1>1, <1>2, <1>3, <1>4 DEF Next

\* The lists of the collection, the state of the abstract specification.
linkBar == [i \in DOMAIN incidents |-> incidents[i].related]

\* One executed save adds or drops one link of one list, or none.
LEMMA ExecuteRefines ==
  ASSUME TypeOK, LinkInv, NEW r \in Request, NEW c \in writes[r], ExecuteSave(r, c)
  PROVE  Links!Next \/ linkBar' = linkBar
<1> DEFINE i == c.doc
           new == incidents'[i].related
<1>1. /\ i \in DOMAIN incidents /\ DOMAIN incidents' = DOMAIN incidents
      /\ \A j \in DOMAIN incidents : j # i => incidents'[j] = incidents[j]
      /\ new = IF "related" \in DOMAIN c.set THEN c.set.related ELSE incidents[i].related
      /\ c.where \in {AnyVersion, incidents[i].ver}
  BY ExecuteEffect
<1>2. WriteBase(c)
  BY DEF LinkInv
<1>3. DOMAIN linkBar = DOMAIN incidents /\ linkBar[i] = incidents[i].related
  BY <1>1 DEF linkBar
<1>4. linkBar' = [linkBar EXCEPT ![i] = new]
  BY <1>1 DEF linkBar
<1>5. CASE "related" \notin DOMAIN c.set
  BY <1>1, <1>3, <1>4, <1>5 DEF linkBar
<1>6. CASE "related" \in DOMAIN c.set
  <2>1. OneLink(i, incidents[i].related, new)
    BY <1>1, <1>2, <1>6 DEF WriteBase
  <2>2. PICK j \in DOMAIN incidents : \/ i # j /\ new = linkBar[i] \cup {j}
                                     \/ new = linkBar[i] \ {j}
    BY <2>1, <1>3 DEF OneLink
  <2>3. Links!Add(i, j) \/ Links!Drop(i, j)
    BY <1>4, <2>2 DEF Links!Add, Links!Drop, linkBar
  <2> QED  BY <1>1, <1>3, <2>2, <2>3 DEF Links!Next, linkBar
<1> QED  BY <1>5, <1>6

\* A new document is a new, empty list.
LEMMA CreateRefines ==
  ASSUME TypeOK, NEW r \in Request, NEW i \in Incident, NEW sev \in Severity,
         NEW sv \in ServiceList, NEW a \in User \cup {None}, Create(r, i, sev, sv, a)
  PROVE  Links!Next
<1>1. /\ DOMAIN incidents' = DOMAIN incidents \cup {i} /\ i \notin DOMAIN incidents
      /\ incidents'[i].related = {}
      /\ \A j \in DOMAIN incidents : incidents'[j] = incidents[j]
  BY DEF Create, NewIncident
<1>2. Links!New(i)
  BY <1>1 DEF Links!New
<1> QED  BY <1>2 DEF Links!Next

\* The handlers implement LinkLists: however calls overlap, a list of related
\* incidents only ever gains or loses one link of its current value.
THEOREM LinksImplemented == Spec => LinksAreAtomic
<1>1. Init => LinkInv
  BY DEF Init, LinkInv
<1>2. Init => Links!Init
  <2> SUFFICES ASSUME Init PROVE Links!Init
    OBVIOUS
  <2>1. PICK D \in SUBSET Incident :
          incidents \in [D -> {NewIncident(sev, sv, None) :
                                 sev \in Severity, sv \in ServiceList}]
    BY DEF Init
  <2>2. DOMAIN incidents = D /\ \A i \in D : incidents[i].related = {}
    BY <2>1 DEF NewIncident
  <2>3. linkBar = [i \in D |-> {}]
    BY <2>2 DEF linkBar
  <2> QED  BY <2>3 DEF Links!Init, linkBar
<1>3. TypeOK /\ SavesAwaited /\ LinkInv /\ [Next]_vars => LinkInv'
  BY LinkStep
<1>4. TypeOK /\ LinkInv /\ [Next]_vars => [Links!Next]_linkBar
  <2> SUFFICES ASSUME TypeOK, LinkInv, [Next]_vars
               PROVE  Links!Next \/ linkBar' = linkBar
    OBVIOUS
  <2>1. CASE UNCHANGED incidents
    BY <2>1 DEF linkBar
  <2>2. ASSUME NEW r \in Request, NEW c \in writes[r], ExecuteSave(r, c)
        PROVE  Links!Next \/ linkBar' = linkBar
    BY <2>2, ExecuteRefines
  <2>3. ASSUME NEW r \in Request, NEW i \in Incident, NEW sev \in Severity,
               NEW sv \in ServiceList, NEW a \in User \cup {None},
               Create(r, i, sev, sv, a)
        PROVE  Links!Next
    BY <2>3, CreateRefines
  <2>4. CASE UNCHANGED vars
    BY <2>1, <2>4 DEF vars
  <2>5. CASE Crash
    BY <2>1, <2>5 DEF Crash
  <2>6. ASSUME NEW r \in Request, Begin(r)
        PROVE  Links!Next \/ linkBar' = linkBar
    BY <2>1, <2>3, <2>6 DEF Begin, ChangeStatus, ChangeSeverity, Assign, Update,
                            ReadFirst
  <2>7. ASSUME NEW r \in Request, Proceed(r)
        PROVE  Links!Next \/ linkBar' = linkBar
    BY <2>1, <2>2, <2>7 DEF Proceed, Relate, Unrelate, RefuseSave, Announce
  <2> QED  BY <2>4, <2>5, <2>6, <2>7 DEF Next
<1> QED
  BY <1>1, <1>2, <1>3, <1>4, TypeCorrect, PTL DEF Spec, LinksAreAtomic, Links!Spec, linkBar

-----------------------------------------------------------------------------
(* What a handler of Incidents does when it starts.                        *)

\* The stored incidents are well formed.
SoundIncidents ==
  /\ DOMAIN incidents \subseteq Incident
  /\ \A i \in DOMAIN incidents : IsDoc(incidents[i])

\* A status change sends one well-formed save, or nothing.
LEMMA ChangeStatusSends ==
  ASSUME SoundIncidents, NEW r \in Request, NEW i \in DOMAIN incidents,
         NEW s \in Status, NEW e, IsDoc(e)
  PROVE  /\ IsCommand(Saves(i, e, WithStatus(e, s, r)))
         /\ IsDoc(WithStatus(e, s, r)) /\ WithStatus(e, s, r).ver = e.ver
<1> DEFINE w == WithStatus(e, s, r)
           m == [e EXCEPT !["status"] = s]
           v == IF s = Resolved THEN r ELSE None
<1>1. IsDoc(m) /\ m.ver = e.ver
  BY ExceptType, FieldFacts
<1>2. w = [m EXCEPT !["resolvedAt"] = v]
  BY DEF IsDoc, WithStatus
<1>3. "resolvedAt" \in Field /\ v \in FieldType["resolvedAt"]
  BY FieldFacts
<1>4. IsDoc(w) /\ w.ver = e.ver
  <2> HIDE DEF m, v, w
  <2> QED  BY <1>1, <1>2, <1>3, ExceptType
<1> HIDE DEF w
<1> QED  BY <1>4, SavesType DEF w

\* A copy with one field assigned is saved by a well-formed command.
LEMMA FieldSends ==
  ASSUME NEW i \in DOMAIN incidents, NEW e, IsDoc(e), NEW f \in Field,
         NEW x \in FieldType[f]
  PROVE  IsCommand(Saves(i, e, [e EXCEPT ![f] = x]))
BY ExceptType, SavesType

\* A handler of Incidents creates a document, sends well-formed saves, returns,
\* or holds what the second half of relate and unrelate needs.
Opens(r) ==
  \/ \E i \in Incident, sev \in Severity, sv \in ServiceList,
        a \in User \cup {None} : Create(r, i, sev, sv, a)
  \/ /\ UNCHANGED incidents
     /\ \/ \E commands : /\ \A c \in commands : IsCommand(c)
                         /\ Send(r, commands)
        \/ \E answer \in Ended : Return(r, answer)
        \/ \E h : h.step \in {"relate", "unrelate"} /\ Await(r, h)

\* Every handler of Incidents starts in one of these ways, on documents that are
\* well formed, whatever other handlers hold.
LEMMA BeginOpens ==
  ASSUME SoundIncidents, NEW r \in Request, Begin(r)
  PROVE  pc[r] = "idle" /\ Opens(r)
<1>0. pc[r] = "idle"
  BY DEF Begin, Starts, Create, ChangeStatus, ChangeSeverity, Assign, Update, ReadFirst
<1>1. ASSUME NEW answer \in Ended, Return(r, answer), UNCHANGED incidents
      PROVE  Opens(r)
  BY <1>1 DEF Opens
<1>2. ASSUME NEW c, IsCommand(c), Send(r, {c}), UNCHANGED incidents
      PROVE  Opens(r)
  <2>1. \A d \in {c} : IsCommand(d)
    BY <1>2
  <2> QED  BY <1>2, <2>1 DEF Opens
<1>3. ASSUME NEW i \in DOMAIN incidents, NEW s \in Status, ChangeStatus(r, i, s)
      PROVE  Opens(r)
  <2>1. IsDoc(incidents[i])
    BY DEF SoundIncidents
  <2>2. IsCommand(Saves(i, incidents[i], WithStatus(incidents[i], s, r)))
    BY <2>1, ChangeStatusSends
  <2>3. UNCHANGED incidents
    BY <1>3 DEF ChangeStatus
  <2>4. \/ Return(r, "done")
        \/ Send(r, {Saves(i, incidents[i], WithStatus(incidents[i], s, r))})
    BY <1>3 DEF ChangeStatus
  <2> QED  BY <1>1, <1>2, <2>2, <2>3, <2>4 DEF Ended
<1>4. ASSUME NEW i \in DOMAIN incidents, NEW sev \in Severity, ChangeSeverity(r, i, sev)
      PROVE  Opens(r)
  <2> DEFINE c == Saves(i, incidents[i], [incidents[i] EXCEPT !["severity"] = sev])
  <2>1. IsCommand(c)
    BY FieldSends, FieldFacts DEF SoundIncidents
  <2>2. UNCHANGED incidents /\ (Return(r, "done") \/ Send(r, {c}))
    BY <1>4 DEF ChangeSeverity
  <2> HIDE DEF c
  <2> QED  BY <1>1, <1>2, <2>1, <2>2 DEF Ended
<1>5. ASSUME NEW i \in DOMAIN incidents, NEW a \in User \cup {None}, Assign(r, i, a)
      PROVE  Opens(r)
  <2> DEFINE c == Saves(i, incidents[i], [incidents[i] EXCEPT !["assignee"] = a])
  <2>1. IsCommand(c)
    BY FieldSends, FieldFacts DEF SoundIncidents
  <2>2. UNCHANGED incidents /\ (Return(r, "refused") \/ Send(r, {c}))
    BY <1>5 DEF Assign
  <2> HIDE DEF c
  <2> QED  BY <1>1, <1>2, <2>1, <2>2 DEF Ended
<1>6. ASSUME NEW i \in DOMAIN incidents, NEW b \in Body, Update(r, i, b)
      PROVE  Opens(r)
  <2> DEFINE u == UpdateFields(r, incidents[i], b)
             c == SetCommand(i, u)
  <2>1. DOMAIN u \subseteq Field /\ \A f \in DOMAIN u : u[f] \in FieldType[f]
    BY UpdateFieldsType
  <2>2. IsCommand(c)
    <3> HIDE DEF u
    <3> QED  BY <2>1 DEF IsCommand, SetCommand
  <2>3. UNCHANGED incidents /\ (Return(r, "refused") \/ Send(r, {c}))
    BY <1>6 DEF Update
  <2> HIDE DEF c
  <2> QED  BY <1>1, <1>2, <2>2, <2>3 DEF Ended
<1>7. ASSUME NEW i \in DOMAIN incidents, NEW j \in DOMAIN incidents,
             NEW e \in {"relate", "unrelate"}, ReadFirst(r, e, i, j)
      PROVE  Opens(r)
  <2> DEFINE h == [step |-> e, source |-> i, loaded |-> incidents[i], target |-> j]
  <2>1. h.step \in {"relate", "unrelate"} /\ Await(r, h) /\ UNCHANGED incidents
    BY <1>7 DEF ReadFirst
  <2> HIDE DEF h
  <2> QED  BY <2>1 DEF Opens
<1>8. ASSUME NEW i \in Incident, NEW sev \in Severity, NEW sv \in ServiceList,
             NEW a \in User \cup {None}, Create(r, i, sev, sv, a)
      PROVE  Opens(r)
  BY <1>8 DEF Opens
<1> QED  BY <1>0, <1>3, <1>4, <1>5, <1>6, <1>7, <1>8 DEF Begin

-----------------------------------------------------------------------------
(* Calls that do not overlap: MaxInFlight = 1.                             *)

\* A handler that starts finds no other at work, and no save in flight.
LEMMA NoneAtWork ==
  ASSUME MaxInFlight = 1, OneSaving, NEW r \in Request, NEW endpoint,
         Starts(r, endpoint)
  PROVE  \A q \in Request : pc[q] \notin InFlight /\ writes[q] = {}
<1> DEFINE S == {q \in Request : pc[q] \in InFlight}
<1>1. ASSUME NEW q \in S PROVE FALSE
  <2>1. S = {q}
    BY <1>1 DEF OneSaving
  <2>2. Cardinality({q}) = 1
    BY FS_Singleton
  <2>3. Cardinality(S) < 1
    BY DEF Starts
  <2> QED  BY <2>1, <2>2, <2>3
<1>2. \A q \in Request : pc[q] \notin InFlight
  BY <1>1
<1>3. \A q \in Request : writes[q] = {}
  BY <1>2 DEF OneSaving, InFlight
<1> QED  BY <1>2, <1>3

\* Saved on the document it was loaded from, a copy is what is stored.
LEMMA SavesApplied ==
  ASSUME NEW i, NEW d, NEW w, IsDoc(d), IsDoc(w)
  PROVE  LET c == Saves(i, d, w)
         IN  /\ c.doc = i /\ Accepts(d, c)
             /\ \A f \in Field : Applied(d, c)[f] = w[f]
             /\ \A f \in Field : f \in DOMAIN c.set <=> w[f] # d[f]
             /\ \A f \in DOMAIN c.set : c.set[f] = w[f]
<1> DEFINE c == Saves(i, d, w)
<1>1. c.doc = i /\ c.where \in {AnyVersion, d.ver}
  BY DEF Saves, SaveCommand
<1>2. c.set = [f \in Dirty(d, w) |-> w[f]]
  BY DEF Saves, SaveCommand
<1> HIDE DEF c
<1>3. \A f \in Field : f \in DOMAIN c.set <=> w[f] # d[f]
  BY <1>2 DEF Dirty, IsDoc
<1>4. \A f \in DOMAIN c.set : c.set[f] = w[f]
  BY <1>2
<1>5. "ver" \notin Field
  BY FieldFacts
<1>6. \A f \in Field : Applied(d, c)[f] = w[f]
  BY <1>3, <1>4, <1>5 DEF Applied, IsDoc
<1>7. Accepts(d, c)
  BY <1>1 DEF Accepts
<1> QED  BY <1>1, <1>3, <1>4, <1>6, <1>7 DEF c

\* Whether the saves in W carry the list S for incident i, or none carries any.
AllCarry(W, i, S) ==
  \A c \in W : c.doc = i /\ "related" \in DOMAIN c.set => c.set.related = S
NoneCarries(W, i) == \A c \in W : ~(c.doc = i /\ "related" \in DOMAIN c.set)

\* The only list in a set of saves is the list that will be stored.
LEMMA OneList ==
  ASSUME NEW W, NEW i, NEW old, NEW S, AllCarry(W, i, S), NoneCarries(W, i) => old = S
  PROVE  ListAfter(W, i, old) = S
<1> DEFINE V == {d \in W : d.doc = i /\ "related" \in DOMAIN d.set}
           L == {c.set.related : c \in V}
<1>1. CASE V = {}
  <2>1. L = {} /\ old = S
    BY <1>1 DEF NoneCarries
  <2> QED  BY <2>1 DEF ListAfter
<1>2. CASE V # {}
  <2>1. L = {S}
    BY <1>2 DEF AllCarry
  <2>2. UNION {S} = S
    OBVIOUS
  <2>3. ListAfter(W, i, old) = IF L = {} THEN old ELSE UNION L
    BY DEF ListAfter
  <2> HIDE DEF L
  <2> QED  BY <2>1, <2>2, <2>3
<1> QED  BY <1>1, <1>2

\* The list to be of an incident is the one that a save in flight carries, or
\* the stored one.
LEMMA ListToBeIs ==
  ASSUME NEW i, NEW S,
         \A q \in Request : \A c \in writes[q] :
           c.doc = i /\ "related" \in DOMAIN c.set => c.set.related = S,
         (\A q \in Request : \A c \in writes[q] :
            ~(c.doc = i /\ "related" \in DOMAIN c.set)) => incidents[i].related = S
  PROVE  ListToBe(i) = S
<1> DEFINE W == UNION {writes[q] : q \in Request}
           old == incidents[i].related
<1>1. \A c : c \in W <=> \E q \in Request : c \in writes[q]
  OBVIOUS
<1>2. ListToBe(i) = ListAfter(W, i, old)
  BY DEF ListToBe, ListAfter
<1>3. AllCarry(W, i, S)
  BY <1>1 DEF AllCarry
<1>4. NoneCarries(W, i) => old = S
  BY <1>1 DEF NoneCarries
<1> HIDE DEF W, old
<1>5. ListAfter(W, i, old) = S
  BY <1>3, <1>4, OneList
<1> QED  BY <1>2, <1>5

\* The same of the state that a step leads to.
LEMMA ListToBeIsNext ==
  ASSUME NEW i, NEW S,
         \A q \in Request : \A c \in writes'[q] :
           c.doc = i /\ "related" \in DOMAIN c.set => c.set.related = S,
         (\A q \in Request : \A c \in writes'[q] :
            ~(c.doc = i /\ "related" \in DOMAIN c.set)) => incidents'[i].related = S
  PROVE  ListToBe(i)' = S
<1> DEFINE W == UNION {writes'[q] : q \in Request}
           old == incidents'[i].related
<1>1. \A c : c \in W <=> \E q \in Request : c \in writes'[q]
  OBVIOUS
<1>2. ListToBe(i)' = ListAfter(W, i, old)
  BY DEF ListToBe, ListAfter
<1>3. AllCarry(W, i, S)
  BY <1>1 DEF AllCarry
<1>4. NoneCarries(W, i) => old = S
  BY <1>1 DEF NoneCarries
<1> HIDE DEF W, old
<1>5. ListAfter(W, i, old) = S
  BY <1>3, <1>4, OneList
<1> QED  BY <1>2, <1>5

\* Lists that name each other.
Symmetric(L) == \A i \in DOMAIN L : \A j \in L[i] : j \in DOMAIN L /\ i \in L[j]

\* The lists as stored.
storedLists == [i \in DOMAIN incidents |-> incidents[i].related]

\* With no save in flight and no failure the stored lists agree.
LEMMA StoredAgree ==
  ASSUME ListsWillAgree, \A q \in Request : writes[q] = {},
         \A q \in Request : pc[q] # "failed"
  PROVE  Symmetric(storedLists)
<1>1. \A i \in DOMAIN incidents : ListToBe(i) = incidents[i].related
  BY ListToBeIs
<1> QED  BY <1>1 DEF ListsWillAgree, Symmetric, storedLists

\* This step sends some of the saves, and leaves out those that change nothing;
\* the lists they carry, and those they leave as they are, are the lists L.
SentFor(commands, L) ==
  /\ \A q \in Request : writes'[q] \subseteq commands
  /\ \A c \in commands : (\A q \in Request : c \notin writes'[q]) => DOMAIN c.set = {}
  /\ \A c \in commands : "related" \in DOMAIN c.set => c.set.related = L[c.doc]
  /\ \A i \in DOMAIN incidents' :
       (\A c \in commands : ~(c.doc = i /\ "related" \in DOMAIN c.set)) =>
         incidents'[i].related = L[i]

\* Then the lists will be L.
LEMMA SentLists ==
  ASSUME NEW commands, NEW L, SentFor(commands, L)
  PROVE  \A i \in DOMAIN incidents' : ListToBe(i)' = L[i]
<1> SUFFICES ASSUME NEW i \in DOMAIN incidents' PROVE ListToBe(i)' = L[i]
  OBVIOUS
<1>1. \A q \in Request : \A c \in writes'[q] :
        c.doc = i /\ "related" \in DOMAIN c.set => c.set.related = L[i]
  BY DEF SentFor
<1>2. ASSUME \A q \in Request : \A c \in writes'[q] :
               ~(c.doc = i /\ "related" \in DOMAIN c.set)
      PROVE  incidents'[i].related = L[i]
  BY <1>2 DEF SentFor
<1> QED  BY <1>1, <1>2, ListToBeIsNext

\* A handler that finds nothing in flight sends sound saves, each to a document
\* of its own, that leave the lists as L.
LEMMA SendSequential ==
  ASSUME TypeOK, SequentialInv, NEW r \in Request, NEW commands, NEW L,
         \A q \in Request : (q # r => pc[q] \notin InFlight) /\ writes[q] = {},
         \A c \in commands : /\ c.doc \in DOMAIN incidents
                             /\ Accepts(incidents[c.doc], c) /\ SendsDated(c),
         \A c, d \in commands : c.doc = d.doc => c = d,
         DOMAIN L = DOMAIN incidents,
         \A c \in commands : "related" \in DOMAIN c.set => c.set.related = L[c.doc],
         \A i \in DOMAIN incidents :
           (\A c \in commands : ~(c.doc = i /\ "related" \in DOMAIN c.set)) =>
             incidents[i].related = L[i],
         (\A q \in Request : pc[q] # "failed") => Symmetric(L),
         pc[r] # "failed", Send(r, commands), UNCHANGED incidents
  PROVE  SequentialInv'
<1> DEFINE real == {c \in commands : DOMAIN c.set # {}}
<1>1. /\ \A q \in Request : writes'[q] = IF q = r THEN real ELSE {}
      /\ \A q \in Request : q # r => pc'[q] = pc[q]
      /\ pc'[r] = IF real = {} THEN "written" ELSE "saving"
  BY DEF Send, TypeOK
<1>2. \A q \in Request : pc'[q] # "working" /\ (pc'[q] = "failed" <=> pc[q] = "failed")
  BY <1>1 DEF InFlight
<1>3. OneAtWork'
  <2>1. \A p, q \in Request : pc'[p] \in InFlight /\ pc'[q] \in InFlight => p = q
    BY <1>1
  <2>2. \A q \in Request : writes'[q] # {} => pc'[q] = "saving"
    BY <1>1
  <2>3. \A q \in Request : \A c, d \in writes'[q] : c.doc = d.doc => c = d
    BY <1>1
  <2>4. \A q \in Request : \A c \in writes'[q] : Accepts(incidents'[c.doc], c)
    BY <1>1
  <2> QED  BY <2>1, <2>2, <2>3, <2>4, <1>2 DEF OneAtWork, OneSaving
<1>4. \A i \in DOMAIN incidents' : DateAgrees(incidents'[i])
  BY DEF SequentialInv
<1>5. \A q \in Request : \A c \in writes'[q] : SendsDated(c)'
  <2> SUFFICES ASSUME NEW q \in Request, NEW c \in writes'[q] PROVE SendsDated(c)'
    OBVIOUS
  <2>1. q = r /\ c \in commands
    BY <1>1
  <2>2. SendsDated(c)
    BY <2>1
  <2> QED  BY <2>2 DEF SendsDated
<1>6. ListsWillAgree'
  <2>1. \A q \in Request : writes'[q] \subseteq commands
    BY <1>1
  <2>2. \A c \in commands : (\A q \in Request : c \notin writes'[q]) => DOMAIN c.set = {}
    BY <1>1
  <2> HIDE DEF real
  <2>3. SentFor(commands, L)
    BY <2>1, <2>2 DEF SentFor
  <2>4. \A i \in DOMAIN incidents' : ListToBe(i)' = L[i]
    BY <2>3, SentLists
  <2> QED  BY <1>2, <2>4 DEF ListsWillAgree, Symmetric
<1> QED  BY <1>3, <1>4, <1>5, <1>6 DEF SequentialInv

\* A save of a copy of the stored document is sound when the copy is dated.
LEMMA SavesDated ==
  ASSUME NEW i, NEW w, IsDoc(incidents[i]), IsDoc(w), DateAgrees(w)
  PROVE  SendsDated(Saves(i, incidents[i], w))
<1> DEFINE d == incidents[i]
           c == Saves(i, d, w)
<1>1. /\ c.doc = i
      /\ \A f \in Field : Applied(d, c)[f] = w[f]
      /\ \A f \in DOMAIN c.set : c.set[f] = w[f]
  BY SavesApplied
<1> HIDE DEF c
<1>2. DateAgrees(Applied(d, c))
  BY <1>1, FieldFacts DEF DateAgrees
<1>3. SendsDated(c)
  BY <1>1, <1>2 DEF SendsDated
<1> QED  BY <1>3 DEF c

\* The handlers that save one document without touching its list.
LEMMA SaveSequential ==
  ASSUME TypeOK, SequentialInv, NEW r \in Request, NEW i \in DOMAIN incidents, NEW w,
         IsDoc(w), w.related = incidents[i].related, DateAgrees(w),
         \A q \in Request : pc[q] \notin InFlight /\ writes[q] = {},
         pc[r] # "failed", Send(r, {Saves(i, incidents[i], w)}), UNCHANGED incidents
  PROVE  SequentialInv'
<1> DEFINE c == Saves(i, incidents[i], w)
           L == storedLists
<1>1. IsDoc(incidents[i])
  BY DEF TypeOK
<1>2. c.doc = i /\ Accepts(incidents[i], c) /\ "related" \notin DOMAIN c.set
  BY <1>1, SavesApplied, FieldFacts
<1>3. SendsDated(c)
  BY <1>1, SavesDated
<1>4. (\A q \in Request : pc[q] # "failed") => Symmetric(L)
  BY StoredAgree DEF SequentialInv
<1>5. DOMAIN L = DOMAIN incidents /\ \A j \in DOMAIN incidents : incidents[j].related = L[j]
  BY DEF storedLists
<1> HIDE DEF c, L
<1>6. Send(r, {c})
  BY DEF c
<1>7. \A e \in {c} : /\ e.doc \in DOMAIN incidents
                     /\ Accepts(incidents[e.doc], e) /\ SendsDated(e)
  BY <1>2, <1>3
<1>8. \A e \in {c} : "related" \in DOMAIN e.set => e.set.related = L[e.doc]
  BY <1>2
<1>9. \A e, f \in {c} : e.doc = f.doc => e = f
  OBVIOUS
<1> QED  BY <1>4, <1>5, <1>6, <1>7, <1>8, <1>9, SendSequential

\* A handler that returns with nothing in flight.
LEMMA ReturnSequential ==
  ASSUME TypeOK, SequentialInv, NEW r \in Request, NEW answer \in {"done", "refused"},
         \A q \in Request : writes[q] = {}, pc[r] # "failed",
         Return(r, answer), UNCHANGED incidents
  PROVE  SequentialInv'
<1>1. /\ \A q \in Request : q # r => pc'[q] = pc[q] /\ held'[q] = held[q]
      /\ pc'[r] = answer /\ writes' = writes
  BY DEF Return, TypeOK
<1>2. answer \notin InFlight /\ answer # "failed"
  BY DEF InFlight
<1>3. OneAtWork'
  <2>1. \A p, q \in Request : pc'[p] \in InFlight /\ pc'[q] \in InFlight => p = q
    BY <1>1, <1>2 DEF SequentialInv, OneAtWork, OneSaving
  <2>2. \A q \in Request : pc'[q] = "working" =>
          held'[q].loaded = incidents'[held'[q].source]
    BY <1>1, <1>2 DEF SequentialInv, OneAtWork, OneSaving, InFlight
  <2> QED  BY <1>1, <2>1, <2>2 DEF OneAtWork, OneSaving
<1>4. ListsWillAgree'
  <2>1. \A i : ListToBe(i)' = ListToBe(i)
    BY <1>1 DEF ListToBe
  <2> QED  BY <1>1, <1>2, <2>1 DEF SequentialInv, ListsWillAgree
<1> QED  BY <1>1, <1>3, <1>4 DEF SequentialInv, SendsDated

\* POST /incidents: a new, unlinked document.
LEMMA CreateSequential ==
  ASSUME TypeOK, SequentialInv, NEW r \in Request, NEW i \in Incident,
         NEW sev \in Severity, NEW sv \in ServiceList, NEW a \in User \cup {None},
         Create(r, i, sev, sv, a),
         \A q \in Request : pc[q] \notin InFlight /\ writes[q] = {}
  PROVE  SequentialInv'
<1>1. /\ \A q \in Request : q # r => pc'[q] = pc[q]
      /\ pc'[r] = "written" /\ pc[r] = "idle" /\ writes' = writes
  BY DEF Create, Starts, TypeOK
<1>2. /\ DOMAIN incidents' = DOMAIN incidents \cup {i} /\ i \notin DOMAIN incidents
      /\ incidents'[i].related = {} /\ incidents'[i].resolvedAt = None
      /\ \A j \in DOMAIN incidents : incidents'[j] = incidents[j]
  BY DEF Create, NewIncident
<1>3. OneAtWork'
  <2>1. \A p, q \in Request : pc'[p] \in InFlight /\ pc'[q] \in InFlight => p = q
    BY <1>1
  <2>2. \A q \in Request : pc'[q] # "working"
    BY <1>1 DEF InFlight
  <2>3. \A q \in Request : writes'[q] = {}
    BY <1>1
  <2> QED  BY <2>1, <2>2, <2>3 DEF OneAtWork, OneSaving
<1>4. ListsWillAgree'
  <2>1. \A j \in DOMAIN incidents : /\ ListToBe(j)' = incidents[j].related
                                    /\ ListToBe(j) = incidents[j].related
    BY <1>1, <1>2, ListToBeIs, ListToBeIsNext
  <2>2. ListToBe(i)' = {}
    BY <1>1, <1>2, ListToBeIsNext
  <2>3. \A q \in Request : pc'[q] = "failed" <=> pc[q] = "failed"
    BY <1>1
  <2> QED  BY <1>2, <2>1, <2>2, <2>3 DEF SequentialInv, ListsWillAgree
<1>5. \A j \in DOMAIN incidents' : DateAgrees(incidents'[j])
  BY <1>2 DEF SequentialInv, DateAgrees
<1>6. \A q \in Request : writes'[q] = {}
  BY <1>1
<1> QED  BY <1>3, <1>4, <1>5, <1>6 DEF SequentialInv

\* PATCH status and POST resolve: the new status and its time travel together.
LEMMA ChangeStatusSequential ==
  ASSUME TypeOK, SequentialInv, NEW r \in Request, NEW i \in DOMAIN incidents,
         NEW s \in Status, ChangeStatus(r, i, s),
         \A q \in Request : pc[q] \notin InFlight /\ writes[q] = {}
  PROVE  SequentialInv'
<1> DEFINE w == WithStatus(incidents[i], s, r)
<1>1. pc[r] = "idle" /\ UNCHANGED incidents
  BY DEF ChangeStatus, Starts
<1>2. CASE incidents[i].status = s
  BY <1>1, <1>2, ReturnSequential DEF ChangeStatus
<1>3. CASE incidents[i].status # s
  <2>1. IsDoc(incidents[i]) /\ SoundIncidents
    BY DEF TypeOK, SoundIncidents
  <2>2. IsDoc(w)
    BY <2>1, ChangeStatusSends
  <2>3. /\ w.related = incidents[i].related /\ w.assignee = incidents[i].assignee
        /\ DateAgrees(w)
    BY <2>1, FieldFacts DEF WithStatus, DateAgrees, IsDoc
  <2>4. Send(r, {Saves(i, incidents[i], w)})
    BY <1>3 DEF ChangeStatus
  <2>5. pc[r] # "failed"
    BY <1>1
  <2> HIDE DEF w
  <2> QED  BY <1>1, <2>2, <2>3, <2>4, <2>5, SaveSequential
<1> QED  BY <1>2, <1>3

\* PATCH severity leaves dates and links alone.
LEMMA ChangeSeveritySequential ==
  ASSUME TypeOK, SequentialInv, NEW r \in Request, NEW i \in DOMAIN incidents,
         NEW sev \in Severity, ChangeSeverity(r, i, sev),
         \A q \in Request : pc[q] \notin InFlight /\ writes[q] = {}
  PROVE  SequentialInv'
<1> DEFINE w == [incidents[i] EXCEPT !["severity"] = sev]
<1>1. pc[r] = "idle" /\ UNCHANGED incidents
  BY DEF ChangeSeverity, Starts
<1>2. CASE incidents[i].severity = sev
  BY <1>1, <1>2, ReturnSequential DEF ChangeSeverity
<1>3. CASE incidents[i].severity # sev
  <2>1. IsDoc(incidents[i]) /\ DateAgrees(incidents[i])
    BY DEF TypeOK, SequentialInv
  <2>2. IsDoc(w)
    BY <2>1, ExceptType, FieldFacts
  <2>3. /\ w.related = incidents[i].related /\ w.assignee = incidents[i].assignee
        /\ w.status = incidents[i].status /\ w.resolvedAt = incidents[i].resolvedAt
    OBVIOUS
  <2>4. DateAgrees(w)
    BY <2>1, <2>3 DEF DateAgrees
  <2>5. Send(r, {Saves(i, incidents[i], w)})
    BY <1>3 DEF ChangeSeverity
  <2>6. pc[r] # "failed"
    BY <1>1
  <2> HIDE DEF w
  <2> QED  BY <1>1, <2>2, <2>3, <2>4, <2>5, <2>6, SaveSequential
<1> QED  BY <1>2, <1>3

\* PATCH assign.
LEMMA AssignSequential ==
  ASSUME TypeOK, SequentialInv, NEW r \in Request, NEW i \in DOMAIN incidents,
         NEW a \in User \cup {None}, Assign(r, i, a),
         \A q \in Request : pc[q] \notin InFlight /\ writes[q] = {}
  PROVE  SequentialInv'
<1> DEFINE e == incidents[i]
           w == [e EXCEPT !["assignee"] = a]
<1>1. pc[r] = "idle" /\ UNCHANGED incidents
  BY DEF Assign, Starts
<1>2. CASE ~AssignmentAllowed(Author[r], a, e.assignee)
  BY <1>1, <1>2, ReturnSequential DEF Assign
<1>3. CASE AssignmentAllowed(Author[r], a, e.assignee)
  <2>1. IsDoc(e) /\ DateAgrees(e)
    BY DEF TypeOK, SequentialInv
  <2>2. IsDoc(w)
    BY <2>1, ExceptType, FieldFacts
  <2>3. /\ w.related = e.related /\ w.status = e.status
        /\ w.resolvedAt = e.resolvedAt /\ w.assignee = a
    BY <2>1, FieldFacts DEF IsDoc
  <2>4. DateAgrees(w)
    BY <2>1, <2>3 DEF DateAgrees
  <2>5. Send(r, {Saves(i, e, w)})
    BY <1>3 DEF Assign
  <2>6. pc[r] # "failed"
    BY <1>1
  <2> HIDE DEF w
  <2> QED  BY <1>1, <2>2, <2>3, <2>4, <2>5, <2>6, SaveSequential
<1> QED  BY <1>2, <1>3

\* What PATCH of the incident sends of status and links.
LEMMA UpdateSends ==
  ASSUME NEW r \in Request, NEW loaded, NEW body \in Body
  PROVE  LET u == UpdateFields(r, loaded, body)
         IN  /\ "status" \in DOMAIN u <=> "resolvedAt" \in DOMAIN u
             /\ "resolvedAt" \in DOMAIN u /\ u.resolvedAt # None => u.status = Resolved
             /\ "related" \notin DOMAIN u
<1> DEFINE u == UpdateFields(r, loaded, body)
<1>1. DOMAIN body = {"status", "severity", "services", "assignee", "tags"}
  BY DEF Body
<1>2. "status" \in DOMAIN u <=> "resolvedAt" \in DOMAIN u
  BY <1>1 DEF UpdateFields
<1>3. "status" \in DOMAIN u => u.status = body.status[1]
  BY <1>1 DEF UpdateFields
<1>4. "resolvedAt" \in DOMAIN u =>
        u.resolvedAt = IF body.status = <<Resolved>> THEN r ELSE None
  BY <1>1 DEF UpdateFields
<1>6. "related" \notin DOMAIN u
  BY <1>1 DEF UpdateFields
<1> HIDE DEF u
<1>7. "resolvedAt" \in DOMAIN u /\ u.resolvedAt # None => u.status = Resolved
  BY <1>2, <1>3, <1>4
<1> QED  BY <1>2, <1>6, <1>7 DEF u

\* PATCH of the incident.
LEMMA UpdateSequential ==
  ASSUME TypeOK, SequentialInv, NEW r \in Request, NEW i \in DOMAIN incidents,
         NEW b \in Body, Update(r, i, b),
         \A q \in Request : pc[q] \notin InFlight /\ writes[q] = {}
  PROVE  SequentialInv'
<1> DEFINE e == incidents[i]
           u == UpdateFields(r, e, b)
           c == SetCommand(i, u)
           L == storedLists
           allowed == Present(b, "assignee") =>
                        AssignmentAllowed(Author[r], b.assignee[1], e.assignee)
<1>1. pc[r] = "idle" /\ UNCHANGED incidents
  BY DEF Update, Starts
<1>2. CASE ~allowed
  BY <1>1, <1>2, ReturnSequential DEF Update
<1>3. CASE allowed
  <2>1. IsDoc(e) /\ DateAgrees(e)
    BY DEF TypeOK, SequentialInv
  <2>2. /\ "status" \in DOMAIN u <=> "resolvedAt" \in DOMAIN u
        /\ "resolvedAt" \in DOMAIN u /\ u.resolvedAt # None => u.status = Resolved
        /\ "related" \notin DOMAIN u
    BY UpdateSends
  <2>3. Send(r, {c})
    BY <1>3 DEF Update
  <2> HIDE DEF u
  <2>4. c.doc = i /\ c.set = u /\ c.where = AnyVersion
    BY DEF SetCommand
  <2> HIDE DEF c
  <2>5. DateAgrees(Applied(e, c))
    <3>1. /\ Applied(e, c).status = IF "status" \in DOMAIN u THEN u.status ELSE e.status
          /\ Applied(e, c).resolvedAt = IF "resolvedAt" \in DOMAIN u THEN u.resolvedAt
                                                                     ELSE e.resolvedAt
      BY <2>1, <2>4, FieldFacts DEF Applied, IsDoc
    <3> QED  BY <2>1, <2>2, <3>1 DEF DateAgrees
  <2>7. SendsDated(c)
    BY <2>4, <2>5 DEF SendsDated
  <2>8. Accepts(e, c)
    BY <2>4 DEF Accepts
  <2>9. (\A q \in Request : pc[q] # "failed") => Symmetric(L)
    BY StoredAgree DEF SequentialInv
  <2>10. DOMAIN L = DOMAIN incidents /\ \A j \in DOMAIN incidents : incidents[j].related = L[j]
    BY DEF storedLists
  <2> HIDE DEF L
  <2>11. \A d \in {c} : /\ d.doc \in DOMAIN incidents
                        /\ Accepts(incidents[d.doc], d) /\ SendsDated(d)
    BY <2>4, <2>7, <2>8
  <2>12. \A d \in {c} : "related" \in DOMAIN d.set => d.set.related = L[d.doc]
    BY <2>2, <2>4
  <2>13. \A d, f \in {c} : d.doc = f.doc => d = f
    OBVIOUS
  <2> QED  BY <1>1, <2>3, <2>9, <2>10, <2>11, <2>12, <2>13, SendSequential
<1> QED  BY <1>2, <1>3

\* relate and unrelate hold the incident as it is stored.
LEMMA ReadFirstSequential ==
  ASSUME TypeOK, SequentialInv, NEW r \in Request, NEW e \in {"relate", "unrelate"},
         NEW i \in DOMAIN incidents, NEW j \in DOMAIN incidents, ReadFirst(r, e, i, j),
         \A q \in Request : pc[q] \notin InFlight /\ writes[q] = {}
  PROVE  SequentialInv'
<1>1. /\ \A q \in Request : q # r => pc'[q] = pc[q]
      /\ pc'[r] = "working" /\ pc[r] = "idle" /\ writes' = writes
      /\ held'[r].loaded = incidents[i] /\ held'[r].source = i /\ UNCHANGED incidents
  BY DEF ReadFirst, Starts, Await, TypeOK
<1>2. OneAtWork'
  <2>1. \A p, q \in Request : pc'[p] \in InFlight /\ pc'[q] \in InFlight => p = q
    BY <1>1
  <2>2. \A q \in Request : pc'[q] = "working" =>
          held'[q].loaded = incidents'[held'[q].source]
    BY <1>1 DEF InFlight
  <2>3. \A q \in Request : writes'[q] = {}
    BY <1>1
  <2> QED  BY <2>1, <2>2, <2>3 DEF OneAtWork, OneSaving
<1>3. ListsWillAgree'
  <2>1. \A k : ListToBe(k)' = ListToBe(k)
    BY <1>1 DEF ListToBe
  <2> QED  BY <1>1, <2>1 DEF SequentialInv, ListsWillAgree
<1> QED  BY <1>1, <1>2, <1>3 DEF SequentialInv, SendsDated

\* The handler in flight is the only one, and while it works or has written
\* nothing is on its way.
LEMMA OnlyOne ==
  ASSUME OneSaving, NEW r \in Request, pc[r] \in InFlight
  PROVE  /\ \A q \in Request : q # r => pc[q] \notin InFlight /\ writes[q] = {}
         /\ pc[r] # "saving" => writes[r] = {}
BY DEF OneSaving, InFlight

\* The two saves of relate and unrelate, when they leave the lists agreeing.
LEMMA PairSequential ==
  ASSUME TypeOK, SequentialInv, NEW r \in Request, pc[r] = "working",
         NEW S \in SUBSET Incident, NEW T \in SUBSET Incident,
         held[r].source = held[r].target => S = T,
         Symmetric(storedLists) =>
           Symmetric([i \in DOMAIN incidents |->
                        IF i = held[r].source THEN S
                        ELSE IF i = held[r].target THEN T ELSE incidents[i].related]),
         Send(r, {Saves(held[r].source, held[r].loaded,
                        [held[r].loaded EXCEPT !.related = S]),
                  Saves(held[r].target, incidents[held[r].target],
                        [incidents[held[r].target] EXCEPT !.related = T])}),
         UNCHANGED incidents
  PROVE  SequentialInv'
<1> DEFINE source == held[r].source   s == incidents[source]
           target == held[r].target   t == incidents[target]
           v == [s EXCEPT !["related"] = S]
           w == [t EXCEPT !["related"] = T]
           b == Saves(source, s, v)
           c == Saves(target, t, w)
           L == [i \in DOMAIN incidents |->
                   IF i = source THEN S ELSE IF i = target THEN T
                                        ELSE incidents[i].related]
<1>1. held[r].loaded = s
  BY DEF SequentialInv, OneAtWork, OneSaving
<1>2. source \in DOMAIN incidents /\ target \in DOMAIN incidents
  BY DEF TypeOK, IsHeld
<1>3. /\ \A q \in Request : (q # r => pc[q] \notin InFlight) /\ writes[q] = {}
      /\ pc[r] # "failed"
  BY OnlyOne DEF SequentialInv, OneAtWork, InFlight
<1>4. IsDoc(s) /\ IsDoc(t) /\ DateAgrees(s) /\ DateAgrees(t)
  BY <1>2 DEF TypeOK, SequentialInv
<1>5. /\ v.related = S /\ v.status = s.status /\ v.resolvedAt = s.resolvedAt
      /\ v.assignee = s.assignee
      /\ w.related = T /\ w.status = t.status /\ w.resolvedAt = t.resolvedAt
      /\ w.assignee = t.assignee
  BY <1>4, FieldFacts DEF IsDoc
<1>6. IsDoc(v) /\ IsDoc(w)
  BY <1>4, ExceptType, FieldFacts
<1>7. Send(r, {b, c})
  BY <1>1
<1>8. (\A q \in Request : pc[q] # "failed") => Symmetric(L)
  BY <1>3, StoredAgree DEF SequentialInv
<1>9. source = target => b = c
  OBVIOUS
<1>10. DOMAIN L = DOMAIN incidents
  OBVIOUS
<1>11. L[source] = S /\ L[target] = T
  BY <1>2
<1>12. \A i \in DOMAIN incidents : i # source /\ i # target => L[i] = incidents[i].related
  OBVIOUS
<1> HIDE DEF v, w, L
<1>13. DateAgrees(v) /\ DateAgrees(w)
  BY <1>4, <1>5 DEF DateAgrees
<1>14. /\ b.doc = source /\ Accepts(s, b) /\ SendsDated(b)
       /\ "related" \in DOMAIN b.set <=> S # s.related
       /\ "related" \in DOMAIN b.set => b.set.related = S
  <2>1. SendsDated(b)
    BY <1>4, <1>5, <1>6, <1>13, SavesDated
  <2>2. "related" \in Field
    BY FieldFacts
  <2> QED  BY <1>4, <1>5, <1>6, <2>1, <2>2, SavesApplied
<1>15. /\ c.doc = target /\ Accepts(t, c) /\ SendsDated(c)
       /\ "related" \in DOMAIN c.set <=> T # t.related
       /\ "related" \in DOMAIN c.set => c.set.related = T
  <2>1. SendsDated(c)
    BY <1>4, <1>5, <1>6, <1>13, SavesDated
  <2>2. "related" \in Field
    BY FieldFacts
  <2> QED  BY <1>4, <1>5, <1>6, <2>1, <2>2, SavesApplied
<1> HIDE DEF b, c
<1>16. \A d \in {b, c} : /\ d.doc \in DOMAIN incidents
                         /\ Accepts(incidents[d.doc], d) /\ SendsDated(d)
  BY <1>2, <1>14, <1>15
<1>17. \A d, e \in {b, c} : d.doc = e.doc => d = e
  BY <1>9, <1>14, <1>15
<1>18. \A d \in {b, c} : "related" \in DOMAIN d.set => d.set.related = L[d.doc]
  BY <1>11, <1>14, <1>15
<1>19. \A i \in DOMAIN incidents :
         (\A d \in {b, c} : ~(d.doc = i /\ "related" \in DOMAIN d.set)) =>
           incidents[i].related = L[i]
  BY <1>11, <1>12, <1>14, <1>15
<1> QED  BY <1>3, <1>7, <1>8, <1>10, <1>16, <1>17, <1>18, <1>19, SendSequential

\* The lists with a link put on both, or taken off both.
WithLink(L, a, b) ==
  [i \in DOMAIN L |-> IF i = a THEN L[a] \cup {b} ELSE IF i = b THEN L[b] \cup {a} ELSE L[i]]
WithoutLink(L, a, b) ==
  [i \in DOMAIN L |-> IF i = a THEN L[a] \ {b} ELSE IF i = b THEN L[b] \ {a} ELSE L[i]]

\* They name each other as before.
LEMMA PairSymmetric ==
  ASSUME NEW L, Symmetric(L), NEW a \in DOMAIN L, NEW b \in DOMAIN L
  PROVE  Symmetric(WithLink(L, a, b)) /\ Symmetric(WithoutLink(L, a, b))
<1>1. \A i \in DOMAIN L : \A j \in L[i] : j \in DOMAIN L /\ i \in L[j]
  BY DEF Symmetric
<1>2. Symmetric(WithLink(L, a, b))
  <2> DEFINE M == WithLink(L, a, b)
  <2>0. DOMAIN M = DOMAIN L
    BY DEF WithLink
  <2> SUFFICES ASSUME NEW i \in DOMAIN L, NEW j \in M[i]
               PROVE  j \in DOMAIN L /\ i \in M[j]
    BY <2>0 DEF Symmetric
  <2>1. CASE i = a
    BY <1>1, <2>1 DEF WithLink
  <2>2. CASE i # a /\ i = b
    BY <1>1, <2>2 DEF WithLink
  <2>3. CASE i # a /\ i # b
    BY <1>1, <2>3 DEF WithLink
  <2> QED  BY <2>1, <2>2, <2>3
<1>3. Symmetric(WithoutLink(L, a, b))
  <2> DEFINE M == WithoutLink(L, a, b)
  <2>0. DOMAIN M = DOMAIN L
    BY DEF WithoutLink
  <2> SUFFICES ASSUME NEW i \in DOMAIN L, NEW j \in M[i]
               PROVE  j \in DOMAIN L /\ i \in M[j]
    BY <2>0 DEF Symmetric
  <2>1. CASE i = a
    BY <1>1, <2>1 DEF WithoutLink
  <2>2. CASE i # a /\ i = b
    BY <1>1, <2>2 DEF WithoutLink
  <2>3. CASE i # a /\ i # b
    BY <1>1, <2>3 DEF WithoutLink
  <2> QED  BY <2>1, <2>2, <2>3
<1> QED  BY <1>2, <1>3

\* relate puts the link on both lists.
LEMMA RelateSequential ==
  ASSUME TypeOK, SequentialInv, NEW r \in Request, Relate(r)
  PROVE  SequentialInv'
<1> DEFINE source == held[r].source   s == held[r].loaded
           target == held[r].target   t == incidents[target]
           S == s.related \cup {target}
           T == t.related \cup {source}
<1>1. pc[r] = "working" /\ UNCHANGED incidents
  BY DEF Relate, At
<1>2. source \in DOMAIN incidents /\ target \in DOMAIN incidents /\ s = incidents[source]
  BY <1>1 DEF TypeOK, IsHeld, SequentialInv, OneAtWork, OneSaving
<1>3. CASE CanRelate(source, s, target, t)
  <2>1. S \in SUBSET Incident /\ T \in SUBSET Incident
    BY <1>1, RelatedType
  <2>2. source # target
    BY <1>3 DEF CanRelate
  <2>3. Symmetric(storedLists) =>
          Symmetric([i \in DOMAIN incidents |->
                       IF i = source THEN S ELSE IF i = target THEN T
                                            ELSE incidents[i].related])
    <3>1. /\ DOMAIN storedLists = DOMAIN incidents
          /\ \A i \in DOMAIN incidents : storedLists[i] = incidents[i].related
      BY DEF storedLists
    <3>2. [i \in DOMAIN incidents |->
             IF i = source THEN S ELSE IF i = target THEN T ELSE incidents[i].related]
          = WithLink(storedLists, source, target)
      BY <1>2, <3>1 DEF WithLink
    <3>3. source \in DOMAIN storedLists /\ target \in DOMAIN storedLists
      BY <1>2, <3>1
    <3>4. Symmetric(storedLists) => Symmetric(WithLink(storedLists, source, target))
      BY <3>3, PairSymmetric
    <3> QED  BY <3>2, <3>4
  <2>4. Send(r, {Saves(source, s, [s EXCEPT !.related = S]),
                 Saves(target, t, [t EXCEPT !.related = T])})
    <3>1. /\ [s EXCEPT !.related = @ \cup {target}] = [s EXCEPT !.related = S]
          /\ [t EXCEPT !.related = @ \cup {source}] = [t EXCEPT !.related = T]
      OBVIOUS
    <3> QED  BY <1>3, <3>1 DEF Relate
  <2> QED  BY <1>1, <2>1, <2>2, <2>3, <2>4, PairSequential
<1>4. CASE ~CanRelate(source, s, target, t)
  <2>1. Return(r, "refused")
    BY <1>4 DEF Relate
  <2>2. \A q \in Request : writes[q] = {}
    BY <1>1, OnlyOne DEF SequentialInv, OneAtWork, InFlight
  <2> QED  BY <1>1, <2>1, <2>2, ReturnSequential
<1> QED  BY <1>3, <1>4

\* unrelate takes it off both.
LEMMA UnrelateSequential ==
  ASSUME TypeOK, SequentialInv, NEW r \in Request, Unrelate(r)
  PROVE  SequentialInv'
<1> DEFINE source == held[r].source   s == held[r].loaded
           target == held[r].target   t == incidents[target]
           S == s.related \ {target}
           T == t.related \ {source}
<1>1. pc[r] = "working" /\ UNCHANGED incidents
  BY DEF Unrelate, At
<1>2. source \in DOMAIN incidents /\ target \in DOMAIN incidents /\ s = incidents[source]
  BY <1>1 DEF TypeOK, IsHeld, SequentialInv, OneAtWork, OneSaving
<1>3. S \in SUBSET Incident /\ T \in SUBSET Incident
  BY <1>1, RelatedType
<1>4. source = target => S = T
  BY <1>2
<1>5. Symmetric(storedLists) =>
        Symmetric([i \in DOMAIN incidents |->
                     IF i = source THEN S ELSE IF i = target THEN T
                                          ELSE incidents[i].related])
  <2>1. /\ DOMAIN storedLists = DOMAIN incidents
        /\ \A i \in DOMAIN incidents : storedLists[i] = incidents[i].related
    BY DEF storedLists
  <2>2. [i \in DOMAIN incidents |->
           IF i = source THEN S ELSE IF i = target THEN T ELSE incidents[i].related]
        = WithoutLink(storedLists, source, target)
    BY <1>2, <2>1 DEF WithoutLink
  <2>3. source \in DOMAIN storedLists /\ target \in DOMAIN storedLists
    BY <1>2, <2>1
  <2>4. Symmetric(storedLists) => Symmetric(WithoutLink(storedLists, source, target))
    BY <2>3, PairSymmetric
  <2> QED  BY <2>2, <2>4
<1>6. Send(r, {Saves(source, s, [s EXCEPT !.related = S]),
               Saves(target, t, [t EXCEPT !.related = T])})
  <2>1. /\ [s EXCEPT !.related = @ \ {target}] = [s EXCEPT !.related = S]
        /\ [t EXCEPT !.related = @ \ {source}] = [t EXCEPT !.related = T]
    OBVIOUS
  <2> QED  BY <2>1 DEF Unrelate
<1> QED  BY <1>1, <1>3, <1>4, <1>5, <1>6, PairSequential

\* MongoDB executes a save: what was to be is now stored.
LEMMA ExecuteSequential ==
  ASSUME TypeOK, SequentialInv, NEW r \in Request, NEW c \in writes[r], ExecuteSave(r, c)
  PROVE  SequentialInv'
<1>1. pc[r] = "saving"
  BY DEF SequentialInv, OneAtWork, OneSaving
<1>2. \A q \in Request : q # r => pc[q] \notin InFlight /\ writes[q] = {}
  BY <1>1, OnlyOne DEF SequentialInv, OneAtWork, InFlight
<1>3. /\ \A q \in Request : q # r => pc'[q] = pc[q] /\ writes'[q] = {}
      /\ writes'[r] = writes[r] \ {c}
      /\ pc'[r] = IF writes'[r] = {} THEN "written" ELSE "saving"
  BY <1>1, <1>2 DEF ExecuteSave, TypeOK
<1>4. /\ c.doc \in DOMAIN incidents /\ DOMAIN incidents' = DOMAIN incidents
      /\ \A i \in DOMAIN incidents : i # c.doc => incidents'[i] = incidents[i]
      /\ incidents'[c.doc].related = IF "related" \in DOMAIN c.set THEN c.set.related
                                     ELSE incidents[c.doc].related
  BY ExecuteEffect
<1>5. incidents'[c.doc] = Applied(incidents[c.doc], c)
  BY <1>4 DEF ExecuteSave, TypeOK
<1>6. \A d \in writes[r] : d.doc = c.doc => d = c
  BY DEF SequentialInv, OneAtWork, OneSaving
<1>7. \A d \in writes'[r] : /\ d \in writes[r] /\ d.doc \in DOMAIN incidents
                            /\ incidents'[d.doc] = incidents[d.doc]
  BY <1>3, <1>4, <1>6 DEF TypeOK, IsCommand
<1>8. OneAtWork'
  <2>1. \A p, q \in Request : pc'[p] \in InFlight /\ pc'[q] \in InFlight => p = q
    BY <1>2, <1>3
  <2>2. \A q \in Request : writes'[q] # {} => pc'[q] = "saving"
    BY <1>3
  <2>3. \A q \in Request : \A b, d \in writes'[q] : b.doc = d.doc => b = d
    BY <1>3 DEF SequentialInv, OneAtWork, OneSaving
  <2>4. \A q \in Request : \A d \in writes'[q] : Accepts(incidents'[d.doc], d)
    BY <1>3, <1>7 DEF SequentialInv, OneAtWork, OneSaving
  <2>5. \A q \in Request : pc'[q] # "working"
    BY <1>2, <1>3 DEF InFlight
  <2> QED  BY <2>1, <2>2, <2>3, <2>4, <2>5 DEF OneAtWork, OneSaving
<1>9. \A i \in DOMAIN incidents' : DateAgrees(incidents'[i])
  BY <1>4, <1>5 DEF SequentialInv, SendsDated
<1>10. \A q \in Request : \A d \in writes'[q] : SendsDated(d)'
  <2> SUFFICES ASSUME NEW q \in Request, NEW d \in writes'[q] PROVE SendsDated(d)'
    OBVIOUS
  <2>1. q = r /\ d \in writes[r] /\ incidents'[d.doc] = incidents[d.doc]
    BY <1>3, <1>7
  <2>2. SendsDated(d)
    BY <2>1 DEF SequentialInv
  <2> QED  BY <2>1, <2>2 DEF SendsDated
<1>11. ListsWillAgree'
  <2>1. \A i \in DOMAIN incidents : ListToBe(i)' = ListToBe(i)
    <3> SUFFICES ASSUME NEW i \in DOMAIN incidents PROVE ListToBe(i)' = ListToBe(i)
      OBVIOUS
    <3>1. CASE i = c.doc
      <4> DEFINE S == IF "related" \in DOMAIN c.set THEN c.set.related
                                                   ELSE incidents[i].related
      <4>a. \A q \in Request : \A d \in writes[q] : d.doc = i => d = c
        BY <1>2, <1>6, <3>1
      <4>b. \A q \in Request : \A d \in writes[q] :
              d.doc = i /\ "related" \in DOMAIN d.set => d.set.related = S
        BY <4>a
      <4>c. (\A q \in Request : \A d \in writes[q] :
               ~(d.doc = i /\ "related" \in DOMAIN d.set)) => incidents[i].related = S
        BY <3>1
      <4>1. ListToBe(i) = S
        <5> HIDE DEF S
        <5> QED  BY <4>b, <4>c, ListToBeIs
      <4>2. ListToBe(i)' = S
        BY <1>3, <1>4, <1>6, <3>1, ListToBeIsNext
      <4> QED  BY <4>1, <4>2
    <3>2. CASE i # c.doc
      <4>1. \A d : d \in UNION {writes'[q] : q \in Request} /\ d.doc = i <=>
                   d \in UNION {writes[q] : q \in Request} /\ d.doc = i
        BY <1>2, <1>3, <3>2
      <4>2. {d \in UNION {writes'[q] : q \in Request} : d.doc = i /\ "related" \in DOMAIN d.set}
              = {d \in UNION {writes[q] : q \in Request} : d.doc = i /\ "related" \in DOMAIN d.set}
        BY <4>1
      <4>3. incidents'[i].related = incidents[i].related
        BY <1>4, <3>2
      <4> QED  BY <4>2, <4>3 DEF ListToBe, ListAfter
    <3> QED  BY <3>1, <3>2
  <2>2. \A q \in Request : pc'[q] = "failed" <=> pc[q] = "failed"
    BY <1>1, <1>3
  <2> QED  BY <1>4, <2>1, <2>2 DEF SequentialInv, ListsWillAgree
<1> QED  BY <1>8, <1>9, <1>10, <1>11 DEF SequentialInv

\* The handler announces what it has written.
LEMMA AnnounceSequential ==
  ASSUME TypeOK, SequentialInv, NEW r \in Request, Announce(r)
  PROVE  SequentialInv'
<1>1. /\ \A q \in Request : q # r => pc'[q] = pc[q]
      /\ pc'[r] = "done" /\ pc[r] = "written" /\ UNCHANGED <<incidents, held, writes>>
  BY DEF Announce, TypeOK
<1>2. writes[r] = {}
  BY <1>1, OnlyOne DEF SequentialInv, OneAtWork, InFlight
<1>3. OneAtWork'
  <2>1. \A p, q \in Request : pc'[p] \in InFlight /\ pc'[q] \in InFlight => p = q
    BY <1>1 DEF SequentialInv, OneAtWork, OneSaving, InFlight
  <2>2. \A q \in Request : writes'[q] # {} => pc'[q] = "saving"
    BY <1>1, <1>2 DEF SequentialInv, OneAtWork, OneSaving
  <2>3. \A q \in Request : pc'[q] = "working" =>
          held'[q].loaded = incidents'[held'[q].source]
    BY <1>1 DEF SequentialInv, OneAtWork, OneSaving
  <2> QED  BY <1>1, <2>1, <2>2, <2>3 DEF SequentialInv, OneAtWork, OneSaving
<1>4. ListsWillAgree'
  <2>1. \A i : ListToBe(i)' = ListToBe(i)
    BY <1>1 DEF ListToBe
  <2>2. \A q \in Request : pc'[q] = "failed" <=> pc[q] = "failed"
    BY <1>1
  <2> QED  BY <1>1, <2>1, <2>2 DEF SequentialInv, ListsWillAgree
<1> QED  BY <1>1, <1>3, <1>4 DEF SequentialInv, SendsDated

\* A crash fails the handler at work: its links are no longer promised.
LEMMA CrashSequential ==
  ASSUME TypeOK, SequentialInv, Crash
  PROVE  SequentialInv'
<1>1. PICK r \in Request : pc[r] \in InFlight
  BY DEF Crash
<1>2. /\ \A q \in Request : pc'[q] \notin InFlight /\ writes'[q] = {}
      /\ pc'[r] = "failed" /\ UNCHANGED incidents
  BY <1>1 DEF Crash, InFlight
<1>3. OneAtWork'
  BY <1>2 DEF OneAtWork, OneSaving, InFlight
<1>4. ListsWillAgree'
  BY <1>2 DEF ListsWillAgree
<1> QED  BY <1>2, <1>3, <1>4 DEF SequentialInv

\* Every step of calls that do not overlap preserves the invariant.
LEMMA SequentialStep ==
  ASSUME MaxInFlight = 1, TypeOK, SavesAwaited, SequentialInv, [Next]_vars
  PROVE  SequentialInv'
<1>1. CASE UNCHANGED vars
  <2>1. \A i : ListToBe(i)' = ListToBe(i)
    BY <1>1 DEF ListToBe, vars
  <2> QED  BY <1>1, <2>1 DEF vars, SequentialInv, OneAtWork, OneSaving, ListsWillAgree, SendsDated
<1>2. CASE Crash
  BY <1>2, CrashSequential
<1>3. ASSUME NEW r \in Request, Begin(r) PROVE SequentialInv'
  <2> DEFINE free == \A q \in Request : pc[q] \notin InFlight /\ writes[q] = {}
  <2>0. OneSaving
    BY DEF SequentialInv, OneAtWork
  <2>1. ASSUME NEW i \in Incident, NEW sev \in Severity, NEW sv \in ServiceList,
               NEW a \in User \cup {None}, Create(r, i, sev, sv, a)
        PROVE  SequentialInv'
    <3>1. free
      BY <2>0, <2>1, NoneAtWork DEF Create
    <3> QED  BY <2>1, <3>1, CreateSequential
  <2>2. ASSUME NEW i \in DOMAIN incidents, NEW s \in Status, ChangeStatus(r, i, s)
        PROVE  SequentialInv'
    <3>1. free
      BY <2>0, <2>2, NoneAtWork DEF ChangeStatus
    <3> QED  BY <2>2, <3>1, ChangeStatusSequential
  <2>3. ASSUME NEW i \in DOMAIN incidents, NEW sev \in Severity,
               ChangeSeverity(r, i, sev)
        PROVE  SequentialInv'
    <3>1. free
      BY <2>0, <2>3, NoneAtWork DEF ChangeSeverity
    <3> QED  BY <2>3, <3>1, ChangeSeveritySequential
  <2>4. ASSUME NEW i \in DOMAIN incidents, NEW a \in User \cup {None}, Assign(r, i, a)
        PROVE  SequentialInv'
    <3>1. free
      BY <2>0, <2>4, NoneAtWork DEF Assign
    <3> QED  BY <2>4, <3>1, AssignSequential
  <2>5. ASSUME NEW i \in DOMAIN incidents, NEW b \in Body, Update(r, i, b)
        PROVE  SequentialInv'
    <3>1. free
      BY <2>0, <2>5, NoneAtWork DEF Update
    <3> QED  BY <2>5, <3>1, UpdateSequential
  <2>6. ASSUME NEW i \in DOMAIN incidents, NEW j \in DOMAIN incidents,
               NEW e \in {"relate", "unrelate"}, ReadFirst(r, e, i, j)
        PROVE  SequentialInv'
    <3>1. free
      BY <2>0, <2>6, NoneAtWork DEF ReadFirst
    <3> QED  BY <2>6, <3>1, ReadFirstSequential
  <2> QED  BY <1>3, <2>1, <2>2, <2>3, <2>4, <2>5, <2>6 DEF Begin
<1>4. ASSUME NEW r \in Request, Proceed(r) PROVE SequentialInv'
  <2>1. CASE Relate(r)
    BY <2>1, RelateSequential
  <2>2. CASE Unrelate(r)
    BY <2>2, UnrelateSequential
  <2>3. ASSUME NEW c \in writes[r], ExecuteSave(r, c) PROVE SequentialInv'
    BY <2>3, ExecuteSequential
  <2>4. ASSUME NEW c \in writes[r], RefuseSave(r, c) PROVE SequentialInv'
    BY <2>4 DEF RefuseSave, SequentialInv, OneAtWork, OneSaving
  <2>5. CASE Announce(r)
    BY <2>5, AnnounceSequential
  <2> QED  BY <1>4, <2>1, <2>2, <2>3, <2>4, <2>5 DEF Proceed
<1> QED  BY <1>1, <1>2, <1>3, <1>4 DEF Next

\* Initially nothing is linked, dated or in flight.
LEMMA InitSequential == Init => SequentialInv
<1> SUFFICES ASSUME Init PROVE SequentialInv
  OBVIOUS
<1>1. PICK D \in SUBSET Incident :
        incidents \in [D -> {NewIncident(sev, sv, None) :
                               sev \in Severity, sv \in ServiceList}]
  BY DEF Init
<1>2. \A i \in DOMAIN incidents : incidents[i].resolvedAt = None /\ incidents[i].related = {}
  BY <1>1 DEF NewIncident
<1>3. \A q \in Request : pc[q] = "idle" /\ writes[q] = {}
  BY DEF Init
<1>4. \A i \in DOMAIN incidents : ListToBe(i) = {}
  BY <1>2, <1>3, ListToBeIs
<1>5. OneAtWork
  BY <1>3 DEF OneAtWork, OneSaving, InFlight
<1>6. ListsWillAgree
  BY <1>4 DEF ListsWillAgree
<1> QED  BY <1>2, <1>3, <1>5, <1>6 DEF SequentialInv, DateAgrees

\* The invariant of calls that do not overlap.
LEMMA SequentialSound ==
  ASSUME MaxInFlight = 1
  PROVE  Spec => [](TypeOK /\ SavesAwaited /\ SequentialInv)
<1>1. Init => SequentialInv
  BY InitSequential
<1>2. TypeOK /\ SavesAwaited /\ SequentialInv /\ [Next]_vars => SequentialInv'
  BY SequentialStep
<1> QED  BY <1>1, <1>2, TypeCorrect, PTL DEF Spec

\* When calls do not overlap, an incident that is not RESOLVED has no time of
\* resolution: a reopening always clears it (changeStatus, update).
THEOREM ReopenedHasNoDate ==
  ASSUME MaxInFlight = 1 PROVE Spec => []OnlyResolvedIsDated
<1>1. SequentialInv => OnlyResolvedIsDated
  BY DEF SequentialInv, DateAgrees, OnlyResolvedIsDated
<1> QED  BY <1>1, SequentialSound, PTL

\* When calls do not overlap and none has failed half way, links are on both
\* incidents or on neither (relate, unrelate).
THEOREM LinksAreMutual ==
  ASSUME MaxInFlight = 1 PROVE Spec => []LinksAgree
<1>1. SequentialInv => LinksAgree
  <2> SUFFICES ASSUME SequentialInv,
                      \A q \in Request : pc[q] \in {"idle", "done", "refused"},
                      NEW i \in DOMAIN incidents, NEW j \in DOMAIN incidents
               PROVE  j \in incidents[i].related <=> i \in incidents[j].related
    BY DEF LinksAgree
  <2>1. \A q \in Request : writes[q] = {} /\ pc[q] # "failed"
    BY DEF SequentialInv, OneAtWork, OneSaving
  <2>2. Symmetric(storedLists)
    BY <2>1, StoredAgree DEF SequentialInv
  <2> QED  BY <2>2 DEF Symmetric, storedLists
<1> QED  BY <1>1, SequentialSound, PTL

=============================================================================
