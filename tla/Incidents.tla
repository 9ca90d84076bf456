----------------------------- MODULE Incidents -----------------------------
(***************************************************************************)
(* The incidents collection and the HTTP handlers of IncidentsService that *)
(* change it.  The back end is one Node process: a handler runs undivided  *)
(* between two awaits, and other handlers run at every await.  A handler   *)
(* is therefore a read (or two), then its saves, then the audit entry, the *)
(* cache eviction and the event, with any other handler in between.        *)
(*                                                                         *)
(* Each member of Request is one HTTP call; the proofs hold for any number *)
(* of them.  The time of a resolution is represented by the request that   *)
(* stamped it, since only its presence and its change matter.  A list of   *)
(* related incidents is a set; the list of services keeps its order,       *)
(* because its first entry decides the correlation key.                    *)
(***************************************************************************)
EXTENDS Mongoose, Sequences, FiniteSets

CONSTANTS
  Incident,      \* identities of incident documents
  Request,       \* HTTP calls, each made once
  User,          \* people an incident can be assigned to
  Operator,      \* those of them whose role is OPERATOR
  Author,        \* Author[r]: the user who makes call r
  ServiceList,   \* the normalized service lists clients send
  Resource,      \* correlation keys of shared resources, given by alerts only
  LiveStatus,    \* the statuses other than RESOLVED
  Tag,           \* the tags clients send
  Severity,      \* the severity weights in use: P1 is 1, P4 is 4
  BodyField,     \* the fields clients put in the body of an update
  None,          \* null
  Endpoint,      \* the endpoints clients call in this instance
  MaxInFlight    \* how many calls may overlap

Resolved == "RESOLVED"
Status   == LiveStatus \cup {Resolved}
ArrayFields == {"services", "related", "tags"}

ASSUME NoneAssumption   == None \notin User \cup Incident \cup Request
ASSUME StatusAssumption == Resolved \notin LiveStatus /\ "OPEN" \in LiveStatus
ASSUME SeverityAssumption == Severity \subseteq 1..4
ASSUME AuthorAssumption == Author \in [Request -> User]

VARIABLES
  incidents,   \* the collection: a function from the stored identities
  pc,          \* where each handler stands
  held,        \* what a handler keeps between two awaits, or None
  writes       \* the saves a handler has sent and MongoDB not yet executed

vars == <<incidents, pc, held, writes>>

\* "idle" before the call, "working" between its awaits, "saving" while
\* saves are in flight, "written" before the audit entry; then "done" (audited,
\* evicted, emitted), "refused" (4xx) or "failed" (5xx, or the process died).
InFlight == {"working", "saving", "written"}
Ended    == {"done", "refused", "failed"}

-----------------------------------------------------------------------------
(* The documents. *)

\* Mistake: the key is the whole list.
keyOfAllServices(services) == services

\* The correlation key that services alone decide: that of the first one.
correlationKeyForServices(services) == Head(services)

\* A new incident of POST /incidents.
NewIncident(severity, services, assignee) ==
  [status |-> "OPEN", severity |-> severity, services |-> services,
   key |-> correlationKeyForServices(services), assignee |-> assignee,
   resolvedAt |-> None, related |-> {}, mergedInto |-> None, tags |-> {},
   ver |-> 0]

\* assertOperatorAssignmentAllowed for an assignee of the request body: an
\* operator may claim for itself, or give up an incident it holds.
AssignmentAllowed(user, assignee, current) ==
  \/ user \notin Operator
  \/ assignee = user
  \/ assignee = None /\ current = user

\* Mistake: reopening keeps the old resolution time.
WithStatusDateKept(doc, newStatus, r) ==
  [doc EXCEPT !.status = newStatus,
              !.resolvedAt = IF newStatus = Resolved THEN r ELSE @]

\* The status fields after newStatus is set by request r.
WithStatus(doc, newStatus, r) ==
  [doc EXCEPT !.status = newStatus,
              !.resolvedAt = IF newStatus = Resolved THEN r ELSE None]

-----------------------------------------------------------------------------
(* How a handler starts, sends its saves and ends. *)

Starts(r, endpoint) ==
  /\ endpoint \in Endpoint
  /\ pc[r] = "idle"
  /\ Cardinality({q \in Request : pc[q] \in InFlight}) < MaxInFlight

\* await Promise.all([...].map(save)): a document without changes sends nothing.
Send(r, commands) ==
  LET real == {c \in commands : DOMAIN c.set # {}} IN
  /\ writes' = [writes EXCEPT ![r] = real]
  /\ pc' = [pc EXCEPT ![r] = IF real = {} THEN "written" ELSE "saving"]
  /\ held' = [held EXCEPT ![r] = None]

Saves(i, loaded, wanted) == SaveCommand(i, loaded, wanted, ArrayFields)

\* The handler returns with no further change of its own.
Return(r, answer) ==
  /\ pc' = [pc EXCEPT ![r] = answer]
  /\ held' = [held EXCEPT ![r] = None]
  /\ UNCHANGED writes

\* The handler awaits another call before its saves, and holds what it loaded.
Await(r, next) ==
  /\ pc' = [pc EXCEPT ![r] = "working"]
  /\ held' = [held EXCEPT ![r] = next]
  /\ UNCHANGED writes

At(r, step) == pc[r] = "working" /\ held[r].step = step

-----------------------------------------------------------------------------
(* The handlers up to their saves. *)

Create(r, i, severity, services, assignee) ==
  /\ Starts(r, "create")
  /\ i \notin DOMAIN incidents
  /\ Author[r] \in Operator => assignee = None
  /\ incidents' = [j \in DOMAIN incidents \cup {i} |->
                     IF j = i THEN NewIncident(severity, services, assignee)
                     ELSE incidents[j]]
  /\ pc' = [pc EXCEPT ![r] = "written"]
  /\ UNCHANGED <<held, writes>>

\* PATCH /incidents/:ref/status and POST /incidents/:ref/resolve.
ChangeStatus(r, i, newStatus) ==
  /\ Starts(r, "status")
  /\ IF incidents[i].status = newStatus
       THEN Return(r, "done")
       ELSE Send(r, {Saves(i, incidents[i],
                           WithStatus(incidents[i], newStatus, r))})
  /\ UNCHANGED incidents

ChangeSeverity(r, i, newSeverity) ==
  /\ Starts(r, "severity")
  /\ IF incidents[i].severity = newSeverity
       THEN Return(r, "done")
       ELSE Send(r, {Saves(i, incidents[i],
                           [incidents[i] EXCEPT !.severity = newSeverity])})
  /\ UNCHANGED incidents

Assign(r, i, assignee) ==
  /\ Starts(r, "assign")
  /\ IF AssignmentAllowed(Author[r], assignee, incidents[i].assignee)
       THEN Send(r, {Saves(i, incidents[i],
                           [incidents[i] EXCEPT !.assignee = assignee])})
       ELSE Return(r, "refused")
  /\ UNCHANGED incidents

\* A field of a request body is absent, <<>>, or present, <<value>>.
Optional(f, S) == IF f \in BodyField THEN {<<>>} \cup {<<v>> : v \in S}
                                     ELSE {<<>>}
Present(body, f) == body[f] # <<>>

\* Mistake: a status in the body is assigned without its resolution time.
UpdateFieldsUndated(r, loaded, body) ==
  LET given == {f \in DOMAIN body : Present(body, f)}
  IN [f \in given |-> body[f][1]]

\* The fields PATCH /incidents/:ref assigns for a body: those it gives, except
\* a status or severity equal to the loaded one; services bring their
\* correlation key and a status its resolution time.
UpdateFields(r, loaded, body) ==
  LET given == {f \in DOMAIN body :
                  /\ Present(body, f)
                  /\ f \in {"status", "severity"} => body[f] # <<loaded[f]>>}
      derived == {f \in {"key", "resolvedAt"} :
                    \/ f = "key" /\ "services" \in given
                    \/ f = "resolvedAt" /\ "status" \in given}
  IN [f \in given \cup derived |->
        CASE f = "key" -> correlationKeyForServices(body.services[1])
          [] f = "resolvedAt" -> IF body.status = <<Resolved>> THEN r ELSE None
          [] OTHER -> body[f][1]]

Update(r, i, body) ==
  /\ Starts(r, "update")
  /\ IF Present(body, "assignee") =>
          AssignmentAllowed(Author[r], body.assignee[1], incidents[i].assignee)
       THEN Send(r, {SetCommand(i, UpdateFields(r, incidents[i], body))})
       ELSE Return(r, "refused")
  /\ UNCHANGED incidents

\* relate and unrelate load the first incident, then the second.
ReadFirst(r, endpoint, i, j) ==
  /\ Starts(r, endpoint)
  /\ Await(r, [step |-> endpoint, source |-> i, loaded |-> incidents[i], target |-> j])
  /\ UNCHANGED incidents

\* The copies that relate() works on, and what it asks of them.
CanRelate(source, s, target, t) ==
  /\ source # target
  /\ ~(s.status = Resolved /\ t.status = Resolved)
  /\ target \notin s.related
  /\ source \notin t.related

\* Mistake: the lists are overwritten with findByIdAndUpdate.
RelateByUpdate(r) ==
  /\ At(r, "relate")
  /\ LET source == held[r].source   s == held[r].loaded
         target == held[r].target   t == incidents[target]
     IN IF CanRelate(source, s, target, t)
          THEN Send(r, {SetCommand(source, [related |-> s.related \cup {target}]),
                        SetCommand(target, [related |-> t.related \cup {source}])})
          ELSE Return(r, "refused")
  /\ UNCHANGED incidents

Relate(r) ==
  /\ At(r, "relate")
  /\ LET source == held[r].source   s == held[r].loaded
         target == held[r].target   t == incidents[target]
     IN IF CanRelate(source, s, target, t)
          THEN Send(r, {Saves(source, s, [s EXCEPT !.related = @ \cup {target}]),
                        Saves(target, t, [t EXCEPT !.related = @ \cup {source}])})
          ELSE Return(r, "refused")
  /\ UNCHANGED incidents

\* Mistake: only the source forgets the link.
UnrelateOneSide(r) ==
  /\ At(r, "unrelate")
  /\ Send(r, {Saves(held[r].source, held[r].loaded,
                    [held[r].loaded EXCEPT !.related = @ \ {held[r].target}])})
  /\ UNCHANGED incidents

Unrelate(r) ==
  /\ At(r, "unrelate")
  /\ LET source == held[r].source   s == held[r].loaded
         target == held[r].target   t == incidents[target]
     IN Send(r, {Saves(source, s, [s EXCEPT !.related = @ \ {target}]),
                 Saves(target, t, [t EXCEPT !.related = @ \ {source}])})
  /\ UNCHANGED incidents

-----------------------------------------------------------------------------
(* MongoDB executes a save, or refuses it.  The first refusal answers the  *)
(* call with an error; the other save is on its way all the same.          *)

ExecuteSave(r, c) ==
  /\ c \in writes[r]
  /\ Accepts(incidents[c.doc], c)
  /\ incidents' = [incidents EXCEPT ![c.doc] = Applied(@, c)]
  /\ writes' = [writes EXCEPT ![r] = @ \ {c}]
  /\ pc' = IF pc[r] = "saving" /\ writes[r] = {c}
             THEN [pc EXCEPT ![r] = "written"] ELSE pc
  /\ UNCHANGED held

RefuseSave(r, c) ==
  /\ c \in writes[r]
  /\ ~Accepts(incidents[c.doc], c)
  /\ writes' = [writes EXCEPT ![r] = @ \ {c}]
  /\ pc' = [pc EXCEPT ![r] = "failed"]
  /\ UNCHANGED <<incidents, held>>

\* The audit entry, the eviction of the cached detail and the event.
Announce(r) ==
  /\ pc[r] = "written"
  /\ pc' = [pc EXCEPT ![r] = "done"]
  /\ UNCHANGED <<incidents, held, writes>>

\* The process dies; what it had not yet sent or announced is lost.
Crash ==
  /\ \E r \in Request : pc[r] \in InFlight
  /\ pc' = [r \in Request |-> IF pc[r] \in InFlight THEN "failed" ELSE pc[r]]
  /\ held' = [r \in Request |-> None]
  /\ writes' = [r \in Request |-> {}]
  /\ UNCHANGED incidents

-----------------------------------------------------------------------------
Body == [status   : Optional("status", Status),
         severity : Optional("severity", Severity),
         services : Optional("services", ServiceList),
         assignee : Optional("assignee", User \cup {None}),
         tags     : Optional("tags", SUBSET Tag)]

\* Incidents that POST /incidents created before the calls of this instance.
Init ==
  /\ \E D \in SUBSET Incident :
       incidents \in [D -> {NewIncident(sev, sv, None) :
                              sev \in Severity, sv \in ServiceList}]
  /\ pc = [r \in Request |-> "idle"]
  /\ held = [r \in Request |-> None]
  /\ writes = [r \in Request |-> {}]

Begin(r) ==
  \/ \E i \in Incident, sev \in Severity, sv \in ServiceList,
        a \in User \cup {None} : Create(r, i, sev, sv, a)
  \/ \E i \in DOMAIN incidents :
       \/ \E s \in Status : ChangeStatus(r, i, s)
       \/ \E sev \in Severity : ChangeSeverity(r, i, sev)
       \/ \E a \in User \cup {None} : Assign(r, i, a)
       \/ \E b \in Body : Update(r, i, b)
       \/ \E j \in DOMAIN incidents, e \in {"relate", "unrelate"} :
            ReadFirst(r, e, i, j)

Proceed(r) ==
  \/ Relate(r)
  \/ Unrelate(r)
  \/ \E c \in writes[r] : ExecuteSave(r, c) \/ RefuseSave(r, c)
  \/ Announce(r)

Next == Crash \/ \E r \in Request : Begin(r) \/ Proceed(r)

Spec == Init /\ [][Next]_vars

-----------------------------------------------------------------------------
(* Properties. *)

\* The fields a stored incident has, and the values they take.
FieldType == [status |-> Status, severity |-> Severity, services |-> ServiceList,
              key |-> {Head(l) : l \in ServiceList} \cup Resource,
              assignee |-> User \cup {None}, resolvedAt |-> Request \cup {None},
              related |-> SUBSET Incident, mergedInto |-> Incident \cup {None},
              tags |-> SUBSET Tag]
Field == DOMAIN FieldType

\* A stored or loaded copy of an incident.
IsDoc(d) == /\ DOMAIN d = Field \cup {"ver"}
            /\ \A f \in Field : d[f] \in FieldType[f]
            /\ d.ver \in Nat

\* A command in flight to the collection.
IsCommand(c) == /\ c = [doc |-> c.doc, where |-> c.where, set |-> c.set]
                /\ c.doc \in DOMAIN incidents
                /\ c.where \in Nat \cup {AnyVersion}
                /\ DOMAIN c.set \subseteq Field
                /\ \A f \in DOMAIN c.set : c.set[f] \in FieldType[f]

\* What relate and unrelate hold between their reads.
IsHeld(h) == /\ h = [step |-> h.step, source |-> h.source,
                     loaded |-> h.loaded, target |-> h.target]
             /\ h.step \in {"relate", "unrelate"}
             /\ {h.source, h.target} \subseteq DOMAIN incidents
             /\ IsDoc(h.loaded)

\* Every stored document, held copy and command in flight is well formed: no
\* handler writes a value, a field or an identity the collection cannot hold,
\* and a loaded copy is held exactly between the two reads.
TypeOK ==
  /\ incidents = [i \in DOMAIN incidents |-> incidents[i]]
  /\ DOMAIN incidents \subseteq Incident
  /\ \A i \in DOMAIN incidents : IsDoc(incidents[i])
  /\ pc \in [Request -> {"idle"} \cup InFlight \cup Ended]
  /\ held = [r \in Request |-> held[r]]
  /\ writes = [r \in Request |-> writes[r]]
  /\ \A r \in Request : IF pc[r] = "working" THEN IsHeld(held[r])
                                             ELSE held[r] = None
  /\ \A r \in Request : \A c \in writes[r] : IsCommand(c)

\* A RESOLVED incident has a resolution time, whatever handlers overlap: the
\* status and its time travel in one command (changeStatus, update).
ResolvedIsDated ==
  \A i \in DOMAIN incidents :
    incidents[i].status = Resolved => incidents[i].resolvedAt # None

\* The converse, an incident that is not RESOLVED has no resolution time:
\* true of calls that do not overlap.  A reopening that loaded the incident
\* before it was resolved finds resolvedAt already null and does not send it.
OnlyResolvedIsDated ==
  \A i \in DOMAIN incidents :
    incidents[i].resolvedAt # None => incidents[i].status = Resolved

\* Links are kept on both incidents (relate, unrelate): when no handler is at
\* work and none has failed half way, the two lists agree.
LinksAgree ==
  (\A r \in Request : pc[r] \in {"idle", "done", "refused"}) =>
    \A i, j \in DOMAIN incidents :
      j \in incidents[i].related <=> i \in incidents[j].related

\* The link lists of the handlers implement the promise of LinkLists.
Links == INSTANCE LinkLists
           WITH link <- [i \in DOMAIN incidents |-> incidents[i].related]
LinksAreAtomic == Links!Spec

-----------------------------------------------------------------------------
(* The facts about handlers at work that make the properties inductive.    *)

\* Saves are in flight only while the handler awaits them, or after one of
\* them was refused.
SavesAwaited ==
  \A r \in Request : writes[r] # {} => pc[r] \in {"saving", "failed"}

\* A resolution time is the request that stamped it, and no request stamps
\* before it starts.
StampsAreSpent ==
  \A i \in DOMAIN incidents, r \in Request :
    incidents[i].resolvedAt = r => pc[r] # "idle"

\* A command that resolves stamps the time; one that clears the time carries
\* a status that is not RESOLVED.
StampedBy(r, c) ==
  /\ "resolvedAt" \in DOMAIN c.set => c.set.resolvedAt \in {r, None}
  /\ "status" \in DOMAIN c.set /\ c.set.status = Resolved =>
       "resolvedAt" \in DOMAIN c.set /\ c.set.resolvedAt = r
  /\ "resolvedAt" \in DOMAIN c.set /\ c.set.resolvedAt = None =>
       "status" \in DOMAIN c.set /\ c.set.status # Resolved

WritesAreStamped ==
  \A r \in Request : \A c \in writes[r] : StampedBy(r, c)

\* Together with TypeOK, an inductive invariant that implies ResolvedIsDated.
StampInv ==
  SavesAwaited /\ StampsAreSpent /\ WritesAreStamped /\ ResolvedIsDated

\* new differs from old, as the list of incident i, by one link.
OneLink(i, old, new) ==
  \E j \in DOMAIN incidents : \/ i # j /\ new = old \cup {j}
                             \/ new = old \ {j}

\* A command in flight that changes a list demands a version, and at that
\* version the stored list is the one it was computed from.
WriteBase(c) ==
  /\ c.where <= incidents[c.doc].ver
  /\ "related" \in DOMAIN c.set =>
       /\ c.where # AnyVersion
       /\ c.where = incidents[c.doc].ver =>
            OneLink(c.doc, incidents[c.doc].related, c.set.related)

\* A held copy with the stored version has the stored list.
HeldBase(h) ==
  /\ h.loaded.ver <= incidents[h.source].ver
  /\ h.loaded.ver = incidents[h.source].ver =>
       h.loaded.related = incidents[h.source].related

\* Together with TypeOK, an inductive invariant that implies LinksAreAtomic.
LinkInv ==
  /\ \A r \in Request : \A c \in writes[r] : WriteBase(c)
  /\ \A r \in Request : pc[r] = "working" => HeldBase(held[r])
-----------------------------------------------------------------------------
(* What is true as well of calls that do not overlap.                      *)

\* One handler is at work; its saves are all that is in flight, each to a
\* document of its own that still has the version it demands.
OneSaving ==
  /\ \A q, r \in Request : pc[q] \in InFlight /\ pc[r] \in InFlight => q = r
  /\ \A r \in Request : writes[r] # {} => pc[r] = "saving"
  /\ \A r \in Request : \A c, d \in writes[r] : c.doc = d.doc => c = d
  /\ \A r \in Request : \A c \in writes[r] : Accepts(incidents[c.doc], c)

\* What it holds is what is stored.
OneAtWork ==
  /\ OneSaving
  /\ \A r \in Request : pc[r] = "working" =>
       held[r].loaded = incidents[held[r].source]

\* A document with a resolution time is RESOLVED.
DateAgrees(d) == d.resolvedAt # None => d.status = Resolved

\* Executed on the stored incident, command c dates what it resolves only.
SendsDated(c) == DateAgrees(Applied(incidents[c.doc], c))

\* What the saves in W make of the list old of incident i.
ListAfter(W, i, old) ==
  LET lists == {c.set.related : c \in {d \in W : d.doc = i /\ "related" \in DOMAIN d.set}}
  IN  IF lists = {} THEN old ELSE UNION lists

\* The list of incident i once the saves in flight are executed.
ListToBe(i) == ListAfter(UNION {writes[r] : r \in Request}, i, incidents[i].related)

\* Unless a handler has failed half way, the lists will agree.
ListsWillAgree ==
  (\A r \in Request : pc[r] # "failed") =>
    \A i \in DOMAIN incidents : \A j \in ListToBe(i) :
      j \in DOMAIN incidents /\ i \in ListToBe(j)

\* Together with TypeOK, an inductive invariant of calls that do not overlap:
\* it implies OnlyResolvedIsDated and LinksAgree.
SequentialInv ==
  /\ OneAtWork
  /\ \A i \in DOMAIN incidents : DateAgrees(incidents[i])
  /\ \A r \in Request : \A c \in writes[r] : SendsDated(c)
  /\ ListsWillAgree
=============================================================================
