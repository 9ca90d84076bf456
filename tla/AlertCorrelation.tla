-------------------------- MODULE AlertCorrelation --------------------------
(***************************************************************************)
(* The alerts collection beside the incidents: AlertsService.ingest (the   *)
(* correlation engine), associate and unassociate, and                     *)
(* IncidentsService.merge, which moves alerts from one incident to         *)
(* another.  Every await of these handlers is a step of its own, so other  *)
(* handlers, those of Incidents included, run in between.  held[r].step    *)
(* names the call that handler r awaits; a step executes that call and     *)
(* runs the handler up to its next await.                                  *)
(*                                                                         *)
(* Time enters through two windows only: an alert older than five minutes  *)
(* no longer absorbs repetitions, and an incident not updated for thirty   *)
(* minutes no longer attracts alerts.  Both are "aged".  Where a query     *)
(* takes the most recent of several matches, any of them may be taken.     *)
(***************************************************************************)
EXTENDS Incidents, SequencesExt

CONSTANTS
  Alert,       \* identities of alert documents
  Report,      \* what monitoring sends: [print, service, key, severity]
  Threshold,   \* Threshold[s]: repetitions that raise an alert to severity s
  Ageing       \* the alerts and incidents that may age in this instance

ASSUME ThresholdAssumption ==
  /\ Threshold \in [1..3 -> Nat]
  /\ Threshold[3] <= Threshold[2] /\ Threshold[2] <= Threshold[1]

ASSUME RequestAssumption  == IsFiniteSet(Request)
ASSUME TagAssumption      == "merged" \in Tag
ASSUME IdentityAssumption == Alert \cap Incident = {}

\* The names in the lists of services.
ServiceName == UNION {ToSet(l) : l \in ServiceList}

\* The lists are lists of finitely many names, and what they grow to by merging
\* is among them.
ASSUME ListAssumption ==
  /\ IsFiniteSet(ServiceName)
  /\ \A l \in ServiceList :
       /\ l \in Seq(ServiceName)
       /\ \A S \in SUBSET ServiceName : l \o SetToSeq(S \ ToSet(l)) \in ServiceList

ASSUME ReportAssumption ==
  \A p \in Report : /\ <<p.service>> \in ServiceList
                    /\ p.key \in {Head(l) : l \in ServiceList} \cup Resource
                    /\ p.severity \in Severity

VARIABLES
  alerts,      \* the collection: a function from the stored identities
  aged         \* alerts and incidents outside their time window

allVars == <<vars, alerts, aged>>

-----------------------------------------------------------------------------
(* Documents. *)

NewAlert(report) ==
  [print |-> report.print, service |-> report.service, key |-> report.key,
   severity |-> report.severity, count |-> 1, incidentId |-> None,
   status |-> "UNASSIGNED"]

\* Mistake: the status is left as it was.
LinkedStatusKept(alert, i) == [alert EXCEPT !.incidentId = i]

\* An alert linked to an incident, or to none.
Linked(alert, i) ==
  [alert EXCEPT !.incidentId = i,
                !.status = IF i = None THEN "UNASSIGNED" ELSE "CORRELATED"]

\* The incident the engine opens for an alert.
IncidentFor(alert) ==
  [NewIncident(alert.severity, <<alert.service>>, None) EXCEPT !.key = alert.key]

\* Mistake: the lists are only joined.
joinServices(services, additions) == services \o SetToSeq(additions)

\* mergeServices: append the names that are not yet there.  Their order is any
\* fixed one: nothing reads it.
mergeServices(services, additions) ==
  services \o SetToSeq(additions \ ToSet(services))

\* addService: append a name that is not yet there.
AddService(services, service) == mergeServices(services, {service})

\* Mistake: the new severity always wins.
pickLeftSeverity(left, right) == left

\* The more severe of two severities.
pickHigherSeverity(left, right) == IF left <= right THEN left ELSE right

\* The severity that the number of repetitions alone demands.
FrequencySeverity(count) ==
  IF \E s \in 1..3 : count >= Threshold[s]
    THEN CHOOSE s \in 1..3 : /\ count >= Threshold[s]
                             /\ \A q \in 1..(s - 1) : count < Threshold[q]
    ELSE 4

ASSUME FrequencyAssumption ==
  \A n \in 1..(Cardinality(Request) + 1) : FrequencySeverity(n) \in Severity

\* A repetition of an alert: counted, and raised by the report or by the count.
Repeated(alert, report) ==
  LET raised == pickHigherSeverity(alert.severity, report.severity) IN
  [alert EXCEPT !.count = @ + 1,
                !.severity = pickHigherSeverity(raised,
                                FrequencySeverity(alert.count + 1))]

-----------------------------------------------------------------------------
(* Queries and saves. *)

\* Mistake: only alerts of the report's severity are repetitions.
AbsorbingBySeverity(report) ==
  {a \in DOMAIN alerts : /\ alerts[a].print = report.print
                         /\ alerts[a].severity = report.severity
                         /\ a \notin aged}

\* The alerts that absorb a report.
Absorbing(report) ==
  {a \in DOMAIN alerts : alerts[a].print = report.print /\ a \notin aged}

\* The incidents that attract an alert.
Attracting(alert) ==
  {i \in DOMAIN incidents : /\ incidents[i].key = alert.key
                            /\ incidents[i].status # Resolved
                            /\ i \notin aged}

\* alert.save(): the changed fields of the loaded copy, no version.
StoreAlert(a, loaded, wanted) ==
  alerts' = [alerts EXCEPT ![a] =
               Applied(@, SaveCommand(a, loaded, wanted, {}))]

-----------------------------------------------------------------------------
(* POST /alerts: ingest. *)

\* Look for a recent alert with the fingerprint of the report.
Ingest(r, report) ==
  /\ Starts(r, "ingest")
  /\ \/ \E a \in Absorbing(report) :
          Await(r, [step |-> "count", alert |-> a, loaded |-> alerts[a],
                    wanted |-> Repeated(alerts[a], report)])
     \/ /\ Absorbing(report) = {}
        /\ Await(r, [step |-> "insert", wanted |-> NewAlert(report)])
  /\ UNCHANGED <<incidents, alerts, aged>>

\* Mistake: the incident is raised to the severity before the repetition.
CountRepetitionLate(r) ==
  /\ At(r, "count")
  /\ LET h == held[r] IN
     /\ StoreAlert(h.alert, h.loaded, h.wanted)
     /\ IF h.loaded.incidentId = None
          THEN Return(r, "done")
          ELSE Await(r, [step |-> "escalate", incident |-> h.loaded.incidentId,
                         severity |-> h.loaded.severity])
  /\ UNCHANGED <<incidents, aged>>

\* The repetition is saved; a linked incident is looked up next.
CountRepetition(r) ==
  /\ At(r, "count")
  /\ LET h == held[r] IN
     /\ StoreAlert(h.alert, h.loaded, h.wanted)
     /\ IF h.loaded.incidentId = None
          THEN Return(r, "done")
          ELSE Await(r, [step |-> "escalate", incident |-> h.loaded.incidentId,
                         severity |-> h.wanted.severity])
  /\ UNCHANGED <<incidents, aged>>

\* A linked incident that is not resolved is raised to the alert's severity.
Escalate(r) ==
  /\ At(r, "escalate")
  /\ LET i == held[r].incident
         severity == held[r].severity
     IN IF incidents[i].status # Resolved /\ severity < incidents[i].severity
          THEN Send(r, {Saves(i, incidents[i],
                              [incidents[i] EXCEPT !.severity = severity])})
          ELSE Return(r, "done")
  /\ UNCHANGED <<incidents, alerts, aged>>

\* The new alert is stored, UNASSIGNED.
InsertAlert(r, a) ==
  /\ At(r, "insert")
  /\ a \notin DOMAIN alerts
  /\ alerts' = [b \in DOMAIN alerts \cup {a} |->
                  IF b = a THEN held[r].wanted ELSE alerts[b]]
  /\ Await(r, [step |-> "match", alert |-> a, copy |-> held[r].wanted])
  /\ UNCHANGED <<incidents, aged>>

\* The engine looks for an active incident with the correlation key.
Match(r) ==
  /\ At(r, "match")
  /\ LET a == held[r].alert
         copy == held[r].copy
     IN \/ \E i \in Attracting(copy) :
             Await(r, [step |-> "link", alert |-> a, copy |-> copy,
                       incident |-> i, loaded |-> incidents[i],
                       severity |-> pickHigherSeverity(copy.severity,
                                                       incidents[i].severity)])
        \/ /\ Attracting(copy) = {}
           /\ Await(r, [step |-> "spawn", alert |-> a, copy |-> copy])
  /\ UNCHANGED <<incidents, alerts, aged>>

\* Mistake: the list of services is written with findByIdAndUpdate.
LinkByUpdate(r) ==
  /\ At(r, "link")
  /\ LET h == held[r]
     IN /\ StoreAlert(h.alert, h.copy, Linked(h.copy, h.incident))
        /\ Send(r, {SetCommand(h.incident,
                      [services |-> AddService(h.loaded.services, h.copy.service),
                       severity |-> h.severity])})
  /\ UNCHANGED <<incidents, aged>>

\* The alert is linked; then the incident is saved with the alert's service
\* and the severity decided when it was loaded.  The audit entry of an
\* escalation comes first: the time it takes is part of the time the save is in
\* flight, and when it fails nothing is saved.
LinkAlert(r) ==
  /\ At(r, "link")
  /\ LET h == held[r]
     IN /\ StoreAlert(h.alert, h.copy, Linked(h.copy, h.incident))
        /\ \/ Send(r, {Saves(h.incident, h.loaded,
                         [h.loaded EXCEPT !.services = AddService(@, h.copy.service),
                                          !.severity = h.severity])})
           \/ h.severity # h.loaded.severity /\ Return(r, "failed")
  /\ UNCHANGED <<incidents, aged>>

\* No incident matched: one is opened, then the alert linked to it.
Spawn(r, i) ==
  /\ At(r, "spawn")
  /\ i \notin DOMAIN incidents
  /\ incidents' = [k \in DOMAIN incidents \cup {i} |->
                     IF k = i THEN IncidentFor(held[r].copy) ELSE incidents[k]]
  /\ Await(r, [step |-> "attach", alert |-> held[r].alert,
               copy |-> held[r].copy, incident |-> i])
  /\ UNCHANGED <<alerts, aged>>

AttachAlert(r) ==
  /\ At(r, "attach")
  /\ LET h == held[r] IN StoreAlert(h.alert, h.copy, Linked(h.copy, h.incident))
  /\ Send(r, {})
  /\ UNCHANGED <<incidents, aged>>

-----------------------------------------------------------------------------
(* PATCH /alerts/:id/associate and /alerts/:id/unassociate. *)

ReadAlert(r, endpoint, a, i) ==
  /\ Starts(r, endpoint)
  /\ Await(r, [step |-> endpoint, alert |-> a, copy |-> alerts[a],
               incident |-> i])
  /\ UNCHANGED <<incidents, alerts, aged>>

\* The incident is loaded, and must not be resolved; LinkAlert follows.
Associate(r) ==
  /\ At(r, "associate")
  /\ LET i == held[r].incident
     IN IF incidents[i].status = Resolved
          THEN Return(r, "refused")
          ELSE Await(r, [step |-> "link", alert |-> held[r].alert,
                         copy |-> held[r].copy, incident |-> i,
                         loaded |-> incidents[i],
                         severity |-> incidents[i].severity])
  /\ UNCHANGED <<incidents, alerts, aged>>

Unassociate(r) ==
  /\ At(r, "unassociate")
  /\ StoreAlert(held[r].alert, held[r].copy, Linked(held[r].copy, None))
  /\ IF held[r].copy.incidentId = None THEN Return(r, "done") ELSE Send(r, {})
  /\ UNCHANGED <<incidents, aged>>

-----------------------------------------------------------------------------
(* POST /incidents/:ref/merge. *)

\* The second incident is loaded, after the source (ReadFirst).
MergeGuards(r) ==
  /\ At(r, "merge")
  /\ LET h == held[r]
         target == incidents[h.target]
     IN IF \/ h.source = h.target
           \/ h.loaded.status = Resolved
           \/ target.status = Resolved
          THEN Return(r, "refused")
          ELSE Await(r, [step |-> "collect", source |-> h.source, s |-> h.loaded,
                         target |-> h.target, t |-> target])
  /\ UNCHANGED <<incidents, alerts, aged>>

\* The services of the source's alerts are collected.
CollectAlerts(r) ==
  /\ At(r, "collect")
  /\ LET h == held[r]
         linked == {a \in DOMAIN alerts : alerts[a].incidentId = h.source}
     IN Await(r, [step |-> "move", source |-> h.source, s |-> h.s,
                  target |-> h.target, t |-> h.t,
                  services |-> {alerts[a].service : a \in linked}])
  /\ UNCHANGED <<incidents, alerts, aged>>

\* The incident that is closed, as merge leaves its copy.
MergedSource(r, h) ==
  [WithStatus(h.s, Resolved, r) EXCEPT
     !.mergedInto = h.target,
     !.tags = @ \cup {"merged"},
     !.related = IF h.source \in h.t.related THEN @ ELSE @ \cup {h.target}]

\* The incident that remains, as merge leaves its copy.
MergedTarget(h) ==
  [h.t EXCEPT
     !.services = mergeServices(@, ToSet(h.s.services) \cup h.services),
     !.severity = pickHigherSeverity(h.s.severity, @),
     !.related = IF h.target \in h.s.related THEN @ ELSE @ \cup {h.source}]

\* Mistake: only the list of services demands a version.
SavesLinksBlindly(i, loaded, wanted, assigned) ==
  LET c == Saves(i, loaded, wanted) IN
  IF wanted.services # loaded.services THEN c ELSE [c EXCEPT !.where = AnyVersion]

\* A list that is assigned is sent, even when it names the same incidents.
SavesList(i, loaded, wanted, assigned) ==
  LET c == Saves(i, loaded, wanted) IN
  IF assigned
    THEN [c EXCEPT !.where = loaded.ver,
                   !.set = [f \in DOMAIN @ \cup {"related"} |-> wanted[f]]]
    ELSE c

Settle(r, h) ==
  Send(r, {SavesList(h.source, h.s, MergedSource(r, h),
                     h.source \notin h.t.related),
           SavesList(h.target, h.t, MergedTarget(h),
                     h.target \notin h.s.related)})

\* Mistake: the alerts stay where they are.
SettleOnly(r) ==
  /\ At(r, "move")
  /\ Settle(r, held[r])
  /\ UNCHANGED <<incidents, alerts, aged>>

\* Every alert of the source moves at once; then both incidents are saved.
MoveAlerts(r) ==
  /\ At(r, "move")
  /\ alerts' = [a \in DOMAIN alerts |->
                  IF alerts[a].incidentId = held[r].source
                    THEN Linked(alerts[a], held[r].target) ELSE alerts[a]]
  /\ Settle(r, held[r])
  /\ UNCHANGED <<incidents, aged>>

-----------------------------------------------------------------------------
(* Time, failures and the handlers of Incidents. *)

Age(x) ==
  /\ x \in Ageing \cap ((DOMAIN alerts \cup DOMAIN incidents) \ aged)
  /\ aged' = aged \cup {x}
  /\ UNCHANGED <<vars, alerts>>

\* A database or audit call of a handler fails: the rest of it is not run.
Fail(r) ==
  /\ pc[r] \in {"working", "written"}
  /\ Return(r, "failed")
  /\ UNCHANGED <<incidents, alerts, aged>>

\* A save renews updatedAt.
SaveIncident(r, c) ==
  /\ ExecuteSave(r, c)
  /\ aged' = aged \ {c.doc}
  /\ UNCHANGED alerts

\* The steps that touch neither the alerts nor their windows.
IncidentStep ==
  /\ \/ Crash
     \/ \E r \in Request :
          \/ Begin(r)
          \/ \E i, j \in DOMAIN incidents : ReadFirst(r, "merge", i, j)
          \/ Relate(r)
          \/ Unrelate(r)
          \/ \E c \in writes[r] : RefuseSave(r, c)
          \/ Announce(r)
  /\ UNCHANGED <<alerts, aged>>

AlertStep(r) ==
  \/ \E report \in Report : Ingest(r, report)
  \/ CountRepetition(r)
  \/ Escalate(r)
  \/ \E a \in Alert : InsertAlert(r, a)
  \/ Match(r)
  \/ LinkAlert(r)
  \/ \E i \in Incident : Spawn(r, i)
  \/ AttachAlert(r)
  \/ \E a \in DOMAIN alerts :
       \/ \E i \in DOMAIN incidents : ReadAlert(r, "associate", a, i)
       \/ ReadAlert(r, "unassociate", a, None)
  \/ Associate(r)
  \/ Unassociate(r)
  \/ MergeGuards(r)
  \/ CollectAlerts(r)
  \/ MoveAlerts(r)

\* Incidents as in Init, beside alerts of different fingerprints that were
\* ingested and detached before the calls of this instance.
InitCorrelation ==
  /\ Init
  /\ aged = {}
  /\ \E D \in SUBSET Alert :
       /\ alerts \in [D -> {NewAlert(report) : report \in Report}]
       /\ \A a, b \in D : a # b => alerts[a].print # alerts[b].print

NextCorrelation ==
  \/ IncidentStep
  \/ \E x \in Ageing : Age(x)
  \/ \E r \in Request :
       \/ AlertStep(r)
       \/ Fail(r)
       \/ \E c \in writes[r] : SaveIncident(r, c)

SpecCorrelation == InitCorrelation /\ [][NextCorrelation]_allVars

-----------------------------------------------------------------------------
(* Properties. *)

AlertType == [print : {p.print : p \in Report},
              service : {p.service : p \in Report},
              key : {p.key : p \in Report},
              severity : Severity, count : 1..(Cardinality(Request) + 1),
              incidentId : DOMAIN incidents \cup {None},
              status : {"UNASSIGNED", "CORRELATED"}]

\* Alerts are well formed and point to stored incidents, and every save in
\* flight addresses a stored incident with fields it has, also those that
\* merge and the engine compute from two documents.
CorrelationTypeOK ==
  /\ alerts \in [DOMAIN alerts -> AlertType] /\ DOMAIN alerts \subseteq Alert
  /\ DOMAIN incidents \subseteq Incident
  /\ \A i \in DOMAIN incidents : IsDoc(incidents[i])
  /\ \A r \in Request : \A c \in writes[r] : IsCommand(c)
  /\ aged \subseteq DOMAIN alerts \cup DOMAIN incidents

\* No handler is at work and none was cut off half way.
Quiet == \A r \in Request : pc[r] \in {"idle", "done", "refused"}

\* An incident lists the service of every alert linked to it, however ingests,
\* associations and merges overlap: a save of the list that is based on an old
\* copy is refused, and its handler fails.  Not so when an incident is reopened
\* or its list rewritten: an incident that was merged, reopened and merged again
\* is related and tagged already, so its save demands no version, and a service
\* that an ingest adds between collect and move stays behind without an error.
ServicesCoverAlerts ==
  Quiet => \A a \in DOMAIN alerts :
             alerts[a].incidentId # None =>
               Contains(incidents[alerts[a].incidentId].services,
                        alerts[a].service)

\* An incident that was merged away stays merged into the same one, if nobody
\* reopens it.  Two merges of one incident may both find it open, in copies
\* that were loaded before either saves; the second save is refused because
\* the tags it sends demand the version it loaded.
MergedOnce ==
  [][\A i \in DOMAIN incidents :
       incidents[i].mergedInto # None =>
         incidents'[i].mergedInto = incidents[i].mergedInto]_allVars

\* An alert is UNASSIGNED exactly when no incident is recorded in it.  Checked
\* of calls that do not overlap: an associate that loaded a CORRELATED alert
\* sends only the incident, and an unassociate in between is half undone.
AlertStatusAgrees ==
  \A a \in DOMAIN alerts :
    (alerts[a].status = "UNASSIGNED") <=> (alerts[a].incidentId = None)

\* Calls that do not overlap keep one alert per fingerprint and window (the
\* dedupe query and the insert of ingest are two calls to the database).
OneAlertPerPrint ==
  \A a, b \in DOMAIN alerts \ aged :
    alerts[a].print = alerts[b].print => a = b

\* No alert is left on an incident that was merged away, whatever call failed
\* or was cut off half way: merge moves the alerts, then resolves the incident.
\* Checked of calls that do not overlap: an ingest that found the incident open
\* links its alert to it although a merge has moved the others.
NoStrandedAlert ==
  \A a \in DOMAIN alerts :
    alerts[a].incidentId # None =>
      incidents[alerts[a].incidentId].mergedInto = None

\* An incident that is not resolved is at least as severe as its alerts, when
\* ingests do not overlap and no responder associates alerts (associate never
\* escalates), lowers severities or reopens incidents.
IncidentAsSevere ==
  Quiet => \A a \in DOMAIN alerts :
             LET i == alerts[a].incidentId IN
             i # None /\ incidents[i].status # Resolved =>
               incidents[i].severity <= alerts[a].severity

\* The engine and merge only raise the severity of an incident, when their
\* calls do not overlap and no responder changes severities.
SeverityOnlyRises ==
  [][\A i \in DOMAIN incidents :
       incidents'[i].severity <= incidents[i].severity]_allVars
-----------------------------------------------------------------------------
(* What is true as well of calls that do not overlap.                      *)

\* Calls that reopen incidents, or change their severity outright.
Reopens  == "status" \in Endpoint \cup BodyField
Regrades == "severity" \in Endpoint \cup BodyField

\* What a waiting handler holds is what is stored, and the answer of its last
\* query is still right.
HoldsStored(h) ==
  /\ h.step \in {"relate", "unrelate", "merge"} => h.loaded = incidents[h.source]
  /\ h.step \in {"collect", "move"} =>
       /\ h.s = incidents[h.source] /\ h.t = incidents[h.target]
       /\ h.t.status # Resolved
  /\ h.step = "count" =>
       /\ h.loaded = alerts[h.alert]
       /\ \A f \in {"print", "status"} : h.wanted[f] = h.loaded[f]
       /\ h.wanted.severity <= h.loaded.severity
  /\ h.step = "insert" =>
       /\ h.wanted.status = "UNASSIGNED"
       /\ \A a \in DOMAIN alerts \ aged : alerts[a].print # h.wanted.print
  /\ h.step \in {"match", "spawn", "attach", "link", "associate", "unassociate"} =>
       h.copy = alerts[h.alert]
  /\ h.step = "associate" => "associate" \in Endpoint
  /\ h.step = "attach" =>
       /\ incidents[h.incident].mergedInto = None
       /\ incidents[h.incident].severity <= h.copy.severity
  /\ h.step = "link" =>
       /\ h.loaded = incidents[h.incident] /\ h.loaded.status # Resolved
       /\ h.severity <= h.loaded.severity
       /\ "associate" \notin Endpoint => h.severity <= h.copy.severity

\* A save closes what has no alerts left, for good unless a call reopens it, and
\* raises a severity, unless a call sets it.
SaveFits(c) ==
  /\ "mergedInto" \in DOMAIN c.set =>
       /\ "status" \in DOMAIN c.set /\ c.set.status = Resolved
       /\ \A a \in DOMAIN alerts : alerts[a].incidentId # c.doc
  /\ ~Reopens /\ "status" \in DOMAIN c.set => c.set.status = Resolved
  /\ ~Regrades /\ "severity" \in DOMAIN c.set =>
       c.set.severity <= incidents[c.doc].severity

\* No alert belongs to an incident that was merged away, and such an incident
\* is closed.
NoneStranded ==
  /\ \A i \in DOMAIN incidents :
       incidents[i].mergedInto # None => incidents[i].status = Resolved
  /\ NoStrandedAlert

\* Incident i is as severe as s, or a handler at work sees to it.
WillBeAsSevere(i, s) ==
  \/ incidents[i].severity <= s
  \/ \E r \in Request : At(r, "escalate") /\ held[r].incident = i /\ held[r].severity <= s
  \/ \E r \in Request : \E c \in writes[r] :
       c.doc = i /\ "severity" \in DOMAIN c.set /\ c.set.severity <= s

\* Unless a handler has failed half way, an incident that is not resolved will
\* be as severe as its alerts.
SeverityFollows ==
  (\A r \in Request : pc[r] # "failed") =>
    \A a \in DOMAIN alerts :
      LET i == alerts[a].incidentId IN
      i # None /\ incidents[i].status # Resolved =>
        WillBeAsSevere(i, alerts[a].severity)

\* An inductive invariant of calls that do not overlap: it implies the five
\* properties above, each in its circumstances.
AlertsSequentialInv ==
  /\ OneSaving
  /\ \A r \in Request : pc[r] = "working" => HoldsStored(held[r])
  /\ \A r \in Request : \A c \in writes[r] : SaveFits(c)
  /\ AlertStatusAgrees /\ OneAlertPerPrint
  /\ ~Reopens => NoneStranded
  /\ ~Reopens /\ ~Regrades /\ "associate" \notin Endpoint => SeverityFollows
=============================================================================
