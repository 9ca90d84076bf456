----------------------- MODULE AlertCorrelationProofs -----------------------
(***************************************************************************)
(* Proofs about AlertCorrelation, for any number of incidents, alerts,     *)
(* reports and overlapping calls: types, the resolution time and the links *)
(* of incidents when merge and the engine write beside the other handlers, *)
(* and that an incident lists the services of its alerts; and, of calls    *)
(* that do not overlap, how alerts and incidents agree.                    *)
(***************************************************************************)
EXTENDS AlertCorrelation, IncidentsProofs, FiniteSetTheorems

Started == {r \in Request : pc[r] # "idle"}

AlertField ==
  {"print", "service", "key", "severity", "count", "incidentId", "status"}

\* What an alert can be: reported by the calls that have started, and linked to
\* a stored incident.
IsAlert(x) ==
  /\ x = [f \in AlertField |-> x[f]]
  /\ \E p \in Report : x.print = p.print
  /\ \E p \in Report : x.service = p.service
  /\ \E p \in Report : x.key = p.key
  /\ x.severity \in Severity
  /\ x.count \in 1..(Cardinality(Started) + 1)
  /\ x.incidentId \in DOMAIN incidents \cup {None}
  /\ x.status \in {"UNASSIGNED", "CORRELATED"}

\* A copy of an incident that handler r holds: a version the incident had, with
\* the links of that version, and not resolved by r itself.
IsCopy(r, i, d) ==
  /\ i \in DOMAIN incidents
  /\ IsDoc(d)
  /\ d.ver <= incidents[i].ver
  /\ d.ver = incidents[i].ver => d.related = incidents[i].related
  /\ d.resolvedAt # r

PairStep  == {"relate", "unrelate", "merge"}
MergeStep == {"collect", "move"}
AlertStepName == {"match", "spawn", "link", "attach", "associate", "unassociate"}

\* What a handler holds at the call it awaits.
HeldInv(r, h) ==
  /\ h.step \in PairStep =>
       IsCopy(r, h.source, h.loaded) /\ h.target \in DOMAIN incidents
  /\ h.step \in MergeStep =>
       /\ IsCopy(r, h.source, h.s) /\ IsCopy(r, h.target, h.t)
       /\ h.source # h.target /\ h.s.status # Resolved
  /\ h.step = "move" => h.services \subseteq ServiceName
  /\ h.step = "count" =>
       /\ h.alert \in DOMAIN alerts
       /\ IsAlert(h.loaded) /\ IsAlert(h.wanted)
       /\ h.wanted.service = h.loaded.service
       /\ h.wanted.incidentId = h.loaded.incidentId
  /\ h.step = "insert" => IsAlert(h.wanted) /\ h.wanted.incidentId = None
  /\ h.step \in AlertStepName => h.alert \in DOMAIN alerts /\ IsAlert(h.copy)
  /\ h.step = "link" => IsCopy(r, h.incident, h.loaded)
  /\ h.step \in {"link", "escalate"} => h.severity \in Severity
  /\ h.step \in {"escalate", "attach", "associate"} => h.incident \in DOMAIN incidents

\* A save in flight is well formed, changes a list of links by one link of the
\* version it demands, and stamps a resolution.
WriteInv(r, c) == IsCommand(c) /\ WriteBase(c) /\ StampedBy(r, c)

ShapeInv == DOMAIN pc = Request /\ DOMAIN held = Request /\ DOMAIN writes = Request

\* Only a handler that has sent its saves has stamped an incident.
StampsSent ==
  \A i \in DOMAIN incidents, r \in Request :
    incidents[i].resolvedAt = r => pc[r] \notin {"idle", "working"}

AlertsInv ==
  /\ alerts = [a \in DOMAIN alerts |-> alerts[a]]
  /\ DOMAIN alerts \subseteq Alert
  /\ \A a \in DOMAIN alerts : IsAlert(alerts[a])

CorrelationInv ==
  /\ ShapeInv
  /\ SavesAwaited
  /\ SoundIncidents
  /\ ResolvedIsDated
  /\ StampsSent
  /\ AlertsInv
  /\ aged \subseteq DOMAIN alerts \cup DOMAIN incidents
  /\ \A r \in Request : \A c \in writes[r] : WriteInv(r, c)
  /\ \A r \in Request : pc[r] = "working" => HeldInv(r, held[r])

-----------------------------------------------------------------------------
(* The lists of services, and what was merged.                             *)

\* A copy lists no service that the incident has not, and all of them as long
\* as it is of the stored version.
Behind(d, i) ==
  /\ ToSet(d.services) \subseteq ToSet(incidents[i].services)
  /\ d.ver = incidents[i].ver => /\ d.services = incidents[i].services
                                 /\ d.mergedInto = incidents[i].mergedInto

\* Tags, and the incident merged into, are written by merge alone, together with
\* RESOLVED.
TaggedLate(d) == d.tags # {} \/ d.mergedInto # None => d.status = Resolved

\* A save of the list demands a version, and adds to the list of that version; a
\* save that merges demands a version at which the incident was not merged.
ListBase(c) ==
  /\ "services" \in DOMAIN c.set =>
       /\ c.where # AnyVersion
       /\ c.where = incidents[c.doc].ver =>
            ToSet(incidents[c.doc].services) \subseteq ToSet(c.set.services)
  /\ "status" \in DOMAIN c.set => c.set.status = Resolved
  /\ "tags" \in DOMAIN c.set => "status" \in DOMAIN c.set
  /\ "mergedInto" \in DOMAIN c.set =>
       /\ c.where # AnyVersion /\ "status" \in DOMAIN c.set
       /\ c.where = incidents[c.doc].ver => incidents[c.doc].mergedInto = None

HeldLists(h) ==
  /\ h.step \in PairStep => Behind(h.loaded, h.source) /\ TaggedLate(h.loaded)
  /\ h.step \in MergeStep =>
       Behind(h.s, h.source) /\ TaggedLate(h.s) /\ Behind(h.t, h.target)
  /\ h.step = "link" => Behind(h.loaded, h.incident)
  /\ h.step = "attach" => h.copy.service \in ToSet(incidents[h.incident].services)
  /\ h.step = "count" => h.loaded.service = alerts[h.alert].service
  /\ h.step \in AlertStepName => h.copy.service = alerts[h.alert].service

\* Some handler has failed, or will: its save demands a version that is gone,
\* or that the save of another handler will take away.
Failed == \E r \in Request : pc[r] = "failed"
Doomed == \E r \in Request : \E c \in writes[r] :
            c.where # AnyVersion /\ c.where < incidents[c.doc].ver
Clash  == \E r, q \in Request : \E c \in writes[r], b \in writes[q] :
            /\ r # q /\ c.doc = b.doc
            /\ c.where # AnyVersion /\ b.where # AnyVersion
Broken == Failed \/ Doomed \/ Clash

\* The incident of an alert lists its service, or a save in flight will do it.
Brings(i, service) ==
  \E r \in Request : \E c \in writes[r] :
    c.doc = i /\ "services" \in DOMAIN c.set /\ service \in ToSet(c.set.services)
Covered(a) ==
  LET i == alerts[a].incidentId IN
  i # None => \/ alerts[a].service \in ToSet(incidents[i].services)
              \/ Brings(i, alerts[a].service)

CoverInv ==
  /\ \A i \in DOMAIN incidents : TaggedLate(incidents[i])
  /\ \A r \in Request : \A c \in writes[r] : ListBase(c)
  /\ \A r \in Request : pc[r] = "working" => HeldLists(held[r])
  /\ Broken \/ \A a \in DOMAIN alerts : Covered(a)

-----------------------------------------------------------------------------
(* The lists of services. *)

\* SetToSeq lists a finite set, each member once.
LEMMA SetToSeqFacts ==
  ASSUME NEW S, IsFiniteSet(S)
  PROVE  /\ SetToSeq(S) \in Seq(S)
         /\ Len(SetToSeq(S)) = Cardinality(S)
         /\ ToSet(SetToSeq(S)) = S
<1> DEFINE n == Cardinality(S)
           f == SetToSeq(S)
<1>1. n \in Nat /\ ExistsBijection(1..n, S)
  BY FS_CardinalityType
<1>2. \E g \in [1..n -> S] : IsInjective(g)
  BY <1>1 DEF ExistsBijection, Bijection, Injection
<1>3. f \in [1..n -> S] /\ IsInjective(f)
  BY <1>2 DEF SetToSeq
<1>4. f \in Injection(1..n, S)
  BY <1>3 DEF Injection
<1>5. IsFiniteSet(1..n) /\ Cardinality(1..n) = n
  BY <1>1, FS_Interval
<1>6. f \in Surjection(1..n, S)
  BY <1>4, <1>5, FS_Injection
<1>7. \A t \in S : \E i \in 1..n : f[i] = t
  BY <1>6 DEF Surjection
<1> HIDE DEF f, n
<1>8. f \in Seq(S) /\ Len(f) = n
  BY <1>1, <1>3
<1>9. ToSet(f) = S
  BY <1>3, <1>7 DEF ToSet
<1> QED  BY <1>8, <1>9 DEF f, n

\* Merging keeps the list, adds the names, and gives a list.
LEMMA mergeServicesFacts ==
  ASSUME NEW l \in ServiceList, NEW S \in SUBSET ServiceName
  PROVE  /\ mergeServices(l, S) \in ServiceList
         /\ ToSet(mergeServices(l, S)) = ToSet(l) \cup S
<1> DEFINE X == S \ ToSet(l)
           m == SetToSeq(X)
<1>1. l \in Seq(ServiceName) /\ l \o m \in ServiceList
  BY ListAssumption
<1>2. IsFiniteSet(X)
  BY ListAssumption, FS_Subset
<1>3. m \in Seq(X) /\ ToSet(m) = X
  BY <1>2, SetToSeqFacts
<1> HIDE DEF m
<1>4. /\ DOMAIN l = 1..Len(l) /\ DOMAIN m = 1..Len(m) /\ Len(l) \in Nat /\ Len(m) \in Nat
      /\ DOMAIN (l \o m) = 1..(Len(l) + Len(m))
      /\ \A i \in 1..(Len(l) + Len(m)) :
           (l \o m)[i] = IF i <= Len(l) THEN l[i] ELSE m[i - Len(l)]
  BY <1>1, <1>3
<1>5. ToSet(l \o m) = ToSet(l) \cup ToSet(m)
  <2>1. ASSUME NEW x \in ToSet(l \o m) PROVE x \in ToSet(l) \cup ToSet(m)
    <3>1. PICK i \in 1..(Len(l) + Len(m)) : x = (l \o m)[i]
      BY <1>4, <2>1 DEF ToSet
    <3>2. CASE i <= Len(l)
      BY <1>4, <3>1, <3>2 DEF ToSet
    <3>3. CASE ~(i <= Len(l))
      <4>1. i - Len(l) \in 1..Len(m) /\ x = m[i - Len(l)]
        BY <1>4, <3>1, <3>3
      <4> QED  BY <1>4, <4>1 DEF ToSet
    <3> QED  BY <3>2, <3>3
  <2>2. ASSUME NEW x \in ToSet(l) PROVE x \in ToSet(l \o m)
    <3>1. PICK i \in 1..Len(l) : x = l[i]
      BY <1>4, <2>2 DEF ToSet
    <3>2. i \in 1..(Len(l) + Len(m)) /\ (l \o m)[i] = x
      BY <1>4, <3>1
    <3> QED  BY <1>4, <3>2 DEF ToSet
  <2>3. ASSUME NEW x \in ToSet(m) PROVE x \in ToSet(l \o m)
    <3>1. PICK i \in 1..Len(m) : x = m[i]
      BY <1>4, <2>3 DEF ToSet
    <3>2. i + Len(l) \in 1..(Len(l) + Len(m)) /\ (l \o m)[i + Len(l)] = x
      BY <1>4, <3>1
    <3> QED  BY <1>4, <3>2 DEF ToSet
  <2> QED  BY <2>1, <2>2, <2>3
<1>6. mergeServices(l, S) = l \o m
  BY DEF mergeServices, m
<1> QED  BY <1>1, <1>3, <1>5, <1>6

\* A list of services names services.
LEMMA ListFacts ==
  ASSUME NEW l \in ServiceList
  PROVE  /\ ToSet(l) \subseteq ServiceName
         /\ \A x : Contains(l, x) <=> x \in ToSet(l)
<1>1. l \in Seq(ServiceName)
  BY ListAssumption
<1> QED  BY <1>1 DEF Contains, ToSet, ServiceName

\* What an ingested report brings to an alert and an incident.
LEMMA ReportFacts ==
  ASSUME NEW p \in Report
  PROVE  /\ <<p.service>> \in ServiceList /\ p.service \in ServiceName
         /\ ToSet(<<p.service>>) = {p.service}
         /\ p.key \in FieldType["key"] /\ p.severity \in Severity
<1>1. /\ <<p.service>> \in ServiceList /\ p.severity \in Severity
      /\ p.key \in {Head(l) : l \in ServiceList} \cup Resource
  BY ReportAssumption
<1>2. ToSet(<<p.service>>) = {p.service}
  BY DEF ToSet
<1> QED  BY <1>1, <1>2, ListFacts, FieldFacts

-----------------------------------------------------------------------------
(* What lasts: copies, alerts and saves stay sound while documents are only *)
(* added, versions only grow, and links change with the version.            *)

Later ==
  /\ DOMAIN incidents \subseteq DOMAIN incidents'
  /\ \A i \in DOMAIN incidents :
       /\ incidents[i].ver <= incidents'[i].ver
       /\ incidents'[i].ver \in Nat
       /\ incidents'[i].ver = incidents[i].ver =>
            incidents'[i].related = incidents[i].related
  /\ DOMAIN alerts \subseteq DOMAIN alerts'
  /\ Started \subseteq Started'

\* The calls that have started are finitely many.
LEMMA CountFacts == /\ IsFiniteSet(Started) /\ Cardinality(Started) \in Nat
                    /\ Cardinality(Started) <= Cardinality(Request)
                    /\ Cardinality(Request) \in Nat
<1>1. Started \in SUBSET Request
  BY DEF Started
<1> QED  BY <1>1, RequestAssumption, FS_Subset, FS_CardinalityType

\* A later state has at least as many started calls.
LEMMA CountGrows ==
  ASSUME Later
  PROVE  /\ Cardinality(Started) \in Nat /\ Cardinality(Started') \in Nat
         /\ Cardinality(Started) <= Cardinality(Started')
<1>1. Started' \in SUBSET Request /\ Started \in SUBSET Started'
  BY DEF Started, Later
<1>2. IsFiniteSet(Started')
  BY <1>1, RequestAssumption, FS_Subset
<1>3. Cardinality(Started') \in Nat
  BY <1>2, FS_CardinalityType
<1>4. Cardinality(Started) <= Cardinality(Started')
  BY <1>1, <1>2, FS_Subset
<1> QED  BY <1>3, <1>4, CountFacts

\* An alert stays one as calls start and incidents are added.
LEMMA AlertLasts ==
  ASSUME Later, NEW x, IsAlert(x)
  PROVE  IsAlert(x)'
<1>1. x.count \in 1..(Cardinality(Started') + 1)
  <2>1. x.count \in 1..(Cardinality(Started) + 1)
    BY DEF IsAlert
  <2> QED  BY <2>1, CountGrows
<1>2. x.incidentId \in DOMAIN incidents' \cup {None}
  BY DEF IsAlert, Later
<1> QED  BY <1>1, <1>2 DEF IsAlert

\* A copy stays one: the version it was read at is not written again.
LEMMA CopyLasts ==
  ASSUME SoundIncidents, Later, NEW r, NEW i, NEW d, IsCopy(r, i, d)
  PROVE  IsCopy(r, i, d)'
<1>1. /\ i \in DOMAIN incidents /\ d.ver \in Nat /\ incidents[i].ver \in Nat
      /\ d.ver <= incidents[i].ver
      /\ d.ver = incidents[i].ver => d.related = incidents[i].related
  BY DEF IsCopy, IsDoc, SoundIncidents
<1>2. /\ i \in DOMAIN incidents' /\ incidents'[i].ver \in Nat
      /\ incidents[i].ver <= incidents'[i].ver
      /\ incidents'[i].ver = incidents[i].ver => incidents'[i].related = incidents[i].related
  BY <1>1 DEF Later
<1>3. d.ver <= incidents'[i].ver
  BY <1>1, <1>2
<1>4. d.ver = incidents'[i].ver => d.related = incidents'[i].related
  BY <1>1, <1>2
<1> QED  BY <1>2, <1>3, <1>4 DEF IsCopy

\* A save in flight stays well formed while other saves are executed.
LEMMA WriteLasts ==
  ASSUME SoundIncidents, Later, NEW r, NEW c, WriteInv(r, c)
  PROVE  WriteInv(r, c)'
<1> DEFINE i == c.doc
<1>1. /\ i \in DOMAIN incidents /\ c.where \in Int /\ incidents[i].ver \in Nat
      /\ c.where <= incidents[i].ver
      /\ "related" \in DOMAIN c.set =>
           /\ c.where # AnyVersion
           /\ c.where = incidents[i].ver => OneLink(i, incidents[i].related, c.set.related)
  BY DEF WriteInv, WriteBase, IsCommand, SoundIncidents, IsDoc, AnyVersion
<1>2. /\ i \in DOMAIN incidents' /\ incidents'[i].ver \in Nat
      /\ incidents[i].ver <= incidents'[i].ver
      /\ incidents'[i].ver = incidents[i].ver => incidents'[i].related = incidents[i].related
      /\ DOMAIN incidents \subseteq DOMAIN incidents'
  BY <1>1 DEF Later
<1> HIDE DEF i
<1>3. c.where <= incidents'[i].ver /\ (c.where = incidents'[i].ver => c.where = incidents[i].ver)
  BY <1>1, <1>2
<1>4. ASSUME "related" \in DOMAIN c.set, c.where = incidents'[i].ver
      PROVE  OneLink(i, incidents[i].related, c.set.related)'
  <2>1. OneLink(i, incidents[i].related, c.set.related)
    BY <1>1, <1>3, <1>4
  <2>2. incidents'[i].related = incidents[i].related
    BY <1>1, <1>2, <1>3, <1>4
  <2> QED  BY <1>2, <2>1, <2>2 DEF OneLink
<1>5. WriteBase(c)'
  BY <1>1, <1>3, <1>4 DEF WriteBase, i
<1>6. IsCommand(c)'
  BY <1>2 DEF WriteInv, IsCommand, i
<1> QED  BY <1>5, <1>6 DEF WriteInv, StampedBy

\* What a waiting handler holds stays sound as the store moves on.
LEMMA HeldLasts ==
  ASSUME SoundIncidents, Later, NEW r, NEW h, HeldInv(r, h)
  PROVE  HeldInv(r, h)'
<1>0. DOMAIN incidents \subseteq DOMAIN incidents' /\ DOMAIN alerts \subseteq DOMAIN alerts'
  BY DEF Later
<1>1. \A i, d : IsCopy(r, i, d) => IsCopy(r, i, d)'
  BY CopyLasts
<1>2. \A x : IsAlert(x) => IsAlert(x)'
  BY AlertLasts
<1>4. /\ h.step \in PairStep =>
           IsCopy(r, h.source, h.loaded)' /\ h.target \in DOMAIN incidents'
      /\ h.step \in MergeStep =>
           /\ IsCopy(r, h.source, h.s)' /\ IsCopy(r, h.target, h.t)'
           /\ h.source # h.target /\ h.s.status # Resolved
      /\ h.step = "move" => h.services \subseteq ServiceName
  BY <1>0, <1>1 DEF HeldInv
<1>5. /\ h.step = "count" =>
           /\ h.alert \in DOMAIN alerts'
           /\ IsAlert(h.loaded)' /\ IsAlert(h.wanted)'
           /\ h.wanted.service = h.loaded.service
           /\ h.wanted.incidentId = h.loaded.incidentId
      /\ h.step = "insert" => IsAlert(h.wanted)' /\ h.wanted.incidentId = None
      /\ h.step \in AlertStepName => h.alert \in DOMAIN alerts' /\ IsAlert(h.copy)'
  BY <1>0, <1>2 DEF HeldInv
<1>6. /\ h.step = "link" => IsCopy(r, h.incident, h.loaded)'
      /\ h.step \in {"link", "escalate"} => h.severity \in Severity
      /\ h.step \in {"escalate", "attach", "associate"} => h.incident \in DOMAIN incidents'
  BY <1>0, <1>1 DEF HeldInv
<1> QED  BY <1>4, <1>5, <1>6 DEF HeldInv

\* One handler takes a step that others can take beside it.
LEMMA StepSound ==
  ASSUME CorrelationInv, Later, ShapeInv', NEW r \in Request,
         \A q \in Request \ {r} :
           pc'[q] = pc[q] /\ held'[q] = held[q] /\ writes'[q] = writes[q],
         \A c \in writes'[r] : WriteInv(r, c)',
         writes'[r] # {} => pc'[r] \in {"saving", "failed"},
         pc'[r] = "working" => HeldInv(r, held[r])',
         SoundIncidents', ResolvedIsDated', StampsSent', AlertsInv',
         aged' \subseteq DOMAIN alerts' \cup DOMAIN incidents'
  PROVE  CorrelationInv'
<1>1. SavesAwaited'
  BY DEF SavesAwaited, CorrelationInv
<1>2. ASSUME NEW q \in Request, NEW c \in writes'[q] PROVE WriteInv(q, c)'
  <2>1. CASE q = r
    BY <1>2, <2>1
  <2>2. CASE q # r
    <3>1. c \in writes[q]
      BY <1>2, <2>2
    <3>2. WriteInv(q, c) /\ SoundIncidents
      BY <3>1 DEF CorrelationInv
    <3> QED  BY <3>2, WriteLasts
  <2> QED  BY <2>1, <2>2
<1>3. ASSUME NEW q \in Request, pc'[q] = "working" PROVE HeldInv(q, held[q])'
  <2>1. CASE q = r
    BY <1>3, <2>1
  <2>2. CASE q # r
    <3>1. pc[q] = "working" /\ held'[q] = held[q]
      BY <1>3, <2>2
    <3>2. PICK h : h = held[q]
      OBVIOUS
    <3>3. HeldInv(q, h) /\ SoundIncidents
      BY <3>1, <3>2 DEF CorrelationInv
    <3>4. HeldInv(q, h)'
      BY <3>3, HeldLasts
    <3>5. h = held'[q]
      BY <3>1, <3>2
    <3> QED  BY <3>4, <3>5
  <2> QED  BY <2>1, <2>2
<1> QED  BY <1>1, <1>2, <1>3 DEF CorrelationInv

-----------------------------------------------------------------------------
(* Ways in which a handler goes on.                                        *)

\* The alerts before and after a step that may add or change one.
AlertsStay ==
  /\ alerts' = [a \in DOMAIN alerts' |-> alerts'[a]]
  /\ DOMAIN alerts \subseteq DOMAIN alerts' /\ DOMAIN alerts' \subseteq Alert
  /\ \A a \in DOMAIN alerts' : \E x : x = alerts'[a] /\ IsAlert(x)

\* Alerts that are not written stay sound.
LEMMA AlertsUnchanged == CorrelationInv /\ UNCHANGED alerts => AlertsStay
BY DEF CorrelationInv, AlertsInv, AlertsStay

\* A step that writes no incident leaves the sound ones sound.
LEMMA SameIncidents ==
  ASSUME CorrelationInv, UNCHANGED incidents, AlertsStay, Started \subseteq Started'
  PROVE  /\ Later /\ AlertsInv' /\ SoundIncidents' /\ ResolvedIsDated'
         /\ DOMAIN alerts \subseteq DOMAIN alerts' /\ DOMAIN incidents = DOMAIN incidents'
<1>1. \A i \in DOMAIN incidents : incidents[i].ver \in Nat
  BY DEF CorrelationInv, SoundIncidents, IsDoc
<1>2. Later
  BY <1>1 DEF Later, AlertsStay
<1>3. AlertsInv'
  <2>1. ASSUME NEW a \in DOMAIN alerts' PROVE IsAlert(alerts[a])'
    <3>1. PICK x : x = alerts'[a] /\ IsAlert(x)
      BY DEF AlertsStay
    <3>2. IsAlert(x)'
      BY <1>2, <3>1, AlertLasts
    <3> QED  BY <3>1, <3>2
  <2> QED  BY <2>1 DEF AlertsInv, AlertsStay
<1>4. SoundIncidents' /\ ResolvedIsDated'
  BY DEF CorrelationInv, SoundIncidents, ResolvedIsDated, IsDoc
<1> QED  BY <1>2, <1>3, <1>4 DEF AlertsStay

\* The other handlers stand where they stood.
Alone(r) ==
  /\ ShapeInv'
  /\ Started \subseteq Started'
  /\ \A q \in Request \ {r} :
       pc'[q] = pc[q] /\ held'[q] = held[q] /\ writes'[q] = writes[q]

\* Sending saves changes nothing of another handler.
LEMMA SendAlone ==
  ASSUME ShapeInv, NEW r \in Request, NEW commands, Send(r, commands)
  PROVE  /\ Alone(r) /\ writes'[r] \subseteq commands
         /\ pc'[r] \in {"saving", "written"}
         /\ writes'[r] # {} => pc'[r] = "saving"
         /\ writes'[r] = {c \in commands : DOMAIN c.set # {}}
<1>1. /\ DOMAIN pc' = Request /\ DOMAIN held' = Request /\ DOMAIN writes' = Request
      /\ \A q \in Request \ {r} : pc'[q] = pc[q] /\ held'[q] = held[q] /\ writes'[q] = writes[q]
  BY DEF Send, ShapeInv
<1>2. /\ writes'[r] = {c \in commands : DOMAIN c.set # {}}
      /\ pc'[r] = IF writes'[r] = {} THEN "written" ELSE "saving"
  BY DEF Send, ShapeInv
<1>3. \A q \in Request : pc[q] # "idle" => pc'[q] # "idle"
  BY <1>1, <1>2
<1> QED  BY <1>1, <1>2, <1>3 DEF Alone, ShapeInv, Started

\* Returning changes nothing of another handler.
LEMMA ReturnAlone ==
  ASSUME ShapeInv, NEW r \in Request, NEW answer \in Ended, Return(r, answer)
  PROVE  Alone(r) /\ writes' = writes /\ pc'[r] = answer
<1>1. /\ DOMAIN pc' = Request /\ DOMAIN held' = Request /\ DOMAIN writes' = Request
      /\ \A q \in Request \ {r} : pc'[q] = pc[q] /\ held'[q] = held[q] /\ writes'[q] = writes[q]
      /\ pc'[r] = answer /\ answer # "idle" /\ writes' = writes
  BY DEF Return, ShapeInv, Ended
<1>3. \A q \in Request : pc[q] # "idle" => pc'[q] # "idle"
  BY <1>1
<1> QED  BY <1>1, <1>3 DEF Alone, ShapeInv, Started

\* Awaiting a call changes nothing of another handler.
LEMMA AwaitAlone ==
  ASSUME ShapeInv, NEW r \in Request, NEW h, Await(r, h)
  PROVE  /\ Alone(r) /\ writes' = writes /\ pc'[r] = "working" /\ held'[r] = h
         /\ Started' = Started \cup {r}
<1>1. /\ DOMAIN pc' = Request /\ DOMAIN held' = Request /\ DOMAIN writes' = Request
      /\ \A q \in Request \ {r} : pc'[q] = pc[q] /\ held'[q] = held[q] /\ writes'[q] = writes[q]
      /\ pc'[r] = "working" /\ writes' = writes /\ held'[r] = h
  BY DEF Await, ShapeInv
<1>2. \A q \in Request : pc'[q] # "idle" <=> pc[q] # "idle" \/ q = r
  BY <1>1
<1> QED  BY <1>1, <1>2 DEF Alone, ShapeInv, Started

\* A handler that sends well-formed saves preserves the invariant.
LEMMA SendSound ==
  ASSUME CorrelationInv, NEW r \in Request, NEW commands, Send(r, commands),
         \A c \in commands : WriteInv(r, c),
         UNCHANGED <<incidents, aged>>, AlertsStay
  PROVE  CorrelationInv'
<1>1. /\ Alone(r) /\ writes'[r] \subseteq commands /\ pc'[r] \in {"saving", "written"}
      /\ writes'[r] # {} => pc'[r] = "saving"
  BY SendAlone DEF CorrelationInv
<1>2. /\ Later /\ AlertsInv' /\ SoundIncidents' /\ ResolvedIsDated'
      /\ DOMAIN alerts \subseteq DOMAIN alerts' /\ DOMAIN incidents = DOMAIN incidents'
  BY <1>1, SameIncidents DEF Alone
<1>3. \A c \in writes'[r] : WriteInv(r, c)'
  BY <1>1, <1>2, WriteLasts DEF CorrelationInv
<1>4. StampsSent'
  BY <1>1 DEF StampsSent, CorrelationInv, Alone
<1>5. aged' \subseteq DOMAIN alerts' \cup DOMAIN incidents'
  BY <1>2 DEF CorrelationInv
<1> QED  BY <1>1, <1>2, <1>3, <1>4, <1>5, StepSound DEF Alone

\* A handler that ends preserves the invariant.
LEMMA ReturnSound ==
  ASSUME CorrelationInv, NEW r \in Request, NEW answer \in Ended, Return(r, answer),
         writes[r] = {}, UNCHANGED <<incidents, aged>>, AlertsStay
  PROVE  CorrelationInv'
<1>1. Alone(r) /\ writes' = writes /\ pc'[r] = answer
  BY ReturnAlone DEF CorrelationInv
<1>2. /\ Later /\ AlertsInv' /\ SoundIncidents' /\ ResolvedIsDated'
      /\ DOMAIN alerts \subseteq DOMAIN alerts' /\ DOMAIN incidents = DOMAIN incidents'
  BY <1>1, SameIncidents DEF Alone
<1>4. StampsSent'
  BY <1>1 DEF StampsSent, CorrelationInv, Alone, Ended
<1>5. aged' \subseteq DOMAIN alerts' \cup DOMAIN incidents'
  BY <1>2 DEF CorrelationInv
<1>6. writes'[r] = {} /\ pc'[r] # "working"
  BY <1>1 DEF Ended
<1> QED  BY <1>1, <1>2, <1>4, <1>5, <1>6, StepSound DEF Alone

\* A handler that awaits its next call, holding what is sound, preserves it.
LEMMA AwaitSound ==
  ASSUME CorrelationInv, NEW r \in Request, NEW h, Await(r, h),
         pc[r] \in {"idle", "working"}, HeldInv(r, h)',
         UNCHANGED <<incidents, aged>>, AlertsStay
  PROVE  CorrelationInv'
<1>1. Alone(r) /\ writes' = writes /\ pc'[r] = "working" /\ held'[r] = h
  BY AwaitAlone DEF CorrelationInv
<1>2. /\ Later /\ AlertsInv' /\ SoundIncidents' /\ ResolvedIsDated'
      /\ DOMAIN alerts \subseteq DOMAIN alerts' /\ DOMAIN incidents = DOMAIN incidents'
  BY <1>1, SameIncidents DEF Alone
<1>3. writes'[r] = {}
  BY <1>1 DEF CorrelationInv, SavesAwaited
<1>4. StampsSent'
  BY <1>1 DEF StampsSent, CorrelationInv, Alone
<1>5. aged' \subseteq DOMAIN alerts' \cup DOMAIN incidents'
  BY <1>2 DEF CorrelationInv
<1> QED  BY <1>1, <1>2, <1>3, <1>4, <1>5, StepSound DEF Alone

-----------------------------------------------------------------------------
(* Saves of copies.                                                        *)

\* What a save of a copy d, as the handler left it in w, sends.
IsSave(c, i, d, w, assigned) ==
  /\ c = [doc |-> i, where |-> c.where, set |-> c.set]
  /\ DOMAIN c.set = {f \in Field : w[f] # d[f]} \cup (IF assigned THEN {"related"} ELSE {})
  /\ \A f \in DOMAIN c.set : c.set[f] = w[f]
  /\ c.where \in {AnyVersion, d.ver}
  /\ {"services", "related", "tags"} \cap DOMAIN c.set # {} => c.where = d.ver

\* The commands of Mongoose are saves of the fields that differ.
LEMMA SaveFacts ==
  ASSUME NEW i, NEW d, NEW w, IsDoc(d), IsDoc(w), w.ver = d.ver
  PROVE  /\ IsSave(Saves(i, d, w), i, d, w, FALSE)
         /\ \A assigned \in BOOLEAN :
              IsSave(SavesList(i, d, w, assigned), i, d, w, assigned)
<1> DEFINE c == Saves(i, d, w)
<1>1. DOMAIN w = Field \cup {"ver"} /\ "ver" \notin Field
  BY FieldFacts DEF IsDoc
<1>2. Dirty(d, w) = {f \in Field : w[f] # d[f]}
  BY <1>1 DEF Dirty
<1>3. c = [doc |-> i, where |-> IF Dirty(d, w) \cap ArrayFields # {} THEN d.ver ELSE AnyVersion,
           set |-> [f \in Dirty(d, w) |-> w[f]]]
  BY DEF Saves, SaveCommand
<1>4. DOMAIN c.set = Dirty(d, w) /\ \A f \in Dirty(d, w) : c.set[f] = w[f]
  BY <1>3
<1>5. IsSave(c, i, d, w, FALSE)
  BY <1>2, <1>3, <1>4 DEF IsSave, ArrayFields
<1>6. IsSave(SavesList(i, d, w, FALSE), i, d, w, FALSE)
  BY <1>5 DEF SavesList
<1>7. IsSave(SavesList(i, d, w, TRUE), i, d, w, TRUE)
  <2> DEFINE e == SavesList(i, d, w, TRUE)
             set == [f \in DOMAIN c.set \cup {"related"} |-> w[f]]
  <2>0. e = [c EXCEPT !.where = d.ver, !.set = set]
    BY DEF SavesList
  <2>a. c = [doc |-> i, where |-> c.where, set |-> c.set]
    BY <1>3
  <2>b. DOMAIN set = Dirty(d, w) \cup {"related"} /\ \A f \in DOMAIN set : set[f] = w[f]
    BY <1>4
  <2> HIDE DEF c, set
  <2>1. e = [doc |-> i, where |-> d.ver, set |-> set]
    <3> HIDE DEF e
    <3>1. DOMAIN c = {"doc", "where", "set"} /\ c.doc = i
      BY <2>a
    <3>2. /\ e = [f \in {"doc", "where", "set"} |-> e[f]]
          /\ e.doc = i /\ e.where = d.ver /\ e.set = set
      BY <2>0, <3>1
    <3> QED  BY <3>2
  <2>2. DOMAIN e.set = Dirty(d, w) \cup {"related"} /\ e.where = d.ver
        /\ \A f \in DOMAIN e.set : e.set[f] = w[f]
    <3> HIDE DEF e
    <3> QED  BY <2>1, <2>b
  <2> HIDE DEF e
  <2>3. e = [doc |-> i, where |-> e.where, set |-> e.set]
    BY <2>1
  <2> QED  BY <1>2, <2>2, <2>3 DEF IsSave, e
<1> QED  BY <1>5, <1>6, <1>7

\* How a handler may change the status fields of its copy.
KeepsStatus(d, w) == w.status = d.status /\ w.resolvedAt = d.resolvedAt
SetsStatus(r, d, w) ==
  /\ w.status # d.status
  /\ w.resolvedAt = IF w.status = Resolved THEN r ELSE None

\* A save of a copy that changes its links by one, if at all, is sound.
LEMMA SaveSound ==
  ASSUME SoundIncidents, NEW r \in Request, NEW i, NEW d, NEW w, NEW c,
         NEW assigned \in BOOLEAN,
         IsCopy(r, i, d), IsDoc(w), IsSave(c, i, d, w, assigned),
         KeepsStatus(d, w) \/ SetsStatus(r, d, w),
         assigned \/ w.related # d.related => OneLink(i, d.related, w.related)
  PROVE  WriteInv(r, c)
<1>1. /\ i \in DOMAIN incidents /\ incidents[i].ver \in Nat /\ d.ver \in Nat
      /\ d.ver <= incidents[i].ver
      /\ d.ver = incidents[i].ver => d.related = incidents[i].related
      /\ IsDoc(d) /\ d.resolvedAt # r
  BY DEF IsCopy, IsDoc, SoundIncidents
<1>2. /\ c = [doc |-> i, where |-> c.where, set |-> c.set] /\ c.doc = i
      /\ \A f \in DOMAIN c.set : f \in Field /\ c.set[f] = w[f]
      /\ \A f \in Field : w[f] # d[f] => f \in DOMAIN c.set
      /\ \A f \in DOMAIN c.set : w[f] # d[f] \/ (assigned /\ f = "related")
      /\ c.where \in {AnyVersion, d.ver}
      /\ "related" \in DOMAIN c.set => c.where = d.ver
  BY FieldFacts DEF IsSave
<1>3. IsCommand(c)
  <2>1. DOMAIN c.set \subseteq Field /\ \A f \in DOMAIN c.set : c.set[f] \in FieldType[f]
    BY <1>2 DEF IsDoc
  <2> QED  BY <1>1, <1>2, <2>1 DEF IsCommand
<1>4. WriteBase(c)
  <2>1. c.where <= incidents[c.doc].ver
    BY <1>1, <1>2 DEF AnyVersion
  <2>2. ASSUME "related" \in DOMAIN c.set
        PROVE  /\ c.where # AnyVersion
               /\ c.where = incidents[c.doc].ver => OneLink(c.doc, incidents[c.doc].related, c.set.related)
    <3>1. OneLink(i, d.related, w.related)
      BY <1>2, <2>2
    <3>2. c.where = d.ver /\ c.set.related = w.related
      BY <1>2, <2>2
    <3> QED  BY <1>1, <1>2, <3>1, <3>2 DEF AnyVersion
  <2> QED  BY <2>1, <2>2 DEF WriteBase
<1>5. StampedBy(r, c)
  <2>0. r # None /\ "status" \in Field /\ "resolvedAt" \in Field
    BY NoneAssumption, FieldFacts
  <2>1. CASE KeepsStatus(d, w)
    BY <1>2, <2>0, <2>1 DEF KeepsStatus, StampedBy
  <2>2. CASE SetsStatus(r, d, w)
    <3>1. "status" \in DOMAIN c.set /\ c.set.status = w.status
      BY <1>2, <2>0, <2>2 DEF SetsStatus
    <3>2. "resolvedAt" \in DOMAIN c.set => c.set.resolvedAt = w.resolvedAt
      BY <1>2
    <3>3. w.status = Resolved => "resolvedAt" \in DOMAIN c.set
      BY <1>1, <1>2, <2>0, <2>2 DEF SetsStatus
    <3> QED  BY <2>0, <2>2, <3>1, <3>2, <3>3 DEF SetsStatus, StampedBy
  <2> QED  BY <2>1, <2>2
<1> QED  BY <1>3, <1>4, <1>5 DEF WriteInv

\* A document just loaded is such a copy.
LEMMA LoadedIsCopy ==
  ASSUME CorrelationInv, NEW r \in Request, pc[r] \in {"idle", "working"},
         NEW i \in DOMAIN incidents
  PROVE  IsDoc(incidents[i]) /\ IsCopy(r, i, incidents[i])
<1>1. IsDoc(incidents[i]) /\ incidents[i].ver \in Nat
  BY DEF CorrelationInv, SoundIncidents, IsDoc
<1>2. incidents[i].resolvedAt # r
  BY DEF CorrelationInv, StampsSent
<1> QED  BY <1>1, <1>2 DEF IsCopy

\* Fields of a copy that handlers assign without touching status and links.
LEMMA FieldSaved ==
  ASSUME CorrelationInv, NEW r \in Request, NEW i, NEW d, IsCopy(r, i, d),
         NEW f \in {"severity", "assignee", "services"}, NEW x \in FieldType[f]
  PROVE  WriteInv(r, Saves(i, d, [d EXCEPT ![f] = x]))
<1> DEFINE w == [d EXCEPT ![f] = x]
<1>1. IsDoc(d) /\ f \in Field
  BY FieldFacts DEF IsCopy
<1>2. IsDoc(w) /\ w.ver = d.ver
  BY <1>1, ExceptType
<1>3. w.status = d.status /\ w.resolvedAt = d.resolvedAt /\ w.related = d.related
  BY <1>1, FieldFacts DEF IsDoc
<1> HIDE DEF w
<1>4. IsSave(Saves(i, d, w), i, d, w, FALSE)
  BY <1>1, <1>2, SaveFacts
<1>5. WriteInv(r, Saves(i, d, w))
  BY <1>2, <1>3, <1>4, SaveSound DEF KeepsStatus, CorrelationInv
<1> QED  BY <1>5 DEF w

\* A copy whose list of links changes by one.
LEMMA ListSaved ==
  ASSUME CorrelationInv, NEW r \in Request, NEW i, NEW d, IsCopy(r, i, d),
         NEW S, OneLink(i, d.related, S)
  PROVE  WriteInv(r, Saves(i, d, [d EXCEPT !.related = S]))
<1> DEFINE w == [d EXCEPT !["related"] = S]
<1>1. IsDoc(d) /\ DOMAIN incidents \subseteq Incident
  BY DEF IsCopy, CorrelationInv, SoundIncidents
<1>2. S \in FieldType["related"] /\ "related" \in Field
  BY <1>1, FieldFacts DEF IsDoc, OneLink
<1>3. IsDoc(w) /\ w.ver = d.ver
  BY <1>1, <1>2, ExceptType
<1>4. w.status = d.status /\ w.resolvedAt = d.resolvedAt /\ w.related = S
  BY <1>1, FieldFacts DEF IsDoc
<1> HIDE DEF w
<1>5. IsSave(Saves(i, d, w), i, d, w, FALSE)
  BY <1>1, <1>3, SaveFacts
<1>6. WriteInv(r, Saves(i, d, w))
  BY <1>3, <1>4, <1>5, SaveSound DEF KeepsStatus, CorrelationInv
<1> QED  BY <1>6 DEF w

\* A document is added.
Adds(i, d) ==
  /\ i \in Incident /\ i \notin DOMAIN incidents
  /\ incidents' = [j \in DOMAIN incidents \cup {i} |-> IF j = i THEN d ELSE incidents[j]]

\* Inserting an open incident leaves the others as they are.
LEMMA AddFacts ==
  ASSUME CorrelationInv, NEW i, NEW d, Adds(i, d), IsDoc(d),
         d.status = "OPEN", d.resolvedAt = None,
         Started \subseteq Started', AlertsStay
  PROVE  /\ Later /\ SoundIncidents' /\ ResolvedIsDated' /\ AlertsInv'
         /\ DOMAIN incidents' = DOMAIN incidents \cup {i} /\ incidents'[i] = d
         /\ \A j \in DOMAIN incidents : incidents'[j] = incidents[j]
<1>1. /\ DOMAIN incidents' = DOMAIN incidents \cup {i} /\ incidents'[i] = d
      /\ i \notin DOMAIN incidents /\ i \in Incident
      /\ \A j \in DOMAIN incidents : incidents'[j] = incidents[j]
  BY DEF Adds
<1>2. Later
  BY <1>1 DEF Later, AlertsStay, CorrelationInv, SoundIncidents, IsDoc
<1>3. SoundIncidents'
  <2>1. ASSUME NEW j \in DOMAIN incidents' PROVE IsDoc(incidents[j])'
    BY <1>1, <2>1 DEF CorrelationInv, SoundIncidents, IsDoc
  <2> QED  BY <1>1, <2>1 DEF CorrelationInv, SoundIncidents
<1>4. ResolvedIsDated'
  BY <1>1, StatusAssumption DEF CorrelationInv, ResolvedIsDated
<1>5. AlertsInv'
  <2>1. ASSUME NEW a \in DOMAIN alerts' PROVE IsAlert(alerts[a])'
    <3>1. PICK x : x = alerts'[a] /\ IsAlert(x)
      BY DEF AlertsStay
    <3>2. IsAlert(x)'
      BY <1>2, <3>1, AlertLasts
    <3> QED  BY <3>1, <3>2
  <2> QED  BY <2>1 DEF AlertsInv, AlertsStay
<1> QED  BY <1>1, <1>2, <1>3, <1>4, <1>5

\* A new incident is open and has no resolution time.
LEMMA NewIncidentFacts ==
  ASSUME NEW sev, NEW sv, NEW a
  PROVE  LET d == NewIncident(sev, sv, a)
         IN  d.status = "OPEN" /\ d.resolvedAt = None
BY DEF NewIncident

\* create() inserts an open incident.
LEMMA CreateSound ==
  ASSUME CorrelationInv, NEW r \in Request, NEW i \in Incident, NEW sev \in Severity,
         NEW sv \in ServiceList, NEW a \in User \cup {None}, Create(r, i, sev, sv, a),
         UNCHANGED <<alerts, aged>>
  PROVE  CorrelationInv'
<1> PICK d : d = NewIncident(sev, sv, a)
  OBVIOUS
<1>1. IsDoc(d) /\ d.status = "OPEN" /\ d.resolvedAt = None
  BY NewIncidentType, NewIncidentFacts
<1>2. /\ Adds(i, d) /\ pc[r] = "idle" /\ pc' = [pc EXCEPT ![r] = "written"]
      /\ held' = held /\ writes' = writes
  BY DEF Create, Adds, Starts
<1>3. Alone(r) /\ pc'[r] = "written"
  BY <1>2 DEF Alone, ShapeInv, CorrelationInv, Started
<1>4. /\ Later /\ SoundIncidents' /\ ResolvedIsDated' /\ AlertsInv'
      /\ DOMAIN incidents' = DOMAIN incidents \cup {i} /\ incidents'[i] = d
      /\ \A j \in DOMAIN incidents : incidents'[j] = incidents[j]
  BY <1>1, <1>2, <1>3, AddFacts, AlertsUnchanged DEF Alone
<1>5. writes'[r] = {}
  BY <1>2 DEF CorrelationInv, SavesAwaited
<1>6. StampsSent'
  BY <1>1, <1>3, <1>4, NoneAssumption DEF StampsSent, CorrelationInv, Alone
<1>7. aged' \subseteq DOMAIN alerts' \cup DOMAIN incidents'
  BY <1>4 DEF CorrelationInv
<1> QED  BY <1>3, <1>4, <1>5, <1>6, <1>7, StepSound DEF Alone

\* changeStatus() and resolve() stamp only what they resolve.
LEMMA ChangeStatusSound ==
  ASSUME CorrelationInv, NEW r \in Request, NEW i \in DOMAIN incidents, NEW s \in Status,
         ChangeStatus(r, i, s), UNCHANGED <<alerts, aged>>
  PROVE  CorrelationInv'
<1> PICK e : e = incidents[i]
  OBVIOUS
<1> PICK w : w = WithStatus(e, s, r)
  OBVIOUS
<1>1. pc[r] = "idle" /\ UNCHANGED incidents /\ AlertsStay /\ writes[r] = {}
  BY AlertsUnchanged DEF ChangeStatus, Starts, CorrelationInv, SavesAwaited
<1>2. IsDoc(e) /\ IsCopy(r, i, e)
  BY <1>1, LoadedIsCopy
<1>3. IsDoc(w) /\ w.ver = e.ver
  BY <1>2, ChangeStatusSends DEF CorrelationInv
<1>4. CASE e.status = s
  <2>1. Return(r, "done")
    BY <1>4 DEF ChangeStatus
  <2> QED  BY <1>1, <2>1, ReturnSound DEF Ended
<1>5. CASE e.status # s
  <2>1. /\ w.status = s /\ w.related = e.related
        /\ w.resolvedAt = IF s = Resolved THEN r ELSE None
    BY <1>2, FieldFacts DEF WithStatus, IsDoc
  <2>2. IsSave(Saves(i, e, w), i, e, w, FALSE)
    BY <1>2, <1>3, SaveFacts
  <2>3. WriteInv(r, Saves(i, e, w))
    BY <1>2, <1>3, <1>5, <2>1, <2>2, SaveSound DEF SetsStatus, CorrelationInv
  <2>4. Send(r, {Saves(i, e, w)})
    BY <1>5 DEF ChangeStatus
  <2>5. \A c \in {Saves(i, e, w)} : WriteInv(r, c)
    BY <2>3
  <2> QED  BY <1>1, <2>4, <2>5, SendSound
<1> QED  BY <1>4, <1>5

\* Handlers that change one field.
LEMMA FieldSound ==
  ASSUME CorrelationInv, NEW r \in Request, pc[r] = "idle", NEW i \in DOMAIN incidents,
         NEW f \in {"severity", "assignee"}, NEW x \in FieldType[f], NEW answer \in Ended,
         \/ Return(r, answer)
         \/ Send(r, {Saves(i, incidents[i], [incidents[i] EXCEPT ![f] = x])}),
         UNCHANGED <<incidents, alerts, aged>>
  PROVE  CorrelationInv'
<1> DEFINE c == Saves(i, incidents[i], [incidents[i] EXCEPT ![f] = x])
<1>1. AlertsStay /\ writes[r] = {}
  BY AlertsUnchanged DEF CorrelationInv, SavesAwaited
<1>2. WriteInv(r, c)
  BY LoadedIsCopy, FieldSaved
<1> HIDE DEF c
<1>3. \A b \in {c} : WriteInv(r, b)
  BY <1>2
<1>4. CASE Send(r, {c})
  BY <1>1, <1>3, <1>4, SendSound
<1>5. CASE Return(r, answer)
  BY <1>1, <1>5, ReturnSound
<1> QED  BY <1>4, <1>5 DEF c

\* update() writes what the body names.
LEMMA UpdateSound ==
  ASSUME CorrelationInv, NEW r \in Request, NEW i \in DOMAIN incidents, NEW body \in Body,
         Update(r, i, body), UNCHANGED <<alerts, aged>>
  PROVE  CorrelationInv'
<1> DEFINE u == UpdateFields(r, incidents[i], body)
<1>1. pc[r] = "idle" /\ UNCHANGED incidents /\ AlertsStay /\ writes[r] = {}
  BY AlertsUnchanged DEF Update, Starts, CorrelationInv, SavesAwaited
<1>2. /\ DOMAIN u \subseteq Field /\ \A f \in DOMAIN u : u[f] \in FieldType[f]
      /\ StampedBy(r, SetCommand(i, u)) /\ "related" \notin DOMAIN u
  <2>1. "related" \notin DOMAIN u
    BY DEF UpdateFields, Body
  <2> QED  BY <2>1, UpdateFieldsType, UpdateStamp
<1>3. incidents[i].ver \in Nat
  BY DEF CorrelationInv, SoundIncidents, IsDoc
<1>4. Send(r, {SetCommand(i, u)}) \/ Return(r, "refused")
  BY DEF Update
<1> HIDE DEF u
<1>5. WriteInv(r, SetCommand(i, u))
  BY <1>2, <1>3 DEF WriteInv, SetCommand, IsCommand, WriteBase, AnyVersion
<1>6. \A c \in {SetCommand(i, u)} : WriteInv(r, c)
  BY <1>5
<1>7. CASE Send(r, {SetCommand(i, u)})
  BY <1>1, <1>6, <1>7, SendSound
<1>8. CASE Return(r, "refused")
  BY <1>1, <1>8, ReturnSound DEF Ended
<1> QED  BY <1>4, <1>7, <1>8

\* The first read of relate, unrelate and merge takes a copy of the source.
LEMMA ReadFirstSound ==
  ASSUME CorrelationInv, NEW r \in Request, NEW e \in PairStep,
         NEW i \in DOMAIN incidents, NEW j \in DOMAIN incidents, ReadFirst(r, e, i, j),
         UNCHANGED <<alerts, aged>>
  PROVE  CorrelationInv'
<1> PICK h : h = [step |-> e, source |-> i, loaded |-> incidents[i], target |-> j]
  OBVIOUS
<1>1. pc[r] = "idle" /\ UNCHANGED incidents /\ AlertsStay /\ Await(r, h)
  BY AlertsUnchanged DEF ReadFirst, Starts
<1>2. IsCopy(r, i, incidents[i])
  BY <1>1, LoadedIsCopy
<1>3. HeldInv(r, h)
  <2>1. h.step \notin MergeStep /\ h.step \notin AlertStepName
        /\ h.step \notin {"move", "count", "insert", "link", "escalate", "attach", "associate"}
    BY DEF PairStep, MergeStep, AlertStepName
  <2> QED  BY <1>2, <2>1 DEF HeldInv
<1>4. Later
  BY <1>1, SameIncidents, AwaitAlone DEF Alone, CorrelationInv
<1>5. HeldInv(r, h)'
  BY <1>3, <1>4, HeldLasts DEF CorrelationInv
<1> QED  BY <1>1, <1>5, AwaitSound

\* A handler of Incidents that begins, beside the alerts.
LEMMA BeginSound ==
  ASSUME CorrelationInv, NEW r \in Request, Begin(r), UNCHANGED <<alerts, aged>>
  PROVE  CorrelationInv'
<1>1. ASSUME NEW i \in Incident, NEW sev \in Severity, NEW sv \in ServiceList,
             NEW a \in User \cup {None}, Create(r, i, sev, sv, a)
      PROVE  CorrelationInv'
  BY <1>1, CreateSound
<1>2. ASSUME NEW i \in DOMAIN incidents, NEW s \in Status, ChangeStatus(r, i, s)
      PROVE  CorrelationInv'
  BY <1>2, ChangeStatusSound
<1>3. ASSUME NEW i \in DOMAIN incidents, NEW sev \in Severity, ChangeSeverity(r, i, sev)
      PROVE  CorrelationInv'
  <2>1. /\ pc[r] = "idle" /\ UNCHANGED incidents
        /\ \/ Return(r, "done")
           \/ Send(r, {Saves(i, incidents[i], [incidents[i] EXCEPT !["severity"] = sev])})
    BY <1>3 DEF ChangeSeverity, Starts
  <2> QED  BY <2>1, FieldSound, FieldFacts DEF Ended
<1>4. ASSUME NEW i \in DOMAIN incidents, NEW a \in User \cup {None}, Assign(r, i, a)
      PROVE  CorrelationInv'
  <2>1. /\ pc[r] = "idle" /\ UNCHANGED incidents
        /\ \/ Return(r, "refused")
           \/ Send(r, {Saves(i, incidents[i], [incidents[i] EXCEPT !["assignee"] = a])})
    BY <1>4 DEF Assign, Starts
  <2> QED  BY <2>1, FieldSound, FieldFacts DEF Ended
<1>5. ASSUME NEW i \in DOMAIN incidents, NEW b \in Body, Update(r, i, b)
      PROVE  CorrelationInv'
  BY <1>5, UpdateSound
<1>6. ASSUME NEW i \in DOMAIN incidents, NEW j \in DOMAIN incidents,
             NEW e \in {"relate", "unrelate"}, ReadFirst(r, e, i, j)
      PROVE  CorrelationInv'
  BY <1>6, ReadFirstSound DEF PairStep
<1> QED  BY <1>1, <1>2, <1>3, <1>4, <1>5, <1>6 DEF Begin

-----------------------------------------------------------------------------
(* relate, unrelate and merge.                                             *)

\* Both incidents of a pair are saved with one link more or less.
LEMMA PairSound ==
  ASSUME CorrelationInv, NEW r \in Request, pc[r] = "working", NEW h, h = held[r],
         IsCopy(r, h.source, h.loaded), h.target \in DOMAIN incidents,
         NEW S, NEW T, OneLink(h.source, h.loaded.related, S),
         OneLink(h.target, incidents[h.target].related, T),
         Send(r, {Saves(h.source, h.loaded, [h.loaded EXCEPT !.related = S]),
                  Saves(h.target, incidents[h.target],
                        [incidents[h.target] EXCEPT !.related = T])}),
         UNCHANGED <<incidents, alerts, aged>>
  PROVE  CorrelationInv'
<1> PICK t : t = incidents[h.target]
  OBVIOUS
<1> DEFINE c == Saves(h.source, h.loaded, [h.loaded EXCEPT !.related = S])
           b == Saves(h.target, t, [t EXCEPT !.related = T])
<1>1. WriteInv(r, c)
  BY ListSaved
<1>2. WriteInv(r, b)
  <2>1. IsCopy(r, h.target, t) /\ OneLink(h.target, t.related, T)
    BY LoadedIsCopy
  <2> QED  BY <2>1, ListSaved
<1>3. Send(r, {c, b})
  OBVIOUS
<1> HIDE DEF c, b
<1>4. \A d \in {c, b} : WriteInv(r, d)
  BY <1>1, <1>2
<1> QED  BY <1>3, <1>4, SendSound, AlertsUnchanged

\* addRelated() sends two saves that add one link each.
LEMMA RelateSound ==
  ASSUME CorrelationInv, NEW r \in Request, Relate(r), UNCHANGED <<alerts, aged>>
  PROVE  CorrelationInv'
<1> PICK h : h = held[r]
  OBVIOUS
<1> DEFINE s == h.loaded  t == incidents[h.target]
<1>1. /\ pc[r] = "working" /\ UNCHANGED incidents /\ AlertsStay /\ writes[r] = {}
      /\ IsCopy(r, h.source, s) /\ h.target \in DOMAIN incidents
  BY AlertsUnchanged DEF Relate, At, CorrelationInv, SavesAwaited, HeldInv, PairStep
<1>2. CASE CanRelate(h.source, s, h.target, t)
  <2>1. /\ OneLink(h.source, s.related, s.related \cup {h.target})
        /\ OneLink(h.target, t.related, t.related \cup {h.source})
    BY <1>1, <1>2 DEF OneLink, CanRelate, IsCopy
  <2>2. Send(r, {Saves(h.source, s, [s EXCEPT !.related = s.related \cup {h.target}]),
                 Saves(h.target, t, [t EXCEPT !.related = t.related \cup {h.source}])})
    BY <1>2 DEF Relate
  <2> QED  BY <1>1, <2>1, <2>2, PairSound
<1>3. CASE ~CanRelate(h.source, s, h.target, t)
  <2>1. Return(r, "refused")
    BY <1>3 DEF Relate
  <2> QED  BY <1>1, <2>1, ReturnSound DEF Ended
<1> QED  BY <1>2, <1>3

\* removeRelated() sends two saves that drop one link each.
LEMMA UnrelateSound ==
  ASSUME CorrelationInv, NEW r \in Request, Unrelate(r), UNCHANGED <<alerts, aged>>
  PROVE  CorrelationInv'
<1> PICK h : h = held[r]
  OBVIOUS
<1> DEFINE s == h.loaded  t == incidents[h.target]
<1>1. /\ pc[r] = "working" /\ UNCHANGED incidents
      /\ IsCopy(r, h.source, s) /\ h.target \in DOMAIN incidents
  BY DEF Unrelate, At, CorrelationInv, HeldInv, PairStep
<1>2. /\ OneLink(h.source, s.related, s.related \ {h.target})
      /\ OneLink(h.target, t.related, t.related \ {h.source})
  BY <1>1 DEF OneLink, IsCopy
<1>3. Send(r, {Saves(h.source, s, [s EXCEPT !.related = s.related \ {h.target}]),
               Saves(h.target, t, [t EXCEPT !.related = t.related \ {h.source}])})
  BY DEF Unrelate
<1> QED  BY <1>1, <1>2, <1>3, PairSound

\* A handler goes on with what it held and has loaded.
LEMMA HoldsSound ==
  ASSUME CorrelationInv, NEW r \in Request, pc[r] \in {"idle", "working"}, NEW h,
         Await(r, h), HeldInv(r, h), UNCHANGED <<incidents, aged>>, AlertsStay
  PROVE  CorrelationInv'
<1>1. Later
  BY SameIncidents, AwaitAlone DEF Alone, CorrelationInv
<1>2. HeldInv(r, h)'
  BY <1>1, HeldLasts DEF CorrelationInv
<1> QED  BY <1>2, AwaitSound

\* merge() goes on with two different incidents, the source not resolved.
LEMMA MergeGuardsSound ==
  ASSUME CorrelationInv, NEW r \in Request, MergeGuards(r)
  PROVE  CorrelationInv'
<1> PICK h : h = held[r]
  OBVIOUS
<1> PICK t : t = incidents[h.target]
  OBVIOUS
<1>1. /\ pc[r] = "working" /\ UNCHANGED <<incidents, alerts, aged>> /\ AlertsStay
      /\ writes[r] = {} /\ IsCopy(r, h.source, h.loaded) /\ h.target \in DOMAIN incidents
  BY AlertsUnchanged DEF MergeGuards, At, CorrelationInv, SavesAwaited, HeldInv, PairStep
<1>2. IsCopy(r, h.target, t)
  BY <1>1, LoadedIsCopy
<1>3. CASE Return(r, "refused")
  BY <1>1, <1>3, ReturnSound DEF Ended
<1>4. CASE ~Return(r, "refused")
  <2> PICK n : n = [step |-> "collect", source |-> h.source, s |-> h.loaded,
                    target |-> h.target, t |-> t]
    OBVIOUS
  <2>1. Await(r, n) /\ h.source # h.target /\ h.loaded.status # Resolved
    BY <1>4 DEF MergeGuards
  <2>2. HeldInv(r, n)
    <3>1. n.step = "collect" /\ n.source = h.source /\ n.s = h.loaded /\ n.target = h.target /\ n.t = t
      OBVIOUS
    <3> QED  BY <1>1, <1>2, <2>1, <3>1 DEF HeldInv, PairStep, MergeStep, AlertStepName
  <2> QED  BY <1>1, <2>1, <2>2, HoldsSound
<1> QED  BY <1>3, <1>4

\* merge() takes the services of the alerts of the source.
LEMMA CollectAlertsSound ==
  ASSUME CorrelationInv, NEW r \in Request, CollectAlerts(r)
  PROVE  CorrelationInv'
<1> PICK h : h = held[r]
  OBVIOUS
<1> DEFINE services == {alerts[a].service : a \in {b \in DOMAIN alerts : alerts[b].incidentId = h.source}}
<1> PICK n : n = [step |-> "move", source |-> h.source, s |-> h.s,
                  target |-> h.target, t |-> h.t, services |-> services]
  OBVIOUS
<1>1. /\ pc[r] = "working" /\ UNCHANGED <<incidents, alerts, aged>> /\ AlertsStay
      /\ IsCopy(r, h.source, h.s) /\ IsCopy(r, h.target, h.t)
      /\ h.source # h.target /\ h.s.status # Resolved
  BY AlertsUnchanged DEF CollectAlerts, At, CorrelationInv, HeldInv, MergeStep
<1>2. Await(r, n)
  BY DEF CollectAlerts
<1>3. services \subseteq ServiceName
  <2>1. ASSUME NEW a \in DOMAIN alerts PROVE alerts[a].service \in ServiceName
    <3>1. PICK p \in Report : alerts[a].service = p.service
      BY DEF CorrelationInv, AlertsInv, IsAlert
    <3> QED  BY <3>1, ReportFacts
  <2> QED  BY <2>1
<1> HIDE DEF services
<1>4. HeldInv(r, n)
  <2>1. /\ n.step = "move" /\ n.source = h.source /\ n.s = h.s /\ n.target = h.target /\ n.t = h.t
        /\ n.services = services
    OBVIOUS
  <2> QED  BY <1>1, <1>3, <2>1 DEF HeldInv, PairStep, MergeStep, AlertStepName
<1> QED  BY <1>1, <1>2, <1>4, HoldsSound

\* merge leaves well-formed copies.
LEMMA MergedSourceFacts ==
  ASSUME CorrelationInv, NEW r \in Request, NEW h,
         IsCopy(r, h.source, h.s), IsCopy(r, h.target, h.t)
  PROVE  LET w == MergedSource(r, h)
         IN  /\ IsDoc(w) /\ w.ver = h.s.ver /\ w.status = Resolved /\ w.resolvedAt = r
             /\ w.tags = h.s.tags \cup {"merged"} /\ w.services = h.s.services
             /\ w.severity = h.s.severity
             /\ w.related = IF h.source \in h.t.related THEN h.s.related
                                                        ELSE h.s.related \cup {h.target}
<1> DEFINE w == MergedSource(r, h)
<1> PICK s : s = h.s
  OBVIOUS
<1>1. /\ DOMAIN s = Field \cup {"ver"} /\ s.ver \in Nat
      /\ \A f \in Field : s[f] \in FieldType[f]
      /\ h.target \in Incident
  BY DEF IsCopy, IsDoc, CorrelationInv, SoundIncidents
<1>2. /\ DOMAIN w = Field \cup {"ver"} /\ w.ver = s.ver
      /\ w.status = Resolved /\ w.resolvedAt = r /\ w.mergedInto = h.target
      /\ w.tags = s.tags \cup {"merged"}
      /\ w.related = IF h.source \in h.t.related THEN s.related ELSE s.related \cup {h.target}
      /\ \A f \in {"severity", "services", "key", "assignee"} : w[f] = s[f]
  BY <1>1, FieldFacts DEF MergedSource, WithStatus
<1> HIDE DEF w
<1>3. /\ w.status \in Status /\ w.resolvedAt \in Request \cup {None}
      /\ w.mergedInto \in Incident \cup {None} /\ w.tags \in SUBSET Tag
      /\ w.related \in SUBSET Incident
  <2>1. s.tags \in SUBSET Tag /\ s.related \in SUBSET Incident
    BY <1>1, FieldFacts
  <2> QED  BY <1>1, <1>2, <2>1, TagAssumption DEF Status
<1>4. \A f \in Field : w[f] \in FieldType[f]
  BY <1>1, <1>2, <1>3, FieldFacts
<1>5. IsDoc(w)
  BY <1>1, <1>2, <1>4 DEF IsDoc
<1> QED  BY <1>2, <1>5 DEF w

\* The merged target: both lists of services, the new ones of the alerts, and
\* the link to the source unless the source had it.
LEMMA MergedTargetFacts ==
  ASSUME CorrelationInv, NEW r \in Request, NEW h,
         IsCopy(r, h.source, h.s), IsCopy(r, h.target, h.t), h.services \subseteq ServiceName
  PROVE  LET w == MergedTarget(h)
         IN  /\ IsDoc(w) /\ w.ver = h.t.ver /\ w.status = h.t.status
             /\ w.resolvedAt = h.t.resolvedAt /\ w.tags = h.t.tags
             /\ w.mergedInto = h.t.mergedInto
             /\ w.severity = pickHigherSeverity(h.s.severity, h.t.severity)
             /\ ToSet(w.services) = ToSet(h.t.services) \cup ToSet(h.s.services) \cup h.services
             /\ w.related = IF h.target \in h.s.related THEN h.t.related
                                                        ELSE h.t.related \cup {h.source}
<1> DEFINE w == MergedTarget(h)
<1> PICK t : t = h.t
  OBVIOUS
<1> PICK more : more = ToSet(h.s.services) \cup h.services
  OBVIOUS
<1>1. /\ DOMAIN t = Field \cup {"ver"} /\ t.ver \in Nat
      /\ \A f \in Field : t[f] \in FieldType[f]
      /\ h.source \in Incident /\ t.services \in ServiceList /\ h.s.services \in ServiceList
      /\ h.s.severity \in Severity
  BY FieldFacts DEF IsCopy, IsDoc, CorrelationInv, SoundIncidents
<1>2. more \in SUBSET ServiceName
  BY <1>1, ListFacts
<1>3. /\ mergeServices(t.services, more) \in ServiceList
      /\ ToSet(mergeServices(t.services, more)) = ToSet(t.services) \cup more
  BY <1>1, <1>2, mergeServicesFacts
<1>4. /\ DOMAIN w = Field \cup {"ver"} /\ w.ver = t.ver
      /\ w.services = mergeServices(t.services, more)
      /\ w.severity = pickHigherSeverity(h.s.severity, t.severity)
      /\ w.related = IF h.target \in h.s.related THEN t.related ELSE t.related \cup {h.source}
      /\ \A f \in {"status", "key", "assignee", "resolvedAt", "mergedInto", "tags"} : w[f] = t[f]
  BY <1>1, FieldFacts DEF MergedTarget
<1> HIDE DEF w
<1>5. w.severity \in Severity /\ w.related \in SUBSET Incident /\ w.services \in ServiceList
  BY <1>1, <1>3, <1>4, FieldFacts DEF pickHigherSeverity
<1>6. \A f \in Field : w[f] \in FieldType[f]
  BY <1>1, <1>4, <1>5, FieldFacts
<1>7. IsDoc(w)
  BY <1>1, <1>4, <1>6 DEF IsDoc
<1>8. ToSet(w.services) = ToSet(t.services) \cup ToSet(h.s.services) \cup h.services
  BY <1>3, <1>4
<1> QED  BY <1>4, <1>7, <1>8 DEF w

\* Linking an alert changes its incident and status only.
LEMMA LinkedFacts ==
  ASSUME NEW x, IsAlert(x), NEW i \in DOMAIN incidents \cup {None}
  PROVE  /\ IsAlert(Linked(x, i)) /\ Linked(x, i).incidentId = i
         /\ Linked(x, i).service = x.service /\ Linked(x, i).print = x.print
         /\ Linked(x, i).severity = x.severity
         /\ Linked(x, i).status = IF i = None THEN "UNASSIGNED" ELSE "CORRELATED"
<1> DEFINE y == Linked(x, i)
<1>1. DOMAIN x = AlertField
  BY DEF IsAlert
<1>2. /\ y = [f \in AlertField |-> y[f]]
      /\ y.incidentId = i /\ y.status = IF i = None THEN "UNASSIGNED" ELSE "CORRELATED"
      /\ \A f \in {"print", "service", "key", "severity", "count"} : y[f] = x[f]
  BY <1>1 DEF Linked, AlertField
<1> HIDE DEF y
<1>3. IsAlert(y)
  BY <1>2 DEF IsAlert
<1> QED  BY <1>2, <1>3 DEF y

\* The two saves of merge.
LEMMA SettleSaves ==
  ASSUME CorrelationInv, NEW r \in Request, NEW h,
         IsCopy(r, h.source, h.s), IsCopy(r, h.target, h.t), h.services \subseteq ServiceName,
         h.source # h.target, h.s.status # Resolved
  PROVE  LET c == SavesList(h.source, h.s, MergedSource(r, h), h.source \notin h.t.related)
             b == SavesList(h.target, h.t, MergedTarget(h), h.target \notin h.s.related)
         IN  /\ IsSave(c, h.source, h.s, MergedSource(r, h), h.source \notin h.t.related)
             /\ IsSave(b, h.target, h.t, MergedTarget(h), h.target \notin h.s.related)
             /\ WriteInv(r, c) /\ WriteInv(r, b)
<1> PICK v : v = MergedSource(r, h)
  OBVIOUS
<1> PICK w : w = MergedTarget(h)
  OBVIOUS
<1> PICK first \in BOOLEAN : first = (h.source \notin h.t.related)
  OBVIOUS
<1> PICK second \in BOOLEAN : second = (h.target \notin h.s.related)
  OBVIOUS
<1> DEFINE c == SavesList(h.source, h.s, v, first)
           b == SavesList(h.target, h.t, w, second)
<1>1. /\ IsDoc(v) /\ v.ver = h.s.ver /\ v.status = Resolved /\ v.resolvedAt = r
      /\ v.related = IF first THEN h.s.related \cup {h.target} ELSE h.s.related
  <2>1. IsDoc(v) /\ v.ver = h.s.ver /\ v.status = Resolved /\ v.resolvedAt = r
    BY MergedSourceFacts
  <2>2. v.related = IF h.source \in h.t.related THEN h.s.related
                                               ELSE h.s.related \cup {h.target}
    BY MergedSourceFacts
  <2>3. CASE h.source \in h.t.related
    BY <2>1, <2>2, <2>3
  <2>4. CASE h.source \notin h.t.related
    BY <2>1, <2>2, <2>4
  <2> QED  BY <2>3, <2>4
<1>2. /\ IsDoc(w) /\ w.ver = h.t.ver /\ w.status = h.t.status /\ w.resolvedAt = h.t.resolvedAt
      /\ w.related = IF second THEN h.t.related \cup {h.source} ELSE h.t.related
  <2>1. /\ IsDoc(w) /\ w.ver = h.t.ver /\ w.status = h.t.status
        /\ w.resolvedAt = h.t.resolvedAt
    BY MergedTargetFacts
  <2>2. w.related = IF h.target \in h.s.related THEN h.t.related
                                               ELSE h.t.related \cup {h.source}
    BY MergedTargetFacts
  <2>3. CASE h.target \in h.s.related
    BY <2>1, <2>2, <2>3
  <2>4. CASE h.target \notin h.s.related
    BY <2>1, <2>2, <2>4
  <2> QED  BY <2>3, <2>4
<1>3. IsDoc(h.s) /\ IsDoc(h.t) /\ h.source \in DOMAIN incidents /\ h.target \in DOMAIN incidents
  BY DEF IsCopy
<1>4. IsSave(c, h.source, h.s, v, first) /\ IsSave(b, h.target, h.t, w, second)
  BY <1>1, <1>2, <1>3, SaveFacts
<1> HIDE DEF c, b
<1>5. WriteInv(r, c)
  <2>1. first \/ v.related # h.s.related => OneLink(h.source, h.s.related, v.related)
    BY <1>1, <1>3 DEF OneLink
  <2>2. SetsStatus(r, h.s, v)
    BY <1>1 DEF SetsStatus
  <2> QED  BY <1>1, <1>4, <2>1, <2>2, SaveSound DEF CorrelationInv
<1>6. WriteInv(r, b)
  <2>1. second \/ w.related # h.t.related => OneLink(h.target, h.t.related, w.related)
    BY <1>2, <1>3 DEF OneLink
  <2>2. KeepsStatus(h.t, w)
    BY <1>2 DEF KeepsStatus
  <2> QED  BY <1>2, <1>4, <2>1, <2>2, SaveSound DEF CorrelationInv
<1> QED  BY <1>4, <1>5, <1>6 DEF c, b

\* merge() moves the alerts and sends the saves of both incidents.
LEMMA MoveAlertsSound ==
  ASSUME CorrelationInv, NEW r \in Request, MoveAlerts(r)
  PROVE  CorrelationInv'
<1> PICK h : h = held[r]
  OBVIOUS
<1> DEFINE c == SavesList(h.source, h.s, MergedSource(r, h), h.source \notin h.t.related)
           b == SavesList(h.target, h.t, MergedTarget(h), h.target \notin h.s.related)
<1>1. /\ pc[r] = "working" /\ UNCHANGED <<incidents, aged>>
      /\ IsCopy(r, h.source, h.s) /\ IsCopy(r, h.target, h.t)
      /\ h.source # h.target /\ h.s.status # Resolved /\ h.services \subseteq ServiceName
  BY DEF MoveAlerts, At, CorrelationInv, HeldInv, MergeStep
<1>2. AlertsStay
  <2>1. /\ DOMAIN alerts' = DOMAIN alerts /\ alerts' = [a \in DOMAIN alerts' |-> alerts'[a]]
        /\ \A a \in DOMAIN alerts : \/ alerts'[a] = alerts[a]
                                    \/ alerts'[a] = Linked(alerts[a], h.target)
    BY DEF MoveAlerts
  <2>2. ASSUME NEW a \in DOMAIN alerts PROVE \E x : x = alerts'[a] /\ IsAlert(x)
    <3>1. IsAlert(alerts[a]) /\ h.target \in DOMAIN incidents \cup {None}
      BY <1>1 DEF CorrelationInv, AlertsInv, IsCopy
    <3>2. IsAlert(Linked(alerts[a], h.target))
      BY <3>1, LinkedFacts
    <3> QED  BY <2>1, <3>1, <3>2
  <2> QED  BY <2>1, <2>2 DEF AlertsStay, CorrelationInv, AlertsInv
<1>3. WriteInv(r, c) /\ WriteInv(r, b)
  BY <1>1, SettleSaves
<1>4. Send(r, {c, b})
  BY DEF MoveAlerts, Settle
<1> HIDE DEF c, b
<1>5. \A d \in {c, b} : WriteInv(r, d)
  BY <1>3
<1> QED  BY <1>1, <1>2, <1>4, <1>5, SendSound


-----------------------------------------------------------------------------
(* Ingest, associate and unassociate.                                      *)

\* alert.save() keeps the collection well formed; it writes the fields that the
\* handler changed.
LEMMA StoreFacts ==
  ASSUME CorrelationInv, NEW a \in DOMAIN alerts, NEW x, NEW y,
         IsAlert(x), IsAlert(y), StoreAlert(a, x, y)
  PROVE  /\ AlertsStay /\ DOMAIN alerts' = DOMAIN alerts
         /\ \A b \in DOMAIN alerts : b # a => alerts'[b] = alerts[b]
         /\ \A f \in AlertField :
              alerts'[a][f] = IF y[f] # x[f] THEN y[f] ELSE alerts[a][f]
<1> PICK z : z = Applied(alerts[a], SaveCommand(a, x, y, {}))
  OBVIOUS
<1> PICK old : old = alerts[a]
  OBVIOUS
<1>1. /\ DOMAIN alerts' = DOMAIN alerts /\ alerts' = [b \in DOMAIN alerts' |-> alerts'[b]]
      /\ alerts'[a] = z /\ \A b \in DOMAIN alerts : b # a => alerts'[b] = alerts[b]
  BY DEF StoreAlert
<1>2. DOMAIN old = AlertField /\ DOMAIN y = AlertField /\ DOMAIN x = AlertField /\ IsAlert(old)
  BY DEF CorrelationInv, AlertsInv, IsAlert
<1>3. /\ DOMAIN z = AlertField /\ z = [f \in AlertField |-> z[f]]
      /\ \A f \in AlertField : z[f] = IF y[f] # x[f] THEN y[f] ELSE old[f]
  <2>1. "ver" \notin AlertField
    BY DEF AlertField
  <2>2. SaveCommand(a, x, y, {}).set = [f \in {g \in AlertField : y[g] # x[g]} |-> y[f]]
    BY <1>2 DEF SaveCommand, Dirty
  <2> PICK c : c = SaveCommand(a, x, y, {})
    OBVIOUS
  <2>3. DOMAIN c.set = {g \in AlertField : y[g] # x[g]} /\ \A f \in DOMAIN c.set : c.set[f] = y[f]
    BY <2>2
  <2>4. z = Applied(old, c)
    BY DEF StoreAlert
  <2> QED  BY <1>2, <2>1, <2>3, <2>4 DEF Applied
<1>4. IsAlert(z)
  <2>1. \A f \in AlertField : z[f] = y[f] \/ z[f] = old[f]
    BY <1>3
  <2>2. \A f \in {"print", "service", "key", "severity", "count", "incidentId", "status"} :
          z[f] = y[f] \/ z[f] = old[f]
    BY <2>1 DEF AlertField
  <2>3. z.print = y.print \/ z.print = old.print
    BY <2>2
  <2>4. z.service = y.service \/ z.service = old.service
    BY <2>2
  <2>5. z.key = y.key \/ z.key = old.key
    BY <2>2
  <2>6. /\ z.severity = y.severity \/ z.severity = old.severity
        /\ z.count = y.count \/ z.count = old.count
        /\ z.incidentId = y.incidentId \/ z.incidentId = old.incidentId
        /\ z.status = y.status \/ z.status = old.status
    BY <2>2
  <2>7. /\ \E p \in Report : z.print = p.print
        /\ \E p \in Report : z.service = p.service
        /\ \E p \in Report : z.key = p.key
    BY <1>2, <2>3, <2>4, <2>5 DEF IsAlert
  <2>8. /\ z.severity \in Severity /\ z.count \in 1..(Cardinality(Started) + 1)
        /\ z.incidentId \in DOMAIN incidents \cup {None}
        /\ z.status \in {"UNASSIGNED", "CORRELATED"}
    BY <1>2, <2>6 DEF IsAlert
  <2> QED  BY <1>3, <2>7, <2>8 DEF IsAlert
<1>5. \A b \in DOMAIN alerts' : \E w : w = alerts'[b] /\ IsAlert(w)
  BY <1>1, <1>4 DEF CorrelationInv, AlertsInv
<1>6. AlertsStay
  BY <1>1, <1>5 DEF AlertsStay, CorrelationInv, AlertsInv
<1>7. \A f \in AlertField : alerts'[a][f] = IF y[f] # x[f] THEN y[f] ELSE alerts[a][f]
  BY <1>1, <1>3
<1> QED  BY <1>1, <1>6, <1>7

\* The higher of two severities is one of them.
LEMMA SeverityFacts ==
  ASSUME NEW s \in Severity, NEW q \in Severity
  PROVE  pickHigherSeverity(s, q) \in Severity
BY DEF pickHigherSeverity

\* A call that starts is one more.
LEMMA CallCounts ==
  ASSUME CorrelationInv, NEW r \in Request, pc[r] = "idle", Started' = Started \cup {r}
  PROVE  /\ Cardinality(Started') = Cardinality(Started) + 1
         /\ Cardinality(Started) + 1 <= Cardinality(Request)
<1>1. r \notin Started /\ Started \cup {r} \in SUBSET Request
  BY DEF Started
<1>2. Cardinality(Started \cup {r}) = Cardinality(Started) + 1
  BY <1>1, CountFacts, FS_AddElement
<1>3. Cardinality(Started \cup {r}) <= Cardinality(Request)
  BY <1>1, RequestAssumption, FS_Subset
<1> QED  BY <1>2, <1>3

\* A repeated alert keeps its service and its incident, and counts one more.
LEMMA RepeatedFacts ==
  ASSUME CorrelationInv, NEW x, IsAlert(x), NEW p \in Report,
         NEW r \in Request, pc[r] = "idle", Started' = Started \cup {r}, Later
  PROVE  /\ IsAlert(Repeated(x, p))' /\ Repeated(x, p).service = x.service
         /\ Repeated(x, p).incidentId = x.incidentId
         /\ Repeated(x, p).print = x.print /\ Repeated(x, p).status = x.status
         /\ Repeated(x, p).severity <= x.severity
<1> DEFINE raised == pickHigherSeverity(x.severity, p.severity)
           demanded == FrequencySeverity(x.count + 1)
<1> PICK y : y = Repeated(x, p)
  OBVIOUS
<1>1. /\ x.count \in 1..(Cardinality(Started) + 1) /\ x.severity \in Severity
      /\ DOMAIN x = AlertField
  BY DEF IsAlert
<1>2. x.count + 1 \in 1..(Cardinality(Started') + 1) /\ x.count + 1 \in 1..(Cardinality(Request) + 1)
  <2>1. /\ Cardinality(Started') = Cardinality(Started) + 1
        /\ Cardinality(Started) + 1 <= Cardinality(Request)
    BY CallCounts
  <2>2. Cardinality(Started) \in Nat /\ Cardinality(Request) \in Nat
    BY CountFacts
  <2> QED  BY <1>1, <2>1, <2>2
<1>3. demanded \in Severity /\ raised \in Severity
  BY <1>1, <1>2, FrequencyAssumption, ReportFacts, SeverityFacts
<1>4. /\ y = [f \in AlertField |-> y[f]] /\ y.count = x.count + 1
      /\ y.severity = pickHigherSeverity(raised, demanded)
      /\ \A f \in {"print", "service", "key", "incidentId", "status"} : y[f] = x[f]
  BY <1>1 DEF Repeated, AlertField
<1>5. y.severity \in Severity
  BY <1>3, <1>4, SeverityFacts
<1>6. IsAlert(x)'
  BY AlertLasts
<1>7. IsAlert(y)'
  BY <1>2, <1>4, <1>5, <1>6 DEF IsAlert
<1>8. raised <= x.severity /\ pickHigherSeverity(raised, demanded) <= raised
  <2>1. Severity \subseteq Int
    BY SeverityAssumption
  <2>2. p.severity \in Int /\ x.severity \in Int
    BY <1>1, <2>1, ReportFacts
  <2>3. raised \in Int /\ demanded \in Int
    BY <1>3, <2>1
  <2>4. \A u, v \in Int : pickHigherSeverity(u, v) <= u
    BY DEF pickHigherSeverity
  <2> HIDE DEF demanded
  <2>5. pickHigherSeverity(raised, demanded) <= raised
    <3> HIDE DEF raised
    <3> QED  BY <2>3, <2>4
  <2>6. raised <= x.severity
    BY <2>2, <2>4
  <2> QED  BY <2>5, <2>6
<1>9. y.severity <= x.severity
  <2> PICK u : u = y.severity
    OBVIOUS
  <2> PICK v : v = raised
    OBVIOUS
  <2>0. Severity \subseteq Int
    BY SeverityAssumption
  <2>1. x.severity \in Int /\ v \in Int /\ u \in Int
    <3> HIDE DEF raised, demanded
    <3> QED  BY <1>1, <1>3, <1>5, <2>0
  <2>2. u = pickHigherSeverity(raised, demanded)
    BY <1>4
  <2> HIDE DEF raised, demanded
  <2>3. u <= v /\ v <= x.severity
    BY <1>8, <2>2
  <2> QED  BY <2>1, <2>3
<1> QED  BY <1>4, <1>7, <1>9

\* A new alert belongs to no incident.
LEMMA NewAlertFacts ==
  ASSUME NEW p \in Report
  PROVE  /\ IsAlert(NewAlert(p)) /\ NewAlert(p).incidentId = None
         /\ NewAlert(p).service = p.service
         /\ NewAlert(p).print = p.print /\ NewAlert(p).status = "UNASSIGNED"
<1> DEFINE x == NewAlert(p)
<1>1. /\ x = [f \in AlertField |-> x[f]] /\ x.print = p.print /\ x.service = p.service
      /\ x.key = p.key /\ x.severity = p.severity /\ x.count = 1
      /\ x.incidentId = None /\ x.status = "UNASSIGNED"
  BY DEF NewAlert, AlertField
<1> HIDE DEF x
<1>2. 1 \in 1..(Cardinality(Started) + 1)
  BY CountFacts
<1>3. IsAlert(x)
  BY <1>1, <1>2, ReportFacts DEF IsAlert
<1> QED  BY <1>1, <1>3 DEF x

\* ingest() reads the alert of the fingerprint, or prepares a new one.
LEMMA IngestSound ==
  ASSUME CorrelationInv, NEW r \in Request, NEW p \in Report, Ingest(r, p)
  PROVE  CorrelationInv'
<1>1. pc[r] = "idle" /\ UNCHANGED <<incidents, alerts, aged>> /\ AlertsStay
  BY AlertsUnchanged DEF Ingest, Starts
<1>2. ASSUME NEW a \in Absorbing(p),
             Await(r, [step |-> "count", alert |-> a, loaded |-> alerts[a],
                       wanted |-> Repeated(alerts[a], p)])
      PROVE  CorrelationInv'
  <2> PICK x : x = alerts[a]
    OBVIOUS
  <2> PICK y : y = Repeated(x, p)
    OBVIOUS
  <2> PICK h : h = [step |-> "count", alert |-> a, loaded |-> x, wanted |-> y]
    OBVIOUS
  <2>1. Await(r, h) /\ a \in DOMAIN alerts /\ IsAlert(x)
    BY <1>2 DEF Absorbing, CorrelationInv, AlertsInv
  <2>2. Started' = Started \cup {r} /\ Later
    BY <1>1, <2>1, SameIncidents, AwaitAlone DEF Alone, CorrelationInv
  <2>3. IsAlert(y)' /\ IsAlert(x)' /\ y.service = x.service /\ y.incidentId = x.incidentId
    BY <1>1, <2>1, <2>2, RepeatedFacts, AlertLasts
  <2>4. a \in DOMAIN alerts'
    BY <1>1, <2>1
  <2>5. HeldInv(r, h)'
    <3>1. h.step = "count" /\ h.alert = a /\ h.loaded = x /\ h.wanted = y
      OBVIOUS
    <3> QED  BY <2>3, <2>4, <3>1 DEF HeldInv, PairStep, MergeStep, AlertStepName
  <2> QED  BY <1>1, <2>1, <2>5, AwaitSound
<1>3. CASE Await(r, [step |-> "insert", wanted |-> NewAlert(p)])
  <2> PICK x : x = NewAlert(p)
    OBVIOUS
  <2> PICK h : h = [step |-> "insert", wanted |-> x]
    OBVIOUS
  <2>1. IsAlert(x) /\ x.incidentId = None
    BY NewAlertFacts
  <2>2. HeldInv(r, h)
    <3>1. h.step = "insert" /\ h.wanted = x
      OBVIOUS
    <3> QED  BY <2>1, <3>1 DEF HeldInv, PairStep, MergeStep, AlertStepName
  <2>3. Await(r, h)
    BY <1>3
  <2> QED  BY <1>1, <2>2, <2>3, HoldsSound
<1> QED  BY <1>2, <1>3 DEF Ingest

\* The save of a repeated alert preserves the invariant.
LEMMA CountRepetitionSound ==
  ASSUME CorrelationInv, NEW r \in Request, CountRepetition(r)
  PROVE  CorrelationInv'
<1> PICK h : h = held[r]
  OBVIOUS
<1>1. /\ pc[r] = "working" /\ UNCHANGED <<incidents, aged>> /\ writes[r] = {}
      /\ StoreAlert(h.alert, h.loaded, h.wanted)
      /\ h.alert \in DOMAIN alerts /\ IsAlert(h.loaded) /\ IsAlert(h.wanted)
  BY DEF CountRepetition, At, CorrelationInv, SavesAwaited, HeldInv
<1>2. AlertsStay
  BY <1>1, StoreFacts
<1>3. CASE h.loaded.incidentId = None
  <2>1. Return(r, "done")
    BY <1>3 DEF CountRepetition
  <2> QED  BY <1>1, <1>2, <2>1, ReturnSound DEF Ended
<1>4. CASE h.loaded.incidentId # None
  <2> PICK n : n = [step |-> "escalate", incident |-> h.loaded.incidentId,
                    severity |-> h.wanted.severity]
    OBVIOUS
  <2>1. Await(r, n)
    BY <1>4 DEF CountRepetition
  <2>2. h.loaded.incidentId \in DOMAIN incidents /\ h.wanted.severity \in Severity
    BY <1>1, <1>4 DEF IsAlert
  <2>3. HeldInv(r, n)
    <3>1. /\ n.step = "escalate" /\ n.incident = h.loaded.incidentId
          /\ n.severity = h.wanted.severity
      OBVIOUS
    <3> QED  BY <2>2, <3>1 DEF HeldInv, PairStep, MergeStep, AlertStepName
  <2> QED  BY <1>1, <1>2, <2>1, <2>3, HoldsSound
<1> QED  BY <1>3, <1>4

\* The escalation of the severity of an incident sends one save.
LEMMA EscalateSound ==
  ASSUME CorrelationInv, NEW r \in Request, Escalate(r)
  PROVE  CorrelationInv'
<1> PICK i : i = held[r].incident
  OBVIOUS
<1> PICK s : s = held[r].severity
  OBVIOUS
<1> DEFINE c == Saves(i, incidents[i], [incidents[i] EXCEPT !["severity"] = s])
<1>1. /\ pc[r] = "working" /\ UNCHANGED <<incidents, alerts, aged>> /\ writes[r] = {}
      /\ AlertsStay /\ i \in DOMAIN incidents /\ s \in Severity
  BY AlertsUnchanged DEF Escalate, At, CorrelationInv, SavesAwaited, HeldInv
<1>2. Return(r, "done") \/ Send(r, {c})
  BY DEF Escalate
<1>3. WriteInv(r, c)
  BY <1>1, LoadedIsCopy, FieldSaved, FieldFacts
<1> HIDE DEF c
<1>4. \A d \in {c} : WriteInv(r, d)
  BY <1>3
<1>5. CASE Return(r, "done")
  BY <1>1, <1>5, ReturnSound DEF Ended
<1>6. CASE Send(r, {c})
  BY <1>1, <1>4, <1>6, SendSound
<1> QED  BY <1>2, <1>5, <1>6

\* The insert of a new alert preserves the invariant.
LEMMA InsertAlertSound ==
  ASSUME CorrelationInv, NEW r \in Request, NEW a \in Alert, InsertAlert(r, a)
  PROVE  CorrelationInv'
<1> PICK x : x = held[r].wanted
  OBVIOUS
<1> PICK h : h = [step |-> "match", alert |-> a, copy |-> x]
  OBVIOUS
<1>1. /\ pc[r] = "working" /\ UNCHANGED <<incidents, aged>> /\ IsAlert(x) /\ Await(r, h)
      /\ DOMAIN alerts' = DOMAIN alerts \cup {a} /\ a \notin DOMAIN alerts
      /\ alerts' = [b \in DOMAIN alerts' |-> alerts'[b]]
      /\ alerts'[a] = x /\ \A b \in DOMAIN alerts : alerts'[b] = alerts[b]
  BY DEF InsertAlert, At, CorrelationInv, HeldInv
<1>2. AlertsStay
  BY <1>1 DEF AlertsStay, CorrelationInv, AlertsInv
<1>3. Later
  BY <1>1, <1>2, SameIncidents, AwaitAlone DEF Alone, CorrelationInv
<1>4. HeldInv(r, h)'
  <2>1. IsAlert(x)' /\ a \in DOMAIN alerts'
    BY <1>1, <1>3, AlertLasts
  <2>2. h.step = "match" /\ h.alert = a /\ h.copy = x
    OBVIOUS
  <2> QED  BY <2>1, <2>2 DEF HeldInv, PairStep, MergeStep, AlertStepName
<1> QED  BY <1>1, <1>2, <1>4, AwaitSound

\* The engine reads the incident it links to, or finds none.
LEMMA MatchSound ==
  ASSUME CorrelationInv, NEW r \in Request, Match(r)
  PROVE  CorrelationInv'
<1> PICK a : a = held[r].alert
  OBVIOUS
<1> PICK x : x = held[r].copy
  OBVIOUS
<1>1. /\ pc[r] = "working" /\ UNCHANGED <<incidents, alerts, aged>> /\ AlertsStay
      /\ a \in DOMAIN alerts /\ IsAlert(x) /\ x.severity \in Severity
  BY AlertsUnchanged DEF Match, At, CorrelationInv, HeldInv, AlertStepName, IsAlert
<1>2. ASSUME NEW i \in Attracting(x),
             Await(r, [step |-> "link", alert |-> a, copy |-> x,
                       incident |-> i, loaded |-> incidents[i],
                       severity |-> pickHigherSeverity(x.severity, incidents[i].severity)])
      PROVE  CorrelationInv'
  <2> PICK e : e = incidents[i]
    OBVIOUS
  <2> PICK s : s = pickHigherSeverity(x.severity, e.severity)
    OBVIOUS
  <2> PICK h : h = [step |-> "link", alert |-> a, copy |-> x, incident |-> i,
                    loaded |-> e, severity |-> s]
    OBVIOUS
  <2>1. Await(r, h)
    BY <1>2
  <2>2. IsCopy(r, i, e) /\ e.severity \in Severity
    BY <1>1, LoadedIsCopy, FieldFacts DEF Attracting, IsDoc
  <2>3. s \in Severity
    BY <1>1, <2>2, SeverityFacts
  <2>4. HeldInv(r, h)
    <3>1. /\ h.step = "link" /\ h.alert = a /\ h.copy = x /\ h.incident = i
          /\ h.loaded = e /\ h.severity = s
      OBVIOUS
    <3> QED  BY <1>1, <2>2, <2>3, <3>1 DEF HeldInv, PairStep, MergeStep, AlertStepName
  <2> QED  BY <1>1, <2>1, <2>4, HoldsSound
<1>3. CASE Await(r, [step |-> "spawn", alert |-> a, copy |-> x])
  <2> PICK h : h = [step |-> "spawn", alert |-> a, copy |-> x]
    OBVIOUS
  <2>1. HeldInv(r, h)
    <3>1. h.step = "spawn" /\ h.alert = a /\ h.copy = x
      OBVIOUS
    <3> QED  BY <1>1, <3>1 DEF HeldInv, PairStep, MergeStep, AlertStepName
  <2> QED  BY <1>1, <1>3, <2>1, HoldsSound
<1>4. \/ \E i \in Attracting(x) :
            Await(r, [step |-> "link", alert |-> a, copy |-> x,
                      incident |-> i, loaded |-> incidents[i],
                      severity |-> pickHigherSeverity(x.severity, incidents[i].severity)])
      \/ Await(r, [step |-> "spawn", alert |-> a, copy |-> x])
  BY DEF Match
<1> QED  BY <1>2, <1>3, <1>4

\* The incident as LinkAlert leaves its copy.
WithAlert(h) ==
  [h.loaded EXCEPT !.services = AddService(@, h.copy.service), !.severity = h.severity]

\* The incident with an alert more lists its service beside those it listed.
LEMMA WithAlertFacts ==
  ASSUME NEW h, IsDoc(h.loaded), IsAlert(h.copy), h.severity \in Severity
  PROVE  LET d == h.loaded
             w == WithAlert(h)
         IN  /\ IsDoc(w) /\ w.ver = d.ver /\ w.status = d.status
             /\ w.resolvedAt = d.resolvedAt /\ w.related = d.related /\ w.tags = d.tags
             /\ w.mergedInto = d.mergedInto /\ w.severity = h.severity
             /\ ToSet(w.services) = ToSet(d.services) \cup {h.copy.service}
<1> PICK d : d = h.loaded
  OBVIOUS
<1> PICK l : l = AddService(d.services, h.copy.service)
  OBVIOUS
<1>1. /\ DOMAIN d = Field \cup {"ver"} /\ d.ver \in Nat
      /\ \A f \in Field : d[f] \in FieldType[f]
      /\ d.services \in ServiceList
  BY FieldFacts DEF IsDoc
<1>2. h.copy.service \in ServiceName
  <2>1. PICK p \in Report : h.copy.service = p.service
    BY DEF IsAlert
  <2> QED  BY <2>1, ReportFacts
<1>3. l \in ServiceList /\ ToSet(l) = ToSet(d.services) \cup {h.copy.service}
  BY <1>1, <1>2, mergeServicesFacts DEF AddService
<1> PICK w : w = WithAlert(h)
  OBVIOUS
<1>4. /\ DOMAIN w = Field \cup {"ver"} /\ w.ver = d.ver
      /\ w.services = l /\ w.severity = h.severity
      /\ \A f \in Field \ {"services", "severity"} : w[f] = d[f]
  BY <1>1, FieldFacts DEF WithAlert
<1>5. \A f \in Field : w[f] \in FieldType[f]
  BY <1>1, <1>3, <1>4, FieldFacts
<1>6. IsDoc(w)
  BY <1>1, <1>4, <1>5 DEF IsDoc
<1>7. \A f \in {"status", "resolvedAt", "related", "tags", "mergedInto"} : w[f] = d[f]
  BY <1>4, FieldFacts
<1> QED  BY <1>3, <1>4, <1>6, <1>7

\* The save of the incident that an alert joins adds to its list only.
LEMMA LinkSave ==
  ASSUME CorrelationInv, NEW r \in Request, NEW h, IsCopy(r, h.incident, h.loaded),
         IsAlert(h.copy), h.severity \in Severity
  PROVE  LET c == Saves(h.incident, h.loaded, WithAlert(h))
         IN  /\ WriteInv(r, c)
             /\ IsSave(c, h.incident, h.loaded, WithAlert(h), FALSE)
<1> PICK w : w = WithAlert(h)
  OBVIOUS
<1>1. /\ IsDoc(w) /\ w.ver = h.loaded.ver /\ w.status = h.loaded.status
      /\ w.resolvedAt = h.loaded.resolvedAt /\ w.related = h.loaded.related
      /\ IsDoc(h.loaded)
  BY WithAlertFacts DEF IsCopy
<1>2. IsSave(Saves(h.incident, h.loaded, w), h.incident, h.loaded, w, FALSE)
  BY <1>1, SaveFacts
<1>3. WriteInv(r, Saves(h.incident, h.loaded, w))
  BY <1>1, <1>2, SaveSound DEF KeepsStatus, CorrelationInv
<1> QED  BY <1>2, <1>3

\* The engine sends the save of the incident that the alert joins.
LEMMA LinkAlertSound ==
  ASSUME CorrelationInv, NEW r \in Request, LinkAlert(r)
  PROVE  CorrelationInv'
<1> PICK h : h = held[r]
  OBVIOUS
<1> PICK c : c = Saves(h.incident, h.loaded, WithAlert(h))
  OBVIOUS
<1>1. /\ pc[r] = "working" /\ UNCHANGED <<incidents, aged>>
      /\ h.alert \in DOMAIN alerts /\ IsAlert(h.copy)
      /\ IsCopy(r, h.incident, h.loaded) /\ h.severity \in Severity
      /\ StoreAlert(h.alert, h.copy, Linked(h.copy, h.incident))
      /\ writes[r] = {}
      /\ Send(r, {c}) \/ Return(r, "failed")
  BY DEF LinkAlert, At, CorrelationInv, SavesAwaited, HeldInv, AlertStepName, WithAlert
<1>2. WriteInv(r, c)
  BY <1>1, LinkSave
<1>3. IsAlert(Linked(h.copy, h.incident))
  BY <1>1, LinkedFacts DEF IsCopy
<1>4. AlertsStay
  BY <1>1, <1>3, StoreFacts
<1>5. \A d \in {c} : WriteInv(r, d)
  BY <1>2
<1>6. CASE Send(r, {c})
  BY <1>1, <1>4, <1>5, <1>6, SendSound
<1>7. CASE Return(r, "failed")
  BY <1>1, <1>4, <1>7, ReturnSound DEF Ended
<1> QED  BY <1>1, <1>6, <1>7

\* The incident made for an alert is open and lists the service of the alert.
LEMMA IncidentForFacts ==
  ASSUME NEW x, IsAlert(x)
  PROVE  LET d == IncidentFor(x)
         IN  /\ IsDoc(d) /\ d.status = "OPEN" /\ d.resolvedAt = None
             /\ d.related = {} /\ d.tags = {} /\ ToSet(d.services) = {x.service}
             /\ d.mergedInto = None /\ d.severity = x.severity
<1> PICK e : e = NewIncident(x.severity, <<x.service>>, None)
  OBVIOUS
<1>1. /\ x.severity \in Severity /\ <<x.service>> \in ServiceList
      /\ ToSet(<<x.service>>) = {x.service} /\ x.key \in FieldType["key"]
  <2>1. PICK p \in Report : x.service = p.service
    BY DEF IsAlert
  <2>2. PICK q \in Report : x.key = q.key
    BY DEF IsAlert
  <2> QED  BY <2>1, <2>2, ReportFacts DEF IsAlert
<1>2. IsDoc(e)
  BY <1>1, NewIncidentType
<1>3. /\ e.status = "OPEN" /\ e.resolvedAt = None /\ e.related = {} /\ e.tags = {}
      /\ e.services = <<x.service>> /\ e.mergedInto = None /\ e.severity = x.severity
  BY DEF NewIncident
<1>4. IncidentFor(x) = [e EXCEPT !["key"] = x.key]
  BY DEF IncidentFor
<1>5. IsDoc(IncidentFor(x))
  BY <1>1, <1>2, <1>4, ExceptType, FieldFacts
<1>6. \A f \in {"status", "resolvedAt", "related", "tags", "services", "mergedInto", "severity"} :
        IncidentFor(x)[f] = e[f]
  BY <1>2, <1>4, FieldFacts DEF IsDoc
<1> QED  BY <1>1, <1>3, <1>5, <1>6

\* The engine inserts an incident for an alert that joins none.
LEMMA SpawnSound ==
  ASSUME CorrelationInv, NEW r \in Request, NEW i \in Incident, Spawn(r, i)
  PROVE  CorrelationInv'
<1> PICK x : x = held[r].copy
  OBVIOUS
<1> PICK a : a = held[r].alert
  OBVIOUS
<1> PICK d : d = IncidentFor(x)
  OBVIOUS
<1> PICK h : h = [step |-> "attach", alert |-> a, copy |-> x, incident |-> i]
  OBVIOUS
<1>1. /\ pc[r] = "working" /\ UNCHANGED <<alerts, aged>> /\ AlertsStay
      /\ a \in DOMAIN alerts /\ IsAlert(x) /\ Adds(i, d) /\ Await(r, h) /\ writes[r] = {}
  BY AlertsUnchanged DEF Spawn, At, CorrelationInv, SavesAwaited, HeldInv, AlertStepName, Adds
<1>2. IsDoc(d) /\ d.status = "OPEN" /\ d.resolvedAt = None
  BY <1>1, IncidentForFacts
<1>3. Alone(r) /\ writes' = writes /\ pc'[r] = "working" /\ held'[r] = h
  BY <1>1, AwaitAlone DEF CorrelationInv
<1>4. /\ Later /\ SoundIncidents' /\ ResolvedIsDated' /\ AlertsInv'
      /\ DOMAIN incidents' = DOMAIN incidents \cup {i} /\ incidents'[i] = d
      /\ \A j \in DOMAIN incidents : incidents'[j] = incidents[j]
  BY <1>1, <1>2, <1>3, AddFacts DEF Alone
<1>5. HeldInv(r, h)'
  <2>1. IsAlert(x)' /\ a \in DOMAIN alerts' /\ i \in DOMAIN incidents'
    BY <1>1, <1>4, AlertLasts
  <2>2. h.step = "attach" /\ h.alert = a /\ h.copy = x /\ h.incident = i
    OBVIOUS
  <2> QED  BY <2>1, <2>2 DEF HeldInv, PairStep, MergeStep, AlertStepName
<1>6. StampsSent'
  BY <1>1, <1>2, <1>3, <1>4, NoneAssumption DEF StampsSent, CorrelationInv, Alone
<1>7. aged' \subseteq DOMAIN alerts' \cup DOMAIN incidents'
  BY <1>1, <1>4 DEF CorrelationInv
<1>8. HeldInv(r, held[r])'
  BY <1>3, <1>5
<1>9. writes'[r] = {}
  BY <1>1, <1>3
<1> QED  BY <1>3, <1>4, <1>6, <1>7, <1>8, <1>9, StepSound DEF Alone

\* The engine saves the alert with its incident.
LEMMA AttachAlertSound ==
  ASSUME CorrelationInv, NEW r \in Request, AttachAlert(r)
  PROVE  CorrelationInv'
<1> PICK h : h = held[r]
  OBVIOUS
<1>1. /\ UNCHANGED <<incidents, aged>> /\ Send(r, {})
      /\ h.alert \in DOMAIN alerts /\ IsAlert(h.copy) /\ h.incident \in DOMAIN incidents
      /\ StoreAlert(h.alert, h.copy, Linked(h.copy, h.incident))
  BY DEF AttachAlert, At, CorrelationInv, HeldInv, AlertStepName
<1>2. IsAlert(Linked(h.copy, h.incident))
  BY <1>1, LinkedFacts
<1>3. AlertsStay
  BY <1>1, <1>2, StoreFacts
<1> QED  BY <1>1, <1>3, SendSound

\* associate() and unassociate() read the alert.
LEMMA ReadAlertSound ==
  ASSUME CorrelationInv, NEW r \in Request, NEW a \in DOMAIN alerts, NEW e, NEW i,
         (e = "associate" /\ i \in DOMAIN incidents) \/ e = "unassociate",
         ReadAlert(r, e, a, i)
  PROVE  CorrelationInv'
<1> PICK x : x = alerts[a]
  OBVIOUS
<1> PICK h : h = [step |-> e, alert |-> a, copy |-> x, incident |-> i]
  OBVIOUS
<1>1. /\ pc[r] = "idle" /\ UNCHANGED <<incidents, alerts, aged>> /\ AlertsStay
      /\ IsAlert(x) /\ Await(r, h)
  BY AlertsUnchanged DEF ReadAlert, Starts, CorrelationInv, AlertsInv
<1>2. HeldInv(r, h)
  <2>1. h.step = e /\ h.alert = a /\ h.copy = x /\ h.incident = i
    OBVIOUS
  <2> QED  BY <1>1, <2>1 DEF HeldInv, PairStep, MergeStep, AlertStepName
<1> QED  BY <1>1, <1>2, HoldsSound

\* associate() takes a copy of the incident, and refuses a resolved one.
LEMMA AssociateSound ==
  ASSUME CorrelationInv, NEW r \in Request, Associate(r)
  PROVE  CorrelationInv'
<1> PICK h : h = held[r]
  OBVIOUS
<1> PICK i : i = h.incident
  OBVIOUS
<1> PICK e : e = incidents[i]
  OBVIOUS
<1>1. /\ pc[r] = "working" /\ UNCHANGED <<incidents, alerts, aged>> /\ AlertsStay
      /\ writes[r] = {} /\ h.alert \in DOMAIN alerts /\ IsAlert(h.copy) /\ i \in DOMAIN incidents
  BY AlertsUnchanged DEF Associate, At, CorrelationInv, SavesAwaited, HeldInv, AlertStepName
<1> PICK n : n = [step |-> "link", alert |-> h.alert, copy |-> h.copy, incident |-> i,
                  loaded |-> e, severity |-> e.severity]
  OBVIOUS
<1>2. Return(r, "refused") \/ Await(r, n)
  BY DEF Associate
<1>3. CASE Return(r, "refused")
  BY <1>1, <1>3, ReturnSound DEF Ended
<1>4. CASE Await(r, n)
  <2>1. IsCopy(r, i, e) /\ e.severity \in Severity
    BY <1>1, LoadedIsCopy, FieldFacts DEF IsDoc
  <2>2. HeldInv(r, n)
    <3>1. /\ n.step = "link" /\ n.alert = h.alert /\ n.copy = h.copy /\ n.incident = i
          /\ n.loaded = e /\ n.severity = e.severity
      OBVIOUS
    <3> QED  BY <1>1, <2>1, <3>1 DEF HeldInv, PairStep, MergeStep, AlertStepName
  <2> QED  BY <1>1, <1>4, <2>2, HoldsSound
<1> QED  BY <1>2, <1>3, <1>4

\* unassociate() takes the alert off its incident.
LEMMA UnassociateSound ==
  ASSUME CorrelationInv, NEW r \in Request, Unassociate(r)
  PROVE  CorrelationInv'
<1> PICK h : h = held[r]
  OBVIOUS
<1>1. /\ UNCHANGED <<incidents, aged>> /\ (Return(r, "done") \/ Send(r, {}))
      /\ writes[r] = {} /\ h.alert \in DOMAIN alerts /\ IsAlert(h.copy)
      /\ StoreAlert(h.alert, h.copy, Linked(h.copy, None))
  BY DEF Unassociate, At, CorrelationInv, SavesAwaited, HeldInv, AlertStepName
<1>2. IsAlert(Linked(h.copy, None))
  BY <1>1, LinkedFacts
<1>3. AlertsStay
  BY <1>1, <1>2, StoreFacts
<1>4. CASE Return(r, "done")
  BY <1>1, <1>3, <1>4, ReturnSound DEF Ended
<1>5. CASE Send(r, {})
  BY <1>1, <1>3, <1>5, SendSound
<1> QED  BY <1>1, <1>4, <1>5

-----------------------------------------------------------------------------
(* Saves that are executed or refused, ends of calls, and failures.        *)

\* A step in which no handler sends a save or holds something new.
LEMMA RestSound ==
  ASSUME CorrelationInv, Later, ShapeInv',
         \A q \in Request :
           /\ pc'[q] = "working" => pc[q] = "working" /\ held'[q] = held[q]
           /\ writes'[q] \subseteq writes[q]
           /\ writes'[q] # {} => pc'[q] \in {"saving", "failed"},
         SoundIncidents', ResolvedIsDated', StampsSent', AlertsInv',
         aged' \subseteq DOMAIN alerts' \cup DOMAIN incidents'
  PROVE  CorrelationInv'
<1>1. SavesAwaited'
  BY DEF SavesAwaited
<1>2. ASSUME NEW q \in Request, NEW c \in writes'[q] PROVE WriteInv(q, c)'
  <2>1. c \in writes[q]
    BY <1>2
  <2>2. WriteInv(q, c) /\ SoundIncidents
    BY <2>1 DEF CorrelationInv
  <2> QED  BY <2>2, WriteLasts
<1>3. ASSUME NEW q \in Request, pc'[q] = "working" PROVE HeldInv(q, held[q])'
  <2> PICK h : h = held[q]
    OBVIOUS
  <2>1. pc[q] = "working" /\ held'[q] = h
    BY <1>3
  <2>2. HeldInv(q, h) /\ SoundIncidents
    BY <2>1 DEF CorrelationInv
  <2>3. HeldInv(q, h)'
    BY <2>2, HeldLasts
  <2> QED  BY <2>1, <2>3
<1> QED  BY <1>1, <1>2, <1>3 DEF CorrelationInv

\* What an executed save does to the document it addresses.
LEMMA ExecutedFacts ==
  ASSUME CorrelationInv, NEW r \in Request, NEW c, ExecuteSave(r, c)
  PROVE  LET d == incidents[c.doc]
             e == incidents'[c.doc]
         IN  /\ c \in writes[r] /\ WriteInv(r, c)
             /\ c.doc \in DOMAIN incidents /\ DOMAIN incidents' = DOMAIN incidents
             /\ \A i \in DOMAIN incidents : i # c.doc => incidents'[i] = incidents[i]
             /\ IsDoc(d) /\ IsDoc(e)
             /\ c.where \in {AnyVersion, d.ver}
             /\ e.ver = IF c.where = AnyVersion THEN d.ver ELSE d.ver + 1
             /\ \A f \in Field : e[f] = IF f \in DOMAIN c.set THEN c.set[f] ELSE d[f]
<1> PICK d : d = incidents[c.doc]
  OBVIOUS
<1> PICK e : e = Applied(d, c)
  OBVIOUS
<1>1. c \in writes[r] /\ WriteInv(r, c) /\ IsCommand(c)
  BY DEF ExecuteSave, CorrelationInv, WriteInv
<1>2. c.doc \in DOMAIN incidents /\ IsDoc(d)
  BY <1>1 DEF IsCommand, CorrelationInv, SoundIncidents
<1>3. incidents'[c.doc] = e /\ DOMAIN incidents' = DOMAIN incidents
      /\ \A i \in DOMAIN incidents : i # c.doc => incidents'[i] = incidents[i]
  BY <1>2 DEF ExecuteSave
<1>4. IsDoc(e)
  BY <1>1, <1>2, AppliedType
<1>5. c.where \in {AnyVersion, d.ver}
  BY DEF ExecuteSave, Accepts
<1>6. "ver" \notin DOMAIN c.set /\ "ver" \notin Field /\ DOMAIN d = Field \cup {"ver"}
  BY <1>1, <1>2, FieldFacts DEF IsCommand, IsDoc
<1>7. /\ e.ver = IF c.where = AnyVersion THEN d.ver ELSE d.ver + 1
      /\ \A f \in Field : e[f] = IF f \in DOMAIN c.set THEN c.set[f] ELSE d[f]
  BY <1>6 DEF Applied
<1> QED  BY <1>1, <1>2, <1>3, <1>4, <1>5, <1>7

\* The other handlers stand where they stood, and this one has one save less.
LEMMA ExecutedHandler ==
  ASSUME CorrelationInv, NEW r \in Request, NEW c, ExecuteSave(r, c)
  PROVE  /\ Alone(r) /\ held' = held /\ writes'[r] = writes[r] \ {c}
         /\ pc[r] \in {"saving", "failed"} /\ pc'[r] \in {"saving", "failed", "written"}
         /\ pc[r] = "failed" => pc'[r] = "failed"
         /\ writes'[r] # {} => pc'[r] \in {"saving", "failed"}
<1>1. c \in writes[r] /\ pc[r] \in {"saving", "failed"}
  BY DEF ExecuteSave, CorrelationInv, SavesAwaited
<1>2. /\ DOMAIN writes = Request /\ DOMAIN pc = Request /\ DOMAIN held = Request
  BY DEF CorrelationInv, ShapeInv
<1>3. /\ DOMAIN writes' = Request /\ DOMAIN pc' = Request /\ held' = held
      /\ writes'[r] = writes[r] \ {c}
      /\ pc'[r] = IF pc[r] = "saving" /\ writes[r] = {c} THEN "written" ELSE pc[r]
      /\ \A q \in Request \ {r} : writes'[q] = writes[q] /\ pc'[q] = pc[q]
  BY <1>2 DEF ExecuteSave
<1> QED  BY <1>1, <1>2, <1>3 DEF Alone, ShapeInv, Started

\* An executed save keeps what lasts: the version grows with a list of links.
LEMMA ExecutedLater ==
  ASSUME CorrelationInv, NEW r \in Request, NEW c, ExecuteSave(r, c), UNCHANGED alerts
  PROVE  Later
<1> PICK d : d = incidents[c.doc]
  OBVIOUS
<1> PICK e : e = incidents'[c.doc]
  OBVIOUS
<1>1. /\ WriteInv(r, c) /\ DOMAIN incidents' = DOMAIN incidents
      /\ c.doc \in DOMAIN incidents
      /\ \A i \in DOMAIN incidents : i # c.doc => incidents'[i] = incidents[i]
      /\ IsDoc(d) /\ IsDoc(e)
      /\ e.ver = IF c.where = AnyVersion THEN d.ver ELSE d.ver + 1
      /\ e.related = IF "related" \in DOMAIN c.set THEN c.set.related ELSE d.related
  BY ExecutedFacts, FieldFacts
<1>2. "related" \in DOMAIN c.set => c.where # AnyVersion
  BY <1>1 DEF WriteInv, WriteBase
<1>3. \A i \in DOMAIN incidents : incidents[i].ver \in Nat
  BY DEF CorrelationInv, SoundIncidents, IsDoc
<1>4. d.ver <= e.ver /\ e.ver \in Nat /\ (e.ver = d.ver => e.related = d.related)
  BY <1>1, <1>2 DEF IsDoc
<1>5. Started \subseteq Started'
  BY ExecutedHandler DEF Alone
<1> QED  BY <1>1, <1>3, <1>4, <1>5 DEF Later

\* The database executes a save whose version is the stored one.
LEMMA SaveIncidentSound ==
  ASSUME CorrelationInv, NEW r \in Request, NEW c, SaveIncident(r, c)
  PROVE  CorrelationInv'
<1> PICK d : d = incidents[c.doc]
  OBVIOUS
<1> PICK e : e = incidents'[c.doc]
  OBVIOUS
<1>0. ExecuteSave(r, c) /\ aged' = aged \ {c.doc} /\ UNCHANGED alerts
  BY DEF SaveIncident
<1>1. /\ WriteInv(r, c) /\ DOMAIN incidents' = DOMAIN incidents
      /\ c.doc \in DOMAIN incidents
      /\ \A i \in DOMAIN incidents : i # c.doc => incidents'[i] = incidents[i]
      /\ IsDoc(d) /\ IsDoc(e)
      /\ \A f \in Field : e[f] = IF f \in DOMAIN c.set THEN c.set[f] ELSE d[f]
  BY <1>0, ExecutedFacts
<1>2. /\ Alone(r) /\ held' = held /\ writes'[r] = writes[r] \ {c}
      /\ pc[r] \in {"saving", "failed"} /\ pc'[r] \in {"saving", "failed", "written"}
      /\ writes'[r] # {} => pc'[r] \in {"saving", "failed"}
  BY <1>0, ExecutedHandler
<1>3. Later
  BY <1>0, ExecutedLater
<1>4. SoundIncidents'
  <2>1. ASSUME NEW i \in DOMAIN incidents' PROVE IsDoc(incidents[i])'
    <3>1. IsDoc(incidents'[i])
      BY <1>1 DEF CorrelationInv, SoundIncidents
    <3> QED  BY <3>1 DEF IsDoc
  <2> QED  BY <1>1, <2>1 DEF CorrelationInv, SoundIncidents
<1>5. AlertsInv'
  <2>1. ASSUME NEW a \in DOMAIN alerts PROVE IsAlert(alerts[a])'
    <3> PICK x : x = alerts[a]
      OBVIOUS
    <3>1. IsAlert(x)
      BY DEF CorrelationInv, AlertsInv
    <3>2. IsAlert(x)'
      BY <1>3, <3>1, AlertLasts
    <3> QED  BY <1>0, <3>2
  <2> QED  BY <1>0, <2>1 DEF CorrelationInv, AlertsInv
<1>6. /\ "status" \in Field /\ "resolvedAt" \in Field /\ None \notin Request
  BY FieldFacts, NoneAssumption
<1>7. ResolvedIsDated'
  <2>1. e.status = Resolved => e.resolvedAt # None
    <3>1. d.status = Resolved => d.resolvedAt # None
      BY <1>1 DEF CorrelationInv, ResolvedIsDated
    <3>2. StampedBy(r, c)
      BY <1>1 DEF WriteInv
    <3> QED  BY <1>1, <1>6, <3>1, <3>2 DEF StampedBy
  <2> QED  BY <1>1, <2>1 DEF CorrelationInv, ResolvedIsDated
<1>8. StampsSent'
  <2>1. ASSUME NEW i \in DOMAIN incidents, NEW q \in Request, incidents'[i].resolvedAt = q
        PROVE  pc'[q] \notin {"idle", "working"}
    <3>1. CASE incidents[i].resolvedAt = q
      BY <1>2, <3>1 DEF CorrelationInv, StampsSent, Alone
    <3>2. CASE incidents[i].resolvedAt # q
      <4>1. i = c.doc /\ e.resolvedAt = q /\ "resolvedAt" \in DOMAIN c.set
        BY <1>1, <1>6, <2>1, <3>2
      <4>2. q = r
        BY <1>1, <1>6, <4>1 DEF WriteInv, StampedBy
      <4> QED  BY <1>2, <4>2
    <3> QED  BY <3>1, <3>2
  <2> QED  BY <1>1, <2>1 DEF StampsSent
<1>9. aged' \subseteq DOMAIN alerts' \cup DOMAIN incidents'
  BY <1>0, <1>1 DEF CorrelationInv
<1>10. \A q \in Request :
         /\ pc'[q] = "working" => pc[q] = "working" /\ held'[q] = held[q]
         /\ writes'[q] \subseteq writes[q]
         /\ writes'[q] # {} => pc'[q] \in {"saving", "failed"}
  BY <1>2 DEF Alone, CorrelationInv, SavesAwaited
<1> QED  BY <1>2, <1>3, <1>4, <1>5, <1>7, <1>8, <1>9, <1>10, RestSound DEF Alone

\* A step of the handlers that changes no document and stores nothing.
LEMMA SameSound ==
  ASSUME CorrelationInv, UNCHANGED <<incidents, alerts>>, ShapeInv',
         Started \subseteq Started',
         \A q \in Request :
           /\ pc'[q] = "working" => pc[q] = "working" /\ held'[q] = held[q]
           /\ writes'[q] \subseteq writes[q]
           /\ writes'[q] # {} => pc'[q] \in {"saving", "failed"},
         aged' \subseteq DOMAIN alerts \cup DOMAIN incidents
  PROVE  CorrelationInv'
<1>1. /\ Later /\ AlertsInv' /\ SoundIncidents' /\ ResolvedIsDated'
  BY SameIncidents, AlertsUnchanged
<1>2. StampsSent'
  BY DEF StampsSent, CorrelationInv, Started
<1>3. aged' \subseteq DOMAIN alerts' \cup DOMAIN incidents'
  OBVIOUS
<1> QED  BY <1>1, <1>2, <1>3, RestSound

\* A handler whose save was refused fails.
LEMMA RefuseSound ==
  ASSUME CorrelationInv, NEW r \in Request, NEW c, RefuseSave(r, c), UNCHANGED <<alerts, aged>>
  PROVE  CorrelationInv'
<1>1. /\ DOMAIN writes = Request /\ DOMAIN pc = Request /\ DOMAIN held = Request
  BY DEF CorrelationInv, ShapeInv
<1>2. /\ DOMAIN writes' = Request /\ DOMAIN pc' = Request /\ held' = held
      /\ writes'[r] \subseteq writes[r] /\ pc'[r] = "failed" /\ UNCHANGED incidents
      /\ \A q \in Request \ {r} : writes'[q] = writes[q] /\ pc'[q] = pc[q]
  BY <1>1 DEF RefuseSave
<1>3. ShapeInv' /\ Started \subseteq Started'
  BY <1>1, <1>2 DEF ShapeInv, Started
<1>4. aged' \subseteq DOMAIN alerts \cup DOMAIN incidents /\ SavesAwaited
  BY DEF CorrelationInv
<1>5. \A q \in Request :
         /\ pc'[q] = "working" => pc[q] = "working" /\ held'[q] = held[q]
         /\ writes'[q] \subseteq writes[q]
         /\ writes'[q] # {} => pc'[q] \in {"saving", "failed"}
  BY <1>2, <1>4 DEF SavesAwaited
<1> QED  BY <1>2, <1>3, <1>4, <1>5, SameSound

\* A handler whose saves are done returns.
LEMMA AnnounceSound ==
  ASSUME CorrelationInv, NEW r \in Request, Announce(r), UNCHANGED <<alerts, aged>>
  PROVE  CorrelationInv'
<1>1. /\ DOMAIN writes = Request /\ DOMAIN pc = Request /\ DOMAIN held = Request
      /\ aged' \subseteq DOMAIN alerts \cup DOMAIN incidents /\ SavesAwaited
  BY DEF CorrelationInv, ShapeInv
<1>2. /\ DOMAIN pc' = Request /\ UNCHANGED <<held, writes, incidents>>
      /\ pc[r] = "written" /\ pc'[r] = "done"
      /\ \A q \in Request \ {r} : pc'[q] = pc[q]
  BY <1>1 DEF Announce
<1>3. ShapeInv' /\ Started \subseteq Started'
  BY <1>1, <1>2 DEF ShapeInv, Started
<1>4. \A q \in Request :
         /\ pc'[q] = "working" => pc[q] = "working" /\ held'[q] = held[q]
         /\ writes'[q] \subseteq writes[q]
         /\ writes'[q] # {} => pc'[q] \in {"saving", "failed"}
  BY <1>1, <1>2 DEF SavesAwaited
<1> QED  BY <1>1, <1>2, <1>3, <1>4, SameSound

\* A crash ends the calls and drops the saves in flight.
LEMMA CrashSound ==
  ASSUME CorrelationInv, Crash, UNCHANGED <<alerts, aged>>
  PROVE  CorrelationInv'
<1>1. /\ DOMAIN writes' = Request /\ DOMAIN pc' = Request /\ DOMAIN held' = Request
      /\ UNCHANGED incidents
      /\ \A q \in Request :
           /\ writes'[q] = {}
           /\ pc'[q] = IF pc[q] \in InFlight THEN "failed" ELSE pc[q]
  BY DEF Crash
<1>2. ShapeInv' /\ Started \subseteq Started'
  BY <1>1 DEF ShapeInv, Started
<1>3. \A q \in Request :
         /\ pc'[q] = "working" => pc[q] = "working" /\ held'[q] = held[q]
         /\ writes'[q] \subseteq writes[q]
         /\ writes'[q] # {} => pc'[q] \in {"saving", "failed"}
  BY <1>1 DEF InFlight
<1>4. aged' \subseteq DOMAIN alerts \cup DOMAIN incidents
  BY DEF CorrelationInv
<1> QED  BY <1>1, <1>2, <1>3, <1>4, SameSound

\* A failing call ends its handler alone.
LEMMA FailSound ==
  ASSUME CorrelationInv, NEW r \in Request, Fail(r)
  PROVE  CorrelationInv'
<1>1. /\ writes[r] = {} /\ Return(r, "failed") /\ UNCHANGED <<incidents, alerts, aged>>
      /\ AlertsStay
  BY AlertsUnchanged DEF Fail, CorrelationInv, SavesAwaited
<1> QED  BY <1>1, ReturnSound DEF Ended

\* Only a window closes, or nothing happens.
LEMMA AgeSound ==
  ASSUME CorrelationInv, UNCHANGED <<vars, alerts>>,
         aged' \subseteq DOMAIN alerts \cup DOMAIN incidents
  PROVE  CorrelationInv'
<1>1. UNCHANGED <<incidents, alerts, pc, held, writes>>
  BY DEF vars
<1>2. ShapeInv' /\ Started \subseteq Started'
  BY <1>1 DEF CorrelationInv, ShapeInv, Started
<1>3. \A q \in Request :
         /\ pc'[q] = "working" => pc[q] = "working" /\ held'[q] = held[q]
         /\ writes'[q] \subseteq writes[q]
         /\ writes'[q] # {} => pc'[q] \in {"saving", "failed"}
  BY <1>1 DEF CorrelationInv, SavesAwaited
<1> QED  BY <1>1, <1>2, <1>3, SameSound

\* Every step of an alert handler preserves the invariant.
LEMMA AlertStepSound ==
  ASSUME CorrelationInv, NEW r \in Request, AlertStep(r)
  PROVE  CorrelationInv'
<1>1. ASSUME NEW p \in Report, Ingest(r, p) PROVE CorrelationInv'
  BY <1>1, IngestSound
<1>2. ASSUME NEW a \in Alert, InsertAlert(r, a) PROVE CorrelationInv'
  BY <1>2, InsertAlertSound
<1>3. ASSUME NEW i \in Incident, Spawn(r, i) PROVE CorrelationInv'
  BY <1>3, SpawnSound
<1>4. ASSUME NEW a \in DOMAIN alerts, NEW i \in DOMAIN incidents,
             ReadAlert(r, "associate", a, i)
      PROVE  CorrelationInv'
  BY <1>4, ReadAlertSound
<1>5. ASSUME NEW a \in DOMAIN alerts, ReadAlert(r, "unassociate", a, None)
      PROVE  CorrelationInv'
  BY <1>5, ReadAlertSound
<1> QED
  BY <1>1, <1>2, <1>3, <1>4, <1>5, CountRepetitionSound, EscalateSound, MatchSound,
     LinkAlertSound, AttachAlertSound, AssociateSound, UnassociateSound,
     MergeGuardsSound, CollectAlertsSound, MoveAlertsSound
  DEF AlertStep

\* Every step of an incident handler preserves the invariant.
LEMMA IncidentStepSound ==
  ASSUME CorrelationInv, IncidentStep
  PROVE  CorrelationInv'
<1>0. UNCHANGED <<alerts, aged>>
  BY DEF IncidentStep
<1>1. CASE Crash
  BY <1>0, <1>1, CrashSound
<1>2. ASSUME NEW r \in Request, NEW i \in DOMAIN incidents, NEW j \in DOMAIN incidents,
             ReadFirst(r, "merge", i, j)
      PROVE  CorrelationInv'
  BY <1>0, <1>2, ReadFirstSound DEF PairStep
<1>3. ASSUME NEW r \in Request, NEW c \in writes[r], RefuseSave(r, c) PROVE CorrelationInv'
  BY <1>0, <1>3, RefuseSound
<1>4. ASSUME NEW r \in Request, Begin(r) \/ Relate(r) \/ Unrelate(r) \/ Announce(r)
      PROVE  CorrelationInv'
  BY <1>0, <1>4, BeginSound, RelateSound, UnrelateSound, AnnounceSound
<1> QED  BY <1>1, <1>2, <1>3, <1>4 DEF IncidentStep

\* Every step preserves the invariant.
LEMMA CorrelationStep ==
  ASSUME CorrelationInv, [NextCorrelation]_allVars
  PROVE  CorrelationInv'
<1>1. CASE IncidentStep
  BY <1>1, IncidentStepSound
<1>2. ASSUME NEW x \in Ageing, Age(x) PROVE CorrelationInv'
  BY <1>2, AgeSound DEF Age, CorrelationInv
<1>3. ASSUME NEW r \in Request, AlertStep(r) \/ Fail(r) PROVE CorrelationInv'
  BY <1>3, AlertStepSound, FailSound
<1>4. ASSUME NEW r \in Request, NEW c \in writes[r], SaveIncident(r, c) PROVE CorrelationInv'
  BY <1>4, SaveIncidentSound
<1>5. CASE UNCHANGED allVars
  BY <1>5, AgeSound DEF allVars, CorrelationInv
<1> QED  BY <1>1, <1>2, <1>3, <1>4, <1>5 DEF NextCorrelation

\* The invariant holds before the first call.
LEMMA CorrelationInit == InitCorrelation => CorrelationInv
<1> SUFFICES ASSUME InitCorrelation PROVE CorrelationInv
  OBVIOUS
<1>1. PICK D \in SUBSET Incident :
        incidents \in [D -> {NewIncident(sev, sv, None) :
                               sev \in Severity, sv \in ServiceList}]
  BY DEF InitCorrelation, Init
<1>2. PICK E \in SUBSET Alert : alerts \in [E -> {NewAlert(p) : p \in Report}]
  BY DEF InitCorrelation
<1>3. /\ \A r \in Request : pc[r] = "idle" /\ writes[r] = {}
      /\ ShapeInv /\ aged = {}
  BY DEF InitCorrelation, Init, ShapeInv
<1>4. \A i \in DOMAIN incidents : /\ IsDoc(incidents[i]) /\ incidents[i].status = "OPEN"
                                  /\ incidents[i].resolvedAt = None
  <2>1. ASSUME NEW i \in D
        PROVE  \E d : d = incidents[i] /\ IsDoc(d) /\ d.status = "OPEN" /\ d.resolvedAt = None
    <3>1. PICK sev \in Severity, sv \in ServiceList : incidents[i] = NewIncident(sev, sv, None)
      BY <1>1
    <3> QED  BY <3>1, NewIncidentType, NewIncidentFacts
  <2> QED  BY <1>1, <2>1
<1>5. SoundIncidents
  BY <1>1, <1>4 DEF SoundIncidents
<1>6. ResolvedIsDated /\ StampsSent
  BY <1>4, StatusAssumption, NoneAssumption DEF ResolvedIsDated, StampsSent
<1>7. AlertsInv
  <2>1. ASSUME NEW a \in E PROVE IsAlert(alerts[a])
    <3>1. PICK p \in Report : alerts[a] = NewAlert(p)
      BY <1>2
    <3> QED  BY <3>1, NewAlertFacts
  <2> QED  BY <1>2, <2>1 DEF AlertsInv
<1> QED  BY <1>3, <1>5, <1>6, <1>7 DEF CorrelationInv, SavesAwaited

\* Whatever calls overlap, fail or are cut off by a crash, the documents, the
\* saves in flight and what handlers hold stay sound.
THEOREM CorrelationSound == SpecCorrelation => []CorrelationInv
<1>1. InitCorrelation => CorrelationInv
  BY CorrelationInit
<1>2. CorrelationInv /\ [NextCorrelation]_allVars => CorrelationInv'
  BY CorrelationStep
<1> QED  BY <1>1, <1>2, PTL DEF SpecCorrelation

\* Alerts point to stored incidents, and every save in flight addresses a stored
\* incident with values its fields can hold.
THEOREM CorrelationTypeCorrect == SpecCorrelation => []CorrelationTypeOK
<1>1. CorrelationInv => CorrelationTypeOK
  <2> SUFFICES ASSUME CorrelationInv PROVE CorrelationTypeOK
    OBVIOUS
  <2>1. ASSUME NEW a \in DOMAIN alerts PROVE alerts[a] \in AlertType
    <3> PICK x : x = alerts[a]
      OBVIOUS
    <3>1. IsAlert(x)
      BY DEF CorrelationInv, AlertsInv
    <3>2. x.count \in 1..(Cardinality(Request) + 1)
      BY <3>1, CountFacts DEF IsAlert
    <3>3. x \in AlertType
      BY <3>1, <3>2 DEF IsAlert, AlertField, AlertType
    <3> QED  BY <3>3
  <2>2. alerts \in [DOMAIN alerts -> AlertType]
    BY <2>1 DEF CorrelationInv, AlertsInv
  <2> QED  BY <2>2 DEF CorrelationInv, CorrelationTypeOK, AlertsInv, SoundIncidents, WriteInv
<1> QED  BY <1>1, CorrelationSound, PTL

\* A RESOLVED incident has a resolution time also when merge closes it beside
\* other handlers.
THEOREM ResolvedHasDateBesideAlerts == SpecCorrelation => []ResolvedIsDated
<1>1. CorrelationInv => ResolvedIsDated
  BY DEF CorrelationInv
<1> QED  BY <1>1, CorrelationSound, PTL

-----------------------------------------------------------------------------
(* The promise of LinkLists.                                               *)

\* A document that is added is a new, empty list.
LEMMA AddRefines ==
  ASSUME NEW i, NEW d, Adds(i, d), d.related = {}
  PROVE  Links!Next
<1>1. /\ DOMAIN incidents' = DOMAIN incidents \cup {i} /\ i \notin DOMAIN incidents
      /\ i \in Incident /\ incidents'[i].related = {}
      /\ \A j \in DOMAIN incidents : incidents'[j] = incidents[j]
  BY DEF Adds
<1>2. Links!New(i)
  BY <1>1 DEF Links!New
<1> QED  BY <1>1, <1>2 DEF Links!Next

\* An executed save adds or drops one link of one list, or none.
LEMMA SaveRefines ==
  ASSUME CorrelationInv, NEW r \in Request, NEW c, ExecuteSave(r, c)
  PROVE  Links!Next \/ linkBar' = linkBar
<1> DEFINE i == c.doc
           new == incidents'[i].related
<1>1. /\ WriteInv(r, c) /\ i \in DOMAIN incidents /\ DOMAIN incidents' = DOMAIN incidents
      /\ \A j \in DOMAIN incidents : j # i => incidents'[j] = incidents[j]
      /\ new = IF "related" \in DOMAIN c.set THEN c.set.related ELSE incidents[i].related
      /\ c.where \in {AnyVersion, incidents[i].ver}
  BY ExecutedFacts, FieldFacts
<1>2. DOMAIN linkBar = DOMAIN incidents /\ linkBar[i] = incidents[i].related
  BY <1>1 DEF linkBar
<1>3. linkBar' = [linkBar EXCEPT ![i] = new]
  BY <1>1 DEF linkBar
<1>4. CASE "related" \notin DOMAIN c.set
  BY <1>1, <1>2, <1>3, <1>4 DEF linkBar
<1>5. CASE "related" \in DOMAIN c.set
  <2>1. OneLink(i, incidents[i].related, new)
    BY <1>1, <1>5 DEF WriteInv, WriteBase
  <2>2. PICK j \in DOMAIN incidents : \/ i # j /\ new = linkBar[i] \cup {j}
                                     \/ new = linkBar[i] \ {j}
    BY <2>1, <1>2 DEF OneLink
  <2>3. Links!Add(i, j) \/ Links!Drop(i, j)
    BY <1>3, <2>2 DEF Links!Add, Links!Drop, linkBar
  <2> QED  BY <1>1, <1>2, <2>2, <2>3 DEF Links!Next, linkBar
<1> QED  BY <1>4, <1>5

\* The steps that add a document; no other step but a save changes one.
LEMMA OtherSteps ==
  ASSUME CorrelationInv, [NextCorrelation]_allVars
  PROVE  \/ UNCHANGED incidents
         \/ \E r \in Request : \E c \in writes[r] : ExecuteSave(r, c) /\ SaveIncident(r, c)
         \/ \E i, d : Adds(i, d) /\ d.related = {}
<1>1. ASSUME NEW r \in Request, AlertStep(r)
      PROVE  UNCHANGED incidents \/ \E i, d : Adds(i, d) /\ d.related = {}
  <2>1. ASSUME NEW i \in Incident, Spawn(r, i)
        PROVE  \E j, d : Adds(j, d) /\ d.related = {}
    <3> PICK x : x = held[r].copy
      OBVIOUS
    <3> PICK d : d = IncidentFor(x)
      OBVIOUS
    <3>1. Adds(i, d) /\ IsAlert(x)
      BY <2>1 DEF Spawn, Adds, At, CorrelationInv, HeldInv, AlertStepName
    <3>2. d.related = {}
      BY <3>1, IncidentForFacts
    <3> QED  BY <3>1, <3>2
  <2> QED
    BY <1>1, <2>1 DEF AlertStep, Ingest, CountRepetition, Escalate, InsertAlert, Match,
       LinkAlert, AttachAlert, ReadAlert, Associate, Unassociate, MergeGuards,
       CollectAlerts, MoveAlerts
<1>2. ASSUME NEW r \in Request, Begin(r)
      PROVE  UNCHANGED incidents \/ \E i, d : Adds(i, d) /\ d.related = {}
  <2>1. ASSUME NEW i \in Incident, NEW sev \in Severity, NEW sv \in ServiceList,
               NEW a \in User \cup {None}, Create(r, i, sev, sv, a)
        PROVE  \E j, d : Adds(j, d) /\ d.related = {}
    <3> PICK d : d = NewIncident(sev, sv, a)
      OBVIOUS
    <3>1. Adds(i, d) /\ d.related = {}
      BY <2>1 DEF Create, Adds, NewIncident
    <3> QED  BY <3>1
  <2> QED
    BY <1>2, <2>1 DEF Begin, ChangeStatus, ChangeSeverity, Assign, Update, ReadFirst
<1>3. CASE IncidentStep
  BY <1>2, <1>3 DEF IncidentStep, Crash, ReadFirst, Relate, Unrelate, RefuseSave, Announce
<1>4. ASSUME NEW x \in Ageing, Age(x) PROVE UNCHANGED incidents
  BY <1>4 DEF Age, vars
<1>5. ASSUME NEW r \in Request, Fail(r) PROVE UNCHANGED incidents
  BY <1>5 DEF Fail
<1>6. CASE UNCHANGED allVars
  BY <1>6 DEF allVars, vars
<1>7. ASSUME NEW r \in Request, NEW c \in writes[r], SaveIncident(r, c)
      PROVE  ExecuteSave(r, c)
  BY <1>7 DEF SaveIncident
<1> QED  BY <1>1, <1>3, <1>4, <1>5, <1>6, <1>7 DEF NextCorrelation

\* merge, ingest, associate and the handlers of Incidents together implement
\* LinkLists: a list of related incidents only ever gains or loses one link of
\* its current value.
THEOREM LinksImplementedBesideAlerts == SpecCorrelation => LinksAreAtomic
<1>1. InitCorrelation => Links!Init
  <2> SUFFICES ASSUME InitCorrelation PROVE Links!Init
    OBVIOUS
  <2>1. PICK D \in SUBSET Incident :
          incidents \in [D -> {NewIncident(sev, sv, None) :
                                 sev \in Severity, sv \in ServiceList}]
    BY DEF InitCorrelation, Init
  <2>2. DOMAIN incidents = D /\ \A i \in D : incidents[i].related = {}
    BY <2>1 DEF NewIncident
  <2>3. linkBar = [i \in D |-> {}]
    BY <2>2 DEF linkBar
  <2> QED  BY <2>3 DEF Links!Init, linkBar
<1>2. CorrelationInv /\ [NextCorrelation]_allVars => [Links!Next]_linkBar
  <2> SUFFICES ASSUME CorrelationInv, [NextCorrelation]_allVars
               PROVE  Links!Next \/ linkBar' = linkBar
    OBVIOUS
  <2>1. CASE UNCHANGED incidents
    BY <2>1 DEF linkBar
  <2>2. ASSUME NEW r \in Request, NEW c \in writes[r], ExecuteSave(r, c)
        PROVE  Links!Next \/ linkBar' = linkBar
    BY <2>2, SaveRefines
  <2>3. ASSUME NEW i, NEW d, Adds(i, d), d.related = {}
        PROVE  Links!Next
    BY <2>3, AddRefines
  <2> QED  BY <2>1, <2>2, <2>3, OtherSteps
<1> QED
  BY <1>1, <1>2, CorrelationSound, PTL
  DEF SpecCorrelation, LinksAreAtomic, Links!Spec, linkBar

-----------------------------------------------------------------------------
(* The services of the alerts.                                             *)

\* Lists of services grow, and change with the version, as does what an incident
\* was merged into.
ListsLater ==
  /\ \A i \in DOMAIN incidents :
       /\ ToSet(incidents[i].services) \subseteq ToSet(incidents'[i].services)
       /\ incidents'[i].ver = incidents[i].ver =>
            /\ incidents'[i].services = incidents[i].services
            /\ incidents'[i].mergedInto = incidents[i].mergedInto
  /\ \A a \in DOMAIN alerts : alerts'[a].service = alerts[a].service

\* A copy stays behind its incident, since lists of services only grow.
LEMMA BehindLasts ==
  ASSUME SoundIncidents, Later, ListsLater, NEW r, NEW i, NEW d,
         IsCopy(r, i, d), Behind(d, i)
  PROVE  Behind(d, i)'
<1>1. /\ i \in DOMAIN incidents /\ d.ver \in Nat /\ incidents[i].ver \in Nat
      /\ incidents'[i].ver \in Nat
      /\ d.ver <= incidents[i].ver /\ incidents[i].ver <= incidents'[i].ver
  BY DEF IsCopy, IsDoc, SoundIncidents, Later
<1>2. d.ver = incidents'[i].ver => d.ver = incidents[i].ver /\ incidents'[i].ver = incidents[i].ver
  BY <1>1
<1> QED  BY <1>1, <1>2 DEF Behind, ListsLater

\* What a waiting handler holds of the lists stays true.
LEMMA HeldListsLast ==
  ASSUME SoundIncidents, Later, ListsLater, NEW r, NEW h, HeldInv(r, h), HeldLists(h)
  PROVE  HeldLists(h)'
<1>1. ASSUME h.step \in PairStep PROVE Behind(h.loaded, h.source)'
  BY <1>1, BehindLasts DEF HeldInv, HeldLists
<1>2. ASSUME h.step \in MergeStep PROVE Behind(h.s, h.source)' /\ Behind(h.t, h.target)'
  BY <1>2, BehindLasts DEF HeldInv, HeldLists
<1>3. ASSUME h.step = "link" PROVE Behind(h.loaded, h.incident)'
  BY <1>3, BehindLasts DEF HeldInv, HeldLists
<1>4. ASSUME h.step = "attach"
      PROVE  h.copy.service \in ToSet(incidents'[h.incident].services)
  BY <1>4 DEF HeldInv, HeldLists, ListsLater
<1>5. ASSUME h.step = "count" PROVE h.loaded.service = alerts'[h.alert].service
  BY <1>5 DEF HeldInv, HeldLists, ListsLater
<1>6. ASSUME h.step \in AlertStepName PROVE h.copy.service = alerts'[h.alert].service
  BY <1>6 DEF HeldInv, HeldLists, ListsLater
<1>7. /\ h.step \in PairStep => TaggedLate(h.loaded)
      /\ h.step \in MergeStep => TaggedLate(h.s)
  BY DEF HeldLists
<1> QED  BY <1>1, <1>2, <1>3, <1>4, <1>5, <1>6, <1>7 DEF HeldLists

\* A save in flight stays one that adds to the list of its version.
LEMMA ListBaseLasts ==
  ASSUME SoundIncidents, Later, ListsLater, NEW r, NEW c, WriteInv(r, c), ListBase(c)
  PROVE  ListBase(c)'
<1>1. /\ c.doc \in DOMAIN incidents /\ c.where \in Int
      /\ incidents[c.doc].ver \in Nat /\ incidents'[c.doc].ver \in Nat
      /\ c.where <= incidents[c.doc].ver /\ incidents[c.doc].ver <= incidents'[c.doc].ver
  BY DEF WriteInv, IsCommand, WriteBase, AnyVersion, SoundIncidents, IsDoc, Later
<1>2. c.where = incidents'[c.doc].ver =>
        c.where = incidents[c.doc].ver /\ incidents'[c.doc].ver = incidents[c.doc].ver
  BY <1>1
<1> QED  BY <1>1, <1>2 DEF ListBase, ListsLater

\* The alert is linked as it was.
Keeps(a) == /\ a \in DOMAIN alerts
            /\ alerts'[a].incidentId = alerts[a].incidentId
            /\ alerts'[a].service = alerts[a].service

\* The invariant holds after a step in which every alert is linked as it was or
\* covered, and no save is lost unless a call fails.
LEMMA CoverKept ==
  ASSUME CorrelationInv, CoverInv, Later, ListsLater,
         \A i \in DOMAIN incidents' : TaggedLate(incidents'[i]),
         \A q \in Request : \A c \in writes'[q] : c \in writes[q] \/ ListBase(c)',
         \A q \in Request : pc'[q] = "working" =>
           (pc[q] = "working" /\ held'[q] = held[q]) \/ HeldLists(held[q])',
         Broken => Broken',
         \A q \in Request : \A c \in writes[q] :
           \/ c \in writes'[q] \/ Broken'
           \/ "services" \in DOMAIN c.set => incidents'[c.doc].services = c.set.services,
         Broken' \/ \A a \in DOMAIN alerts' : Keeps(a) \/ Covered(a)'
  PROVE  CoverInv'
<1>0. SoundIncidents
  BY DEF CorrelationInv
<1>1. ASSUME NEW q \in Request, NEW c \in writes'[q] PROVE ListBase(c)'
  <2>1. CASE c \in writes[q]
    <3>1. WriteInv(q, c) /\ ListBase(c)
      BY <2>1 DEF CorrelationInv, CoverInv
    <3> QED  BY <1>0, <3>1, ListBaseLasts
  <2> QED  BY <1>1, <2>1
<1>2. ASSUME NEW q \in Request, pc'[q] = "working" PROVE HeldLists(held[q])'
  <2>1. CASE pc[q] = "working" /\ held'[q] = held[q]
    <3> PICK h : h = held[q]
      OBVIOUS
    <3>1. HeldInv(q, h) /\ HeldLists(h) /\ held'[q] = h
      BY <2>1 DEF CorrelationInv, CoverInv
    <3>2. HeldLists(h)'
      BY <1>0, <3>1, HeldListsLast
    <3> QED  BY <3>1, <3>2
  <2> QED  BY <1>2, <2>1
<1>3. Broken' \/ \A a \in DOMAIN alerts' : Covered(a)'
  <2> SUFFICES ASSUME ~Broken', NEW a \in DOMAIN alerts', Keeps(a) PROVE Covered(a)'
    OBVIOUS
  <2> PICK i : i = alerts[a].incidentId
    OBVIOUS
  <2> PICK s : s = alerts[a].service
    OBVIOUS
  <2>1. /\ a \in DOMAIN alerts /\ Covered(a) /\ alerts'[a].incidentId = i /\ alerts'[a].service = s
    BY DEF Keeps, CoverInv
  <2>2. i # None => i \in DOMAIN incidents
    BY <2>1 DEF CorrelationInv, AlertsInv, IsAlert
  <2>3. ASSUME i # None, s \in ToSet(incidents[i].services)
        PROVE  s \in ToSet(incidents'[i].services)
    BY <2>2, <2>3 DEF ListsLater
  <2>4. ASSUME i # None, Brings(i, s)
        PROVE  s \in ToSet(incidents'[i].services) \/ Brings(i, s)'
    <3>0. PICK q \in Request : \E c \in writes[q] :
            c.doc = i /\ "services" \in DOMAIN c.set /\ s \in ToSet(c.set.services)
      BY <2>4 DEF Brings
    <3>1. PICK c \in writes[q] :
            c.doc = i /\ "services" \in DOMAIN c.set /\ s \in ToSet(c.set.services)
      BY <3>0
    <3>2. CASE c \in writes'[q]
      BY <3>1, <3>2 DEF Brings
    <3>3. CASE incidents'[c.doc].services = c.set.services
      BY <3>1, <3>3
    <3> QED  BY <3>1, <3>2, <3>3
  <2> QED  BY <2>1, <2>3, <2>4 DEF Covered
<1> QED  BY <1>1, <1>2, <1>3 DEF CoverInv

\* A handler that has failed, or will, is not made good by another.
LEMMA BrokenStays ==
  ASSUME CorrelationInv, Later, Broken,
         \A q \in Request : pc[q] = "failed" => pc'[q] = "failed",
         \A q \in Request : \A c \in writes[q] : c \in writes'[q] \/ pc'[q] = "failed"
  PROVE  Broken'
<1>1. CASE Failed
  BY <1>1 DEF Failed, Broken
<1>2. CASE Doomed
  <2>0. PICK q \in Request : \E c \in writes[q] :
          c.where # AnyVersion /\ c.where < incidents[c.doc].ver
    BY <1>2 DEF Doomed
  <2>1. PICK c \in writes[q] :
          c.where # AnyVersion /\ c.where < incidents[c.doc].ver
    BY <2>0
  <2>2. /\ c.doc \in DOMAIN incidents /\ c.where \in Int
        /\ incidents[c.doc].ver \in Nat /\ incidents'[c.doc].ver \in Nat
        /\ incidents[c.doc].ver <= incidents'[c.doc].ver
    BY DEF CorrelationInv, WriteInv, IsCommand, AnyVersion, SoundIncidents, IsDoc, Later
  <2>3. c.where < incidents'[c.doc].ver
    BY <2>1, <2>2
  <2> QED  BY <2>1, <2>3 DEF Broken, Doomed, Failed
<1>3. CASE Clash
  <2>0. PICK r \in Request, q \in Request : \E c \in writes[r], b \in writes[q] :
          /\ r # q /\ c.doc = b.doc
          /\ c.where # AnyVersion /\ b.where # AnyVersion
    BY <1>3 DEF Clash
  <2>1. PICK c \in writes[r], b \in writes[q] :
          /\ r # q /\ c.doc = b.doc
          /\ c.where # AnyVersion /\ b.where # AnyVersion
    BY <2>0
  <2> QED  BY <2>1 DEF Broken, Clash, Failed
<1> QED  BY <1>1, <1>2, <1>3 DEF Broken

\* The step of a handler that changes no incident.
LEMMA CoverSame ==
  ASSUME CorrelationInv, CoverInv, NEW r \in Request, Alone(r), UNCHANGED incidents,
         AlertsStay, \A a \in DOMAIN alerts : alerts'[a].service = alerts[a].service,
         pc[r] # "failed", writes[r] = {},
         \A c \in writes'[r] : ListBase(c),
         pc'[r] = "working" => HeldLists(held[r])',
         Broken' \/ \A a \in DOMAIN alerts' : Keeps(a) \/ Covered(a)'
  PROVE  CoverInv'
<1>1. Later
  BY SameIncidents DEF Alone
<1>2. ListsLater
  BY DEF ListsLater
<1>3. \A i \in DOMAIN incidents' : TaggedLate(incidents'[i])
  BY DEF CoverInv
<1>4. ASSUME NEW q \in Request, NEW c \in writes'[q] PROVE c \in writes[q] \/ ListBase(c)'
  <2>1. CASE q = r
    BY <1>4, <2>1 DEF ListBase
  <2>2. CASE q # r
    BY <1>4, <2>2 DEF Alone
  <2> QED  BY <2>1, <2>2
<1>5. ASSUME NEW q \in Request, pc'[q] = "working"
      PROVE  (pc[q] = "working" /\ held'[q] = held[q]) \/ HeldLists(held[q])'
  <2>1. CASE q = r
    BY <1>5, <2>1
  <2>2. CASE q # r
    BY <1>5, <2>2 DEF Alone
  <2> QED  BY <2>1, <2>2
<1>6. \A q \in Request : \A c \in writes[q] : c \in writes'[q] \/ pc'[q] = "failed"
  BY DEF Alone
<1>7. \A q \in Request : pc[q] = "failed" => pc'[q] = "failed"
  BY DEF Alone
<1>8. Broken => Broken'
  BY <1>1, <1>6, <1>7, BrokenStays
<1>9. \A q \in Request : \A c \in writes[q] :
        \/ c \in writes'[q] \/ Broken'
        \/ "services" \in DOMAIN c.set => incidents'[c.doc].services = c.set.services
  BY DEF Alone
<1> QED  BY <1>1, <1>2, <1>3, <1>4, <1>5, <1>8, <1>9, CoverKept

\* A handler that sends saves that add to the lists.
LEMMA SendCover ==
  ASSUME CorrelationInv, CoverInv, NEW r \in Request, NEW commands, Send(r, commands),
         pc[r] \in {"idle", "working"}, UNCHANGED incidents, AlertsStay,
         \A a \in DOMAIN alerts : alerts'[a].service = alerts[a].service,
         \A c \in commands : ListBase(c),
         Broken' \/ \A a \in DOMAIN alerts' : Keeps(a) \/ Covered(a)'
  PROVE  CoverInv'
<1>1. /\ Alone(r) /\ writes'[r] \subseteq commands /\ pc'[r] \in {"saving", "written"}
  BY SendAlone DEF CorrelationInv
<1>2. writes[r] = {}
  BY DEF CorrelationInv, SavesAwaited
<1>3. \A c \in writes'[r] : ListBase(c)
  BY <1>1
<1> QED  BY <1>1, <1>2, <1>3, CoverSame

\* A handler that ends with nothing in flight.
LEMMA ReturnCover ==
  ASSUME CorrelationInv, CoverInv, NEW r \in Request, NEW answer \in Ended,
         Return(r, answer), pc[r] # "failed", writes[r] = {}, UNCHANGED incidents, AlertsStay,
         \A a \in DOMAIN alerts : alerts'[a].service = alerts[a].service,
         \A a \in DOMAIN alerts' : Keeps(a) \/ Covered(a)'
  PROVE  CoverInv'
<1>1. Alone(r) /\ writes' = writes /\ pc'[r] \in Ended
  BY ReturnAlone DEF CorrelationInv
<1>2. pc'[r] # "working" /\ writes'[r] = {}
  BY <1>1 DEF Ended
<1> QED  BY <1>1, <1>2, CoverSame

\* A handler that awaits its next call.
LEMMA AwaitCover ==
  ASSUME CorrelationInv, CoverInv, NEW r \in Request, NEW h, Await(r, h),
         pc[r] \in {"idle", "working"}, HeldLists(h)', UNCHANGED incidents, AlertsStay,
         \A a \in DOMAIN alerts : alerts'[a].service = alerts[a].service,
         \A a \in DOMAIN alerts' : Keeps(a) \/ Covered(a)'
  PROVE  CoverInv'
<1>1. Alone(r) /\ writes' = writes /\ pc'[r] = "working" /\ held'[r] = h
  BY AwaitAlone DEF CorrelationInv
<1>2. writes[r] = {} /\ writes'[r] = {}
  BY <1>1 DEF CorrelationInv, SavesAwaited
<1>3. HeldLists(held[r])'
  BY <1>1
<1> QED  BY <1>1, <1>2, <1>3, CoverSame

\* The same, of a handler that touches no alert.
LEMMA NoAlertKept ==
  ASSUME CorrelationInv, UNCHANGED alerts
  PROVE  /\ AlertsStay /\ \A a \in DOMAIN alerts : alerts'[a].service = alerts[a].service
         /\ \A a \in DOMAIN alerts' : Keeps(a)
BY AlertsUnchanged DEF Keeps

\* What a save says of the fields that are not links.
LEMMA SaveSends ==
  ASSUME NEW i, NEW d, NEW w, NEW c, NEW assigned, IsSave(c, i, d, w, assigned)
  PROVE  /\ c.doc = i
         /\ \A f \in {"services", "status", "tags"} :
              /\ f \in DOMAIN c.set <=> w[f] # d[f]
              /\ f \in DOMAIN c.set => c.set[f] = w[f]
         /\ "mergedInto" \in DOMAIN c.set <=> w.mergedInto # d.mergedInto
         /\ "services" \in DOMAIN c.set => c.where = d.ver
         /\ "tags" \in DOMAIN c.set => c.where = d.ver
BY FieldFacts DEF IsSave

\* A save of a copy adds to the list of the version it demands; a copy that is
\* tagged is resolved with it.
LEMMA SaveListed ==
  ASSUME NEW r, NEW i, NEW d, NEW w, NEW c, NEW assigned \in BOOLEAN,
         IsSave(c, i, d, w, assigned), IsCopy(r, i, d), Behind(d, i),
         ToSet(d.services) \subseteq ToSet(w.services),
         \/ w.status = d.status /\ w.tags = d.tags /\ w.mergedInto = d.mergedInto
         \/ /\ w.status = Resolved /\ d.status # Resolved
            /\ w.tags # d.tags /\ d.mergedInto = None
  PROVE  ListBase(c)
<1>1. /\ c.doc = i
      /\ \A f \in {"services", "status", "tags"} :
           /\ f \in DOMAIN c.set <=> w[f] # d[f]
           /\ f \in DOMAIN c.set => c.set[f] = w[f]
      /\ "mergedInto" \in DOMAIN c.set <=> w.mergedInto # d.mergedInto
      /\ "services" \in DOMAIN c.set => c.where = d.ver
      /\ "tags" \in DOMAIN c.set => c.where = d.ver
  BY SaveSends
<1>2. d.ver # AnyVersion
  BY DEF IsCopy, IsDoc, AnyVersion
<1> QED  BY <1>1, <1>2 DEF ListBase, Behind

\* A field that is not a list.
LEMMA FieldListed ==
  ASSUME NEW r, NEW i, NEW d, IsCopy(r, i, d), Behind(d, i),
         NEW f \in {"severity", "assignee"}, NEW x \in FieldType[f]
  PROVE  ListBase(Saves(i, d, [d EXCEPT ![f] = x]))
<1> DEFINE w == [d EXCEPT ![f] = x]
<1>1. IsDoc(d) /\ f \in Field
  BY FieldFacts DEF IsCopy
<1>2. IsDoc(w) /\ w.ver = d.ver
  BY <1>1, ExceptType
<1>3. /\ w.status = d.status /\ w.tags = d.tags /\ w.services = d.services
      /\ w.mergedInto = d.mergedInto
  BY <1>1, FieldFacts DEF IsDoc
<1> HIDE DEF w
<1>4. IsSave(Saves(i, d, w), i, d, w, FALSE)
  BY <1>1, <1>2, SaveFacts
<1>5. ListBase(Saves(i, d, w))
  BY <1>3, <1>4, SaveListed
<1> QED  BY <1>5 DEF w

\* The list of links alone.
LEMMA LinksListed ==
  ASSUME CorrelationInv, NEW r, NEW i, NEW d, IsCopy(r, i, d), Behind(d, i),
         NEW S \in SUBSET Incident
  PROVE  ListBase(Saves(i, d, [d EXCEPT !.related = S]))
<1> DEFINE w == [d EXCEPT !["related"] = S]
<1>1. IsDoc(d) /\ "related" \in Field /\ S \in FieldType["related"]
  BY FieldFacts DEF IsCopy
<1>2. IsDoc(w) /\ w.ver = d.ver
  BY <1>1, ExceptType
<1>3. /\ w.status = d.status /\ w.tags = d.tags /\ w.services = d.services
      /\ w.mergedInto = d.mergedInto
  BY <1>1, FieldFacts DEF IsDoc
<1> HIDE DEF w
<1>4. IsSave(Saves(i, d, w), i, d, w, FALSE)
  BY <1>1, <1>2, SaveFacts
<1>5. ListBase(Saves(i, d, w))
  BY <1>3, <1>4, SaveListed
<1> QED  BY <1>5 DEF w

\* What a handler loads.
LEMMA LoadedLists ==
  ASSUME CoverInv, NEW i \in DOMAIN incidents
  PROVE  Behind(incidents[i], i) /\ TaggedLate(incidents[i])
BY DEF Behind, CoverInv

\* A handler goes on with what it held and has loaded.
LEMMA HoldsCover ==
  ASSUME CorrelationInv, CoverInv, NEW r \in Request, pc[r] \in {"idle", "working"}, NEW h,
         Await(r, h), HeldInv(r, h), HeldLists(h), UNCHANGED <<incidents, alerts>>
  PROVE  CoverInv'
<1>1. AlertsStay /\ (\A a \in DOMAIN alerts : alerts'[a].service = alerts[a].service)
      /\ (\A a \in DOMAIN alerts' : Keeps(a))
  BY NoAlertKept
<1>2. Later
  BY <1>1, SameIncidents, AwaitAlone DEF Alone, CorrelationInv
<1>3. ListsLater /\ SoundIncidents
  BY DEF ListsLater, CorrelationInv
<1>4. HeldLists(h)'
  BY <1>2, <1>3, HeldListsLast
<1> QED  BY <1>1, <1>4, AwaitCover

\* A document is added.
LEMMA AddCover ==
  ASSUME CorrelationInv, CoverInv, NEW r \in Request, Alone(r), NEW i, NEW d,
         Adds(i, d), IsDoc(d), d.status = "OPEN", d.resolvedAt = None, d.tags = {},
         d.mergedInto = None, UNCHANGED alerts, pc[r] # "failed", writes[r] = {}, writes'[r] = {},
         pc'[r] = "working" => HeldLists(held[r])'
  PROVE  CoverInv'
<1>1. Started \subseteq Started' /\ AlertsStay
  BY AlertsUnchanged DEF Alone
<1>2. /\ Later /\ DOMAIN incidents' = DOMAIN incidents \cup {i} /\ incidents'[i] = d
      /\ \A j \in DOMAIN incidents : incidents'[j] = incidents[j]
  BY <1>1, AddFacts
<1>3. ListsLater /\ \A a \in DOMAIN alerts' : Keeps(a)
  BY <1>2 DEF ListsLater, Keeps
<1>4. \A j \in DOMAIN incidents' : TaggedLate(incidents'[j])
  BY <1>2 DEF CoverInv, TaggedLate
<1>5. \A q \in Request : writes'[q] = writes[q] /\ (pc[q] = "failed" => pc'[q] = "failed")
  BY DEF Alone
<1>6. Broken => Broken'
  BY <1>2, <1>5, BrokenStays
<1>7. \A q \in Request : pc'[q] = "working" =>
        (pc[q] = "working" /\ held'[q] = held[q]) \/ HeldLists(held[q])'
  <2>1. ASSUME NEW q \in Request, pc'[q] = "working"
        PROVE  (pc[q] = "working" /\ held'[q] = held[q]) \/ HeldLists(held[q])'
    <3>1. CASE q = r
      BY <2>1, <3>1
    <3>2. CASE q # r
      BY <2>1, <3>2 DEF Alone
    <3> QED  BY <3>1, <3>2
  <2> QED  BY <2>1
<1> QED  BY <1>2, <1>3, <1>4, <1>5, <1>6, <1>7, CoverKept

\* A handler of Incidents that begins: create() inserts, the status and the body
\* of update() are excluded, the rest reads.
LEMMA BeginCover ==
  ASSUME CorrelationInv, CoverInv, Endpoint \cap {"status", "update"} = {},
         NEW r \in Request, Begin(r), UNCHANGED <<alerts, aged>>
  PROVE  CoverInv'
<1>0. pc[r] = "idle" /\ writes[r] = {} /\ AlertsStay
      /\ (\A a \in DOMAIN alerts : alerts'[a].service = alerts[a].service)
      /\ (\A a \in DOMAIN alerts' : Keeps(a))
  BY NoAlertKept DEF Begin, Starts, Create, ChangeStatus, ChangeSeverity, Assign, Update,
     ReadFirst, CorrelationInv, SavesAwaited
<1>1. ASSUME NEW i \in Incident, NEW sev \in Severity, NEW sv \in ServiceList,
             NEW a \in User \cup {None}, Create(r, i, sev, sv, a)
      PROVE  CoverInv'
  <2> PICK d : d = NewIncident(sev, sv, a)
    OBVIOUS
  <2>1. IsDoc(d) /\ d.status = "OPEN" /\ d.resolvedAt = None
    BY NewIncidentType, NewIncidentFacts
  <2>2. d.tags = {} /\ d.mergedInto = None
    BY DEF NewIncident
  <2>3. /\ Adds(i, d) /\ pc' = [pc EXCEPT ![r] = "written"]
        /\ held' = held /\ writes' = writes
    BY <1>1 DEF Create, Adds
  <2>4. Alone(r) /\ pc'[r] = "written"
    BY <2>3 DEF Alone, ShapeInv, CorrelationInv, Started
  <2> QED  BY <1>0, <2>1, <2>2, <2>3, <2>4, AddCover
<1>2. ASSUME NEW i \in DOMAIN incidents, NEW f \in {"severity", "assignee"},
             NEW x \in FieldType[f], NEW answer \in Ended, UNCHANGED incidents,
             \/ Return(r, answer)
             \/ Send(r, {Saves(i, incidents[i], [incidents[i] EXCEPT ![f] = x])})
      PROVE  CoverInv'
  <2> DEFINE c == Saves(i, incidents[i], [incidents[i] EXCEPT ![f] = x])
  <2>1. ListBase(c)
    BY <1>0, LoadedIsCopy, LoadedLists, FieldListed
  <2> HIDE DEF c
  <2>2. \A e \in {c} : ListBase(e)
    BY <2>1
  <2>3. CASE Return(r, answer)
    BY <1>0, <1>2, <2>3, ReturnCover
  <2>4. CASE Send(r, {c})
    BY <1>0, <1>2, <2>2, <2>4, SendCover
  <2> QED  BY <1>2, <2>3, <2>4 DEF c
<1>3. ASSUME NEW i \in DOMAIN incidents, NEW sev \in Severity, ChangeSeverity(r, i, sev)
      PROVE  CoverInv'
  <2>1. /\ UNCHANGED incidents
        /\ \/ Return(r, "done")
           \/ Send(r, {Saves(i, incidents[i], [incidents[i] EXCEPT !["severity"] = sev])})
    BY <1>3 DEF ChangeSeverity
  <2> QED  BY <1>2, <2>1, FieldFacts DEF Ended
<1>4. ASSUME NEW i \in DOMAIN incidents, NEW a \in User \cup {None}, Assign(r, i, a)
      PROVE  CoverInv'
  <2>1. /\ UNCHANGED incidents
        /\ \/ Return(r, "refused")
           \/ Send(r, {Saves(i, incidents[i], [incidents[i] EXCEPT !["assignee"] = a])})
    BY <1>4 DEF Assign
  <2> QED  BY <1>2, <2>1, FieldFacts DEF Ended
<1>5. ASSUME NEW i \in DOMAIN incidents, NEW j \in DOMAIN incidents,
             NEW e \in {"relate", "unrelate"}, ReadFirst(r, e, i, j)
      PROVE  CoverInv'
  <2> PICK d : d = incidents[i]
    OBVIOUS
  <2> PICK h : h = [step |-> e, source |-> i, loaded |-> d, target |-> j]
    OBVIOUS
  <2>1. UNCHANGED incidents /\ Await(r, h)
    BY <1>5 DEF ReadFirst
  <2>2. IsCopy(r, i, d) /\ Behind(d, i) /\ TaggedLate(d)
    BY <1>0, LoadedIsCopy, LoadedLists
  <2>3. h.step = e /\ h.source = i /\ h.loaded = d /\ h.target = j
    OBVIOUS
  <2>4. HeldInv(r, h)
    BY <2>2, <2>3 DEF HeldInv, PairStep, MergeStep, AlertStepName
  <2>5. HeldLists(h)
    BY <2>2, <2>3 DEF HeldLists, PairStep, MergeStep, AlertStepName
  <2> QED  BY <1>0, <2>1, <2>4, <2>5, HoldsCover
<1>6. ASSUME NEW i \in DOMAIN incidents
      PROVE  /\ \A s \in Status : ~ChangeStatus(r, i, s)
             /\ \A b \in Body : ~Update(r, i, b)
  BY DEF ChangeStatus, Update, Starts
<1> QED  BY <1>1, <1>3, <1>4, <1>5, <1>6 DEF Begin

\* merge loads its source.
LEMMA ReadSourceCover ==
  ASSUME CorrelationInv, CoverInv, NEW r \in Request,
         NEW i \in DOMAIN incidents, NEW j \in DOMAIN incidents, ReadFirst(r, "merge", i, j),
         UNCHANGED <<alerts, aged>>
  PROVE  CoverInv'
<1> PICK d : d = incidents[i]
  OBVIOUS
<1> PICK h : h = [step |-> "merge", source |-> i, loaded |-> d, target |-> j]
  OBVIOUS
<1>1. pc[r] = "idle" /\ UNCHANGED incidents /\ Await(r, h)
  BY DEF ReadFirst, Starts
<1>2. IsCopy(r, i, d) /\ Behind(d, i) /\ TaggedLate(d)
  BY <1>1, LoadedIsCopy, LoadedLists
<1>3. h.step = "merge" /\ h.source = i /\ h.loaded = d /\ h.target = j
  OBVIOUS
<1>4. HeldInv(r, h)
  BY <1>2, <1>3 DEF HeldInv, PairStep, MergeStep, AlertStepName
<1>5. HeldLists(h)
  BY <1>2, <1>3 DEF HeldLists, PairStep, MergeStep, AlertStepName
<1> QED  BY <1>1, <1>4, <1>5, HoldsCover

\* addRelated() and removeRelated() write links alone.
LEMMA PairCover ==
  ASSUME CorrelationInv, CoverInv, NEW r \in Request,
         Relate(r) \/ Unrelate(r), UNCHANGED <<alerts, aged>>
  PROVE  CoverInv'
<1> PICK h : h = held[r]
  OBVIOUS
<1> PICK t : t = incidents[h.target]
  OBVIOUS
<1>1. /\ pc[r] = "working" /\ UNCHANGED incidents /\ AlertsStay /\ writes[r] = {}
      /\ (\A a \in DOMAIN alerts : alerts'[a].service = alerts[a].service)
      /\ (\A a \in DOMAIN alerts' : Keeps(a))
  BY NoAlertKept DEF Relate, Unrelate, At, CorrelationInv, SavesAwaited
<1>2. IsCopy(r, h.source, h.loaded) /\ h.target \in DOMAIN incidents /\ Behind(h.loaded, h.source)
  BY <1>1 DEF Relate, Unrelate, At, CorrelationInv, HeldInv, CoverInv, HeldLists, PairStep
<1>3. IsCopy(r, h.target, t) /\ Behind(t, h.target)
  BY <1>1, <1>2, LoadedIsCopy, LoadedLists
<1>4. /\ h.loaded.related \in SUBSET Incident /\ t.related \in SUBSET Incident
      /\ h.source \in Incident /\ h.target \in Incident
  BY <1>2, <1>3, FieldFacts DEF IsCopy, IsDoc, CorrelationInv, SoundIncidents
<1>5. ASSUME NEW S \in SUBSET Incident, NEW T \in SUBSET Incident,
             Send(r, {Saves(h.source, h.loaded, [h.loaded EXCEPT !.related = S]),
                      Saves(h.target, t, [t EXCEPT !.related = T])})
      PROVE  CoverInv'
  <2> DEFINE c == Saves(h.source, h.loaded, [h.loaded EXCEPT !.related = S])
             b == Saves(h.target, t, [t EXCEPT !.related = T])
  <2>1. ListBase(c) /\ ListBase(b)
    BY <1>2, <1>3, LinksListed
  <2>2. Send(r, {c, b})
    BY <1>5
  <2> HIDE DEF c, b
  <2>3. \A e \in {c, b} : ListBase(e)
    BY <2>1
  <2> QED  BY <1>1, <2>2, <2>3, SendCover
<1>6. CASE Return(r, "refused")
  BY <1>1, <1>6, ReturnCover DEF Ended
<1>7. CASE Relate(r)
  <2> PICK S : S = h.loaded.related \cup {h.target}
    OBVIOUS
  <2> PICK T : T = t.related \cup {h.source}
    OBVIOUS
  <2>1. \/ Return(r, "refused")
        \/ Send(r, {Saves(h.source, h.loaded, [h.loaded EXCEPT !.related = S]),
                    Saves(h.target, t, [t EXCEPT !.related = T])})
    BY <1>7 DEF Relate
  <2>2. S \in SUBSET Incident /\ T \in SUBSET Incident
    BY <1>4
  <2>3. CASE Send(r, {Saves(h.source, h.loaded, [h.loaded EXCEPT !.related = S]),
                      Saves(h.target, t, [t EXCEPT !.related = T])})
    BY <1>5, <2>2, <2>3
  <2> QED  BY <1>6, <2>1, <2>3
<1>8. CASE Unrelate(r)
  <2> PICK S : S = h.loaded.related \ {h.target}
    OBVIOUS
  <2> PICK T : T = t.related \ {h.source}
    OBVIOUS
  <2>1. Send(r, {Saves(h.source, h.loaded, [h.loaded EXCEPT !.related = S]),
                 Saves(h.target, t, [t EXCEPT !.related = T])})
    BY <1>8 DEF Unrelate
  <2>2. S \in SUBSET Incident /\ T \in SUBSET Incident
    BY <1>4
  <2> QED  BY <1>5, <2>1, <2>2
<1> QED  BY <1>7, <1>8

\* Alerts that absorb a repetition, or are linked or unlinked, keep their service.
LEMMA StoreKeeps ==
  ASSUME CorrelationInv, NEW a \in DOMAIN alerts, NEW x, NEW y,
         IsAlert(x), IsAlert(y), StoreAlert(a, x, y), y.service = x.service
  PROVE  /\ AlertsStay
         /\ \A b \in DOMAIN alerts : alerts'[b].service = alerts[b].service
         /\ \A b \in DOMAIN alerts' : b # a => Keeps(b)
         /\ y.incidentId = x.incidentId => Keeps(a)
         /\ Keeps(a) \/ alerts'[a].incidentId = y.incidentId
<1>1. /\ AlertsStay /\ DOMAIN alerts' = DOMAIN alerts
      /\ \A b \in DOMAIN alerts : b # a => alerts'[b] = alerts[b]
      /\ \A f \in AlertField :
           alerts'[a][f] = IF y[f] # x[f] THEN y[f] ELSE alerts[a][f]
  BY StoreFacts
<1>2. /\ alerts'[a].service = alerts[a].service
      /\ alerts'[a].incidentId = IF y.incidentId # x.incidentId THEN y.incidentId
                                                               ELSE alerts[a].incidentId
  BY <1>1 DEF AlertField
<1> QED  BY <1>1, <1>2 DEF Keeps

\* ingest() links no alert.
LEMMA IngestCover ==
  ASSUME CorrelationInv, CoverInv, NEW r \in Request, NEW p \in Report, Ingest(r, p)
  PROVE  CoverInv'
<1>1. /\ pc[r] = "idle" /\ UNCHANGED <<incidents, alerts>> /\ AlertsStay
      /\ (\A a \in DOMAIN alerts : alerts'[a].service = alerts[a].service)
      /\ (\A a \in DOMAIN alerts' : Keeps(a))
  BY NoAlertKept DEF Ingest, Starts
<1>2. ASSUME NEW a \in Absorbing(p),
             Await(r, [step |-> "count", alert |-> a, loaded |-> alerts[a],
                       wanted |-> Repeated(alerts[a], p)])
      PROVE  CoverInv'
  <2> PICK x : x = alerts[a]
    OBVIOUS
  <2> PICK y : y = Repeated(x, p)
    OBVIOUS
  <2> PICK h : h = [step |-> "count", alert |-> a, loaded |-> x, wanted |-> y]
    OBVIOUS
  <2>1. Await(r, h)
    BY <1>2
  <2>2. h.step = "count" /\ h.alert = a /\ h.loaded = x /\ alerts'[a] = x
    BY <1>1
  <2>3. HeldLists(h)'
    BY <2>2 DEF HeldLists, PairStep, MergeStep, AlertStepName
  <2> QED  BY <1>1, <2>1, <2>3, AwaitCover
<1>3. CASE Await(r, [step |-> "insert", wanted |-> NewAlert(p)])
  <2> PICK h : h = [step |-> "insert", wanted |-> NewAlert(p)]
    OBVIOUS
  <2>1. Await(r, h)
    BY <1>3
  <2>2. HeldLists(h)'
    BY DEF HeldLists, PairStep, MergeStep, AlertStepName
  <2> QED  BY <1>1, <2>1, <2>2, AwaitCover
<1> QED  BY <1>2, <1>3 DEF Ingest

\* The save of a repeated alert leaves its link and its service.
LEMMA CountRepetitionCover ==
  ASSUME CorrelationInv, CoverInv, NEW r \in Request, CountRepetition(r)
  PROVE  CoverInv'
<1> PICK h : h = held[r]
  OBVIOUS
<1>1. /\ pc[r] = "working" /\ UNCHANGED incidents /\ writes[r] = {}
      /\ StoreAlert(h.alert, h.loaded, h.wanted)
      /\ h.alert \in DOMAIN alerts /\ IsAlert(h.loaded) /\ IsAlert(h.wanted)
      /\ h.wanted.service = h.loaded.service /\ h.wanted.incidentId = h.loaded.incidentId
  BY DEF CountRepetition, At, CorrelationInv, SavesAwaited, HeldInv
<1>2. /\ AlertsStay
      /\ \A b \in DOMAIN alerts : alerts'[b].service = alerts[b].service
      /\ \A b \in DOMAIN alerts' : Keeps(b)
  BY <1>1, StoreKeeps
<1>3. CASE Return(r, "done")
  BY <1>1, <1>2, <1>3, ReturnCover DEF Ended
<1>4. CASE ~Return(r, "done")
  <2> PICK n : n = [step |-> "escalate", incident |-> h.loaded.incidentId,
                    severity |-> h.wanted.severity]
    OBVIOUS
  <2>1. Await(r, n)
    BY <1>4 DEF CountRepetition
  <2>2. n.step = "escalate"
    OBVIOUS
  <2>3. HeldLists(n)'
    BY <2>2 DEF HeldLists, PairStep, MergeStep, AlertStepName
  <2> QED  BY <1>1, <1>2, <2>1, <2>3, AwaitCover
<1> QED  BY <1>3, <1>4

\* The escalation writes a severity alone.
LEMMA EscalateCover ==
  ASSUME CorrelationInv, CoverInv, NEW r \in Request, Escalate(r)
  PROVE  CoverInv'
<1> PICK i : i = held[r].incident
  OBVIOUS
<1> PICK s : s = held[r].severity
  OBVIOUS
<1> DEFINE c == Saves(i, incidents[i], [incidents[i] EXCEPT !["severity"] = s])
<1>1. /\ pc[r] = "working" /\ UNCHANGED <<incidents, alerts>> /\ writes[r] = {}
      /\ i \in DOMAIN incidents /\ s \in Severity
      /\ AlertsStay /\ (\A a \in DOMAIN alerts : alerts'[a].service = alerts[a].service)
      /\ (\A a \in DOMAIN alerts' : Keeps(a))
  BY NoAlertKept DEF Escalate, At, CorrelationInv, SavesAwaited, HeldInv
<1>2. Return(r, "done") \/ Send(r, {c})
  BY DEF Escalate
<1>3. ListBase(c)
  BY <1>1, LoadedIsCopy, LoadedLists, FieldListed, FieldFacts
<1> HIDE DEF c
<1>4. \A d \in {c} : ListBase(d)
  BY <1>3
<1>5. CASE Return(r, "done")
  BY <1>1, <1>5, ReturnCover DEF Ended
<1>6. CASE Send(r, {c})
  BY <1>1, <1>4, <1>6, SendCover
<1> QED  BY <1>2, <1>5, <1>6

\* A new alert belongs to no incident.
LEMMA InsertAlertCover ==
  ASSUME CorrelationInv, CoverInv, NEW r \in Request, NEW a \in Alert, InsertAlert(r, a)
  PROVE  CoverInv'
<1> PICK x : x = held[r].wanted
  OBVIOUS
<1> PICK h : h = [step |-> "match", alert |-> a, copy |-> x]
  OBVIOUS
<1>1. /\ pc[r] = "working" /\ UNCHANGED incidents /\ IsAlert(x) /\ x.incidentId = None
      /\ Await(r, h)
      /\ DOMAIN alerts' = DOMAIN alerts \cup {a} /\ a \notin DOMAIN alerts
      /\ alerts' = [b \in DOMAIN alerts' |-> alerts'[b]]
      /\ alerts'[a] = x /\ \A b \in DOMAIN alerts : alerts'[b] = alerts[b]
  BY DEF InsertAlert, At, CorrelationInv, HeldInv
<1>2. AlertsStay /\ \A b \in DOMAIN alerts : alerts'[b].service = alerts[b].service
  BY <1>1 DEF AlertsStay, CorrelationInv, AlertsInv
<1>3. \A b \in DOMAIN alerts' : Keeps(b) \/ Covered(b)'
  BY <1>1 DEF Keeps, Covered
<1>4. h.step = "match" /\ h.alert = a /\ h.copy = x
  OBVIOUS
<1>5. HeldLists(h)'
  BY <1>1, <1>4 DEF HeldLists, PairStep, MergeStep, AlertStepName
<1> QED  BY <1>1, <1>2, <1>3, <1>5, AwaitCover

\* The engine reads the incident and its list together.
LEMMA MatchCover ==
  ASSUME CorrelationInv, CoverInv, NEW r \in Request, Match(r)
  PROVE  CoverInv'
<1> PICK a : a = held[r].alert
  OBVIOUS
<1> PICK x : x = held[r].copy
  OBVIOUS
<1>1. /\ pc[r] = "working" /\ UNCHANGED <<incidents, alerts>>
      /\ a \in DOMAIN alerts /\ x.service = alerts[a].service
      /\ AlertsStay /\ (\A b \in DOMAIN alerts : alerts'[b].service = alerts[b].service)
      /\ (\A b \in DOMAIN alerts' : Keeps(b))
  BY NoAlertKept DEF Match, At, CorrelationInv, HeldInv, CoverInv, HeldLists, AlertStepName
<1>2. ASSUME NEW i \in Attracting(x),
             Await(r, [step |-> "link", alert |-> a, copy |-> x,
                       incident |-> i, loaded |-> incidents[i],
                       severity |-> pickHigherSeverity(x.severity, incidents[i].severity)])
      PROVE  CoverInv'
  <2> PICK e : e = incidents[i]
    OBVIOUS
  <2> PICK s : s = pickHigherSeverity(x.severity, e.severity)
    OBVIOUS
  <2> PICK h : h = [step |-> "link", alert |-> a, copy |-> x, incident |-> i,
                    loaded |-> e, severity |-> s]
    OBVIOUS
  <2>1. Await(r, h)
    BY <1>2
  <2>2. h.step = "link" /\ h.alert = a /\ h.copy = x /\ h.incident = i /\ h.loaded = e
    OBVIOUS
  <2>3. Behind(e, i)'
    BY <1>1 DEF Behind
  <2>4. HeldLists(h)'
    BY <1>1, <2>2, <2>3 DEF HeldLists, PairStep, MergeStep, AlertStepName
  <2> QED  BY <1>1, <2>1, <2>4, AwaitCover
<1>3. CASE Await(r, [step |-> "spawn", alert |-> a, copy |-> x])
  <2> PICK h : h = [step |-> "spawn", alert |-> a, copy |-> x]
    OBVIOUS
  <2>1. h.step = "spawn" /\ h.alert = a /\ h.copy = x /\ Await(r, h)
    BY <1>3
  <2>2. HeldLists(h)'
    BY <1>1, <2>1 DEF HeldLists, PairStep, MergeStep, AlertStepName
  <2> QED  BY <1>1, <2>1, <2>2, AwaitCover
<1>4. \/ \E i \in Attracting(x) :
            Await(r, [step |-> "link", alert |-> a, copy |-> x,
                      incident |-> i, loaded |-> incidents[i],
                      severity |-> pickHigherSeverity(x.severity, incidents[i].severity)])
      \/ Await(r, [step |-> "spawn", alert |-> a, copy |-> x])
  BY DEF Match
<1> QED  BY <1>2, <1>3, <1>4

\* The save that the alert waits for brings its service.
LEMMA LinkAlertCover ==
  ASSUME CorrelationInv, CoverInv, NEW r \in Request, LinkAlert(r)
  PROVE  CoverInv'
<1> PICK h : h = held[r]
  OBVIOUS
<1> PICK a : a = h.alert
  OBVIOUS
<1> PICK i : i = h.incident
  OBVIOUS
<1> PICK d : d = h.loaded
  OBVIOUS
<1> PICK w : w = WithAlert(h)
  OBVIOUS
<1> PICK c : c = Saves(i, d, w)
  OBVIOUS
<1> PICK y : y = Linked(h.copy, i)
  OBVIOUS
<1>1. /\ pc[r] = "working" /\ UNCHANGED incidents
      /\ a \in DOMAIN alerts /\ IsAlert(h.copy)
      /\ IsCopy(r, i, d) /\ h.severity \in Severity
      /\ Behind(d, i) /\ h.copy.service = alerts[a].service
      /\ StoreAlert(a, h.copy, y) /\ writes[r] = {}
      /\ Send(r, {c}) \/ Return(r, "failed")
  BY DEF LinkAlert, At, CorrelationInv, SavesAwaited, HeldInv, CoverInv, HeldLists,
         AlertStepName, WithAlert
<1>2. /\ IsAlert(y) /\ y.incidentId = i /\ y.service = h.copy.service
  BY <1>1, LinkedFacts DEF IsCopy
<1>3. /\ AlertsStay
      /\ \A b \in DOMAIN alerts : alerts'[b].service = alerts[b].service
      /\ \A b \in DOMAIN alerts' : b # a => Keeps(b)
      /\ Keeps(a) \/ alerts'[a].incidentId = i
  BY <1>1, <1>2, StoreKeeps
<1>4. IsSave(c, i, d, w, FALSE)
  BY <1>1, LinkSave
<1>5. /\ w.status = d.status /\ w.tags = d.tags /\ w.mergedInto = d.mergedInto
      /\ ToSet(w.services) = ToSet(d.services) \cup {h.copy.service}
  BY <1>1, WithAlertFacts DEF IsCopy
<1>6. ListBase(c)
  BY <1>1, <1>4, <1>5, SaveListed
<1>7. ASSUME Send(r, {c}) PROVE Keeps(a) \/ Covered(a)'
  <2> SUFFICES ASSUME alerts'[a].incidentId = i PROVE Covered(a)'
    BY <1>3
  <2>1. alerts'[a].service = h.copy.service
    BY <1>1, <1>3
  <2>2. CASE h.copy.service \in ToSet(d.services)
    BY <1>1, <2>1, <2>2 DEF Behind, Covered
  <2>3. CASE h.copy.service \notin ToSet(d.services)
    <3>1. w.services # d.services /\ h.copy.service \in ToSet(w.services)
      BY <1>5, <2>3
    <3>2. c.doc = i /\ "services" \in DOMAIN c.set /\ c.set.services = w.services
      BY <1>4, <3>1, FieldFacts DEF IsSave
    <3>3. c \in writes'[r]
      BY <1>1, <1>7, <3>2, SendAlone DEF CorrelationInv
    <3>4. Brings(i, h.copy.service)'
      BY <3>1, <3>2, <3>3 DEF Brings
    <3> QED  BY <2>1, <3>4 DEF Covered
  <2> QED  BY <2>2, <2>3
<1>8. \A e \in {c} : ListBase(e)
  BY <1>6
<1>9. CASE Send(r, {c})
  <2>1. \A b \in DOMAIN alerts' : Keeps(b) \/ Covered(b)'
    BY <1>3, <1>7, <1>9
  <2> QED  BY <1>1, <1>3, <1>8, <1>9, <2>1, SendCover
<1>10. CASE Return(r, "failed")
  <2>1. Alone(r) /\ writes'[r] = {} /\ pc'[r] = "failed"
    BY <1>1, <1>10, ReturnAlone DEF CorrelationInv, Ended
  <2>2. Broken'
    BY <2>1 DEF Broken, Failed
  <2> QED  BY <1>1, <1>3, <2>1, <2>2, CoverSame
<1> QED  BY <1>1, <1>9, <1>10

\* The incident made for an alert lists its service.
LEMMA SpawnCover ==
  ASSUME CorrelationInv, CoverInv, NEW r \in Request, NEW i \in Incident, Spawn(r, i)
  PROVE  CoverInv'
<1> PICK x : x = held[r].copy
  OBVIOUS
<1> PICK a : a = held[r].alert
  OBVIOUS
<1> PICK d : d = IncidentFor(x)
  OBVIOUS
<1> PICK h : h = [step |-> "attach", alert |-> a, copy |-> x, incident |-> i]
  OBVIOUS
<1>1. /\ pc[r] = "working" /\ UNCHANGED alerts
      /\ a \in DOMAIN alerts /\ IsAlert(x) /\ x.service = alerts[a].service
      /\ Adds(i, d) /\ Await(r, h) /\ writes[r] = {}
  BY DEF Spawn, At, CorrelationInv, SavesAwaited, HeldInv, CoverInv, HeldLists,
         AlertStepName, Adds
<1>2. /\ IsDoc(d) /\ d.status = "OPEN" /\ d.resolvedAt = None /\ d.tags = {}
      /\ d.mergedInto = None /\ ToSet(d.services) = {x.service}
  BY <1>1, IncidentForFacts
<1>3. Alone(r) /\ writes' = writes /\ pc'[r] = "working" /\ held'[r] = h
  BY <1>1, AwaitAlone DEF CorrelationInv
<1>4. h.step = "attach" /\ h.alert = a /\ h.copy = x /\ h.incident = i
  OBVIOUS
<1>5. HeldLists(h)'
  <2>1. incidents'[i] = d
    BY <1>1 DEF Adds
  <2> QED  BY <1>1, <1>2, <1>4, <2>1 DEF HeldLists, PairStep, MergeStep, AlertStepName
<1>6. HeldLists(held[r])' /\ writes'[r] = {} /\ pc[r] # "failed"
  BY <1>1, <1>3, <1>5
<1> QED  BY <1>1, <1>2, <1>3, <1>6, AddCover

\* The alert joins an incident that has listed its service.
LEMMA AttachAlertCover ==
  ASSUME CorrelationInv, CoverInv, NEW r \in Request, AttachAlert(r)
  PROVE  CoverInv'
<1> PICK h : h = held[r]
  OBVIOUS
<1> PICK a : a = h.alert
  OBVIOUS
<1> PICK i : i = h.incident
  OBVIOUS
<1> PICK y : y = Linked(h.copy, i)
  OBVIOUS
<1>1. /\ pc[r] = "working" /\ UNCHANGED incidents /\ Send(r, {})
      /\ a \in DOMAIN alerts /\ IsAlert(h.copy) /\ i \in DOMAIN incidents
      /\ h.copy.service = alerts[a].service
      /\ h.copy.service \in ToSet(incidents[i].services)
      /\ StoreAlert(a, h.copy, y)
  BY DEF AttachAlert, At, CorrelationInv, HeldInv, CoverInv, HeldLists, AlertStepName
<1>2. /\ IsAlert(y) /\ y.incidentId = i /\ y.service = h.copy.service
  BY <1>1, LinkedFacts
<1>3. /\ AlertsStay
      /\ \A b \in DOMAIN alerts : alerts'[b].service = alerts[b].service
      /\ \A b \in DOMAIN alerts' : b # a => Keeps(b)
      /\ Keeps(a) \/ alerts'[a].incidentId = i
  BY <1>1, <1>2, StoreKeeps
<1>4. \A b \in DOMAIN alerts' : Keeps(b) \/ Covered(b)'
  BY <1>1, <1>3 DEF Covered
<1> QED  BY <1>1, <1>3, <1>4, SendCover

\* Reading an alert moves none.
LEMMA ReadAlertCover ==
  ASSUME CorrelationInv, CoverInv, NEW r \in Request, NEW a \in DOMAIN alerts, NEW e, NEW i,
         e \in {"associate", "unassociate"}, ReadAlert(r, e, a, i)
  PROVE  CoverInv'
<1> PICK x : x = alerts[a]
  OBVIOUS
<1> PICK h : h = [step |-> e, alert |-> a, copy |-> x, incident |-> i]
  OBVIOUS
<1>1. /\ pc[r] = "idle" /\ UNCHANGED <<incidents, alerts>> /\ Await(r, h)
      /\ AlertsStay /\ (\A b \in DOMAIN alerts : alerts'[b].service = alerts[b].service)
      /\ (\A b \in DOMAIN alerts' : Keeps(b))
  BY NoAlertKept DEF ReadAlert, Starts
<1>2. h.step = e /\ h.alert = a /\ h.copy = x /\ alerts'[a] = x
  BY <1>1
<1>3. HeldLists(h)'
  BY <1>2 DEF HeldLists, PairStep, MergeStep, AlertStepName
<1> QED  BY <1>1, <1>3, AwaitCover

\* associate() takes a copy of the incident; no alert moves yet.
LEMMA AssociateCover ==
  ASSUME CorrelationInv, CoverInv, NEW r \in Request, Associate(r)
  PROVE  CoverInv'
<1> PICK h : h = held[r]
  OBVIOUS
<1> PICK i : i = h.incident
  OBVIOUS
<1> PICK e : e = incidents[i]
  OBVIOUS
<1> PICK n : n = [step |-> "link", alert |-> h.alert, copy |-> h.copy, incident |-> i,
                  loaded |-> e, severity |-> e.severity]
  OBVIOUS
<1>1. /\ pc[r] = "working" /\ UNCHANGED <<incidents, alerts>> /\ writes[r] = {}
      /\ h.copy.service = alerts[h.alert].service
      /\ AlertsStay /\ (\A b \in DOMAIN alerts : alerts'[b].service = alerts[b].service)
      /\ (\A b \in DOMAIN alerts' : Keeps(b))
  BY NoAlertKept DEF Associate, At, CorrelationInv, SavesAwaited, CoverInv, HeldLists, AlertStepName
<1>2. Return(r, "refused") \/ Await(r, n)
  BY DEF Associate
<1>3. CASE Return(r, "refused")
  BY <1>1, <1>3, ReturnCover DEF Ended
<1>4. CASE Await(r, n)
  <2>1. n.step = "link" /\ n.alert = h.alert /\ n.copy = h.copy /\ n.incident = i /\ n.loaded = e
    OBVIOUS
  <2>2. Behind(e, i)'
    BY <1>1 DEF Behind
  <2>3. HeldLists(n)'
    BY <1>1, <2>1, <2>2 DEF HeldLists, PairStep, MergeStep, AlertStepName
  <2> QED  BY <1>1, <1>4, <2>3, AwaitCover
<1> QED  BY <1>2, <1>3, <1>4

\* An alert taken off its incident needs no cover.
LEMMA UnassociateCover ==
  ASSUME CorrelationInv, CoverInv, NEW r \in Request, Unassociate(r)
  PROVE  CoverInv'
<1> PICK h : h = held[r]
  OBVIOUS
<1> PICK a : a = h.alert
  OBVIOUS
<1> PICK y : y = Linked(h.copy, None)
  OBVIOUS
<1>1. /\ pc[r] = "working" /\ UNCHANGED incidents /\ (Return(r, "done") \/ Send(r, {}))
      /\ writes[r] = {} /\ a \in DOMAIN alerts /\ IsAlert(h.copy)
      /\ StoreAlert(a, h.copy, y)
  BY DEF Unassociate, At, CorrelationInv, SavesAwaited, HeldInv, AlertStepName
<1>2. /\ IsAlert(y) /\ y.incidentId = None /\ y.service = h.copy.service
  BY <1>1, LinkedFacts
<1>3. /\ AlertsStay
      /\ \A b \in DOMAIN alerts : alerts'[b].service = alerts[b].service
      /\ \A b \in DOMAIN alerts' : b # a => Keeps(b)
      /\ Keeps(a) \/ alerts'[a].incidentId = None
  BY <1>1, <1>2, StoreKeeps
<1>4. \A b \in DOMAIN alerts' : Keeps(b) \/ Covered(b)'
  BY <1>3 DEF Covered
<1>5. CASE Return(r, "done")
  BY <1>1, <1>3, <1>4, <1>5, ReturnCover DEF Ended
<1>6. CASE Send(r, {})
  BY <1>1, <1>3, <1>4, <1>6, SendCover
<1> QED  BY <1>1, <1>5, <1>6

\* merge() goes on with the copies it read.
LEMMA MergeGuardsCover ==
  ASSUME CorrelationInv, CoverInv, NEW r \in Request, MergeGuards(r)
  PROVE  CoverInv'
<1> PICK h : h = held[r]
  OBVIOUS
<1> PICK t : t = incidents[h.target]
  OBVIOUS
<1> PICK n : n = [step |-> "collect", source |-> h.source, s |-> h.loaded,
                  target |-> h.target, t |-> t]
  OBVIOUS
<1>1. /\ pc[r] = "working" /\ UNCHANGED <<incidents, alerts>> /\ writes[r] = {}
      /\ Behind(h.loaded, h.source) /\ TaggedLate(h.loaded)
      /\ AlertsStay /\ (\A b \in DOMAIN alerts : alerts'[b].service = alerts[b].service)
      /\ (\A b \in DOMAIN alerts' : Keeps(b))
  BY NoAlertKept DEF MergeGuards, At, CorrelationInv, SavesAwaited, CoverInv, HeldLists, PairStep
<1>2. Return(r, "refused") \/ Await(r, n)
  BY DEF MergeGuards
<1>3. CASE Return(r, "refused")
  BY <1>1, <1>3, ReturnCover DEF Ended
<1>4. CASE Await(r, n)
  <2>1. n.step = "collect" /\ n.source = h.source /\ n.s = h.loaded /\ n.target = h.target /\ n.t = t
    OBVIOUS
  <2>2. Behind(h.loaded, h.source)' /\ Behind(t, h.target)'
    BY <1>1 DEF Behind
  <2>3. HeldLists(n)'
    BY <1>1, <2>1, <2>2 DEF HeldLists, PairStep, MergeStep, AlertStepName
  <2> QED  BY <1>1, <1>4, <2>3, AwaitCover
<1> QED  BY <1>2, <1>3, <1>4

\* Collecting the services of the alerts moves none.
LEMMA CollectAlertsCover ==
  ASSUME CorrelationInv, CoverInv, NEW r \in Request, CollectAlerts(r)
  PROVE  CoverInv'
<1> PICK h : h = held[r]
  OBVIOUS
<1> DEFINE services == {alerts[a].service : a \in {b \in DOMAIN alerts : alerts[b].incidentId = h.source}}
<1> PICK n : n = [step |-> "move", source |-> h.source, s |-> h.s,
                  target |-> h.target, t |-> h.t, services |-> services]
  OBVIOUS
<1>1. /\ pc[r] = "working" /\ UNCHANGED <<incidents, alerts>>
      /\ Behind(h.s, h.source) /\ TaggedLate(h.s) /\ Behind(h.t, h.target)
      /\ AlertsStay /\ (\A b \in DOMAIN alerts : alerts'[b].service = alerts[b].service)
      /\ (\A b \in DOMAIN alerts' : Keeps(b))
  BY NoAlertKept DEF CollectAlerts, At, CorrelationInv, CoverInv, HeldLists, MergeStep
<1>2. Await(r, n)
  BY DEF CollectAlerts
<1>3. /\ n.step = "move" /\ n.source = h.source /\ n.s = h.s /\ n.target = h.target /\ n.t = h.t
  OBVIOUS
<1>4. HeldLists(n)'
  <2>1. Behind(h.s, h.source)' /\ Behind(h.t, h.target)'
    BY <1>1 DEF Behind
  <2> QED  BY <1>1, <1>3, <2>1 DEF HeldLists, PairStep, MergeStep, AlertStepName
<1> QED  BY <1>1, <1>2, <1>4, AwaitCover

\* An alert that moves takes its service along: the remaining incident lists it,
\* or the save of its list does, or merge has worked on a source that another
\* handler has changed, or is about to change, and one of the two will fail.
LEMMA MoveAlertsCover ==
  ASSUME CorrelationInv, CoverInv, NEW r \in Request, MoveAlerts(r)
  PROVE  CoverInv'
<1> PICK h : h = held[r]
  OBVIOUS
<1> PICK v : v = MergedSource(r, h)
  OBVIOUS
<1> PICK w : w = MergedTarget(h)
  OBVIOUS
<1> PICK c : c = SavesList(h.source, h.s, v, h.source \notin h.t.related)
  OBVIOUS
<1> PICK b : b = SavesList(h.target, h.t, w, h.target \notin h.s.related)
  OBVIOUS
<1> PICK first \in BOOLEAN : first = (h.source \notin h.t.related)
  OBVIOUS
<1> PICK second \in BOOLEAN : second = (h.target \notin h.s.related)
  OBVIOUS
<1>1. /\ pc[r] = "working" /\ UNCHANGED incidents /\ writes[r] = {}
      /\ IsCopy(r, h.source, h.s) /\ IsCopy(r, h.target, h.t)
      /\ h.source # h.target /\ h.s.status # Resolved /\ h.services \subseteq ServiceName
      /\ Behind(h.s, h.source) /\ TaggedLate(h.s) /\ Behind(h.t, h.target)
      /\ Send(r, {c, b})
  BY DEF MoveAlerts, Settle, At, CorrelationInv, SavesAwaited, HeldInv, CoverInv, HeldLists,
         MergeStep
<1>2. /\ DOMAIN alerts' = DOMAIN alerts
      /\ \A a \in DOMAIN alerts :
           IF alerts[a].incidentId = h.source THEN alerts'[a] = Linked(alerts[a], h.target)
                                              ELSE alerts'[a] = alerts[a]
      /\ alerts' = [a \in DOMAIN alerts' |-> alerts'[a]]
  BY DEF MoveAlerts
<1>3. /\ h.target \in DOMAIN incidents
      /\ \A a \in DOMAIN alerts : IsAlert(alerts[a])
  BY <1>1 DEF IsCopy, CorrelationInv, AlertsInv
<1>4. ASSUME NEW a \in DOMAIN alerts
      PROVE  /\ \E x : x = alerts'[a] /\ IsAlert(x)
             /\ alerts'[a].service = alerts[a].service
             /\ alerts[a].incidentId # h.source => Keeps(a)
             /\ alerts[a].incidentId = h.source => alerts'[a].incidentId = h.target
  <2> PICK x : x = alerts[a]
    OBVIOUS
  <2>1. /\ IsAlert(Linked(x, h.target)) /\ Linked(x, h.target).incidentId = h.target
        /\ Linked(x, h.target).service = x.service
    BY <1>3, LinkedFacts
  <2> QED  BY <1>2, <1>3, <2>1 DEF Keeps
<1>5. AlertsStay
  BY <1>2, <1>4 DEF AlertsStay, CorrelationInv, AlertsInv
<1>6. /\ IsSave(c, h.source, h.s, v, first) /\ IsSave(b, h.target, h.t, w, second)
  BY <1>1, SettleSaves
<1>16. /\ c.doc = h.source
       /\ v.tags # h.s.tags => "tags" \in DOMAIN c.set /\ c.where = h.s.ver
  <2> PICK i : i = h.source
    OBVIOUS
  <2> PICK s : s = h.s
    OBVIOUS
  <2>1. IsSave(c, i, s, v, first)
    BY <1>6
  <2>2. /\ c.doc = i
        /\ v["tags"] # s["tags"] => "tags" \in DOMAIN c.set
        /\ "tags" \in DOMAIN c.set => c.where = s.ver
    BY <2>1, SaveSends
  <2> QED  BY <2>2
<1>17. /\ b.doc = h.target
       /\ w.services # h.t.services
            => "services" \in DOMAIN b.set /\ b.set.services = w.services
  <2> PICK i : i = h.target
    OBVIOUS
  <2> PICK t : t = h.t
    OBVIOUS
  <2>1. IsSave(b, i, t, w, second)
    BY <1>6
  <2>2. /\ b.doc = i
        /\ w["services"] # t["services"] => "services" \in DOMAIN b.set
        /\ "services" \in DOMAIN b.set => b.set["services"] = w["services"]
    BY <2>1, SaveSends
  <2> QED  BY <2>2
<1>7. /\ v.status = Resolved /\ v.tags = h.s.tags \cup {"merged"} /\ v.services = h.s.services
      /\ w.status = h.t.status /\ w.tags = h.t.tags /\ w.mergedInto = h.t.mergedInto
      /\ ToSet(w.services) = ToSet(h.t.services) \cup ToSet(h.s.services) \cup h.services
  BY <1>1, MergedSourceFacts, MergedTargetFacts
<1>18. h.s.tags = {} /\ v.tags # h.s.tags /\ h.s.mergedInto = None
  BY <1>1, <1>7 DEF TaggedLate
<1>8. ListBase(c) /\ ListBase(b)
  BY <1>1, <1>6, <1>7, <1>18, SaveListed
<1>9. /\ c.doc = h.source /\ c.where = h.s.ver /\ c.where # AnyVersion /\ DOMAIN c.set # {}
  <2>2. "tags" \in DOMAIN c.set /\ c.doc = h.source /\ c.where = h.s.ver
    BY <1>16, <1>18
  <2>3. h.s.ver # AnyVersion
    BY <1>1 DEF IsCopy, IsDoc, AnyVersion
  <2> QED  BY <2>2, <2>3
<1>10. Alone(r) /\ writes'[r] = {e \in {c, b} : DOMAIN e.set # {}}
  BY <1>1, SendAlone DEF CorrelationInv
<1>11. c \in writes'[r]
  BY <1>9, <1>10
<1>12. ASSUME ~Broken', NEW a \in DOMAIN alerts, alerts[a].incidentId = h.source
       PROVE  alerts[a].service \in ToSet(w.services)
  <2> PICK s : s = alerts[a].service
    OBVIOUS
  <2> PICK i : i = h.source
    OBVIOUS
  <2>1. Broken \/ Covered(a)
    BY DEF CoverInv
  <2>2. ~Broken
    <3>1. Later
      BY <1>1, <1>5, <1>10, SameIncidents DEF Alone
    <3>2. \A q \in Request : pc[q] = "failed" => pc'[q] = "failed"
      BY <1>1, <1>10 DEF Alone
    <3>3. \A q \in Request : \A e \in writes[q] : e \in writes'[q] \/ pc'[q] = "failed"
      BY <1>1, <1>10 DEF Alone
    <3> QED  BY <1>12, <3>1, <3>2, <3>3, BrokenStays
  <2>3. s \in ToSet(incidents[i].services) \/ Brings(i, s)
    BY <1>1, <1>12, <2>1, <2>2, NoneAssumption DEF Covered, IsCopy, CorrelationInv, SoundIncidents
  <2>4. ~Brings(i, s)
    <3> SUFFICES ASSUME Brings(i, s) PROVE FALSE
      OBVIOUS
    <3>1. PICK q \in Request : \E e \in writes[q] : e.doc = i /\ "services" \in DOMAIN e.set
      BY DEF Brings
    <3>2. PICK e \in writes[q] : e.doc = i /\ "services" \in DOMAIN e.set
      BY <3>1
    <3>3. q # r
      BY <1>1, <3>2
    <3>4. e \in writes'[q]
      BY <1>10, <3>2, <3>3 DEF Alone
    <3>5. e.where # AnyVersion
      BY <3>2 DEF CoverInv, ListBase
    <3>6. Clash'
      BY <1>9, <1>11, <3>2, <3>3, <3>4, <3>5 DEF Clash
    <3> QED  BY <1>12, <3>6 DEF Broken
  <2>5. h.s.ver = incidents[i].ver
    <3> SUFFICES ASSUME h.s.ver # incidents[i].ver PROVE FALSE
      OBVIOUS
    <3>1. h.s.ver <= incidents[i].ver /\ h.s.ver \in Nat /\ incidents[i].ver \in Nat
      BY <1>1 DEF IsCopy, IsDoc, CorrelationInv, SoundIncidents
    <3>2. c.where < incidents'[c.doc].ver
      <4>1. c.where = h.s.ver /\ incidents'[c.doc].ver = incidents[i].ver
        BY <1>1, <1>9
      <4> QED  BY <3>1, <4>1
    <3>3. c \in writes'[r] /\ c.where # AnyVersion
      BY <1>9, <1>11
    <3>4. Doomed'
      BY <3>2, <3>3 DEF Doomed
    <3> QED  BY <1>12, <3>4 DEF Broken
  <2>6. s \in ToSet(h.s.services)
    BY <1>1, <2>3, <2>4, <2>5 DEF Behind
  <2> QED  BY <1>7, <2>6
<1>13. ASSUME ~Broken', NEW a \in DOMAIN alerts' PROVE Keeps(a) \/ Covered(a)'
  <2> SUFFICES ASSUME alerts[a].incidentId = h.source PROVE Covered(a)'
    BY <1>2, <1>4, <1>13
  <2> PICK s : s = alerts[a].service
    OBVIOUS
  <2>1. a \in DOMAIN alerts /\ alerts'[a].incidentId = h.target /\ alerts'[a].service = s
    BY <1>2, <1>4, <1>13
  <2>2. s \in ToSet(w.services)
    BY <1>12, <1>13, <2>1
  <2>3. CASE s \in ToSet(h.t.services)
    BY <1>1, <2>1, <2>3 DEF Behind, Covered
  <2>4. CASE s \notin ToSet(h.t.services)
    <3>1. w.services # h.t.services
      BY <2>2, <2>4
    <3>2. b.doc = h.target /\ "services" \in DOMAIN b.set /\ b.set.services = w.services
      BY <1>17, <3>1
    <3>3. b \in writes'[r]
      BY <1>10, <3>2
    <3>4. Brings(h.target, s)'
      BY <2>2, <3>2, <3>3 DEF Brings
    <3> QED  BY <2>1, <3>4 DEF Covered
  <2> QED  BY <2>3, <2>4
<1>14. \A e \in {c, b} : ListBase(e)
  BY <1>8
<1>15. \A a \in DOMAIN alerts : alerts'[a].service = alerts[a].service
  BY <1>4
<1> QED  BY <1>1, <1>5, <1>13, <1>14, <1>15, SendCover

\* A step in which no handler sends a save or holds something new.
LEMMA RestCover ==
  ASSUME CorrelationInv, CoverInv, UNCHANGED <<incidents, alerts>>,
         Started \subseteq Started',
         \A q \in Request :
           /\ pc'[q] = "working" => pc[q] = "working" /\ held'[q] = held[q]
           /\ writes'[q] \subseteq writes[q]
           /\ pc[q] = "failed" => pc'[q] = "failed",
         \A q \in Request : \A c \in writes[q] : c \in writes'[q] \/ pc'[q] = "failed"
  PROVE  CoverInv'
<1>1. AlertsStay /\ (\A a \in DOMAIN alerts' : Keeps(a))
  BY NoAlertKept
<1>2. Later
  BY <1>1, SameIncidents
<1>3. ListsLater
  BY DEF ListsLater
<1>4. \A i \in DOMAIN incidents' : TaggedLate(incidents'[i])
  BY DEF CoverInv
<1>5. Broken => Broken'
  BY <1>2, BrokenStays
<1>6. \A q \in Request : \A c \in writes'[q] : c \in writes[q]
  OBVIOUS
<1>7. \A q \in Request : \A c \in writes[q] : c \in writes'[q] \/ Broken'
  BY DEF Broken, Failed
<1> QED  BY <1>1, <1>2, <1>3, <1>4, <1>5, <1>6, <1>7, CoverKept

\* A refused save leaves the state broken.
LEMMA RefuseCover ==
  ASSUME CorrelationInv, CoverInv, NEW r \in Request, NEW c, RefuseSave(r, c),
         UNCHANGED <<alerts, aged>>
  PROVE  CoverInv'
<1>1. /\ DOMAIN writes = Request /\ DOMAIN pc = Request
  BY DEF CorrelationInv, ShapeInv
<1>2. /\ held' = held /\ writes'[r] \subseteq writes[r] /\ pc'[r] = "failed" /\ UNCHANGED incidents
      /\ \A q \in Request \ {r} : writes'[q] = writes[q] /\ pc'[q] = pc[q]
  BY <1>1 DEF RefuseSave
<1>3. Started \subseteq Started'
  BY <1>2 DEF Started
<1>4. \A q \in Request :
        /\ pc'[q] = "working" => pc[q] = "working" /\ held'[q] = held[q]
        /\ writes'[q] \subseteq writes[q]
        /\ pc[q] = "failed" => pc'[q] = "failed"
  BY <1>2
<1>5. \A q \in Request : \A b \in writes[q] : b \in writes'[q] \/ pc'[q] = "failed"
  BY <1>2
<1> QED  BY <1>2, <1>3, <1>4, <1>5, RestCover

\* A call that returns has none of its saves left.
LEMMA AnnounceCover ==
  ASSUME CorrelationInv, CoverInv, NEW r \in Request, Announce(r), UNCHANGED <<alerts, aged>>
  PROVE  CoverInv'
<1>1. /\ UNCHANGED <<held, writes, incidents>> /\ pc[r] = "written" /\ pc'[r] = "done"
      /\ \A q \in Request \ {r} : pc'[q] = pc[q]
  BY DEF Announce, CorrelationInv, ShapeInv
<1>2. Started \subseteq Started'
  BY <1>1 DEF Started
<1>3. \A q \in Request :
        /\ pc'[q] = "working" => pc[q] = "working" /\ held'[q] = held[q]
        /\ writes'[q] \subseteq writes[q]
        /\ pc[q] = "failed" => pc'[q] = "failed"
  BY <1>1
<1> QED  BY <1>1, <1>2, <1>3, RestCover

\* A crash fails every handler that has sent a save.
LEMMA CrashCover ==
  ASSUME CorrelationInv, CoverInv, Crash, UNCHANGED <<alerts, aged>>
  PROVE  CoverInv'
<1>1. /\ UNCHANGED incidents
      /\ \A q \in Request :
           /\ writes'[q] = {}
           /\ pc'[q] = IF pc[q] \in InFlight THEN "failed" ELSE pc[q]
  BY DEF Crash
<1>2. Started \subseteq Started'
  BY <1>1 DEF Started
<1>3. \A q \in Request :
        /\ pc'[q] = "working" => pc[q] = "working" /\ held'[q] = held[q]
        /\ writes'[q] \subseteq writes[q]
        /\ pc[q] = "failed" => pc'[q] = "failed"
  BY <1>1 DEF InFlight
<1>4. \A q \in Request : \A c \in writes[q] : c \in writes'[q] \/ pc'[q] = "failed"
  BY <1>1 DEF CorrelationInv, SavesAwaited, InFlight
<1> QED  BY <1>1, <1>2, <1>3, <1>4, RestCover

\* A failed call leaves the state broken.
LEMMA FailCover ==
  ASSUME CorrelationInv, CoverInv, NEW r \in Request, Fail(r)
  PROVE  CoverInv'
<1>1. /\ writes[r] = {} /\ Return(r, "failed") /\ UNCHANGED <<incidents, alerts>>
      /\ pc[r] # "failed" /\ AlertsStay
      /\ (\A a \in DOMAIN alerts : alerts'[a].service = alerts[a].service)
      /\ (\A a \in DOMAIN alerts' : Keeps(a))
  BY NoAlertKept DEF Fail, CorrelationInv, SavesAwaited
<1> QED  BY <1>1, ReturnCover DEF Ended

\* Time moves no alert.
LEMMA AgeCover ==
  ASSUME CorrelationInv, CoverInv, UNCHANGED <<vars, alerts>>
  PROVE  CoverInv'
<1>1. UNCHANGED <<incidents, alerts, pc, held, writes>>
  BY DEF vars
<1>2. Started \subseteq Started'
  BY <1>1 DEF Started
<1>3. \A q \in Request :
        /\ pc'[q] = "working" => pc[q] = "working" /\ held'[q] = held[q]
        /\ writes'[q] \subseteq writes[q]
        /\ pc[q] = "failed" => pc'[q] = "failed"
  BY <1>1
<1>4. \A q \in Request : \A c \in writes[q] : c \in writes'[q] \/ pc'[q] = "failed"
  BY <1>1
<1> QED  BY <1>1, <1>2, <1>3, <1>4, RestCover

\* An executed save of a list dooms the other saves of it.
LEMMA ExecutedBroken ==
  ASSUME CorrelationInv, NEW r \in Request, NEW c, ExecuteSave(r, c), Later, Broken
  PROVE  Broken'
<1> PICK d : d = incidents[c.doc]
  OBVIOUS
<1>1. /\ c \in writes[r] /\ c.doc \in DOMAIN incidents
      /\ c.where \in {AnyVersion, d.ver}
      /\ incidents'[c.doc].ver = IF c.where = AnyVersion THEN d.ver ELSE d.ver + 1
  BY ExecutedFacts
<1>2. /\ Alone(r) /\ writes'[r] = writes[r] \ {c} /\ (pc[r] = "failed" => pc'[r] = "failed")
  BY ExecutedHandler
<1>3. ASSUME NEW q \in Request, NEW b \in writes[q], b # c \/ q # r PROVE b \in writes'[q]
  BY <1>2, <1>3 DEF Alone
<1>4. ASSUME NEW q \in Request, NEW b \in writes[q]
      PROVE  /\ b.doc \in DOMAIN incidents /\ b.where \in Int
             /\ incidents[b.doc].ver \in Nat /\ incidents'[b.doc].ver \in Nat
             /\ incidents[b.doc].ver <= incidents'[b.doc].ver
             /\ b.where <= incidents[b.doc].ver
  BY DEF CorrelationInv, WriteInv, WriteBase, IsCommand, AnyVersion, SoundIncidents, IsDoc, Later
<1>5. CASE Failed
  BY <1>2, <1>5 DEF Failed, Broken, Alone
<1>6. CASE Doomed
  <2>1. PICK q \in Request : \E b \in writes[q] :
          b.where # AnyVersion /\ b.where < incidents[b.doc].ver
    BY <1>6 DEF Doomed
  <2>2. PICK b \in writes[q] : b.where # AnyVersion /\ b.where < incidents[b.doc].ver
    BY <2>1
  <2>3. b # c
    BY <1>1, <1>4, <2>2
  <2>4. b \in writes'[q] /\ b.where < incidents'[b.doc].ver
    BY <1>3, <1>4, <2>2, <2>3
  <2> QED  BY <2>2, <2>4 DEF Broken, Doomed
<1>7. ASSUME NEW q \in Request, q # r, NEW b \in writes[q], b.doc = c.doc,
             b.where # AnyVersion, c.where # AnyVersion
      PROVE  Broken'
  <2>1. b \in writes'[q] /\ b.where < incidents'[b.doc].ver
    BY <1>1, <1>3, <1>4, <1>7
  <2> QED  BY <1>7, <2>1 DEF Broken, Doomed
<1>8. CASE Clash
  <2>1. PICK p \in Request, q \in Request : \E e \in writes[p], b \in writes[q] :
          /\ p # q /\ e.doc = b.doc
          /\ e.where # AnyVersion /\ b.where # AnyVersion
    BY <1>8 DEF Clash
  <2>2. PICK e \in writes[p], b \in writes[q] :
          /\ p # q /\ e.doc = b.doc
          /\ e.where # AnyVersion /\ b.where # AnyVersion
    BY <2>1
  <2>3. CASE p = r /\ e = c
    BY <1>7, <2>2, <2>3
  <2>4. CASE q = r /\ b = c
    BY <1>7, <2>2, <2>4
  <2>5. CASE ~(p = r /\ e = c) /\ ~(q = r /\ b = c)
    <3>1. e \in writes'[p] /\ b \in writes'[q]
      BY <1>3, <2>5
    <3> QED  BY <2>2, <3>1 DEF Broken, Clash
  <2> QED  BY <2>3, <2>4, <2>5
<1> QED  BY <1>5, <1>6, <1>8 DEF Broken

\* A save that is executed gives the incident the list it carries; it may take
\* the version that another save demands, whose call is then doomed.
LEMMA SaveIncidentCover ==
  ASSUME CorrelationInv, CoverInv, NEW r \in Request, NEW c, SaveIncident(r, c)
  PROVE  CoverInv'
<1> PICK d : d = incidents[c.doc]
  OBVIOUS
<1> PICK e : e = incidents'[c.doc]
  OBVIOUS
<1>0. ExecuteSave(r, c) /\ UNCHANGED alerts
  BY DEF SaveIncident
<1>1. /\ c \in writes[r] /\ DOMAIN incidents' = DOMAIN incidents
      /\ c.doc \in DOMAIN incidents
      /\ \A i \in DOMAIN incidents : i # c.doc => incidents'[i] = incidents[i]
      /\ IsDoc(d) /\ IsDoc(e) /\ c.where \in {AnyVersion, d.ver}
      /\ e.ver = IF c.where = AnyVersion THEN d.ver ELSE d.ver + 1
      /\ \A f \in {"services", "status", "tags", "mergedInto"} :
           e[f] = IF f \in DOMAIN c.set THEN c.set[f] ELSE d[f]
  BY <1>0, ExecutedFacts, FieldFacts
<1>2. ListBase(c) /\ TaggedLate(d)
  BY <1>1 DEF CoverInv
<1>3. Later
  BY <1>0, ExecutedLater
<1>4. /\ ToSet(d.services) \subseteq ToSet(e.services)
      /\ e.ver = d.ver => e.services = d.services /\ e.mergedInto = d.mergedInto
  BY <1>1, <1>2 DEF ListBase, IsDoc
<1>5. ListsLater /\ \A a \in DOMAIN alerts' : Keeps(a)
  BY <1>0, <1>1, <1>4 DEF ListsLater, Keeps
<1>6. TaggedLate(e)
  BY <1>1, <1>2 DEF ListBase, TaggedLate
<1>7. \A i \in DOMAIN incidents' : TaggedLate(incidents'[i])
  BY <1>1, <1>6 DEF CoverInv
<1>8. /\ Alone(r) /\ held' = held /\ writes'[r] = writes[r] \ {c}
      /\ pc'[r] \in {"saving", "failed", "written"}
  BY <1>0, ExecutedHandler
<1>9. \A q \in Request : \A b \in writes'[q] : b \in writes[q]
  BY <1>8 DEF Alone
<1>10. \A q \in Request : pc'[q] = "working" => pc[q] = "working" /\ held'[q] = held[q]
  BY <1>8 DEF Alone
<1>11. Broken => Broken'
  BY <1>0, <1>3, ExecutedBroken
<1>12. \A q \in Request : \A b \in writes[q] :
         \/ b \in writes'[q]
         \/ "services" \in DOMAIN b.set => incidents'[b.doc].services = b.set.services
  BY <1>1, <1>8 DEF Alone
<1> QED  BY <1>3, <1>5, <1>7, <1>9, <1>10, <1>11, <1>12, CoverKept

\* Every step of an alert handler preserves the cover.
LEMMA AlertStepCover ==
  ASSUME CorrelationInv, CoverInv, NEW r \in Request, AlertStep(r)
  PROVE  CoverInv'
<1>1. ASSUME NEW p \in Report, Ingest(r, p) PROVE CoverInv'
  BY <1>1, IngestCover
<1>2. ASSUME NEW a \in Alert, InsertAlert(r, a) PROVE CoverInv'
  BY <1>2, InsertAlertCover
<1>3. ASSUME NEW i \in Incident, Spawn(r, i) PROVE CoverInv'
  BY <1>3, SpawnCover
<1>4. ASSUME NEW a \in DOMAIN alerts, NEW i \in DOMAIN incidents,
             ReadAlert(r, "associate", a, i)
      PROVE  CoverInv'
  BY <1>4, ReadAlertCover
<1>5. ASSUME NEW a \in DOMAIN alerts, ReadAlert(r, "unassociate", a, None)
      PROVE  CoverInv'
  BY <1>5, ReadAlertCover
<1> QED
  BY <1>1, <1>2, <1>3, <1>4, <1>5, CountRepetitionCover, EscalateCover, MatchCover,
     LinkAlertCover, AttachAlertCover, AssociateCover, UnassociateCover,
     MergeGuardsCover, CollectAlertsCover, MoveAlertsCover
  DEF AlertStep

\* Every step preserves the cover, when no incident is reopened or rewritten.
LEMMA CoverStep ==
  ASSUME CorrelationInv, CoverInv, Endpoint \cap {"status", "update"} = {},
         [NextCorrelation]_allVars
  PROVE  CoverInv'
<1>1. CASE IncidentStep
  <2>0. UNCHANGED <<alerts, aged>>
    BY <1>1 DEF IncidentStep
  <2>1. CASE Crash
    BY <2>0, <2>1, CrashCover
  <2>2. ASSUME NEW r \in Request, NEW i \in DOMAIN incidents, NEW j \in DOMAIN incidents,
               ReadFirst(r, "merge", i, j)
        PROVE  CoverInv'
    BY <2>0, <2>2, ReadSourceCover
  <2>3. ASSUME NEW r \in Request, NEW c \in writes[r], RefuseSave(r, c) PROVE CoverInv'
    BY <2>0, <2>3, RefuseCover
  <2>4. ASSUME NEW r \in Request, Begin(r) \/ Relate(r) \/ Unrelate(r) \/ Announce(r)
        PROVE  CoverInv'
    BY <2>0, <2>4, BeginCover, PairCover, AnnounceCover
  <2> QED  BY <1>1, <2>1, <2>2, <2>3, <2>4 DEF IncidentStep
<1>2. ASSUME NEW x \in Ageing, Age(x) PROVE CoverInv'
  BY <1>2, AgeCover DEF Age
<1>3. ASSUME NEW r \in Request, AlertStep(r) \/ Fail(r) PROVE CoverInv'
  BY <1>3, AlertStepCover, FailCover
<1>4. ASSUME NEW r \in Request, NEW c \in writes[r], SaveIncident(r, c) PROVE CoverInv'
  BY <1>4, SaveIncidentCover
<1>5. CASE UNCHANGED allVars
  BY <1>5, AgeCover DEF allVars
<1> QED  BY <1>1, <1>2, <1>3, <1>4, <1>5 DEF NextCorrelation

\* Before the first call no alert belongs to an incident.
LEMMA CoverInit == InitCorrelation => CoverInv
<1> SUFFICES ASSUME InitCorrelation PROVE CoverInv
  OBVIOUS
<1>1. PICK D \in SUBSET Incident :
        incidents \in [D -> {NewIncident(sev, sv, None) :
                               sev \in Severity, sv \in ServiceList}]
  BY DEF InitCorrelation, Init
<1>2. PICK E \in SUBSET Alert : alerts \in [E -> {NewAlert(p) : p \in Report}]
  BY DEF InitCorrelation
<1>3. \A r \in Request : pc[r] = "idle" /\ writes[r] = {}
  BY DEF InitCorrelation, Init
<1>4. \A i \in DOMAIN incidents : TaggedLate(incidents[i])
  <2>1. ASSUME NEW i \in D PROVE incidents[i].tags = {} /\ incidents[i].mergedInto = None
    <3>1. PICK sev \in Severity, sv \in ServiceList : incidents[i] = NewIncident(sev, sv, None)
      BY <1>1
    <3> QED  BY <3>1 DEF NewIncident
  <2> QED  BY <1>1, <2>1 DEF TaggedLate
<1>5. \A a \in DOMAIN alerts : Covered(a)
  <2>1. ASSUME NEW a \in E PROVE alerts[a].incidentId = None
    <3>1. PICK p \in Report : alerts[a] = NewAlert(p)
      BY <1>2
    <3> QED  BY <3>1, NewAlertFacts
  <2> QED  BY <1>2, <2>1 DEF Covered
<1> QED  BY <1>3, <1>4, <1>5 DEF CoverInv

\* When no handler is at work and none has failed, no save is in flight.
LEMMA CoverQuiet ==
  ASSUME CorrelationInv, CoverInv
  PROVE  ServicesCoverAlerts
<1> SUFFICES ASSUME Quiet, NEW a \in DOMAIN alerts, alerts[a].incidentId # None
             PROVE  Contains(incidents[alerts[a].incidentId].services, alerts[a].service)
  BY DEF ServicesCoverAlerts
<1> PICK i : i = alerts[a].incidentId
  OBVIOUS
<1>1. \A r \in Request : writes[r] = {} /\ pc[r] # "failed"
  BY DEF Quiet, CorrelationInv, SavesAwaited
<1>2. ~Broken
  BY <1>1 DEF Broken, Failed, Doomed, Clash
<1>3. ~Brings(i, alerts[a].service)
  BY <1>1 DEF Brings
<1>4. alerts[a].service \in ToSet(incidents[i].services)
  BY <1>2, <1>3 DEF CoverInv, Covered
<1>5. i \in DOMAIN incidents
  BY DEF CorrelationInv, AlertsInv, IsAlert
<1>6. incidents[i].services \in ServiceList
  BY <1>5, FieldFacts DEF CorrelationInv, SoundIncidents, IsDoc
<1> QED  BY <1>4, <1>6, ListFacts

\* If no call sets a status or a list of services outright, an incident lists the
\* service of every alert linked to it, however ingests, associations, merges and
\* changes of links overlap, whenever all calls have succeeded.
THEOREM ServicesCover ==
  ASSUME Endpoint \cap {"status", "update"} = {}
  PROVE  SpecCorrelation => []ServicesCoverAlerts
<1>1. InitCorrelation => CorrelationInv /\ CoverInv
  BY CorrelationInit, CoverInit
<1>2. CorrelationInv /\ CoverInv /\ [NextCorrelation]_allVars => (CorrelationInv /\ CoverInv)'
  BY CorrelationStep, CoverStep
<1>3. CorrelationInv /\ CoverInv => ServicesCoverAlerts
  BY CoverQuiet
<1> QED  BY <1>1, <1>2, <1>3, PTL DEF SpecCorrelation

\* If no call sets a status, an incident that was merged away stays merged into
\* the same one, however many merges of it overlap: the save that merges demands
\* a version at which the incident was merged into none.
THEOREM MergesOnce ==
  ASSUME Endpoint \cap {"status", "update"} = {}
  PROVE  SpecCorrelation => MergedOnce
<1> DEFINE Stays == \A i \in DOMAIN incidents :
                      incidents[i].mergedInto # None =>
                        incidents'[i].mergedInto = incidents[i].mergedInto
<1>1. InitCorrelation => CorrelationInv /\ CoverInv
  BY CorrelationInit, CoverInit
<1>2. CorrelationInv /\ CoverInv /\ [NextCorrelation]_allVars => (CorrelationInv /\ CoverInv)'
  BY CorrelationStep, CoverStep
<1>3. CorrelationInv /\ CoverInv /\ [NextCorrelation]_allVars => [Stays]_allVars
  <2> SUFFICES ASSUME CorrelationInv, CoverInv, [NextCorrelation]_allVars PROVE Stays
    OBVIOUS
  <2>1. CASE UNCHANGED incidents
    BY <2>1
  <2>2. ASSUME NEW r \in Request, NEW c \in writes[r], ExecuteSave(r, c)
        PROVE  Stays
    <3> PICK d : d = incidents[c.doc]
      OBVIOUS
    <3> PICK e : e = incidents'[c.doc]
      OBVIOUS
    <3>1. /\ \A i \in DOMAIN incidents : i # c.doc => incidents'[i] = incidents[i]
          /\ c.where \in {AnyVersion, d.ver}
          /\ e.mergedInto = IF "mergedInto" \in DOMAIN c.set THEN c.set.mergedInto
                                                             ELSE d.mergedInto
      BY <2>2, ExecutedFacts, FieldFacts
    <3>2. ListBase(c)
      BY DEF CoverInv
    <3>3. "mergedInto" \in DOMAIN c.set => d.mergedInto = None
      BY <3>1, <3>2 DEF ListBase
    <3> QED  BY <3>1, <3>3
  <2>3. ASSUME NEW j, NEW d, Adds(j, d) PROVE Stays
    BY <2>3 DEF Adds
  <2> QED  BY <2>1, <2>2, <2>3, OtherSteps
<1> QED
  BY <1>1, <1>2, <1>3, PTL DEF SpecCorrelation, MergedOnce

-----------------------------------------------------------------------------
(* Calls that do not overlap: MaxInFlight = 1.                             *)

\* No other handler is at work, and no save is in flight.
Only(r) == \A q \in Request : (q # r => pc[q] \notin InFlight) /\ writes[q] = {}

\* Nobody reopens, sets a severity or associates.
Unaided == ~Reopens /\ ~Regrades /\ "associate" \notin Endpoint

\* What the invariant says of the alerts.
AlertsFit ==
  /\ AlertStatusAgrees /\ OneAlertPerPrint
  /\ ~Reopens => NoneStranded
  /\ Unaided => SeverityFollows

\* A handler that starts is the only one.
LEMMA OnlyStarts ==
  ASSUME MaxInFlight = 1, AlertsSequentialInv, NEW r \in Request, NEW endpoint,
         Starts(r, endpoint)
  PROVE  Only(r) /\ pc[r] = "idle" /\ endpoint \in Endpoint
<1>1. OneSaving
  BY DEF AlertsSequentialInv
<1>2. \A q \in Request : pc[q] \notin InFlight /\ writes[q] = {}
  BY <1>1, NoneAtWork
<1> QED  BY <1>2 DEF Only, Starts

\* A handler that is not saving is the only one and has nothing in flight.
LEMMA OnlyWorks ==
  ASSUME AlertsSequentialInv, NEW r \in Request, pc[r] \in {"working", "written"}
  PROVE  Only(r)
<1>1. OneSaving /\ pc[r] \in InFlight
  BY DEF AlertsSequentialInv, InFlight
<1> QED  BY <1>1, OnlyOne DEF Only

\* What the only handler does, it does to documents and copies that fit.
LEMMA AloneSequential ==
  ASSUME NEW r \in Request, Only(r), Alone(r),
         writes'[r] # {} => pc'[r] = "saving",
         \A c, d \in writes'[r] : c.doc = d.doc => c = d,
         \A c \in writes'[r] : Accepts(incidents'[c.doc], c) /\ SaveFits(c)',
         pc'[r] = "working" => HoldsStored(held[r])',
         AlertsFit'
  PROVE  AlertsSequentialInv'
<1>1. \A q \in Request : q # r => pc'[q] \notin InFlight /\ writes'[q] = {}
  BY DEF Only, Alone
<1>2. OneSaving'
  <2>1. \A p, q \in Request : pc'[p] \in InFlight /\ pc'[q] \in InFlight => p = q
    BY <1>1
  <2>2. \A q \in Request : writes'[q] # {} => pc'[q] = "saving"
    BY <1>1
  <2>3. \A q \in Request : \A c, d \in writes'[q] : c.doc = d.doc => c = d
    BY <1>1
  <2>4. \A q \in Request : \A c \in writes'[q] : Accepts(incidents'[c.doc], c)
    BY <1>1
  <2> QED  BY <2>1, <2>2, <2>3, <2>4 DEF OneSaving
<1>3. ASSUME NEW q \in Request, pc'[q] = "working" PROVE HoldsStored(held[q])'
  <2>1. q = r
    BY <1>1, <1>3 DEF InFlight
  <2> QED  BY <1>3, <2>1
<1>4. ASSUME NEW q \in Request, NEW c \in writes'[q] PROVE SaveFits(c)'
  <2>1. q = r
    BY <1>1, <1>4
  <2> QED  BY <1>4, <2>1
<1> QED  BY <1>2, <1>3, <1>4 DEF AlertsSequentialInv, AlertsFit, Unaided

\* While only r is at work, and not about to escalate, incidents are as severe
\* as their alerts already.
LEMMA SevereAlready ==
  ASSUME SeverityFollows, NEW r \in Request, Only(r), ~At(r, "escalate"),
         \A q \in Request : pc[q] # "failed", NEW a \in DOMAIN alerts,
         alerts[a].incidentId # None, incidents[alerts[a].incidentId].status # Resolved
  PROVE  incidents[alerts[a].incidentId].severity <= alerts[a].severity
<1> PICK i : i = alerts[a].incidentId
  OBVIOUS
<1> PICK s : s = alerts[a].severity
  OBVIOUS
<1>1. WillBeAsSevere(i, s)
  BY DEF SeverityFollows
<1>2. \A q \in Request : ~At(q, "escalate") /\ writes[q] = {}
  BY DEF Only, At, InFlight
<1> QED  BY <1>1, <1>2 DEF WillBeAsSevere

\* A handler that has failed stays so.
LEMMA FailedStays ==
  ASSUME NEW r \in Request, Alone(r), pc[r] # "failed", \A q \in Request : pc'[q] # "failed"
  PROVE  \A q \in Request : pc[q] # "failed"
BY DEF Alone

\* Documents that are not written fit as before, unless an escalation is lost.
LEMMA SameFits ==
  ASSUME AlertsSequentialInv, NEW r \in Request, Only(r), Alone(r), pc[r] # "failed",
         pc'[r] = "failed" \/ ~At(r, "escalate"), UNCHANGED <<incidents, alerts, aged>>
  PROVE  AlertsFit'
<1>1. UNCHANGED incidents /\ UNCHANGED alerts /\ UNCHANGED aged
  OBVIOUS
<1>2. AlertStatusAgrees' /\ OneAlertPerPrint'
  BY <1>1 DEF AlertsSequentialInv, AlertStatusAgrees, OneAlertPerPrint
<1>3. ~Reopens => NoneStranded'
  BY <1>1 DEF AlertsSequentialInv, NoneStranded, NoStrandedAlert
<1>4. ASSUME Unaided PROVE SeverityFollows'
  <2>0. SeverityFollows
    BY <1>4 DEF AlertsSequentialInv, Unaided
  <2> SUFFICES ASSUME \A q \in Request : pc'[q] # "failed", NEW a \in DOMAIN alerts,
                      alerts[a].incidentId # None,
                      incidents[alerts[a].incidentId].status # Resolved
               PROVE  WillBeAsSevere(alerts[a].incidentId, alerts[a].severity)'
    BY <1>1 DEF SeverityFollows
  <2>1. \A q \in Request : pc[q] # "failed"
    BY FailedStays
  <2>2. incidents[alerts[a].incidentId].severity <= alerts[a].severity
    BY <2>0, <2>1, SevereAlready
  <2> QED  BY <1>1, <2>2 DEF WillBeAsSevere
<1> QED  BY <1>2, <1>3, <1>4 DEF AlertsFit, Unaided, Reopens

\* The only handler sends saves that fit, and writes no alert.
LEMMA SendSequentially ==
  ASSUME CorrelationInv, AlertsSequentialInv, NEW r \in Request, Only(r), pc[r] # "failed",
         ~At(r, "escalate"), NEW commands, Send(r, commands),
         UNCHANGED <<incidents, alerts, aged>>,
         \A c, d \in commands : c.doc = d.doc => c = d,
         \A c \in commands : Accepts(incidents[c.doc], c) /\ SaveFits(c)'
  PROVE  AlertsSequentialInv'
<1>1. /\ Alone(r) /\ writes'[r] \subseteq commands /\ pc'[r] \in {"saving", "written"}
      /\ writes'[r] # {} => pc'[r] = "saving"
  BY SendAlone DEF CorrelationInv
<1>2. AlertsFit'
  BY <1>1, SameFits
<1>3. \A c \in writes'[r] : Accepts(incidents'[c.doc], c) /\ SaveFits(c)'
  BY <1>1
<1>4. \A c, d \in writes'[r] : c.doc = d.doc => c = d
  BY <1>1
<1> QED  BY <1>1, <1>2, <1>3, <1>4, AloneSequential

\* The only handler returns, and writes no alert.
LEMMA ReturnSequentially ==
  ASSUME CorrelationInv, AlertsSequentialInv, NEW r \in Request, Only(r), pc[r] # "failed",
         NEW answer \in Ended, answer = "failed" \/ ~At(r, "escalate"), Return(r, answer),
         UNCHANGED <<incidents, alerts, aged>>
  PROVE  AlertsSequentialInv'
<1>1. Alone(r) /\ writes' = writes /\ pc'[r] = answer /\ pc'[r] # "working"
  BY ReturnAlone DEF CorrelationInv, Ended
<1>2. AlertsFit'
  BY <1>1, SameFits
<1>3. writes'[r] = {}
  BY <1>1 DEF Only
<1> QED  BY <1>1, <1>2, <1>3, AloneSequential

\* The only handler goes on with what is stored, and writes no alert.
LEMMA AwaitSequentially ==
  ASSUME CorrelationInv, AlertsSequentialInv, NEW r \in Request, Only(r), pc[r] # "failed",
         ~At(r, "escalate"), NEW h, Await(r, h), HoldsStored(h),
         UNCHANGED <<incidents, alerts, aged>>
  PROVE  AlertsSequentialInv'
<1>1. Alone(r) /\ writes' = writes /\ pc'[r] = "working" /\ held'[r] = h
  BY AwaitAlone DEF CorrelationInv
<1>2. AlertsFit'
  BY <1>1, SameFits
<1>3. writes'[r] = {}
  BY <1>1 DEF Only
<1>4. HoldsStored(h)'
  BY DEF HoldsStored
<1>5. HoldsStored(held[r])'
  BY <1>1, <1>4
<1> QED  BY <1>1, <1>2, <1>3, <1>5, AloneSequential

\* A save of what is stored is accepted, and fits when it touches no merge, and
\* status and severity only as the calls of the instance may.
LEMMA SaveIsFit ==
  ASSUME CorrelationInv, NEW i \in DOMAIN incidents, NEW d, d = incidents[i], NEW w, NEW c,
         NEW assigned, IsSave(c, i, d, w, assigned), IsDoc(w), w.mergedInto = d.mergedInto,
         Reopens \/ w.status \in {d.status, Resolved},
         Regrades \/ w.severity <= d.severity, UNCHANGED incidents
  PROVE  c.doc = i /\ Accepts(incidents[c.doc], c) /\ SaveFits(c)'
<1>1. /\ c.doc = i /\ c.where \in {AnyVersion, d.ver}
      /\ DOMAIN c.set \subseteq Field
      /\ \A f \in DOMAIN c.set : c.set[f] = w[f] /\ (w[f] # d[f] \/ f = "related")
  <2>1. "related" \in Field
    BY FieldFacts
  <2>2. c.doc = i /\ c.where \in {AnyVersion, d.ver}
    BY DEF IsSave
  <2>3. DOMAIN c.set \subseteq Field
    BY <2>1 DEF IsSave
  <2>4. \A f \in DOMAIN c.set : c.set[f] = w[f] /\ (w[f] # d[f] \/ f = "related")
    BY DEF IsSave
  <2> QED  BY <2>2, <2>3, <2>4
<1>2. Accepts(incidents[c.doc], c)
  BY <1>1 DEF Accepts
<1>3. "mergedInto" \notin DOMAIN c.set
  BY <1>1
<1>4. ~Reopens /\ "status" \in DOMAIN c.set => c.set.status = Resolved
  BY <1>1
<1>5. ~Regrades /\ "severity" \in DOMAIN c.set => c.set.severity <= incidents'[c.doc].severity
  BY <1>1
<1> QED  BY <1>1, <1>2, <1>3, <1>4, <1>5 DEF SaveFits, Reopens, Regrades

\* A stored incident is well formed, and its severity comparable.
LEMMA StoredFacts ==
  ASSUME CorrelationInv, NEW i \in DOMAIN incidents
  PROVE  IsDoc(incidents[i]) /\ incidents[i].severity \in Severity /\ incidents[i].severity \in Int
<1>1. IsDoc(incidents[i])
  BY DEF CorrelationInv, SoundIncidents
<1>2. incidents[i].severity \in Severity
  BY <1>1, FieldFacts DEF IsDoc
<1>3. Severity \subseteq Int
  BY SeverityAssumption
<1> QED  BY <1>1, <1>2, <1>3

\* One save of what the only handler has loaded, or none.
LEMMA SaveSequentially ==
  ASSUME CorrelationInv, AlertsSequentialInv, NEW r \in Request, Only(r), pc[r] # "failed",
         ~At(r, "escalate"), NEW i \in DOMAIN incidents, NEW w, IsDoc(w),
         w.ver = incidents[i].ver, w.mergedInto = incidents[i].mergedInto,
         Reopens \/ w.status = incidents[i].status,
         Regrades \/ w.severity = incidents[i].severity, NEW answer \in Ended,
         Return(r, answer) \/ Send(r, {Saves(i, incidents[i], w)}),
         UNCHANGED <<incidents, alerts, aged>>
  PROVE  AlertsSequentialInv'
<1> PICK d : d = incidents[i]
  OBVIOUS
<1> PICK c : c = Saves(i, d, w)
  OBVIOUS
<1>1. IsDoc(d) /\ d.severity \in Int
  BY StoredFacts
<1>2. IsSave(c, i, d, w, FALSE)
  BY <1>1, SaveFacts
<1>3. (Regrades \/ w.severity <= d.severity) /\ (Reopens \/ w.status \in {d.status, Resolved})
  BY <1>1
<1>4. Accepts(incidents[c.doc], c) /\ SaveFits(c)'
  BY <1>2, <1>3, SaveIsFit
<1>5. CASE Return(r, answer)
  BY <1>5, ReturnSequentially
<1>6. CASE Send(r, {c})
  <2>1. /\ \A b, e \in {c} : b.doc = e.doc => b = e
        /\ \A e \in {c} : Accepts(incidents[e.doc], e) /\ SaveFits(e)'
    BY <1>4
  <2> QED  BY <1>6, <2>1, SendSequentially
<1> QED  BY <1>5, <1>6

\* Inserting an incident strands nothing and outgrades nothing.
LEMMA AddFits ==
  ASSUME CorrelationInv, AlertsSequentialInv, NEW r \in Request, Only(r), Alone(r),
         pc[r] # "failed", ~At(r, "escalate"), NEW i, NEW d, Adds(i, d),
         d.mergedInto = None, UNCHANGED <<alerts, aged>>
  PROVE  AlertsFit'
<1>0. UNCHANGED alerts /\ UNCHANGED aged
  OBVIOUS
<1>1. /\ DOMAIN incidents' = DOMAIN incidents \cup {i} /\ incidents'[i] = d
      /\ \A j \in DOMAIN incidents : incidents'[j] = incidents[j]
  BY DEF Adds
<1>2. \A a \in DOMAIN alerts : alerts[a].incidentId \in DOMAIN incidents \cup {None}
  BY DEF CorrelationInv, AlertsInv, IsAlert
<1>3. AlertStatusAgrees' /\ OneAlertPerPrint'
  BY <1>0 DEF AlertsSequentialInv, AlertStatusAgrees, OneAlertPerPrint
<1>4. ~Reopens => NoneStranded'
  BY <1>0, <1>1, <1>2 DEF AlertsSequentialInv, NoneStranded, NoStrandedAlert
<1>5. ASSUME Unaided PROVE SeverityFollows'
  <2>0. SeverityFollows
    BY <1>5 DEF AlertsSequentialInv, Unaided
  <2> SUFFICES ASSUME \A q \in Request : pc'[q] # "failed", NEW a \in DOMAIN alerts,
                      alerts[a].incidentId # None,
                      incidents'[alerts[a].incidentId].status # Resolved
               PROVE  WillBeAsSevere(alerts[a].incidentId, alerts[a].severity)'
    BY <1>0 DEF SeverityFollows
  <2>1. \A q \in Request : pc[q] # "failed"
    BY FailedStays
  <2>2. incidents'[alerts[a].incidentId] = incidents[alerts[a].incidentId]
    BY <1>1, <1>2
  <2>3. incidents[alerts[a].incidentId].severity <= alerts[a].severity
    BY <2>0, <2>1, <2>2, SevereAlready
  <2> QED  BY <1>0, <2>2, <2>3 DEF WillBeAsSevere
<1> QED  BY <1>3, <1>4, <1>5 DEF AlertsFit, Unaided, Reopens

\* POST /incidents beside the alerts.
LEMMA CreateSequentially ==
  ASSUME MaxInFlight = 1, CorrelationInv, AlertsSequentialInv, NEW r \in Request,
         NEW i \in Incident, NEW sev \in Severity, NEW sv \in ServiceList,
         NEW x \in User \cup {None}, Create(r, i, sev, sv, x), UNCHANGED <<alerts, aged>>
  PROVE  AlertsSequentialInv'
<1> PICK d : d = NewIncident(sev, sv, x)
  OBVIOUS
<1>1. Only(r) /\ pc[r] = "idle"
  BY OnlyStarts DEF Create
<1>2. /\ Adds(i, d) /\ pc' = [pc EXCEPT ![r] = "written"]
      /\ held' = held /\ writes' = writes
  BY DEF Create, Adds
<1>3. Alone(r) /\ pc'[r] = "written"
  BY <1>1, <1>2 DEF Alone, ShapeInv, CorrelationInv, Started
<1>4. d.mergedInto = None /\ ~At(r, "escalate")
  BY <1>1 DEF NewIncident, At
<1>5. AlertsFit'
  BY <1>1, <1>2, <1>3, <1>4, AddFits
<1>6. writes'[r] = {}
  BY <1>1, <1>2 DEF Only
<1> QED  BY <1>1, <1>3, <1>5, <1>6, AloneSequential

\* changeStatus() beside the alerts.
LEMMA ChangeStatusSequentially ==
  ASSUME MaxInFlight = 1, CorrelationInv, AlertsSequentialInv, NEW r \in Request,
         NEW i \in DOMAIN incidents, NEW s \in Status, ChangeStatus(r, i, s),
         UNCHANGED <<alerts, aged>>
  PROVE  AlertsSequentialInv'
<1> PICK w : w = WithStatus(incidents[i], s, r)
  OBVIOUS
<1>1. Only(r) /\ pc[r] = "idle" /\ Reopens /\ UNCHANGED incidents /\ ~At(r, "escalate")
  <2>1. Starts(r, "status") /\ UNCHANGED incidents
    BY DEF ChangeStatus
  <2> QED  BY <2>1, OnlyStarts DEF Reopens, At
<1>2. IsDoc(incidents[i])
  BY DEF CorrelationInv, SoundIncidents
<1>3. IsDoc(w) /\ w.ver = incidents[i].ver
  BY <1>2, ChangeStatusSends DEF CorrelationInv
<1>4. w.mergedInto = incidents[i].mergedInto /\ w.severity = incidents[i].severity
  BY <1>2, FieldFacts DEF WithStatus, IsDoc
<1>5. Return(r, "done") \/ Send(r, {Saves(i, incidents[i], w)})
  BY DEF ChangeStatus
<1>6. "done" \in Ended
  BY DEF Ended
<1> QED  BY <1>1, <1>3, <1>4, <1>5, <1>6, SaveSequentially

\* Handlers that change one field.
LEMMA FieldSequentially ==
  ASSUME CorrelationInv, AlertsSequentialInv, NEW r \in Request, Only(r), pc[r] = "idle",
         NEW i \in DOMAIN incidents, NEW f \in {"severity", "assignee"},
         NEW x \in FieldType[f], f = "severity" => Regrades, NEW answer \in Ended,
         \/ Return(r, answer)
         \/ Send(r, {Saves(i, incidents[i], [incidents[i] EXCEPT ![f] = x])}),
         UNCHANGED <<incidents, alerts, aged>>
  PROVE  AlertsSequentialInv'
<1> PICK w : w = [incidents[i] EXCEPT ![f] = x]
  OBVIOUS
<1>1. IsDoc(incidents[i]) /\ f \in Field
  BY FieldFacts DEF CorrelationInv, SoundIncidents
<1>2. IsDoc(w) /\ w.ver = incidents[i].ver
  BY <1>1, ExceptType
<1>3. /\ w.mergedInto = incidents[i].mergedInto /\ w.status = incidents[i].status
      /\ Regrades \/ w.severity = incidents[i].severity
  BY <1>1, FieldFacts DEF IsDoc
<1>4. ~At(r, "escalate")
  BY DEF At
<1> QED  BY <1>2, <1>3, <1>4, SaveSequentially

\* update() beside the alerts.
LEMMA UpdateSequentially ==
  ASSUME MaxInFlight = 1, CorrelationInv, AlertsSequentialInv, NEW r \in Request,
         NEW i \in DOMAIN incidents, NEW body \in Body, Update(r, i, body),
         UNCHANGED <<alerts, aged>>
  PROVE  AlertsSequentialInv'
<1> DEFINE u == UpdateFields(r, incidents[i], body)
<1>1. Only(r) /\ pc[r] = "idle" /\ UNCHANGED incidents /\ ~At(r, "escalate")
  <2>1. Starts(r, "update") /\ UNCHANGED incidents
    BY DEF Update
  <2> QED  BY <2>1, OnlyStarts DEF At
<1>2. /\ "mergedInto" \notin DOMAIN u
      /\ "status" \in DOMAIN u => Reopens
      /\ "severity" \in DOMAIN u => Regrades
  <2> DEFINE given == {f \in DOMAIN body : Present(body, f)}
  <2>1. DOMAIN u \subseteq given \cup {"key", "resolvedAt"}
    BY DEF UpdateFields
  <2>2. DOMAIN body = {"status", "severity", "services", "assignee", "tags"}
    BY DEF Body
  <2>3. "status" \notin BodyField => body.status = <<>>
    BY DEF Body, Optional
  <2>4. "severity" \notin BodyField => body.severity = <<>>
    BY DEF Body, Optional
  <2> HIDE DEF u
  <2>5. "mergedInto" \notin DOMAIN u
    BY <2>1, <2>2
  <2>6. "status" \in DOMAIN u => "status" \in BodyField
    BY <2>1, <2>3 DEF Present
  <2>7. "severity" \in DOMAIN u => "severity" \in BodyField
    BY <2>1, <2>4 DEF Present
  <2> QED  BY <2>5, <2>6, <2>7 DEF Reopens, Regrades
<1>4. Send(r, {SetCommand(i, u)}) \/ Return(r, "refused")
  BY DEF Update
<1> HIDE DEF u
<1> PICK c : c = SetCommand(i, u)
  OBVIOUS
<1>5. Accepts(incidents[c.doc], c) /\ SaveFits(c)'
  <2>1. c.doc = i /\ c.where = AnyVersion /\ c.set = u
    BY DEF SetCommand
  <2> QED  BY <1>2, <2>1 DEF Accepts, SaveFits, Reopens, Regrades
<1>6. CASE Send(r, {c})
  <2>1. /\ \A b, e \in {c} : b.doc = e.doc => b = e
        /\ \A e \in {c} : Accepts(incidents[e.doc], e) /\ SaveFits(e)'
    BY <1>5
  <2> QED  BY <1>1, <1>6, <2>1, SendSequentially
<1>7. CASE Return(r, "refused")
  BY <1>1, <1>7, ReturnSequentially DEF Ended
<1> QED  BY <1>4, <1>6, <1>7

\* The first of two reads, of relate, unrelate and merge.
LEMMA ReadFirstSequentially ==
  ASSUME MaxInFlight = 1, CorrelationInv, AlertsSequentialInv, NEW r \in Request,
         NEW e \in PairStep, NEW i \in DOMAIN incidents, NEW j \in DOMAIN incidents,
         ReadFirst(r, e, i, j), UNCHANGED <<alerts, aged>>
  PROVE  AlertsSequentialInv'
<1> PICK h : h = [step |-> e, source |-> i, loaded |-> incidents[i], target |-> j]
  OBVIOUS
<1>1. Starts(r, e) /\ UNCHANGED incidents /\ Await(r, h)
  BY DEF ReadFirst
<1>2. Only(r) /\ pc[r] = "idle" /\ ~At(r, "escalate")
  BY <1>1, OnlyStarts DEF At
<1>3. HoldsStored(h)
  <2>1. h.step = e /\ h.source = i /\ h.loaded = incidents[i]
    OBVIOUS
  <2> QED  BY <2>1 DEF HoldsStored, PairStep
<1> QED  BY <1>1, <1>2, <1>3, AwaitSequentially

\* A handler of Incidents starts beside the alerts.
LEMMA BeginSequentially ==
  ASSUME MaxInFlight = 1, CorrelationInv, AlertsSequentialInv, NEW r \in Request, Begin(r),
         UNCHANGED <<alerts, aged>>
  PROVE  AlertsSequentialInv'
<1>1. ASSUME NEW i \in Incident, NEW sev \in Severity, NEW sv \in ServiceList,
             NEW a \in User \cup {None}, Create(r, i, sev, sv, a)
      PROVE  AlertsSequentialInv'
  BY <1>1, CreateSequentially
<1>2. ASSUME NEW i \in DOMAIN incidents, NEW s \in Status, ChangeStatus(r, i, s)
      PROVE  AlertsSequentialInv'
  BY <1>2, ChangeStatusSequentially
<1>3. ASSUME NEW i \in DOMAIN incidents, NEW sev \in Severity, ChangeSeverity(r, i, sev)
      PROVE  AlertsSequentialInv'
  <2>1. /\ Starts(r, "severity") /\ UNCHANGED incidents
        /\ \/ Return(r, "done")
           \/ Send(r, {Saves(i, incidents[i], [incidents[i] EXCEPT !["severity"] = sev])})
    BY <1>3 DEF ChangeSeverity
  <2>2. Only(r) /\ pc[r] = "idle" /\ Regrades
    BY <2>1, OnlyStarts DEF Regrades
  <2> QED  BY <2>1, <2>2, FieldSequentially, FieldFacts DEF Ended
<1>4. ASSUME NEW i \in DOMAIN incidents, NEW a \in User \cup {None}, Assign(r, i, a)
      PROVE  AlertsSequentialInv'
  <2>1. /\ Starts(r, "assign") /\ UNCHANGED incidents
        /\ \/ Return(r, "refused")
           \/ Send(r, {Saves(i, incidents[i], [incidents[i] EXCEPT !["assignee"] = a])})
    BY <1>4 DEF Assign
  <2>2. Only(r) /\ pc[r] = "idle"
    BY <2>1, OnlyStarts
  <2> QED  BY <2>1, <2>2, FieldSequentially, FieldFacts DEF Ended
<1>5. ASSUME NEW i \in DOMAIN incidents, NEW b \in Body, Update(r, i, b)
      PROVE  AlertsSequentialInv'
  BY <1>5, UpdateSequentially
<1>6. ASSUME NEW i \in DOMAIN incidents, NEW j \in DOMAIN incidents,
             NEW e \in {"relate", "unrelate"}, ReadFirst(r, e, i, j)
      PROVE  AlertsSequentialInv'
  BY <1>6, ReadFirstSequentially DEF PairStep
<1> QED  BY <1>1, <1>2, <1>3, <1>4, <1>5, <1>6 DEF Begin

\* What an escalation holds must be saved; other steps may wait.
LEMMA AtFacts ==
  ASSUME CorrelationInv, AlertsSequentialInv, NEW r \in Request, NEW step, At(r, step)
  PROVE  /\ Only(r) /\ pc[r] = "working" /\ writes[r] = {}
         /\ HeldInv(r, held[r]) /\ HoldsStored(held[r]) /\ held[r].step = step
         /\ step # "escalate" => ~At(r, "escalate")
<1>1. pc[r] = "working" /\ held[r].step = step
  BY DEF At
<1>2. Only(r)
  BY <1>1, OnlyWorks
<1>3. HeldInv(r, held[r]) /\ HoldsStored(held[r])
  BY <1>1 DEF CorrelationInv, AlertsSequentialInv
<1> QED  BY <1>1, <1>2, <1>3 DEF Only, At

\* A save of another list of links fits.
LEMMA LinksFit ==
  ASSUME CorrelationInv, NEW i \in DOMAIN incidents, NEW S \in SUBSET Incident,
         NEW d, d = incidents[i], UNCHANGED incidents
  PROVE  LET c == Saves(i, d, [d EXCEPT !.related = S])
         IN  c.doc = i /\ Accepts(incidents[c.doc], c) /\ SaveFits(c)'
<1> DEFINE w == [d EXCEPT !["related"] = S]
           c == Saves(i, d, w)
<1>1. IsDoc(d) /\ d.severity \in Int
  BY StoredFacts
<1>0. S \in FieldType["related"] /\ "related" \in Field
  BY FieldFacts
<1>2. IsDoc(w) /\ w.ver = d.ver
  BY <1>0, <1>1, ExceptType
<1>3. w.status = d.status /\ w.severity = d.severity /\ w.mergedInto = d.mergedInto
  BY <1>1, FieldFacts DEF IsDoc
<1> HIDE DEF w
<1>4. IsSave(c, i, d, w, FALSE)
  BY <1>1, <1>2, SaveFacts
<1>5. (Regrades \/ w.severity <= d.severity) /\ (Reopens \/ w.status \in {d.status, Resolved})
  BY <1>1, <1>3
<1> HIDE DEF c
<1>6. c.doc = i /\ Accepts(incidents[c.doc], c) /\ SaveFits(c)'
  BY <1>2, <1>3, <1>4, <1>5, SaveIsFit
<1> QED  BY <1>6 DEF c, w

\* Handler r sends copies of i and j with the lists of links S and T.
SendsLinks(r, i, s, S, j, t, T) ==
  Send(r, {Saves(i, s, [s EXCEPT !.related = S]), Saves(j, t, [t EXCEPT !.related = T])})

\* Both incidents of a pair are saved as they were loaded but for their links.
LEMMA PairSequentially ==
  ASSUME CorrelationInv, AlertsSequentialInv, NEW r \in Request, Only(r), pc[r] # "failed",
         ~At(r, "escalate"), NEW i \in DOMAIN incidents, NEW j \in DOMAIN incidents,
         NEW s, s = incidents[i], NEW t, t = incidents[j],
         NEW S \in SUBSET Incident, NEW T \in SUBSET Incident, i = j => S = T,
         SendsLinks(r, i, s, S, j, t, T),
         UNCHANGED <<incidents, alerts, aged>>
  PROVE  AlertsSequentialInv'
<1> DEFINE c == Saves(i, s, [s EXCEPT !.related = S])
           b == Saves(j, t, [t EXCEPT !.related = T])
<1>0. UNCHANGED incidents
  OBVIOUS
<1>1. c.doc = i /\ Accepts(incidents[c.doc], c) /\ SaveFits(c)'
  BY <1>0, LinksFit
<1>2. b.doc = j /\ Accepts(incidents[b.doc], b) /\ SaveFits(b)'
  BY <1>0, LinksFit
<1>3. i = j => c = b
  OBVIOUS
<1>4. Send(r, {c, b})
  BY DEF SendsLinks
<1> HIDE DEF c, b
<1>5. /\ \A x, y \in {c, b} : x.doc = y.doc => x = y
      /\ \A x \in {c, b} : Accepts(incidents[x.doc], x) /\ SaveFits(x)'
  BY <1>1, <1>2, <1>3
<1> QED  BY <1>4, <1>5, SendSequentially

\* addRelated() beside the alerts.
LEMMA RelateSequentially ==
  ASSUME CorrelationInv, AlertsSequentialInv, NEW r \in Request, Relate(r),
         UNCHANGED <<alerts, aged>>
  PROVE  AlertsSequentialInv'
<1> PICK h : h = held[r]
  OBVIOUS
<1> PICK s : s = h.loaded
  OBVIOUS
<1> PICK t : t = incidents[h.target]
  OBVIOUS
<1>1. At(r, "relate") /\ UNCHANGED incidents
  BY DEF Relate
<1>2. /\ Only(r) /\ pc[r] = "working" /\ ~At(r, "escalate")
      /\ s = incidents[h.source] /\ h.source \in DOMAIN incidents /\ h.target \in DOMAIN incidents
  BY <1>1, AtFacts DEF HeldInv, HoldsStored, PairStep, IsCopy
<1>3. CASE CanRelate(h.source, s, h.target, t)
  <2>1. Send(r, {Saves(h.source, s, [s EXCEPT !.related = s.related \cup {h.target}]),
                 Saves(h.target, t, [t EXCEPT !.related = t.related \cup {h.source}])})
    BY <1>3 DEF Relate
  <2>2. h.source # h.target
    BY <1>3 DEF CanRelate
  <2>3. s.related \cup {h.target} \in SUBSET Incident /\ t.related \cup {h.source} \in SUBSET Incident
    BY <1>2, StoredFacts, FieldFacts DEF IsDoc, CorrelationInv, SoundIncidents
  <2> PICK S \in SUBSET Incident : S = s.related \cup {h.target}
    BY <2>3
  <2> PICK T \in SUBSET Incident : T = t.related \cup {h.source}
    BY <2>3
  <2>4. Send(r, {Saves(h.source, s, [s EXCEPT !.related = S]),
                 Saves(h.target, t, [t EXCEPT !.related = T])})
    BY <2>1
  <2>5. UNCHANGED <<incidents, alerts, aged>>
    BY <1>1
  <2> PICK i \in DOMAIN incidents : i = h.source
    BY <1>2
  <2> PICK j \in DOMAIN incidents : j = h.target
    BY <1>2
  <2>6. SendsLinks(r, i, s, S, j, t, T) /\ (i = j => S = T)
    BY <2>2, <2>4 DEF SendsLinks
  <2>7. pc[r] # "failed" /\ s = incidents[i] /\ t = incidents[j]
    BY <1>2
  <2> QED  BY <1>2, <2>5, <2>6, <2>7, PairSequentially
<1>4. CASE ~CanRelate(h.source, s, h.target, t)
  <2>1. Return(r, "refused")
    BY <1>4 DEF Relate
  <2> QED  BY <1>1, <1>2, <2>1, ReturnSequentially DEF Ended
<1> QED  BY <1>3, <1>4

\* removeRelated() beside the alerts, also of an incident from itself.
LEMMA UnrelateSequentially ==
  ASSUME CorrelationInv, AlertsSequentialInv, NEW r \in Request, Unrelate(r),
         UNCHANGED <<alerts, aged>>
  PROVE  AlertsSequentialInv'
<1> PICK h : h = held[r]
  OBVIOUS
<1> PICK s : s = h.loaded
  OBVIOUS
<1> PICK t : t = incidents[h.target]
  OBVIOUS
<1>1. At(r, "unrelate") /\ UNCHANGED incidents
  BY DEF Unrelate
<1>2. /\ Only(r) /\ pc[r] = "working" /\ ~At(r, "escalate")
      /\ s = incidents[h.source] /\ h.source \in DOMAIN incidents /\ h.target \in DOMAIN incidents
  BY <1>1, AtFacts DEF HeldInv, HoldsStored, PairStep, IsCopy
<1>3. Send(r, {Saves(h.source, s, [s EXCEPT !.related = s.related \ {h.target}]),
               Saves(h.target, t, [t EXCEPT !.related = t.related \ {h.source}])})
  BY DEF Unrelate
<1>4. s.related \ {h.target} \in SUBSET Incident /\ t.related \ {h.source} \in SUBSET Incident
  BY <1>2, StoredFacts, FieldFacts DEF IsDoc
<1>5. h.source = h.target => s.related \ {h.target} = t.related \ {h.source}
  BY <1>2
<1> PICK S \in SUBSET Incident : S = s.related \ {h.target}
  BY <1>4
<1> PICK T \in SUBSET Incident : T = t.related \ {h.source}
  BY <1>4
<1>6. Send(r, {Saves(h.source, s, [s EXCEPT !.related = S]),
               Saves(h.target, t, [t EXCEPT !.related = T])})
  BY <1>3
<1>7. (h.source = h.target => S = T) /\ UNCHANGED <<incidents, alerts, aged>>
  BY <1>1, <1>5
<1> PICK i \in DOMAIN incidents : i = h.source
  BY <1>2
<1> PICK j \in DOMAIN incidents : j = h.target
  BY <1>2
<1>8. SendsLinks(r, i, s, S, j, t, T)
  BY <1>6 DEF SendsLinks
<1>9. pc[r] # "failed" /\ s = incidents[i] /\ t = incidents[j] /\ (i = j => S = T)
  BY <1>2, <1>7
<1> QED  BY <1>2, <1>7, <1>8, <1>9, PairSequentially

\* merge() loads the second incident.
LEMMA MergeGuardsSequentially ==
  ASSUME CorrelationInv, AlertsSequentialInv, NEW r \in Request, MergeGuards(r)
  PROVE  AlertsSequentialInv'
<1> PICK h : h = held[r]
  OBVIOUS
<1> PICK t : t = incidents[h.target]
  OBVIOUS
<1> PICK n : n = [step |-> "collect", source |-> h.source, s |-> h.loaded,
                  target |-> h.target, t |-> t]
  OBVIOUS
<1>1. At(r, "merge") /\ UNCHANGED <<incidents, alerts, aged>>
  BY DEF MergeGuards
<1>2. /\ Only(r) /\ pc[r] = "working" /\ ~At(r, "escalate") /\ h.loaded = incidents[h.source]
  BY <1>1, AtFacts DEF HoldsStored
<1>3. Return(r, "refused") \/ (Await(r, n) /\ t.status # Resolved)
  BY DEF MergeGuards
<1>4. ASSUME t.status # Resolved PROVE HoldsStored(n)
  <2>1. n.step = "collect" /\ n.source = h.source /\ n.s = h.loaded /\ n.target = h.target /\ n.t = t
    OBVIOUS
  <2> QED  BY <1>2, <1>4, <2>1 DEF HoldsStored
<1>5. CASE Return(r, "refused")
  BY <1>1, <1>2, <1>5, ReturnSequentially DEF Ended
<1>6. CASE Await(r, n) /\ t.status # Resolved
  BY <1>1, <1>2, <1>4, <1>6, AwaitSequentially
<1> QED  BY <1>3, <1>5, <1>6

\* merge() collects the services of the alerts.
LEMMA CollectAlertsSequentially ==
  ASSUME CorrelationInv, AlertsSequentialInv, NEW r \in Request, CollectAlerts(r)
  PROVE  AlertsSequentialInv'
<1> PICK h : h = held[r]
  OBVIOUS
<1> PICK services : services =
      {alerts[a].service : a \in {b \in DOMAIN alerts : alerts[b].incidentId = h.source}}
  OBVIOUS
<1> PICK n : n = [step |-> "move", source |-> h.source, s |-> h.s,
                  target |-> h.target, t |-> h.t, services |-> services]
  OBVIOUS
<1>1. At(r, "collect") /\ UNCHANGED <<incidents, alerts, aged>> /\ Await(r, n)
  BY DEF CollectAlerts
<1>2. /\ Only(r) /\ pc[r] = "working" /\ ~At(r, "escalate") /\ HoldsStored(h) /\ h.step = "collect"
  BY <1>1, AtFacts
<1>3. HoldsStored(n)
  <2>1. n.step = "move" /\ n.source = h.source /\ n.s = h.s /\ n.target = h.target /\ n.t = h.t
    OBVIOUS
  <2> QED  BY <1>2, <2>1 DEF HoldsStored
<1> QED  BY <1>1, <1>2, <1>3, AwaitSequentially

\* pickHigherSeverity returns neither more nor less severe than it is given.
LEMMA HigherFacts ==
  ASSUME NEW s \in Severity, NEW q \in Severity
  PROVE  pickHigherSeverity(s, q) <= s /\ pickHigherSeverity(s, q) <= q
<1>1. Severity \subseteq Int
  BY SeverityAssumption
<1>2. s \in Int /\ q \in Int
  BY <1>1
<1> QED  BY <1>2 DEF pickHigherSeverity

\* A stored alert is well formed, and its severity comparable.
LEMMA StoredAlertFacts ==
  ASSUME CorrelationInv, NEW a \in DOMAIN alerts
  PROVE  /\ IsAlert(alerts[a]) /\ alerts[a].severity \in Severity
         /\ alerts[a].severity \in Int
<1>1. IsAlert(alerts[a])
  BY DEF CorrelationInv, AlertsInv
<1>2. alerts[a].severity \in Severity
  BY <1>1 DEF IsAlert
<1>3. Severity \subseteq Int
  BY SeverityAssumption
<1> QED  BY <1>1, <1>2, <1>3

\* ingest() looks for an alert of the fingerprint.
LEMMA IngestSequentially ==
  ASSUME MaxInFlight = 1, CorrelationInv, AlertsSequentialInv, NEW r \in Request,
         NEW p \in Report, Ingest(r, p)
  PROVE  AlertsSequentialInv'
<1>1. Starts(r, "ingest") /\ UNCHANGED <<incidents, alerts, aged>> /\ AlertsStay
  BY AlertsUnchanged DEF Ingest
<1>2. Only(r) /\ pc[r] = "idle" /\ ~At(r, "escalate")
  BY <1>1, OnlyStarts DEF At
<1>3. ASSUME NEW a \in Absorbing(p),
             Await(r, [step |-> "count", alert |-> a, loaded |-> alerts[a],
                       wanted |-> Repeated(alerts[a], p)])
      PROVE  AlertsSequentialInv'
  <2> PICK x : x = alerts[a]
    OBVIOUS
  <2> PICK y : y = Repeated(x, p)
    OBVIOUS
  <2> PICK h : h = [step |-> "count", alert |-> a, loaded |-> x, wanted |-> y]
    OBVIOUS
  <2>1. Await(r, h) /\ a \in DOMAIN alerts /\ IsAlert(x)
    BY <1>3 DEF Absorbing, CorrelationInv, AlertsInv
  <2>2. Started' = Started \cup {r} /\ Later
    BY <1>1, <2>1, SameIncidents, AwaitAlone DEF Alone, CorrelationInv
  <2>3. y.print = x.print /\ y.status = x.status /\ y.severity <= x.severity
    BY <1>2, <2>1, <2>2, RepeatedFacts
  <2>4. HoldsStored(h)
    <3>1. h.step = "count" /\ h.alert = a /\ h.loaded = x /\ h.wanted = y
      OBVIOUS
    <3> QED  BY <2>3, <3>1 DEF HoldsStored
  <2> QED  BY <1>1, <1>2, <2>1, <2>4, AwaitSequentially
<1>4. ASSUME Absorbing(p) = {}, Await(r, [step |-> "insert", wanted |-> NewAlert(p)])
      PROVE  AlertsSequentialInv'
  <2> PICK x : x = NewAlert(p)
    OBVIOUS
  <2> PICK h : h = [step |-> "insert", wanted |-> x]
    OBVIOUS
  <2>1. x.print = p.print /\ x.status = "UNASSIGNED"
    BY NewAlertFacts
  <2>2. \A a \in DOMAIN alerts \ aged : alerts[a].print # x.print
    BY <1>4, <2>1 DEF Absorbing
  <2>3. HoldsStored(h)
    <3>1. h.step = "insert" /\ h.wanted = x
      OBVIOUS
    <3> QED  BY <2>1, <2>2, <3>1 DEF HoldsStored
  <2>4. Await(r, h)
    BY <1>4
  <2> QED  BY <1>1, <1>2, <2>3, <2>4, AwaitSequentially
<1> QED  BY <1>3, <1>4 DEF Ingest

\* The engine looks for an incident.
LEMMA MatchSequentially ==
  ASSUME CorrelationInv, AlertsSequentialInv, NEW r \in Request, Match(r)
  PROVE  AlertsSequentialInv'
<1> PICK a : a = held[r].alert
  OBVIOUS
<1> PICK x : x = held[r].copy
  OBVIOUS
<1>1. At(r, "match") /\ UNCHANGED <<incidents, alerts, aged>>
  BY DEF Match
<1>2. /\ Only(r) /\ pc[r] = "working" /\ ~At(r, "escalate")
      /\ a \in DOMAIN alerts /\ x = alerts[a]
  BY <1>1, AtFacts DEF HoldsStored, HeldInv, AlertStepName
<1>3. ASSUME NEW i \in Attracting(x),
             Await(r, [step |-> "link", alert |-> a, copy |-> x,
                       incident |-> i, loaded |-> incidents[i],
                       severity |-> pickHigherSeverity(x.severity, incidents[i].severity)])
      PROVE  AlertsSequentialInv'
  <2> PICK e : e = incidents[i]
    OBVIOUS
  <2> PICK s : s = pickHigherSeverity(x.severity, e.severity)
    OBVIOUS
  <2> PICK h : h = [step |-> "link", alert |-> a, copy |-> x, incident |-> i,
                    loaded |-> e, severity |-> s]
    OBVIOUS
  <2>1. Await(r, h)
    BY <1>3
  <2>2. i \in DOMAIN incidents /\ e.status # Resolved
    BY DEF Attracting
  <2>3. s <= x.severity /\ s <= e.severity
    BY <1>2, <2>2, StoredFacts, StoredAlertFacts, HigherFacts
  <2>4. HoldsStored(h)
    <3>1. /\ h.step = "link" /\ h.alert = a /\ h.copy = x /\ h.incident = i
          /\ h.loaded = e /\ h.severity = s
      OBVIOUS
    <3> QED  BY <1>2, <2>2, <2>3, <3>1 DEF HoldsStored
  <2> QED  BY <1>1, <1>2, <2>1, <2>4, AwaitSequentially
<1>4. CASE Await(r, [step |-> "spawn", alert |-> a, copy |-> x])
  <2> PICK h : h = [step |-> "spawn", alert |-> a, copy |-> x]
    OBVIOUS
  <2>1. HoldsStored(h)
    <3>1. h.step = "spawn" /\ h.alert = a /\ h.copy = x
      OBVIOUS
    <3> QED  BY <1>2, <3>1 DEF HoldsStored
  <2> QED  BY <1>1, <1>2, <1>4, <2>1, AwaitSequentially
<1>5. \/ \E i \in Attracting(x) :
            Await(r, [step |-> "link", alert |-> a, copy |-> x,
                      incident |-> i, loaded |-> incidents[i],
                      severity |-> pickHigherSeverity(x.severity, incidents[i].severity)])
      \/ Await(r, [step |-> "spawn", alert |-> a, copy |-> x])
  BY DEF Match
<1> QED  BY <1>3, <1>4, <1>5

\* associate() and unassociate() load the alert.
LEMMA ReadAlertSequentially ==
  ASSUME MaxInFlight = 1, CorrelationInv, AlertsSequentialInv, NEW r \in Request,
         NEW a \in DOMAIN alerts, NEW e \in {"associate", "unassociate"}, NEW i,
         ReadAlert(r, e, a, i)
  PROVE  AlertsSequentialInv'
<1> PICK x : x = alerts[a]
  OBVIOUS
<1> PICK h : h = [step |-> e, alert |-> a, copy |-> x, incident |-> i]
  OBVIOUS
<1>1. Starts(r, e) /\ UNCHANGED <<incidents, alerts, aged>> /\ Await(r, h)
  BY DEF ReadAlert
<1>2. Only(r) /\ pc[r] = "idle" /\ e \in Endpoint /\ ~At(r, "escalate")
  BY <1>1, OnlyStarts DEF At
<1>3. HoldsStored(h)
  <2>1. h.step = e /\ h.alert = a /\ h.copy = x
    OBVIOUS
  <2> QED  BY <1>2, <2>1 DEF HoldsStored
<1> QED  BY <1>1, <1>2, <1>3, AwaitSequentially

\* associate() loads the incident.
LEMMA AssociateSequentially ==
  ASSUME CorrelationInv, AlertsSequentialInv, NEW r \in Request, Associate(r)
  PROVE  AlertsSequentialInv'
<1> PICK h : h = held[r]
  OBVIOUS
<1> PICK i : i = h.incident
  OBVIOUS
<1> PICK e : e = incidents[i]
  OBVIOUS
<1> PICK n : n = [step |-> "link", alert |-> h.alert, copy |-> h.copy, incident |-> i,
                  loaded |-> e, severity |-> e.severity]
  OBVIOUS
<1>1. At(r, "associate") /\ UNCHANGED <<incidents, alerts, aged>>
  BY DEF Associate
<1>2. /\ Only(r) /\ pc[r] = "working" /\ ~At(r, "escalate") /\ i \in DOMAIN incidents
      /\ h.copy = alerts[h.alert] /\ "associate" \in Endpoint
  BY <1>1, AtFacts DEF HoldsStored, HeldInv
<1>3. Return(r, "refused") \/ (Await(r, n) /\ e.status # Resolved)
  BY DEF Associate
<1>4. ASSUME e.status # Resolved PROVE HoldsStored(n)
  <2>1. /\ n.step = "link" /\ n.alert = h.alert /\ n.copy = h.copy /\ n.incident = i
        /\ n.loaded = e /\ n.severity = e.severity
    OBVIOUS
  <2>2. e.severity <= e.severity
    BY <1>2, StoredFacts
  <2> QED  BY <1>2, <1>4, <2>1, <2>2 DEF HoldsStored
<1>5. CASE Return(r, "refused")
  BY <1>1, <1>2, <1>5, ReturnSequentially DEF Ended
<1>6. CASE Await(r, n) /\ e.status # Resolved
  BY <1>1, <1>2, <1>4, <1>6, AwaitSequentially
<1> QED  BY <1>3, <1>5, <1>6

\* A handler that was to raise incident i to s need not, or sends the save.
LEMMA EscalateFits ==
  ASSUME CorrelationInv, AlertsSequentialInv, NEW r \in Request, Only(r), Alone(r), pc[r] = "working",
         NEW i \in DOMAIN incidents, i = held[r].incident, NEW s \in Severity, s = held[r].severity,
         \/ incidents[i].status = Resolved
         \/ incidents[i].severity <= s
         \/ \E c \in writes'[r] : c.doc = i /\ "severity" \in DOMAIN c.set /\ c.set.severity = s,
         UNCHANGED <<incidents, alerts, aged>>
  PROVE  AlertsFit'
<1>1. UNCHANGED incidents /\ UNCHANGED alerts /\ UNCHANGED aged
  OBVIOUS
<1>2. AlertStatusAgrees' /\ OneAlertPerPrint'
  BY <1>1 DEF AlertsSequentialInv, AlertStatusAgrees, OneAlertPerPrint
<1>3. ~Reopens => NoneStranded'
  BY <1>1 DEF AlertsSequentialInv, NoneStranded, NoStrandedAlert
<1>4. ASSUME Unaided PROVE SeverityFollows'
  <2>0. SeverityFollows
    BY <1>4 DEF AlertsSequentialInv, Unaided
  <2> SUFFICES ASSUME \A q \in Request : pc'[q] # "failed", NEW a \in DOMAIN alerts,
                      alerts[a].incidentId # None,
                      incidents[alerts[a].incidentId].status # Resolved
               PROVE  WillBeAsSevere(alerts[a].incidentId, alerts[a].severity)'
    BY <1>1 DEF SeverityFollows
  <2> PICK j : j = alerts[a].incidentId
    OBVIOUS
  <2> PICK v : v = alerts[a].severity
    OBVIOUS
  <2>1. \A q \in Request : pc[q] # "failed"
    BY FailedStays
  <2>2. WillBeAsSevere(j, v)
    BY <2>0, <2>1 DEF SeverityFollows
  <2>3. CASE incidents[j].severity <= v
    BY <1>1, <2>3 DEF WillBeAsSevere
  <2>4. CASE ~(incidents[j].severity <= v)
    <3>1. \A q \in Request : writes[q] = {} /\ (q # r => ~At(q, "escalate"))
      BY DEF Only, At, InFlight
    <3>2. j = i /\ s <= v
      BY <2>2, <2>4, <3>1 DEF WillBeAsSevere
    <3>3. incidents[i].severity \in Int /\ v \in Int /\ s \in Int
      <4>1. Severity \subseteq Int
        BY SeverityAssumption
      <4> QED  BY <4>1, StoredFacts, StoredAlertFacts
    <3>4. ~(incidents[i].severity <= s)
      BY <2>4, <3>2, <3>3
    <3>5. PICK c \in writes'[r] : c.doc = i /\ "severity" \in DOMAIN c.set /\ c.set.severity = s
      BY <3>2, <3>4
    <3> QED  BY <3>2, <3>5 DEF WillBeAsSevere
  <2> QED  BY <2>3, <2>4
<1> QED  BY <1>2, <1>3, <1>4 DEF AlertsFit, Unaided, Reopens

\* A save that raises the severity only fits, and sends the severity.
LEMMA RaiseFits ==
  ASSUME CorrelationInv, NEW i \in DOMAIN incidents, NEW d, d = incidents[i],
         NEW s \in Severity, s < d.severity, UNCHANGED incidents
  PROVE  LET c == Saves(i, d, [d EXCEPT !.severity = s])
         IN  /\ c.doc = i /\ Accepts(incidents[c.doc], c) /\ SaveFits(c)'
             /\ "severity" \in DOMAIN c.set /\ c.set.severity = s
<1> DEFINE w == [d EXCEPT !["severity"] = s]
           c == Saves(i, d, w)
<1>0. s \in FieldType["severity"] /\ "severity" \in Field
  BY FieldFacts
<1>1. IsDoc(d) /\ d.severity \in Int /\ s \in Int
  <2>1. Severity \subseteq Int
    BY SeverityAssumption
  <2> QED  BY <2>1, StoredFacts
<1>2. IsDoc(w) /\ w.ver = d.ver
  BY <1>0, <1>1, ExceptType
<1>3. w.mergedInto = d.mergedInto /\ w.status = d.status /\ w.severity = s
  BY <1>1, FieldFacts DEF IsDoc
<1> HIDE DEF w
<1>4. IsSave(c, i, d, w, FALSE)
  BY <1>1, <1>2, SaveFacts
<1>5. (Regrades \/ w.severity <= d.severity) /\ (Reopens \/ w.status \in {d.status, Resolved})
  BY <1>1, <1>3
<1> HIDE DEF c
<1>6. c.doc = i /\ Accepts(incidents[c.doc], c) /\ SaveFits(c)'
  BY <1>2, <1>3, <1>4, <1>5, SaveIsFit
<1>7. "severity" \in DOMAIN c.set /\ c.set.severity = s
  <2>1. w.severity # d.severity
    BY <1>1, <1>3
  <2>2. "severity" \in DOMAIN c.set
    BY <1>0, <1>4, <2>1 DEF IsSave
  <2> QED  BY <1>3, <1>4, <2>2 DEF IsSave
<1> QED  BY <1>6, <1>7 DEF c, w

\* escalateIncident() saves the severity, or finds nothing to raise.
LEMMA EscalateSequentially ==
  ASSUME CorrelationInv, AlertsSequentialInv, NEW r \in Request, Escalate(r)
  PROVE  AlertsSequentialInv'
<1> PICK i : i = held[r].incident
  OBVIOUS
<1> PICK s : s = held[r].severity
  OBVIOUS
<1> PICK d : d = incidents[i]
  OBVIOUS
<1>1. At(r, "escalate") /\ UNCHANGED <<incidents, alerts, aged>> /\ UNCHANGED incidents
  BY DEF Escalate
<1>2. /\ Only(r) /\ pc[r] = "working" /\ i \in DOMAIN incidents /\ s \in Severity
  BY <1>1, AtFacts DEF HeldInv
<1>3. /\ IsDoc(d) /\ d.severity \in Int /\ s \in Int
  <2>1. Severity \subseteq Int
    BY SeverityAssumption
  <2> QED  BY <1>2, <2>1, StoredFacts
<1>4. CASE d.status # Resolved /\ s < d.severity
  <2> PICK c : c = Saves(i, d, [d EXCEPT !.severity = s])
    OBVIOUS
  <2>5. c.doc = i /\ Accepts(incidents[c.doc], c) /\ SaveFits(c)'
    BY <1>1, <1>2, <1>4, RaiseFits
  <2>6. "severity" \in DOMAIN c.set /\ c.set.severity = s
    BY <1>1, <1>2, <1>4, RaiseFits
  <2>7. Send(r, {c})
    BY <1>4 DEF Escalate
  <2>8. /\ Alone(r) /\ pc'[r] \in {"saving", "written"}
        /\ writes'[r] # {} => pc'[r] = "saving"
        /\ writes'[r] = {e \in {c} : DOMAIN e.set # {}}
    BY <2>7, SendAlone DEF CorrelationInv
  <2>9. writes'[r] = {c}
    BY <2>6, <2>8
  <2>10. AlertsFit'
    BY <1>1, <1>2, <2>5, <2>6, <2>8, <2>9, EscalateFits
  <2>11. /\ \A b \in writes'[r] : Accepts(incidents'[b.doc], b) /\ SaveFits(b)'
         /\ \A b, e \in writes'[r] : b.doc = e.doc => b = e
    BY <1>1, <2>5, <2>9
  <2> QED  BY <1>2, <2>8, <2>10, <2>11, AloneSequential
<1>5. CASE ~(d.status # Resolved /\ s < d.severity)
  <2>1. Return(r, "done")
    BY <1>5 DEF Escalate
  <2>2. Alone(r) /\ writes' = writes /\ pc'[r] = "done"
    BY <2>1, ReturnAlone DEF CorrelationInv, Ended
  <2>3. d.status = Resolved \/ d.severity <= s
    BY <1>3, <1>5
  <2>4. AlertsFit'
    BY <1>1, <1>2, <2>2, <2>3, EscalateFits
  <2>5. writes'[r] = {}
    BY <1>2, <2>2 DEF Only
  <2> QED  BY <1>2, <2>2, <2>4, <2>5, AloneSequential
<1> QED  BY <1>4, <1>5

\* alert.save() of a copy of the stored alert stores it as the handler left it.
LEMMA StoredAlert ==
  ASSUME CorrelationInv, NEW a \in DOMAIN alerts, NEW x, x = alerts[a], NEW y, IsAlert(y),
         StoreAlert(a, x, y)
  PROVE  /\ AlertsStay /\ DOMAIN alerts' = DOMAIN alerts
         /\ \A b \in DOMAIN alerts : b # a => alerts'[b] = alerts[b]
         /\ alerts'[a] = y
<1>1. IsAlert(x)
  BY DEF CorrelationInv, AlertsInv
<1>2. /\ AlertsStay /\ DOMAIN alerts' = DOMAIN alerts
      /\ \A b \in DOMAIN alerts : b # a => alerts'[b] = alerts[b]
  BY <1>1, StoreFacts
<1>3. \A f \in AlertField : alerts'[a][f] = y[f]
  <2>1. \A f \in AlertField : alerts'[a][f] = IF y[f] # x[f] THEN y[f] ELSE alerts[a][f]
    BY <1>1, StoreFacts
  <2> QED  BY <2>1
<1>4. PICK z : z = alerts'[a] /\ IsAlert(z)
  BY <1>2 DEF AlertsStay
<1>5. z = y
  BY <1>3, <1>4 DEF IsAlert
<1> QED  BY <1>2, <1>4, <1>5

\* One alert changes, or is new: y is what is stored of it.
OneAlert(a, y) ==
  /\ DOMAIN alerts' = DOMAIN alerts \cup {a} /\ alerts'[a] = y
  /\ \A b \in DOMAIN alerts : b # a => alerts'[b] = alerts[b]

\* It keeps its fingerprint, or has one that no recent alert has.
PrintFits(a, y) ==
  \/ a \in DOMAIN alerts /\ alerts[a].print = y.print
  \/ \A b \in DOMAIN alerts \ aged : alerts[b].print # y.print

\* An alert that fits joins those that fit.
LEMMA OneAlertFits ==
  ASSUME CorrelationInv, AlertsSequentialInv, NEW r \in Request, Only(r), Alone(r),
         pc[r] # "failed", ~At(r, "escalate"), NEW a, NEW y, OneAlert(a, y), PrintFits(a, y),
         (y.status = "UNASSIGNED") <=> (y.incidentId = None),
         ~Reopens /\ y.incidentId # None => incidents[y.incidentId].mergedInto = None,
         Unaided /\ pc'[r] # "failed" /\ y.incidentId # None
           /\ incidents[y.incidentId].status # Resolved
           => WillBeAsSevere(y.incidentId, y.severity)',
         UNCHANGED <<incidents, aged>>
  PROVE  AlertsFit'
<1>0. UNCHANGED incidents /\ UNCHANGED aged
  OBVIOUS
<1>1. /\ DOMAIN alerts' = DOMAIN alerts \cup {a} /\ alerts'[a] = y
      /\ \A b \in DOMAIN alerts : b # a => alerts'[b] = alerts[b]
  BY DEF OneAlert
<1>2. AlertStatusAgrees'
  BY <1>1 DEF AlertsSequentialInv, AlertStatusAgrees
<1>3. OneAlertPerPrint'
  <2> SUFFICES ASSUME NEW b \in DOMAIN alerts' \ aged, NEW e \in DOMAIN alerts' \ aged,
                      alerts'[b].print = alerts'[e].print
               PROVE  b = e
    BY <1>0 DEF OneAlertPerPrint
  <2>1. OneAlertPerPrint
    BY DEF AlertsSequentialInv
  <2>2. CASE b # a /\ e # a
    <3>1. b \in DOMAIN alerts \ aged /\ e \in DOMAIN alerts \ aged
      BY <1>1, <2>2
    <3>2. alerts[b].print = alerts[e].print
      BY <1>1, <2>2, <3>1
    <3> QED  BY <2>1, <3>1, <3>2 DEF OneAlertPerPrint
  <2>3. CASE a \in DOMAIN alerts /\ alerts[a].print = y.print
    <3>1. b \in DOMAIN alerts \ aged /\ e \in DOMAIN alerts \ aged
      BY <1>1, <2>3
    <3>2. alerts'[b].print = alerts[b].print /\ alerts'[e].print = alerts[e].print
      BY <1>1, <2>3
    <3> QED  BY <2>1, <3>1, <3>2 DEF OneAlertPerPrint
  <2>4. CASE \A k \in DOMAIN alerts \ aged : alerts[k].print # y.print
    <3>1. CASE b = a /\ e # a
      <4>1. e \in DOMAIN alerts \ aged /\ alerts'[e] = alerts[e]
        BY <1>1, <3>1
      <4> QED  BY <1>1, <2>4, <3>1, <4>1
    <3>2. CASE e = a /\ b # a
      <4>1. b \in DOMAIN alerts \ aged /\ alerts'[b] = alerts[b]
        BY <1>1, <3>2
      <4> QED  BY <1>1, <2>4, <3>2, <4>1
    <3> QED  BY <2>2, <3>1, <3>2
  <2> QED  BY <2>3, <2>4 DEF PrintFits
<1>4. ~Reopens => NoneStranded'
  BY <1>0, <1>1 DEF AlertsSequentialInv, NoneStranded, NoStrandedAlert
<1>5. ASSUME Unaided PROVE SeverityFollows'
  <2>0. SeverityFollows
    BY <1>5 DEF AlertsSequentialInv, Unaided
  <2> SUFFICES ASSUME \A q \in Request : pc'[q] # "failed", NEW b \in DOMAIN alerts',
                      alerts'[b].incidentId # None,
                      incidents[alerts'[b].incidentId].status # Resolved
               PROVE  WillBeAsSevere(alerts[b].incidentId, alerts[b].severity)'
    BY <1>0 DEF SeverityFollows
  <2>1. CASE b = a
    BY <1>1, <1>5, <2>1
  <2>2. CASE b # a
    <3>1. \A q \in Request : pc[q] # "failed"
      BY FailedStays
    <3>2. b \in DOMAIN alerts /\ alerts'[b] = alerts[b]
      BY <1>1, <2>2
    <3>3. incidents[alerts[b].incidentId].severity <= alerts[b].severity
      BY <2>0, <3>1, <3>2, SevereAlready
    <3> QED  BY <1>0, <3>2, <3>3 DEF WillBeAsSevere
  <2> QED  BY <2>1, <2>2
<1> QED  BY <1>2, <1>3, <1>4, <1>5 DEF AlertsFit, Unaided, Reopens

\* The repetition is counted.
LEMMA CountRepetitionSequentially ==
  ASSUME CorrelationInv, AlertsSequentialInv, NEW r \in Request, CountRepetition(r)
  PROVE  AlertsSequentialInv'
<1> PICK h : h = held[r]
  OBVIOUS
<1> PICK a : a = h.alert
  OBVIOUS
<1> PICK x : x = h.loaded
  OBVIOUS
<1> PICK y : y = h.wanted
  OBVIOUS
<1>1. At(r, "count") /\ UNCHANGED <<incidents, aged>> /\ StoreAlert(a, x, y)
  BY DEF CountRepetition
<1>2. /\ Only(r) /\ pc[r] = "working" /\ ~At(r, "escalate") /\ HeldInv(r, h) /\ HoldsStored(h)
      /\ h.step = "count"
  BY <1>1, AtFacts
<1>3. /\ a \in DOMAIN alerts /\ IsAlert(y) /\ x = alerts[a]
      /\ y.incidentId = x.incidentId /\ y.print = x.print /\ y.status = x.status
  BY <1>2 DEF HeldInv, HoldsStored
<1>4. OneAlert(a, y) /\ PrintFits(a, y)
  BY <1>1, <1>3, StoredAlert DEF OneAlert, PrintFits
<1>5. (y.status = "UNASSIGNED") <=> (y.incidentId = None)
  BY <1>3 DEF AlertsSequentialInv, AlertStatusAgrees
<1>6. ~Reopens /\ y.incidentId # None => incidents[y.incidentId].mergedInto = None
  BY <1>3 DEF AlertsSequentialInv, NoneStranded, NoStrandedAlert
<1>7. y.severity \in Int
  <2>1. Severity \subseteq Int
    BY SeverityAssumption
  <2> QED  BY <1>3, <2>1 DEF IsAlert
<1>8. CASE x.incidentId = None
  <2>1. Return(r, "done")
    BY <1>8 DEF CountRepetition
  <2>2. Alone(r) /\ writes' = writes /\ pc'[r] = "done"
    BY <2>1, ReturnAlone DEF CorrelationInv, Ended
  <2>3. AlertsFit'
    BY <1>1, <1>2, <1>3, <1>4, <1>5, <1>6, <1>8, <2>2, OneAlertFits
  <2>4. writes'[r] = {}
    BY <1>2, <2>2 DEF Only
  <2> QED  BY <1>2, <2>2, <2>3, <2>4, AloneSequential
<1>9. CASE x.incidentId # None
  <2> PICK n : n = [step |-> "escalate", incident |-> x.incidentId, severity |-> y.severity]
    OBVIOUS
  <2>1. Await(r, n) /\ n.step = "escalate" /\ n.incident = y.incidentId /\ n.severity = y.severity
    BY <1>3, <1>9 DEF CountRepetition
  <2>2. Alone(r) /\ writes' = writes /\ pc'[r] = "working" /\ held'[r] = n
    BY <2>1, AwaitAlone DEF CorrelationInv
  <2>3. WillBeAsSevere(y.incidentId, y.severity)'
    BY <1>7, <2>1, <2>2 DEF WillBeAsSevere, At
  <2>4. AlertsFit'
    BY <1>1, <1>2, <1>3, <1>4, <1>5, <1>6, <2>2, <2>3, OneAlertFits
  <2>5. writes'[r] = {}
    BY <1>2, <2>2 DEF Only
  <2>6. HoldsStored(held[r])'
    BY <2>1, <2>2 DEF HoldsStored
  <2> QED  BY <1>2, <2>2, <2>4, <2>5, <2>6, AloneSequential
<1> QED  BY <1>8, <1>9

\* The new alert is stored.
LEMMA InsertAlertSequentially ==
  ASSUME CorrelationInv, AlertsSequentialInv, NEW r \in Request, NEW a \in Alert, InsertAlert(r, a)
  PROVE  AlertsSequentialInv'
<1> PICK h : h = held[r]
  OBVIOUS
<1> PICK y : y = h.wanted
  OBVIOUS
<1> PICK n : n = [step |-> "match", alert |-> a, copy |-> y]
  OBVIOUS
<1>1. /\ At(r, "insert") /\ UNCHANGED <<incidents, aged>> /\ a \notin DOMAIN alerts
      /\ OneAlert(a, y) /\ Await(r, n)
  BY DEF InsertAlert, OneAlert
<1>2. /\ Only(r) /\ pc[r] = "working" /\ ~At(r, "escalate") /\ HeldInv(r, h) /\ HoldsStored(h)
      /\ h.step = "insert"
  BY <1>1, AtFacts
<1>3. y.incidentId = None /\ y.status = "UNASSIGNED" /\ PrintFits(a, y)
  BY <1>2 DEF HeldInv, HoldsStored, PrintFits
<1>4. Alone(r) /\ writes' = writes /\ pc'[r] = "working" /\ held'[r] = n
  BY <1>1, AwaitAlone DEF CorrelationInv
<1>5. AlertsFit'
  BY <1>1, <1>2, <1>3, <1>4, OneAlertFits
<1>6. writes'[r] = {}
  BY <1>2, <1>4 DEF Only
<1>7. HoldsStored(held[r])'
  <2>1. n.step = "match" /\ n.alert = a /\ n.copy = y /\ alerts'[a] = y
    BY <1>1 DEF OneAlert
  <2> QED  BY <1>4, <2>1 DEF HoldsStored
<1> QED  BY <1>2, <1>4, <1>5, <1>6, <1>7, AloneSequential

\* An incident is opened for the alert.
LEMMA SpawnSequentially ==
  ASSUME CorrelationInv, AlertsSequentialInv, NEW r \in Request, NEW i \in Incident, Spawn(r, i)
  PROVE  AlertsSequentialInv'
<1> PICK h : h = held[r]
  OBVIOUS
<1> PICK x : x = h.copy
  OBVIOUS
<1> PICK d : d = IncidentFor(x)
  OBVIOUS
<1> PICK n : n = [step |-> "attach", alert |-> h.alert, copy |-> x, incident |-> i]
  OBVIOUS
<1>1. /\ At(r, "spawn") /\ UNCHANGED <<alerts, aged>> /\ UNCHANGED alerts
      /\ Adds(i, d) /\ Await(r, n)
  BY DEF Spawn, Adds
<1>2. /\ Only(r) /\ pc[r] = "working" /\ ~At(r, "escalate") /\ x = alerts[h.alert]
      /\ h.alert \in DOMAIN alerts
  BY <1>1, AtFacts DEF HoldsStored, HeldInv, AlertStepName
<1>3. d.mergedInto = None /\ d.severity <= x.severity /\ incidents'[i] = d
  <2>1. IsAlert(x) /\ x.severity \in Int
    BY <1>2, StoredAlertFacts
  <2>2. d.mergedInto = None /\ d.severity = x.severity
    BY <2>1, IncidentForFacts
  <2> QED  BY <1>1, <2>1, <2>2 DEF Adds
<1>4. Alone(r) /\ writes' = writes /\ pc'[r] = "working" /\ held'[r] = n
  BY <1>1, AwaitAlone DEF CorrelationInv
<1>5. AlertsFit'
  BY <1>1, <1>2, <1>3, <1>4, AddFits
<1>6. writes'[r] = {}
  BY <1>2, <1>4 DEF Only
<1>7. HoldsStored(held[r])'
  <2>1. n.step = "attach" /\ n.alert = h.alert /\ n.copy = x /\ n.incident = i
    OBVIOUS
  <2> QED  BY <1>1, <1>2, <1>3, <1>4, <2>1 DEF HoldsStored
<1> QED  BY <1>2, <1>4, <1>5, <1>6, <1>7, AloneSequential

\* The alert is linked to an incident, or to none.
LEMMA LinkFits ==
  ASSUME CorrelationInv, AlertsSequentialInv, NEW r \in Request, Only(r), Alone(r),
         pc[r] # "failed", ~At(r, "escalate"), NEW a \in DOMAIN alerts, NEW x, x = alerts[a],
         NEW i \in DOMAIN incidents \cup {None}, StoreAlert(a, x, Linked(x, i)),
         ~Reopens /\ i # None => incidents[i].mergedInto = None,
         Unaided /\ pc'[r] # "failed" /\ i # None /\ incidents[i].status # Resolved
           => WillBeAsSevere(i, x.severity)',
         UNCHANGED <<incidents, aged>>
  PROVE  AlertsFit'
<1> PICK y : y = Linked(x, i)
  OBVIOUS
<1>1. IsAlert(x)
  BY StoredAlertFacts
<1>2. /\ IsAlert(y) /\ y.incidentId = i /\ y.print = x.print /\ y.severity = x.severity
      /\ y.status = IF i = None THEN "UNASSIGNED" ELSE "CORRELATED"
  BY <1>1, LinkedFacts
<1>3. OneAlert(a, y) /\ PrintFits(a, y)
  BY <1>2, StoredAlert DEF OneAlert, PrintFits
<1>4. (y.status = "UNASSIGNED") <=> (y.incidentId = None)
  BY <1>2
<1>5. Unaided /\ pc'[r] # "failed" /\ y.incidentId # None
        /\ incidents[y.incidentId].status # Resolved
        => WillBeAsSevere(y.incidentId, y.severity)'
  <2>1. y.incidentId = i /\ y.severity = x.severity
    BY <1>2
  <2> QED  BY <2>1
<1> QED  BY <1>2, <1>3, <1>4, <1>5, OneAlertFits

\* What a handler that does not reopen or regrade makes of the stored document.
Keeping(i, d, w) ==
  /\ i \in DOMAIN incidents /\ d = incidents[i] /\ IsDoc(w)
  /\ w.status = d.status /\ w.mergedInto = d.mergedInto /\ w.severity <= d.severity

\* Its save fits.
LEMMA KeepingFits ==
  ASSUME CorrelationInv, NEW i, NEW d, NEW w, NEW c, NEW assigned, Keeping(i, d, w),
         IsSave(c, i, d, w, assigned), UNCHANGED incidents
  PROVE  c.doc = i /\ Accepts(incidents[c.doc], c) /\ SaveFits(c)'
<1>1. /\ i \in DOMAIN incidents /\ d = incidents[i] /\ IsDoc(w)
      /\ w.status = d.status /\ w.mergedInto = d.mergedInto /\ w.severity <= d.severity
  BY DEF Keeping
<1> PICK k \in DOMAIN incidents : k = i
  BY <1>1
<1>2. (Regrades \/ w.severity <= d.severity) /\ (Reopens \/ w.status \in {d.status, Resolved})
  BY <1>1
<1>3. d = incidents[k] /\ IsSave(c, k, d, w, assigned)
  BY <1>1
<1>4. c.doc = k /\ Accepts(incidents[c.doc], c) /\ SaveFits(c)'
  BY <1>1, <1>2, <1>3, SaveIsFit
<1> QED  BY <1>4

\* The alert is linked, and the save of its incident sent.
LEMMA LinkAlertSequentially ==
  ASSUME CorrelationInv, AlertsSequentialInv, NEW r \in Request, LinkAlert(r)
  PROVE  AlertsSequentialInv'
<1> PICK h : h = held[r]
  OBVIOUS
<1> PICK a : a = h.alert
  OBVIOUS
<1> PICK x : x = h.copy
  OBVIOUS
<1> PICK i : i = h.incident
  OBVIOUS
<1> PICK d : d = h.loaded
  OBVIOUS
<1> PICK w : w = WithAlert(h)
  OBVIOUS
<1> PICK c : c = Saves(i, d, w)
  OBVIOUS
<1>1. /\ At(r, "link") /\ UNCHANGED <<incidents, aged>> /\ UNCHANGED incidents
      /\ StoreAlert(a, x, Linked(x, i))
      /\ Send(r, {c}) \/ Return(r, "failed")
  BY DEF LinkAlert, WithAlert
<1>2. /\ Only(r) /\ pc[r] = "working" /\ ~At(r, "escalate") /\ HeldInv(r, h) /\ HoldsStored(h)
      /\ h.step = "link"
  BY <1>1, AtFacts
<1>3. /\ a \in DOMAIN alerts /\ IsAlert(x) /\ IsCopy(r, i, d) /\ h.severity \in Severity
      /\ i \in DOMAIN incidents
  BY <1>2 DEF HeldInv, AlertStepName, IsCopy
<1>4. /\ x = alerts[a] /\ d = incidents[i] /\ d.status # Resolved
      /\ h.severity <= d.severity /\ ("associate" \notin Endpoint => h.severity <= x.severity)
  BY <1>2 DEF HoldsStored
<1>5. /\ IsDoc(w) /\ w.status = d.status /\ w.mergedInto = d.mergedInto
      /\ w.severity = h.severity /\ IsSave(c, i, d, w, FALSE)
  BY <1>3, WithAlertFacts, LinkSave DEF IsCopy
<1>6. c.doc = i /\ Accepts(incidents[c.doc], c) /\ SaveFits(c)'
  <2>1. Keeping(i, d, w)
    BY <1>3, <1>4, <1>5 DEF Keeping
  <2>2. UNCHANGED incidents /\ IsSave(c, i, d, w, FALSE)
    BY <1>1, <1>5
  <2>3. c.doc = i
    BY <2>1, <2>2, KeepingFits
  <2>4. Accepts(incidents[c.doc], c)
    BY <2>1, <2>2, KeepingFits
  <2>5. SaveFits(c)'
    BY <2>1, <2>2, KeepingFits
  <2> QED  BY <2>3, <2>4, <2>5
<1>7. /\ Alone(r) /\ pc'[r] \in {"saving", "written", "failed"}
      /\ writes'[r] # {} => pc'[r] = "saving"
      /\ writes'[r] \subseteq {c}
      /\ pc'[r] # "failed" => writes'[r] = {e \in {c} : DOMAIN e.set # {}}
  <2>1. CASE Send(r, {c})
    BY <2>1, SendAlone DEF CorrelationInv
  <2>2. CASE Return(r, "failed")
    BY <1>2, <2>2, ReturnAlone DEF CorrelationInv, Ended, Only
  <2> QED  BY <1>1, <2>1, <2>2
<1>8. ~Reopens /\ i # None => incidents[i].mergedInto = None
  BY <1>3, <1>4 DEF AlertsSequentialInv, NoneStranded, NoStrandedAlert
<1>9. ASSUME Unaided, pc'[r] # "failed" PROVE WillBeAsSevere(i, x.severity)'
  <2>1. h.severity <= x.severity
    BY <1>4, <1>9 DEF Unaided
  <2>2. CASE h.severity = d.severity
    BY <1>1, <1>4, <2>1, <2>2 DEF WillBeAsSevere
  <2>3. CASE h.severity # d.severity
    <3>1. "severity" \in Field
      BY FieldFacts
    <3>2. "severity" \in DOMAIN c.set
      BY <1>5, <2>3, <3>1 DEF IsSave
    <3>3. c.set.severity = h.severity
      BY <1>5, <3>2 DEF IsSave
    <3>4. c \in writes'[r]
      BY <1>7, <1>9, <3>2
    <3> QED  BY <1>6, <2>1, <3>2, <3>3, <3>4 DEF WillBeAsSevere
  <2> QED  BY <2>2, <2>3
<1>10. AlertsFit'
  BY <1>1, <1>2, <1>3, <1>4, <1>7, <1>8, <1>9, LinkFits
<1>11. /\ \A b \in writes'[r] : Accepts(incidents'[b.doc], b) /\ SaveFits(b)'
       /\ \A b, e \in writes'[r] : b.doc = e.doc => b = e
  BY <1>1, <1>6, <1>7
<1> QED  BY <1>2, <1>7, <1>10, <1>11, AloneSequential

\* The alert is linked to the incident that was opened for it.
LEMMA AttachAlertSequentially ==
  ASSUME CorrelationInv, AlertsSequentialInv, NEW r \in Request, AttachAlert(r)
  PROVE  AlertsSequentialInv'
<1> PICK h : h = held[r]
  OBVIOUS
<1> PICK a : a = h.alert
  OBVIOUS
<1> PICK x : x = h.copy
  OBVIOUS
<1> PICK i : i = h.incident
  OBVIOUS
<1>1. /\ At(r, "attach") /\ UNCHANGED <<incidents, aged>> /\ UNCHANGED incidents
      /\ StoreAlert(a, x, Linked(x, i)) /\ Send(r, {})
  BY DEF AttachAlert
<1>2. /\ Only(r) /\ pc[r] = "working" /\ ~At(r, "escalate") /\ HeldInv(r, h) /\ HoldsStored(h)
      /\ h.step = "attach"
  BY <1>1, AtFacts
<1>3. /\ a \in DOMAIN alerts /\ i \in DOMAIN incidents /\ x = alerts[a]
      /\ incidents[i].mergedInto = None /\ incidents[i].severity <= x.severity
  BY <1>2 DEF HeldInv, HoldsStored, AlertStepName
<1>4. Alone(r) /\ pc'[r] \in {"saving", "written"} /\ writes'[r] = {}
  BY <1>1, SendAlone DEF CorrelationInv
<1>5. WillBeAsSevere(i, x.severity)'
  BY <1>1, <1>3 DEF WillBeAsSevere
<1>6. AlertsFit'
  BY <1>1, <1>2, <1>3, <1>4, <1>5, LinkFits
<1> QED  BY <1>2, <1>4, <1>6, AloneSequential

\* The alert is detached.
LEMMA UnassociateSequentially ==
  ASSUME CorrelationInv, AlertsSequentialInv, NEW r \in Request, Unassociate(r)
  PROVE  AlertsSequentialInv'
<1> PICK h : h = held[r]
  OBVIOUS
<1> PICK a : a = h.alert
  OBVIOUS
<1> PICK x : x = h.copy
  OBVIOUS
<1>1. /\ At(r, "unassociate") /\ UNCHANGED <<incidents, aged>>
      /\ StoreAlert(a, x, Linked(x, None)) /\ (Return(r, "done") \/ Send(r, {}))
  BY DEF Unassociate
<1>2. /\ Only(r) /\ pc[r] = "working" /\ ~At(r, "escalate") /\ a \in DOMAIN alerts
      /\ x = alerts[a] /\ writes[r] = {}
  BY <1>1, AtFacts DEF HeldInv, HoldsStored, AlertStepName
<1>3. Alone(r) /\ writes'[r] = {} /\ pc'[r] # "working"
  <2>1. CASE Return(r, "done")
    BY <1>2, <2>1, ReturnAlone DEF CorrelationInv, Ended
  <2>2. CASE Send(r, {})
    BY <2>2, SendAlone DEF CorrelationInv
  <2> QED  BY <1>1, <2>1, <2>2
<1>4. AlertsFit'
  BY <1>1, <1>2, <1>3, LinkFits
<1> QED  BY <1>2, <1>3, <1>4, AloneSequential

\* merge() moves the alerts of source to target.
Moves(source, target) ==
  alerts' = [a \in DOMAIN alerts |-> IF alerts[a].incidentId = source
                                       THEN Linked(alerts[a], target) ELSE alerts[a]]

\* Alerts that move change their incident and status, the others nothing.
LEMMA MovedFacts ==
  ASSUME CorrelationInv, NEW i, NEW j \in DOMAIN incidents, Moves(i, j)
  PROVE  /\ DOMAIN alerts' = DOMAIN alerts
         /\ \A a \in DOMAIN alerts : alerts[a].incidentId # i => alerts'[a] = alerts[a]
         /\ \A a \in DOMAIN alerts :
              /\ alerts'[a].print = alerts[a].print
              /\ alerts'[a].severity = alerts[a].severity
              /\ alerts[a].incidentId = i =>
                   alerts'[a].incidentId = j /\ alerts'[a].status = "CORRELATED"
<1>1. /\ DOMAIN alerts' = DOMAIN alerts
      /\ \A a \in DOMAIN alerts : alerts'[a] = IF alerts[a].incidentId = i
                                                 THEN Linked(alerts[a], j) ELSE alerts[a]
  BY DEF Moves
<1>2. j # None
  BY NoneAssumption DEF CorrelationInv, SoundIncidents
<1>3. ASSUME NEW a \in DOMAIN alerts
      PROVE  /\ Linked(alerts[a], j).print = alerts[a].print
             /\ Linked(alerts[a], j).severity = alerts[a].severity
             /\ Linked(alerts[a], j).incidentId = j
             /\ Linked(alerts[a], j).status = "CORRELATED"
  BY <1>2, StoredAlertFacts, LinkedFacts
<1> QED  BY <1>1, <1>3

\* The moved alerts fit, if the save of the target sees to its severity.
LEMMA MovedFits ==
  ASSUME CorrelationInv, AlertsSequentialInv, NEW r \in Request, Only(r), Alone(r),
         pc[r] # "failed", ~At(r, "escalate"), NEW i \in DOMAIN incidents,
         NEW j \in DOMAIN incidents, Moves(i, j),
         incidents[i].status # Resolved, incidents[j].status # Resolved,
         \A v \in Int : incidents[i].severity <= v => WillBeAsSevere(j, v)',
         UNCHANGED <<incidents, aged>>
  PROVE  AlertsFit'
<1>0. UNCHANGED incidents /\ UNCHANGED aged /\ j # None
  BY NoneAssumption DEF CorrelationInv, SoundIncidents
<1>1. /\ DOMAIN alerts' = DOMAIN alerts
      /\ \A a \in DOMAIN alerts : alerts[a].incidentId # i => alerts'[a] = alerts[a]
      /\ \A a \in DOMAIN alerts :
           /\ alerts'[a].print = alerts[a].print
           /\ alerts'[a].severity = alerts[a].severity
           /\ alerts[a].incidentId = i =>
                alerts'[a].incidentId = j /\ alerts'[a].status = "CORRELATED"
  BY MovedFacts
<1>2. AlertStatusAgrees'
  <2> SUFFICES ASSUME NEW a \in DOMAIN alerts
               PROVE  (alerts'[a].status = "UNASSIGNED") <=> (alerts'[a].incidentId = None)
    BY <1>1 DEF AlertStatusAgrees
  <2>1. CASE alerts[a].incidentId = i
    BY <1>0, <1>1, <2>1
  <2>2. CASE alerts[a].incidentId # i
    <3>1. alerts'[a] = alerts[a]
      BY <1>1, <2>2
    <3> QED  BY <3>1 DEF AlertsSequentialInv, AlertStatusAgrees
  <2> QED  BY <2>1, <2>2
<1>3. OneAlertPerPrint'
  <2>1. OneAlertPerPrint
    BY DEF AlertsSequentialInv
  <2> QED  BY <1>0, <1>1, <2>1 DEF OneAlertPerPrint
<1>4. ASSUME ~Reopens PROVE NoneStranded'
  <2>0. NoneStranded
    BY <1>4 DEF AlertsSequentialInv
  <2>1. incidents[j].mergedInto = None
    BY <2>0 DEF NoneStranded, NoStrandedAlert
  <2>2. ASSUME NEW a \in DOMAIN alerts, alerts'[a].incidentId # None
        PROVE  incidents[alerts'[a].incidentId].mergedInto = None
    <3>1. CASE alerts[a].incidentId = i
      BY <1>1, <2>1, <3>1
    <3>2. CASE alerts[a].incidentId # i
      <4>1. alerts'[a] = alerts[a]
        BY <1>1, <3>2
      <4> QED  BY <2>0, <2>2, <4>1 DEF NoneStranded, NoStrandedAlert
    <3> QED  BY <3>1, <3>2
  <2> QED  BY <1>0, <1>1, <2>0, <2>2 DEF NoneStranded, NoStrandedAlert
<1>5. ASSUME Unaided PROVE SeverityFollows'
  <2>0. SeverityFollows
    BY <1>5 DEF AlertsSequentialInv, Unaided
  <2> SUFFICES ASSUME \A q \in Request : pc'[q] # "failed", NEW a \in DOMAIN alerts,
                      alerts'[a].incidentId # None,
                      incidents[alerts'[a].incidentId].status # Resolved
               PROVE  WillBeAsSevere(alerts[a].incidentId, alerts[a].severity)'
    BY <1>0, <1>1 DEF SeverityFollows
  <2>1. \A q \in Request : pc[q] # "failed"
    BY FailedStays
  <2> PICK v : v = alerts[a].severity
    OBVIOUS
  <2>2. v \in Int /\ alerts'[a].severity = v
    BY <1>1, StoredAlertFacts
  <2>3. CASE alerts[a].incidentId = i
    <3>1. i # None
      BY NoneAssumption DEF CorrelationInv, SoundIncidents
    <3>2. incidents[i].severity <= v
      BY <2>0, <2>1, <2>3, <3>1, SevereAlready
    <3>3. alerts'[a].incidentId = j
      BY <1>1, <2>3
    <3>4. WillBeAsSevere(j, v)'
      BY <2>2, <3>2
    <3> QED  BY <2>2, <3>3, <3>4
  <2>4. CASE alerts[a].incidentId # i
    <3>1. alerts'[a] = alerts[a]
      BY <1>1, <2>4
    <3>2. incidents[alerts[a].incidentId].severity <= alerts[a].severity
      BY <2>0, <2>1, <3>1, SevereAlready
    <3> QED  BY <1>0, <3>1, <3>2 DEF WillBeAsSevere
  <2> QED  BY <2>3, <2>4
<1> QED  BY <1>2, <1>3, <1>4, <1>5 DEF AlertsFit, Unaided, Reopens

\* The save that closes the source fits: no alert belongs to it any more.
LEMMA ClosingFits ==
  ASSUME CorrelationInv, NEW i \in DOMAIN incidents, NEW d, d = incidents[i], NEW w, NEW c,
         NEW assigned, IsSave(c, i, d, w, assigned), d.status # Resolved, w.status = Resolved,
         w.severity = d.severity, UNCHANGED incidents,
         \A a \in DOMAIN alerts' : alerts'[a].incidentId # i
  PROVE  c.doc = i /\ Accepts(incidents[c.doc], c) /\ SaveFits(c)'
<1>0. "status" \in Field /\ "related" # "status" /\ "related" # "severity"
  BY FieldFacts
<1>1. c.doc = i /\ c.where \in {AnyVersion, d.ver}
  BY DEF IsSave
<1>2. DOMAIN c.set = {f \in Field : w[f] # d[f]} \cup (IF assigned THEN {"related"} ELSE {})
  BY DEF IsSave
<1>3. "status" \in DOMAIN c.set /\ "severity" \notin DOMAIN c.set
  BY <1>0, <1>2
<1>4. c.set.status = Resolved
  BY <1>3 DEF IsSave
<1>5. Accepts(incidents[c.doc], c)
  BY <1>1 DEF Accepts
<1>6. SaveFits(c)'
  BY <1>1, <1>3, <1>4 DEF SaveFits
<1> QED  BY <1>1, <1>5, <1>6

\* merge() moves the alerts and sends both saves.
LEMMA MoveAlertsSequentially ==
  ASSUME CorrelationInv, AlertsSequentialInv, NEW r \in Request, MoveAlerts(r)
  PROVE  AlertsSequentialInv'
<1> PICK h : h = held[r]
  OBVIOUS
<1> PICK i : i = h.source
  OBVIOUS
<1> PICK j : j = h.target
  OBVIOUS
<1> PICK s : s = h.s
  OBVIOUS
<1> PICK t : t = h.t
  OBVIOUS
<1> PICK v : v = MergedSource(r, h)
  OBVIOUS
<1> PICK w : w = MergedTarget(h)
  OBVIOUS
<1> PICK first : first = (i \notin t.related)
  OBVIOUS
<1> PICK second : second = (j \notin s.related)
  OBVIOUS
<1> PICK c : c = SavesList(i, s, v, first)
  OBVIOUS
<1> PICK b : b = SavesList(j, t, w, second)
  OBVIOUS
<1>1. /\ At(r, "move") /\ UNCHANGED <<incidents, aged>> /\ UNCHANGED incidents
      /\ Moves(i, j)
  BY DEF MoveAlerts, Moves
<1>2. Send(r, {c, b})
  BY DEF MoveAlerts, Settle
<1>3. /\ Only(r) /\ pc[r] = "working" /\ ~At(r, "escalate") /\ HeldInv(r, h) /\ HoldsStored(h)
      /\ h.step = "move"
  BY <1>1, AtFacts
<1>4. /\ IsCopy(r, i, s) /\ IsCopy(r, j, t) /\ i # j /\ s.status # Resolved
      /\ h.services \subseteq ServiceName
  BY <1>3 DEF HeldInv, MergeStep
<1>5. s = incidents[i] /\ t = incidents[j] /\ t.status # Resolved
  BY <1>3 DEF HoldsStored
<1>6. /\ i \in DOMAIN incidents /\ j \in DOMAIN incidents
      /\ IsDoc(s) /\ IsDoc(t)
  BY <1>4 DEF IsCopy
<1>7. s.severity \in Severity /\ t.severity \in Severity /\ s.severity \in Int /\ t.severity \in Int
  BY <1>5, <1>6, StoredFacts
<1>8. v.status = Resolved /\ v.severity = s.severity
  <2>1. IsCopy(r, h.source, h.s) /\ IsCopy(r, h.target, h.t)
    BY <1>4
  <2>2. v.status = Resolved
    BY <2>1, MergedSourceFacts
  <2>3. v.severity = h.s.severity
    <3>1. DOMAIN s = Field \cup {"ver"}
      BY <1>6 DEF IsDoc
    <3> QED  BY <3>1, FieldFacts DEF MergedSource, WithStatus
  <2> QED  BY <2>2, <2>3
<1>9. /\ IsDoc(w) /\ w.status = t.status /\ w.mergedInto = t.mergedInto
      /\ w.severity = pickHigherSeverity(s.severity, t.severity)
  BY <1>4, MergedTargetFacts
<1>10. w.severity <= s.severity /\ w.severity <= t.severity /\ w.severity \in Int
  <2>1. Severity \subseteq Int
    BY SeverityAssumption
  <2>2. w.severity \in Severity
    BY <1>7, <1>9, SeverityFacts
  <2> QED  BY <1>7, <1>9, <2>1, <2>2, HigherFacts
<1>11. IsSave(c, i, s, v, first) /\ IsSave(b, j, t, w, second)
  BY <1>4, SettleSaves
<1>12. \A a \in DOMAIN alerts' : alerts'[a].incidentId # i
  BY <1>1, <1>4, <1>6, MovedFacts
<1>13. c.doc = i /\ Accepts(incidents[c.doc], c) /\ SaveFits(c)'
  <2> PICK k \in DOMAIN incidents : k = i
    BY <1>6
  <2>1. IsSave(c, k, s, v, first) /\ s = incidents[k] /\ UNCHANGED incidents
    BY <1>1, <1>5, <1>11
  <2>2. \A a \in DOMAIN alerts' : alerts'[a].incidentId # k
    BY <1>12
  <2>3. c.doc = k
    BY <1>4, <1>8, <2>1, <2>2, ClosingFits
  <2>4. Accepts(incidents[c.doc], c)
    BY <1>4, <1>8, <2>1, <2>2, ClosingFits
  <2>5. SaveFits(c)'
    BY <1>4, <1>8, <2>1, <2>2, ClosingFits
  <2> QED  BY <2>3, <2>4, <2>5
<1>14. b.doc = j /\ Accepts(incidents[b.doc], b) /\ SaveFits(b)'
  <2>1. Keeping(j, t, w)
    BY <1>5, <1>6, <1>9, <1>10 DEF Keeping
  <2>2. UNCHANGED incidents /\ IsSave(b, j, t, w, second)
    BY <1>1, <1>11
  <2>3. b.doc = j
    BY <2>1, <2>2, KeepingFits
  <2>4. Accepts(incidents[b.doc], b)
    BY <2>1, <2>2, KeepingFits
  <2>5. SaveFits(b)'
    BY <2>1, <2>2, KeepingFits
  <2> QED  BY <2>3, <2>4, <2>5
<1>15. /\ Alone(r) /\ pc'[r] \in {"saving", "written"}
       /\ writes'[r] # {} => pc'[r] = "saving"
       /\ writes'[r] = {e \in {c, b} : DOMAIN e.set # {}}
  BY <1>2, SendAlone DEF CorrelationInv
<1>16. ASSUME NEW u \in Int, s.severity <= u PROVE WillBeAsSevere(j, u)'
  <2>1. w.severity <= u
    BY <1>7, <1>10, <1>16
  <2>2. CASE w.severity = t.severity
    BY <1>1, <1>5, <2>1, <2>2 DEF WillBeAsSevere
  <2>3. CASE w.severity # t.severity
    <3>1. "severity" \in Field
      BY FieldFacts
    <3>2. "severity" \in DOMAIN b.set
      BY <1>11, <2>3, <3>1 DEF IsSave
    <3>3. b.set.severity = w.severity
      BY <1>11, <3>2 DEF IsSave
    <3>4. b \in writes'[r]
      BY <1>15, <3>2
    <3> QED  BY <1>14, <2>1, <3>2, <3>3, <3>4 DEF WillBeAsSevere
  <2> QED  BY <2>2, <2>3
<1>17. AlertsFit'
  BY <1>1, <1>3, <1>4, <1>5, <1>6, <1>15, <1>16, MovedFits
<1>18. /\ \A e \in writes'[r] : Accepts(incidents'[e.doc], e) /\ SaveFits(e)'
       /\ \A e, f \in writes'[r] : e.doc = f.doc => e = f
  <2>1. writes'[r] \subseteq {c, b} /\ UNCHANGED incidents
    BY <1>1, <1>15
  <2>2. Accepts(incidents'[c.doc], c) /\ Accepts(incidents'[b.doc], b) /\ c.doc # b.doc
    BY <1>4, <1>13, <1>14, <2>1
  <2>3. \A e \in {c, b} : SaveFits(e)'
    BY <1>13, <1>14
  <2> QED  BY <2>1, <2>2, <2>3
<1> QED  BY <1>3, <1>15, <1>17, <1>18, AloneSequential

\* An alert or an incident grows older.
LEMMA AgeSequentially ==
  ASSUME CorrelationInv, AlertsSequentialInv, NEW x, Age(x)
  PROVE  AlertsSequentialInv'
<1>1. /\ UNCHANGED incidents /\ UNCHANGED pc /\ UNCHANGED held /\ UNCHANGED writes
      /\ UNCHANGED alerts /\ aged \subseteq aged'
  BY DEF Age, vars
<1>2. OneSaving'
  BY <1>1 DEF AlertsSequentialInv, OneSaving
<1>3. ASSUME NEW r \in Request, pc'[r] = "working" PROVE HoldsStored(held[r])'
  <2>1. HoldsStored(held[r])
    BY <1>1, <1>3 DEF AlertsSequentialInv
  <2> PICK h : h = held[r]
    OBVIOUS
  <2>2. HoldsStored(h)'
    BY <1>1, <2>1 DEF HoldsStored
  <2> QED  BY <1>1, <2>2
<1>4. ASSUME NEW r \in Request, NEW c \in writes'[r] PROVE SaveFits(c)'
  <2>1. SaveFits(c)
    BY <1>1, <1>4 DEF AlertsSequentialInv
  <2> QED  BY <1>1, <2>1 DEF SaveFits
<1>5. AlertStatusAgrees' /\ OneAlertPerPrint'
  BY <1>1 DEF AlertsSequentialInv, AlertStatusAgrees, OneAlertPerPrint
<1>6. ~Reopens => NoneStranded'
  BY <1>1 DEF AlertsSequentialInv, NoneStranded, NoStrandedAlert
<1>7. ASSUME SeverityFollows PROVE SeverityFollows'
  BY <1>1, <1>7 DEF SeverityFollows, WillBeAsSevere, At
<1> QED  BY <1>2, <1>3, <1>4, <1>5, <1>6, <1>7 DEF AlertsSequentialInv, Reopens, Regrades

\* A call of a handler fails.
LEMMA FailSequentially ==
  ASSUME CorrelationInv, AlertsSequentialInv, NEW r \in Request, Fail(r)
  PROVE  AlertsSequentialInv'
<1>1. /\ pc[r] \in {"working", "written"} /\ Return(r, "failed")
      /\ UNCHANGED <<incidents, alerts, aged>>
  BY DEF Fail
<1>2. Only(r) /\ "failed" \in Ended
  BY <1>1, OnlyWorks DEF Ended
<1> QED  BY <1>1, <1>2, ReturnSequentially

\* A handler whose saves are done returns.
LEMMA AnnounceSequentially ==
  ASSUME CorrelationInv, AlertsSequentialInv, NEW r \in Request, Announce(r),
         UNCHANGED <<alerts, aged>>
  PROVE  AlertsSequentialInv'
<1>1. /\ pc[r] = "written" /\ UNCHANGED <<incidents, alerts, aged>>
      /\ writes' = writes /\ held' = held /\ pc' = [pc EXCEPT ![r] = "done"]
  BY DEF Announce
<1>2. Only(r) /\ ~At(r, "escalate")
  BY <1>1, OnlyWorks DEF At
<1>3. Alone(r) /\ pc'[r] = "done"
  BY <1>1 DEF Alone, ShapeInv, CorrelationInv, Started
<1>4. AlertsFit'
  BY <1>1, <1>2, <1>3, SameFits
<1>5. writes'[r] = {}
  BY <1>1, <1>2 DEF Only
<1> QED  BY <1>2, <1>3, <1>4, <1>5, AloneSequential

\* A crash fails the handler at work.
LEMMA CrashSequentially ==
  ASSUME CorrelationInv, AlertsSequentialInv, Crash, UNCHANGED <<alerts, aged>>
  PROVE  AlertsSequentialInv'
<1>1. /\ UNCHANGED incidents /\ UNCHANGED alerts /\ UNCHANGED aged
      /\ \A q \in Request :
           /\ writes'[q] = {} /\ pc'[q] \notin InFlight
           /\ pc[q] \in InFlight => pc'[q] = "failed"
  BY DEF Crash, InFlight
<1>2. PICK r \in Request : pc'[r] = "failed"
  BY <1>1 DEF Crash
<1>3. OneSaving'
  BY <1>1 DEF OneSaving
<1>4. AlertStatusAgrees' /\ OneAlertPerPrint'
  BY <1>1 DEF AlertsSequentialInv, AlertStatusAgrees, OneAlertPerPrint
<1>5. ~Reopens => NoneStranded'
  BY <1>1 DEF AlertsSequentialInv, NoneStranded, NoStrandedAlert
<1>6. SeverityFollows'
  BY <1>2 DEF SeverityFollows
<1>7. \A q \in Request : pc'[q] # "working"
  BY <1>1 DEF InFlight
<1> QED  BY <1>1, <1>3, <1>4, <1>5, <1>6, <1>7 DEF AlertsSequentialInv, Reopens

\* No save is refused.
LEMMA RefuseSequentially ==
  ASSUME AlertsSequentialInv, NEW r \in Request, NEW c, RefuseSave(r, c)
  PROVE  FALSE
BY DEF RefuseSave, AlertsSequentialInv, OneSaving

\* What the execution of the save of the only handler leaves.
LEMMA ExecutedSequentially ==
  ASSUME CorrelationInv, AlertsSequentialInv, NEW r \in Request, NEW c, ExecuteSave(r, c)
  PROVE  /\ OneSaving'
         /\ \A q \in Request : q # r => pc'[q] = pc[q] /\ writes[q] = {} /\ writes'[q] = {}
         /\ \A q \in Request : pc[q] # "working" /\ pc'[q] # "working"
         /\ pc[r] = "saving" /\ pc'[r] # "failed"
         /\ writes'[r] = writes[r] \ {c}
         /\ \A d \in writes'[r] : /\ d \in writes[r] /\ d.doc # c.doc
                                  /\ incidents'[d.doc] = incidents[d.doc]
<1>0. OneSaving
  BY DEF AlertsSequentialInv
<1>1. c \in writes[r] /\ pc[r] = "saving"
  BY <1>0 DEF ExecuteSave, OneSaving
<1>2. \A q \in Request : q # r => pc[q] \notin InFlight /\ writes[q] = {}
  BY <1>0, <1>1, OnlyOne DEF InFlight
<1>3. /\ \A q \in Request : q # r => pc'[q] = pc[q] /\ writes'[q] = {}
      /\ writes'[r] = writes[r] \ {c}
      /\ pc'[r] = IF writes'[r] = {} THEN "written" ELSE "saving"
  BY <1>1, <1>2 DEF ExecuteSave, CorrelationInv, ShapeInv
<1>4. \A i \in DOMAIN incidents : i # c.doc => incidents'[i] = incidents[i]
  BY ExecutedFacts
<1>5. \A d \in writes'[r] : /\ d \in writes[r] /\ d.doc # c.doc /\ d.doc \in DOMAIN incidents
  BY <1>0, <1>1, <1>3 DEF OneSaving, CorrelationInv, WriteInv, IsCommand
<1>6. \A d \in writes'[r] : incidents'[d.doc] = incidents[d.doc]
  BY <1>4, <1>5
<1>7. OneSaving'
  <2>1. \A p, q \in Request : pc'[p] \in InFlight /\ pc'[q] \in InFlight => p = q
    BY <1>2, <1>3
  <2>2. \A q \in Request : writes'[q] # {} => pc'[q] = "saving"
    BY <1>3
  <2>3. \A q \in Request : \A b, d \in writes'[q] : b.doc = d.doc => b = d
    BY <1>0, <1>3 DEF OneSaving
  <2>4. \A q \in Request : \A d \in writes'[q] : Accepts(incidents'[d.doc], d)
    BY <1>0, <1>3, <1>5, <1>6 DEF OneSaving
  <2> QED  BY <2>1, <2>2, <2>3, <2>4 DEF OneSaving
<1>8. \A q \in Request : pc[q] # "working" /\ pc'[q] # "working"
  BY <1>1, <1>2, <1>3 DEF InFlight
<1> QED  BY <1>1, <1>2, <1>3, <1>5, <1>6, <1>7, <1>8

\* The save that is executed strands no alert.
LEMMA ExecutedStrands ==
  ASSUME CorrelationInv, AlertsSequentialInv, NEW r \in Request, NEW c, ExecuteSave(r, c),
         ~Reopens, UNCHANGED alerts
  PROVE  NoneStranded'
<1>1. /\ c \in writes[r] /\ c.doc \in DOMAIN incidents /\ DOMAIN incidents' = DOMAIN incidents
      /\ \A i \in DOMAIN incidents : i # c.doc => incidents'[i] = incidents[i]
      /\ \A f \in Field : incidents'[c.doc][f] =
                            IF f \in DOMAIN c.set THEN c.set[f] ELSE incidents[c.doc][f]
  BY ExecutedFacts
<1>2. NoneStranded /\ SaveFits(c)
  BY <1>1 DEF AlertsSequentialInv
<1>3. /\ "mergedInto" \in DOMAIN c.set =>
           /\ "status" \in DOMAIN c.set /\ c.set.status = Resolved
           /\ \A a \in DOMAIN alerts : alerts[a].incidentId # c.doc
      /\ "status" \in DOMAIN c.set => c.set.status = Resolved
  BY <1>2 DEF SaveFits
<1>4. /\ incidents'[c.doc].mergedInto = IF "mergedInto" \in DOMAIN c.set THEN c.set.mergedInto
                                        ELSE incidents[c.doc].mergedInto
      /\ incidents'[c.doc].status = IF "status" \in DOMAIN c.set THEN c.set.status
                                    ELSE incidents[c.doc].status
  BY <1>1, FieldFacts
<1>5. ASSUME NEW i \in DOMAIN incidents, incidents'[i].mergedInto # None
      PROVE  incidents'[i].status = Resolved
  <2>1. CASE i # c.doc
    BY <1>1, <1>2, <1>5, <2>1 DEF NoneStranded, NoStrandedAlert
  <2>2. CASE i = c.doc
    <3>1. incidents[i].mergedInto # None => incidents[i].status = Resolved
      BY <1>2 DEF NoneStranded, NoStrandedAlert
    <3> QED  BY <1>3, <1>4, <1>5, <2>2, <3>1
  <2> QED  BY <2>1, <2>2
<1>6. ASSUME NEW a \in DOMAIN alerts, alerts[a].incidentId # None
      PROVE  incidents'[alerts[a].incidentId].mergedInto = None
  <2> PICK i : i = alerts[a].incidentId
    OBVIOUS
  <2>1. i \in DOMAIN incidents
    BY <1>6 DEF CorrelationInv, AlertsInv, IsAlert
  <2>2. incidents[i].mergedInto = None
    BY <1>2, <1>6 DEF NoneStranded, NoStrandedAlert
  <2>3. CASE i # c.doc
    BY <1>1, <2>1, <2>2, <2>3
  <2>4. CASE i = c.doc
    <3>1. "mergedInto" \notin DOMAIN c.set
      BY <1>3, <2>4
    <3> QED  BY <1>4, <2>2, <2>4, <3>1
  <2> QED  BY <2>3, <2>4
<1> QED  BY <1>1, <1>5, <1>6 DEF NoneStranded, NoStrandedAlert

\* The save that is executed raises what it was sent to raise.
LEMMA ExecutedRaises ==
  ASSUME CorrelationInv, AlertsSequentialInv, NEW r \in Request, NEW c, ExecuteSave(r, c),
         Unaided, UNCHANGED alerts
  PROVE  SeverityFollows'
<1>1. /\ c \in writes[r] /\ c.doc \in DOMAIN incidents /\ DOMAIN incidents' = DOMAIN incidents
      /\ \A i \in DOMAIN incidents : i # c.doc => incidents'[i] = incidents[i]
      /\ \A f \in Field : incidents'[c.doc][f] =
                            IF f \in DOMAIN c.set THEN c.set[f] ELSE incidents[c.doc][f]
      /\ IsDoc(incidents'[c.doc])
  BY ExecutedFacts
<1>2. SeverityFollows /\ SaveFits(c) /\ ~Reopens /\ ~Regrades
  BY <1>1 DEF AlertsSequentialInv, Unaided
<1>3. /\ "status" \in DOMAIN c.set => c.set.status = Resolved
      /\ "severity" \in DOMAIN c.set => c.set.severity <= incidents[c.doc].severity
  BY <1>2 DEF SaveFits
<1>4. /\ incidents'[c.doc].severity = IF "severity" \in DOMAIN c.set THEN c.set.severity
                                      ELSE incidents[c.doc].severity
      /\ incidents'[c.doc].status = IF "status" \in DOMAIN c.set THEN c.set.status
                                    ELSE incidents[c.doc].status
  BY <1>1, FieldFacts
<1>5. incidents[c.doc].severity \in Int /\ incidents'[c.doc].severity \in Int
  <2>1. Severity \subseteq Int
    BY SeverityAssumption
  <2>2. incidents'[c.doc].severity \in Severity
    BY <1>1, FieldFacts DEF IsDoc
  <2> QED  BY <1>1, <2>1, <2>2, StoredFacts
<1>6. /\ \A q \in Request : q # r => pc'[q] = pc[q] /\ writes[q] = {}
      /\ \A q \in Request : pc[q] # "working"
      /\ pc[r] = "saving" /\ writes'[r] = writes[r] \ {c}
  BY ExecutedSequentially
<1> SUFFICES ASSUME \A q \in Request : pc'[q] # "failed", NEW a \in DOMAIN alerts,
                    alerts[a].incidentId # None,
                    incidents'[alerts[a].incidentId].status # Resolved
             PROVE  WillBeAsSevere(alerts[a].incidentId, alerts[a].severity)'
  BY DEF SeverityFollows
<1> PICK i : i = alerts[a].incidentId
  OBVIOUS
<1> PICK v : v = alerts[a].severity
  OBVIOUS
<1>7. i \in DOMAIN incidents /\ v \in Int
  BY StoredAlertFacts DEF IsAlert
<1>8. incidents[i].status # Resolved
  BY <1>1, <1>3, <1>4, <1>7
<1>9. \A q \in Request : pc[q] # "failed"
  BY <1>6
<1>10. WillBeAsSevere(i, v)
  BY <1>2, <1>8, <1>9 DEF SeverityFollows
<1>11. CASE incidents[i].severity <= v
  <2>1. CASE i # c.doc
    BY <1>1, <1>7, <1>11, <2>1 DEF WillBeAsSevere
  <2>2. CASE i = c.doc
    <3>1. incidents'[i].severity <= incidents[i].severity
      BY <1>3, <1>4, <1>5, <2>2
    <3>2. incidents'[i].severity <= v
      BY <1>5, <1>7, <1>11, <2>2, <3>1
    <3> QED  BY <3>2 DEF WillBeAsSevere
  <2> QED  BY <2>1, <2>2
<1>12. ASSUME NEW d \in writes[r], d.doc = i, "severity" \in DOMAIN d.set, d.set.severity <= v
       PROVE  WillBeAsSevere(i, v)'
  <2>1. CASE d = c
    BY <1>4, <1>12, <2>1 DEF WillBeAsSevere
  <2>2. CASE d # c
    <3>1. d \in writes'[r]
      BY <1>6, <2>2
    <3> QED  BY <1>12, <3>1 DEF WillBeAsSevere
  <2> QED  BY <2>1, <2>2
<1>13. \/ incidents[i].severity <= v
       \/ \E d \in writes[r] : d.doc = i /\ "severity" \in DOMAIN d.set /\ d.set.severity <= v
  BY <1>6, <1>10 DEF WillBeAsSevere, At
<1>14. WillBeAsSevere(i, v)'
  BY <1>11, <1>12, <1>13
<1> QED  BY <1>14

\* The database executes a save.
LEMMA SaveIncidentSequentially ==
  ASSUME CorrelationInv, AlertsSequentialInv, NEW r \in Request, NEW c, SaveIncident(r, c)
  PROVE  AlertsSequentialInv'
<1>1. ExecuteSave(r, c) /\ aged' = aged \ {c.doc} /\ UNCHANGED alerts
  BY DEF SaveIncident
<1>2. /\ OneSaving'
      /\ \A q \in Request : q # r => writes'[q] = {}
      /\ \A q \in Request : pc'[q] # "working"
      /\ \A d \in writes'[r] : d \in writes[r] /\ incidents'[d.doc] = incidents[d.doc]
  BY <1>1, ExecutedSequentially
<1>3. ASSUME NEW q \in Request, NEW d \in writes'[q] PROVE SaveFits(d)'
  <2>1. q = r /\ d \in writes[r] /\ incidents'[d.doc] = incidents[d.doc]
    BY <1>2, <1>3
  <2>2. SaveFits(d)
    BY <2>1 DEF AlertsSequentialInv
  <2> QED  BY <1>1, <2>1, <2>2 DEF SaveFits
<1>4. AlertStatusAgrees'
  BY <1>1 DEF AlertsSequentialInv, AlertStatusAgrees
<1>5. OneAlertPerPrint'
  <2>1. c.doc \in Incident /\ DOMAIN alerts \subseteq Alert
    BY <1>1, ExecutedFacts DEF CorrelationInv, SoundIncidents, AlertsInv
  <2>2. DOMAIN alerts \ aged' = DOMAIN alerts \ aged
    BY <1>1, <2>1, IdentityAssumption
  <2> QED  BY <1>1, <2>2 DEF AlertsSequentialInv, OneAlertPerPrint
<1>6. ~Reopens => NoneStranded'
  BY <1>1, ExecutedStrands
<1>7. Unaided => SeverityFollows'
  BY <1>1, ExecutedRaises
<1> QED  BY <1>2, <1>3, <1>4, <1>5, <1>6, <1>7 DEF AlertsSequentialInv, Unaided, Reopens, Regrades

\* Every step of an alert handler preserves the invariant.
LEMMA AlertStepSequentially ==
  ASSUME MaxInFlight = 1, CorrelationInv, AlertsSequentialInv, NEW r \in Request, AlertStep(r)
  PROVE  AlertsSequentialInv'
<1>1. ASSUME NEW p \in Report, Ingest(r, p) PROVE AlertsSequentialInv'
  BY <1>1, IngestSequentially
<1>2. ASSUME NEW a \in Alert, InsertAlert(r, a) PROVE AlertsSequentialInv'
  BY <1>2, InsertAlertSequentially
<1>3. ASSUME NEW i \in Incident, Spawn(r, i) PROVE AlertsSequentialInv'
  BY <1>3, SpawnSequentially
<1>4. ASSUME NEW a \in DOMAIN alerts, NEW i \in DOMAIN incidents,
             ReadAlert(r, "associate", a, i)
      PROVE  AlertsSequentialInv'
  BY <1>4, ReadAlertSequentially
<1>5. ASSUME NEW a \in DOMAIN alerts, ReadAlert(r, "unassociate", a, None)
      PROVE  AlertsSequentialInv'
  BY <1>5, ReadAlertSequentially
<1> QED
  BY <1>1, <1>2, <1>3, <1>4, <1>5, CountRepetitionSequentially, EscalateSequentially,
     MatchSequentially, LinkAlertSequentially, AttachAlertSequentially, AssociateSequentially,
     UnassociateSequentially, MergeGuardsSequentially, CollectAlertsSequentially,
     MoveAlertsSequentially
  DEF AlertStep

\* Every step of an incident handler preserves the invariant.
LEMMA IncidentStepSequentially ==
  ASSUME MaxInFlight = 1, CorrelationInv, AlertsSequentialInv, IncidentStep
  PROVE  AlertsSequentialInv'
<1>0. UNCHANGED <<alerts, aged>>
  BY DEF IncidentStep
<1>1. CASE Crash
  BY <1>0, <1>1, CrashSequentially
<1>2. ASSUME NEW r \in Request, NEW i \in DOMAIN incidents, NEW j \in DOMAIN incidents,
             ReadFirst(r, "merge", i, j)
      PROVE  AlertsSequentialInv'
  BY <1>0, <1>2, ReadFirstSequentially DEF PairStep
<1>3. ASSUME NEW r \in Request, NEW c \in writes[r], RefuseSave(r, c) PROVE AlertsSequentialInv'
  BY <1>3, RefuseSequentially
<1>4. ASSUME NEW r \in Request, Begin(r) \/ Relate(r) \/ Unrelate(r) \/ Announce(r)
      PROVE  AlertsSequentialInv'
  BY <1>0, <1>4, BeginSequentially, RelateSequentially, UnrelateSequentially,
     AnnounceSequentially
<1> QED  BY <1>1, <1>2, <1>3, <1>4 DEF IncidentStep

\* Nothing happens.
LEMMA SameSequentially ==
  ASSUME AlertsSequentialInv, UNCHANGED allVars
  PROVE  AlertsSequentialInv'
<1>1. /\ UNCHANGED incidents /\ UNCHANGED pc /\ UNCHANGED held /\ UNCHANGED writes
      /\ UNCHANGED alerts /\ UNCHANGED aged
  BY DEF allVars, vars
<1>2. OneSaving'
  BY <1>1 DEF AlertsSequentialInv, OneSaving
<1>3. \A r \in Request : pc'[r] = "working" => HoldsStored(held[r])'
  BY <1>1 DEF AlertsSequentialInv, HoldsStored
<1>4. \A r \in Request : \A c \in writes'[r] : SaveFits(c)'
  BY <1>1 DEF AlertsSequentialInv, SaveFits
<1>5. AlertStatusAgrees' /\ OneAlertPerPrint' /\ (~Reopens => NoneStranded')
  BY <1>1 DEF AlertsSequentialInv, AlertStatusAgrees, OneAlertPerPrint, NoneStranded, NoStrandedAlert
<1>6. SeverityFollows => SeverityFollows'
  BY <1>1 DEF SeverityFollows, WillBeAsSevere, At
<1> QED  BY <1>2, <1>3, <1>4, <1>5, <1>6 DEF AlertsSequentialInv, Reopens, Regrades

\* Every step of calls that do not overlap preserves the invariant.
LEMMA AlertsSequentialStep ==
  ASSUME MaxInFlight = 1, CorrelationInv, AlertsSequentialInv, [NextCorrelation]_allVars
  PROVE  AlertsSequentialInv'
<1>1. CASE IncidentStep
  BY <1>1, IncidentStepSequentially
<1>2. ASSUME NEW x \in Ageing, Age(x) PROVE AlertsSequentialInv'
  BY <1>2, AgeSequentially
<1>3. ASSUME NEW r \in Request, AlertStep(r) \/ Fail(r) PROVE AlertsSequentialInv'
  BY <1>3, AlertStepSequentially, FailSequentially
<1>4. ASSUME NEW r \in Request, NEW c \in writes[r], SaveIncident(r, c)
      PROVE  AlertsSequentialInv'
  BY <1>4, SaveIncidentSequentially
<1>5. CASE UNCHANGED allVars
  BY <1>5, SameSequentially
<1> QED  BY <1>1, <1>2, <1>3, <1>4, <1>5 DEF NextCorrelation

\* Before the first call the alerts are detached, of different fingerprints.
LEMMA AlertsSequentialInit == InitCorrelation => AlertsSequentialInv
<1> SUFFICES ASSUME InitCorrelation PROVE AlertsSequentialInv
  OBVIOUS
<1>1. PICK D \in SUBSET Incident :
        incidents \in [D -> {NewIncident(sev, sv, None) :
                               sev \in Severity, sv \in ServiceList}]
  BY DEF InitCorrelation, Init
<1>2. PICK E \in SUBSET Alert :
        /\ alerts \in [E -> {NewAlert(p) : p \in Report}]
        /\ \A a, b \in E : a # b => alerts[a].print # alerts[b].print
  BY DEF InitCorrelation
<1>3. \A r \in Request : pc[r] = "idle" /\ writes[r] = {}
  BY DEF InitCorrelation, Init
<1>4. OneSaving
  BY <1>3 DEF OneSaving, InFlight
<1>5. \A i \in DOMAIN incidents : incidents[i].mergedInto = None
  <2>1. ASSUME NEW i \in D PROVE incidents[i].mergedInto = None
    <3>1. PICK sev \in Severity, sv \in ServiceList : incidents[i] = NewIncident(sev, sv, None)
      BY <1>1
    <3> QED  BY <3>1 DEF NewIncident
  <2> QED  BY <1>1, <2>1
<1>6. \A a \in DOMAIN alerts : alerts[a].incidentId = None /\ alerts[a].status = "UNASSIGNED"
  <2>1. ASSUME NEW a \in E
        PROVE  alerts[a].incidentId = None /\ alerts[a].status = "UNASSIGNED"
    <3>1. PICK p \in Report : alerts[a] = NewAlert(p)
      BY <1>2
    <3> QED  BY <3>1, NewAlertFacts
  <2> QED  BY <1>2, <2>1
<1>7. AlertStatusAgrees /\ NoneStranded /\ SeverityFollows
  BY <1>5, <1>6 DEF AlertStatusAgrees, NoneStranded, NoStrandedAlert, SeverityFollows
<1>8. OneAlertPerPrint
  BY <1>2 DEF OneAlertPerPrint
<1> QED  BY <1>3, <1>4, <1>7, <1>8 DEF AlertsSequentialInv

\* Both invariants hold of calls that do not overlap.
LEMMA AlertsSequential ==
  ASSUME MaxInFlight = 1
  PROVE  SpecCorrelation => [](CorrelationInv /\ AlertsSequentialInv)
<1>1. InitCorrelation => CorrelationInv /\ AlertsSequentialInv
  BY CorrelationInit, AlertsSequentialInit
<1>2. CorrelationInv /\ AlertsSequentialInv /\ [NextCorrelation]_allVars
        => (CorrelationInv /\ AlertsSequentialInv)'
  BY CorrelationStep, AlertsSequentialStep
<1> QED  BY <1>1, <1>2, PTL DEF SpecCorrelation

\* If calls do not overlap, an alert is UNASSIGNED exactly when it names no
\* incident, also after a handler failed or the process died half way.
THEOREM StatusFollowsIncident ==
  ASSUME MaxInFlight = 1 PROVE SpecCorrelation => []AlertStatusAgrees
<1>1. AlertsSequentialInv => AlertStatusAgrees
  BY DEF AlertsSequentialInv
<1> QED  BY <1>1, AlertsSequential, PTL

\* If calls do not overlap, no two recent alerts have the same fingerprint:
\* between the query of ingest and its insert nobody inserts another.
THEOREM RepetitionsAreAbsorbed ==
  ASSUME MaxInFlight = 1 PROVE SpecCorrelation => []OneAlertPerPrint
<1>1. AlertsSequentialInv => OneAlertPerPrint
  BY DEF AlertsSequentialInv
<1> QED  BY <1>1, AlertsSequential, PTL

\* If calls do not overlap and none reopens an incident, no alert is left on an
\* incident that was merged into another, whatever call failed or was cut off.
THEOREM MergeTakesAllAlerts ==
  ASSUME MaxInFlight = 1, "status" \notin Endpoint \cup BodyField
  PROVE  SpecCorrelation => []NoStrandedAlert
<1>1. AlertsSequentialInv => NoStrandedAlert
  BY DEF AlertsSequentialInv, Reopens, NoneStranded, NoStrandedAlert
<1> QED  BY <1>1, AlertsSequential, PTL

\* If calls do not overlap, none reopens an incident or sets its severity, and
\* no responder associates alerts, then an incident that is not resolved is at
\* least as severe as its alerts whenever all calls have succeeded.
THEOREM IncidentsFollowAlerts ==
  ASSUME MaxInFlight = 1, "status" \notin Endpoint \cup BodyField,
         "severity" \notin Endpoint \cup BodyField, "associate" \notin Endpoint
  PROVE  SpecCorrelation => []IncidentAsSevere
<1>1. CorrelationInv /\ AlertsSequentialInv => IncidentAsSevere
  <2> SUFFICES ASSUME CorrelationInv, AlertsSequentialInv, Quiet, NEW a \in DOMAIN alerts,
                      alerts[a].incidentId # None,
                      incidents[alerts[a].incidentId].status # Resolved
               PROVE  incidents[alerts[a].incidentId].severity <= alerts[a].severity
    BY DEF IncidentAsSevere
  <2>1. SeverityFollows
    BY DEF AlertsSequentialInv, Reopens, Regrades
  <2>2. \A r \in Request : pc[r] # "failed" /\ ~At(r, "escalate") /\ writes[r] = {}
    BY DEF Quiet, At, CorrelationInv, SavesAwaited
  <2>3. WillBeAsSevere(alerts[a].incidentId, alerts[a].severity)
    BY <2>1, <2>2 DEF SeverityFollows
  <2> QED  BY <2>2, <2>3 DEF WillBeAsSevere
<1> QED  BY <1>1, AlertsSequential, PTL

\* A save of the only handler raises the severity it sends.
LEMMA RisesStep ==
  ASSUME CorrelationInv, AlertsSequentialInv, ~Regrades, [NextCorrelation]_allVars
  PROVE  \A i \in DOMAIN incidents : incidents'[i].severity <= incidents[i].severity
<1>0. \A i \in DOMAIN incidents : incidents[i].severity \in Int
  BY StoredFacts
<1>1. CASE UNCHANGED incidents
  BY <1>0, <1>1
<1>2. ASSUME NEW r \in Request, NEW c \in writes[r], ExecuteSave(r, c)
      PROVE  \A i \in DOMAIN incidents : incidents'[i].severity <= incidents[i].severity
  <2>1. /\ \A i \in DOMAIN incidents : i # c.doc => incidents'[i] = incidents[i]
        /\ incidents'[c.doc].severity = IF "severity" \in DOMAIN c.set THEN c.set.severity
                                        ELSE incidents[c.doc].severity
    BY <1>2, ExecutedFacts, FieldFacts
  <2>2. "severity" \in DOMAIN c.set => c.set.severity <= incidents[c.doc].severity
    BY DEF AlertsSequentialInv, SaveFits
  <2> QED  BY <1>0, <2>1, <2>2
<1>3. ASSUME NEW i, NEW d, Adds(i, d)
      PROVE  \A j \in DOMAIN incidents : incidents'[j].severity <= incidents[j].severity
  <2>1. \A j \in DOMAIN incidents : incidents'[j] = incidents[j]
    BY <1>3 DEF Adds
  <2> QED  BY <1>0, <2>1
<1>4. \/ UNCHANGED incidents
      \/ \E r \in Request : \E c \in writes[r] : ExecuteSave(r, c)
      \/ \E i, d : Adds(i, d)
  BY OtherSteps
<1> QED  BY <1>1, <1>2, <1>3, <1>4

\* If calls do not overlap and none sets a severity outright, no step lowers the
\* severity of an incident: the engine and merge only raise it.
THEOREM EscalationOnlyRaises ==
  ASSUME MaxInFlight = 1, "severity" \notin Endpoint \cup BodyField
  PROVE  SpecCorrelation => SeverityOnlyRises
<1> DEFINE Rises == \A i \in DOMAIN incidents : incidents'[i].severity <= incidents[i].severity
<1>1. CorrelationInv /\ AlertsSequentialInv /\ [NextCorrelation]_allVars => [Rises]_allVars
  BY RisesStep DEF Regrades
<1>2. SpecCorrelation => [][Rises]_allVars
  BY <1>1, AlertsSequential, PTL DEF SpecCorrelation
<1> QED  BY <1>2 DEF SeverityOnlyRises
=============================================================================
