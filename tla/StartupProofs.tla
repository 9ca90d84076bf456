--------------------------- MODULE StartupProofs ---------------------------
(***************************************************************************)
(* Proofs about Startup, for any number of processes, incidents and        *)
(* crashes: the numbers of incidents are unique, the counter covers them,  *)
(* and no server listens before the migrations are complete.               *)
(***************************************************************************)
EXTENDS Startup, WellFoundedInduction, TLAPS

-----------------------------------------------------------------------------
(* Lemmas about the operators. *)

\* A set of natural numbers has a least element.
LEMMA LeastNatural ==
  ASSUME NEW T \in SUBSET Nat, T # {}
  PROVE  \E x \in T : \A y \in T : x <= y
<1>1. PICK x \in T : \A y \in T : <<y, x>> \notin OpToRel(<, Nat)
  BY NatLessThanWellFounded, WFMin, Zenon
<1>2. \A y \in T : ~(y < x)
  BY <1>1, Zenon DEF OpToRel
<1> QED  BY <1>2

\* The oldest of some old incidents is one of them.
LEMMA OldestLeft ==
  ASSUME NEW left \in SUBSET OldIncidents, left # {}
  PROVE  Oldest(left) \in left
<1> DEFINE T == {n \in DOMAIN Old : Old[n] \in left}
<1>1. DOMAIN Old = 1..Len(Old) /\ Len(Old) \in Nat
  BY SequenceAssumption
<1>2. T \in SUBSET Nat /\ T # {}
  BY <1>1 DEF OldIncidents
<1>3. PICK n \in T : \A m \in T : n <= m
  BY <1>2, LeastNatural
<1>4. \A m \in 1..(n - 1) : Old[m] \notin left
  BY <1>1, <1>3
<1>5. \E k \in DOMAIN Old : Old[k] \in left /\ \A m \in 1..(k - 1) : Old[m] \notin left
  BY <1>3, <1>4
<1> DEFINE k == CHOOSE n1 \in DOMAIN Old :
                  Old[n1] \in left /\ \A m \in 1..(n1 - 1) : Old[m] \notin left
<1>6. Old[k] \in left
  BY <1>5
<1> QED  BY <1>6 DEF Oldest

\* The order of the seed.
LEMMA SeedOrder ==
  /\ Parts = {"teams", "users", "leads", "incidents", "sync", "alerts", "details",
              "investigation"}
  /\ After("teams") = "users" /\ After("users") = "leads" /\ After("leads") = "incidents"
  /\ After("sync") = "alerts" /\ After("alerts") = "details"
  /\ After("details") = "investigation" /\ After("investigation") = "serving"
<1>1. DOMAIN Plan = 1..8 /\ Len(Plan) = 8
  BY DEF Plan
<1>2. /\ Plan[1] = "teams" /\ Plan[2] = "users" /\ Plan[3] = "leads"
      /\ Plan[4] = "incidents" /\ Plan[5] = "sync" /\ Plan[6] = "alerts"
      /\ Plan[7] = "details" /\ Plan[8] = "investigation"
  BY DEF Plan
<1>3. 1..8 = {1, 2, 3, 4, 5, 6, 7, 8}
  OBVIOUS
<1>4. Parts = {"teams", "users", "leads", "incidents", "sync", "alerts", "details",
               "investigation"}
  BY <1>1, <1>2, <1>3 DEF Parts
<1>5. ASSUME NEW n \in 1..8
      PROVE  After(Plan[n]) = IF n = 8 THEN "serving" ELSE Plan[n + 1]
  <2>1. \A m \in 1..8 : Plan[m] = Plan[n] => m = n
    BY <1>2, <1>3
  <2>2. (CHOOSE m \in DOMAIN Plan : Plan[m] = Plan[n]) = n
    BY <1>1, <2>1
  <2> QED  BY <1>1, <2>2 DEF After
<1>6. After(Plan[1]) = Plan[2] /\ After(Plan[2]) = Plan[3] /\ After(Plan[3]) = Plan[4]
        /\ After(Plan[5]) = Plan[6] /\ After(Plan[6]) = Plan[7] /\ After(Plan[7]) = Plan[8]
        /\ After(Plan[8]) = "serving"
  BY <1>5
<1> QED  BY <1>2, <1>4, <1>6

\* An incident is changed in one field.
LEMMA ChangeOne ==
  ASSUME NEW d \in DOMAIN incidents, TypeOK, NEW field \in {"number", "services", "key"},
         NEW value, Change(d, field, value)
  PROVE  /\ DOMAIN incidents' = DOMAIN incidents
         /\ \A e \in DOMAIN incidents \ {d} : incidents'[e] = incidents[e]
         /\ incidents'[d][field] = value
         /\ \A f \in {"number", "services", "key"} \ {field} :
              incidents'[d][f] = incidents[d][f]
<1>1. incidents[d] \in Stored
  BY DEF TypeOK
<1> QED  BY <1>1 DEF Change, Stored

\* What an insert stores.
LEMMA InsertOne ==
  ASSUME NEW d, d \notin DOMAIN incidents, NEW number, Insert(d, number)
  PROVE  /\ DOMAIN incidents' = DOMAIN incidents \cup {d}
         /\ \A e \in DOMAIN incidents : incidents'[e] = incidents[e]
         /\ incidents'[d] = [number |-> number, services |-> "list", key |-> TRUE]
  BY DEF Insert
-----------------------------------------------------------------------------
(* The inductive invariant, in five parts. *)

\* The loops of the migrations have only old incidents left, and a number only
\* while they number them.
LoopInv(p) ==
  /\ ref[p].left \subseteq OldIncidents \cap DOMAIN incidents
  /\ legacy[p].left \subseteq OldIncidents \cap DOMAIN incidents
  /\ ref[p].step = "done" => ref[p] = Done
  /\ legacy[p].step = "done" => legacy[p] = Done
  /\ ref[p].step = "keys" => ref[p].left = {}
  /\ legacy[p].step = "count" => legacy[p] = [Done EXCEPT !.step = "count"]
  /\ ref[p].number # 0 => ref[p].step = "number" /\ ref[p].left # {}
  /\ ref[p].step = "setKeys" => ref[p].left \subseteq DOMAIN ref[p].copy

LoopsInv ==
  /\ \A d \in DOMAIN incidents \ OldIncidents : Complete(d)
  /\ \A p \in Process : LoopInv(p)

\* What each phase of the migrations has behind it.
Behind(p) ==
  /\ proc[p].step = "init" /\ ref[p].step = "setKeys" =>
       \A d \in DOMAIN incidents \ ref[p].left : incidents[d].key /\ ~OldNames(d)
  /\ proc[p].step = "init" /\ ref[p].step = "number" =>
       /\ \A d \in DOMAIN incidents : incidents[d].key /\ ~OldNames(d)
       /\ \A d \in DOMAIN incidents \ ref[p].left : ~Missing(d)
  /\ proc[p].step # "off" /\ ref[p].step = "done" =>
       \A d \in DOMAIN incidents : Complete(d)

ServedInv == \A p \in Process : Behind(p)

\* An old database is not seeded.  A new one has its index before a process
\* comes to the seed, and so before anything is stored in it.
OldDatabase == OldIncidents \cap DOMAIN incidents # {}

DatabaseInv ==
  /\ OldDatabase =>
       /\ "users" \in filled
       /\ \A p \in Process : proc[p].step \in {"off", "init", "serving"}
       /\ SeedIncidents \cap DOMAIN incidents = {}
  /\ ~OldDatabase =>
       \/ index
       \/ /\ DOMAIN incidents = {} /\ asked = {}
          /\ \A p \in Process : proc[p].step \in {"off", "init"}

\* The number a process has taken and not yet used.
Held(p) == IF ref[p].number # 0 THEN ref[p].number ELSE proc[p].number

\* Numbers come from the counter one by one, but for those of the seed.
NumberInv ==
  /\ \A d \in DOMAIN incidents \ SeedIncidents : incidents[d].number <= counter
  /\ \A p \in Process : /\ Held(p) <= counter
                        /\ proc[p].number # 0 => proc[p].step = "serving"
  /\ \A p, q \in Process : p # q /\ Held(p) # 0 => Held(p) # Held(q)
  /\ OldDatabase => \A p \in Process : \A d \in DOMAIN incidents :
                      Held(p) # 0 => incidents[d].number # Held(p)
  /\ NumbersUnique

\* The seed runs once: its teams are stored first and stay.
PastTeams == Parts \ {"teams"}

SeedStep(p) ==
  /\ proc[p].step \in {"off", "init", "teams", "users", "leads"} => proc[p].at = 1
  /\ proc[p].step = "incidents" =>
       /\ proc[p].at <= Len(Seeded)
       /\ \A m \in DOMAIN Seeded : Seeded[m] \in DOMAIN incidents => m < proc[p].at
  /\ proc[p].step \in PastTeams => "teams" \in filled
  /\ proc[p].step \in {"users", "leads"} => SeedIncidents \cap DOMAIN incidents = {}

SeedInv ==
  /\ \A p \in Process : SeedStep(p)
  /\ \A p, q \in Process : proc[p].step \in PastTeams /\ proc[q].step \in PastTeams => p = q
  /\ "teams" \notin filled => SeedIncidents \cap DOMAIN incidents = {}
  /\ \A m \in DOMAIN Seeded :
       Seeded[m] \in DOMAIN incidents => incidents[Seeded[m]].number = m
  /\ CounterCovers

-----------------------------------------------------------------------------
(* Type correctness, with what the loops hold. *)

\* A loop may hold no copy.
LEMMA NoCopy == <<>> \in UNION {[D -> Names] : D \in SUBSET Doc}
<1>1. <<>> \in [{} -> Names]
  OBVIOUS
<1> QED  BY <1>1

\* A migration that is done is well formed,
LEMMA DoneType == \A steps : Done \in Loop(steps)
  BY NoCopy DEF Done, Loop

\* and so is a process that is down,
LEMMA OffType == Off \in Server
  BY SequenceAssumption DEF Off, Server

\* and a process that takes or gives back a number.
LEMMA ServerType ==
  ASSUME NEW x \in Server, NEW doc \in New \cup {None}, NEW n \in Nat
  PROVE  [x EXCEPT !.doc = doc, !.number = n] \in Server
<1> DEFINE Step == {"off", "init", "serving"} \cup Parts
           At == 1..(Len(Seeded) + 1)
           Any == [step : Step, number : Nat, doc : New \cup {None}, at : At]
<1>1. Server = Any
  BY DEF Server
<1> HIDE DEF Step, At
<1>2. [x EXCEPT !.doc = doc, !.number = n] \in Any
  BY <1>1
<1> QED  BY <1>1, <1>2

\* Documents, processes and migrations are well formed at first,
LEMMA TypeInit == Init => TypeOK
<1> SUFFICES ASSUME Init PROVE TypeOK
  OBVIOUS
<1>1. DOMAIN incidents \subseteq Doc /\ \A d \in DOMAIN incidents : incidents[d] \in Stored
  <2>1. CASE incidents = <<>>
    BY <2>1
  <2>2. CASE incidents \in Earlier
    <3>1. Left \subseteq Stored
      BY DEF Left, Stored, Names
    <3>2. DOMAIN incidents \subseteq OldIncidents /\ \A d \in DOMAIN incidents : incidents[d] \in Left
      BY <2>2, EarlierAssumption
    <3> QED  BY <3>1, <3>2 DEF Doc
  <2> QED  BY <2>1, <2>2 DEF Init
<1>2. filled \subseteq Parts
  BY DEF Init, Parts
<1>3. Off.number = 0 /\ Off.doc = None
  BY DEF Off
<1>4. proc \in [Process -> Server]
  BY OffType DEF Init
<1>5. ref \in [Process -> Loop({"keys", "setKeys", "number"})]
        /\ legacy \in [Process -> Loop({"count", "find", "set"})]
  BY DoneType DEF Init
<1>6. \A p \in Process : proc[p] = Off /\ ref[p] = Done /\ legacy[p] = Done
  BY DEF Init
<1>7. counter \in Nat /\ crashes \in 0..MaxCrashes
  BY CrashAssumption DEF Init
<1>9. index \in BOOLEAN /\ asked \in SUBSET Process /\ gap \in BOOLEAN
  BY DEF Init
<1>8. \A p \in Process : /\ (proc[p].doc = None) <=> (proc[p].number = 0)
                         /\ ref[p] = Done /\ legacy[p] = Done
  BY <1>3, <1>6
<1> QED  BY <1>1, <1>2, <1>4, <1>5, <1>7, <1>8, <1>9 DEF TypeOK

\* Every step of a loop keeps it well formed.
LEMMA LoopType ==
  ASSUME NEW steps, NEW x \in Loop(steps), NEW step \in steps \cup {"done"}
  PROVE  /\ [x EXCEPT !.step = step] \in Loop(steps)
         /\ \A d : [x EXCEPT !.left = @ \ {d}] \in Loop(steps)
         /\ \A left \in SUBSET Doc : [Done EXCEPT !.step = step, !.left = left] \in Loop(steps)
         /\ \A n \in Nat : [x EXCEPT !.number = n] \in Loop(steps)
         /\ \A d : \A n \in Nat : [x EXCEPT !.left = @ \ {d}, !.number = n] \in Loop(steps)
         /\ \A left \in SUBSET Doc : \A f \in [left -> Names] :
              [x EXCEPT !.step = step, !.left = left, !.copy = f] \in Loop(steps)
<1>1. /\ [x EXCEPT !.step = step] \in Loop(steps)
      /\ \A d : [x EXCEPT !.left = @ \ {d}] \in Loop(steps)
      /\ \A n \in Nat : [x EXCEPT !.number = n] \in Loop(steps)
      /\ \A d : \A n \in Nat : [x EXCEPT !.left = @ \ {d}, !.number = n] \in Loop(steps)
  BY DEF Loop
<1>2. \A left \in SUBSET Doc : [Done EXCEPT !.step = step, !.left = left] \in Loop(steps)
  BY NoCopy DEF Loop, Done
<1>3. ASSUME NEW left \in SUBSET Doc, NEW f \in [left -> Names]
      PROVE  [x EXCEPT !.step = step, !.left = left, !.copy = f] \in Loop(steps)
  <2>1. f \in UNION {[D -> Names] : D \in SUBSET Doc}
    OBVIOUS
  <2> QED  BY <2>1 DEF Loop
<1> QED  BY <1>1, <1>2, <1>3

\* A document stays well formed, and known, when it is changed or inserted.
LEMMA IncidentsType ==
  ASSUME TypeOK,
         \/ UNCHANGED incidents
         \/ \E d \in DOMAIN incidents :
              /\ DOMAIN incidents' = DOMAIN incidents
              /\ \A e \in DOMAIN incidents \ {d} : incidents'[e] = incidents[e]
              /\ incidents'[d] \in Stored
         \/ \E d \in Doc \ DOMAIN incidents, n \in Nat : Insert(d, n)
  PROVE  /\ DOMAIN incidents' \subseteq Doc
         /\ \A d \in DOMAIN incidents' : incidents'[d] \in Stored
<1>1. CASE UNCHANGED incidents
  BY <1>1 DEF TypeOK
<1>2. ASSUME NEW d \in DOMAIN incidents, DOMAIN incidents' = DOMAIN incidents,
             \A e \in DOMAIN incidents \ {d} : incidents'[e] = incidents[e],
             incidents'[d] \in Stored
      PROVE  /\ DOMAIN incidents' \subseteq Doc
             /\ \A e \in DOMAIN incidents' : incidents'[e] \in Stored
  BY <1>2 DEF TypeOK
<1>3. ASSUME NEW d \in Doc \ DOMAIN incidents, NEW n \in Nat, Insert(d, n)
      PROVE  /\ DOMAIN incidents' \subseteq Doc
             /\ \A e \in DOMAIN incidents' : incidents'[e] \in Stored
  <2>1. [number |-> n, services |-> "list", key |-> TRUE] \in Stored
    BY DEF Stored, Names
  <2>2. /\ DOMAIN incidents' = DOMAIN incidents \cup {d}
        /\ \A e \in DOMAIN incidents : incidents'[e] = incidents[e]
        /\ incidents'[d] \in Stored
    BY <1>3, <2>1, InsertOne
  <2> QED  BY <2>2 DEF TypeOK
<1> QED  BY <1>1, <1>2, <1>3

\* and every step keeps them so: the loops hold only stored old incidents.
LEMMA TypeNext ==
  ASSUME TypeOK, LoopsInv, SeedInv, [Next]_vars
  PROVE  TypeOK'
<1> DEFINE Docs == /\ DOMAIN incidents' \subseteq Doc
                   /\ \A d \in DOMAIN incidents' : incidents'[d] \in Stored
           Refs == ref' \in [Process -> Loop({"keys", "setKeys", "number"})]
           Legacies == legacy' \in [Process -> Loop({"count", "find", "set"})]
           Servers == proc' \in [Process -> Server]
<1>a. /\ ref \in [Process -> Loop({"keys", "setKeys", "number"})]
      /\ legacy \in [Process -> Loop({"count", "find", "set"})]
      /\ proc \in [Process -> Server]
      /\ crashes \in Nat /\ MaxCrashes \in Nat /\ counter \in Nat
  BY CrashAssumption DEF TypeOK
<1>b. ASSUME UNCHANGED incidents PROVE Docs
  BY <1>b, IncidentsType
<1>c. \A d \in DOMAIN incidents : incidents[d] \in Stored
  BY DEF TypeOK
<1>d. Parts \cup {"off", "init", "serving"} = {"off", "init", "serving", "teams", "users",
        "leads", "incidents", "sync", "alerts", "details", "investigation"}
  BY SeedOrder
<1>1. ASSUME NEW p \in Process, Start(p) PROVE TypeOK'
  <2>1. Servers
    BY <1>1, <1>a DEF Start, Server
  <2>2. Refs /\ Legacies
    BY <1>1, <1>a, LoopType DEF Start
  <2>3. \A q \in Process : /\ (proc'[q].doc = None) <=> (proc'[q].number = 0)
                           /\ proc'[q].step # "init" => ref'[q] = Done /\ legacy'[q] = Done
    BY <1>1, <1>a DEF Start, Server, TypeOK
  <2> QED  BY <1>1, <1>b, <2>1, <2>2, <2>3 DEF Start, TypeOK
<1>2. ASSUME NEW p \in Process, FindKeys(p) PROVE TypeOK'
  <2> DEFINE missing == {d \in DOMAIN incidents : ~incidents[d].key \/ OldNames(d)}
             copy == [d \in missing |-> incidents[d].services]
  <2>1. missing \in SUBSET Doc /\ copy \in [missing -> Names]
    BY <1>c DEF TypeOK, Stored
  <2>2. [ref[p] EXCEPT !.step = "setKeys", !.left = missing, !.copy = copy]
          \in Loop({"keys", "setKeys", "number"})
    BY <1>a, <2>1, LoopType
  <2>3. Refs
    BY <1>2, <1>a, <2>2 DEF FindKeys
  <2> QED  BY <1>2, <1>b, <2>3 DEF FindKeys, RefAt, OnlyRef, TypeOK
<1>3. ASSUME NEW p \in Process, SetKey(p) PROVE TypeOK'
  <2> DEFINE d == Oldest(ref[p].left)
  <2>1. d \in ref[p].left /\ d \in DOMAIN incidents /\ d \in DOMAIN ref[p].copy
    BY <1>3, OldestLeft DEF SetKey, RefAt, LoopsInv, LoopInv
  <2>2. ref[p].copy[d] \in Names
    BY <1>a, <2>1 DEF Loop
  <2>3. Docs
    <3>1. incidents[d] \in Stored
      BY <2>1, <1>c
    <3>2. /\ DOMAIN incidents' = DOMAIN incidents
          /\ \A e \in DOMAIN incidents \ {d} : incidents'[e] = incidents[e]
          /\ incidents'[d] \in Stored
      BY <1>3, <2>1, <2>2, <3>1 DEF SetKey, Stored, Names
    <3> QED  BY <2>1, <3>2, IncidentsType
  <2>4. Refs
    BY <1>3, <1>a, LoopType DEF SetKey
  <2> QED  BY <1>3, <2>3, <2>4 DEF SetKey, RefAt, OnlyRef, TypeOK
<1>4. ASSUME NEW p \in Process, FindNumbers(p) PROVE TypeOK'
  <2>1. {d \in DOMAIN incidents : Missing(d)} \in SUBSET Doc
    BY DEF TypeOK
  <2>2. Refs
    BY <1>4, <1>a, <2>1, LoopType DEF FindNumbers
  <2> QED  BY <1>4, <1>b, <2>2 DEF FindNumbers, RefAt, OnlyRef, TypeOK
<1>5. ASSUME NEW p \in Process, TakeForOld(p) PROVE TypeOK'
  <2>1. counter' \in Nat /\ ref' = [ref EXCEPT ![p].number = counter + 1]
    BY <1>5, <1>a DEF TakeForOld, NextNumber
  <2>2. [ref[p] EXCEPT !.number = counter + 1] \in Loop({"keys", "setKeys", "number"})
    <3>1. ref[p] \in Loop({"keys", "setKeys", "number"}) /\ counter + 1 \in Nat
      BY <1>a
    <3> QED  BY <3>1, SMT DEF Loop
  <2>3. Refs
    BY <1>a, <2>1, <2>2
  <2> QED  BY <1>5, <1>b, <2>1, <2>3 DEF TakeForOld, RefAt, OnlyRef, TypeOK
<1>6. ASSUME NEW p \in Process, SetNumber(p) PROVE TypeOK'
  <2> DEFINE d == Oldest(ref[p].left)
  <2>1. d \in DOMAIN incidents /\ ref[p].number \in Nat
    BY <1>6, <1>a, OldestLeft DEF SetNumber, RefAt, LoopsInv, LoopInv, Loop
  <2>2. Docs
    <3>1. incidents[d] \in Stored
      BY <2>1, <1>c
    <3>2. incidents'[d] = [incidents[d] EXCEPT !.number = ref[p].number]
      BY <1>6, <2>1 DEF SetNumber, Change
    <3>3. incidents'[d] \in Stored
      BY <2>1, <3>1, <3>2 DEF Stored
    <3>4. /\ DOMAIN incidents' = DOMAIN incidents
          /\ \A e \in DOMAIN incidents \ {d} : incidents'[e] = incidents[e]
      BY <1>6, <2>1 DEF SetNumber, Change
    <3> QED  BY <2>1, <3>3, <3>4, IncidentsType
  <2>3. [ref[p] EXCEPT !.left = @ \ {d}, !.number = 0] \in Loop({"keys", "setKeys", "number"})
    BY <1>a, LoopType
  <2>4. Refs
    BY <1>6, <1>a, <2>3 DEF SetNumber
  <2> QED  BY <1>6, <2>2, <2>4 DEF SetNumber, RefAt, OnlyRef, TypeOK
<1>7. ASSUME NEW p \in Process, RefDone(p) PROVE TypeOK'
  <2>1. Refs
    BY <1>7, <1>a, DoneType DEF RefDone
  <2> QED  BY <1>7, <1>b, <2>1 DEF RefDone, RefAt, OnlyRef, TypeOK
<1>8. ASSUME NEW p \in Process, CountLegacy(p) PROVE TypeOK'
  <2>1. Legacies
    BY <1>8, <1>a, LoopType DEF CountLegacy
  <2> QED  BY <1>8, <1>b, <2>1 DEF CountLegacy, LegacyAt, OnlyLegacy, TypeOK
<1>9. ASSUME NEW p \in Process, FindLegacy(p) PROVE TypeOK'
  <2>1. {d \in DOMAIN incidents : OldNames(d)} \in SUBSET Doc
    BY DEF TypeOK
  <2>2. Legacies
    BY <1>9, <1>a, <2>1, LoopType DEF FindLegacy
  <2> QED  BY <1>9, <1>b, <2>2 DEF FindLegacy, LegacyAt, OnlyLegacy, TypeOK
<1>10. ASSUME NEW p \in Process, NEW d \in Doc, SetServices(p, d) PROVE TypeOK'
  <2>1. d \in DOMAIN incidents
    BY <1>10 DEF SetServices, LoopsInv, LoopInv
  <2>2. Docs
    <3>1. incidents[d] \in Stored
      BY <2>1, <1>c
    <3>2. incidents'[d] = [incidents[d] EXCEPT !.services = "list"]
      BY <1>10, <2>1 DEF SetServices, Change
    <3>3. incidents'[d] \in Stored
      BY <3>1, <3>2 DEF Stored, Names
    <3>4. /\ DOMAIN incidents' = DOMAIN incidents
          /\ \A e \in DOMAIN incidents \ {d} : incidents'[e] = incidents[e]
      BY <1>10, <2>1 DEF SetServices, Change
    <3> QED  BY <2>1, <3>3, <3>4, IncidentsType
  <2>3. Legacies
    BY <1>10, <1>a, LoopType DEF SetServices
  <2> QED  BY <1>10, <2>2, <2>3 DEF SetServices, LegacyAt, OnlyLegacy, TypeOK
<1>11. ASSUME NEW p \in Process, LegacyDone(p) PROVE TypeOK'
  <2>1. Legacies
    BY <1>11, <1>a, DoneType DEF LegacyDone
  <2> QED  BY <1>11, <1>b, <2>1 DEF LegacyDone, LegacyAt, OnlyLegacy, TypeOK
<1>e. ASSUME UNCHANGED <<ref, legacy>>, Servers,
             \A q \in Process : /\ (proc'[q].doc = None) <=> (proc'[q].number = 0)
                               /\ \/ proc'[q].step = proc[q].step
                                  \/ proc[q].step # "init"
                                  \/ Migrated(q)
             ,
             Docs, filled' \subseteq Parts, counter' \in Nat,
             UNCHANGED <<index, asked, crashes, gap>>
      PROVE  TypeOK'
  <2>1. \A q \in Process : proc'[q].step # "init" => ref'[q] = Done /\ legacy'[q] = Done
    BY <1>e DEF LoopsInv, LoopInv, Migrated, TypeOK
  <2> QED  BY <1>e, <1>a, <2>1 DEF TypeOK
<1>f. ASSUME NEW p \in Process, NEW step \in Parts \cup {"off", "init", "serving"},
             Go(p, step)
      PROVE  /\ Servers
             /\ \A q \in Process : (proc'[q].doc = None) <=> (proc'[q].number = 0)
             /\ \A q \in Process \ {p} : proc'[q].step = proc[q].step
  <2>1. Servers
    BY <1>f, <1>a DEF Go, Server
  <2>2. \A q \in Process : proc'[q].doc = proc[q].doc /\ proc'[q].number = proc[q].number
    BY <1>f, <1>a DEF Go, Server
  <2>3. \A q \in Process \ {p} : proc'[q].step = proc[q].step
    BY <1>f, <1>a DEF Go
  <2> QED  BY <2>1, <2>2, <2>3 DEF TypeOK
<1>g. filled \subseteq Parts
  BY DEF TypeOK
<1>12. ASSUME NEW p \in Process, SeedOrSkip(p) PROVE TypeOK'
  <2> DEFINE step == IF "users" \in filled THEN "serving" ELSE "teams"
  <2>1. step \in Parts \cup {"off", "init", "serving"} /\ Go(p, step)
    BY <1>12, SeedOrder DEF SeedOrSkip
  <2>2. /\ Servers
        /\ \A q \in Process : (proc'[q].doc = None) <=> (proc'[q].number = 0)
        /\ \A q \in Process \ {p} : proc'[q].step = proc[q].step
    BY <2>1, <1>f
  <2>3. Docs
    BY <1>12, <1>b DEF SeedOrSkip
  <2> QED  BY <1>12, <1>a, <1>e, <1>g, <2>2, <2>3 DEF SeedOrSkip, OnlySeed
<1>13. ASSUME NEW p \in Process, FillPart(p) PROVE TypeOK'
  <2> DEFINE part == proc[p].step
  <2>1. part \in Parts \ {"incidents", "sync"}
    BY <1>13 DEF FillPart, Parts
  <2>2. After(part) \in Parts \cup {"serving"}
    BY <2>1, SeedOrder
  <2>3. PICK step \in Parts \cup {"serving"} : Go(p, step) /\ filled' \subseteq Parts
    BY <1>13, <1>g, <2>1, <2>2 DEF FillPart
  <2>4. /\ Servers
        /\ \A q \in Process : (proc'[q].doc = None) <=> (proc'[q].number = 0)
        /\ \A q \in Process \ {p} : proc'[q].step = proc[q].step
    BY <2>3, <1>f
  <2>5. Docs
    BY <1>13, <1>b DEF FillPart
  <2>6. part # "init"
    BY <2>1, SeedOrder
  <2> QED  BY <1>13, <1>a, <1>e, <2>3, <2>4, <2>5, <2>6 DEF FillPart, OnlySeed
<1>14. ASSUME NEW p \in Process, InsertSeeded(p) PROVE TypeOK'
  <2> DEFINE n == proc[p].at
  <2>1. n \in DOMAIN Seeded /\ n \in Nat /\ n + 1 \in 1..(Len(Seeded) + 1)
    <3>1. n <= Len(Seeded)
      BY <1>14 DEF InsertSeeded, SeedInv, SeedStep
    <3>2. n \in 1..(Len(Seeded) + 1)
      BY <1>14, <1>a DEF Server
    <3>3. Len(Seeded) \in Nat /\ DOMAIN Seeded = 1..Len(Seeded)
      BY SequenceAssumption
    <3> QED  BY <3>1, <3>2, <3>3
  <2>2. CASE Taken(n) \/ Seeded[n] \in DOMAIN incidents
    <3>1. Go(p, "serving") /\ UNCHANGED incidents
      BY <1>14, <2>2 DEF InsertSeeded
    <3>2. /\ Servers
          /\ \A q \in Process : (proc'[q].doc = None) <=> (proc'[q].number = 0)
          /\ \A q \in Process \ {p} : proc'[q].step = proc[q].step
      BY <3>1, <1>f
    <3> QED  BY <1>14, <1>a, <1>b, <1>e, <1>g, <3>1, <3>2 DEF InsertSeeded, OnlySeed
  <2>3. CASE ~(Taken(n) \/ Seeded[n] \in DOMAIN incidents)
    <3>1. /\ Insert(Seeded[n], n)
          /\ proc' = [proc EXCEPT ![p].at = n + 1,
                       ![p].step = IF n = Len(Seeded) THEN "sync" ELSE @]
      BY <1>14, <2>3 DEF InsertSeeded
    <3>2. Docs
      <4>1. Seeded[n] \in Doc \ DOMAIN incidents
        BY <2>1, <2>3 DEF Doc, SeedIncidents
      <4> QED  BY <2>1, <3>1, <4>1, IncidentsType
    <3>3. Servers
      <4>1. "sync" \in Parts
        BY SeedOrder
      <4>2. [proc[p] EXCEPT !.at = n + 1,
                            !.step = IF n = Len(Seeded) THEN "sync" ELSE @] \in Server
        BY <2>1, <1>a, <4>1 DEF Server
      <4> QED  BY <3>1, <1>a, <4>2
    <3>4. \A q \in Process : proc'[q].doc = proc[q].doc /\ proc'[q].number = proc[q].number
      BY <3>1, <1>a DEF Server
    <3>5. \A q \in Process \ {p} : proc'[q].step = proc[q].step
      BY <3>1, <1>a
    <3>6. \A q \in Process : (proc'[q].doc = None) <=> (proc'[q].number = 0)
      BY <3>4 DEF TypeOK
    <3> QED  BY <1>14, <1>a, <1>e, <1>g, <3>2, <3>3, <3>5, <3>6 DEF InsertSeeded, OnlySeed
  <2> QED  BY <2>2, <2>3
<1>15. ASSUME NEW p \in Process, SyncCounter(p) PROVE TypeOK'
  <2>1. After("sync") \in Parts /\ Go(p, After("sync"))
    BY <1>15, SeedOrder DEF SyncCounter
  <2>2. /\ Servers
        /\ \A q \in Process : (proc'[q].doc = None) <=> (proc'[q].number = 0)
        /\ \A q \in Process \ {p} : proc'[q].step = proc[q].step
    BY <2>1, <1>f
  <2>3. counter' \in Nat
    BY <1>15, <1>a, SequenceAssumption DEF SyncCounter, syncIncidentCounterToAtLeast
  <2>4. Docs
    BY <1>15, <1>b DEF SyncCounter
  <2> QED  BY <1>15, <1>e, <1>g, <2>2, <2>3, <2>4 DEF SyncCounter, OnlySeed
<1>16. ASSUME NEW p \in Process, NEW d \in New, TakeNumber(p, d) PROVE TypeOK'
  <2>1. proc' = [proc EXCEPT ![p].doc = d, ![p].number = counter + 1]
    BY <1>16 DEF TakeNumber, NextNumber
  <2>2. Servers
    <3>1. [proc[p] EXCEPT !.doc = d, !.number = counter + 1] \in Server
      <4>1. proc[p] \in Server /\ counter + 1 \in Nat /\ d \in New \cup {None}
        BY <1>a
      <4> HIDE DEF Servers
      <4> QED  BY <4>1, ServerType, Zenon
    <3> QED  BY <1>a, <2>1, <3>1
  <2>3. \A q \in Process : (proc'[q].doc = None) <=> (proc'[q].number = 0)
    <3>1. proc'[p].doc = d /\ proc'[p].number = counter + 1
      BY <1>a, <2>1 DEF Server
    <3>2. d # None /\ counter + 1 # 0
      BY <1>a, DocumentAssumption
    <3>3. \A q \in Process \ {p} : proc'[q] = proc[q]
      BY <1>a, <2>1
    <3> QED  BY <3>1, <3>2, <3>3 DEF TypeOK
  <2>4. \A q \in Process : proc'[q].step = proc[q].step
    BY <1>a, <2>1 DEF Server
  <2>5. counter' \in Nat /\ Docs
    BY <1>16, <1>a, <1>b DEF TakeNumber
  <2> QED  BY <1>16, <1>e, <1>g, <2>2, <2>3, <2>4, <2>5 DEF TakeNumber, OnlySeed
<1>17. ASSUME NEW p \in Process, Create(p) PROVE TypeOK'
  <2>1. proc' = [proc EXCEPT ![p].doc = None, ![p].number = 0]
    BY <1>17 DEF Create
  <2>2. Servers
    BY <1>a, <2>1 DEF Server
  <2>3. \A q \in Process : (proc'[q].doc = None) <=> (proc'[q].number = 0)
    BY <1>a, <2>1 DEF Server, TypeOK
  <2>4. \A q \in Process : proc'[q].step = proc[q].step
    BY <1>a, <2>1 DEF Server
  <2>5. Docs
    <3>1. proc[p].doc \in New /\ proc[p].number \in Nat
      BY <1>17, <1>a DEF Create, Server
    <3>2. CASE UNCHANGED incidents
      BY <3>2, <1>b
    <3>3. CASE Insert(proc[p].doc, proc[p].number) /\ proc[p].doc \notin DOMAIN incidents
      BY <3>1, <3>3, IncidentsType DEF Doc
    <3>4. CASE Insert(proc[p].doc, proc[p].number) /\ proc[p].doc \in DOMAIN incidents
      <4>1. [number |-> proc[p].number, services |-> "list", key |-> TRUE] \in Stored
        BY <3>1 DEF Stored, Names
      <4> QED  BY <3>1, <3>4, <4>1, <1>c DEF Insert, Doc, TypeOK
    <3> QED  BY <1>17, <3>2, <3>3, <3>4 DEF Create
  <2> QED  BY <1>17, <1>a, <1>e, <1>g, <2>2, <2>3, <2>4, <2>5 DEF Create, OnlySeed
<1>18. ASSUME NEW p \in Process, Crash(p) PROVE TypeOK'
  <2>1. Servers
    BY <1>18, <1>a, OffType DEF Crash
  <2>2. Refs /\ Legacies
    BY <1>18, <1>a, DoneType DEF Crash
  <2>3. gap' \in BOOLEAN
    BY <1>18 DEF Crash, TypeOK
  <2>4. crashes' \in 0..MaxCrashes
    BY <1>18, <1>a DEF Crash, TypeOK
  <2>5. \A q \in Process : /\ (proc'[q].doc = None) <=> (proc'[q].number = 0)
                           /\ proc'[q].step # "init" => ref'[q] = Done /\ legacy'[q] = Done
    <3>1. proc'[p] = Off /\ Off.doc = None /\ Off.number = 0 /\ ref'[p] = Done /\ legacy'[p] = Done
      BY <1>18, <1>a DEF Crash, Off
    <3>2. \A q \in Process \ {p} : proc'[q] = proc[q] /\ ref'[q] = ref[q] /\ legacy'[q] = legacy[q]
      BY <1>18, <1>a DEF Crash
    <3> QED  BY <3>1, <3>2 DEF TypeOK
  <2>6. UNCHANGED <<incidents, counter, index, filled>> /\ asked' \in SUBSET Process
    BY <1>18 DEF Crash, TypeOK
  <2> QED  BY <1>b, <2>1, <2>2, <2>3, <2>4, <2>5, <2>6 DEF TypeOK
<1>19. ASSUME UNCHANGED vars PROVE TypeOK'
  BY <1>19 DEF vars, TypeOK, Missing, OldNames
<1>20. ASSUME NEW p \in Process, BuildIndex(p) PROVE TypeOK'
  <2>1. index' \in BOOLEAN /\ asked' \in SUBSET Process
    BY <1>20 DEF BuildIndex, TypeOK
  <2> QED  BY <1>20, <1>b, <2>1 DEF BuildIndex, TypeOK
<1> QED
  BY <1>1, <1>2, <1>3, <1>4, <1>5, <1>6, <1>7, <1>8, <1>9, <1>10, <1>11, <1>12, <1>13, <1>14,
     <1>15, <1>16, <1>17, <1>18, <1>19, <1>20 DEF Next, Boot

-----------------------------------------------------------------------------
(* What a step does to the documents. *)

\* No document is lost, nor what it has of a number, a list of services and a
\* key, whichever process writes over what another one wrote; and one that is
\* inserted has all three, and is none of the old ones.
Grow ==
  /\ DOMAIN incidents \subseteq DOMAIN incidents'
  /\ \A d \in DOMAIN incidents :
       /\ incidents[d].key => incidents'[d].key
       /\ incidents[d].services # "old" => incidents'[d].services # "old"
       /\ incidents[d].number # 0 => incidents'[d].number # 0
  /\ \A d \in DOMAIN incidents' \ DOMAIN incidents :
       /\ d \notin OldIncidents
       /\ incidents'[d].key
       /\ incidents'[d].services # "old"
       /\ incidents'[d].number # 0

\* A step that leaves the documents,
LEMMA GrowSame == UNCHANGED incidents => Grow
  BY DEF Grow

\* inserts one,
LEMMA GrowInsert ==
  ASSUME NEW d \in Doc \ OldIncidents, NEW n \in Nat \ {0}, Insert(d, n)
  PROVE  Grow
<1>1. /\ DOMAIN incidents' = DOMAIN incidents \cup {d}
      /\ \A e \in DOMAIN incidents \ {d} : incidents'[e] = incidents[e]
      /\ incidents'[d].number = n /\ incidents'[d].services = "list" /\ incidents'[d].key
  BY DEF Insert
<1> QED  BY <1>1 DEF Grow

\* or changes one takes nothing away.
LEMMA GrowChange ==
  ASSUME TypeOK, NEW d \in DOMAIN incidents,
         DOMAIN incidents' = DOMAIN incidents,
         \A e \in DOMAIN incidents \ {d} : incidents'[e] = incidents[e],
         incidents[d].key => incidents'[d].key,
         incidents[d].services # "old" => incidents'[d].services # "old",
         incidents[d].number # 0 => incidents'[d].number # 0
  PROVE  Grow
  BY DEF Grow

\* The three changes of the migrations.
LEMMA SetKeyDoes ==
  ASSUME TypeOK, LoopsInv, NEW p \in Process, SetKey(p)
  PROVE  LET d == Oldest(ref[p].left) IN
         /\ d \in ref[p].left /\ d \in OldIncidents \cap DOMAIN incidents
         /\ DOMAIN incidents' = DOMAIN incidents
         /\ \A e \in DOMAIN incidents \ {d} : incidents'[e] = incidents[e]
         /\ incidents'[d].key
         /\ incidents'[d].services # "old"
         /\ incidents'[d].number = incidents[d].number
<1> DEFINE d == Oldest(ref[p].left)
<1>1. d \in ref[p].left /\ d \in OldIncidents \cap DOMAIN incidents
  BY OldestLeft DEF SetKey, LoopsInv, LoopInv
<1>2. incidents[d] \in Stored
  BY <1>1 DEF TypeOK
<1> HIDE DEF d
<1>3. incidents' = [incidents EXCEPT ![d].key = TRUE,
       ![d].services = IF ref[p].copy[d] = "old" THEN "unknown" ELSE ref[p].copy[d]]
  BY DEF SetKey, d
<1>4. /\ DOMAIN incidents' = DOMAIN incidents
      /\ \A e \in DOMAIN incidents \ {d} : incidents'[e] = incidents[e]
      /\ incidents'[d].key
      /\ incidents'[d].services # "old"
      /\ incidents'[d].number = incidents[d].number
  BY <1>1, <1>2, <1>3 DEF Stored
<1> QED  BY <1>1, <1>4 DEF d

\* What the number of an old incident changes,
LEMMA SetNumberDoes ==
  ASSUME TypeOK, LoopsInv, NEW p \in Process, SetNumber(p)
  PROVE  LET d == Oldest(ref[p].left) IN
         /\ d \in ref[p].left /\ d \in OldIncidents \cap DOMAIN incidents
         /\ DOMAIN incidents' = DOMAIN incidents
         /\ \A e \in DOMAIN incidents \ {d} : incidents'[e] = incidents[e]
         /\ incidents'[d].key = incidents[d].key
         /\ incidents'[d].services = incidents[d].services
         /\ incidents'[d].number = ref[p].number /\ ref[p].number # 0
<1> DEFINE d == Oldest(ref[p].left)
<1>1. d \in ref[p].left /\ d \in OldIncidents \cap DOMAIN incidents
  BY OldestLeft DEF SetNumber, LoopsInv, LoopInv
<1> HIDE DEF d
<1>2. Change(d, "number", ref[p].number) /\ ref[p].number # 0
  BY DEF SetNumber, d
<1>3. /\ DOMAIN incidents' = DOMAIN incidents
      /\ \A e \in DOMAIN incidents \ {d} : incidents'[e] = incidents[e]
      /\ incidents'[d].key = incidents[d].key
      /\ incidents'[d].services = incidents[d].services
      /\ incidents'[d].number = ref[p].number
  BY <1>1, <1>2, ChangeOne
<1> QED  BY <1>1, <1>2, <1>3 DEF d

\* and what its list of services changes.
LEMMA SetServicesDoes ==
  ASSUME TypeOK, LoopsInv, NEW p \in Process, NEW d \in Doc, SetServices(p, d)
  PROVE  /\ d \in OldIncidents \cap DOMAIN incidents
         /\ DOMAIN incidents' = DOMAIN incidents
         /\ \A e \in DOMAIN incidents \ {d} : incidents'[e] = incidents[e]
         /\ incidents'[d].key = incidents[d].key
         /\ incidents'[d].services = "list"
         /\ incidents'[d].number = incidents[d].number
<1>1. d \in OldIncidents \cap DOMAIN incidents
  BY DEF SetServices, LoopsInv, LoopInv
<1>2. Change(d, "services", "list")
  BY DEF SetServices
<1> QED  BY <1>1, <1>2, ChangeOne

\* Every step only adds to the documents.
LEMMA DocsGrow ==
  ASSUME TypeOK, LoopsInv, SeedInv, [Next]_vars
  PROVE  Grow
<1>1. ASSUME NEW p \in Process, SetKey(p) PROVE Grow
  BY <1>1, SetKeyDoes, GrowChange
<1>2. ASSUME NEW p \in Process, SetNumber(p) PROVE Grow
  BY <1>2, SetNumberDoes, GrowChange
<1>3. ASSUME NEW p \in Process, NEW d \in Doc, SetServices(p, d) PROVE Grow
  BY <1>3, SetServicesDoes, GrowChange
<1>4. ASSUME NEW p \in Process, InsertSeeded(p) PROVE Grow
  <2> DEFINE n == proc[p].at
  <2>1. n \in DOMAIN Seeded /\ n \in Nat \ {0}
    BY <1>4, SequenceAssumption DEF InsertSeeded, SeedInv, SeedStep, TypeOK, Server
  <2>2. Seeded[n] \in Doc \ OldIncidents
    BY <2>1, DocumentAssumption DEF Doc, SeedIncidents
  <2>3. UNCHANGED incidents \/ Insert(Seeded[n], n)
    BY <1>4 DEF InsertSeeded
  <2> QED  BY <2>1, <2>2, <2>3, GrowSame, GrowInsert
<1>5. ASSUME NEW p \in Process, Create(p) PROVE Grow
  <2>1. proc[p].doc \in New /\ proc[p].number \in Nat \ {0}
    BY <1>5 DEF Create, TypeOK, Server
  <2>2. proc[p].doc \in Doc \ OldIncidents
    BY <2>1, DocumentAssumption DEF Doc
  <2>3. UNCHANGED incidents \/ Insert(proc[p].doc, proc[p].number)
    BY <1>5 DEF Create
  <2> QED  BY <2>1, <2>2, <2>3, GrowSame, GrowInsert
<1>6. ASSUME NEW p \in Process,
             \/ Start(p) \/ BuildIndex(p)
             \/ FindKeys(p) \/ FindNumbers(p) \/ TakeForOld(p) \/ RefDone(p)
             \/ CountLegacy(p) \/ FindLegacy(p) \/ LegacyDone(p) \/ SeedOrSkip(p)
             \/ FillPart(p) \/ SyncCounter(p) \/ Crash(p) \/ \E d \in New : TakeNumber(p, d)
      PROVE  Grow
  <2>1. UNCHANGED incidents
    BY <1>6 DEF Start, BuildIndex, FindKeys, FindNumbers, TakeForOld, RefDone, CountLegacy,
                FindLegacy, LegacyDone, SeedOrSkip, FillPart, SyncCounter, Crash, TakeNumber
  <2> QED  BY <2>1, GrowSame
<1>7. CASE UNCHANGED vars
  BY <1>7, GrowSame DEF vars
<1> QED  BY <1>1, <1>2, <1>3, <1>4, <1>5, <1>6, <1>7 DEF Next, Boot

\* What is complete stays so.
LEMMA CompleteStays ==
  ASSUME TypeOK, Grow
  PROVE  /\ \A d \in DOMAIN incidents : Complete(d) => Complete(d)'
         /\ \A d \in DOMAIN incidents' \ DOMAIN incidents : Complete(d)'
  BY DEF Grow, Complete, Missing, OldNames

-----------------------------------------------------------------------------
(* The loops of the migrations, and what each has behind it. *)

\* A step of another process leaves a loop as it is.
LEMMA LoopStays ==
  ASSUME NEW q \in Process, LoopInv(q), ref'[q] = ref[q], legacy'[q] = legacy[q], Grow
  PROVE  LoopInv(q)'
  BY DEF LoopInv, Grow

\* A migration that is done has nothing left.
LEMMA LoopOfDone ==
  ASSUME NEW q \in Process, ref'[q] = Done, legacy'[q] = Done
  PROVE  LoopInv(q)'
<1>1. /\ Done.left = {} /\ Done.number = 0 /\ Done.step = "done"
  BY DEF Done
<1> QED  BY <1>1 DEF LoopInv

\* A step of the first migrations is one of p, and leaves the other one.
LEMMA RefMoves ==
  ASSUME TypeOK, NEW p \in Process, NEW x, ref' = [ref EXCEPT ![p] = x], UNCHANGED legacy,
         NEW q \in Process
  PROVE  /\ legacy'[q] = legacy[q]
         /\ ref'[p] = x
         /\ q # p => ref'[q] = ref[q]
  BY DEF TypeOK

\* A step of the last migration is one of p, and leaves the other ones.
LEMMA LegacyMoves ==
  ASSUME TypeOK, NEW p \in Process, NEW x, legacy' = [legacy EXCEPT ![p] = x], UNCHANGED ref,
         NEW q \in Process
  PROVE  /\ ref'[q] = ref[q]
         /\ legacy'[p] = x
         /\ q # p => legacy'[q] = legacy[q]
  BY DEF TypeOK

\* A migration is what its four fields are.
LEMMA SameLoop ==
  ASSUME NEW steps, NEW x \in Loop(steps), NEW y \in Loop(steps),
         x.step = y.step, x.left = y.left, x.number = y.number, x.copy = y.copy
  PROVE  x = y
<1>1. \A S, L, N, C : \A a, b \in [step : S, left : L, number : N, copy : C] :
        a.step = b.step /\ a.left = b.left /\ a.number = b.number /\ a.copy = b.copy => a = b
  OBVIOUS
<1> QED  BY <1>1, Zenon DEF Loop

\* A migration that counts no old document is done.
LEMMA CountedNone == [[Done EXCEPT !.step = "count"] EXCEPT !.step = "done"] = Done
<1> DEFINE once == [Done EXCEPT !.step = "count"]
           twice == [once EXCEPT !.step = "done"]
<1>1. Done \in Loop({"count"})
  BY DoneType
<1>2. once \in Loop({"count"})
  BY <1>1, LoopType
<1>3. twice \in Loop({"count"})
  <2> HIDE DEF once
  <2> QED  BY <1>2, LoopType
<1>4. /\ twice.step = Done.step /\ twice.left = Done.left
      /\ twice.number = Done.number /\ twice.copy = Done.copy
  BY DEF Done
<1> HIDE DEF twice
<1>5. twice = Done
  BY <1>1, <1>3, <1>4, SameLoop
<1> QED  BY <1>5 DEF twice

\* Every step keeps the loops on stored old incidents.
LEMMA LoopsNext ==
  ASSUME TypeOK, LoopsInv, SeedInv, [Next]_vars
  PROVE  LoopsInv'
<1>a. Grow
  BY DocsGrow
<1>b. \A d \in DOMAIN incidents' \ OldIncidents : Complete(d)'
  BY <1>a, CompleteStays DEF LoopsInv
<1>c. ASSUME UNCHANGED <<ref, legacy>>, NEW q \in Process PROVE LoopInv(q)'
  BY <1>a, <1>c, LoopStays DEF LoopsInv
<1>d. /\ Done.left = {} /\ Done.number = 0 /\ Done.step = "done"
  BY DEF Done
<1>e. \A q \in Process : /\ ref[q] \in Loop({"keys", "setKeys", "number"})
                         /\ legacy[q] \in Loop({"count", "find", "set"})
                         /\ LoopInv(q)
  BY DEF TypeOK, LoopsInv
<1>1. ASSUME NEW p \in Process, NEW q \in Process, Start(p) PROVE LoopInv(q)'
  <2>1. CASE q = p
    <3>1. ref[p] = Done /\ legacy[p] = Done
      BY <1>1 DEF Start, TypeOK
    <3>2. /\ ref'[p] = [Done EXCEPT !.step = "keys"]
          /\ legacy'[p] = [Done EXCEPT !.step = "count"]
      BY <1>1, <3>1 DEF Start, TypeOK
    <3> QED  BY <2>1, <3>2 DEF LoopInv, Done
  <2>2. CASE q # p
    <3>1. ref'[q] = ref[q] /\ legacy'[q] = legacy[q]
      BY <1>1, <2>2 DEF Start, TypeOK
    <3> QED  BY <1>a, <1>e, <3>1, LoopStays
  <2> QED  BY <2>1, <2>2
<1>2. ASSUME NEW p \in Process, NEW q \in Process, FindKeys(p) PROVE LoopInv(q)'
  <2> DEFINE missing == {d \in DOMAIN incidents : ~incidents[d].key \/ OldNames(d)}
             copy == [d \in missing |-> incidents[d].services]
             x == [ref[p] EXCEPT !.step = "setKeys", !.left = missing, !.copy = copy]
  <2>1. ref' = [ref EXCEPT ![p] = x] /\ UNCHANGED <<legacy, incidents>>
    BY <1>2 DEF FindKeys, OnlyRef
  <2>2. CASE q = p
    <3>1. missing \subseteq OldIncidents \cap DOMAIN incidents
      BY DEF LoopsInv, Complete
    <3>2. /\ x.step = "setKeys" /\ x.left = missing /\ x.number = ref[p].number
          /\ x.copy = copy
      BY <1>e DEF Loop
    <3>3. ref[p].step = "keys" /\ ref[p].number = 0
      BY <1>2, <1>e DEF FindKeys, RefAt, LoopInv
    <3>4. DOMAIN copy = missing
      OBVIOUS
    <3> HIDE DEF x, copy, missing
    <3>5. ref'[p] = x /\ legacy'[p] = legacy[p]
      BY <2>1, RefMoves
    <3> QED  BY <1>e, <2>1, <2>2, <3>1, <3>2, <3>3, <3>4, <3>5 DEF LoopInv
  <2>3. CASE q # p
    <3> HIDE DEF x
    <3> QED  BY <1>a, <1>e, <2>1, <2>3, RefMoves, LoopStays
  <2> QED  BY <2>2, <2>3
<1>3. ASSUME NEW p \in Process, NEW q \in Process, SetKey(p) PROVE LoopInv(q)'
  <2> DEFINE x == [ref[p] EXCEPT !.left = @ \ {Oldest(ref[p].left)}]
  <2>1. ref' = [ref EXCEPT ![p] = x] /\ UNCHANGED legacy /\ DOMAIN incidents' = DOMAIN incidents
    BY <1>3, SetKeyDoes DEF SetKey, OnlyRef
  <2>2. CASE q = p
    <3>1. /\ x.step = "setKeys" /\ x.left \subseteq ref[p].left /\ x.number = 0
          /\ x.copy = ref[p].copy
      BY <1>3, <1>e DEF Loop, SetKey, RefAt, LoopInv
    <3> HIDE DEF x
    <3>2. ref'[p] = x /\ legacy'[p] = legacy[p]
      BY <2>1, RefMoves
    <3>3. ref[p].left \subseteq DOMAIN ref[p].copy
      BY <1>3, <1>e DEF SetKey, RefAt, LoopInv
    <3> QED  BY <1>e, <2>1, <2>2, <3>1, <3>2, <3>3 DEF LoopInv
  <2>3. CASE q # p
    <3> HIDE DEF x
    <3> QED  BY <1>a, <1>e, <2>1, <2>3, RefMoves, LoopStays
  <2> QED  BY <2>2, <2>3
<1>4. ASSUME NEW p \in Process, NEW q \in Process, FindNumbers(p) PROVE LoopInv(q)'
  <2> DEFINE missing == {d \in DOMAIN incidents : Missing(d)}
             x == [Done EXCEPT !.step = "number", !.left = missing]
  <2>1. ref' = [ref EXCEPT ![p] = x] /\ UNCHANGED <<legacy, incidents>>
    BY <1>4 DEF FindNumbers, OnlyRef
  <2>2. CASE q = p
    <3>1. missing \subseteq OldIncidents \cap DOMAIN incidents
      BY DEF LoopsInv, Complete
    <3>2. x.step = "number" /\ x.left = missing /\ x.number = 0
      BY DEF Done
    <3> HIDE DEF x, missing
    <3>3. ref'[p] = x /\ legacy'[p] = legacy[p]
      BY <2>1, RefMoves
    <3> QED  BY <1>e, <2>1, <2>2, <3>1, <3>2, <3>3 DEF LoopInv
  <2>3. CASE q # p
    <3> HIDE DEF x
    <3> QED  BY <1>a, <1>e, <2>1, <2>3, RefMoves, LoopStays
  <2> QED  BY <2>2, <2>3
<1>5. ASSUME NEW p \in Process, NEW q \in Process, TakeForOld(p) PROVE LoopInv(q)'
  <2> DEFINE x == [ref[p] EXCEPT !.number = NextNumber]
  <2>1. ref' = [ref EXCEPT ![p] = x] /\ UNCHANGED <<legacy, incidents>>
    BY <1>5 DEF TakeForOld, OnlyRef
  <2>2. CASE q = p
    <3>1. x.step = "number" /\ x.left = ref[p].left /\ ref[p].left # {}
      BY <1>5, <1>e DEF Loop, TakeForOld, RefAt
    <3> HIDE DEF x
    <3>2. ref'[p] = x /\ legacy'[p] = legacy[p]
      BY <2>1, RefMoves
    <3> QED  BY <1>e, <2>1, <2>2, <3>1, <3>2 DEF LoopInv
  <2>3. CASE q # p
    <3> HIDE DEF x
    <3> QED  BY <1>a, <1>e, <2>1, <2>3, RefMoves, LoopStays
  <2> QED  BY <2>2, <2>3
<1>6. ASSUME NEW p \in Process, NEW q \in Process, SetNumber(p) PROVE LoopInv(q)'
  <2> DEFINE x == [ref[p] EXCEPT !.left = @ \ {Oldest(ref[p].left)}, !.number = 0]
  <2>1. UNCHANGED legacy /\ DOMAIN incidents' = DOMAIN incidents
    BY <1>6, SetNumberDoes DEF SetNumber, OnlyRef
  <2>2. ref' = [ref EXCEPT ![p] = x]
    BY <1>6 DEF SetNumber
  <2>3. CASE q = p
    <3>1. x.step = "number" /\ x.left \subseteq ref[p].left /\ x.number = 0
      BY <1>6, <1>e DEF Loop, SetNumber, RefAt
    <3> HIDE DEF x
    <3>2. ref'[p] = x /\ legacy'[p] = legacy[p]
      BY <2>1, <2>2, RefMoves
    <3> QED  BY <1>e, <2>1, <2>3, <3>1, <3>2 DEF LoopInv
  <2>4. CASE q # p
    <3> HIDE DEF x
    <3> QED  BY <1>a, <1>e, <2>1, <2>2, <2>4, RefMoves, LoopStays
  <2> QED  BY <2>3, <2>4
<1>7. ASSUME NEW p \in Process, NEW q \in Process, RefDone(p) PROVE LoopInv(q)'
  <2>1. ref' = [ref EXCEPT ![p] = Done] /\ UNCHANGED <<legacy, incidents>>
    BY <1>7 DEF RefDone, OnlyRef
  <2>2. CASE q = p
    <3>1. ref'[p] = Done /\ legacy'[p] = legacy[p]
      BY <2>1, RefMoves
    <3> QED  BY <1>d, <1>e, <2>1, <2>2, <3>1 DEF LoopInv
  <2>3. CASE q # p
    BY <1>a, <1>e, <2>1, <2>3, RefMoves, LoopStays
  <2> QED  BY <2>2, <2>3
<1>8. ASSUME NEW p \in Process, NEW q \in Process, CountLegacy(p) PROVE LoopInv(q)'
  <2> DEFINE step == IF \E d \in DOMAIN incidents : OldNames(d) THEN "find" ELSE "done"
             x == [legacy[p] EXCEPT !.step = step]
  <2>1. legacy' = [legacy EXCEPT ![p] = x] /\ UNCHANGED <<ref, incidents>>
    BY <1>8 DEF CountLegacy, OnlyLegacy
  <2>2. CASE q = p
    <3>1. legacy[p] = [Done EXCEPT !.step = "count"]
      BY <1>8, <1>e DEF CountLegacy, LegacyAt, LoopInv
    <3>2. x.left = {} /\ x.step = step /\ step \in {"find", "done"}
      <4> HIDE DEF step
      <4>1. x.left = {} /\ x.step = step
        BY <3>1 DEF Done
      <4> QED  BY <4>1 DEF step
    <3>4. x.step = "done" => x = Done
      <4>1. step = "done" => x = [legacy[p] EXCEPT !.step = "done"]
        OBVIOUS
      <4>2. [legacy[p] EXCEPT !.step = "done"] = Done
        BY <3>1, CountedNone
      <4> QED  BY <3>2, <4>1, <4>2
    <3> HIDE DEF x, step
    <3>3. legacy'[p] = x /\ ref'[p] = ref[p]
      BY <2>1, LegacyMoves
    <3> QED  BY <1>e, <2>1, <2>2, <3>2, <3>3, <3>4 DEF LoopInv
  <2>3. CASE q # p
    <3> HIDE DEF x
    <3> QED  BY <1>a, <1>e, <2>1, <2>3, LegacyMoves, LoopStays
  <2> QED  BY <2>2, <2>3
<1>9. ASSUME NEW p \in Process, NEW q \in Process, FindLegacy(p) PROVE LoopInv(q)'
  <2> DEFINE old == {d \in DOMAIN incidents : OldNames(d)}
             x == [Done EXCEPT !.step = "set", !.left = old]
  <2>1. legacy' = [legacy EXCEPT ![p] = x] /\ UNCHANGED <<ref, incidents>>
    BY <1>9 DEF FindLegacy, OnlyLegacy
  <2>2. CASE q = p
    <3>1. old \subseteq OldIncidents \cap DOMAIN incidents
      BY DEF LoopsInv, Complete
    <3>2. x.step = "set" /\ x.left = old
      BY DEF Done
    <3> HIDE DEF x, old
    <3>3. legacy'[p] = x /\ ref'[p] = ref[p]
      BY <2>1, LegacyMoves
    <3> QED  BY <1>e, <2>1, <2>2, <3>1, <3>2, <3>3 DEF LoopInv
  <2>3. CASE q # p
    <3> HIDE DEF x
    <3> QED  BY <1>a, <1>e, <2>1, <2>3, LegacyMoves, LoopStays
  <2> QED  BY <2>2, <2>3
<1>10. ASSUME NEW p \in Process, NEW q \in Process, NEW d \in Doc, SetServices(p, d)
       PROVE  LoopInv(q)'
  <2> DEFINE x == [legacy[p] EXCEPT !.left = @ \ {d}]
  <2>1. legacy' = [legacy EXCEPT ![p] = x] /\ UNCHANGED ref /\ DOMAIN incidents' = DOMAIN incidents
    BY <1>10, SetServicesDoes DEF SetServices, OnlyLegacy
  <2>2. CASE q = p
    <3>1. x.step = "set" /\ x.left \subseteq legacy[p].left
      BY <1>10, <1>e DEF Loop, SetServices, LegacyAt
    <3> HIDE DEF x
    <3>2. legacy'[p] = x /\ ref'[p] = ref[p]
      BY <2>1, LegacyMoves
    <3> QED  BY <1>e, <2>1, <2>2, <3>1, <3>2 DEF LoopInv
  <2>3. CASE q # p
    <3> HIDE DEF x
    <3> QED  BY <1>a, <1>e, <2>1, <2>3, LegacyMoves, LoopStays
  <2> QED  BY <2>2, <2>3
<1>11. ASSUME NEW p \in Process, NEW q \in Process, LegacyDone(p) PROVE LoopInv(q)'
  <2>1. legacy' = [legacy EXCEPT ![p] = Done] /\ UNCHANGED <<ref, incidents>>
    BY <1>11 DEF LegacyDone, OnlyLegacy
  <2>2. CASE q = p
    <3>1. legacy'[p] = Done /\ ref'[p] = ref[p]
      BY <2>1, LegacyMoves
    <3> QED  BY <1>d, <1>e, <2>1, <2>2, <3>1 DEF LoopInv
  <2>3. CASE q # p
    BY <1>a, <1>e, <2>1, <2>3, LegacyMoves, LoopStays
  <2> QED  BY <2>2, <2>3
<1>12. ASSUME NEW p \in Process, NEW q \in Process, Crash(p) PROVE LoopInv(q)'
  <2>1. CASE q = p
    BY <1>12, <2>1, LoopOfDone DEF Crash, TypeOK
  <2>2. CASE q # p
    <3>1. ref'[q] = ref[q] /\ legacy'[q] = legacy[q]
      BY <1>12, <2>2 DEF Crash, TypeOK
    <3> QED  BY <1>a, <1>e, <3>1, LoopStays
  <2> QED  BY <2>1, <2>2
<1>13. ASSUME NEW p \in Process, NEW q \in Process,
              \/ SeedOrSkip(p) \/ FillPart(p) \/ InsertSeeded(p) \/ SyncCounter(p)
              \/ Create(p) \/ \E d \in New : TakeNumber(p, d)
       PROVE  LoopInv(q)'
  <2>1. UNCHANGED <<ref, legacy>>
    BY <1>13 DEF SeedOrSkip, FillPart, InsertSeeded, SyncCounter, Create, TakeNumber, OnlySeed
  <2> QED  BY <1>c, <2>1
<1>14. ASSUME UNCHANGED vars \/ (\E p \in Process : BuildIndex(p)), NEW q \in Process
       PROVE  LoopInv(q)'
  <2>1. UNCHANGED <<ref, legacy>>
    BY <1>14 DEF BuildIndex, vars
  <2> QED  BY <1>c, <2>1
<1>15. \A q \in Process : LoopInv(q)'
  BY <1>1, <1>2, <1>3, <1>4, <1>5, <1>6, <1>7, <1>8, <1>9, <1>10, <1>11, <1>12, <1>13, <1>14
     DEF Next, Boot
<1> QED  BY <1>b, <1>15 DEF LoopsInv

\* A step of p moves no other process.
LEMMA GoMoves ==
  ASSUME TypeOK, NEW p \in Process, NEW step, Go(p, step)
  PROVE  /\ proc'[p].step = step
         /\ proc'[p].number = proc[p].number
         /\ proc'[p].doc = proc[p].doc
         /\ proc'[p].at = proc[p].at
         /\ \A q \in Process \ {p} : proc'[q] = proc[q]
<1>1. proc[p] \in Server
  BY DEF TypeOK
<1> QED  BY <1>1 DEF Go, Server, TypeOK

\* A process takes or gives back a number, and stays where it is.
LEMMA TakesNumber ==
  ASSUME TypeOK, NEW p \in Process, NEW doc, NEW n,
         proc' = [proc EXCEPT ![p].doc = doc, ![p].number = n]
  PROVE  /\ proc'[p].step = proc[p].step
         /\ proc'[p].at = proc[p].at
         /\ proc'[p].number = n
         /\ proc'[p].doc = doc
         /\ \A q \in Process \ {p} : proc'[q] = proc[q]
<1>1. proc[p] \in Server
  BY DEF TypeOK
<1> QED  BY <1>1 DEF Server, TypeOK

\* The seed and the server: from where each step goes to where.
LEMMA SeedSteps ==
  ASSUME TypeOK, NEW p \in Process,
         \/ SeedOrSkip(p) \/ FillPart(p) \/ InsertSeeded(p) \/ SyncCounter(p)
         \/ Create(p) \/ \E d \in New : TakeNumber(p, d)
  PROVE  /\ \A q \in Process \ {p} : proc'[q] = proc[q]
         /\ \/ proc'[p].step = proc[p].step
            \/ proc[p].step # "off" /\ proc'[p].step \in Parts \cup {"serving"}
         /\ "off" \notin Parts /\ "init" \notin Parts /\ "serving" \notin Parts
<1>a. "off" \notin Parts /\ "init" \notin Parts /\ "serving" \notin Parts
  BY SeedOrder
<1>1. CASE SeedOrSkip(p)
  <2>1. PICK step \in {"serving", "teams"} : Go(p, step) /\ proc[p].step = "init"
    BY <1>1 DEF SeedOrSkip
  <2> QED  BY <1>a, <2>1, GoMoves, SeedOrder
<1>2. CASE FillPart(p)
  <2>1. proc[p].step \in Parts \ {"incidents", "sync"}
    BY <1>2 DEF FillPart, Parts
  <2>2. After(proc[p].step) \in Parts \cup {"serving"}
    BY <2>1, SeedOrder
  <2>3. PICK step \in Parts \cup {"serving"} : Go(p, step)
    BY <1>2, <2>2 DEF FillPart
  <2> QED  BY <1>a, <2>1, <2>3, GoMoves
<1>3. CASE InsertSeeded(p)
  <2>1. CASE Go(p, "serving")
    BY <1>3, <1>a, <2>1, GoMoves DEF InsertSeeded
  <2>2. CASE proc' = [proc EXCEPT ![p].at = proc[p].at + 1,
                        ![p].step = IF proc[p].at = Len(Seeded) THEN "sync" ELSE @]
    <3>1. proc[p] \in Server /\ proc[p].step = "incidents"
      BY <1>3 DEF InsertSeeded, TypeOK
    <3>2. /\ \A q \in Process \ {p} : proc'[q] = proc[q]
          /\ proc'[p].step \in {"incidents", "sync"}
      BY <2>2, <3>1 DEF TypeOK, Server
    <3> QED  BY <1>a, <3>1, <3>2, SeedOrder
  <2> QED  BY <1>3, <2>1, <2>2 DEF InsertSeeded
<1>4. CASE SyncCounter(p)
  <2>1. Go(p, "alerts") /\ proc[p].step = "sync"
    BY <1>4, SeedOrder DEF SyncCounter
  <2> QED  BY <1>a, <2>1, GoMoves, SeedOrder
<1>5. CASE Create(p)
  <2>1. proc' = [proc EXCEPT ![p].doc = None, ![p].number = 0]
    BY <1>5 DEF Create
  <2> QED  BY <1>a, <2>1, TakesNumber
<1>6. CASE \E d \in New : TakeNumber(p, d)
  <2>1. PICK d \in New : proc' = [proc EXCEPT ![p].doc = d, ![p].number = NextNumber]
    BY <1>6 DEF TakeNumber
  <2> QED  BY <1>a, <2>1, TakesNumber
<1> QED  BY <1>1, <1>2, <1>3, <1>4, <1>5, <1>6

\* A step that is not of its migration takes nothing from what a process has
\* behind it.
LEMMA BehindStays ==
  ASSUME TypeOK, Grow, NEW q \in Process, Behind(q), ref'[q] = ref[q],
         \/ proc'[q].step = proc[q].step
         \/ proc[q].step # "off" /\ proc'[q].step # "init"
  PROVE  Behind(q)'
<1>1. /\ \A d \in DOMAIN incidents : /\ incidents[d].key => incidents'[d].key
                                     /\ ~OldNames(d) => ~OldNames(d)'
                                     /\ ~Missing(d) => ~Missing(d)'
      /\ \A d \in DOMAIN incidents' \ DOMAIN incidents :
           incidents'[d].key /\ ~OldNames(d)' /\ ~Missing(d)'
      /\ DOMAIN incidents \subseteq DOMAIN incidents'
  BY DEF Grow, OldNames, Missing
<1>2. ASSUME proc'[q].step = "init", ref'[q].step = "setKeys",
             NEW d \in DOMAIN incidents' \ ref'[q].left
      PROVE  incidents'[d].key /\ ~OldNames(d)'
  BY <1>1, <1>2 DEF Behind
<1>3. ASSUME proc'[q].step = "init", ref'[q].step = "number", NEW d \in DOMAIN incidents'
      PROVE  incidents'[d].key /\ ~OldNames(d)' /\ (d \notin ref'[q].left => ~Missing(d)')
  BY <1>1, <1>3 DEF Behind
<1>4. ASSUME proc'[q].step # "off", ref'[q].step = "done", NEW d \in DOMAIN incidents'
      PROVE  Complete(d)'
  BY <1>1, <1>4 DEF Behind, Complete
<1> QED  BY <1>2, <1>3, <1>4 DEF Behind

\* Every step keeps what the migrations have behind them.
LEMMA ServedNext ==
  ASSUME TypeOK, LoopsInv, SeedInv, ServedInv, [Next]_vars
  PROVE  ServedInv'
<1>a. Grow
  BY DocsGrow
<1>b. \A q \in Process : /\ ref[q] \in Loop({"keys", "setKeys", "number"})
                         /\ proc[q] \in Server
                         /\ LoopInv(q)
                         /\ Behind(q)
  BY DEF TypeOK, LoopsInv, ServedInv
<1>1. ASSUME NEW p \in Process, NEW q \in Process, Start(p) PROVE Behind(q)'
  <2>1. CASE q = p
    <3>1. ref'[p].step = "keys"
      BY <1>1, <1>b DEF Start, TypeOK, Loop
    <3> QED  BY <2>1, <3>1 DEF Behind
  <2>2. CASE q # p
    <3>1. ref'[q] = ref[q] /\ proc'[q].step = proc[q].step
      BY <1>1, <2>2 DEF Start, TypeOK
    <3> QED  BY <1>a, <1>b, <3>1, BehindStays
  <2> QED  BY <2>1, <2>2
<1>2. ASSUME NEW p \in Process, NEW q \in Process, FindKeys(p) PROVE Behind(q)'
  <2> DEFINE missing == {d \in DOMAIN incidents : ~incidents[d].key \/ OldNames(d)}
             copy == [d \in missing |-> incidents[d].services]
             x == [ref[p] EXCEPT !.step = "setKeys", !.left = missing, !.copy = copy]
  <2>1. ref' = [ref EXCEPT ![p] = x] /\ UNCHANGED <<legacy, proc, incidents>>
    BY <1>2 DEF FindKeys, OnlyRef
  <2>2. CASE q = p
    <3>1. x.step = "setKeys" /\ x.left = missing
      BY <1>b DEF Loop
    <3>2. \A d \in DOMAIN incidents' \ missing : incidents'[d].key /\ ~OldNames(d)'
      BY <2>1 DEF OldNames
    <3> HIDE DEF x, missing
    <3>3. ref'[p] = x
      BY <2>1, RefMoves
    <3> QED  BY <2>2, <3>1, <3>2, <3>3 DEF Behind
  <2>3. CASE q # p
    <3> HIDE DEF x
    <3> QED  BY <1>a, <1>b, <2>1, <2>3, RefMoves, BehindStays
  <2> QED  BY <2>2, <2>3
<1>3. ASSUME NEW p \in Process, NEW q \in Process, SetKey(p) PROVE Behind(q)'
  <2> DEFINE d == Oldest(ref[p].left)
             x == [ref[p] EXCEPT !.left = @ \ {d}]
  <2>1. ref' = [ref EXCEPT ![p] = x] /\ UNCHANGED <<legacy, proc>>
    BY <1>3 DEF SetKey, OnlyRef
  <2>2. CASE q = p
    <3>1. x.step = "setKeys" /\ x.left = ref[p].left \ {d} /\ proc[p].step = "init"
      BY <1>3, <1>b DEF Loop, SetKey, RefAt
    <3>2. /\ DOMAIN incidents' = DOMAIN incidents
          /\ \A e \in DOMAIN incidents \ {d} : incidents'[e] = incidents[e]
          /\ incidents'[d].key /\ incidents'[d].services # "old"
      BY <1>3, SetKeyDoes
    <3>3. \A e \in DOMAIN incidents \ ref[p].left : incidents[e].key /\ ~OldNames(e)
      BY <1>3, <1>b DEF Behind, SetKey, RefAt
    <3> HIDE DEF x, d
    <3>4. ref'[p] = x
      BY <2>1, RefMoves
    <3>5. \A e \in DOMAIN incidents' \ x.left : incidents'[e].key /\ ~OldNames(e)'
      BY <3>1, <3>2, <3>3 DEF OldNames
    <3> QED  BY <2>2, <3>1, <3>4, <3>5 DEF Behind
  <2>3. CASE q # p
    <3> HIDE DEF x
    <3> QED  BY <1>a, <1>b, <2>1, <2>3, RefMoves, BehindStays
  <2> QED  BY <2>2, <2>3
<1>4. ASSUME NEW p \in Process, NEW q \in Process, FindNumbers(p) PROVE Behind(q)'
  <2> DEFINE missing == {d \in DOMAIN incidents : Missing(d)}
             x == [Done EXCEPT !.step = "number", !.left = missing]
  <2>1. ref' = [ref EXCEPT ![p] = x] /\ UNCHANGED <<legacy, proc, incidents>>
    BY <1>4 DEF FindNumbers, OnlyRef
  <2>2. CASE q = p
    <3>1. x.step = "number" /\ x.left = missing
      BY DEF Done
    <3>2. \A e \in DOMAIN incidents : incidents[e].key /\ ~OldNames(e)
      BY <1>4, <1>b DEF Behind, FindNumbers, RefAt
    <3>3. \A e \in DOMAIN incidents' : /\ incidents'[e].key /\ ~OldNames(e)'
                                       /\ e \notin missing => ~Missing(e)'
      BY <2>1, <3>2 DEF OldNames, Missing
    <3> HIDE DEF x, missing
    <3>4. ref'[p] = x
      BY <2>1, RefMoves
    <3> QED  BY <2>2, <3>1, <3>3, <3>4 DEF Behind
  <2>3. CASE q # p
    <3> HIDE DEF x
    <3> QED  BY <1>a, <1>b, <2>1, <2>3, RefMoves, BehindStays
  <2> QED  BY <2>2, <2>3
<1>5. ASSUME NEW p \in Process, NEW q \in Process, TakeForOld(p) PROVE Behind(q)'
  <2> DEFINE x == [ref[p] EXCEPT !.number = NextNumber]
  <2>1. ref' = [ref EXCEPT ![p] = x] /\ UNCHANGED <<legacy, proc, incidents>>
    BY <1>5 DEF TakeForOld, OnlyRef
  <2>2. CASE q = p
    <3>1. x.step = ref[p].step /\ x.left = ref[p].left
      BY <1>b DEF Loop
    <3> HIDE DEF x
    <3>2. ref'[p] = x
      BY <2>1, RefMoves
    <3> QED  BY <1>b, <2>1, <2>2, <3>1, <3>2 DEF Behind, Complete, OldNames, Missing
  <2>3. CASE q # p
    <3> HIDE DEF x
    <3> QED  BY <1>a, <1>b, <2>1, <2>3, RefMoves, BehindStays
  <2> QED  BY <2>2, <2>3
<1>6. ASSUME NEW p \in Process, NEW q \in Process, SetNumber(p) PROVE Behind(q)'
  <2> DEFINE d == Oldest(ref[p].left)
             x == [ref[p] EXCEPT !.left = @ \ {d}, !.number = 0]
  <2>1. ref' = [ref EXCEPT ![p] = x] /\ UNCHANGED <<legacy, proc>>
    BY <1>6 DEF SetNumber, OnlyRef
  <2>2. CASE q = p
    <3>1. x.step = "number" /\ x.left = ref[p].left \ {d} /\ proc[p].step = "init"
      BY <1>6, <1>b DEF Loop, SetNumber, RefAt
    <3>2. /\ DOMAIN incidents' = DOMAIN incidents
          /\ \A e \in DOMAIN incidents \ {d} : incidents'[e] = incidents[e]
          /\ incidents'[d].key = incidents[d].key
          /\ incidents'[d].services = incidents[d].services
          /\ incidents'[d].number # 0
          /\ d \in DOMAIN incidents
      BY <1>6, SetNumberDoes
    <3>3. /\ \A e \in DOMAIN incidents : incidents[e].key /\ ~OldNames(e)
          /\ \A e \in DOMAIN incidents \ ref[p].left : ~Missing(e)
      BY <1>6, <1>b DEF Behind, SetNumber, RefAt
    <3> HIDE DEF x, d
    <3>4. ref'[p] = x
      BY <2>1, RefMoves
    <3>5. /\ \A e \in DOMAIN incidents' : incidents'[e].key /\ ~OldNames(e)'
          /\ \A e \in DOMAIN incidents' \ x.left : ~Missing(e)'
      BY <3>1, <3>2, <3>3 DEF OldNames, Missing
    <3> QED  BY <2>2, <3>1, <3>4, <3>5 DEF Behind
  <2>3. CASE q # p
    <3> HIDE DEF x
    <3> QED  BY <1>a, <1>b, <2>1, <2>3, RefMoves, BehindStays
  <2> QED  BY <2>2, <2>3
<1>7. ASSUME NEW p \in Process, NEW q \in Process, RefDone(p) PROVE Behind(q)'
  <2>1. ref' = [ref EXCEPT ![p] = Done] /\ UNCHANGED <<legacy, proc, incidents>>
    BY <1>7 DEF RefDone, OnlyRef
  <2>2. CASE q = p
    <3>1. Done.step = "done"
      BY DEF Done
    <3>3. ref'[p] = Done
      BY <2>1, RefMoves
    <3>2. \A e \in DOMAIN incidents : Complete(e)
      BY <1>7, <1>b DEF RefDone, RefAt, Behind, Complete
    <3> QED  BY <2>1, <2>2, <3>1, <3>2, <3>3 DEF Behind, Complete, OldNames, Missing
  <2>3. CASE q # p
    BY <1>a, <1>b, <2>1, <2>3, RefMoves, BehindStays
  <2> QED  BY <2>2, <2>3
<1>8. ASSUME NEW p \in Process, NEW q \in Process,
             \/ CountLegacy(p) \/ FindLegacy(p) \/ LegacyDone(p)
             \/ \E d \in Doc : SetServices(p, d)
      PROVE  Behind(q)'
  <2>1. UNCHANGED <<ref, proc>>
    BY <1>8 DEF CountLegacy, FindLegacy, LegacyDone, SetServices, OnlyLegacy
  <2> QED  BY <1>a, <1>b, <2>1, BehindStays
<1>9. ASSUME NEW p \in Process, NEW q \in Process, Crash(p) PROVE Behind(q)'
  <2>1. CASE q = p
    <3>1. proc'[p].step = "off"
      BY <1>9 DEF Crash, Off, TypeOK
    <3> QED  BY <2>1, <3>1 DEF Behind
  <2>2. CASE q # p
    <3>1. ref'[q] = ref[q] /\ proc'[q].step = proc[q].step
      BY <1>9, <2>2 DEF Crash, TypeOK
    <3> QED  BY <1>a, <1>b, <3>1, BehindStays
  <2> QED  BY <2>1, <2>2
<1>10. ASSUME NEW p \in Process, NEW q \in Process,
              \/ SeedOrSkip(p) \/ FillPart(p) \/ InsertSeeded(p) \/ SyncCounter(p)
              \/ Create(p) \/ \E d \in New : TakeNumber(p, d)
       PROVE  Behind(q)'
  <2>1. ref'[q] = ref[q]
    BY <1>10 DEF SeedOrSkip, FillPart, InsertSeeded, SyncCounter, Create, TakeNumber, OnlySeed
  <2>2. proc'[q].step = proc[q].step \/ (proc[q].step # "off" /\ proc'[q].step # "init")
    BY <1>10, SeedSteps
  <2> QED  BY <1>a, <1>b, <2>1, <2>2, BehindStays
<1>11. ASSUME UNCHANGED vars \/ (\E p \in Process : BuildIndex(p)), NEW q \in Process
       PROVE  Behind(q)'
  <2>1. UNCHANGED <<ref, proc>>
    BY <1>11 DEF BuildIndex, vars
  <2> QED  BY <1>a, <1>b, <2>1, BehindStays
<1>12. \A q \in Process : Behind(q)'
  BY <1>1, <1>2, <1>3, <1>4, <1>5, <1>6, <1>7, <1>8, <1>9, <1>10, <1>11 DEF Next, Boot
<1> QED  BY <1>12 DEF ServedInv

-----------------------------------------------------------------------------
(* Old and new databases. *)

\* An old database stays one, and a new one too.
LEMMA OldStays == ASSUME Grow PROVE OldDatabase' <=> OldDatabase
  BY DEF Grow, OldDatabase

\* A number is held by a server or by the migrations of an old database.
LEMMA WhoHolds ==
  ASSUME TypeOK, LoopsInv, NumberInv, NEW p \in Process
  PROVE  /\ proc[p].doc # None => proc[p].step = "serving" /\ proc[p].number # 0
         /\ proc[p].number # 0 => ref[p].number = 0 /\ Held(p) = proc[p].number
         /\ ref[p].number # 0 => /\ proc[p].number = 0 /\ Held(p) = ref[p].number
                                 /\ OldDatabase
         /\ Held(p) \in Nat
<1>1. ref[p].number # 0 => proc[p].step = "init" /\ OldDatabase
  BY DEF TypeOK, LoopsInv, LoopInv, Done, OldDatabase
<1>2. proc[p].number # 0 => proc[p].step = "serving"
  BY DEF NumberInv
<1>3. ref[p].number \in Nat /\ proc[p].number \in Nat
  BY DEF TypeOK, Loop, Server
<1>4. (proc[p].doc = None) <=> (proc[p].number = 0)
  BY DEF TypeOK
<1> QED  BY <1>1, <1>2, <1>3, <1>4 DEF Held

\* What is seeded stays, and so does the index.
LEMMA FillMonotone == [Next]_vars => filled \subseteq filled' /\ (index => index')
<1>1. ASSUME NEW p \in Process, BuildIndex(p) PROVE UNCHANGED filled /\ (index => index')
  BY <1>1 DEF BuildIndex
<1>2. ASSUME NEW p \in Process, FillPart(p) PROVE filled \subseteq filled' /\ UNCHANGED index
  BY <1>2 DEF FillPart, OnlySeed
<1>3. ASSUME NEW p \in Process,
             \/ Start(p)
             \/ FindKeys(p) \/ SetKey(p) \/ FindNumbers(p) \/ TakeForOld(p) \/ SetNumber(p)
             \/ RefDone(p) \/ CountLegacy(p) \/ FindLegacy(p) \/ LegacyDone(p)
             \/ SeedOrSkip(p) \/ InsertSeeded(p) \/ SyncCounter(p) \/ Create(p) \/ Crash(p)
             \/ (\E d \in Doc : SetServices(p, d)) \/ (\E d \in New : TakeNumber(p, d))
      PROVE  UNCHANGED <<filled, index>>
  BY <1>3 DEF Start, FindKeys, SetKey, FindNumbers, TakeForOld, SetNumber, RefDone,
              CountLegacy, FindLegacy, SetServices, LegacyDone, SeedOrSkip, InsertSeeded, SyncCounter,
              TakeNumber, Create, Crash, OnlyRef, OnlyLegacy, OnlySeed
<1>4. CASE UNCHANGED vars
  BY <1>4 DEF vars
<1> QED  BY <1>1, <1>2, <1>3, <1>4, Zenon DEF Next, Boot

\* Every step keeps an old database unseeded, and a new one indexed.
LEMMA DatabaseNext ==
  ASSUME TypeOK, LoopsInv, SeedInv, DatabaseInv, NumberInv, [Next]_vars
  PROVE  DatabaseInv'
<1>a. Grow /\ (OldDatabase' <=> OldDatabase)
  BY DocsGrow, OldStays
<1>b. filled \subseteq filled' /\ (index => index')
  BY FillMonotone
<1>c. "off" \notin Parts /\ "init" \notin Parts /\ "serving" \notin Parts
  BY SeedOrder
<1>1. ASSUME OldDatabase
      PROVE  /\ \A q \in Process : proc'[q].step \in {"off", "init", "serving"}
             /\ SeedIncidents \cap DOMAIN incidents' = {}
  <2>a. /\ "users" \in filled
        /\ \A q \in Process : proc[q].step \in {"off", "init", "serving"}
        /\ SeedIncidents \cap DOMAIN incidents = {}
    BY <1>1 DEF DatabaseInv
  <2>1. ASSUME NEW p \in Process, FillPart(p) \/ InsertSeeded(p) \/ SyncCounter(p) PROVE FALSE
    <3>1. proc[p].step \in Parts
      BY <2>1, SeedOrder DEF FillPart, InsertSeeded, SyncCounter, Parts
    <3> QED  BY <1>c, <2>a, <3>1
  <2>2. ASSUME NEW p \in Process, NEW q \in Process, Start(p)
        PROVE  proc'[q].step \in {"off", "init", "serving"}
    BY <2>a, <2>2 DEF Start, TypeOK, Server
  <2>3. ASSUME NEW p \in Process, NEW q \in Process, SeedOrSkip(p)
        PROVE  proc'[q].step \in {"off", "init", "serving"}
    <3>1. Go(p, "serving")
      BY <2>a, <2>3 DEF SeedOrSkip
    <3> QED  BY <2>a, <3>1, GoMoves
  <2>4. ASSUME NEW p \in Process, NEW q \in Process,
               Create(p) \/ \E d \in New : TakeNumber(p, d)
        PROVE  proc'[q].step \in {"off", "init", "serving"}
    <3>1. proc'[q].step = proc[q].step
      <4>1. PICK doc, n : proc' = [proc EXCEPT ![p].doc = doc, ![p].number = n]
        BY <2>4 DEF Create, TakeNumber
      <4> QED  BY <4>1, TakesNumber
    <3> QED  BY <2>a, <3>1
  <2>5. ASSUME NEW p \in Process, NEW q \in Process, Crash(p)
        PROVE  proc'[q].step \in {"off", "init", "serving"}
    BY <2>a, <2>5 DEF Crash, Off, TypeOK
  <2>6. ASSUME UNCHANGED proc, NEW q \in Process
        PROVE  proc'[q].step \in {"off", "init", "serving"}
    BY <2>a, <2>6
  <2>7. \A q \in Process : proc'[q].step \in {"off", "init", "serving"}
    BY <2>1, <2>2, <2>3, <2>4, <2>5, <2>6
       DEF Next, Boot, BuildIndex, FindKeys, SetKey, FindNumbers, TakeForOld, SetNumber,
           RefDone, CountLegacy, FindLegacy, SetServices, LegacyDone, OnlyRef, OnlyLegacy, vars
  <2>8. SeedIncidents \cap DOMAIN incidents' = {}
    <3>1. ASSUME NEW p \in Process, Create(p) PROVE SeedIncidents \cap DOMAIN incidents' = {}
      <4>1. proc[p].doc \in New
        BY <3>1 DEF Create, TypeOK, Server
      <4>2. DOMAIN incidents' \subseteq DOMAIN incidents \cup {proc[p].doc}
        BY <3>1 DEF Create, Insert
      <4> QED  BY <2>a, <4>1, <4>2, DocumentAssumption
    <3>2. ASSUME NEW p \in Process,
                 SetKey(p) \/ SetNumber(p) \/ \E d \in Doc : SetServices(p, d)
          PROVE  DOMAIN incidents' = DOMAIN incidents
      BY <3>2, SetKeyDoes, SetNumberDoes, SetServicesDoes
    <3> QED  BY <2>a, <2>1, <3>1, <3>2
             DEF Next, Boot, Start, BuildIndex, FindKeys, FindNumbers, TakeForOld, RefDone,
                 CountLegacy, FindLegacy, LegacyDone, SeedOrSkip, TakeNumber, Crash, vars
  <2> QED  BY <2>7, <2>8
<1>2. ASSUME ~OldDatabase, ~index
      PROVE  \/ index'
             \/ /\ DOMAIN incidents' = {} /\ asked' = {}
                /\ \A q \in Process : proc'[q].step \in {"off", "init"}
  <2>a. /\ DOMAIN incidents = {} /\ asked = {}
        /\ \A q \in Process : /\ proc[q].step \in {"off", "init"}
                              /\ ref[q].left = {} /\ legacy[q].left = {} /\ ref[q].number = 0
    BY <1>2 DEF DatabaseInv, LoopsInv, LoopInv
  <2>1. ASSUME NEW p \in Process, BuildIndex(p) PROVE index'
    BY <2>1, <2>a DEF BuildIndex, Distinct
  <2>2. ASSUME NEW p \in Process, Create(p) PROVE FALSE
    BY <2>2, <2>a, WhoHolds DEF Create
  <2>3. ASSUME NEW p \in Process, Start(p) \/ Crash(p)
        PROVE  /\ UNCHANGED incidents /\ asked' = {}
               /\ \A q \in Process : proc'[q].step \in {"off", "init"}
    <3>1. UNCHANGED incidents /\ asked' = {}
      BY <2>3, <2>a DEF Start, Crash
    <3>2. ASSUME Start(p), NEW q \in Process PROVE proc'[q].step \in {"off", "init"}
      BY <2>a, <3>2 DEF Start, TypeOK, Server
    <3>3. ASSUME Crash(p), NEW q \in Process PROVE proc'[q].step \in {"off", "init"}
      <4>1. q # p => proc'[q] = proc[q]
        BY <3>3 DEF Crash, TypeOK
      <4>2. q = p => proc'[q].step = "off"
        BY <3>3 DEF Crash, Off, TypeOK
      <4> QED  BY <2>a, <4>1, <4>2
    <3> QED  BY <2>3, <3>1, <3>2, <3>3
  <2>4. ASSUME NEW p \in Process,
               \/ SetKey(p) \/ TakeForOld(p) \/ SetNumber(p) \/ SeedOrSkip(p)
               \/ InsertSeeded(p) \/ SyncCounter(p)
               \/ (\E d \in Doc : SetServices(p, d)) \/ (\E d \in New : TakeNumber(p, d))
        PROVE  FALSE
    BY <2>4, <2>a
       DEF SetKey, TakeForOld, SetNumber, SetServices, SeedOrSkip, IndexAnswered, InsertSeeded,
           SyncCounter, TakeNumber
  <2>5. ASSUME NEW p \in Process, FillPart(p) PROVE FALSE
    BY <2>5, <2>a, <1>c DEF FillPart, Parts
  <2>6. ASSUME NEW p \in Process,
               \/ FindKeys(p) \/ FindNumbers(p) \/ RefDone(p)
               \/ CountLegacy(p) \/ FindLegacy(p) \/ LegacyDone(p)
        PROVE  UNCHANGED <<incidents, asked, proc>>
    BY <2>6 DEF FindKeys, FindNumbers, RefDone, CountLegacy, FindLegacy, LegacyDone, OnlyRef,
                OnlyLegacy
  <2>7. CASE UNCHANGED vars
    BY <2>a, <2>7 DEF vars
  <2>8. CASE \E p \in Process : \/ FindKeys(p) \/ FindNumbers(p) \/ RefDone(p)
                               \/ CountLegacy(p) \/ FindLegacy(p) \/ LegacyDone(p)
    BY <2>a, <2>6, <2>8
  <2>9. CASE \E p \in Process : Start(p) \/ Crash(p)
    BY <2>a, <2>3, <2>9
  <2>10. CASE \E p \in Process : BuildIndex(p)
    BY <2>1, <2>10
  <2> QED  BY <2>2, <2>4, <2>5, <2>7, <2>8, <2>9, <2>10 DEF Next, Boot
<1> QED  BY <1>a, <1>b, <1>1, <1>2 DEF DatabaseInv

-----------------------------------------------------------------------------
(* Numbers. *)

\* A step that gives no number, and takes none, but may forget some.
LEMMA NumbersQuiet ==
  ASSUME TypeOK, LoopsInv, NumberInv, OldDatabase' <=> OldDatabase,
         counter' \in Nat, counter <= counter', DOMAIN incidents' = DOMAIN incidents,
         \A d \in DOMAIN incidents : incidents'[d].number = incidents[d].number,
         \A q \in Process :
           /\ ref'[q].number \in {0, ref[q].number}
           /\ proc'[q].number \in {0, proc[q].number}
           /\ \/ proc'[q].step = proc[q].step
              \/ proc[q].step # "serving"
              \/ proc'[q].number = 0
  PROVE  NumberInv'
<1>1. \A q \in Process : Held(q)' \in {0, Held(q)}
  BY WhoHolds DEF Held
<1>2. \A q \in Process : proc'[q].number # 0 => proc'[q].step = "serving"
  BY DEF NumberInv
<1>3. \A d \in DOMAIN incidents' \ SeedIncidents : incidents'[d].number <= counter'
  <2>1. \A d \in DOMAIN incidents : incidents[d].number \in Nat
    BY DEF TypeOK, Stored
  <2>2. counter \in Nat
    BY DEF TypeOK
  <2> QED  BY <2>1, <2>2 DEF NumberInv
<1>4. \A q \in Process : Held(q)' <= counter'
  <2>1. \A q \in Process : Held(q) \in Nat /\ Held(q) <= counter
    BY WhoHolds DEF NumberInv
  <2>2. counter \in Nat
    BY DEF TypeOK
  <2> QED  BY <1>1, <2>1, <2>2
<1>5. \A p, q \in Process : p # q /\ Held(p)' # 0 => Held(p)' # Held(q)'
  BY <1>1 DEF NumberInv
<1>6. OldDatabase' => \A p \in Process : \A d \in DOMAIN incidents' :
                        Held(p)' # 0 => incidents'[d].number # Held(p)'
  BY <1>1 DEF NumberInv
<1>7. NumbersUnique'
  BY DEF NumberInv, NumbersUnique, Missing
<1> QED  BY <1>2, <1>3, <1>4, <1>5, <1>6, <1>7 DEF NumberInv

\* A process takes the next number.
LEMMA NumberTaken ==
  ASSUME TypeOK, LoopsInv, NumberInv, DatabaseInv, UNCHANGED incidents,
         counter' = counter + 1, NEW p \in Process, Held(p)' = counter + 1,
         proc'[p].number # 0 => proc'[p].step = "serving",
         \A q \in Process \ {p} : ref'[q] = ref[q] /\ proc'[q] = proc[q]
  PROVE  NumberInv'
<1>1. \A q \in Process \ {p} : Held(q)' = Held(q)
  BY DEF Held
<1>2. counter \in Nat /\ \A q \in Process : Held(q) \in Nat /\ Held(q) <= counter
  BY WhoHolds DEF NumberInv, TypeOK
<1>3. \A d \in DOMAIN incidents : incidents[d].number \in Nat
  BY DEF TypeOK, Stored
<1>4. OldDatabase' <=> OldDatabase
  BY DEF OldDatabase
<1>5. \A d \in DOMAIN incidents' \ SeedIncidents : incidents'[d].number <= counter'
  BY <1>2, <1>3 DEF NumberInv
<1>6. \A q \in Process : Held(q)' <= counter' /\ (proc'[q].number # 0 => proc'[q].step = "serving")
  BY <1>1, <1>2 DEF NumberInv
<1>7. \A q, r \in Process : q # r /\ Held(q)' # 0 => Held(q)' # Held(r)'
  BY <1>1, <1>2 DEF NumberInv
<1>8. ASSUME OldDatabase', NEW q \in Process, NEW d \in DOMAIN incidents', Held(q)' # 0
      PROVE  incidents'[d].number # Held(q)'
  <2>1. d \in DOMAIN incidents \ SeedIncidents /\ incidents[d].number <= counter
    BY <1>4, <1>8 DEF DatabaseInv, NumberInv
  <2>2. CASE q = p
    BY <1>2, <1>3, <2>1, <2>2
  <2>3. CASE q # p
    BY <1>1, <1>4, <1>8, <2>3 DEF NumberInv
  <2> QED  BY <2>2, <2>3
<1>9. NumbersUnique'
  BY DEF NumberInv, NumbersUnique, Missing
<1> QED  BY <1>5, <1>6, <1>7, <1>8, <1>9 DEF NumberInv

\* A document gets a number that no other one has.
LEMMA UniqueStays ==
  ASSUME NumbersUnique, NEW d, NEW n \in Nat \ {0},
         DOMAIN incidents' = DOMAIN incidents \cup {d},
         \A e \in DOMAIN incidents \ {d} : incidents'[e].number = incidents[e].number,
         incidents'[d].number = n,
         \A e \in DOMAIN incidents \ {d} : incidents[e].number # n
  PROVE  NumbersUnique'
  BY DEF NumbersUnique, Missing

\* A process uses its number.
LEMMA NumberUsed ==
  ASSUME TypeOK, LoopsInv, NumberInv, UNCHANGED counter, OldDatabase' <=> OldDatabase,
         NEW p \in Process, Held(p) # 0, Held(p)' = 0, proc'[p].number = 0,
         \A q \in Process \ {p} : ref'[q] = ref[q] /\ proc'[q] = proc[q],
         NEW d, d \notin SeedIncidents,
         DOMAIN incidents' = DOMAIN incidents \cup {d},
         \A e \in DOMAIN incidents \ {d} : incidents'[e] = incidents[e],
         incidents'[d].number = Held(p),
         \A e \in DOMAIN incidents \ {d} : incidents[e].number # Held(p)
  PROVE  NumberInv'
<1>1. \A q \in Process \ {p} : Held(q)' = Held(q)
  BY DEF Held
<1>2. counter \in Nat /\ \A q \in Process : Held(q) \in Nat /\ Held(q) <= counter
  BY WhoHolds DEF NumberInv, TypeOK
<1>3. \A e \in DOMAIN incidents' \ SeedIncidents : incidents'[e].number <= counter'
  BY <1>2 DEF NumberInv
<1>4. \A q \in Process : Held(q)' <= counter' /\ (proc'[q].number # 0 => proc'[q].step = "serving")
  BY <1>1, <1>2 DEF NumberInv
<1>5. \A q, r \in Process : q # r /\ Held(q)' # 0 => Held(q)' # Held(r)'
  BY <1>1 DEF NumberInv
<1>6. OldDatabase' => \A q \in Process : \A e \in DOMAIN incidents' :
                        Held(q)' # 0 => incidents'[e].number # Held(q)'
  BY <1>1 DEF NumberInv
<1>7. NumbersUnique'
  BY <1>2, UniqueStays DEF NumberInv
<1> QED  BY <1>3, <1>4, <1>5, <1>6, <1>7 DEF NumberInv

\* A seeded incident gets its number, in a new database.
LEMMA NumberSeeded ==
  ASSUME TypeOK, LoopsInv, NumberInv, UNCHANGED <<counter, ref>>, ~OldDatabase, ~OldDatabase',
         \A q \in Process : proc'[q].number = proc[q].number,
         \A q \in Process : proc'[q].step = proc[q].step \/ proc[q].step # "serving",
         NEW d \in SeedIncidents, NEW n \in Nat \ {0},
         DOMAIN incidents' = DOMAIN incidents \cup {d},
         \A e \in DOMAIN incidents \ {d} : incidents'[e] = incidents[e],
         incidents'[d].number = n,
         \A e \in DOMAIN incidents \ {d} : incidents[e].number # n
  PROVE  NumberInv'
<1>1. \A q \in Process : Held(q)' = Held(q)
  BY DEF Held
<1>2. \A e \in DOMAIN incidents' \ SeedIncidents : incidents'[e].number <= counter'
  BY DEF NumberInv
<1>3. \A q \in Process : Held(q)' <= counter' /\ (proc'[q].number # 0 => proc'[q].step = "serving")
  BY <1>1 DEF NumberInv
<1>4. \A q, r \in Process : q # r /\ Held(q)' # 0 => Held(q)' # Held(r)'
  BY <1>1 DEF NumberInv
<1>5. NumbersUnique'
  BY UniqueStays DEF NumberInv
<1> QED  BY <1>2, <1>3, <1>4, <1>5 DEF NumberInv

\* What the index refuses, and lets through, in a new database.
LEMMA NotTaken ==
  ASSUME DatabaseInv, ~OldDatabase, NEW p \in Process, proc[p].step \notin {"off", "init"},
         NEW n, ~Taken(n)
  PROVE  \A e \in DOMAIN incidents : incidents[e].number # n
  BY DEF DatabaseInv, Taken

\* Every step keeps the numbers apart.
LEMMA NumberNext ==
  ASSUME TypeOK, LoopsInv, SeedInv, DatabaseInv, NumberInv, [Next]_vars
  PROVE  NumberInv'
<1>a. OldDatabase' <=> OldDatabase
  BY DocsGrow, OldStays
<1>b. \A q \in Process : /\ ref[q] \in Loop({"keys", "setKeys", "number"})
                         /\ proc[q] \in Server
                         /\ LoopInv(q)
  BY DEF TypeOK, LoopsInv
<1>c. counter \in Nat
  BY DEF TypeOK
\* The processes hold what they held, or forget it.
<1> DEFINE Quiet == \A q \in Process :
             /\ ref'[q].number \in {0, ref[q].number}
             /\ proc'[q].number \in {0, proc[q].number}
             /\ \/ proc'[q].step = proc[q].step
                \/ proc[q].step # "serving"
                \/ proc'[q].number = 0
<1>d. ASSUME Quiet, UNCHANGED counter, UNCHANGED incidents PROVE NumberInv'
  BY <1>a, <1>c, <1>d, NumbersQuiet
<1>1. ASSUME NEW p \in Process, Start(p) PROVE NumberInv'
  <2>1. Quiet
    <3>1. /\ proc[p].step = "off" /\ proc'[p].number = proc[p].number
          /\ ref'[p].number = ref[p].number
      BY <1>1, <1>b DEF Start, TypeOK, Server, Loop
    <3>2. \A q \in Process \ {p} : proc'[q] = proc[q] /\ ref'[q] = ref[q]
      BY <1>1 DEF Start, TypeOK
    <3> QED  BY <3>1, <3>2
  <2> QED  BY <1>1, <1>d, <2>1 DEF Start
<1>2. ASSUME NEW p \in Process, FindKeys(p) \/ FindNumbers(p) \/ RefDone(p) PROVE NumberInv'
  <2>1. UNCHANGED <<incidents, counter, proc, legacy>>
    BY <1>2 DEF FindKeys, FindNumbers, RefDone, OnlyRef
  <2>2. PICK x : ref' = [ref EXCEPT ![p] = x] /\ x.number \in {0, ref[p].number}
    <3>1. CASE FindKeys(p)
      <4> DEFINE missing == {d \in DOMAIN incidents : ~incidents[d].key \/ OldNames(d)}
                 copy == [d \in missing |-> incidents[d].services]
                 x == [ref[p] EXCEPT !.step = "setKeys", !.left = missing, !.copy = copy]
      <4>1. ref' = [ref EXCEPT ![p] = x]
        BY <3>1 DEF FindKeys
      <4> HIDE DEF copy, missing
      <4>2. x.number = ref[p].number
        BY <1>b DEF Loop
      <4> HIDE DEF x
      <4> QED  BY <4>1, <4>2
    <3>2. CASE FindNumbers(p)
      <4> DEFINE missing == {d \in DOMAIN incidents : Missing(d)}
                 x == [Done EXCEPT !.step = "number", !.left = missing]
      <4>1. ref' = [ref EXCEPT ![p] = x]
        BY <3>2 DEF FindNumbers
      <4> HIDE DEF missing
      <4>2. x.number = 0
        BY DEF Done
      <4> HIDE DEF x
      <4> QED  BY <4>1, <4>2
    <3>3. CASE RefDone(p)
      <4>1. Done.number = 0
        BY DEF Done
      <4> QED  BY <3>3, <4>1 DEF RefDone
    <3> QED  BY <1>2, <3>1, <3>2, <3>3
  <2>3. Quiet
    BY <2>1, <2>2, RefMoves
  <2> QED  BY <1>d, <2>1, <2>3
<1>3. ASSUME NEW p \in Process, SetKey(p) PROVE NumberInv'
  <2> DEFINE d == Oldest(ref[p].left)
             x == [ref[p] EXCEPT !.left = @ \ {d}]
  <2>1. ref' = [ref EXCEPT ![p] = x] /\ UNCHANGED <<counter, legacy, proc>>
    BY <1>3 DEF SetKey, OnlyRef
  <2>2. x.number = ref[p].number
    BY <1>b DEF Loop
  <2>3. /\ DOMAIN incidents' = DOMAIN incidents
        /\ \A e \in DOMAIN incidents : incidents'[e].number = incidents[e].number
    BY <1>3, SetKeyDoes
  <2> HIDE DEF x
  <2>4. Quiet
    BY <2>1, <2>2, RefMoves
  <2> QED  BY <1>a, <1>c, <2>1, <2>3, <2>4, NumbersQuiet
<1>4. ASSUME NEW p \in Process, TakeForOld(p) PROVE NumberInv'
  <2> DEFINE x == [ref[p] EXCEPT !.number = NextNumber]
  <2>1. /\ ref' = [ref EXCEPT ![p] = x] /\ UNCHANGED <<incidents, legacy, proc>>
        /\ counter' = counter + 1
    BY <1>4 DEF TakeForOld, OnlyRef
  <2>2. x.number = counter + 1
    BY <1>b DEF Loop, NextNumber
  <2> HIDE DEF x
  <2>3. Held(p)' = counter + 1
    <3>1. ref'[p] = x
      BY <2>1, RefMoves
    <3> QED  BY <1>c, <2>2, <3>1 DEF Held
  <2>4. proc'[p].number # 0 => proc'[p].step = "serving"
    BY <2>1 DEF NumberInv
  <2>5. \A q \in Process \ {p} : ref'[q] = ref[q] /\ proc'[q] = proc[q]
    BY <2>1, RefMoves
  <2> QED  BY <2>1, <2>3, <2>4, <2>5, NumberTaken
<1>5. ASSUME NEW p \in Process, SetNumber(p) PROVE NumberInv'
  <2> DEFINE d == Oldest(ref[p].left)
             x == [ref[p] EXCEPT !.left = @ \ {d}, !.number = 0]
  <2>1. ref' = [ref EXCEPT ![p] = x] /\ UNCHANGED <<counter, legacy, proc>>
    BY <1>5 DEF SetNumber, OnlyRef
  <2>2. x.number = 0
    BY <1>b DEF Loop
  <2>3. /\ d \in OldIncidents \cap DOMAIN incidents
        /\ DOMAIN incidents' = DOMAIN incidents
        /\ \A e \in DOMAIN incidents \ {d} : incidents'[e] = incidents[e]
        /\ incidents'[d].number = ref[p].number /\ ref[p].number # 0
    BY <1>5, SetNumberDoes
  <2> HIDE DEF x, d
  <2>4. /\ ref'[p] = x
        /\ \A q \in Process \ {p} : ref'[q] = ref[q] /\ proc'[q] = proc[q]
    BY <2>1, RefMoves
  <2>5. Held(p) = ref[p].number /\ proc[p].number = 0 /\ OldDatabase
    BY <2>3, WhoHolds
  <2>6. Held(p)' = 0 /\ proc'[p].number = 0
    BY <2>1, <2>2, <2>4, <2>5 DEF Held
  <2>7. \A e \in DOMAIN incidents : incidents[e].number # Held(p)
    BY <2>3, <2>5 DEF NumberInv
  <2>8. d \notin SeedIncidents
    BY <2>3, DocumentAssumption
  <2>9. DOMAIN incidents' = DOMAIN incidents \cup {d}
    BY <2>3
  <2> QED  BY <1>a, <2>1, <2>3, <2>4, <2>5, <2>6, <2>7, <2>8, <2>9, NumberUsed
<1>6. ASSUME NEW p \in Process,
             \/ CountLegacy(p) \/ FindLegacy(p) \/ LegacyDone(p)
             \/ \E d \in Doc : SetServices(p, d)
      PROVE  NumberInv'
  <2>1. UNCHANGED <<counter, ref, proc>>
    BY <1>6 DEF CountLegacy, FindLegacy, LegacyDone, SetServices, OnlyLegacy
  <2>2. /\ DOMAIN incidents' = DOMAIN incidents
        /\ \A e \in DOMAIN incidents : incidents'[e].number = incidents[e].number
    <3>1. CASE \E d \in Doc : SetServices(p, d)
      BY <3>1, SetServicesDoes
    <3> QED  BY <1>6, <3>1 DEF CountLegacy, FindLegacy, LegacyDone
  <2> QED  BY <1>a, <1>c, <2>1, <2>2, NumbersQuiet
<1>7. ASSUME NEW p \in Process, SeedOrSkip(p) \/ FillPart(p) \/ SyncCounter(p)
      PROVE  NumberInv'
  <2>1. PICK step : Go(p, step)
    BY <1>7 DEF SeedOrSkip, FillPart, SyncCounter
  <2>2. UNCHANGED <<ref, incidents>>
    BY <1>7 DEF SeedOrSkip, FillPart, SyncCounter, OnlySeed
  <2>3. counter' \in Nat /\ counter <= counter'
    BY <1>7, <1>c, SequenceAssumption
       DEF SeedOrSkip, FillPart, SyncCounter, syncIncidentCounterToAtLeast
  <2>4. proc[p].step # "serving"
    BY <1>7, SeedOrder DEF SeedOrSkip, FillPart, SyncCounter, Parts
  <2>5. Quiet
    BY <2>1, <2>2, <2>4, GoMoves
  <2> QED  BY <1>a, <2>2, <2>3, <2>5, NumbersQuiet
<1>8. ASSUME NEW p \in Process, InsertSeeded(p) PROVE NumberInv'
  <2> DEFINE n == proc[p].at
  <2>1. n \in DOMAIN Seeded /\ n \in Nat \ {0} /\ proc[p].step = "incidents"
    BY <1>8, <1>b, SequenceAssumption DEF InsertSeeded, SeedInv, SeedStep, Server
  <2>2. UNCHANGED <<ref, counter>>
    BY <1>8 DEF InsertSeeded, OnlySeed
  <2>3. ~OldDatabase
    BY <2>1 DEF DatabaseInv
  <2>4. CASE Taken(n) \/ Seeded[n] \in DOMAIN incidents
    <3>1. Go(p, "serving") /\ UNCHANGED incidents
      BY <1>8, <2>4 DEF InsertSeeded
    <3>2. Quiet
      BY <2>1, <2>2, <3>1, GoMoves
    <3> QED  BY <1>d, <2>2, <3>1, <3>2
  <2>5. CASE ~(Taken(n) \/ Seeded[n] \in DOMAIN incidents)
    <3>1. /\ Insert(Seeded[n], n)
          /\ proc' = [proc EXCEPT ![p].at = n + 1,
                       ![p].step = IF n = Len(Seeded) THEN "sync" ELSE @]
      BY <1>8, <2>5 DEF InsertSeeded
    <3>2. /\ \A q \in Process : proc'[q].number = proc[q].number
          /\ \A q \in Process : proc'[q].step = proc[q].step \/ proc[q].step # "serving"
      BY <1>b, <2>1, <3>1 DEF TypeOK, Server
    <3>3. /\ Seeded[n] \in SeedIncidents /\ Seeded[n] \notin DOMAIN incidents
      BY <2>1, <2>5 DEF SeedIncidents
    <3>4. /\ DOMAIN incidents' = DOMAIN incidents \cup {Seeded[n]}
          /\ \A e \in DOMAIN incidents : incidents'[e] = incidents[e]
          /\ incidents'[Seeded[n]].number = n
      <4>1. /\ DOMAIN incidents' = DOMAIN incidents \cup {Seeded[n]}
            /\ \A e \in DOMAIN incidents : incidents'[e] = incidents[e]
            /\ incidents'[Seeded[n]] = [number |-> n, services |-> "list", key |-> TRUE]
        BY <3>1, <3>3, InsertOne, Zenon
      <4> QED  BY <4>1
    <3>5. \A e \in DOMAIN incidents : incidents[e].number # n
      BY <2>1, <2>3, <2>5, NotTaken
    <3> HIDE DEF n
    <3> QED  BY <1>a, <2>1, <2>2, <2>3, <3>2, <3>3, <3>4, <3>5, NumberSeeded
  <2> QED  BY <2>4, <2>5
<1>9. ASSUME NEW p \in Process, NEW d \in New, TakeNumber(p, d) PROVE NumberInv'
  <2>1. /\ proc' = [proc EXCEPT ![p].doc = d, ![p].number = NextNumber]
        /\ UNCHANGED <<ref, incidents>> /\ counter' = counter + 1
        /\ proc[p].step = "serving"
    BY <1>9 DEF TakeNumber, OnlySeed
  <2>2. /\ proc'[p].step = "serving" /\ proc'[p].number = counter + 1
        /\ \A q \in Process \ {p} : proc'[q] = proc[q]
    <3>1. /\ proc'[p].step = proc[p].step /\ proc'[p].number = NextNumber
          /\ \A q \in Process \ {p} : proc'[q] = proc[q]
      BY <2>1, <1>b DEF Server, TypeOK
    <3> QED  BY <2>1, <3>1 DEF NextNumber
  <2>3. ref[p].number = 0
    <3>1. ref[p] = Done
      BY <2>1 DEF TypeOK
    <3> QED  BY <3>1 DEF Done
  <2>4. Held(p)' = counter + 1
    BY <2>1, <2>2, <2>3 DEF Held
  <2> QED  BY <2>1, <2>2, <2>4, NumberTaken
<1>10. ASSUME NEW p \in Process, Create(p) PROVE NumberInv'
  <2>1. /\ proc' = [proc EXCEPT ![p].doc = None, ![p].number = 0]
        /\ UNCHANGED <<ref, counter>>
    BY <1>10 DEF Create, OnlySeed
  <2>2. /\ proc'[p].number = 0
        /\ \A q \in Process \ {p} : proc'[q] = proc[q]
    BY <2>1, <1>b DEF Server, TypeOK
  <2>3. CASE UNCHANGED incidents
    <3>1. Quiet
      BY <2>1, <2>2
    <3> QED  BY <1>d, <2>1, <2>3, <3>1
  <2>4. CASE Insert(proc[p].doc, proc[p].number) /\ ~Taken(proc[p].number)
    <3> DEFINE d == proc[p].doc
               n == proc[p].number
    <3>1. d \in New /\ n \in Nat \ {0} /\ proc[p].step = "serving" /\ Held(p) = n
          /\ ref[p].number = 0
      BY <1>10, <1>b, WhoHolds DEF Create, Server
    <3>2. Held(p)' = 0
      BY <2>1, <2>2, <3>1 DEF Held
    <3>3. /\ DOMAIN incidents' = DOMAIN incidents \cup {d}
          /\ \A e \in DOMAIN incidents \ {d} : incidents'[e] = incidents[e]
          /\ incidents'[d].number = n
      BY <2>4 DEF Insert
    <3>4. \A e \in DOMAIN incidents : incidents[e].number # Held(p)
      <4>1. CASE OldDatabase
        BY <3>1, <4>1 DEF NumberInv
      <4>2. CASE ~OldDatabase
        BY <2>4, <3>1, <4>2, NotTaken
      <4> QED  BY <4>1, <4>2
    <3>5. d \notin SeedIncidents
      BY <3>1, DocumentAssumption
    <3> HIDE DEF d, n
    <3> QED  BY <1>a, <2>1, <2>2, <3>1, <3>2, <3>3, <3>4, <3>5, NumberUsed
  <2> QED  BY <1>10, <2>3, <2>4 DEF Create
<1>11. ASSUME NEW p \in Process, Crash(p) PROVE NumberInv'
  <2>1. /\ proc'[p] = Off /\ ref'[p] = Done
        /\ \A q \in Process \ {p} : proc'[q] = proc[q] /\ ref'[q] = ref[q]
    BY <1>11 DEF Crash, TypeOK
  <2>2. Off.number = 0 /\ Done.number = 0
    BY DEF Off, Done
  <2>3. Quiet
    BY <2>1, <2>2
  <2> QED  BY <1>11, <1>d, <2>3 DEF Crash
<1>12. ASSUME UNCHANGED vars \/ \E p \in Process : BuildIndex(p) PROVE NumberInv'
  BY <1>12, <1>d DEF BuildIndex, vars
<1> QED
  BY <1>1, <1>2, <1>3, <1>4, <1>5, <1>6, <1>7, <1>8, <1>9, <1>10, <1>11, <1>12 DEF Next, Boot

-----------------------------------------------------------------------------
(* The seed and the counter. *)

\* The counter covers the incidents as long as the seeded ones stay as they are,
\* and nobody leaves them behind it.
LEMMA CoversStays ==
  ASSUME TypeOK, CounterCovers, NumberInv', counter' \in Nat, counter <= counter', gap => gap',
         SeedIncidents \cap DOMAIN incidents' = SeedIncidents \cap DOMAIN incidents,
         \A d \in SeedIncidents \cap DOMAIN incidents : incidents'[d] = incidents[d],
         \A q \in Process : proc[q].step \in {"incidents", "sync"} =>
                              proc'[q].step \in {"incidents", "sync"} \/ gap'
  PROVE  CounterCovers'
<1>1. CASE gap
  BY <1>1 DEF CounterCovers
<1>2. CASE \E q \in Process : proc[q].step \in {"incidents", "sync"}
  BY <1>2 DEF CounterCovers
<1>3. CASE \A d \in DOMAIN incidents : incidents[d].number <= counter
  <2>1. ASSUME NEW d \in DOMAIN incidents' PROVE incidents'[d].number <= counter'
    <3>1. CASE d \in SeedIncidents
      <4>1. incidents[d].number \in Nat /\ incidents[d].number <= counter /\ counter \in Nat
        BY <1>3, <2>1, <3>1 DEF TypeOK, Stored
      <4> QED  BY <2>1, <3>1, <4>1
    <3>2. CASE d \notin SeedIncidents
      BY <2>1, <3>2 DEF NumberInv
    <3> QED  BY <3>1, <3>2
  <2> QED  BY <2>1 DEF CounterCovers
<1> QED  BY <1>1, <1>2, <1>3 DEF CounterCovers

\* A step outside the seed, or one that ends it.
LEMMA SeedQuiet ==
  ASSUME TypeOK, SeedInv, CounterCovers', UNCHANGED filled,
         SeedIncidents \cap DOMAIN incidents' = SeedIncidents \cap DOMAIN incidents,
         \A d \in SeedIncidents \cap DOMAIN incidents : incidents'[d].number = incidents[d].number,
         \A q \in Process :
           \/ proc'[q].step = proc[q].step /\ proc'[q].at = proc[q].at
           \/ proc'[q].step = "serving"
           \/ proc'[q].step \in {"off", "init", "teams"} /\ proc'[q].at = 1
  PROVE  SeedInv'
<1>a. /\ {"off", "init", "teams", "serving"} \cap PastTeams = {}
      /\ {"users", "leads", "incidents"} \subseteq PastTeams
  BY SeedOrder DEF PastTeams
<1>b. \A m \in DOMAIN Seeded : Seeded[m] \in SeedIncidents
  BY DEF SeedIncidents
<1>1. ASSUME NEW q \in Process PROVE SeedStep(q)'
  <2>1. SeedStep(q)
    BY DEF SeedInv
  <2>2. CASE proc'[q].step = proc[q].step /\ proc'[q].at = proc[q].at
    <3>1. \A m \in DOMAIN Seeded : Seeded[m] \in DOMAIN incidents' <=> Seeded[m] \in DOMAIN incidents
      BY <1>b
    <3> QED  BY <2>1, <2>2, <3>1 DEF SeedStep
  <2>3. CASE proc'[q].step = "serving" \/ (proc'[q].step \in {"off", "init", "teams"} /\ proc'[q].at = 1)
    BY <1>a, <2>3 DEF SeedStep
  <2> QED  BY <2>2, <2>3
<1>2. \A q \in Process : proc'[q].step \in PastTeams => proc[q].step \in PastTeams
  BY <1>a
<1>3. \A q, r \in Process : proc'[q].step \in PastTeams /\ proc'[r].step \in PastTeams => q = r
  BY <1>2 DEF SeedInv
<1>4. "teams" \notin filled' => SeedIncidents \cap DOMAIN incidents' = {}
  BY DEF SeedInv
<1>5. \A m \in DOMAIN Seeded : Seeded[m] \in DOMAIN incidents' => incidents'[Seeded[m]].number = m
  BY <1>b DEF SeedInv
<1> HIDE DEF PastTeams
<1> QED  BY <1>1, <1>3, <1>4, <1>5 DEF SeedInv

\* Nobody else seeds while an incident of the seed is stored.
LEMMA SeedAlone ==
  ASSUME SeedInv, NEW p \in Process, proc[p].step \in PastTeams, NEW q \in Process \ {p}
  PROVE  proc[q].step \notin PastTeams
  BY DEF SeedInv

\* A part of the seed is stored, or refused.
LEMMA PartStored ==
  ASSUME TypeOK, SeedInv, NEW p \in Process, FillPart(p), NumberInv'
  PROVE  SeedInv'
<1> DEFINE part == proc[p].step
<1>a. /\ part \in {"teams", "users", "leads", "alerts", "details", "investigation"}
      /\ part # "teams" => part \in PastTeams
      /\ UNCHANGED <<incidents, counter, gap>>
      /\ counter \in Nat
      /\ part # "incidents" /\ part # "sync"
  BY SeedOrder DEF FillPart, OnlySeed, TypeOK, Parts, PastTeams
<1>b. SeedStep(p)
  BY DEF SeedInv
<1>c. ASSUME NEW step, Go(p, step) PROVE CounterCovers'
  <2>1. \A q \in Process : proc[q].step \in {"incidents", "sync"} =>
                             proc'[q].step \in {"incidents", "sync"}
    BY <1>a, <1>c, GoMoves
  <2> QED  BY <1>a, <2>1, CoversStays DEF SeedInv
<1>1. CASE part \in {"teams", "users"} \cap filled
  <2>1. Go(p, "serving") /\ UNCHANGED filled
    BY <1>1 DEF FillPart
  <2>2. \A q \in Process : \/ proc'[q].step = proc[q].step /\ proc'[q].at = proc[q].at
                           \/ proc'[q].step = "serving"
    BY <2>1, GoMoves
  <2>3. CounterCovers'
    BY <1>c, <2>1
  <2> QED  BY <1>a, <2>1, <2>2, <2>3, SeedQuiet
<1>2. CASE part \notin {"teams", "users"} \cap filled
  <2> DEFINE nxt == After(part)
  <2>1. Go(p, nxt) /\ filled' = filled \cup {part}
    BY <1>2 DEF FillPart
  <2>2. \/ part = "teams" /\ nxt = "users"
        \/ part = "users" /\ nxt = "leads"
        \/ part = "leads" /\ nxt = "incidents"
        \/ /\ part \in {"alerts", "details", "investigation"}
           /\ nxt \in {"details", "investigation", "serving"}
    <3> HIDE DEF part
    <3> QED  BY <1>a, SeedOrder
  <2> HIDE DEF nxt
  <2>3. /\ proc'[p].step = nxt /\ proc'[p].at = proc[p].at
        /\ \A q \in Process \ {p} : proc'[q] = proc[q]
    BY <2>1, GoMoves
  <2>4. CounterCovers'
    BY <1>c, <2>1
  <2>5. \A q \in Process : q # p => SeedStep(q)'
    BY <1>a, <2>1, <2>3 DEF SeedInv, SeedStep
  <2>6. part = "teams" => "teams" \notin filled /\ SeedIncidents \cap DOMAIN incidents = {}
    BY <1>2 DEF SeedInv
  <2>7. nxt \in {"users", "leads", "incidents"} =>
          proc[p].at = 1 /\ SeedIncidents \cap DOMAIN incidents = {}
    BY <1>b, <2>2, <2>6 DEF SeedStep
  <2>8. 1 <= Len(Seeded) /\ \A m \in DOMAIN Seeded : Seeded[m] \in SeedIncidents
    BY SequenceAssumption, DocumentAssumption DEF SeedIncidents
  <2>9. "teams" \in filled'
    BY <1>a, <1>b, <2>1 DEF SeedStep
  <2>10. SeedStep(p)'
    <3>1. /\ proc'[p].step \in {"off", "init", "teams", "users", "leads"} => proc'[p].at = 1
          /\ proc'[p].step \in {"users", "leads"} => SeedIncidents \cap DOMAIN incidents' = {}
      BY <1>a, <2>2, <2>3, <2>7
    <3>2. proc'[p].step = "incidents" =>
            /\ proc'[p].at <= Len(Seeded)
            /\ \A m \in DOMAIN Seeded : Seeded[m] \in DOMAIN incidents' => m < proc'[p].at
      BY <1>a, <2>3, <2>7, <2>8
    <3> QED  BY <2>9, <3>1, <3>2 DEF SeedStep
  <2>11. \A q \in Process : q # p => proc[q].step \notin PastTeams
    <3>1. CASE part = "teams"
      BY <2>6, <3>1 DEF SeedInv, SeedStep
    <3>2. CASE part # "teams"
      BY <1>a, <3>2, SeedAlone
    <3> QED  BY <3>1, <3>2
  <2>12. \A q, r \in Process : proc'[q].step \in PastTeams /\ proc'[r].step \in PastTeams => q = r
    BY <2>3, <2>11
  <2>13. \A m \in DOMAIN Seeded :
           Seeded[m] \in DOMAIN incidents' => incidents'[Seeded[m]].number = m
    BY <1>a DEF SeedInv
  <2> HIDE DEF PastTeams
  <2> QED  BY <2>4, <2>5, <2>9, <2>10, <2>12, <2>13 DEF SeedInv
<1> QED  BY <1>1, <1>2

\* An incident of the seed is stored, or refused, and then by another incident
\* whose number the counter covers.
LEMMA SeededStored ==
  ASSUME TypeOK, LoopsInv, SeedInv, NEW p \in Process, InsertSeeded(p), NumberInv, NumberInv'
  PROVE  SeedInv'
<1> DEFINE n == proc[p].at
<1>a. /\ proc[p] \in Server /\ proc[p].step = "incidents" /\ SeedStep(p)
      /\ UNCHANGED <<counter, gap, filled>>
  BY DEF InsertSeeded, OnlySeed, TypeOK, SeedInv
<1>b. counter \in Nat
  BY DEF TypeOK
<1>c. n \in DOMAIN Seeded /\ n \in Nat \ {0} /\ DOMAIN Seeded \subseteq Nat
  BY <1>a, SequenceAssumption DEF SeedStep, Server
<1>d. \A m \in DOMAIN Seeded : Seeded[m] \in SeedIncidents
  BY DEF SeedIncidents
<1>1. CASE Taken(n) \/ Seeded[n] \in DOMAIN incidents
  <2>1. Go(p, "serving") /\ UNCHANGED incidents
    BY <1>1 DEF InsertSeeded
  <2>2. \A m \in DOMAIN Seeded : Seeded[m] \in DOMAIN incidents => m < n
    BY <1>a DEF SeedStep
  \* What is taken is taken by an incident that is not of the seed.
  <2>3. PICK e \in DOMAIN incidents : incidents[e].number = n
    BY <1>1, <1>c, <2>2 DEF Taken
  <2>4. e \notin SeedIncidents
    <3>1. ASSUME NEW m \in DOMAIN Seeded, e = Seeded[m] PROVE FALSE
      <4>1. m < n /\ incidents[e].number = m
        BY <2>2, <3>1 DEF SeedInv
      <4> QED  BY <1>c, <2>3, <4>1
    <3> QED  BY <3>1 DEF SeedIncidents
  <2>5. n <= counter
    BY <2>3, <2>4 DEF NumberInv
  <2>6. \A d \in DOMAIN incidents : incidents[d].number <= counter
    <3>1. ASSUME NEW m \in DOMAIN Seeded, Seeded[m] \in DOMAIN incidents
          PROVE  incidents[Seeded[m]].number <= counter
      <4>1. m < n /\ incidents[Seeded[m]].number = m
        BY <2>2, <3>1 DEF SeedInv
      <4> QED  BY <1>b, <1>c, <2>5, <4>1
    <3> QED  BY <3>1 DEF NumberInv, SeedIncidents
  <2>7. CounterCovers'
    BY <1>a, <2>1, <2>6 DEF CounterCovers
  <2>8. \A q \in Process : \/ proc'[q].step = proc[q].step /\ proc'[q].at = proc[q].at
                           \/ proc'[q].step = "serving"
    BY <2>1, GoMoves
  <2> QED  BY <1>a, <2>1, <2>7, <2>8, SeedQuiet
<1>2. CASE ~(Taken(n) \/ Seeded[n] \in DOMAIN incidents)
  <2>1. /\ Insert(Seeded[n], n)
        /\ proc' = [proc EXCEPT ![p].at = n + 1,
                     ![p].step = IF n = Len(Seeded) THEN "sync" ELSE @]
    BY <1>2 DEF InsertSeeded
  <2>2. /\ \A q \in Process \ {p} : proc'[q] = proc[q]
        /\ proc'[p].at = n + 1
        /\ proc'[p].step = IF n = Len(Seeded) THEN "sync" ELSE "incidents"
    BY <1>a, <2>1 DEF Server, TypeOK
  <2>3. /\ DOMAIN incidents' = DOMAIN incidents \cup {Seeded[n]}
        /\ \A e \in DOMAIN incidents : incidents'[e] = incidents[e]
        /\ incidents'[Seeded[n]].number = n
    <3>1. /\ DOMAIN incidents' = DOMAIN incidents \cup {Seeded[n]}
          /\ \A e \in DOMAIN incidents : incidents'[e] = incidents[e]
          /\ incidents'[Seeded[n]] = [number |-> n, services |-> "list", key |-> TRUE]
      BY <1>2, <2>1, InsertOne, Zenon
    <3> QED  BY <3>1
  <2>4. /\ {"users", "leads", "incidents", "sync"} \subseteq PastTeams
        /\ "teams" \in filled
    BY <1>a, SeedOrder DEF PastTeams, SeedStep
  <2>5. \A q \in Process \ {p} : proc[q].step \notin PastTeams
    BY <1>a, <2>4, SeedAlone
  <2> HIDE DEF PastTeams
  <2>6. \A q \in Process \ {p} : SeedStep(q)'
    BY <1>a, <2>2, <2>4, <2>5 DEF SeedInv, SeedStep
  <2>7. \A m \in DOMAIN Seeded : Seeded[m] = Seeded[n] => m = n
    BY <1>c, SequenceAssumption
  <2>8. proc'[p].step = "incidents" =>
          /\ proc'[p].at <= Len(Seeded)
          /\ \A m \in DOMAIN Seeded : Seeded[m] \in DOMAIN incidents' => m < proc'[p].at
    <3>1. ASSUME n # Len(Seeded) PROVE n + 1 <= Len(Seeded)
      BY <1>c, <3>1, SequenceAssumption
    <3>2. ASSUME NEW m \in DOMAIN Seeded, Seeded[m] \in DOMAIN incidents' PROVE m < n + 1
      <4>1. m = n \/ m < n
        BY <1>a, <2>3, <2>7, <3>2 DEF SeedStep
      <4> QED  BY <1>c, <4>1
    <3> QED  BY <2>2, <3>1, <3>2
  <2>9. SeedStep(p)'
    BY <1>a, <2>2, <2>4, <2>8 DEF SeedStep
  <2>10. \A q, r \in Process : proc'[q].step \in PastTeams /\ proc'[r].step \in PastTeams => q = r
    BY <2>2, <2>5
  <2>11. \A m \in DOMAIN Seeded :
           Seeded[m] \in DOMAIN incidents' => incidents'[Seeded[m]].number = m
    BY <2>3, <2>7 DEF SeedInv
  <2>12. CounterCovers'
    BY <2>2 DEF CounterCovers
  <2> QED  BY <1>a, <2>4, <2>6, <2>9, <2>10, <2>11, <2>12 DEF SeedInv
<1> QED  BY <1>1, <1>2

\* The counter is raised to the numbers of the seed.
LEMMA CounterSynced ==
  ASSUME TypeOK, SeedInv, NEW p \in Process, SyncCounter(p), NumberInv'
  PROVE  SeedInv'
<1>a. /\ Go(p, "alerts") /\ proc[p].step = "sync" /\ UNCHANGED <<incidents, filled, gap>>
      /\ counter' = syncIncidentCounterToAtLeast(Len(Seeded))
  BY SeedOrder DEF SyncCounter, OnlySeed
<1>b. /\ proc'[p].step = "alerts"
      /\ \A q \in Process \ {p} : proc'[q] = proc[q]
  BY <1>a, GoMoves
<1>c. {"sync", "alerts"} \subseteq PastTeams
  BY SeedOrder DEF PastTeams
<1> HIDE DEF PastTeams
<1>1. ASSUME NEW q \in Process PROVE SeedStep(q)'
  <2>1. CASE q # p
    BY <1>a, <1>b, <2>1 DEF SeedInv, SeedStep
  <2>2. CASE q = p
    BY <1>a, <1>b, <1>c, <2>2 DEF SeedInv, SeedStep
  <2> QED  BY <2>1, <2>2
<1>2. \A q, r \in Process : proc'[q].step \in PastTeams /\ proc'[r].step \in PastTeams => q = r
  BY <1>a, <1>b, <1>c DEF SeedInv
<1>3. CounterCovers'
  <2>1. counter' \in Nat /\ Len(Seeded) <= counter' /\ Len(Seeded) \in Nat
        /\ DOMAIN Seeded = 1..Len(Seeded)
    BY <1>a, SequenceAssumption DEF syncIncidentCounterToAtLeast, TypeOK
  <2>2. ASSUME NEW d \in DOMAIN incidents' PROVE incidents'[d].number <= counter'
    <3>1. CASE d \in SeedIncidents
      <4>1. PICK m \in DOMAIN Seeded : d = Seeded[m]
        BY <3>1 DEF SeedIncidents
      <4>2. incidents'[d].number = m
        BY <1>a, <2>2, <4>1 DEF SeedInv
      <4> QED  BY <2>1, <4>2
    <3>2. CASE d \notin SeedIncidents
      BY <2>2, <3>2 DEF NumberInv
    <3> QED  BY <3>1, <3>2
  <2> QED  BY <2>2 DEF CounterCovers
<1> QED  BY <1>a, <1>1, <1>2, <1>3 DEF SeedInv

\* Every step keeps the seed single and the counter behind nothing else.
LEMMA SeedNext ==
  ASSUME TypeOK, LoopsInv, SeedInv, NumberInv, NumberInv', TypeOK', [Next]_vars
  PROVE  SeedInv'
<1>a. \A q \in Process : proc[q] \in Server /\ SeedStep(q)
  BY DEF TypeOK, SeedInv
<1>b. counter \in Nat /\ counter' \in Nat
  BY DEF TypeOK
\* A step that is not of the seed.
<1> DEFINE Same == /\ SeedIncidents \cap DOMAIN incidents' = SeedIncidents \cap DOMAIN incidents
                   /\ \A d \in SeedIncidents \cap DOMAIN incidents : incidents'[d] = incidents[d]
           Calm == \A q \in Process :
                     \/ proc'[q].step = proc[q].step /\ proc'[q].at = proc[q].at
                     \/ proc'[q].step = "serving" /\ proc[q].step \notin {"incidents", "sync"}
                     \/ /\ proc'[q].step \in {"off", "init", "teams"} /\ proc'[q].at = 1
                        /\ proc[q].step \in {"incidents", "sync"} => gap'
<1>c. ASSUME Same, Calm, UNCHANGED filled, counter <= counter', gap => gap' PROVE SeedInv'
  <2>1. CounterCovers'
    BY <1>b, <1>c, CoversStays DEF SeedInv
  <2> QED  BY <1>c, <2>1, SeedQuiet
<1>d. ASSUME UNCHANGED incidents PROVE Same
  BY <1>d
<1>e. ASSUME UNCHANGED proc PROVE Calm
  BY <1>e
<1>1. ASSUME NEW p \in Process, Start(p) PROVE SeedInv'
  <2>1. Calm
    BY <1>1, <1>a DEF Start, TypeOK, Server, SeedStep
  <2> QED  BY <1>1, <1>b, <1>c, <1>d, <2>1 DEF Start
<1>2. ASSUME NEW p \in Process,
             \/ FindKeys(p) \/ FindNumbers(p) \/ TakeForOld(p) \/ RefDone(p)
             \/ CountLegacy(p) \/ FindLegacy(p) \/ LegacyDone(p)
      PROVE  SeedInv'
  <2>1. /\ UNCHANGED <<incidents, proc, filled, gap>>
        /\ counter <= counter'
    BY <1>2, <1>b DEF FindKeys, FindNumbers, TakeForOld, RefDone, CountLegacy, FindLegacy,
                      LegacyDone, OnlyRef, OnlyLegacy
  <2> QED  BY <1>c, <1>d, <1>e, <2>1
<1>3. ASSUME NEW p \in Process, SetKey(p) \/ SetNumber(p) \/ \E d \in Doc : SetServices(p, d)
      PROVE  SeedInv'
  <2>1. /\ UNCHANGED <<proc, filled, gap>>
        /\ counter <= counter'
    BY <1>3, <1>b DEF SetKey, SetNumber, SetServices, OnlyRef, OnlyLegacy
  <2>2. PICK d \in OldIncidents : /\ DOMAIN incidents' = DOMAIN incidents
                                  /\ \A e \in DOMAIN incidents \ {d} : incidents'[e] = incidents[e]
    BY <1>3, SetKeyDoes, SetNumberDoes, SetServicesDoes
  <2>3. Same
    BY <2>2, DocumentAssumption
  <2> QED  BY <1>c, <1>e, <2>1, <2>3
<1>4. ASSUME NEW p \in Process, SeedOrSkip(p) PROVE SeedInv'
  <2>1. PICK step \in {"serving", "teams"} : Go(p, step)
    BY <1>4 DEF SeedOrSkip
  <2>2. /\ proc[p].step = "init" /\ proc[p].at = 1
        /\ UNCHANGED <<incidents, filled, counter, gap>>
    BY <1>4, <1>a DEF SeedOrSkip, OnlySeed, SeedStep
  <2>3. Calm
    BY <2>1, <2>2, GoMoves
  <2> QED  BY <1>b, <1>c, <1>d, <2>2, <2>3
<1>5. ASSUME NEW p \in Process, NEW d \in New, TakeNumber(p, d) PROVE SeedInv'
  <2>1. /\ proc' = [proc EXCEPT ![p].doc = d, ![p].number = NextNumber]
        /\ UNCHANGED <<incidents, filled, gap>> /\ counter' = counter + 1
    BY <1>5 DEF TakeNumber, OnlySeed
  <2>2. Calm
    BY <1>a, <2>1 DEF Server, TypeOK
  <2>3. counter <= counter' /\ UNCHANGED <<filled, incidents>>
    BY <1>b, <2>1
  <2>4. gap => gap'
    BY <2>1
  <2>5. Same
    BY <1>d, <2>3
  <2> HIDE DEF Same, Calm
  <2> QED  BY <1>c, <2>2, <2>3, <2>4, <2>5
<1>6. ASSUME NEW p \in Process, Create(p) PROVE SeedInv'
  <2>1. /\ proc' = [proc EXCEPT ![p].doc = None, ![p].number = 0]
        /\ UNCHANGED <<filled, counter, gap>>
    BY <1>6 DEF Create, OnlySeed
  <2>2. Calm
    BY <1>a, <2>1 DEF Server, TypeOK
  <2>3. Same
    <3>1. proc[p].doc \in New
      BY <1>6, <1>a DEF Create, Server
    <3>2. CASE UNCHANGED incidents
      BY <1>d, <3>2
    <3>3. CASE Insert(proc[p].doc, proc[p].number)
      BY <3>1, <3>3, DocumentAssumption DEF Insert
    <3> QED  BY <1>6, <3>2, <3>3 DEF Create
  <2>4. counter <= counter' /\ UNCHANGED filled
    BY <1>b, <2>1
  <2>5. gap => gap'
    BY <2>1
  <2> HIDE DEF Same, Calm
  <2> QED  BY <1>c, <2>2, <2>3, <2>4, <2>5
<1>7. ASSUME NEW p \in Process, Crash(p) PROVE SeedInv'
  <2>1. /\ proc'[p] = Off
        /\ \A q \in Process \ {p} : proc'[q] = proc[q]
    BY <1>7 DEF Crash, TypeOK
  <2>2. Off.step = "off" /\ Off.at = 1
    BY DEF Off
  <2>3. UNCHANGED <<incidents, counter, filled>>
    BY <1>7 DEF Crash
  <2>4. (gap => gap') /\ (proc[p].step \in {"incidents", "sync"} => gap')
    BY <1>7 DEF Crash
  <2>5. Calm
    BY <2>1, <2>2, <2>4
  <2> QED  BY <1>b, <1>c, <1>d, <2>3, <2>4, <2>5
<1>8. ASSUME UNCHANGED vars \/ \E p \in Process : BuildIndex(p) PROVE SeedInv'
  <2>1. UNCHANGED <<incidents, proc, filled, gap, counter>>
    BY <1>8 DEF BuildIndex, vars
  <2> QED  BY <1>b, <1>c, <1>d, <1>e, <2>1
<1>9. ASSUME NEW p \in Process, FillPart(p) \/ InsertSeeded(p) \/ SyncCounter(p) PROVE SeedInv'
  BY <1>9, PartStored, SeededStored, CounterSynced
<1> QED
  BY <1>1, <1>2, <1>3, <1>4, <1>5, <1>6, <1>7, <1>8, <1>9 DEF Next, Boot

-----------------------------------------------------------------------------
(* The theorems. *)

StartupInv == /\ TypeOK
              /\ LoopsInv
              /\ ServedInv
              /\ DatabaseInv
              /\ NumberInv
              /\ SeedInv

\* The invariant holds at first,
LEMMA InvInit == Init => StartupInv
<1> SUFFICES ASSUME Init PROVE StartupInv
  OBVIOUS
<1>1. TypeOK
  BY TypeInit
<1>2. /\ \A p \in Process : proc[p] = Off /\ ref[p] = Done /\ legacy[p] = Done
      /\ Off.step = "off" /\ Off.number = 0 /\ Off.at = 1
      /\ Done.step = "done" /\ Done.left = {} /\ Done.number = 0
  BY DEF Init, Off, Done
<1>3. /\ DOMAIN incidents \subseteq OldIncidents
      /\ \A d \in DOMAIN incidents : Missing(d)
  <2>1. CASE incidents = <<>>
    BY <2>1
  <2>2. CASE incidents \in Earlier
    <3>1. \A x \in Left : x.number = 0
      BY DEF Left
    <3>2. DOMAIN incidents \subseteq OldIncidents /\ \A d \in DOMAIN incidents : incidents[d] \in Left
      BY <2>2, EarlierAssumption
    <3> QED  BY <3>1, <3>2 DEF Missing
  <2> QED  BY <2>1, <2>2 DEF Init
<1>4. LoopsInv
  BY <1>2, <1>3 DEF LoopsInv, LoopInv
<1>5. ServedInv
  BY <1>2 DEF ServedInv, Behind
<1>6. SeedIncidents \cap DOMAIN incidents = {}
  BY <1>3, DocumentAssumption
<1>7. DatabaseInv
  <2>1. OldDatabase => "users" \in filled
    <3>1. OldDatabase => incidents # <<>>
      BY DEF OldDatabase
    <3>2. "users" \in Parts \ {"incidents", "sync"}
      BY SeedOrder
    <3> QED  BY <3>1, <3>2 DEF Init, Parts
  <2>2. ~OldDatabase => DOMAIN incidents = {}
    BY <1>3 DEF OldDatabase
  <2>3. \A p \in Process : proc[p].step = "off"
    BY <1>2
  <2>4. asked = {}
    BY DEF Init
  <2> QED  BY <1>6, <2>1, <2>2, <2>3, <2>4 DEF DatabaseInv
<1>8. NumberInv
  <2>1. \A p \in Process : Held(p) = 0
    BY <1>2 DEF Held
  <2>2. counter = 0
    BY DEF Init
  <2> QED  BY <1>2, <1>3, <2>1, <2>2 DEF NumberInv, NumbersUnique, Missing
<1>9. SeedInv
  <2>1. "off" \notin PastTeams
    BY SeedOrder DEF PastTeams
  <2>2. CounterCovers
    BY <1>3 DEF CounterCovers, Missing, Init
  <2>3. \A p \in Process : SeedStep(p)
    BY <1>2, <2>1 DEF SeedStep
  <2>4. \A m \in DOMAIN Seeded : Seeded[m] \notin DOMAIN incidents
    BY <1>6 DEF SeedIncidents
  <2> QED  BY <1>2, <1>6, <2>1, <2>2, <2>3, <2>4 DEF SeedInv
<1> QED  BY <1>1, <1>4, <1>5, <1>7, <1>8, <1>9 DEF StartupInv

\* and every step keeps it.
LEMMA InvNext == StartupInv /\ [Next]_vars => StartupInv'
<1> SUFFICES ASSUME StartupInv, [Next]_vars PROVE StartupInv'
  OBVIOUS
<1>a. TypeOK /\ LoopsInv /\ ServedInv /\ DatabaseInv /\ NumberInv /\ SeedInv
  BY DEF StartupInv
<1>1. TypeOK'
  BY <1>a, TypeNext
<1>2. LoopsInv'
  BY <1>a, LoopsNext
<1>3. ServedInv'
  BY <1>a, ServedNext
<1>4. DatabaseInv'
  BY <1>a, DatabaseNext
<1>5. NumberInv'
  BY <1>a, NumberNext
<1>6. SeedInv'
  BY <1>a, <1>1, <1>5, SeedNext
<1> QED  BY <1>1, <1>2, <1>3, <1>4, <1>5, <1>6 DEF StartupInv

\* The inductive invariant holds in every state of every behaviour.
THEOREM Inductive == Spec => []StartupInv
<1> QED  BY InvInit, InvNext, PTL DEF Spec

\* Documents, processes and migrations have their types, and a process is in
\* its migrations only before anything else.
THEOREM TypeCorrect == Spec => []TypeOK
<1>1. StartupInv => TypeOK
  BY DEF StartupInv
<1> QED  BY Inductive, <1>1, PTL

\* However many processes backfill old incidents, create new ones, seed and die,
\* no two incidents bear one number.
THEOREM NumbersAreUnique == Spec => []NumbersUnique
<1>1. StartupInv => NumbersUnique
  BY DEF StartupInv, NumberInv
<1> QED  BY Inductive, <1>1, PTL

\* The counter is behind a stored number only during a seed, or after a process
\* died in the middle of one.
THEOREM CounterIsAhead == Spec => []CounterCovers
<1>1. StartupInv => CounterCovers
  BY DEF StartupInv, SeedInv
<1> QED  BY Inductive, <1>1, PTL

\* A server that listens finds every incident migrated, whatever the migrations
\* of other processes write over its own.
THEOREM ServersFindMigrated == Spec => []ServesComplete
<1>1. StartupInv => ServesComplete
  <2> SUFFICES ASSUME StartupInv, NEW p \in Process, proc[p].step = "serving"
               PROVE  \A d \in DOMAIN incidents : Complete(d)
    BY DEF ServesComplete
  <2>1. ref[p] = Done /\ Done.step = "done"
    BY DEF StartupInv, TypeOK, Done
  <2>2. Behind(p)
    BY DEF StartupInv, ServedInv
  <2> QED  BY <2>1, <2>2 DEF Behind
<1> QED  BY Inductive, <1>1, PTL
=============================================================================
