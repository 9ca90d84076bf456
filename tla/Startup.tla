------------------------------ MODULE Startup ------------------------------
(***************************************************************************)
(* How a back end starts: the unique index of the incident numbers, built  *)
(* while the three migrations of old incidents run; the seed of an empty   *)
(* database, before the server listens; and the numbers that new incidents *)
(* take from the counter.  Processes may start side by side, die anywhere  *)
(* and start again.                                                        *)
(*                                                                         *)
(* An incident is [number, services, key]: its number or 0; whether its    *)
(* services are in the list, still in the old fields, or lost to the       *)
(* placeholder 'unknown-service'; whether it has a correlation key.        *)
(***************************************************************************)
EXTENDS Naturals, Sequences, FiniteSets

CONSTANTS
  Process,     \* back ends (or seed.runner without --force)
  Old,         \* the sequence, by createdAt, of the incidents of earlier versions
  Earlier,     \* what earlier versions may have left: functions from some of them
  Seeded,      \* the sequence of the incidents of the seed, numbered from 1
  New,         \* incidents created while the system runs
  MaxCrashes,  \* bound on the deaths of processes
  None         \* null

ASSUME CrashAssumption  == MaxCrashes \in Nat
ASSUME SequenceAssumption ==
  \A s \in {Old, Seeded} :
    /\ s \in Seq({s[n] : n \in DOMAIN s})
    /\ \A m, n \in DOMAIN s : s[m] = s[n] => m = n

VARIABLES
  incidents,  \* the collection: a function from the stored incidents
  counter,    \* counters.seq of 'incident', 0 before its first use
  index,      \* whether the unique index of incidentNumber exists
  asked,      \* the running processes whose createIndex was answered
  filled,     \* the parts of the seed that are stored, but for its incidents
  proc,       \* each process: its step, and its number taken for a new incident
  ref,        \* onModuleInit of IncidentRefService in each process
  legacy,     \* onModuleInit of IncidentsService in each process
  crashes,    \* deaths so far
  gap         \* history: a process died while the counter was behind its seed

vars == <<incidents, counter, index, asked, filled, proc, ref, legacy, crashes, gap>>

SeedIncidents == {Seeded[n] : n \in DOMAIN Seeded}
OldIncidents  == {Old[n] : n \in DOMAIN Old}
Doc == OldIncidents \cup New \cup SeedIncidents

\* What earlier versions left: the old fields are older than the key.
Left == {[number |-> 0, services |-> "old", key |-> FALSE],
         [number |-> 0, services |-> "list", key |-> FALSE],
         [number |-> 0, services |-> "list", key |-> TRUE]}
ASSUME EarlierAssumption ==
  \A f \in Earlier : /\ DOMAIN f # {} /\ DOMAIN f \subseteq OldIncidents
                     /\ f \in [DOMAIN f -> Left]

\* The three are different documents, and the seed has some.
ASSUME DocumentAssumption ==
  /\ OldIncidents \cap New = {}
  /\ OldIncidents \cap SeedIncidents = {}
  /\ New \cap SeedIncidents = {}
  /\ SeedIncidents # {}
  /\ None \notin New

\* seed(): each of these is awaited before the next.  The details are the
\* comments, the tasks and the audit entries.
Plan == <<"teams", "users", "leads", "incidents", "sync", "alerts", "details",
          "investigation">>
\* Mistake: the seed ends before its last part.
StopsEarly(part) == LET n == CHOOSE m \in DOMAIN Plan : Plan[m] = part IN
                    IF n >= Len(Plan) - 1 THEN "serving" ELSE Plan[n + 1]
After(part) == LET n == CHOOSE m \in DOMAIN Plan : Plan[m] = part IN
               IF n = Len(Plan) THEN "serving" ELSE Plan[n + 1]

Off == [step |-> "off", number |-> 0, doc |-> None, at |-> 1]
Done == [step |-> "done", left |-> {}, number |-> 0, copy |-> <<>>]
Running(p) == proc[p].step # "off"

Missing(d)  == incidents[d].number = 0
OldNames(d) == incidents[d].services = "old"
Complete(d) == ~Missing(d) /\ ~OldNames(d) /\ incidents[d].key

Change(d, field, value) == incidents' = [incidents EXCEPT ![d][field] = value]
Insert(d, number) ==
  incidents' = [e \in DOMAIN incidents \cup {d} |->
    IF e = d THEN [number |-> number, services |-> "list", key |-> TRUE] ELSE incidents[e]]
Taken(number) == index /\ \E d \in DOMAIN incidents : incidents[d].number = number

-----------------------------------------------------------------------------
(* The process starts: both onModuleInit at once, beside autoIndex. *)

\* A unique index counts missing numbers as one value, and is not built over
\* a value that occurs twice.
Distinct == \A d, e \in DOMAIN incidents :
              incidents[d].number = incidents[e].number => d = e

Start(p) ==
  /\ proc[p].step = "off"
  /\ proc' = [proc EXCEPT ![p].step = "init"]
  /\ ref' = [ref EXCEPT ![p].step = "keys"]
  /\ legacy' = [legacy EXCEPT ![p].step = "count"]
  /\ UNCHANGED <<incidents, counter, index, asked, filled, crashes, gap>>

\* Nothing awaits the createIndex of autoIndex; a refusal is for good.
BuildIndex(p) ==
  /\ proc[p].step = "init"
  /\ p \notin asked
  /\ index' = (index \/ Distinct)
  /\ asked' = asked \cup {p}
  /\ UNCHANGED <<incidents, counter, filled, proc, ref, legacy, crashes, gap>>

RefAt(p, step)    == proc[p].step = "init" /\ ref[p].step = step
LegacyAt(p, step) == proc[p].step = "init" /\ legacy[p].step = step
OnlyRef    == UNCHANGED <<index, asked, filled, proc, legacy, crashes, gap>>
OnlyLegacy == UNCHANGED <<counter, index, asked, filled, proc, ref, crashes, gap>>

\* The oldest of the incidents a loop has left.
Oldest(left) == Old[CHOOSE n \in DOMAIN Old :
                      Old[n] \in left /\ \A m \in 1..(n - 1) : Old[m] \notin left]

\* backfillMissingCorrelationFields: the find, whose documents do not show the
\* old fields, which the schema lacks.
FindKeys(p) ==
  LET missing == {d \in DOMAIN incidents : ~incidents[d].key \/ OldNames(d)} IN
  /\ RefAt(p, "keys")
  /\ ref' = [ref EXCEPT ![p] = [@ EXCEPT !.step = "setKeys", !.left = missing,
                                         !.copy = [d \in missing |-> incidents[d].services]]]
  /\ UNCHANGED <<incidents, counter>> /\ OnlyRef

\* Mistake: the loop does not move on.
SetKeyAgain(p) ==
  /\ RefAt(p, "setKeys")
  /\ ref[p].left # {}
  /\ Change(Oldest(ref[p].left), "key", TRUE)
  /\ UNCHANGED <<counter, ref>> /\ OnlyRef

\* Each in turn gets its services and its key, from the copy.
SetKey(p) ==
  LET d == Oldest(ref[p].left) IN
  /\ RefAt(p, "setKeys")
  /\ ref[p].left # {}
  /\ incidents' = [incidents EXCEPT ![d].key = TRUE,
       ![d].services = IF ref[p].copy[d] = "old" THEN "unknown" ELSE ref[p].copy[d]]
  /\ ref' = [ref EXCEPT ![p].left = @ \ {d}]
  /\ UNCHANGED counter /\ OnlyRef

\* backfillMissingNumbers.
FindNumbers(p) ==
  /\ RefAt(p, "setKeys")
  /\ ref[p].left = {}
  /\ ref' = [ref EXCEPT ![p] = [Done EXCEPT !.step = "number",
                                            !.left = {d \in DOMAIN incidents : Missing(d)}]]
  /\ UNCHANGED <<incidents, counter>> /\ OnlyRef

\* Mistake: the number is that of the last incident, counted.
CountsIncidents == Cardinality(DOMAIN incidents)

\* getNextIncidentNumber: $inc, upsert and the new value in one command.
NextNumber == counter + 1

TakeForOld(p) ==
  /\ RefAt(p, "number")
  /\ ref[p].left # {}
  /\ ref[p].number = 0
  /\ counter' = counter + 1
  /\ ref' = [ref EXCEPT ![p].number = NextNumber]
  /\ UNCHANGED incidents /\ OnlyRef

SetNumber(p) ==
  LET d == Oldest(ref[p].left) IN
  /\ RefAt(p, "number")
  /\ ref[p].number # 0
  /\ Change(d, "number", ref[p].number)
  /\ ref' = [ref EXCEPT ![p].left = @ \ {d}, ![p].number = 0]
  /\ UNCHANGED counter /\ OnlyRef

RefDone(p) ==
  /\ RefAt(p, "number")
  /\ ref[p].left = {}
  /\ ref' = [ref EXCEPT ![p] = Done]
  /\ UNCHANGED <<incidents, counter>> /\ OnlyRef

\* migrateLegacyServiceFields: a count, then a lean find, which shows the old
\* fields, then the updates.
CountLegacy(p) ==
  /\ LegacyAt(p, "count")
  /\ legacy' = [legacy EXCEPT ![p].step =
       IF \E d \in DOMAIN incidents : OldNames(d) THEN "find" ELSE "done"]
  /\ UNCHANGED incidents /\ OnlyLegacy

FindLegacy(p) ==
  /\ LegacyAt(p, "find")
  /\ legacy' = [legacy EXCEPT ![p] = [Done EXCEPT !.step = "set",
                                                  !.left = {d \in DOMAIN incidents : OldNames(d)}]]
  /\ UNCHANGED incidents /\ OnlyLegacy

SetServices(p, d) ==
  /\ LegacyAt(p, "set")
  /\ d \in legacy[p].left
  /\ Change(d, "services", "list")
  /\ legacy' = [legacy EXCEPT ![p].left = @ \ {d}]
  /\ OnlyLegacy

LegacyDone(p) ==
  /\ LegacyAt(p, "set")
  /\ legacy[p].left = {}
  /\ legacy' = [legacy EXCEPT ![p] = Done]
  /\ UNCHANGED incidents /\ OnlyLegacy

-----------------------------------------------------------------------------
(* onApplicationBootstrap: the seed, before the server listens. *)

\* Mistakes: one of the two is not awaited.
RefNotAwaited(p)    == legacy[p].step = "done"
LegacyNotAwaited(p) == ref[p].step = "done"

Migrated(p) == ref[p].step = "done" /\ legacy[p].step = "done"

OnlySeed == UNCHANGED <<index, asked, ref, legacy, crashes, gap>>
Go(p, step) == proc' = [proc EXCEPT ![p].step = step]

\* The one assumption on the database's pace: a createIndex sent when the model
\* was registered is answered before the seed or the first request comes to
\* the incidents, which is many answers later.  The code does not wait for it.
IndexAnswered(p) == p \in asked

\* countDocuments of the users.
SeedOrSkip(p) ==
  /\ proc[p].step = "init"
  /\ Migrated(p)
  /\ IndexAnswered(p)
  /\ Go(p, IF "users" \in filled THEN "serving" ELSE "teams")
  /\ UNCHANGED <<incidents, counter, filled>> /\ OnlySeed

\* Teams and users have unique names and emails: what is there already refuses
\* the insert, and the error ends the seed with a warning.
FillPart(p) ==
  LET part == proc[p].step IN
  /\ part \in {Plan[n] : n \in DOMAIN Plan} \ {"incidents", "sync"}
  /\ IF part \in {"teams", "users"} \cap filled
     THEN Go(p, "serving") /\ UNCHANGED filled
     ELSE Go(p, After(part)) /\ filled' = filled \cup {part}
  /\ UNCHANGED <<incidents, counter>> /\ OnlySeed

\* insertMany of the incidents, in order; the first that is refused ends it.
InsertSeeded(p) ==
  LET n == proc[p].at IN
  /\ proc[p].step = "incidents"
  /\ IF Taken(n) \/ Seeded[n] \in DOMAIN incidents
     THEN Go(p, "serving") /\ UNCHANGED incidents
     ELSE /\ Insert(Seeded[n], n)
          /\ proc' = [proc EXCEPT ![p].at = n + 1,
                                  ![p].step = IF n = Len(Seeded) THEN "sync" ELSE @]
  /\ UNCHANGED <<counter, filled>> /\ OnlySeed

\* Mistake: the counter starts below the seed.
syncToOneLess(n) == IF counter > n - 1 THEN counter ELSE n - 1

\* $max.
syncIncidentCounterToAtLeast(n) == IF counter > n THEN counter ELSE n

SyncCounter(p) ==
  /\ proc[p].step = "sync"
  /\ counter' = syncIncidentCounterToAtLeast(Len(Seeded))
  /\ Go(p, After("sync"))
  /\ UNCHANGED <<incidents, filled>> /\ OnlySeed

-----------------------------------------------------------------------------
(* The server listens: POST /incidents, or a report that opens an incident. *)

TakeNumber(p, d) ==
  /\ proc[p].step = "serving"
  /\ proc[p].doc = None
  /\ d \in New \ DOMAIN incidents
  /\ \A q \in Process : proc[q].doc # d
  /\ counter' = counter + 1
  /\ proc' = [proc EXCEPT ![p].doc = d, ![p].number = NextNumber]
  /\ UNCHANGED <<incidents, filled>> /\ OnlySeed

\* The save, which the index refuses if the number is in use.
Create(p) ==
  /\ proc[p].doc # None
  /\ IF Taken(proc[p].number) THEN UNCHANGED incidents
     ELSE Insert(proc[p].doc, proc[p].number)
  /\ proc' = [proc EXCEPT ![p].doc = None, ![p].number = 0]
  /\ UNCHANGED <<counter, filled>> /\ OnlySeed

Crash(p) ==
  /\ Running(p)
  /\ crashes < MaxCrashes
  /\ crashes' = crashes + 1
  /\ gap' = (gap \/ proc[p].step \in {"incidents", "sync"})
  /\ proc' = [proc EXCEPT ![p] = Off]
  /\ asked' = asked \ {p}
  /\ ref' = [ref EXCEPT ![p] = Done]
  /\ legacy' = [legacy EXCEPT ![p] = Done]
  /\ UNCHANGED <<incidents, counter, index, filled>>

-----------------------------------------------------------------------------
\* An empty database, or one of an earlier version with its users.
Init ==
  /\ \/ /\ incidents = <<>>
        /\ filled = {}
     \/ /\ incidents \in Earlier
        /\ filled = {Plan[n] : n \in DOMAIN Plan} \ {"incidents", "sync"}
  /\ counter = 0
  /\ index = FALSE
  /\ asked = {}
  /\ proc = [p \in Process |-> Off]
  /\ ref = [p \in Process |-> Done]
  /\ legacy = [p \in Process |-> Done]
  /\ crashes = 0
  /\ gap = FALSE

Boot(p) ==
  \/ Start(p) \/ BuildIndex(p)
  \/ FindKeys(p) \/ SetKey(p) \/ FindNumbers(p) \/ TakeForOld(p) \/ SetNumber(p)
  \/ RefDone(p)
  \/ CountLegacy(p) \/ FindLegacy(p) \/ (\E d \in Doc : SetServices(p, d))
  \/ LegacyDone(p)
  \/ SeedOrSkip(p) \/ FillPart(p) \/ InsertSeeded(p) \/ SyncCounter(p)

Next == \E p \in Process : \/ Boot(p) \/ Crash(p) \/ Create(p)
                           \/ \E d \in New : TakeNumber(p, d)

Spec == Init /\ [][Next]_vars

\* A process that is down is started again, and goes on with what it does.
FairSpec == Spec /\ \A p \in Process : WF_vars(Boot(p)) /\ WF_vars(Create(p))

-----------------------------------------------------------------------------
(* Properties. *)

Names   == {"old", "list", "unknown"}
Stored  == [number : Nat, services : Names, key : BOOLEAN]
Parts   == {Plan[n] : n \in DOMAIN Plan}
Server  == [step : {"off", "init", "serving"} \cup Parts, number : Nat,
            doc : New \cup {None}, at : 1..(Len(Seeded) + 1)]
Loop(steps) == [step : steps \cup {"done"}, left : SUBSET Doc, number : Nat,
                copy : UNION {[D -> Names] : D \in SUBSET Doc}]

\* Type correctness of the collections and the processes; a process is in its
\* migrations only before anything else.
TypeOK ==
  /\ DOMAIN incidents \subseteq Doc
  /\ \A d \in DOMAIN incidents : incidents[d] \in Stored
  /\ counter \in Nat
  /\ index \in BOOLEAN
  /\ asked \in SUBSET Process
  /\ filled \subseteq Parts
  /\ proc \in [Process -> Server]
  /\ \A p \in Process : /\ (proc[p].doc = None) <=> (proc[p].number = 0)
                        /\ proc[p].step # "init" => ref[p] = Done /\ legacy[p] = Done
  /\ ref \in [Process -> Loop({"keys", "setKeys", "number"})]
  /\ legacy \in [Process -> Loop({"count", "find", "set"})]
  /\ crashes \in 0..MaxCrashes
  /\ gap \in BOOLEAN

\* No two incidents bear one number, though the index may be missing as long as
\* two old incidents have none, and processes backfill and create side by side.
\* (One atomic command of the counter.)
NumbersUnique ==
  \A d, e \in DOMAIN incidents :
    d # e /\ ~Missing(d) => incidents[d].number # incidents[e].number

\* The counter is not behind a stored number, so the next incident is not
\* refused, but during a seed, or for ever after a process died in the middle
\* of one: its incidents are stored, the counter is not, and no start repairs it.
CounterCovers ==
  \/ gap
  \/ \E p \in Process : proc[p].step \in {"incidents", "sync"}
  \/ \A d \in DOMAIN incidents : incidents[d].number <= counter

\* A server that listens finds every incident with a number, a list of services
\* and a key, whatever other processes do and wherever an earlier one died.
ServesComplete ==
  (\E p \in Process : proc[p].step = "serving") => \A d \in DOMAIN incidents : Complete(d)

\* The migrations of an old database end, however often they are interrupted.
MigrationsEnd == <>[](\A d \in DOMAIN incidents : Complete(d))

\* An empty database is seeded whole, unless a process died or another one
\* took a number of the seed for an incident of its own.
SeedIsWhole ==
  <>[](\/ /\ SeedIncidents \subseteq DOMAIN incidents
          /\ {Plan[n] : n \in DOMAIN Plan} \ {"incidents", "sync"} \subseteq filled
       \/ crashes > 0
       \/ OldIncidents \cap DOMAIN incidents # {}
       \/ \E d \in New \cap DOMAIN incidents : incidents[d].number \in DOMAIN Seeded)
=============================================================================
