------------------------- MODULE MCAlertCorrelation -------------------------
(***************************************************************************)
(* Values for the constants of AlertCorrelation.  The reports come from    *)
(* two services that share a resource; one report has the highest severity.*)
(***************************************************************************)
EXTENDS AlertCorrelation
CONSTANTS i1, i2, i3, r1, r2, r3, a1, a2, user

MCAuthor   == [r \in Request |-> user]
TwoServices == {<<"auth">>, <<"pay">>, <<"auth", "pay">>, <<"pay", "auth">>}

\* Repetitions alone never raise an alert.
NoThreshold == [s \in 1..3 |-> 9]

\* Three repetitions make an alert P1, two P3.
StepThreshold == [s \in 1..3 |-> IF s = 3 THEN 2 ELSE 3]

Mild   == [print |-> "p1", service |-> "auth", key |-> "s3", severity |-> 4]
Severe == [print |-> "p1", service |-> "auth", key |-> "s3", severity |-> 1]
Other  == [print |-> "p2", service |-> "pay", key |-> "s3", severity |-> 4]

SharedReports == {Mild, Other}
AllReports    == {Mild, Severe, Other}

EngineCalls      == {"ingest", "unassociate", "merge"}
CorrelationCalls == {"ingest", "associate", "unassociate", "merge"}

\* From incidents of one service each, of which the merges make the others.
InitOneServiceEach ==
  InitCorrelation /\ \A i \in DOMAIN incidents : Len(incidents[i].services) = 1

SpecOneServiceEach == InitOneServiceEach /\ [][NextCorrelation]_allVars

\* From incidents of the one service that two of the reports name.
InitOneService ==
  InitCorrelation /\ \A i \in DOMAIN incidents : incidents[i].services = <<"auth">>

SpecOneService == InitOneService /\ [][NextCorrelation]_allVars

Symmetric == Permutations(Request) \cup Permutations(Alert)
               \cup Permutations(Incident)
=============================================================================
