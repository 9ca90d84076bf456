---------------------------- MODULE MCIncidents ----------------------------
(***************************************************************************)
(* Values for the constants of Incidents.  Two users, an operator and an   *)
(* administrator; the first call is always the operator's.                 *)
(***************************************************************************)
EXTENDS Incidents, TLC
CONSTANTS i1, i2, i3, r1, r2, r3, op, adm

MCAuthor   == [r \in Request |-> IF r = r1 THEN op ELSE adm]
MCServices == {<<"auth">>}
AllCalls   == {"create", "status", "severity", "assign", "update",
               "relate", "unrelate"}

Interchangeable == Permutations(Incident)
=============================================================================
