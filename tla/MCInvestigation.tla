-------------------------- MODULE MCInvestigation --------------------------
(***************************************************************************)
(* Values for the constants of Investigation: one incident, and proposals  *)
(* of every kind of action.                                                *)
(***************************************************************************)
EXTENDS Investigation, TLC
CONSTANTS i1, r1, r2, r3, v1, v2, j1, j2, op, adm

MCAuthor   == [r \in Request |-> IF r = r1 THEN op ELSE adm]
OneAuthor  == [r \in Request |-> op]
MCServices == {<<"auth">>}

Resolve   == [type |-> "CHANGE_STATUS", value |-> "RESOLVED"]
Raise     == [type |-> "CHANGE_SEVERITY", value |-> 1]
Hand      == [type |-> "ASSIGN_INCIDENT", value |-> op]
Check     == [type |-> "CREATE_TASK", value |-> "check logs"]

LastingProposals == {None, Raise, Hand, Check}
TwoProposals     == {None, Resolve, Check}

ReviewAndStatus == {"approve", "reject", "status"}

\* Who calls makes no difference to an investigate or approve call.
Interchangeable ==
  Permutations(Job) \cup Permutations(Investigation) \cup Permutations(Request)
=============================================================================
