----------------------------- MODULE MCProvider -----------------------------
(***************************************************************************)
(* Values for the constants of Provider and Investigation: one             *)
(* investigation, whose two jobs share one slot of the worker unless one   *)
(* of them runs in the process.                                            *)
(***************************************************************************)
EXTENDS Provider
CONSTANTS i1, r1, v1, j1, j2, op, adm

MCAuthor   == [r \in Request |-> adm]
MCServices == {<<"auth">>}
TaskOrNone == {None, [type |-> "CREATE_TASK", value |-> "check logs"]}
=============================================================================
