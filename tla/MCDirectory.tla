---------------------------- MODULE MCDirectory ----------------------------
(***************************************************************************)
(* Values for the constants of Directory.                                  *)
(***************************************************************************)
EXTENDS Directory, TLC
CONSTANTS u1, u2, u3, t1, t2, d1, d2, api, web, db

OwnDesks == d1 :> u1 @@ d2 :> u2

\* Two admins, one of them in a team that the other leads.
TwoAdmins == [u \in {u1, u2} |->
  [active |-> TRUE, role |-> "ADMIN", team |-> IF u = u2 THEN t1 ELSE None, secret |-> None]]
OneTeam == [t \in {t1} |-> [archived |-> FALSE, lead |-> u1, services |-> api, ver |-> 0]]
=============================================================================
