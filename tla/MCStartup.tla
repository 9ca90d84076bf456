----------------------------- MODULE MCStartup -----------------------------
(***************************************************************************)
(* Values for the constants of Startup.                                    *)
(***************************************************************************)
EXTENDS Startup, TLC
CONSTANTS p1, p2, o1, o2, s1, s2, n1

TwoSeeded == <<s1, s2>>
TwoOld == <<o1, o2>>

\* One or two incidents; at most one has its services in the old fields.
Form(services, key) == [number |-> 0, services |-> services, key |-> key]
OneOrTwo ==
  {o1 :> Form("old", FALSE),
   o1 :> Form("old", FALSE) @@ o2 :> Form("list", FALSE),
   o1 :> Form("list", FALSE) @@ o2 :> Form("list", TRUE),
   o1 :> Form("list", TRUE) @@ o2 :> Form("list", TRUE)}
=============================================================================
