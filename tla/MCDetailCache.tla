--------------------------- MODULE MCDetailCache ---------------------------
(***************************************************************************)
(* Values for the constants of DetailCache.                                *)
(***************************************************************************)
EXTENDS DetailCache
CONSTANTS c1, f1

\* The plans of different shape; each other one differs from one of them in
\* its events, or in which part it saves.
Shapes == {"create", "status", "merge", "correlate", "escalate", "unassociate",
           "failJob", "approve"}
=============================================================================
