----------------------------- MODULE MCLiveView -----------------------------
(***************************************************************************)
(* Values for the constants of LiveView.                                   *)
(***************************************************************************)
EXTENDS LiveView
CONSTANTS c1, c2, f1, f2, p1

Pages == {"detail", "overview", "queue", "alerts"}

\* One kind for each way a page learns of a change: a patch, an item added to
\* a list, a reload of the detail.
PatchAddReload == {"update", "comment", "complete"}
=============================================================================
