----------------------------- MODULE LinkLists -----------------------------
(***************************************************************************)
(* What the related-incident lists promise, whatever handlers overlap: a   *)
(* list changes by one link at a time, and each change applies to the list *)
(* as it stands at that moment, so no link is lost or brought back by a    *)
(* handler that decided on an older copy.  No incident links to itself.    *)
(***************************************************************************)
CONSTANT Incident
VARIABLE link      \* a function from the stored incidents to sets of them

Init == \E D \in SUBSET Incident : link = [i \in D |-> {}]

\* A new incident has no links.
New(i) ==
  /\ i \notin DOMAIN link
  /\ link' = [j \in DOMAIN link \cup {i} |-> IF j = i THEN {} ELSE link[j]]

Add(i, j) ==
  /\ i # j
  /\ link' = [link EXCEPT ![i] = @ \cup {j}]

Drop(i, j) == link' = [link EXCEPT ![i] = @ \ {j}]

Next == \/ \E i \in Incident : New(i)
        \/ \E i, j \in DOMAIN link : Add(i, j) \/ Drop(i, j)

Spec == Init /\ [][Next]_link
=============================================================================
