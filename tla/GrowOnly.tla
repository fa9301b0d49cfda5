------------------------------ MODULE GrowOnly ------------------------------
(***************************************************************************)
(* What the state-based replication of mercury-crdt promises, whatever the *)
(* data type: an item comes into being on the replica that owns it, others *)
(* learn only items that exist, and none forgets an item.                  *)
(***************************************************************************)
CONSTANTS
  Nodes,
  Owner(_)   \* the replica on which an item is created
VARIABLE known   \* known[n]: the items replica n holds

Everywhere == UNION {known[n] : n \in Nodes}

Init == known = [n \in Nodes |-> {}]

\* n creates an item that no replica holds.
Issue(n) ==
  \E item \in known'[n] \ Everywhere :
    /\ Owner(item) = n
    /\ known' = [known EXCEPT ![n] = @ \cup {item}]

\* n receives, in one step, any of the items that the replicas hold.
Learn(n) ==
  \E items \in SUBSET Everywhere :
    known' = [known EXCEPT ![n] = @ \cup items]

Next == \E n \in Nodes : Issue(n) \/ Learn(n)

Spec == Init /\ [][Next]_known

=============================================================================
