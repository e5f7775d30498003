------------------------------ MODULE MCEventList ------------------------------
(* Two interfaces with a host each, and memory for their requests. *)
EXTENDS EventList, TLC

CONSTANTS t1, t2, h1, h2, n1, n2, n3, n4

OneEach == [h \in Host |-> IF h = h1 THEN t1 ELSE t2]

\* Nothing is promised once the list is broken: no step is taken from there.
Intact == "list" \notin raced

\* The nodes are alike.
Symmetry == Permutations(Node)
================================================================================
