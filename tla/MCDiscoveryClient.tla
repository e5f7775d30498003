-------------------------- MODULE MCDiscoveryClient --------------------------
(* The followed discovery log, for TLC. *)
EXTENDS DiscoveryClient

\* A change of the log may or may not change its number of records.
MCNumRec == [v \in Version |-> IF v = 0 THEN 1 ELSE 2]
=============================================================================
