--------------------------- MODULE MCDiscoveryQueues ---------------------------
(* Two subsystems, two ports, three nqns of hosts. *)
EXTENDS DiscoveryQueues

CONSTANTS s1, s2, p1, p2, h1, h2, h3

TwoSubs  == <<[nqn |-> s1, open |-> FALSE, hosts |-> <<h1>>],
              [nqn |-> s2, open |-> TRUE, hosts |-> <<>>]>>
TwoPorts == <<p1, p2>>

\* Subsystems and their hosts change; hosts and ports change; the machine goes
\* out of reach; subsystems are set again, with another access too, and deleted
\* (two of the hosts are enough there, and keep the run short).
MCOpSets == {{"add", "del", "host", "refresh", "restart", h1, h2, h3},
             {"port", h1, h2, h3},
             {"refresh", "fail", h1, h2, h3},
             {"edit", "del", h1, h2},
             {"edit", "del", "port"}}
================================================================================
