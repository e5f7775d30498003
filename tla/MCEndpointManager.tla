-------------------------- MODULE MCEndpointManager --------------------------
(* One thread, two subsystems, a host, a port, two addresses, two devices.  *)
EXTENDS EndpointManager

CONSTANTS s1, s2, h1, p1, n1, a1, a2, d1, d2, home

MCHome == <<home>>
==============================================================================
