------------------------------- MODULE Configfs -------------------------------
(***************************************************************************)
(* The nvmet tree of a target machine and the operations of                *)
(* endpoint/configfs.c on it.  Each operation is an operator from an old   *)
(* tree to the new one and a status; EndpointManager.tla takes the same    *)
(* operations apart into the system calls they are made of.                *)
(*                                                                         *)
(* A directory, an attribute or a symbolic link is an element of a set:    *)
(*   subsys   subsystems            any      those with allow_any_host 1   *)
(*   ns       <<nqn, nsid, device>> allowed  <<nqn, host nqn>>, a link     *)
(*   ports    <<id, address>>       links    <<id, nqn>>, a link           *)
(*   hosts    host nqns                                                    *)
(* The tree itself belongs to the kernel.  What the code relies on is      *)
(* modelled: a directory with a link to it or in it is not removed, a link *)
(* needs what it points at, the address of a port with a subsystem cannot  *)
(* be written (which is why create_portid reads it back), and neither can  *)
(* the device of a namespace that is enabled (create_ns does not look).    *)
(* What the kernel refuses beyond that is not.                             *)
(***************************************************************************)
EXTENDS Naturals, Sequences, FiniteSets

EmptyTree == [subsys |-> {}, any |-> {}, ns |-> {}, allowed |-> {},
              ports |-> {}, links |-> {}, hosts |-> {}]

\* The address or the device of a directory just made.
Unset == "unset"

PortIds(t) == {p[1] : p \in t.ports}
InUse(t, id) == \E l \in t.links : l[1] = id
Enabled(t, s, nsid) == \E n \in t.ns : n[1] = s /\ n[2] = nsid /\ n[3] # Unset

Ok(t)     == [tree |-> t, ok |-> TRUE]
Refuse(t) == [tree |-> t, ok |-> FALSE]

\* Every directory and link below the subsystem, and the links of the ports
\* to it.  The status is 0 whatever happens.
delete_subsys(t, s) ==
    Ok([t EXCEPT !.subsys  = @ \ {s},
                 !.any     = @ \ {s},
                 !.ns      = {n \in @ : n[1] # s},
                 !.allowed = {a \in @ : a[1] # s},
                 !.links   = {l \in @ : l[2] # s}])

\* Mutated: a subsystem that exists already is an error.
CreateSubsysOnce(t, s, allowany) ==
    IF s \in t.subsys THEN Refuse(t)
    ELSE Ok([t EXCEPT !.subsys = @ \cup {s},
                      !.any    = IF allowany THEN @ \cup {s} ELSE @ \ {s}])

create_subsys(t, s, allowany) ==
    Ok([t EXCEPT !.subsys = @ \cup {s},
                 !.any    = IF allowany THEN @ \cup {s} ELSE @ \ {s}])

\* The device is written whether or not the namespace was there, and what the
\* write did is not looked at.
create_ns(t, s, nsid, dev) ==
    IF s \notin t.subsys THEN Refuse(t)
    ELSE IF Enabled(t, s, nsid) THEN Ok(t)
    ELSE Ok([t EXCEPT !.ns = {n \in @ : n[1] # s \/ n[2] # nsid}
                               \cup {<<s, nsid, dev>>}])

delete_ns(t, s, nsid) ==
    Ok([t EXCEPT !.ns = {n \in @ : n[1] # s \/ n[2] # nsid}])

create_host(t, h) == Ok([t EXCEPT !.hosts = @ \cup {h}])

\* rmdir is refused while a subsystem has a link to the host; nobody is told.
delete_host(t, h) ==
    IF \E a \in t.allowed : a[2] = h THEN Ok(t)
    ELSE Ok([t EXCEPT !.hosts = @ \ {h}])

\* The writes are made even if the port exists; what they did is read back.
create_portid(t, id, addr) ==
    IF InUse(t, id)
    THEN IF <<id, addr>> \in t.ports THEN Ok(t) ELSE Refuse(t)
    ELSE Ok([t EXCEPT !.ports = {p \in @ : p[1] # id} \cup {<<id, addr>>}])

\* Mutated: the subsystems stay linked to the port.
DeletePortidOnly(t, id) == Ok([t EXCEPT !.ports = {p \in @ : p[1] # id}])

delete_portid(t, id) ==
    Ok([t EXCEPT !.ports = {p \in @ : p[1] # id},
                 !.links = {l \in @ : l[1] # id}])

link_host_to_subsys(t, s, h) ==
    IF s \notin t.subsys \/ h \notin t.hosts THEN Refuse(t)
    ELSE Ok([t EXCEPT !.allowed = @ \cup {<<s, h>>}])

unlink_host_from_subsys(t, s, h) ==
    Ok([t EXCEPT !.allowed = @ \ {<<s, h>>}])

link_port_to_subsys(t, s, id) ==
    IF s \notin t.subsys \/ id \notin PortIds(t) THEN Refuse(t)
    ELSE Ok([t EXCEPT !.links = @ \cup {<<id, s>>}])

unlink_port_from_subsys(t, s, id) ==
    Ok([t EXCEPT !.links = @ \ {<<id, s>>}])

\* Every subsystem, then every port, then every host.
reset_config(t) == Ok(EmptyTree)
===============================================================================
