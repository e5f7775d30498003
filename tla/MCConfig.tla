------------------------------- MODULE MCConfig -------------------------------
(* Two targets, two or three hosts, two groups, two subsystems, ports with   *)
(* two addresses, a device and a device the machine does not have.           *)
EXTENDS Restful

CONSTANTS a1, a2, t1, t2, t3, h1, h2, h3, n1, n2, g1, g2, s1, s2, ip1, ip2, d1, d2,
          unwritten

Sub(nqn, access, nsids, hosts) ==
    [nqn |-> nqn, access |-> access, nsids |-> nsids, hosts |-> hosts]
BootHosts == <<[alias |-> h1, nqn |-> n1], [alias |-> h2, nqn |-> n2]>>

\* Two targets of local management, one in a group.
LocalTargets ==
    [groups  |-> <<[name |-> g1, hosts |-> <<h1>>, targets |-> <<t1>>]>>,
     hosts   |-> BootHosts,
     targets |-> <<[NewTarget(t1) EXCEPT
                       !.subsystems = <<Sub(s1, "any", <<>>, <<>>)>>],
                   [NewTarget(t2) EXCEPT
                       !.subsystems = <<Sub(s1, "restricted", <<>>, <<h1>>)>>]>>]

\* One target that dem manages.
OneTarget(mode) ==
    [groups  |-> <<>>,
     hosts   |-> BootHosts,
     targets |-> <<[NewTarget(t1) EXCEPT
                      !.mode = mode,
                      !.iface = TRUE,
                      !.portids = <<[id |-> 1, addr |-> ip1]>>,
                      !.subsystems = <<Sub(s1, "restricted",
                                           <<[id |-> 1, dev |-> d1]>>, <<h1>>)>>]>>]

OneDevice == <<d1>>

NoFaults   == {NoFault}
Resends    == {NoFault} \cup {[kind |-> "twice", at |-> k] : k \in 1..4}
AnyFault   == {NoFault} \cup [kind : {"lost", "unanswered"}, at : {1}]
                        \cup [kind : {"lost", "down"}, at : {2}]
LateFaults == {NoFault, [kind |-> "down", at |-> 3]} \cup [kind : {"lost"}, at : 1..6]

\* Members of groups come and go, and hosts are allowed and denied.
Members ==
    {Cl!add_group(g2)}
    \cup {Cl!link_target(t, g) : t \in {t1, t2}, g \in {g1, g2}}
    \cup {Cl!unlink_target(t, g) : t \in {t1, t2}, g \in {g1, g2}}
    \cup {Cl!link_host(h, g) : h \in {h1, h2}, g \in {g1, g2}}
    \cup {Cl!rename_target(t1, t3), Cl!rename_target(t3, t1)}
    \cup {Cl!set_acl(t2, s1, h) : h \in {h1, h2}}
    \cup {Cl!del_acl(t2, s1, h) : h \in {h1, h2}}

\* Subsystems, namespaces and ports come and go.
Build == {Cl!add_subsys(t1, s2), Cl!set_subsys(t1, s2, "restricted"),
          Cl!del_subsys(t1, s1), Cl!del_subsys(t1, s2),
          Cl!set_ns(t1, s1, 1, d1), Cl!set_ns(t1, s2, 2, d1),
          Cl!del_ns(t1, s1, 1), Cl!del_ns(t1, s2, 2),
          Cl!set_portid(t1, 1, ip1), Cl!set_portid(t1, 1, ip2),
          Cl!set_portid(t1, 2, ip2), Cl!del_portid(t1, 1),
          Cl!reconfig_target(t1)}

\* Hosts are allowed and denied.
Access == {Cl!set_acl(t1, s1, h) : h \in {h1, h2}}
          \cup {Cl!del_acl(t1, s1, h) : h \in {h1, h2}}
          \cup {Cl!add_subsys(t1, s2), Cl!del_subsys(t1, s2),
                Cl!set_ns(t1, s2, 2, d1), Cl!reconfig_target(t1)}

\* Few commands, for the scenarios in which messages get lost.
Few == {Cl!set_subsys(t1, s2, "restricted"), Cl!del_subsys(t1, s2),
        Cl!set_portid(t1, 1, ip2), Cl!reconfig_target(t1)}
Reconfig == {Cl!set_acl(t1, s1, h2), Cl!del_ns(t1, s1, 1), Cl!reconfig_target(t1)}

\* Targets and hosts come, change and go.
Lifecycle == {Cl!add_target(t2), Cl!set_target(t2), Cl!del_target(t2),
              Cl!rename_target(t1, t2), Cl!rename_target(t2, t1),
              Cl!set_inb_mgmt(t1), Cl!set_local_mgmt(t1),
              Cl!add_subsys(t2, s2), Cl!set_acl(t2, s2, h2),
              Cl!add_host(h3), Cl!set_host(h3, n2), Cl!edit_host(h1, n2),
              Cl!del_host(h3), Cl!refresh_target(t2)}
             \cup {[req EXCEPT !.method = "POST"] :
                       req \in {Cl!edit_host(h1, n2), Cl!edit_subsys(t2, s2, "any")}}

Scenario(boot, requests, faults) ==
    [boot |-> boot, requests |-> requests, faults |-> faults]

AllScenarios ==
    [members   |-> Scenario(LocalTargets, Members, NoFaults),
     build     |-> Scenario(OneTarget("inb"), Build, Resends),
     build_oob |-> Scenario(OneTarget("oob"), Build, NoFaults),
     access    |-> Scenario(OneTarget("inb"), Access, Resends),
     few       |-> Scenario(OneTarget("inb"), Few \cup {Cl!set_acl(t1, s2, h2)}, AnyFault),
     few_oob   |-> Scenario(OneTarget("oob"), Few \cup {Cl!add_subsys(t1, s2)}, AnyFault),
     reconfig  |-> Scenario(OneTarget("inb"), Reconfig, LateFaults),
     lifecycle |-> Scenario(OneTarget("inb"), Lifecycle, NoFaults)]

\* Nothing depends on which address a target has.
Symmetry == Permutations(Addresses)
===============================================================================
