---------------------------- MODULE EndpointProofs ----------------------------
(***************************************************************************)
(* The in-band commands of dem-em, for every tree and every command, and   *)
(* the operations of configfs.c as sequences of system calls: one at a     *)
(* time they do what the operators of Configfs.tla say.                    *)
(***************************************************************************)
EXTENDS Endpoint, EndpointManager, TLAPS

IsTree(t) ==
    t = [subsys |-> t.subsys, any |-> t.any, ns |-> t.ns, allowed |-> t.allowed,
         ports |-> t.ports, links |-> t.links, hosts |-> t.hosts]

\* What the kernel guarantees of the tree: what is open, has a namespace or is
\* linked is there, a link is a pair of names, and a port has one address.
Sound(t) ==
    /\ t.any \subseteq t.subsys
    /\ \A n \in t.ns : n[1] \in t.subsys
    /\ \A a \in t.allowed : a = <<a[1], a[2]>> /\ a[1] \in t.subsys /\ a[2] \in t.hosts
    /\ \A l \in t.links : l = <<l[1], l[2]>> /\ l[1] \in PortIds(t) /\ l[2] \in t.subsys
    /\ \A p, q \in t.ports : p[1] = q[1] => p = q

-----------------------------------------------------------------------------
(* Each operation a second time.                                            *)

LEMMA SubsysTwice ==
    ASSUME NEW t, IsTree(t), NEW s, NEW any
    PROVE  /\ create_subsys(create_subsys(t, s, any).tree, s, any) = create_subsys(t, s, any)
           /\ delete_subsys(delete_subsys(t, s).tree, s) = delete_subsys(t, s)
<1>1. create_subsys(create_subsys(t, s, any).tree, s, any) = create_subsys(t, s, any)
  BY DEF IsTree, create_subsys, Ok
<1>2. delete_subsys(delete_subsys(t, s).tree, s) = delete_subsys(t, s)
  <2> DEFINE u == delete_subsys(t, s).tree
             v == delete_subsys(u, s).tree
  <2>1. /\ IsTree(u)
        /\ u.subsys = t.subsys \ {s} /\ u.any = t.any \ {s}
        /\ u.ns = {n \in t.ns : n[1] # s}
        /\ u.allowed = {a \in t.allowed : a[1] # s}
        /\ u.links = {l \in t.links : l[2] # s}
    BY DEF IsTree, delete_subsys, Ok
  <2>2. /\ IsTree(v)
        /\ v.subsys = u.subsys \ {s} /\ v.any = u.any \ {s}
        /\ v.ns = {n \in u.ns : n[1] # s}
        /\ v.allowed = {a \in u.allowed : a[1] # s}
        /\ v.links = {l \in u.links : l[2] # s}
        /\ v.ports = u.ports /\ v.hosts = u.hosts
    BY <2>1, ZenonT(40) DEF IsTree, delete_subsys, Ok
  <2> HIDE DEF u, v
  <2>3. v.subsys = u.subsys /\ v.any = u.any /\ v.ns = u.ns
    BY <2>1, <2>2
  <2>4. v.allowed = u.allowed /\ v.links = u.links
    BY <2>1, <2>2
  <2>5. v = u
    BY <2>1, <2>2, <2>3, <2>4 DEF IsTree
  <2>6. delete_subsys(u, s) = Ok(v) /\ delete_subsys(t, s) = Ok(u)
    BY DEF delete_subsys, Ok, u, v
  <2> QED BY <2>5, <2>6 DEF u
<1> QED BY <1>1, <1>2

LEMMA NsTwice ==
    ASSUME NEW t, IsTree(t), NEW s, NEW n, NEW d
    PROVE  /\ create_ns(create_ns(t, s, n, d).tree, s, n, d) = create_ns(t, s, n, d)
           /\ delete_ns(delete_ns(t, s, n).tree, s, n) = delete_ns(t, s, n)
<1>1. create_ns(create_ns(t, s, n, d).tree, s, n, d) = create_ns(t, s, n, d)
  <2>1. CASE s \notin t.subsys \/ Enabled(t, s, n)
    BY <2>1 DEF create_ns, Ok, Refuse
  <2>2. CASE s \in t.subsys /\ ~Enabled(t, s, n)
    BY <2>2 DEF IsTree, create_ns, Enabled, Ok
  <2> QED BY <2>1, <2>2
<1>2. delete_ns(delete_ns(t, s, n).tree, s, n) = delete_ns(t, s, n)
  BY DEF IsTree, delete_ns, Ok
<1> QED BY <1>1, <1>2

LEMMA HostTwice ==
    ASSUME NEW t, IsTree(t), NEW h
    PROVE  /\ create_host(create_host(t, h).tree, h) = create_host(t, h)
           /\ delete_host(delete_host(t, h).tree, h) = delete_host(t, h)
<1>1. create_host(create_host(t, h).tree, h) = create_host(t, h)
  BY DEF IsTree, create_host, Ok
<1>2. delete_host(delete_host(t, h).tree, h) = delete_host(t, h)
  BY DEF IsTree, delete_host, Ok
<1> QED BY <1>1, <1>2

LEMMA PortidTwice ==
    ASSUME NEW t, IsTree(t), NEW id, NEW addr
    PROVE  /\ create_portid(create_portid(t, id, addr).tree, id, addr)
                = create_portid(t, id, addr)
           /\ delete_portid(delete_portid(t, id).tree, id) = delete_portid(t, id)
<1>1. create_portid(create_portid(t, id, addr).tree, id, addr) = create_portid(t, id, addr)
  BY DEF IsTree, create_portid, InUse, Ok, Refuse
<1>2. delete_portid(delete_portid(t, id).tree, id) = delete_portid(t, id)
  BY DEF IsTree, delete_portid, Ok
<1> QED BY <1>1, <1>2

LEMMA LinkTwice ==
    ASSUME NEW t, IsTree(t), NEW s, NEW h, NEW id
    PROVE  /\ link_host_to_subsys(link_host_to_subsys(t, s, h).tree, s, h)
                = link_host_to_subsys(t, s, h)
           /\ unlink_host_from_subsys(unlink_host_from_subsys(t, s, h).tree, s, h)
                = unlink_host_from_subsys(t, s, h)
           /\ link_port_to_subsys(link_port_to_subsys(t, s, id).tree, s, id)
                = link_port_to_subsys(t, s, id)
           /\ unlink_port_from_subsys(unlink_port_from_subsys(t, s, id).tree, s, id)
                = unlink_port_from_subsys(t, s, id)
<1>1. link_host_to_subsys(link_host_to_subsys(t, s, h).tree, s, h) = link_host_to_subsys(t, s, h)
  BY DEF IsTree, link_host_to_subsys, Ok, Refuse
<1>2. unlink_host_from_subsys(unlink_host_from_subsys(t, s, h).tree, s, h)
        = unlink_host_from_subsys(t, s, h)
  BY DEF IsTree, unlink_host_from_subsys, Ok
<1>3. link_port_to_subsys(link_port_to_subsys(t, s, id).tree, s, id)
        = link_port_to_subsys(t, s, id)
  BY DEF IsTree, link_port_to_subsys, PortIds, Ok, Refuse
<1>4. unlink_port_from_subsys(unlink_port_from_subsys(t, s, id).tree, s, id)
        = unlink_port_from_subsys(t, s, id)
  BY DEF IsTree, unlink_port_from_subsys, Ok
<1> QED BY <1>1, <1>2, <1>3, <1>4

-----------------------------------------------------------------------------

\* A command that is carried out a second time leaves the tree as the first time
\* left it, and is answered the same: _send_set_config of dem may send again a
\* command that it has no answer to.
THEOREM ResendSame ==
    ASSUME NEW t, IsTree(t), NEW c
    PROVE  handle_mi_send(handle_mi_send(t, c).tree, c) = handle_mi_send(t, c)
<1>1. CASE c[1] \in {"set_subsys", "del_subsys"}
  BY <1>1, SubsysTwice DEF handle_mi_send, mi_set_subsys, mi_del_subsys
<1>2. CASE c[1] \in {"set_ns", "del_ns"}
  BY <1>2, NsTwice DEF handle_mi_send, mi_set_ns, mi_del_ns
<1>3. CASE c[1] \in {"set_host", "del_host"}
  BY <1>3, HostTwice DEF handle_mi_send, mi_set_host, mi_del_host
<1>4. CASE c[1] \in {"set_port", "del_port"}
  BY <1>4, PortidTwice DEF handle_mi_send, mi_set_portid, mi_del_portid
<1>5. CASE c[1] \in {"link_host", "unlink_host", "link_port", "unlink_port"}
  BY <1>5, LinkTwice DEF handle_mi_send, mi_link_host, mi_unlink_host,
                         mi_link_portid, mi_unlink_portid
<1>6. CASE c[1] = "reset_config"
  BY <1>6 DEF handle_mi_send, reset_config
<1>7. CASE c[1] \notin {"set_subsys", "del_subsys", "set_ns", "del_ns", "set_host",
                        "del_host", "set_port", "del_port", "link_host", "unlink_host",
                        "link_port", "unlink_port", "reset_config"}
  BY <1>7 DEF handle_mi_send, Refuse
<1> QED BY <1>1, <1>2, <1>3, <1>4, <1>5, <1>6, <1>7

-----------------------------------------------------------------------------
(* Every operation keeps the tree sound.                                    *)

\* The result of an operation.
Good(r) == IsTree(r.tree) /\ Sound(r.tree)

LEMMA OperationsKeepSound ==
    ASSUME NEW t, IsTree(t), Sound(t)
    PROVE  /\ \A s, any : Good(create_subsys(t, s, any))
           /\ \A s : Good(delete_subsys(t, s))
           /\ \A s, n, d : Good(create_ns(t, s, n, d))
           /\ \A s, n : Good(delete_ns(t, s, n))
           /\ \A h : Good(create_host(t, h)) /\ Good(delete_host(t, h))
           /\ \A id, addr : Good(create_portid(t, id, addr))
           /\ \A id : Good(delete_portid(t, id))
           /\ \A s, h : Good(link_host_to_subsys(t, s, h))
           /\ \A s, h : Good(unlink_host_from_subsys(t, s, h))
           /\ \A s, id : Good(link_port_to_subsys(t, s, id))
           /\ \A s, id : Good(unlink_port_from_subsys(t, s, id))
           /\ Good(reset_config(t)) /\ Good(Refuse(t)) /\ Good(Ok(t))
<1>1. ASSUME NEW s, NEW any
      PROVE  Good(create_subsys(t, s, any))
  <2> DEFINE u == create_subsys(t, s, any).tree
  <2>1. /\ IsTree(u)
        /\ u.subsys = t.subsys \cup {s}
        /\ u.any = IF any THEN t.any \cup {s} ELSE t.any \ {s}
        /\ u.ns = t.ns
        /\ u.allowed = t.allowed
        /\ u.ports = t.ports
        /\ u.links = t.links
        /\ u.hosts = t.hosts
    BY DEF IsTree, create_subsys, Ok
  <2> HIDE DEF u
  <2>2. PortIds(u) = PortIds(t)
    BY <2>1 DEF PortIds
  <2> QED BY <2>1, <2>2 DEF Good, Sound, u
<1>2. ASSUME NEW s
      PROVE  Good(delete_subsys(t, s))
  <2> DEFINE u == delete_subsys(t, s).tree
  <2>1. /\ IsTree(u)
        /\ u.subsys = t.subsys \ {s}
        /\ u.any = t.any \ {s}
        /\ u.ns = {n \in t.ns : n[1] # s}
        /\ u.allowed = {a \in t.allowed : a[1] # s}
        /\ u.ports = t.ports
        /\ u.links = {l \in t.links : l[2] # s}
        /\ u.hosts = t.hosts
    BY DEF IsTree, delete_subsys, Ok
  <2> HIDE DEF u
  <2>2. PortIds(u) = PortIds(t)
    BY <2>1 DEF PortIds
  <2> QED BY <2>1, <2>2 DEF Good, Sound, u
<1>3a. ASSUME NEW s, NEW n, NEW d, s \in t.subsys, ~Enabled(t, s, n)
      PROVE  Good(create_ns(t, s, n, d))
  <2> DEFINE u == create_ns(t, s, n, d).tree
  <2>1. /\ IsTree(u)
        /\ u.subsys = t.subsys
        /\ u.any = t.any
        /\ u.ns = {m \in t.ns : m[1] # s \/ m[2] # n} \cup {<<s, n, d>>}
        /\ u.allowed = t.allowed
        /\ u.ports = t.ports
        /\ u.links = t.links
        /\ u.hosts = t.hosts
    BY <1>3a DEF IsTree, create_ns, Ok
  <2> HIDE DEF u
  <2>2. PortIds(u) = PortIds(t)
    BY <2>1 DEF PortIds
  <2> QED BY <1>3a, <2>1, <2>2 DEF Good, Sound, u
<1>3b. ASSUME NEW s, NEW n
      PROVE  Good(delete_ns(t, s, n))
  <2> DEFINE u == delete_ns(t, s, n).tree
  <2>1. /\ IsTree(u)
        /\ u.subsys = t.subsys
        /\ u.any = t.any
        /\ u.ns = {m \in t.ns : m[1] # s \/ m[2] # n}
        /\ u.allowed = t.allowed
        /\ u.ports = t.ports
        /\ u.links = t.links
        /\ u.hosts = t.hosts
    BY DEF IsTree, delete_ns, Ok
  <2> HIDE DEF u
  <2>2. PortIds(u) = PortIds(t)
    BY <2>1 DEF PortIds
  <2> QED BY <2>1, <2>2 DEF Good, Sound, u
<1>4a. ASSUME NEW h
      PROVE  Good(create_host(t, h))
  <2> DEFINE u == create_host(t, h).tree
  <2>1. /\ IsTree(u)
        /\ u.subsys = t.subsys
        /\ u.any = t.any
        /\ u.ns = t.ns
        /\ u.allowed = t.allowed
        /\ u.ports = t.ports
        /\ u.links = t.links
        /\ u.hosts = t.hosts \cup {h}
    BY DEF IsTree, create_host, Ok
  <2> HIDE DEF u
  <2>2. PortIds(u) = PortIds(t)
    BY <2>1 DEF PortIds
  <2> QED BY <2>1, <2>2 DEF Good, Sound, u
<1>4b. ASSUME NEW h, ~\E a \in t.allowed : a[2] = h
      PROVE  Good(delete_host(t, h))
  <2> DEFINE u == delete_host(t, h).tree
  <2>1. /\ IsTree(u)
        /\ u.subsys = t.subsys
        /\ u.any = t.any
        /\ u.ns = t.ns
        /\ u.allowed = t.allowed
        /\ u.ports = t.ports
        /\ u.links = t.links
        /\ u.hosts = t.hosts \ {h}
    BY <1>4b DEF IsTree, delete_host, Ok
  <2> HIDE DEF u
  <2>2. PortIds(u) = PortIds(t)
    BY <2>1 DEF PortIds
  <2> QED BY <1>4b, <2>1, <2>2 DEF Good, Sound, u
<1>5. ASSUME NEW id, NEW addr, ~InUse(t, id)
      PROVE  Good(create_portid(t, id, addr))
  <2> DEFINE u == create_portid(t, id, addr).tree
  <2>1. /\ IsTree(u)
        /\ u.subsys = t.subsys
        /\ u.any = t.any
        /\ u.ns = t.ns
        /\ u.allowed = t.allowed
        /\ u.ports = {p \in t.ports : p[1] # id} \cup {<<id, addr>>}
        /\ u.links = t.links
        /\ u.hosts = t.hosts
    BY <1>5 DEF IsTree, create_portid, Ok
  <2> HIDE DEF u
  <2>2. PortIds(u) = PortIds(t) \cup {id}
    <3>1. \A p \in u.ports : p[1] = id \/ p \in t.ports
      BY <2>1
    <3>2. \A p \in t.ports : p[1] # id => p \in u.ports
      BY <2>1
    <3>3. \E p \in u.ports : p[1] = id
      <4>1. <<id, addr>> \in u.ports /\ <<id, addr>>[1] = id
        BY <2>1
      <4> QED BY <4>1
    <3> QED BY <3>1, <3>2, <3>3 DEF PortIds
  <2> QED BY <1>5, <2>1, <2>2 DEF Good, Sound, u
<1>6. ASSUME NEW id
      PROVE  Good(delete_portid(t, id))
  <2> DEFINE u == delete_portid(t, id).tree
  <2>1. /\ IsTree(u)
        /\ u.subsys = t.subsys
        /\ u.any = t.any
        /\ u.ns = t.ns
        /\ u.allowed = t.allowed
        /\ u.ports = {p \in t.ports : p[1] # id}
        /\ u.links = {l \in t.links : l[1] # id}
        /\ u.hosts = t.hosts
    BY DEF IsTree, delete_portid, Ok
  <2> HIDE DEF u
  <2>2. PortIds(u) = PortIds(t) \ {id}
    BY <2>1 DEF PortIds
  <2> QED BY <2>1, <2>2 DEF Good, Sound, u
<1>7a. ASSUME NEW s, NEW h, s \in t.subsys, h \in t.hosts
      PROVE  Good(link_host_to_subsys(t, s, h))
  <2> DEFINE u == link_host_to_subsys(t, s, h).tree
  <2>1. /\ IsTree(u)
        /\ u.subsys = t.subsys
        /\ u.any = t.any
        /\ u.ns = t.ns
        /\ u.allowed = t.allowed \cup {<<s, h>>}
        /\ u.ports = t.ports
        /\ u.links = t.links
        /\ u.hosts = t.hosts
    BY <1>7a DEF IsTree, link_host_to_subsys, Ok
  <2> HIDE DEF u
  <2>2. PortIds(u) = PortIds(t)
    BY <2>1 DEF PortIds
  <2> QED BY <1>7a, <2>1, <2>2 DEF Good, Sound, u
<1>7b. ASSUME NEW s, NEW h
      PROVE  Good(unlink_host_from_subsys(t, s, h))
  <2> DEFINE u == unlink_host_from_subsys(t, s, h).tree
  <2>1. /\ IsTree(u)
        /\ u.subsys = t.subsys
        /\ u.any = t.any
        /\ u.ns = t.ns
        /\ u.allowed = t.allowed \ {<<s, h>>}
        /\ u.ports = t.ports
        /\ u.links = t.links
        /\ u.hosts = t.hosts
    BY DEF IsTree, unlink_host_from_subsys, Ok
  <2> HIDE DEF u
  <2>2. PortIds(u) = PortIds(t)
    BY <2>1 DEF PortIds
  <2> QED BY <2>1, <2>2 DEF Good, Sound, u
<1>8a. ASSUME NEW s, NEW id, s \in t.subsys, id \in PortIds(t)
      PROVE  Good(link_port_to_subsys(t, s, id))
  <2> DEFINE u == link_port_to_subsys(t, s, id).tree
  <2>1. /\ IsTree(u)
        /\ u.subsys = t.subsys
        /\ u.any = t.any
        /\ u.ns = t.ns
        /\ u.allowed = t.allowed
        /\ u.ports = t.ports
        /\ u.links = t.links \cup {<<id, s>>}
        /\ u.hosts = t.hosts
    BY <1>8a DEF IsTree, link_port_to_subsys, Ok
  <2> HIDE DEF u
  <2>2. PortIds(u) = PortIds(t)
    BY <2>1 DEF PortIds
  <2> QED BY <1>8a, <2>1, <2>2 DEF Good, Sound, u
<1>8b. ASSUME NEW s, NEW id
      PROVE  Good(unlink_port_from_subsys(t, s, id))
  <2> DEFINE u == unlink_port_from_subsys(t, s, id).tree
  <2>1. /\ IsTree(u)
        /\ u.subsys = t.subsys
        /\ u.any = t.any
        /\ u.ns = t.ns
        /\ u.allowed = t.allowed
        /\ u.ports = t.ports
        /\ u.links = t.links \ {<<id, s>>}
        /\ u.hosts = t.hosts
    BY DEF IsTree, unlink_port_from_subsys, Ok
  <2> HIDE DEF u
  <2>2. PortIds(u) = PortIds(t)
    BY <2>1 DEF PortIds
  <2> QED BY <2>1, <2>2 DEF Good, Sound, u
<1>9. Good(reset_config(t)) /\ Good(Refuse(t)) /\ Good(Ok(t))
  BY DEF Good, IsTree, Sound, PortIds, reset_config, EmptyTree, Ok, Refuse
<1>10. \A s, n, d : Good(create_ns(t, s, n, d))
  BY <1>3a, <1>9 DEF create_ns
<1>11. \A h : Good(delete_host(t, h))
  BY <1>4b, <1>9 DEF delete_host
<1>12. \A id, addr : Good(create_portid(t, id, addr))
  BY <1>5, <1>9 DEF create_portid
<1>13. \A s, h : Good(link_host_to_subsys(t, s, h))
  BY <1>7a, <1>9 DEF link_host_to_subsys
<1>14. \A s, id : Good(link_port_to_subsys(t, s, id))
  BY <1>8a, <1>9 DEF link_port_to_subsys
<1> QED BY <1>1, <1>2, <1>3b, <1>4a, <1>6, <1>7b, <1>8b, <1>9, <1>10, <1>11, <1>12, <1>13, <1>14

\* No command leaves a subsystem open, a namespace, a link or a second address
\* of a port where its directory is gone.
THEOREM TreeStaysSound ==
    ASSUME NEW t, IsTree(t), Sound(t), NEW c
    PROVE  IsTree(handle_mi_send(t, c).tree) /\ Sound(handle_mi_send(t, c).tree)
<1>1. Good(handle_mi_send(t, c))
  BY OperationsKeepSound
  DEF handle_mi_send, mi_set_portid, mi_del_portid, mi_set_subsys, mi_del_subsys, mi_set_ns,
      mi_del_ns, mi_set_host, mi_del_host, mi_link_portid, mi_unlink_portid, mi_link_host,
      mi_unlink_host
<1> QED BY <1>1 DEF Good

\* x and then c.
Do(x, c) == <<x>> \o c

IsCode(c) == \E S : c \in Seq(S)

\* The directory that an operation enters, and what it does there before the
\* code goes on with r.
DirOf(op) ==
    CASE op[1] = "delete_subsys" -> <<"subsystems", op[2]>>
      [] op[1] \in {"create_subsys", "create_ns", "delete_ns", "link_host", "unlink_host"} ->
             <<"subsystems">>
      [] op[1] \in {"create_portid", "delete_portid", "link_port", "unlink_port"} -> <<"ports">>
      [] op[1] \in {"create_host", "delete_host"} -> <<"hosts">>
      [] op[1] = "reset_config" -> <<>>

\* What is left of delete_subsys(s) after the hosts, the namespaces, the ports.
Removes(s, r)      == Do(<<"rmdir", <<s>>>>, Do(Back, r))
AfterPorts(s, r)   == Do(<<"chdir_abs", <<"subsystems">>>>, Removes(s, r))
AfterNs(s, r)      == Do(<<"chdir_abs", <<>>>>, Do(<<"opendir_ports", s>>, AfterPorts(s, r)))
AfterHosts(s, r)   == Do(<<"opendir_ns">>, AfterNs(s, r))
\* Of reset_config after the subsystems and the ports.
AfterAllPorts      == Do(<<"opendir_all_hosts">>, Do(Back, <<>>))
AfterSubsystems    == Do(<<"opendir_all_ports">>, AfterAllPorts)

\* The path of a namespace and of a link, from the directory that is entered.
NsPath(s, n)     == <<s, "namespaces", n>>
AllowedPath(s, h) == <<s, "allowed_hosts", h>>
LinkPath(p, s)   == <<p, "subsystems", s>>

BodyOf(op, r) ==
    CASE op[1] = "create_subsys" ->
             Do(<<"mkdir", <<op[2]>>>>, Do(<<"chdir", <<op[2]>>>>,
             Do(<<"write_any", op[3]>>, Do(Back, r))))
      [] op[1] = "delete_subsys" -> Do(<<"opendir_hosts">>, AfterHosts(op[2], r))
      [] op[1] = "create_ns" ->
             Do(<<"mkdir", NsPath(op[2], op[3])>>, Do(<<"chdir", NsPath(op[2], op[3])>>,
             Do(<<"write_dev", op[4]>>, Do(Back, r))))
      [] op[1] = "delete_ns" ->
             Do(<<"chdir_out", NsPath(op[2], op[3])>>, Do(<<"chdir_up", 3>>,
             Do(<<"rmdir", NsPath(op[2], op[3])>>, Do(Back, r))))
      [] op[1] = "create_host" -> Do(<<"mkdir", <<op[2]>>>>, Do(Back, r))
      [] op[1] = "delete_host" -> Do(<<"rmdir", <<op[2]>>>>, Do(Back, r))
      [] op[1] = "create_portid" ->
             Do(<<"mkdir", <<op[2]>>>>, Do(<<"chdir", <<op[2]>>>>,
             Do(<<"write_addr", op[3]>>, Do(<<"read_addr", op[3]>>, Do(Back, r)))))
      [] op[1] = "delete_portid" -> Do(<<"opendir_links", op[2]>>, Removes(op[2], r))
      [] op[1] = "link_host" ->
             Do(<<"symlink", AllowedPath(op[2], op[3]), <<"hosts", op[3]>>>>, Do(Back, r))
      [] op[1] = "unlink_host" -> Do(<<"remove", AllowedPath(op[2], op[3])>>, Do(Back, r))
      [] op[1] = "link_port" ->
             Do(<<"symlink", LinkPath(op[3], op[2]), <<"subsystems", op[2]>>>>, Do(Back, r))
      [] op[1] = "unlink_port" -> Do(<<"remove", LinkPath(op[3], op[2])>>, Do(Back, r))
      [] op[1] = "reset_config" -> Do(<<"opendir_subsystems">>, AfterSubsystems)

-----------------------------------------------------------------------------
(* Where a thread can be in an operation that was called with the tree b    *)
(* and in the directory home, and that is followed by r.  What is left to   *)
(* do gives the same tree from the tree t as the operation from b.          *)

InCreateSubsys(s, any, r, th, t, d) ==
    /\ s \in t.subsys /\ th.ok = TRUE
    /\ \/ /\ th.code = Do(<<"chdir", <<s>>>>, Do(<<"write_any", any>>, Do(Back, r)))
          /\ d = <<"subsystems">>
       \/ /\ th.code = Do(<<"write_any", any>>, Do(Back, r))
          /\ d = <<"subsystems", s>>

InCreateNs(s, n, dev, r, th, t, d) ==
    /\ s \in t.subsys /\ th.ok = TRUE
    /\ \E m \in t.ns : m[1] = s /\ m[2] = n
    /\ \/ /\ th.code = Do(<<"chdir", NsPath(s, n)>>, Do(<<"write_dev", dev>>, Do(Back, r)))
          /\ d = <<"subsystems">>
       \/ /\ th.code = Do(<<"write_dev", dev>>, Do(Back, r))
          /\ d = <<"subsystems", s, "namespaces", n>>

InDeleteNs(s, n, r, th, t, d) ==
    /\ \E m \in t.ns : m[1] = s /\ m[2] = n
    /\ th.ok = TRUE
    /\ \/ /\ th.code = Do(<<"chdir_up", 3>>, Do(<<"rmdir", NsPath(s, n)>>, Do(Back, r)))
          /\ d = <<"subsystems", s, "namespaces", n>>
       \/ /\ th.code = Do(<<"rmdir", NsPath(s, n)>>, Do(Back, r))
          /\ d = <<"subsystems">>

\* Only a port that was there can have a subsystem, and so be as it was.
InCreatePortid(p, addr, r, th, t, d) ==
    /\ p \in PortIds(t) /\ th.ok = TRUE
    /\ InUse(t, p) => th.exists
    /\ \/ /\ th.code = Do(<<"chdir", <<p>>>>, Do(<<"write_addr", addr>>,
                       Do(<<"read_addr", addr>>, Do(Back, r))))
          /\ d = <<"ports">>
       \/ /\ th.code = Do(<<"write_addr", addr>>, Do(<<"read_addr", addr>>, Do(Back, r)))
          /\ d = <<"ports", p>>
       \/ /\ th.code = Do(<<"read_addr", addr>>, Do(Back, r))
          /\ d = <<"ports", p>>
          /\ InUse(t, p) \/ <<p, addr>> \in t.ports
          /\ t = create_portid(t, p, addr).tree

\* A link is a pair of names, and the port of a link is there: this much of Sound
\* holds between the system calls of an operation too.
Proper(t) == /\ \A a \in t.allowed : a = <<a[1], a[2]>>
             /\ \A l \in t.links : l = <<l[1], l[2]>> /\ l[1] \in PortIds(t)

\* What is left of the loop over a directory that c opened.
Loop(left, c, r) == Do(<<"readdir", left, c>>, r)

InDeletePortid(p, r, th, t, d) ==
    /\ d = <<"ports">> /\ p \in PortIds(t) /\ th.ok = TRUE /\ Proper(t)
    /\ \/ \E left :
             /\ \A l \in t.links : l[1] = p => l[2] \in left
             /\ \/ th.code = Loop(left, <<"opendir_links", p>>, Removes(p, r))
                \/ \E s : th.code = Do(<<"remove", LinkPath(p, s)>>,
                                       Loop(left \ {s}, <<"opendir_links", p>>, Removes(p, r)))
       \/ th.code = Removes(p, r) /\ ~InUse(t, p)

InHosts(s, r, th, t, d) ==
    /\ d = <<"subsystems", s>>
    /\ \E left :
          /\ \A a \in t.allowed : a[1] = s => a[2] \in left
          /\ \/ th.code = Loop(left, <<"opendir_hosts">>, AfterHosts(s, r))
             \/ \E h : th.code = Do(<<"remove", <<"allowed_hosts", h>>>>,
                                    Loop(left \ {h}, <<"opendir_hosts">>, AfterHosts(s, r)))

NoHosts(t, s) == \A a \in t.allowed : a[1] # s
NoNs(t, s)    == \A n \in t.ns : n[1] # s
NoPorts(t, s) == \A l \in t.links : l[2] # s

\* Every name that is left is there: else chdir("../..") would go elsewhere.
InNs(s, r, th, t, d) ==
    /\ NoHosts(t, s)
    /\ \E left :
          /\ \A n \in t.ns : n[1] = s => n[2] \in left
          /\ \A x \in left : \E n \in t.ns : n[1] = s /\ n[2] = x
          /\ \/ /\ th.code = Loop(left, <<"opendir_ns">>, AfterNs(s, r))
                /\ d = <<"subsystems", s>>
             \/ \E x \in left :
                  LET rest == Loop(left \ {x}, <<"opendir_ns">>, AfterNs(s, r))
                      rm   == Do(<<"rmdir", <<"namespaces", x>>>>, rest)
                  IN  \/ /\ th.code = Do(<<"chdir", <<"namespaces", x>>>>,
                                      Do(<<"chdir_up", 2>>, rm))
                         /\ d = <<"subsystems", s>>
                      \/ /\ th.code = Do(<<"chdir_up", 2>>, rm)
                         /\ d = <<"subsystems", s, "namespaces", x>>
                      \/ /\ th.code = rm
                         /\ d = <<"subsystems", s>>

InPorts(s, r, th, t, d) ==
    /\ d = <<>> /\ NoHosts(t, s) /\ NoNs(t, s)
    /\ \E left :
          /\ \A l \in t.links : l[2] = s => l[1] \in left
          /\ \/ th.code = Loop(left, <<"opendir_ports", s>>, AfterPorts(s, r))
             \/ \E p : th.code = Do(<<"remove", <<"ports", p, "subsystems", s>>>>,
                                    Loop(left \ {p}, <<"opendir_ports", s>>, AfterPorts(s, r)))

InDeleteSubsys(s, r, th, t, d) ==
    /\ s \in t.subsys /\ th.ok = TRUE /\ Proper(t)
    /\ \/ InHosts(s, r, th, t, d)
       \/ th.code = AfterHosts(s, r) /\ d = <<"subsystems", s>> /\ NoHosts(t, s)
       \/ InNs(s, r, th, t, d)
       \/ th.code = AfterNs(s, r) /\ d = <<"subsystems", s>> /\ NoHosts(t, s) /\ NoNs(t, s)
       \/ /\ th.code = Do(<<"opendir_ports", s>>, AfterPorts(s, r))
          /\ d = <<>> /\ NoHosts(t, s) /\ NoNs(t, s)
       \/ InPorts(s, r, th, t, d)
       \/ /\ th.code = AfterPorts(s, r) /\ d = <<>>
          /\ NoHosts(t, s) /\ NoNs(t, s) /\ NoPorts(t, s)
       \/ /\ th.code = Removes(s, r) /\ d = <<"subsystems">>
          /\ NoHosts(t, s) /\ NoNs(t, s) /\ NoPorts(t, s)

Inside(op, r, th, t, d) ==
    \/ op[1] = "create_subsys" /\ InCreateSubsys(op[2], op[3], r, th, t, d)
    \/ op[1] = "create_ns" /\ InCreateNs(op[2], op[3], op[4], r, th, t, d)
    \/ op[1] = "delete_ns" /\ InDeleteNs(op[2], op[3], r, th, t, d)
    \/ op[1] = "create_portid" /\ InCreatePortid(op[2], op[3], r, th, t, d)
    \/ op[1] = "delete_portid" /\ InDeletePortid(op[2], r, th, t, d)
    \/ op[1] = "delete_subsys" /\ InDeleteSubsys(op[2], r, th, t, d)

\* The operation has not begun, has entered its directory, is about to leave it.
Begins(op, b, r, th, t, d, sv, home) ==
    /\ t = b /\ th.ok = TRUE /\ d = home
    /\ \/ /\ th.code = Do(Start, Do(<<"enter", DirOf(op)>>, BodyOf(op, r)))
          /\ th.saved = sv
       \/ /\ th.code = Do(<<"enter", DirOf(op)>>, BodyOf(op, r))
          /\ th.saved = Do(home, sv)

Entered(op, b, r, th, t, d, sv, home) ==
    /\ t = b /\ th.ok = TRUE /\ th.saved = Do(home, sv)
    /\ th.code = BodyOf(op, r) /\ d = DirOf(op) /\ DirOf(op) \in Dirs(t)

Working(op, b, r, th, t, d, sv, home) ==
    /\ th.saved = Do(home, sv) /\ IsTree(t)
    /\ Alone(t, op) = Alone(b, op)
    /\ Inside(op, r, th, t, d)

Leaves(op, b, r, th, t, sv, home) ==
    /\ th.code = Do(Back, r) /\ th.saved = Do(home, sv)
    /\ Alone(b, op) = [tree |-> t, ok |-> th.ok]

Over(op, b, r, th, t, d, sv, home) ==
    /\ th.code = r /\ th.saved = sv /\ d = home
    /\ Alone(b, op) = [tree |-> t, ok |-> th.ok]

\* The operation is not over yet.
At(op, b, r, th, t, d, sv, home) ==
    \/ Begins(op, b, r, th, t, d, sv, home)
    \/ Entered(op, b, r, th, t, d, sv, home)
    \/ Working(op, b, r, th, t, d, sv, home)
    \/ Leaves(op, b, r, th, t, sv, home)

\* The loops of reset_config: what they go through, what they do with each entry,
\* what has been removed before and what comes after.
Kinds == {"opendir_subsystems", "opendir_all_ports", "opendir_all_hosts"}

LeftOf(kind, t) ==
    CASE kind = "opendir_subsystems" -> t.subsys
      [] kind = "opendir_all_ports"  -> PortIds(t)
      [] kind = "opendir_all_hosts"  -> t.hosts

OpFor(kind, n) ==
    CASE kind = "opendir_subsystems" -> <<"delete_subsys", n>>
      [] kind = "opendir_all_ports"  -> <<"delete_portid", n>>
      [] kind = "opendir_all_hosts"  -> <<"delete_host", n>>

Phase(kind, t) ==
    /\ IsTree(t) /\ Sound(t) /\ Proper(t)
    /\ kind # "opendir_subsystems" => t.subsys = {}
    /\ kind = "opendir_all_hosts" => t.ports = {}

RestOf(kind) ==
    CASE kind = "opendir_subsystems" -> AfterSubsystems
      [] kind = "opendir_all_ports"  -> AfterAllPorts
      [] kind = "opendir_all_hosts"  -> Do(Back, <<>>)

\* Before the loop, between two entries, and in the operation for an entry.
InReset(kind, th, t, d) ==
    \/ /\ Phase(kind, t) /\ d = <<>> /\ th.saved = <<Home>> /\ th.ok = TRUE
       /\ \/ th.code = Do(<<kind>>, RestOf(kind))
          \/ \E left : /\ LeftOf(kind, t) \subseteq left
                       /\ th.code = Loop(left, <<kind>>, RestOf(kind))
    \/ \E left, b, n :
          /\ Phase(kind, b) /\ LeftOf(kind, b) \subseteq left
          /\ At(OpFor(kind, n), b, Loop(left \ {n}, <<kind>>, RestOf(kind)),
                th, t, d, <<Home>>, <<>>)

\* Where a thread can be that does something.
Point(th, t, d) ==
    /\ th.op \in AllOps /\ IsTree(th.before) /\ Sound(th.before) /\ Proper(th.before)
    /\ \/ th.op[1] # "reset_config" /\ At(th.op, th.before, <<>>, th, t, d, <<>>, Home)
       \/ th.op[1] = "reset_config" /\ Begins(th.op, th.before, <<>>, th, t, d, <<>>, Home)
       \/ th.op[1] = "reset_config" /\ \E kind \in Kinds : InReset(kind, th, t, d)
       \/ th.op[1] = "reset_config" /\ Leaves(th.op, th.before, <<>>, th, t, <<>>, Home)
       \/ Over(th.op, th.before, <<>>, th, t, d, <<>>, Home)

IsThread(th) ==
    th = [op |-> th.op, code |-> th.code, saved |-> th.saved, exists |-> th.exists,
          ok |-> th.ok, before |-> th.before]

\* One operation at a time.
Serial == \A i, j \in Threads : thread[i].op # <<>> /\ thread[j].op # <<>> => i = j

Quiet == \A i \in Threads : thread[i].op = <<>>

IInv ==
    /\ thread = [i \in Threads |-> thread[i]]
    /\ \A i \in Threads : IsThread(thread[i])
    /\ \A i \in Threads : thread[i].op = <<>> => thread[i] = Idle
    /\ Quiet => IsTree(tree) /\ Sound(tree) /\ Proper(tree) /\ cwd = Home
    /\ \A i \in Threads : thread[i].op # <<>> => Point(thread[i], tree, cwd)

-----------------------------------------------------------------------------
(* Code.                                                                    *)

LEMMA DoCode ==
    ASSUME NEW x, NEW c, IsCode(c)
    PROVE  /\ IsCode(Do(x, c)) /\ Do(x, c) # <<>> /\ Do(x, c)[1] = x /\ Tail(Do(x, c)) = c
           /\ Len(Do(x, c)) = Len(c) + 1
           /\ \A k \in 1..Len(c) : Do(x, c)[k + 1] = c[k]
<1>1. PICK S : c \in Seq(S)
  BY DEF IsCode
<1> DEFINE T == S \cup {x}
<1>2. c \in Seq(T) /\ <<x>> \in Seq(T)
  BY <1>1
<1>3. Do(x, c) \in Seq(T)
  BY <1>2 DEF Do
<1>4. Len(Do(x, c)) = Len(c) + 1 /\ Len(c) \in Nat
  BY <1>2 DEF Do
<1>5. Do(x, c)[1] = x /\ \A k \in 1..Len(c) : Do(x, c)[k + 1] = c[k]
  BY <1>2 DEF Do
<1>6. Do(x, c) # <<>>
  BY <1>3, <1>4
<1>7. Tail(Do(x, c)) = c
  BY <1>2, <1>3, <1>4, <1>5
<1> QED BY <1>3, <1>4, <1>5, <1>6, <1>7 DEF IsCode

LEMMA NoCode == IsCode(<<>>) /\ \A x : IsCode(<<x>>) /\ <<x>> = Do(x, <<>>)
<1>1. <<>> \in Seq({})
  OBVIOUS
<1>2. \A x : <<x>> \in Seq({x})
  OBVIOUS
<1>3. \A x : <<x>> = <<x>> \o <<>>
  OBVIOUS
<1> QED BY <1>1, <1>2, <1>3 DEF IsCode, Do

\* The chdir back at the end of an operation is the first in c.
HasBack(c) == /\ IsCode(c)
              /\ \E k \in 1..Len(c) : c[k] = Back /\ \A j \in 1..(k - 1) : c[j] # Back

LEMMA SkipHere ==
    ASSUME NEW r, IsCode(r)
    PROVE  HasBack(Do(Back, r)) /\ SkipToBack(Do(Back, r)) = Do(Back, r)
<1> DEFINE c == Do(Back, r)
           P(i) == c[i] = Back /\ \A j \in 1..(i - 1) : c[j] # Back
<1>1. IsCode(c) /\ c[1] = Back /\ Len(c) \in Nat /\ 1 \in 1..Len(c)
  <2>1. PICK S : c \in Seq(S)
    BY DoCode DEF IsCode
  <2>2. PICK S2 : r \in Seq(S2)
    BY DEF IsCode
  <2>3. Len(c) = Len(r) + 1 /\ Len(r) \in Nat
    BY <2>2, DoCode
  <2> QED BY <2>3, DoCode
<1>2. P(1)
  BY <1>1
<1>3. \A i \in 1..Len(c) : P(i) => i = 1
  BY <1>1
<1>4. (CHOOSE i \in 1..Len(c) : P(i)) = 1
  BY <1>1, <1>2, <1>3
<1>5. SubSeq(c, 1, Len(c)) = c
  <2>1. PICK S : c \in Seq(S)
    BY <1>1 DEF IsCode
  <2> QED BY <2>1
<1>6. SkipToBack(c) = SubSeq(c, CHOOSE i \in 1..Len(c) : P(i), Len(c))
  BY DEF SkipToBack
<1>7. HasBack(c)
  BY <1>1, <1>2 DEF HasBack
<1> QED BY <1>4, <1>5, <1>6, <1>7

LEMMA SkipOver ==
    ASSUME NEW x, x # Back, NEW c, HasBack(c)
    PROVE  HasBack(Do(x, c)) /\ SkipToBack(Do(x, c)) = SkipToBack(c)
<1> DEFINE e == Do(x, c)
           P(i) == c[i] = Back /\ \A j \in 1..(i - 1) : c[j] # Back
           Q(i) == e[i] = Back /\ \A j \in 1..(i - 1) : e[j] # Back
<1>1. PICK S : c \in Seq(S)
  BY DEF HasBack, IsCode
<1>2. PICK S2 : e \in Seq(S2)
  BY DoCode DEF HasBack, IsCode
<1>3. /\ Len(e) = Len(c) + 1 /\ Len(c) \in Nat /\ e[1] = x
      /\ \A k \in 1..Len(c) : e[k + 1] = c[k]
  BY <1>1, DoCode DEF HasBack
<1> HIDE DEF e
<1>4. PICK k \in 1..Len(c) : P(k)
  BY DEF HasBack
<1>5. \A i \in 1..Len(c) : P(i) => i = k
  BY <1>3, <1>4
<1>6. (CHOOSE i \in 1..Len(c) : P(i)) = k
  BY <1>4, <1>5
<1>7. k + 1 \in 1..Len(e) /\ Q(k + 1)
  <2>1. k + 1 \in 1..Len(e) /\ e[k + 1] = Back
    BY <1>3, <1>4
  <2>2. ASSUME NEW j \in 1..k PROVE e[j] # Back
    <3>1. CASE j = 1
      BY <1>3, <3>1
    <3>2. CASE j # 1
      <4>1. j - 1 \in 1..Len(c) /\ j - 1 \in 1..(k - 1) /\ (j - 1) + 1 = j
        BY <3>2, <1>3, <1>4
      <4>2. e[j] = c[j - 1]
        BY <4>1, <1>3
      <4> QED BY <4>1, <4>2, <1>4
    <3> QED BY <3>1, <3>2
  <2> QED BY <2>1, <2>2
<1>8. \A i \in 1..Len(e) : Q(i) => i = k + 1
  <2> SUFFICES ASSUME NEW i \in 1..Len(e), Q(i) PROVE i = k + 1
    OBVIOUS
  <2>1. i # 1
    BY <1>3
  <2>2. ~(i < k + 1)
    BY <1>3, <1>7
  <2>3. ~(k + 1 < i)
    BY <1>3, <1>7
  <2> QED BY <2>2, <2>3, <1>3, <1>4
<1>9. (CHOOSE i \in 1..Len(e) : Q(i)) = k + 1
  BY <1>7, <1>8
<1>10. SubSeq(e, k + 1, Len(e)) = SubSeq(c, k, Len(c))
  <2>1. SubSeq(e, k + 1, Len(e)) = [m \in 1..(Len(e) - (k + 1) + 1) |-> e[m + (k + 1) - 1]]
    BY <1>2, <1>3, <1>4
  <2>2. SubSeq(c, k, Len(c)) = [m \in 1..(Len(c) - k + 1) |-> c[m + k - 1]]
    BY <1>1, <1>3, <1>4
  <2>3. Len(e) - (k + 1) + 1 = Len(c) - k + 1
    BY <1>3, <1>4
  <2>4. \A m \in 1..(Len(c) - k + 1) : e[m + (k + 1) - 1] = c[m + k - 1]
    <3> TAKE m \in 1..(Len(c) - k + 1)
    <3>1. m + k - 1 \in 1..Len(c) /\ m + (k + 1) - 1 = (m + k - 1) + 1
      BY <1>3, <1>4
    <3> QED BY <3>1, <1>3
  <2> QED BY <2>1, <2>2, <2>3, <2>4
<1>11. SkipToBack(e) = SubSeq(e, CHOOSE i \in 1..Len(e) : Q(i), Len(e))
  BY DEF SkipToBack
<1>12. SkipToBack(c) = SubSeq(c, CHOOSE i \in 1..Len(c) : P(i), Len(c))
  BY DEF SkipToBack
<1>13. HasBack(e)
  BY <1>2, <1>7 DEF HasBack, IsCode
<1> QED BY <1>6, <1>9, <1>10, <1>11, <1>12, <1>13 DEF e

\* p and then r, as one operator for the provers.
Joined(p, r) == p \o r

LEMMA DoMore ==
    ASSUME NEW x, NEW p, IsCode(p), NEW r, IsCode(r)
    PROVE  Joined(Do(x, p), r) = Do(x, Joined(p, r)) /\ IsCode(Joined(p, r))
<1>1. PICK S : p \in Seq(S)
  BY DEF IsCode
<1>2. PICK S2 : r \in Seq(S2)
  BY DEF IsCode
<1> DEFINE T == S \cup S2 \cup {x}
<1>3. p \in Seq(T) /\ r \in Seq(T) /\ <<x>> \in Seq(T)
  BY <1>1, <1>2
<1> HIDE DEF T
<1>4. (<<x>> \o p) \o r = <<x>> \o (p \o r)
  BY <1>3
<1>5. p \o r \in Seq(T)
  BY <1>3
<1> QED BY <1>4, <1>5 DEF Do, IsCode, Joined

LEMMA DoEmpty == ASSUME NEW r, IsCode(r) PROVE Joined(<<>>, r) = r /\ Joined(r, <<>>) = r
<1>1. PICK S : r \in Seq(S)
  BY DEF IsCode
<1>2. <<>> \in Seq(S)
  OBVIOUS
<1> QED BY <1>1, <1>2 DEF Joined

\* The sequences that the operations are written as.
LEMMA Code1 ==
    ASSUME NEW x1, NEW r, IsCode(r)
    PROVE  IsCode(<<x1>>) /\ Joined(<<x1>>, r) = Do(x1, r)
BY NoCode DEF Do, Joined

LEMMA Two == ASSUME NEW x1, NEW x2 PROVE <<x1, x2>> = Do(x1, <<x2>>)
<1> DEFINE p == <<x2>>
<1>1. IsCode(p) /\ Len(p) = 1 /\ p[1] = x2
  BY NoCode
<1> HIDE DEF p
<1>2. IsCode(Do(x1, p)) /\ Len(Do(x1, p)) = 2 /\ Do(x1, p)[1] = x1 /\ Do(x1, p)[2] = x2
  <2>0. Len(Do(x1, p)) = Len(p) + 1
    BY <1>1, DoCode
  <2>1. Len(Do(x1, p)) = 1 + 1 /\ 1 \in 1..Len(p)
    BY <2>0, <1>1
  <2>2. Do(x1, p)[1 + 1] = p[1]
    BY <2>1, <1>1, DoCode
  <2> QED BY <2>1, <2>2, <1>1, DoCode
<1>3. PICK S : Do(x1, p) \in Seq(S)
  BY <1>2 DEF IsCode
<1>4. Do(x1, p) = [k \in 1..2 |-> Do(x1, p)[k]]
  BY <1>2, <1>3
<1>5. <<x1, x2>> = Do(x1, p)
  BY <1>2, <1>4
<1> QED BY <1>5 DEF p

LEMMA Code2 ==
    ASSUME NEW x1, NEW x2, NEW r, IsCode(r)
    PROVE  IsCode(<<x1, x2>>) /\ Joined(<<x1, x2>>, r) = Do(x1, Do(x2, r))
<1> DEFINE p == <<x2>>
<1>1. <<x1, x2>> = Do(x1, p)
  BY Two
<1>2. IsCode(p) /\ Joined(p, r) = Do(x2, r)
  BY Code1
<1> HIDE DEF p
<1>3. IsCode(Do(x1, p))
  BY <1>2, DoCode
<1>4. Joined(Do(x1, p), r) = Do(x1, Joined(p, r))
  BY <1>2, DoMore
<1> QED BY <1>1, <1>2, <1>3, <1>4

LEMMA Code3 ==
    ASSUME NEW x1, NEW x2, NEW x3, NEW r, IsCode(r)
    PROVE  /\ IsCode(<<x1, x2, x3>>)
           /\ Joined(<<x1, x2, x3>>, r)
                = Do(x1, Do(x2, Do(x3, r)))
<1> DEFINE p == <<x2, x3>>
<1>1. <<x1, x2, x3>> = Do(x1, p)
  BY DEF Do
<1>2. IsCode(p) /\ Joined(p, r) = Do(x2, Do(x3, r))
  BY Code2
<1> HIDE DEF p
<1>3. IsCode(Do(x1, p))
  BY <1>2, DoCode
<1>4. Joined(Do(x1, p), r) = Do(x1, Joined(p, r))
  BY <1>2, DoMore
<1> QED BY <1>1, <1>2, <1>3, <1>4

LEMMA Code4 ==
    ASSUME NEW x1, NEW x2, NEW x3, NEW x4, NEW r, IsCode(r)
    PROVE  /\ IsCode(<<x1, x2, x3, x4>>)
           /\ Joined(<<x1, x2, x3, x4>>, r)
                = Do(x1, Do(x2, Do(x3, Do(x4, r))))
<1> DEFINE p == <<x2, x3, x4>>
<1>1. <<x1, x2, x3, x4>> = Do(x1, p)
  BY DEF Do
<1>2. IsCode(p) /\ Joined(p, r) = Do(x2, Do(x3, Do(x4, r)))
  BY Code3
<1> HIDE DEF p
<1>3. IsCode(Do(x1, p))
  BY <1>2, DoCode
<1>4. Joined(Do(x1, p), r) = Do(x1, Joined(p, r))
  BY <1>2, DoMore
<1> QED BY <1>1, <1>2, <1>3, <1>4

LEMMA Code5 ==
    ASSUME NEW x1, NEW x2, NEW x3, NEW x4, NEW x5, NEW r, IsCode(r)
    PROVE  /\ IsCode(<<x1, x2, x3, x4, x5>>)
           /\ Joined(<<x1, x2, x3, x4, x5>>, r)
                = Do(x1, Do(x2, Do(x3, Do(x4, Do(x5, r)))))
<1> DEFINE p == <<x2, x3, x4, x5>>
<1>1. <<x1, x2, x3, x4, x5>> = Do(x1, p)
  BY DEF Do
<1>2. IsCode(p) /\ Joined(p, r) = Do(x2, Do(x3, Do(x4, Do(x5, r))))
  BY Code4
<1> HIDE DEF p
<1>3. IsCode(Do(x1, p))
  BY <1>2, DoCode
<1>4. Joined(Do(x1, p), r) = Do(x1, Joined(p, r))
  BY <1>2, DoMore
<1> QED BY <1>1, <1>2, <1>3, <1>4

LEMMA Code6 ==
    ASSUME NEW x1, NEW x2, NEW x3, NEW x4, NEW x5, NEW x6, NEW r, IsCode(r)
    PROVE  /\ IsCode(<<x1, x2, x3, x4, x5, x6>>)
           /\ Joined(<<x1, x2, x3, x4, x5, x6>>, r)
                = Do(x1, Do(x2, Do(x3, Do(x4, Do(x5, Do(x6, r))))))
<1> DEFINE p == <<x2, x3, x4, x5, x6>>
<1>1. <<x1, x2, x3, x4, x5, x6>> = Do(x1, p)
  BY DEF Do
<1>2. IsCode(p) /\ Joined(p, r) = Do(x2, Do(x3, Do(x4, Do(x5, Do(x6, r)))))
  BY Code5
<1> HIDE DEF p
<1>3. IsCode(Do(x1, p))
  BY <1>2, DoCode
<1>4. Joined(Do(x1, p), r) = Do(x1, Joined(p, r))
  BY <1>2, DoMore
<1> QED BY <1>1, <1>2, <1>3, <1>4

LEMMA Code7 ==
    ASSUME NEW x1, NEW x2, NEW x3, NEW x4, NEW x5, NEW x6, NEW x7, NEW r, IsCode(r)
    PROVE  /\ IsCode(<<x1, x2, x3, x4, x5, x6, x7>>)
           /\ Joined(<<x1, x2, x3, x4, x5, x6, x7>>, r)
                = Do(x1, Do(x2, Do(x3, Do(x4, Do(x5, Do(x6, Do(x7, r)))))))
<1> DEFINE p == <<x2, x3, x4, x5, x6, x7>>
<1>1. <<x1, x2, x3, x4, x5, x6, x7>> = Do(x1, p)
  BY DEF Do
<1>2. IsCode(p) /\ Joined(p, r) = Do(x2, Do(x3, Do(x4, Do(x5, Do(x6, Do(x7, r))))))
  BY Code6
<1> HIDE DEF p
<1>3. IsCode(Do(x1, p))
  BY <1>2, DoCode
<1>4. Joined(Do(x1, p), r) = Do(x1, Joined(p, r))
  BY <1>2, DoMore
<1> QED BY <1>1, <1>2, <1>3, <1>4

LEMMA Code8 ==
    ASSUME NEW x1, NEW x2, NEW x3, NEW x4, NEW x5, NEW x6, NEW x7, NEW x8, NEW r, IsCode(r)
    PROVE  /\ IsCode(<<x1, x2, x3, x4, x5, x6, x7, x8>>)
           /\ Joined(<<x1, x2, x3, x4, x5, x6, x7, x8>>, r)
                = Do(x1, Do(x2, Do(x3, Do(x4, Do(x5, Do(x6, Do(x7, Do(x8, r))))))))
<1> DEFINE p == <<x2, x3, x4, x5, x6, x7, x8>>
<1>1. <<x1, x2, x3, x4, x5, x6, x7, x8>> = Do(x1, p)
  BY DEF Do
<1>2. IsCode(p) /\ Joined(p, r) = Do(x2, Do(x3, Do(x4, Do(x5, Do(x6, Do(x7, Do(x8, r)))))))
  BY Code7
<1> HIDE DEF p
<1>3. IsCode(Do(x1, p))
  BY <1>2, DoCode
<1>4. Joined(Do(x1, p), r) = Do(x1, Joined(p, r))
  BY <1>2, DoMore
<1> QED BY <1>1, <1>2, <1>3, <1>4

LEMMA Code9 ==
    ASSUME NEW x1, NEW x2, NEW x3, NEW x4, NEW x5,
           NEW x6, NEW x7, NEW x8, NEW x9, NEW r, IsCode(r)
    PROVE  /\ IsCode(<<x1, x2, x3, x4, x5, x6, x7, x8, x9>>)
           /\ Joined(<<x1, x2, x3, x4, x5, x6, x7, x8, x9>>, r)
                = Do(x1, Do(x2, Do(x3, Do(x4, Do(x5, Do(x6, Do(x7, Do(x8, Do(x9, r)))))))))
<1> DEFINE p == <<x2, x3, x4, x5, x6, x7, x8, x9>>
<1>1. <<x1, x2, x3, x4, x5, x6, x7, x8, x9>> = Do(x1, p)
  BY DEF Do
<1>2. IsCode(p) /\ Joined(p, r) = Do(x2, Do(x3, Do(x4, Do(x5, Do(x6, Do(x7, Do(x8, Do(x9, r))))))))
  BY Code8
<1> HIDE DEF p
<1>3. IsCode(Do(x1, p))
  BY <1>2, DoCode
<1>4. Joined(Do(x1, p), r) = Do(x1, Joined(p, r))
  BY <1>2, DoMore
<1> QED BY <1>1, <1>2, <1>3, <1>4

OpNames == {"create_subsys", "delete_subsys", "create_ns", "delete_ns", "create_host",
            "delete_host", "create_portid", "delete_portid", "link_host", "unlink_host",
            "link_port", "unlink_port", "reset_config"}

\* An operation begins with getcwd and chdir.
LEMMA CodeBegins ==
    ASSUME NEW op, op[1] \in OpNames, NEW r, IsCode(r), op[1] = "reset_config" => r = <<>>
    PROVE  Joined(CodeOf(op), r) = Do(Start, Do(<<"enter", DirOf(op)>>, BodyOf(op, r)))
<1>1. CASE op[1] = "create_subsys"
  <2>1. CodeOf(op) = CreateSubsys(op[2], op[3])
    BY <1>1 DEF CodeOf
  <2>2. Joined(CreateSubsys(op[2], op[3]), r)
          = Do(Start, Do(<<"enter", <<"subsystems">>>>, Do(<<"mkdir", <<op[2]>>>>,
            Do(<<"chdir", <<op[2]>>>>, Do(<<"write_any", op[3]>>, Do(Back, r))))))
    BY Code6, SMTT(30) DEF CreateSubsys
  <2>3. DirOf(op) = <<"subsystems">>
    BY <1>1 DEF DirOf
  <2>4. BodyOf(op, r) = Do(<<"mkdir", <<op[2]>>>>, Do(<<"chdir", <<op[2]>>>>,
                        Do(<<"write_any", op[3]>>, Do(Back, r))))
    BY <1>1 DEF BodyOf
  <2> QED BY <2>1, <2>2, <2>3, <2>4
<1>2. CASE op[1] = "delete_subsys"
  <2>1. CodeOf(op) = DeleteSubsys(op[2])
    BY <1>2 DEF CodeOf
  <2>2. Joined(DeleteSubsys(op[2]), r)
          = Do(Start, Do(<<"enter", <<"subsystems", op[2]>>>>, Do(<<"opendir_hosts">>,
            Do(<<"opendir_ns">>, Do(<<"chdir_abs", <<>>>>, Do(<<"opendir_ports", op[2]>>,
            Do(<<"chdir_abs", <<"subsystems">>>>, Do(<<"rmdir", <<op[2]>>>>, Do(Back, r)))))))))
    BY Code9, SMTT(30) DEF DeleteSubsys
  <2>3. DirOf(op) = <<"subsystems", op[2]>>
    BY <1>2 DEF DirOf
  <2>4. BodyOf(op, r) = Do(<<"opendir_hosts">>, Do(<<"opendir_ns">>, Do(<<"chdir_abs", <<>>>>,
                        Do(<<"opendir_ports", op[2]>>, Do(<<"chdir_abs", <<"subsystems">>>>,
                        Do(<<"rmdir", <<op[2]>>>>, Do(Back, r)))))))
    BY <1>2 DEF BodyOf, AfterHosts, AfterNs, AfterPorts, Removes
  <2> QED BY <2>1, <2>2, <2>3, <2>4
<1>3. CASE op[1] = "create_ns"
  <2>1. CodeOf(op) = CreateNs(op[2], op[3], op[4])
    BY <1>3 DEF CodeOf
  <2>2. Joined(CreateNs(op[2], op[3], op[4]), r)
          = Do(Start, Do(<<"enter", <<"subsystems">>>>,
            Do(<<"mkdir", <<op[2], "namespaces", op[3]>>>>,
            Do(<<"chdir", <<op[2], "namespaces", op[3]>>>>, Do(<<"write_dev", op[4]>>,
            Do(Back, r))))))
    BY Code6, SMTT(30) DEF CreateNs
  <2>3. DirOf(op) = <<"subsystems">>
    BY <1>3 DEF DirOf
  <2>4. BodyOf(op, r) = Do(<<"mkdir", <<op[2], "namespaces", op[3]>>>>,
                        Do(<<"chdir", <<op[2], "namespaces", op[3]>>>>, Do(<<"write_dev", op[4]>>,
                        Do(Back, r))))
    BY <1>3 DEF BodyOf, NsPath
  <2> QED BY <2>1, <2>2, <2>3, <2>4
<1>4. CASE op[1] = "delete_ns"
  <2>1. CodeOf(op) = DeleteNs(op[2], op[3])
    BY <1>4 DEF CodeOf
  <2>2. Joined(DeleteNs(op[2], op[3]), r)
          = Do(Start, Do(<<"enter", <<"subsystems">>>>,
            Do(<<"chdir_out", <<op[2], "namespaces", op[3]>>>>, Do(<<"chdir_up", 3>>,
            Do(<<"rmdir", <<op[2], "namespaces", op[3]>>>>, Do(Back, r))))))
    BY Code6, SMTT(30) DEF DeleteNs
  <2>3. DirOf(op) = <<"subsystems">>
    BY <1>4 DEF DirOf
  <2>4. BodyOf(op, r) = Do(<<"chdir_out", <<op[2], "namespaces", op[3]>>>>, Do(<<"chdir_up", 3>>,
                        Do(<<"rmdir", <<op[2], "namespaces", op[3]>>>>, Do(Back, r))))
    BY <1>4 DEF BodyOf, NsPath
  <2> QED BY <2>1, <2>2, <2>3, <2>4
<1>5. CASE op[1] = "create_host"
  <2>1. CodeOf(op) = CreateHost(op[2])
    BY <1>5 DEF CodeOf
  <2>2. Joined(CreateHost(op[2]), r)
          = Do(Start, Do(<<"enter", <<"hosts">>>>, Do(<<"mkdir", <<op[2]>>>>, Do(Back, r))))
    BY Code4, SMTT(30) DEF CreateHost
  <2>3. DirOf(op) = <<"hosts">>
    BY <1>5 DEF DirOf
  <2>4. BodyOf(op, r) = Do(<<"mkdir", <<op[2]>>>>, Do(Back, r))
    BY <1>5 DEF BodyOf
  <2> QED BY <2>1, <2>2, <2>3, <2>4
<1>6. CASE op[1] = "delete_host"
  <2>1. CodeOf(op) = DeleteHost(op[2])
    BY <1>6 DEF CodeOf
  <2>2. Joined(DeleteHost(op[2]), r)
          = Do(Start, Do(<<"enter", <<"hosts">>>>, Do(<<"rmdir", <<op[2]>>>>, Do(Back, r))))
    BY Code4, SMTT(30) DEF DeleteHost
  <2>3. DirOf(op) = <<"hosts">>
    BY <1>6 DEF DirOf
  <2>4. BodyOf(op, r) = Do(<<"rmdir", <<op[2]>>>>, Do(Back, r))
    BY <1>6 DEF BodyOf
  <2> QED BY <2>1, <2>2, <2>3, <2>4
<1>7. CASE op[1] = "create_portid"
  <2>1. CodeOf(op) = CreatePortid(op[2], op[3])
    BY <1>7 DEF CodeOf
  <2>2. Joined(CreatePortid(op[2], op[3]), r)
          = Do(Start, Do(<<"enter", <<"ports">>>>, Do(<<"mkdir", <<op[2]>>>>,
            Do(<<"chdir", <<op[2]>>>>, Do(<<"write_addr", op[3]>>, Do(<<"read_addr", op[3]>>,
            Do(Back, r)))))))
    BY Code7, SMTT(30) DEF CreatePortid
  <2>3. DirOf(op) = <<"ports">>
    BY <1>7 DEF DirOf
  <2>4. BodyOf(op, r) = Do(<<"mkdir", <<op[2]>>>>, Do(<<"chdir", <<op[2]>>>>,
                        Do(<<"write_addr", op[3]>>, Do(<<"read_addr", op[3]>>, Do(Back, r)))))
    BY <1>7 DEF BodyOf
  <2> QED BY <2>1, <2>2, <2>3, <2>4
<1>8. CASE op[1] = "delete_portid"
  <2>1. CodeOf(op) = DeletePortid(op[2])
    BY <1>8 DEF CodeOf
  <2>2. Joined(DeletePortid(op[2]), r)
          = Do(Start, Do(<<"enter", <<"ports">>>>, Do(<<"opendir_links", op[2]>>,
            Do(<<"rmdir", <<op[2]>>>>, Do(Back, r)))))
    BY Code5, SMTT(30) DEF DeletePortid
  <2>3. DirOf(op) = <<"ports">>
    BY <1>8 DEF DirOf
  <2>4. BodyOf(op, r) = Do(<<"opendir_links", op[2]>>, Do(<<"rmdir", <<op[2]>>>>, Do(Back, r)))
    BY <1>8 DEF BodyOf, Removes
  <2> QED BY <2>1, <2>2, <2>3, <2>4
<1>9. CASE op[1] = "link_host"
  <2>1. CodeOf(op) = LinkHost(op[2], op[3])
    BY <1>9 DEF CodeOf
  <2>2. Joined(LinkHost(op[2], op[3]), r)
          = Do(Start, Do(<<"enter", <<"subsystems">>>>,
            Do(<<"symlink", <<op[2], "allowed_hosts", op[3]>>, <<"hosts", op[3]>>>>,
            Do(Back, r))))
    BY Code4, SMTT(30) DEF LinkHost
  <2>3. DirOf(op) = <<"subsystems">>
    BY <1>9 DEF DirOf
  <2>4. BodyOf(op, r) = Do(<<"symlink", <<op[2], "allowed_hosts", op[3]>>, <<"hosts", op[3]>>>>,
                        Do(Back, r))
    BY <1>9 DEF BodyOf, AllowedPath
  <2> QED BY <2>1, <2>2, <2>3, <2>4
<1>10. CASE op[1] = "unlink_host"
  <2>1. CodeOf(op) = UnlinkHost(op[2], op[3])
    BY <1>10 DEF CodeOf
  <2>2. Joined(UnlinkHost(op[2], op[3]), r)
          = Do(Start, Do(<<"enter", <<"subsystems">>>>,
            Do(<<"remove", <<op[2], "allowed_hosts", op[3]>>>>, Do(Back, r))))
    BY Code4, SMTT(30) DEF UnlinkHost
  <2>3. DirOf(op) = <<"subsystems">>
    BY <1>10 DEF DirOf
  <2>4. BodyOf(op, r) = Do(<<"remove", <<op[2], "allowed_hosts", op[3]>>>>, Do(Back, r))
    BY <1>10 DEF BodyOf, AllowedPath
  <2> QED BY <2>1, <2>2, <2>3, <2>4
<1>11. CASE op[1] = "link_port"
  <2>1. CodeOf(op) = LinkPort(op[2], op[3])
    BY <1>11 DEF CodeOf
  <2>2. Joined(LinkPort(op[2], op[3]), r)
          = Do(Start, Do(<<"enter", <<"ports">>>>,
            Do(<<"symlink", <<op[3], "subsystems", op[2]>>, <<"subsystems", op[2]>>>>,
            Do(Back, r))))
    BY Code4, SMTT(30) DEF LinkPort
  <2>3. DirOf(op) = <<"ports">>
    BY <1>11 DEF DirOf
  <2>4. BodyOf(op, r) = Do(<<"symlink", <<op[3], "subsystems", op[2]>>, <<"subsystems", op[2]>>>>,
                        Do(Back, r))
    BY <1>11 DEF BodyOf, LinkPath
  <2> QED BY <2>1, <2>2, <2>3, <2>4
<1>12. CASE op[1] = "unlink_port"
  <2>1. CodeOf(op) = UnlinkPort(op[2], op[3])
    BY <1>12 DEF CodeOf
  <2>2. Joined(UnlinkPort(op[2], op[3]), r)
          = Do(Start, Do(<<"enter", <<"ports">>>>, Do(<<"remove", <<op[3], "subsystems", op[2]>>>>,
            Do(Back, r))))
    BY Code4, SMTT(30) DEF UnlinkPort
  <2>3. DirOf(op) = <<"ports">>
    BY <1>12 DEF DirOf
  <2>4. BodyOf(op, r) = Do(<<"remove", <<op[3], "subsystems", op[2]>>>>, Do(Back, r))
    BY <1>12 DEF BodyOf, LinkPath
  <2> QED BY <2>1, <2>2, <2>3, <2>4
<1>13. CASE op[1] = "reset_config"
  <2>1. CodeOf(op) = ResetConfig
    BY <1>13 DEF CodeOf
  <2>2. Joined(ResetConfig, r)
          = Do(Start, Do(<<"enter", <<>>>>, Do(<<"opendir_subsystems">>,
            Do(<<"opendir_all_ports">>, Do(<<"opendir_all_hosts">>, Do(Back, r))))))
    BY Code6, SMTT(30) DEF ResetConfig
  <2>3. DirOf(op) = <<>>
    BY <1>13 DEF DirOf
  <2>4. BodyOf(op, r) = Do(<<"opendir_subsystems">>, Do(<<"opendir_all_ports">>,
                        Do(<<"opendir_all_hosts">>, Do(Back, r))))
    BY <1>13 DEF BodyOf, AfterSubsystems, AfterAllPorts
  <2> QED BY <2>1, <2>2, <2>3, <2>4
<1> QED BY <1>1, <1>2, <1>3, <1>4, <1>5, <1>6, <1>7, <1>8, <1>9, <1>10, <1>11, <1>12, <1>13
    DEF OpNames

-----------------------------------------------------------------------------
(* Paths.                                                                   *)

SubsysDir(s) == <<"subsystems", s>>
NsDir(s, n)  == <<"subsystems", s, "namespaces", n>>
PortDir(p)   == <<"ports", p>>
HostDir(h)   == <<"hosts", h>>
AllowedLink(s, h) == <<"subsystems", s, "allowed_hosts", h>>
PortLink(p, s)    == <<"ports", p, "subsystems", s>>
In(d, p)     == d \o p

LEMMA Four ==
    ASSUME NEW a, NEW b, NEW c, NEW d
    PROVE  Joined(<<a>>, <<b, c, d>>) = <<a, b, c, d>> /\ Joined(<<a, b>>, <<c, d>>) = <<a, b, c, d>>
<1>0. <<b, c, d>> = Do(b, <<c, d>>)
  BY DEF Do
<1>1. <<a, b, c, d>> = Do(a, <<b, c, d>>)
  BY DEF Do
<1>2. <<a, b>> \o <<c, d>> = Joined(Do(a, <<b>>), <<c, d>>)
  BY Two DEF Joined
<1>3. IsCode(<<b>>) /\ IsCode(<<c, d>>)
  BY Code1, Code2, NoCode
<1>4. Joined(Do(a, <<b>>), <<c, d>>) = Do(a, Joined(<<b>>, <<c, d>>))
  BY <1>3, DoMore
<1>5. Joined(<<b>>, <<c, d>>) = <<b, c, d>>
  BY <1>0 DEF Joined, Do
<1> QED BY <1>1, <1>2, <1>4, <1>5 DEF Joined, Do

LEMMA JoinedPaths ==
    ASSUME NEW s, NEW x
    PROVE  /\ In(<<"subsystems">>, <<s>>) = SubsysDir(s)
           /\ In(<<"ports">>, <<s>>) = PortDir(s)
           /\ In(<<"hosts">>, <<s>>) = HostDir(s)
           /\ In(<<"subsystems">>, NsPath(s, x)) = NsDir(s, x)
           /\ In(<<"subsystems">>, AllowedPath(s, x)) = AllowedLink(s, x)
           /\ In(<<"ports">>, LinkPath(s, x)) = PortLink(s, x)
           /\ In(SubsysDir(s), <<"allowed_hosts", x>>) = AllowedLink(s, x)
           /\ In(SubsysDir(s), <<"namespaces", x>>) = NsDir(s, x)
           /\ In(<<>>, PortLink(s, x)) = PortLink(s, x)
<1>1. /\ In(<<"subsystems">>, <<s>>) = SubsysDir(s)
      /\ In(<<"ports">>, <<s>>) = PortDir(s)
      /\ In(<<"hosts">>, <<s>>) = HostDir(s)
  BY Two DEF SubsysDir, PortDir, HostDir, Do, In
<1>2. In(<<"subsystems">>, NsPath(s, x)) = NsDir(s, x)
  BY Four DEF NsPath, NsDir, Joined, In
<1>3. In(<<"subsystems">>, AllowedPath(s, x)) = AllowedLink(s, x)
  BY Four DEF AllowedPath, AllowedLink, Joined, In
<1>4. In(<<"ports">>, LinkPath(s, x)) = PortLink(s, x)
  BY Four DEF LinkPath, PortLink, Joined, In
<1>5. In(SubsysDir(s), <<"allowed_hosts", x>>) = AllowedLink(s, x)
  BY Four DEF SubsysDir, AllowedLink, Joined, In
<1>6. In(SubsysDir(s), <<"namespaces", x>>) = NsDir(s, x)
  BY Four DEF SubsysDir, NsDir, Joined, In
<1>7. In(<<>>, PortLink(s, x)) = PortLink(s, x)
  BY DEF PortLink, In
<1> QED BY <1>1, <1>2, <1>3, <1>4, <1>5, <1>6, <1>7

LEMMA UpPaths ==
    ASSUME NEW s, NEW x
    PROVE  /\ Len(NsDir(s, x)) = 4
           /\ SubSeq(NsDir(s, x), 1, 1) = <<"subsystems">>
           /\ SubSeq(NsDir(s, x), 1, 2) = SubsysDir(s)
<1> DEFINE p == NsDir(s, x)
<1>1. Len(p) = 4 /\ p[1] = "subsystems" /\ p[2] = s
  BY DEF NsDir
<1>2. \E S : p \in Seq(S)
  BY Code4, NoCode DEF NsDir, IsCode
<1> HIDE DEF p
<1>3. SubSeq(p, 1, 1) = [k \in 1..1 |-> p[k]] /\ SubSeq(p, 1, 2) = [k \in 1..2 |-> p[k]]
  BY <1>1, <1>2
<1>4. [k \in 1..1 |-> p[k]] = <<"subsystems">>
  BY <1>1
<1>5. [k \in 1..2 |-> p[k]] = <<"subsystems", s>>
  BY <1>1
<1> QED BY <1>1, <1>3, <1>4, <1>5 DEF p, SubsysDir

LEMMA TopDirs ==
    ASSUME NEW t
    PROVE  {<<>>, Home, <<"subsystems">>, <<"ports">>, <<"hosts">>} \subseteq Dirs(t)
BY DEF Dirs, Top

LEMMA NotTop ==
    ASSUME NEW s, NEW x
    PROVE  /\ SubsysDir(s) \notin Top /\ PortDir(s) \notin Top /\ HostDir(s) \notin Top
           /\ NsDir(s, x) \notin Top
<1>1. /\ Len(SubsysDir(s)) = 2 /\ Len(PortDir(s)) = 2 /\ Len(HostDir(s)) = 2
      /\ Len(NsDir(s, x)) = 4
  BY DEF SubsysDir, PortDir, HostDir, NsDir
<1>2. \A y \in Top : Len(y) \in {0, 1}
  <2>1. Len(Home) = 1
    <3>1. PICK y : Home = <<y>>
      BY HomeAssumption
    <3> QED BY <3>1
  <2> QED BY <2>1 DEF Top
<1> QED BY <1>1, <1>2

LEMMA DirsOf ==
    ASSUME NEW t, NEW s, NEW x
    PROVE  /\ SubsysDir(s) \in Dirs(t) <=> s \in t.subsys
           /\ PortDir(s) \in Dirs(t) <=> s \in PortIds(t)
           /\ HostDir(s) \in Dirs(t) <=> s \in t.hosts
           /\ NsDir(s, x) \in Dirs(t) <=> \E n \in t.ns : n[1] = s /\ n[2] = x
<1>1. SubsysDir(s) \in Dirs(t) <=> s \in t.subsys
  <2>1. SubsysDir(s) \in Dirs(t) => \E y \in t.subsys : <<"subsystems", s>> = <<"subsystems", y>>
    BY NotTop DEF Dirs, SubsysDir
  <2>2. \A y : <<"subsystems", s>> = <<"subsystems", y>> => s = y
    OBVIOUS
  <2>3. s \in t.subsys => SubsysDir(s) \in Dirs(t)
    BY DEF Dirs, SubsysDir
  <2> QED BY <2>1, <2>2, <2>3
<1>2. PortDir(s) \in Dirs(t) <=> s \in PortIds(t)
  <2>1. PortDir(s) \in Dirs(t) => \E y \in t.ports : <<"ports", s>> = <<"ports", y[1]>>
    BY NotTop DEF Dirs, PortDir
  <2>2. \A y \in t.ports : <<"ports", s>> = <<"ports", y[1]>> => s = y[1]
    OBVIOUS
  <2>3. s \in PortIds(t) => PortDir(s) \in Dirs(t)
    BY DEF Dirs, PortDir, PortIds
  <2> QED BY <2>1, <2>2, <2>3 DEF PortIds
<1>3. HostDir(s) \in Dirs(t) <=> s \in t.hosts
  <2>1. HostDir(s) \in Dirs(t) => \E y \in t.hosts : <<"hosts", s>> = <<"hosts", y>>
    BY NotTop DEF Dirs, HostDir
  <2>2. \A y : <<"hosts", s>> = <<"hosts", y>> => s = y
    OBVIOUS
  <2>3. s \in t.hosts => HostDir(s) \in Dirs(t)
    BY DEF Dirs, HostDir
  <2> QED BY <2>1, <2>2, <2>3
<1>4. NsDir(s, x) \in Dirs(t) <=> \E n \in t.ns : n[1] = s /\ n[2] = x
  <2>1. NsDir(s, x) \in Dirs(t)
          => \E n \in t.ns : NsDir(s, x) = <<"subsystems", n[1], "namespaces", n[2]>>
    BY NotTop DEF Dirs, NsDir
  <2>2. \A n \in t.ns : NsDir(s, x) = <<"subsystems", n[1], "namespaces", n[2]>>
          => s = n[1] /\ x = n[2]
    BY DEF NsDir
  <2>3. \A n \in t.ns : n[1] = s /\ n[2] = x => NsDir(s, x) \in Dirs(t)
    BY DEF Dirs, NsDir
  <2> QED BY <2>1, <2>2, <2>3
<1> QED BY <1>1, <1>2, <1>3, <1>4

-----------------------------------------------------------------------------
(* What the next system call of a thread th does, where the tree is t and   *)
(* the working directory d: th2, t2 and d2 are what they are after it.      *)

To(th, c, sv, e, o) == [op |-> th.op, code |-> c, saved |-> sv, exists |-> e, ok |-> o,
                        before |-> th.before]
Goes(th, c) == To(th, c, th.saved, th.exists, th.ok)

RanGetCwd(c, th, t, d, th2, t2, d2) ==
    /\ t2 = t /\ d2 = d
    /\ d \in Dirs(t) => th2 = To(th, c, Do(d, th.saved), th.exists, th.ok)

RanEnter(x, c, th, t, d, th2, t2, d2) ==
    /\ t2 = t
    /\ x[2] \in Dirs(t) => d2 = x[2] /\ th2 = Goes(th, c)
    /\ x[2] \notin Dirs(t) =>
         d2 = d /\ th2 = To(th, Tail(SkipToBack(Do(x, c))), Tail(th.saved), th.exists, th.ok)

RanChDirAbs(x, c, th, t, d, th2, t2, d2) ==
    /\ t2 = t /\ th2 = Goes(th, c)
    /\ d2 = IF x[2] \in Dirs(t) THEN x[2] ELSE d

RanChDir(x, c, th, t, d, th2, t2, d2) ==
    /\ t2 = t /\ th2 = Goes(th, c)
    /\ d2 = IF d \o x[2] \in Dirs(t) THEN d \o x[2] ELSE d

RanChDirOut(x, c, th, t, d, th2, t2, d2) ==
    /\ t2 = t
    /\ d \o x[2] \in Dirs(t) => d2 = d \o x[2] /\ th2 = Goes(th, c)
    /\ d \o x[2] \notin Dirs(t) => d2 = d /\ th2 = Goes(th, SkipToBack(c))

RanChDirUp(x, c, th, t, d, th2, t2, d2) ==
    /\ t2 = t /\ th2 = Goes(th, c)
    /\ LET to == IF Len(d) >= x[2] THEN SubSeq(d, 1, Len(d) - x[2]) ELSE Home
       IN  d2 = IF to \in Dirs(t) THEN to ELSE d

RanBack(c, th, t, d, th2, t2, d2) ==
    /\ t2 = t /\ th2 = To(th, c, Tail(th.saved), th.exists, th.ok)
    /\ d2 = IF th.saved[1] \in Dirs(t) THEN th.saved[1] ELSE d

RanMkDir(x, c, th, t, d, th2, t2, d2) ==
    LET p == d \o x[2]
    IN  /\ d2 = d
        /\ CanMake(t, p) =>
             /\ t2 = IF p \in Dirs(t) THEN t ELSE Made(t, p)
             /\ th2 = To(th, c, th.saved, p \in Dirs(t), th.ok)
        /\ ~CanMake(t, p) =>
             t2 = t /\ th2 = To(th, SkipToBack(Do(x, c)), th.saved, th.exists, FALSE)

RanRmDir(x, c, th, t, d, th2, t2, d2) ==
    t2 = Removed(t, d \o x[2]) /\ th2 = Goes(th, c) /\ d2 = d

RanSymLink(x, c, th, t, d, th2, t2, d2) ==
    LET p == d \o x[2]
    IN  /\ d2 = d
        /\ CanLink(t, p, x[3]) => t2 = Linked(t, p) /\ th2 = Goes(th, c)
        /\ ~CanLink(t, p, x[3]) =>
             t2 = t /\ th2 = To(th, SkipToBack(Do(x, c)), th.saved, th.exists, FALSE)

RanRemove(x, c, th, t, d, th2, t2, d2) ==
    t2 = Unlinked(t, d \o x[2]) /\ th2 = Goes(th, c) /\ d2 = d

RanWrite(x, c, th, t, d, th2, t2, d2) ==
    t2 = Wrote(t, d, x[1], x[2]) /\ th2 = Goes(th, c) /\ d2 = d

RanRead(x, c, th, t, d, th2, t2, d2) ==
    /\ t2 = t /\ d2 = d
    /\ th2 = To(th, c, th.saved, th.exists,
                ~th.exists \/ (Len(d) = 2 /\ <<d[2], x[2]>> \in t.ports))

\* Names for the tree and the directory.
NamesIn(c, t, d) ==
    LET here == IF Len(d) = 2 /\ d[1] = "subsystems" THEN {d[2]} ELSE {}
    IN  CASE c[1] = "opendir_hosts" -> {a[2] : a \in {b \in t.allowed : b[1] \in here}}
          [] c[1] = "opendir_ns"    -> {n[2] : n \in {m \in t.ns : m[1] \in here}}
          [] c[1] = "opendir_ports" -> IF d = <<>> THEN PortIds(t) ELSE {}
          [] c[1] = "opendir_links" ->
                 {l[2] : l \in {m \in t.links : m[1] = c[2] /\ d = <<"ports">>}}
          [] c[1] = "opendir_subsystems" -> t.subsys
          [] c[1] = "opendir_all_ports"  -> PortIds(t)
          [] c[1] = "opendir_all_hosts"  -> t.hosts

OpenCalls == {"opendir_hosts", "opendir_ns", "opendir_ports", "opendir_links",
              "opendir_subsystems", "opendir_all_ports", "opendir_all_hosts"}

RanOpenDir(x, c, th, t, d, th2, t2, d2) ==
    /\ t2 = t /\ d2 = d
    /\ th2 = Goes(th, IF x[1] = "opendir_links" /\ d \o <<x[2]>> \notin Dirs(t)
                      THEN SkipToBack(c) ELSE Loop(NamesIn(x, t, d), x, c))

RanReadDir(x, c, th, t, d, th2, t2, d2) ==
    /\ t2 = t /\ d2 = d
    /\ \/ x[2] = {} /\ th2 = Goes(th, c)
       \/ \E n \in x[2] : th2 = Goes(th, Joined(Entry(x[3], n), Loop(x[2] \ {n}, x[3], c)))

Ran(x, c, th, t, d, th2, t2, d2) ==
    /\ x[1] = "getcwd"    => RanGetCwd(c, th, t, d, th2, t2, d2)
    /\ x[1] = "enter"     => RanEnter(x, c, th, t, d, th2, t2, d2)
    /\ x[1] = "chdir_abs" => RanChDirAbs(x, c, th, t, d, th2, t2, d2)
    /\ x[1] = "chdir"     => RanChDir(x, c, th, t, d, th2, t2, d2)
    /\ x[1] = "chdir_out" => RanChDirOut(x, c, th, t, d, th2, t2, d2)
    /\ x[1] = "chdir_up"  => RanChDirUp(x, c, th, t, d, th2, t2, d2)
    /\ x[1] = "back"      => RanBack(c, th, t, d, th2, t2, d2)
    /\ x[1] = "mkdir"     => RanMkDir(x, c, th, t, d, th2, t2, d2)
    /\ x[1] = "rmdir"     => RanRmDir(x, c, th, t, d, th2, t2, d2)
    /\ x[1] = "symlink"   => RanSymLink(x, c, th, t, d, th2, t2, d2)
    /\ x[1] = "remove"    => RanRemove(x, c, th, t, d, th2, t2, d2)
    /\ x[1] \in {"write_any", "write_dev", "write_addr"} => RanWrite(x, c, th, t, d, th2, t2, d2)
    /\ x[1] = "read_addr" => RanRead(x, c, th, t, d, th2, t2, d2)
    /\ x[1] \in OpenCalls => RanOpenDir(x, c, th, t, d, th2, t2, d2)
    /\ x[1] = "readdir"   => RanReadDir(x, c, th, t, d, th2, t2, d2)

Step(i) ==
    \/ Request(i) \/ Return(i) \/ GetCwd(i) \/ ChDir(i) \/ ChDirBack(i)
    \/ MkDir(i) \/ RmDir(i) \/ SymLink(i) \/ RemoveLink(i) \/ Write(i) \/ Read(i)
    \/ OpenDir(i) \/ ReadDir(i)

\* The thread functions before and after a step, and what the others do in it.
OthersStay(i) ==
    /\ thread' = [j \in Threads |-> thread'[j]]
    /\ \A j \in Threads \ {i} : thread'[j] = thread[j]

LEMMA RanSteps ==
    ASSUME NEW i \in Threads, thread = [j \in Threads |-> thread[j]], IsThread(thread[i]),
           NEW x, NEW c, IsCode(c), thread[i].code = Do(x, c), thread[i].op # <<>>, Step(i)
    PROVE  /\ Ran(x, c, thread[i], tree, cwd, thread'[i], tree', cwd')
           /\ OthersStay(i)
<1> DEFINE th == thread[i]
<1>0. /\ th.code # <<>> /\ th.code[1] = x /\ Tail(th.code) = c
      /\ Call(i) = x /\ Rest(i) = c
  BY DoCode DEF Call, Rest
<1>1. CASE Request(i) \/ Return(i)
  BY <1>1, <1>0 DEF Request, Return
<1>2. CASE GetCwd(i)
  <2>1. x[1] = "getcwd" /\ tree' = tree /\ cwd' = cwd
    BY <1>2, <1>0 DEF GetCwd, Calls
  <2>2. PICK e \in IF cwd \in Dirs(tree) THEN {cwd} ELSE Dirs(tree) :
           thread' = [thread EXCEPT ![i].code = c, ![i].saved = Do(e, th.saved)]
    BY <1>2, <1>0 DEF GetCwd, Do
  <2>3. thread'[i] = To(th, c, Do(e, th.saved), th.exists, th.ok)
    BY <2>2 DEF IsThread, To
  <2>4. OthersStay(i)
    BY <2>2 DEF OthersStay
  <2>5. RanGetCwd(c, th, tree, cwd, thread'[i], tree', cwd')
    BY <2>1, <2>2, <2>3 DEF RanGetCwd
  <2> QED BY <2>1, <2>4, <2>5 DEF Ran, OpenCalls
<1>3. CASE ChDir(i)
  <2> DEFINE to == CASE x[1] \in {"enter", "chdir_abs"} -> x[2]
                     [] x[1] = "chdir_up" ->
                            IF Len(cwd) >= x[2] THEN SubSeq(cwd, 1, Len(cwd) - x[2]) ELSE Home
                     [] OTHER -> cwd \o x[2]
  <2>1. /\ x[1] \in {"enter", "chdir_abs", "chdir", "chdir_out", "chdir_up"}
        /\ tree' = tree
        /\ cwd' = IF to \in Dirs(tree) THEN to ELSE cwd
        /\ IF to \notin Dirs(tree) /\ x[1] = "enter"
           THEN thread' = [thread EXCEPT ![i].code = Tail(SkipToBack(Do(x, c))),
                                         ![i].saved = Tail(th.saved)]
           ELSE thread' = [thread EXCEPT ![i].code =
                              IF to \notin Dirs(tree) /\ x[1] = "chdir_out"
                              THEN SkipToBack(c) ELSE c]
    BY <1>3, <1>0 DEF ChDir, Calls, Then
  <2>2. OthersStay(i)
    BY <2>1 DEF OthersStay
  <2>3. to \notin Dirs(tree) /\ x[1] = "enter" =>
          thread'[i] = To(th, Tail(SkipToBack(Do(x, c))), Tail(th.saved), th.exists, th.ok)
    BY <2>1 DEF IsThread, To
  <2>4. ~(to \notin Dirs(tree) /\ x[1] = "enter") =>
          thread'[i] = Goes(th, IF to \notin Dirs(tree) /\ x[1] = "chdir_out"
                                THEN SkipToBack(c) ELSE c)
    BY <2>1 DEF IsThread, To, Goes
  <2>5. CASE x[1] = "enter"
    <3>1. to = x[2]
      BY <2>5
    <3>2. RanEnter(x, c, th, tree, cwd, thread'[i], tree', cwd')
      BY <2>1, <2>3, <2>4, <2>5, <3>1 DEF RanEnter
    <3> QED BY <2>2, <2>5, <3>2 DEF Ran, OpenCalls
  <2>6. CASE x[1] = "chdir_abs"
    <3>1. to = x[2]
      BY <2>6
    <3>2. RanChDirAbs(x, c, th, tree, cwd, thread'[i], tree', cwd')
      BY <2>1, <2>4, <2>6, <3>1 DEF RanChDirAbs
    <3> QED BY <2>2, <2>6, <3>2 DEF Ran, OpenCalls
  <2>7. CASE x[1] = "chdir"
    <3>1. to = cwd \o x[2]
      BY <2>7
    <3> HIDE DEF to
    <3>2. RanChDir(x, c, th, tree, cwd, thread'[i], tree', cwd')
      BY <2>1, <2>4, <2>7, <3>1 DEF RanChDir
    <3> QED BY <2>2, <2>7, <3>2 DEF Ran, OpenCalls
  <2>8. CASE x[1] = "chdir_out"
    <3>1. to = cwd \o x[2]
      BY <2>8
    <3> HIDE DEF to
    <3>2. RanChDirOut(x, c, th, tree, cwd, thread'[i], tree', cwd')
      BY <2>1, <2>4, <2>8, <3>1 DEF RanChDirOut
    <3> QED BY <2>2, <2>8, <3>2 DEF Ran, OpenCalls
  <2>9. CASE x[1] = "chdir_up"
    <3>1. to = IF Len(cwd) >= x[2] THEN SubSeq(cwd, 1, Len(cwd) - x[2]) ELSE Home
      BY <2>9
    <3> HIDE DEF to
    <3>2. RanChDirUp(x, c, th, tree, cwd, thread'[i], tree', cwd')
      BY <2>1, <2>4, <2>9, <3>1 DEF RanChDirUp
    <3> QED BY <2>2, <2>9, <3>2 DEF Ran, OpenCalls
  <2> QED BY <2>1, <2>5, <2>6, <2>7, <2>8, <2>9
<1>4. CASE ChDirBack(i)
  <2>1. /\ x[1] = "back" /\ tree' = tree
        /\ cwd' = IF th.saved[1] \in Dirs(tree) THEN th.saved[1] ELSE cwd
        /\ thread' = [thread EXCEPT ![i].code = c, ![i].saved = Tail(th.saved)]
    BY <1>4, <1>0 DEF ChDirBack, Calls
  <2>2. OthersStay(i)
    BY <2>1 DEF OthersStay
  <2>3. thread'[i] = To(th, c, Tail(th.saved), th.exists, th.ok)
    BY <2>1 DEF IsThread, To
  <2>4. RanBack(c, th, tree, cwd, thread'[i], tree', cwd')
    BY <2>1, <2>3 DEF RanBack
  <2> QED BY <2>1, <2>2, <2>4 DEF Ran, OpenCalls
<1>5. CASE MkDir(i)
  <2> DEFINE p == cwd \o x[2]
  <2>1. /\ x[1] = "mkdir" /\ cwd' = cwd
        /\ CanMake(tree, p) =>
             /\ tree' = IF p \in Dirs(tree) THEN tree ELSE Made(tree, p)
             /\ thread' = [thread EXCEPT ![i].code = c, ![i].exists = p \in Dirs(tree)]
        /\ ~CanMake(tree, p) =>
             /\ tree' = tree
             /\ thread' = [thread EXCEPT ![i].code = SkipToBack(Do(x, c)), ![i].ok = FALSE]
    BY <1>5, <1>0 DEF MkDir, Calls
  <2> HIDE DEF p
  <2>2. OthersStay(i)
    BY <2>1 DEF OthersStay
  <2>3. CanMake(tree, p) => thread'[i] = To(th, c, th.saved, p \in Dirs(tree), th.ok)
    BY <2>1 DEF IsThread, To
  <2>4. ~CanMake(tree, p) =>
          thread'[i] = To(th, SkipToBack(Do(x, c)), th.saved, th.exists, FALSE)
    BY <2>1 DEF IsThread, To
  <2>5. RanMkDir(x, c, th, tree, cwd, thread'[i], tree', cwd')
    BY <2>1, <2>3, <2>4 DEF RanMkDir, p
  <2> QED BY <2>1, <2>2, <2>5 DEF Ran, OpenCalls
<1>6. CASE RmDir(i)
  <2>1. /\ x[1] = "rmdir" /\ cwd' = cwd /\ tree' = Removed(tree, cwd \o x[2])
        /\ thread' = [thread EXCEPT ![i].code = c]
    BY <1>6, <1>0 DEF RmDir, Calls, Then
  <2>2. OthersStay(i)
    BY <2>1 DEF OthersStay
  <2>3. thread'[i] = Goes(th, c)
    BY <2>1 DEF IsThread, To, Goes
  <2>4. RanRmDir(x, c, th, tree, cwd, thread'[i], tree', cwd')
    BY <2>1, <2>3 DEF RanRmDir
  <2> QED BY <2>1, <2>2, <2>4 DEF Ran, OpenCalls
<1>7. CASE SymLink(i)
  <2> DEFINE p == cwd \o x[2]
  <2>1. /\ x[1] = "symlink" /\ cwd' = cwd
        /\ CanLink(tree, p, x[3]) =>
             tree' = Linked(tree, p) /\ thread' = [thread EXCEPT ![i].code = c]
        /\ ~CanLink(tree, p, x[3]) =>
             /\ tree' = tree
             /\ thread' = [thread EXCEPT ![i].code = SkipToBack(Do(x, c)), ![i].ok = FALSE]
    BY <1>7, <1>0 DEF SymLink, Calls, Then
  <2> HIDE DEF p
  <2>2. OthersStay(i)
    BY <2>1 DEF OthersStay
  <2>3. CanLink(tree, p, x[3]) => thread'[i] = Goes(th, c)
    BY <2>1 DEF IsThread, To, Goes
  <2>4. ~CanLink(tree, p, x[3]) =>
          thread'[i] = To(th, SkipToBack(Do(x, c)), th.saved, th.exists, FALSE)
    BY <2>1 DEF IsThread, To
  <2>5. RanSymLink(x, c, th, tree, cwd, thread'[i], tree', cwd')
    BY <2>1, <2>3, <2>4 DEF RanSymLink, p
  <2> QED BY <2>1, <2>2, <2>5 DEF Ran, OpenCalls
<1>8. CASE RemoveLink(i)
  <2>1. /\ x[1] = "remove" /\ cwd' = cwd /\ tree' = Unlinked(tree, cwd \o x[2])
        /\ thread' = [thread EXCEPT ![i].code = c]
    BY <1>8, <1>0 DEF RemoveLink, Calls, Then
  <2>2. OthersStay(i)
    BY <2>1 DEF OthersStay
  <2>3. thread'[i] = Goes(th, c)
    BY <2>1 DEF IsThread, To, Goes
  <2>4. RanRemove(x, c, th, tree, cwd, thread'[i], tree', cwd')
    BY <2>1, <2>3 DEF RanRemove
  <2> QED BY <2>1, <2>2, <2>4 DEF Ran, OpenCalls
<1>9. CASE Write(i)
  <2>1. /\ x[1] \in {"write_any", "write_dev", "write_addr"} /\ cwd' = cwd
        /\ tree' = Wrote(tree, cwd, x[1], x[2])
        /\ thread' = [thread EXCEPT ![i].code = c]
    BY <1>9, <1>0 DEF Write, Calls, Then
  <2>2. OthersStay(i)
    BY <2>1 DEF OthersStay
  <2>3. thread'[i] = Goes(th, c)
    BY <2>1 DEF IsThread, To, Goes
  <2>4. RanWrite(x, c, th, tree, cwd, thread'[i], tree', cwd')
    BY <2>1, <2>3 DEF RanWrite
  <2> QED BY <2>1, <2>2, <2>4 DEF Ran, OpenCalls
<1>10. CASE Read(i)
  <2> DEFINE o == ~th.exists \/ (Len(cwd) = 2 /\ <<cwd[2], x[2]>> \in tree.ports)
  <2>1. /\ x[1] = "read_addr" /\ cwd' = cwd /\ tree' = tree
        /\ thread' = [thread EXCEPT ![i].code = c, ![i].ok = o]
    BY <1>10, <1>0 DEF Read, Calls
  <2> HIDE DEF o
  <2>2. OthersStay(i)
    BY <2>1 DEF OthersStay
  <2>3. thread'[i] = To(th, c, th.saved, th.exists, o)
    BY <2>1 DEF IsThread, To
  <2>4. RanRead(x, c, th, tree, cwd, thread'[i], tree', cwd')
    BY <2>1, <2>3 DEF RanRead, o
  <2> QED BY <2>1, <2>2, <2>4 DEF Ran, OpenCalls
<1>11. CASE OpenDir(i)
  <2> DEFINE c2 == IF x[1] = "opendir_links" /\ cwd \o <<x[2]>> \notin Dirs(tree)
                   THEN SkipToBack(c) ELSE Loop(NamesIn(x, tree, cwd), x, c)
  <2>0. Names(i) = NamesIn(x, tree, cwd)
    BY <1>0 DEF Names, NamesIn
  <2>1. /\ x[1] \in OpenCalls /\ cwd' = cwd /\ tree' = tree
        /\ thread' = [thread EXCEPT ![i].code = c2]
    BY <1>11, <1>0, <2>0 DEF OpenDir, Calls, Then, OpenCalls, Loop, Do
  <2> HIDE DEF c2
  <2>2. OthersStay(i)
    BY <2>1 DEF OthersStay
  <2>3. thread'[i] = Goes(th, c2)
    BY <2>1 DEF IsThread, To, Goes
  <2>4. RanOpenDir(x, c, th, tree, cwd, thread'[i], tree', cwd')
    BY <2>1, <2>3 DEF RanOpenDir, c2
  <2> QED BY <2>1, <2>2, <2>4 DEF Ran, OpenCalls
<1>12. CASE ReadDir(i)
  <2> DEFINE next(n) == Joined(Entry(x[3], n), Loop(x[2] \ {n}, x[3], c))
  <2>1. x[1] = "readdir" /\ cwd' = cwd /\ tree' = tree
    BY <1>12, <1>0 DEF ReadDir, Calls
  <2>2. \/ x[2] = {} /\ thread' = [thread EXCEPT ![i].code = c]
        \/ \E n \in x[2] : thread' = [thread EXCEPT ![i].code = next(n)]
    BY <1>12, <1>0 DEF ReadDir, Then, Loop, Do, Joined
  <2> HIDE DEF next
  <2>3. \/ x[2] = {} /\ thread'[i] = Goes(th, c) /\ OthersStay(i)
        \/ \E n \in x[2] : thread'[i] = Goes(th, next(n)) /\ OthersStay(i)
    BY <2>2 DEF IsThread, To, Goes, OthersStay
  <2>4. OthersStay(i) /\ RanReadDir(x, c, th, tree, cwd, thread'[i], tree', cwd')
    BY <2>1, <2>3 DEF RanReadDir, next
  <2> QED BY <2>1, <2>4 DEF Ran, OpenCalls
<1> QED BY <1>1, <1>2, <1>3, <1>4, <1>5, <1>6, <1>7, <1>8, <1>9, <1>10, <1>11, <1>12 DEF Step

-----------------------------------------------------------------------------
(* The steps into an operation and out of it.                               *)

\* What is left of an operation ends with the chdir back, and then comes r.
Skips(c, r) == IsCode(c) /\ HasBack(c) /\ SkipToBack(c) = Do(Back, r)

LEMMA SkipsBack == ASSUME NEW r, IsCode(r) PROVE Skips(Do(Back, r), r)
BY DoCode, SkipHere DEF Skips

LEMMA SkipsDo ==
    ASSUME NEW r, NEW c, Skips(c, r), NEW x, x[1] # "back"
    PROVE  Skips(Do(x, c), r)
<1>1. x # Back
  BY DEF Back
<1> QED BY <1>1, DoCode, SkipOver DEF Skips

LEMMA BodySkips ==
    ASSUME NEW op, op[1] \in OpNames, NEW r, IsCode(r), op[1] = "reset_config" => r = <<>>
    PROVE  Skips(BodyOf(op, r), r)
<1>0. Skips(Do(Back, r), r)
  BY SkipsBack
<1>1. CASE op[1] = "create_subsys"
  BY <1>0, <1>1, SkipsDo DEF BodyOf
<1>2. CASE op[1] = "delete_subsys"
  <2>1. Skips(Removes(op[2], r), r)
    BY <1>0, SkipsDo DEF Removes
  <2>2. Skips(AfterPorts(op[2], r), r)
    BY <2>1, SkipsDo DEF AfterPorts
  <2>3. Skips(Do(<<"opendir_ports", op[2]>>, AfterPorts(op[2], r)), r)
    BY <2>2, SkipsDo
  <2>4. Skips(AfterNs(op[2], r), r)
    BY <2>3, SkipsDo DEF AfterNs
  <2>5. Skips(AfterHosts(op[2], r), r)
    BY <2>4, SkipsDo DEF AfterHosts
  <2>6. Skips(Do(<<"opendir_hosts">>, AfterHosts(op[2], r)), r)
    BY <2>5, SkipsDo
  <2> QED BY <1>2, <2>6 DEF BodyOf
<1>3. CASE op[1] = "create_ns"
  BY <1>0, <1>3, SkipsDo DEF BodyOf
<1>4. CASE op[1] = "delete_ns"
  BY <1>0, <1>4, SkipsDo DEF BodyOf
<1>5. CASE op[1] \in {"create_host", "delete_host", "unlink_host", "unlink_port"}
  BY <1>0, <1>5, SkipsDo DEF BodyOf
<1>6. CASE op[1] \in {"link_host", "link_port"}
  BY <1>0, <1>6, SkipsDo DEF BodyOf
<1>7. CASE op[1] = "create_portid"
  BY <1>0, <1>7, SkipsDo DEF BodyOf
<1>8. CASE op[1] = "delete_portid"
  BY <1>0, <1>8, SkipsDo DEF BodyOf, Removes
<1>9. CASE op[1] = "reset_config"
  BY <1>0, <1>9, SkipsDo DEF BodyOf, AfterSubsystems, AfterAllPorts
<1> QED BY <1>1, <1>2, <1>3, <1>4, <1>5, <1>6, <1>7, <1>8, <1>9 DEF OpNames

Runs(th, t, d, th2, t2, d2) ==
    \A x, c : IsCode(c) /\ th.code = Do(x, c) => Ran(x, c, th, t, d, th2, t2, d2)

LEMMA ToFields ==
    ASSUME NEW th, NEW c, NEW sv, NEW e, NEW o
    PROVE  /\ To(th, c, sv, e, o).op = th.op /\ To(th, c, sv, e, o).before = th.before
           /\ To(th, c, sv, e, o).code = c /\ To(th, c, sv, e, o).saved = sv
           /\ To(th, c, sv, e, o).exists = e /\ To(th, c, sv, e, o).ok = o
           /\ Goes(th, c).op = th.op /\ Goes(th, c).before = th.before
           /\ Goes(th, c).code = c /\ Goes(th, c).saved = th.saved
           /\ Goes(th, c).exists = th.exists /\ Goes(th, c).ok = th.ok
BY DEF To, Goes

LEMMA BeginSteps ==
    ASSUME NEW op, op[1] \in OpNames, NEW b, NEW r, IsCode(r),
           op[1] = "reset_config" => r = <<>>,
           NEW th, NEW t, NEW d, NEW th2, NEW t2, NEW d2, Runs(th, t, d, th2, t2, d2),
           NEW sv, IsCode(sv), NEW home, home \in {Home, <<>>},
           Begins(op, b, r, th, t, d, sv, home),
           DirOf(op) \notin Dirs(b) => Alone(b, op) = Ok(b)
    PROVE  \/ Begins(op, b, r, th2, t2, d2, sv, home)
           \/ Entered(op, b, r, th2, t2, d2, sv, home)
           \/ Over(op, b, r, th2, t2, d2, sv, home)
<1> DEFINE e == Do(<<"enter", DirOf(op)>>, BodyOf(op, r))
<1>1. Skips(BodyOf(op, r), r)
  BY BodySkips
<1>2. Skips(e, r)
  BY <1>1, SkipsDo
<1>3. home \in Dirs(b)
  BY TopDirs
<1>4. CASE th.code = Do(Start, e) /\ th.saved = sv
  <2>1. Ran(Start, e, th, t, d, th2, t2, d2)
    BY <1>2, <1>4 DEF Runs, Skips
  <2>2. RanGetCwd(e, th, t, d, th2, t2, d2)
    BY <2>1 DEF Ran, Start
  <2>3. t = b /\ d = home /\ th.ok = TRUE
    BY DEF Begins
  <2>4. th2 = To(th, e, Do(home, sv), th.exists, th.ok) /\ t2 = b /\ d2 = home
    BY <2>2, <2>3, <1>3, <1>4 DEF RanGetCwd
  <2>5. th2.code = e /\ th2.saved = Do(home, sv) /\ th2.ok = TRUE
    BY <2>3, <2>4, ToFields
  <2> QED BY <2>4, <2>5 DEF Begins
<1>5. CASE th.code = e /\ th.saved = Do(home, sv)
  <2>1. Ran(<<"enter", DirOf(op)>>, BodyOf(op, r), th, t, d, th2, t2, d2)
    BY <1>1, <1>5 DEF Runs, Skips
  <2>2. RanEnter(<<"enter", DirOf(op)>>, BodyOf(op, r), th, t, d, th2, t2, d2)
    BY <2>1 DEF Ran
  <2>3. t = b /\ d = home /\ th.ok = TRUE
    BY DEF Begins
  <2>4. CASE DirOf(op) \in Dirs(b)
    <3>1. d2 = DirOf(op) /\ th2 = Goes(th, BodyOf(op, r)) /\ t2 = b
      BY <2>2, <2>3, <2>4 DEF RanEnter
    <3>2. th2.code = BodyOf(op, r) /\ th2.saved = th.saved /\ th2.ok = th.ok
      BY <3>1, ToFields
    <3> QED BY <1>5, <2>3, <2>4, <3>1, <3>2 DEF Entered
  <2>5. CASE DirOf(op) \notin Dirs(b)
    <3>1. d2 = d /\ t2 = t /\ th2 = To(th, Tail(SkipToBack(e)), Tail(th.saved), th.exists, th.ok)
      BY <2>2, <2>3, <2>5 DEF RanEnter
    <3>2. Tail(SkipToBack(e)) = r
      BY <1>2, DoCode DEF Skips
    <3>3. Tail(th.saved) = sv
      BY <1>5, DoCode
    <3>4. th2 = To(th, r, sv, th.exists, th.ok)
      BY <3>1, <3>2, <3>3
    <3>5. th2.code = r /\ th2.saved = sv /\ th2.ok = th.ok
      BY <3>4, ToFields
    <3> QED BY <2>3, <2>5, <3>1, <3>5 DEF Over, Ok
  <2> QED BY <2>4, <2>5
<1> QED BY <1>4, <1>5 DEF Begins

LEMMA LeaveSteps ==
    ASSUME NEW op, NEW b, NEW r, IsCode(r),
           NEW th, NEW t, NEW d, NEW th2, NEW t2, NEW d2, Runs(th, t, d, th2, t2, d2),
           NEW sv, IsCode(sv), NEW home, home \in {Home, <<>>},
           Leaves(op, b, r, th, t, sv, home)
    PROVE  Over(op, b, r, th2, t2, d2, sv, home)
<1>1. Ran(Back, r, th, t, d, th2, t2, d2)
  BY DEF Runs, Leaves
<1>2. RanBack(r, th, t, d, th2, t2, d2)
  BY <1>1 DEF Ran, Back
<1>3. th.saved[1] = home /\ Tail(th.saved) = sv /\ home \in Dirs(t)
  BY DoCode, TopDirs DEF Leaves
<1>4. th2 = To(th, r, sv, th.exists, th.ok) /\ t2 = t /\ d2 = home
  BY <1>2, <1>3 DEF RanBack
<1>5. th2.code = r /\ th2.saved = sv /\ th2.ok = th.ok
  BY <1>4, ToFields
<1> QED BY <1>4, <1>5 DEF Leaves, Over

-----------------------------------------------------------------------------
(* What the kernel does with each kind of path.                             *)

PlusSubsys(t, s)     == [t EXCEPT !.subsys = @ \cup {s}]
LessSubsys(t, s)     == [t EXCEPT !.subsys = @ \ {s}, !.any = @ \ {s}]
SetAny(t, s, v)      == [t EXCEPT !.any = IF v THEN @ \cup {s} ELSE @ \ {s}]
PlusNs(t, s, n)      == [t EXCEPT !.ns = @ \cup {<<s, n, Unset>>}]
LessNs(t, s, n)      == [t EXCEPT !.ns = {m \in @ : m[1] # s \/ m[2] # n}]
SetNs(t, s, n, v)    == [t EXCEPT !.ns = {m \in @ : m[1] # s \/ m[2] # n} \cup {<<s, n, v>>}]
PlusAllowed(t, s, h) == [t EXCEPT !.allowed = @ \cup {<<s, h>>}]
LessAllowed(t, s, h) == [t EXCEPT !.allowed = @ \ {<<s, h>>}]
PlusPort(t, p)       == [t EXCEPT !.ports = @ \cup {<<p, Unset>>}]
LessPort(t, p)       == [t EXCEPT !.ports = {q \in @ : q[1] # p}]
SetPort(t, p, v)     == [t EXCEPT !.ports = {q \in @ : q[1] # p} \cup {<<p, v>>}]
PlusLink(t, p, s)    == [t EXCEPT !.links = @ \cup {<<p, s>>}]
LessLink(t, p, s)    == [t EXCEPT !.links = @ \ {<<p, s>>}]
PlusHost(t, h)       == [t EXCEPT !.hosts = @ \cup {h}]
LessHost(t, h)       == [t EXCEPT !.hosts = @ \ {h}]

LEMMA SameTree ==
    ASSUME NEW t, IsTree(t), NEW u, IsTree(u),
           t.subsys = u.subsys, t.any = u.any, t.ns = u.ns, t.allowed = u.allowed,
           t.ports = u.ports, t.links = u.links, t.hosts = u.hosts
    PROVE  t = u
BY DEF IsTree

\* u has the fields of t, but for those in fs.
But(t, u, fs) ==
    /\ IsTree(u)
    /\ "subsys" \notin fs => u.subsys = t.subsys
    /\ "any" \notin fs => u.any = t.any
    /\ "ns" \notin fs => u.ns = t.ns
    /\ "allowed" \notin fs => u.allowed = t.allowed
    /\ "ports" \notin fs => u.ports = t.ports
    /\ "links" \notin fs => u.links = t.links
    /\ "hosts" \notin fs => u.hosts = t.hosts

LEMMA PlusSubsysIs ==
    ASSUME NEW t, IsTree(t), NEW s
    PROVE  /\ But(t, PlusSubsys(t, s), {"subsys"})
           /\ PlusSubsys(t, s).subsys = t.subsys \cup {s}
BY DEF IsTree, But, PlusSubsys

LEMMA LessSubsysIs ==
    ASSUME NEW t, IsTree(t), NEW s
    PROVE  /\ But(t, LessSubsys(t, s), {"subsys", "any"})
           /\ LessSubsys(t, s).subsys = t.subsys \ {s}
           /\ LessSubsys(t, s).any = t.any \ {s}
<1>1. LessSubsys(t, s) = [subsys |-> t.subsys \ {s}, any |-> t.any \ {s}, ns |-> t.ns,
                          allowed |-> t.allowed, ports |-> t.ports, links |-> t.links,
                          hosts |-> t.hosts]
  <2> DEFINE u == [t EXCEPT !.subsys = @ \ {s}]
  <2>1. /\ IsTree(u) /\ u.subsys = t.subsys \ {s} /\ u.any = t.any /\ u.ns = t.ns
        /\ u.allowed = t.allowed /\ u.ports = t.ports /\ u.links = t.links /\ u.hosts = t.hosts
    BY DEF IsTree
  <2>2. LessSubsys(t, s) = [u EXCEPT !.any = @ \ {s}]
    BY DEF LessSubsys
  <2> HIDE DEF u
  <2> QED BY <2>1, <2>2 DEF IsTree
<1> QED BY <1>1 DEF IsTree, But

LEMMA SetAnyIs ==
    ASSUME NEW t, IsTree(t), NEW s, NEW v
    PROVE  /\ But(t, SetAny(t, s, v), {"any"})
           /\ SetAny(t, s, v).any = (IF v THEN t.any \cup {s} ELSE t.any \ {s})
BY DEF IsTree, But, SetAny

LEMMA PlusNsIs ==
    ASSUME NEW t, IsTree(t), NEW s, NEW n
    PROVE  /\ But(t, PlusNs(t, s, n), {"ns"})
           /\ PlusNs(t, s, n).ns = t.ns \cup {<<s, n, Unset>>}
BY DEF IsTree, But, PlusNs

LEMMA LessNsIs ==
    ASSUME NEW t, IsTree(t), NEW s, NEW n
    PROVE  /\ But(t, LessNs(t, s, n), {"ns"})
           /\ LessNs(t, s, n).ns = {m \in t.ns : m[1] # s \/ m[2] # n}
BY DEF IsTree, But, LessNs

LEMMA SetNsIs ==
    ASSUME NEW t, IsTree(t), NEW s, NEW n, NEW v
    PROVE  /\ But(t, SetNs(t, s, n, v), {"ns"})
           /\ SetNs(t, s, n, v).ns = {m \in t.ns : m[1] # s \/ m[2] # n} \cup {<<s, n, v>>}
BY DEF IsTree, But, SetNs

LEMMA PlusAllowedIs ==
    ASSUME NEW t, IsTree(t), NEW s, NEW n
    PROVE  /\ But(t, PlusAllowed(t, s, n), {"allowed"})
           /\ PlusAllowed(t, s, n).allowed = t.allowed \cup {<<s, n>>}
BY DEF IsTree, But, PlusAllowed

LEMMA LessAllowedIs ==
    ASSUME NEW t, IsTree(t), NEW s, NEW n
    PROVE  /\ But(t, LessAllowed(t, s, n), {"allowed"})
           /\ LessAllowed(t, s, n).allowed = t.allowed \ {<<s, n>>}
BY DEF IsTree, But, LessAllowed

LEMMA PlusPortIs ==
    ASSUME NEW t, IsTree(t), NEW s
    PROVE  /\ But(t, PlusPort(t, s), {"ports"})
           /\ PlusPort(t, s).ports = t.ports \cup {<<s, Unset>>}
BY DEF IsTree, But, PlusPort

LEMMA LessPortIs ==
    ASSUME NEW t, IsTree(t), NEW s
    PROVE  /\ But(t, LessPort(t, s), {"ports"})
           /\ LessPort(t, s).ports = {q \in t.ports : q[1] # s}
BY DEF IsTree, But, LessPort

LEMMA SetPortIs ==
    ASSUME NEW t, IsTree(t), NEW s, NEW v
    PROVE  /\ But(t, SetPort(t, s, v), {"ports"})
           /\ SetPort(t, s, v).ports = {q \in t.ports : q[1] # s} \cup {<<s, v>>}
<1>1. SetPort(t, s, v) = [subsys |-> t.subsys, any |-> t.any, ns |-> t.ns,
                          allowed |-> t.allowed,
                          ports |-> {q \in t.ports : q[1] # s} \cup {<<s, v>>},
                          links |-> t.links, hosts |-> t.hosts]
  BY DEF IsTree, SetPort
<1> QED BY <1>1 DEF IsTree, But

LEMMA PlusLinkIs ==
    ASSUME NEW t, IsTree(t), NEW s, NEW n
    PROVE  /\ But(t, PlusLink(t, s, n), {"links"})
           /\ PlusLink(t, s, n).links = t.links \cup {<<s, n>>}
BY DEF IsTree, But, PlusLink

LEMMA LessLinkIs ==
    ASSUME NEW t, IsTree(t), NEW s, NEW n
    PROVE  /\ But(t, LessLink(t, s, n), {"links"})
           /\ LessLink(t, s, n).links = t.links \ {<<s, n>>}
BY DEF IsTree, But, LessLink

LEMMA PlusHostIs ==
    ASSUME NEW t, IsTree(t), NEW s
    PROVE  /\ But(t, PlusHost(t, s), {"hosts"})
           /\ PlusHost(t, s).hosts = t.hosts \cup {s}
BY DEF IsTree, But, PlusHost

LEMMA LessHostIs ==
    ASSUME NEW t, IsTree(t), NEW s
    PROVE  /\ But(t, LessHost(t, s), {"hosts"})
           /\ LessHost(t, s).hosts = t.hosts \ {s}
BY DEF IsTree, But, LessHost

LEMMA Lens ==
    ASSUME NEW s, NEW x
    PROVE  /\ Len(SubsysDir(s)) = 2 /\ SubsysDir(s)[1] = "subsystems" /\ SubsysDir(s)[2] = s
           /\ Len(PortDir(s)) = 2 /\ PortDir(s)[1] = "ports" /\ PortDir(s)[2] = s
           /\ Len(HostDir(s)) = 2 /\ HostDir(s)[1] = "hosts" /\ HostDir(s)[2] = s
           /\ Len(NsDir(s, x)) = 4 /\ NsDir(s, x)[1] = "subsystems" /\ NsDir(s, x)[2] = s
           /\ NsDir(s, x)[3] = "namespaces" /\ NsDir(s, x)[4] = x
BY DEF SubsysDir, PortDir, HostDir, NsDir

LEMMA MadeDirs ==
    ASSUME NEW t, NEW s, NEW x
    PROVE  /\ CanMake(t, SubsysDir(s)) /\ CanMake(t, HostDir(s))
           /\ CanMake(t, PortDir(s)) <=> s \in Ports
           /\ CanMake(t, NsDir(s, x)) <=> s \in t.subsys
           /\ Made(t, SubsysDir(s)) = PlusSubsys(t, s)
           /\ Made(t, HostDir(s)) = PlusHost(t, s)
           /\ Made(t, PortDir(s)) = PlusPort(t, s)
           /\ Made(t, NsDir(s, x)) = PlusNs(t, s, x)
<1>1. /\ CanMake(t, SubsysDir(s)) /\ CanMake(t, HostDir(s))
      /\ CanMake(t, PortDir(s)) <=> s \in Ports
      /\ CanMake(t, NsDir(s, x)) <=> s \in t.subsys
  BY Lens DEF CanMake
<1>2. Made(t, SubsysDir(s)) = PlusSubsys(t, s)
  <2> DEFINE p == SubsysDir(s)
  <2>1. Len(p) = 2 /\ p[1] = "subsystems" /\ p[2] = s
    BY Lens
  <2> HIDE DEF p
  <2>2. Made(t, p) = PlusSubsys(t, p[2])
    BY <2>1 DEF Made, PlusSubsys
  <2> QED BY <2>1, <2>2 DEF p
<1>3. Made(t, HostDir(s)) = PlusHost(t, s)
  <2> DEFINE p == HostDir(s)
  <2>1. Len(p) = 2 /\ p[1] = "hosts" /\ p[2] = s
    BY Lens
  <2> HIDE DEF p
  <2>2. Made(t, p) = PlusHost(t, p[2])
    BY <2>1 DEF Made, PlusHost
  <2> QED BY <2>1, <2>2 DEF p
<1>4. Made(t, PortDir(s)) = PlusPort(t, s)
  <2> DEFINE p == PortDir(s)
  <2>1. Len(p) = 2 /\ p[1] = "ports" /\ p[2] = s
    BY Lens
  <2> HIDE DEF p
  <2>2. Made(t, p) = PlusPort(t, p[2])
    BY <2>1 DEF Made, PlusPort, PlusNs
  <2> QED BY <2>1, <2>2 DEF p
<1>5. Made(t, NsDir(s, x)) = PlusNs(t, s, x)
  <2> DEFINE p == NsDir(s, x)
  <2>1. Len(p) = 4 /\ p[2] = s /\ p[4] = x
    BY Lens
  <2> HIDE DEF p
  <2>2. Made(t, p) = PlusNs(t, p[2], p[4])
    BY <2>1 DEF Made, PlusPort, PlusNs
  <2> QED BY <2>1, <2>2 DEF p
<1> QED BY <1>1, <1>2, <1>3, <1>4, <1>5

LEMMA RemovedNs ==
    ASSUME NEW t, NEW s, NEW x, \E n \in t.ns : n[1] = s /\ n[2] = x
    PROVE  Removed(t, NsDir(s, x)) = LessNs(t, s, x)
<1>1. NsDir(s, x) \in Dirs(t) \ Top
  BY DirsOf, NotTop
<1>2. Removed(t, NsDir(s, x)) = [t EXCEPT !.ns = {n \in @ : <<n[1], n[2]>> # <<s, x>>}]
  BY <1>1, Lens DEF Removed
<1>3. {n \in t.ns : <<n[1], n[2]>> # <<s, x>>} = {n \in t.ns : n[1] # s \/ n[2] # x}
  OBVIOUS
<1> QED BY <1>2, <1>3 DEF LessNs

LEMMA RemovedSubsys ==
    ASSUME NEW t, NEW s, s \in t.subsys, NoHosts(t, s), NoNs(t, s), NoPorts(t, s)
    PROVE  Removed(t, SubsysDir(s)) = LessSubsys(t, s)
<1>1. SubsysDir(s) \in Dirs(t) \ Top
  BY DirsOf, NotTop
<1>2. /\ ~(SubsysDir(s) \notin Dirs(t) \ Top) /\ ~(Len(SubsysDir(s)) = 4)
      /\ Len(SubsysDir(s)) = 2 /\ SubsysDir(s)[1] = "subsystems" /\ SubsysDir(s)[2] = s
  BY <1>1, Lens
<1>3. ~(\/ \E n \in t.ns : n[1] = s
        \/ \E a \in t.allowed : a[1] = s
        \/ \E l \in t.links : l[2] = s)
  BY DEF NoHosts, NoNs, NoPorts
<1> QED BY <1>2, <1>3 DEF Removed, LessSubsys

LEMMA RemovedHost ==
    ASSUME NEW t, NEW h
    PROVE  Removed(t, HostDir(h))
             = IF h \notin t.hosts \/ \E a \in t.allowed : a[2] = h THEN t
               ELSE LessHost(t, h)
<1>1. HostDir(h) \in Dirs(t) \ Top <=> h \in t.hosts
  BY DirsOf, NotTop
<1>2. Len(HostDir(h)) = 2 /\ HostDir(h)[1] = "hosts" /\ HostDir(h)[2] = h
  BY Lens
<1> QED BY <1>1, <1>2 DEF Removed, LessHost

LEMMA RemovedPort ==
    ASSUME NEW t, NEW p, p \in PortIds(t), ~InUse(t, p)
    PROVE  Removed(t, PortDir(p)) = LessPort(t, p)
<1>1. PortDir(p) \in Dirs(t) \ Top
  BY DirsOf, NotTop
<1>2. Len(PortDir(p)) = 2 /\ PortDir(p)[1] = "ports" /\ PortDir(p)[2] = p
  BY Lens
<1> QED BY <1>1, <1>2 DEF Removed, LessPort

LEMMA LinkPaths ==
    ASSUME NEW t, NEW s, NEW x
    PROVE  /\ CanLink(t, AllowedLink(s, x), HostDir(x)) <=> s \in t.subsys /\ x \in t.hosts
           /\ CanLink(t, PortLink(s, x), SubsysDir(x)) <=> s \in PortIds(t) /\ x \in t.subsys
           /\ Linked(t, AllowedLink(s, x)) = PlusAllowed(t, s, x)
           /\ Linked(t, PortLink(s, x)) = PlusLink(t, s, x)
           /\ Unlinked(t, AllowedLink(s, x)) = LessAllowed(t, s, x)
           /\ Unlinked(t, PortLink(s, x)) = LessLink(t, s, x)
<1> DEFINE a == AllowedLink(s, x)
           l == PortLink(s, x)
<1>1. /\ Len(a) = 4 /\ a[1] = "subsystems" /\ a[2] = s /\ a[3] = "allowed_hosts" /\ a[4] = x
      /\ Len(l) = 4 /\ l[1] = "ports" /\ l[2] = s /\ l[3] = "subsystems" /\ l[4] = x
  BY DEF AllowedLink, PortLink
<1> HIDE DEF a, l
<1>2. IsLink(a) /\ IsLink(l)
  BY <1>1 DEF IsLink
<1>3. CanLink(t, a, HostDir(x)) <=> s \in t.subsys /\ x \in t.hosts
  <2>1. <<a[1], a[2]>> = SubsysDir(s)
    BY <1>1 DEF SubsysDir
  <2>2. CanLink(t, a, HostDir(x)) <=> SubsysDir(s) \in Dirs(t) /\ HostDir(x) \in Dirs(t)
    BY <1>2, <2>1 DEF CanLink
  <2> QED BY <2>2, DirsOf
<1>4. CanLink(t, l, SubsysDir(x)) <=> s \in PortIds(t) /\ x \in t.subsys
  <2>1. <<l[1], l[2]>> = PortDir(s)
    BY <1>1 DEF PortDir
  <2>2. CanLink(t, l, SubsysDir(x)) <=> PortDir(s) \in Dirs(t) /\ SubsysDir(x) \in Dirs(t)
    BY <1>2, <2>1 DEF CanLink
  <2> QED BY <2>2, DirsOf
<1>5. /\ Linked(t, a) = PlusAllowed(t, s, x)
      /\ Linked(t, l) = PlusLink(t, s, x)
  BY <1>1 DEF Linked, PlusAllowed, PlusLink
<1>6. /\ Unlinked(t, a) = LessAllowed(t, s, x)
      /\ Unlinked(t, l) = LessLink(t, s, x)
  BY <1>1, <1>2 DEF Unlinked, LessAllowed, LessLink
<1> QED BY <1>3, <1>4, <1>5, <1>6 DEF a, l

LEMMA WroteAny ==
    ASSUME NEW t, NEW s, s \in t.subsys, NEW v, v \in BOOLEAN
    PROVE  Wrote(t, SubsysDir(s), "write_any", v) = SetAny(t, s, v)
<1> DEFINE d == SubsysDir(s)
<1>1. d \in Dirs(t) /\ Len(d) = 2 /\ d[1] = "subsystems" /\ d[2] = s
  BY DirsOf, Lens
<1> HIDE DEF d
<1>2. Wrote(t, d, "write_any", v) = [t EXCEPT !.any = IF v THEN @ \cup {d[2]} ELSE @ \ {d[2]}]
  BY <1>1 DEF Wrote
<1> QED BY <1>1, <1>2 DEF SetAny, d

LEMMA WroteDev ==
    ASSUME NEW t, NEW s, NEW x, NEW v, \E n \in t.ns : n[1] = s /\ n[2] = x
    PROVE  Wrote(t, NsDir(s, x), "write_dev", v)
             = IF Enabled(t, s, x) THEN t ELSE SetNs(t, s, x, v)
<1>1. NsDir(s, x) \in Dirs(t)
  BY DirsOf
<1>0. CASE Enabled(t, s, x)
  <2> DEFINE p == NsDir(s, x)
  <2>1. p \in Dirs(t) /\ Len(p) = 4 /\ p[2] = s /\ p[4] = x
    BY <1>1, Lens
  <2> HIDE DEF p
  <2>2. Wrote(t, p, "write_dev", v) = t
    BY <1>0, <2>1 DEF Wrote
  <2> QED BY <1>0, <2>2 DEF p
<1> SUFFICES ASSUME ~Enabled(t, s, x)
             PROVE  Wrote(t, NsDir(s, x), "write_dev", v) = SetNs(t, s, x, v)
  BY <1>0
<1>2. Wrote(t, NsDir(s, x), "write_dev", v)
        = [t EXCEPT !.ns = {n \in @ : <<n[1], n[2]>> # <<s, x>>} \cup {<<s, x, v>>}]
  <2> DEFINE p == NsDir(s, x)
  <2>1. p \in Dirs(t) /\ Len(p) = 4 /\ p[2] = s /\ p[4] = x
    BY <1>1, Lens
  <2> HIDE DEF p
  <2>2. Wrote(t, p, "write_dev", v)
          = [t EXCEPT !.ns = {n \in @ : <<n[1], n[2]>> # <<p[2], p[4]>>} \cup {<<p[2], p[4], v>>}]
    BY <2>1 DEF Wrote
  <2> QED BY <2>1, <2>2 DEF p
<1>3. {n \in t.ns : <<n[1], n[2]>> # <<s, x>>} = {n \in t.ns : n[1] # s \/ n[2] # x}
  OBVIOUS
<1> QED BY <1>2, <1>3 DEF SetNs

LEMMA WroteAddr ==
    ASSUME NEW t, NEW s, s \in PortIds(t), NEW v
    PROVE  Wrote(t, PortDir(s), "write_addr", v) = IF InUse(t, s) THEN t ELSE SetPort(t, s, v)
<1>1. PortDir(s) \in Dirs(t)
  BY DirsOf
<1> QED BY <1>1, Lens DEF Wrote, SetPort

-----------------------------------------------------------------------------
(* Each system call, field by field.                                        *)

Kept(th, th2) == th2.saved = th.saved /\ th2.ok = th.ok /\ th2.exists = th.exists

MkDirDid(p, c, th, t, d, th2, t2, d2) ==
    /\ d2 = d /\ th2.saved = th.saved
    /\ CanMake(t, In(d, p)) =>
         /\ t2 = IF In(d, p) \in Dirs(t) THEN t ELSE Made(t, In(d, p))
         /\ th2.code = c /\ th2.ok = th.ok
         /\ th2.exists = (In(d, p) \in Dirs(t))
    /\ ~CanMake(t, In(d, p)) =>
         t2 = t /\ th2.code = SkipToBack(Do(<<"mkdir", p>>, c)) /\ th2.ok = FALSE

LEMMA ByMkDir ==
    ASSUME NEW th, NEW t, NEW d, NEW th2, NEW t2, NEW d2, Runs(th, t, d, th2, t2, d2),
           NEW c, IsCode(c), NEW p, th.code = Do(<<"mkdir", p>>, c)
    PROVE  MkDirDid(p, c, th, t, d, th2, t2, d2)
<1> DEFINE x == <<"mkdir", p>>
           q == d \o x[2]
<1>1. Ran(x, c, th, t, d, th2, t2, d2)
  BY DEF Runs
<1>2. RanMkDir(x, c, th, t, d, th2, t2, d2)
  BY <1>1 DEF Ran
<1>3. x[2] = p
  OBVIOUS
<1> HIDE DEF x
<1>4. /\ d2 = d
      /\ CanMake(t, q) => /\ t2 = IF q \in Dirs(t) THEN t ELSE Made(t, q)
                         /\ th2 = To(th, c, th.saved, q \in Dirs(t), th.ok)
      /\ ~CanMake(t, q) =>
           t2 = t /\ th2 = To(th, SkipToBack(Do(x, c)), th.saved, th.exists, FALSE)
  BY <1>2 DEF RanMkDir
<1> HIDE DEF q
<1>5. /\ d2 = d /\ th2.saved = th.saved
      /\ CanMake(t, q) => /\ t2 = IF q \in Dirs(t) THEN t ELSE Made(t, q)
                         /\ th2.code = c /\ th2.ok = th.ok /\ th2.exists = (q \in Dirs(t))
      /\ ~CanMake(t, q) =>
           t2 = t /\ th2.code = SkipToBack(Do(x, c)) /\ th2.ok = FALSE
  <2>1. CASE CanMake(t, q)
    <3>1. th2 = To(th, c, th.saved, q \in Dirs(t), th.ok)
      BY <1>4, <2>1
    <3> QED BY <1>4, <2>1, <3>1, ToFields
  <2>2. CASE ~CanMake(t, q)
    <3>1. th2 = To(th, SkipToBack(Do(x, c)), th.saved, th.exists, FALSE)
      BY <1>4, <2>2
    <3>2. th2.code = SkipToBack(Do(x, c)) /\ th2.saved = th.saved
      BY <3>1 DEF To
    <3>3. th2.ok = FALSE
      BY <3>1 DEF To
    <3> QED BY <1>4, <2>2, <3>2, <3>3
  <2> QED BY <2>1, <2>2
<1>6. q = In(d, p)
  BY <1>3 DEF q, In
<1> QED BY <1>5, <1>6 DEF x, MkDirDid

LEMMA ByRmDir ==
    ASSUME NEW th, NEW t, NEW d, NEW th2, NEW t2, NEW d2, Runs(th, t, d, th2, t2, d2),
           NEW c, IsCode(c), NEW p, th.code = Do(<<"rmdir", p>>, c)
    PROVE  d2 = d /\ t2 = Removed(t, In(d, p)) /\ th2.code = c /\ Kept(th, th2)
<1>1. Ran(<<"rmdir", p>>, c, th, t, d, th2, t2, d2)
  BY DEF Runs
<1>2. RanRmDir(<<"rmdir", p>>, c, th, t, d, th2, t2, d2)
  BY <1>1 DEF Ran, OpenCalls
<1> QED BY <1>2, ToFields DEF RanRmDir, Kept, In

SymLinkDid(p, to, c, th, t, d, th2, t2, d2) ==
    /\ d2 = d /\ th2.saved = th.saved
    /\ CanLink(t, In(d, p), to) =>
         t2 = Linked(t, In(d, p)) /\ th2.code = c /\ th2.ok = th.ok
    /\ ~CanLink(t, In(d, p), to) =>
         t2 = t /\ th2.code = SkipToBack(Do(<<"symlink", p, to>>, c)) /\ th2.ok = FALSE

LEMMA BySymLink ==
    ASSUME NEW th, NEW t, NEW d, NEW th2, NEW t2, NEW d2, Runs(th, t, d, th2, t2, d2),
           NEW c, IsCode(c), NEW p, NEW to, th.code = Do(<<"symlink", p, to>>, c)
    PROVE  SymLinkDid(p, to, c, th, t, d, th2, t2, d2)
<1> DEFINE x == <<"symlink", p, to>>
           q == d \o x[2]
<1>1. Ran(x, c, th, t, d, th2, t2, d2)
  BY DEF Runs
<1>2. RanSymLink(x, c, th, t, d, th2, t2, d2)
  BY <1>1 DEF Ran
<1>3. x[2] = p /\ x[3] = to
  OBVIOUS
<1> HIDE DEF x
<1>4. /\ d2 = d
      /\ CanLink(t, q, to) => t2 = Linked(t, q) /\ th2 = Goes(th, c)
      /\ ~CanLink(t, q, to) =>
           t2 = t /\ th2 = To(th, SkipToBack(Do(x, c)), th.saved, th.exists, FALSE)
  BY <1>2, <1>3 DEF RanSymLink
<1> HIDE DEF q
<1>5. /\ d2 = d /\ th2.saved = th.saved
      /\ CanLink(t, q, to) => t2 = Linked(t, q) /\ th2.code = c /\ th2.ok = th.ok
      /\ ~CanLink(t, q, to) =>
           t2 = t /\ th2.code = SkipToBack(Do(x, c)) /\ th2.ok = FALSE
  <2>1. CASE CanLink(t, q, to)
    <3>1. th2 = Goes(th, c)
      BY <1>4, <2>1
    <3> QED BY <1>4, <2>1, <3>1, ToFields
  <2>2. CASE ~CanLink(t, q, to)
    <3>1. th2 = To(th, SkipToBack(Do(x, c)), th.saved, th.exists, FALSE)
      BY <1>4, <2>2
    <3>2. th2.code = SkipToBack(Do(x, c)) /\ th2.saved = th.saved
      BY <3>1 DEF To
    <3>3. th2.ok = FALSE
      BY <3>1 DEF To
    <3> QED BY <1>4, <2>2, <3>2, <3>3
  <2> QED BY <2>1, <2>2
<1>6. q = In(d, p)
  BY <1>3 DEF q, In
<1> QED BY <1>5, <1>6 DEF x, SymLinkDid

LEMMA ByRemove ==
    ASSUME NEW th, NEW t, NEW d, NEW th2, NEW t2, NEW d2, Runs(th, t, d, th2, t2, d2),
           NEW c, IsCode(c), NEW p, th.code = Do(<<"remove", p>>, c)
    PROVE  d2 = d /\ t2 = Unlinked(t, In(d, p)) /\ th2.code = c /\ Kept(th, th2)
<1>1. Ran(<<"remove", p>>, c, th, t, d, th2, t2, d2)
  BY DEF Runs
<1>2. RanRemove(<<"remove", p>>, c, th, t, d, th2, t2, d2)
  BY <1>1 DEF Ran, OpenCalls
<1> QED BY <1>2, ToFields DEF RanRemove, Kept, In

LEMMA ByWrite ==
    ASSUME NEW th, NEW t, NEW d, NEW th2, NEW t2, NEW d2, Runs(th, t, d, th2, t2, d2),
           NEW c, IsCode(c), NEW w, NEW v, w \in {"write_any", "write_dev", "write_addr"},
           th.code = Do(<<w, v>>, c)
    PROVE  d2 = d /\ t2 = Wrote(t, d, w, v) /\ th2.code = c /\ Kept(th, th2)
<1>1. Ran(<<w, v>>, c, th, t, d, th2, t2, d2)
  BY DEF Runs
<1>2. RanWrite(<<w, v>>, c, th, t, d, th2, t2, d2)
  BY <1>1 DEF Ran, OpenCalls
<1> QED BY <1>2, ToFields DEF RanWrite, Kept, In

LEMMA ByRead ==
    ASSUME NEW th, NEW t, NEW d, NEW th2, NEW t2, NEW d2, Runs(th, t, d, th2, t2, d2),
           NEW c, IsCode(c), NEW v, th.code = Do(<<"read_addr", v>>, c)
    PROVE  /\ d2 = d /\ t2 = t /\ th2.code = c /\ th2.saved = th.saved
           /\ th2.ok = (~th.exists \/ (Len(d) = 2 /\ <<d[2], v>> \in t.ports))
<1>1. Ran(<<"read_addr", v>>, c, th, t, d, th2, t2, d2)
  BY DEF Runs
<1>2. RanRead(<<"read_addr", v>>, c, th, t, d, th2, t2, d2)
  BY <1>1 DEF Ran, OpenCalls
<1> QED BY <1>2, ToFields DEF RanRead, Kept, In

LEMMA ByChDir ==
    ASSUME NEW th, NEW t, NEW d, NEW th2, NEW t2, NEW d2, Runs(th, t, d, th2, t2, d2),
           NEW c, IsCode(c), NEW p, th.code = Do(<<"chdir", p>>, c)
    PROVE  /\ d2 = IF In(d, p) \in Dirs(t) THEN In(d, p) ELSE d
           /\ t2 = t /\ th2.code = c /\ Kept(th, th2)
<1> DEFINE x == <<"chdir", p>>
           q == d \o x[2]
<1>1. Ran(x, c, th, t, d, th2, t2, d2)
  BY DEF Runs
<1>2. RanChDir(x, c, th, t, d, th2, t2, d2)
  BY <1>1 DEF Ran
<1>3. x[2] = p
  OBVIOUS
<1> HIDE DEF x
<1>4. t2 = t /\ th2 = Goes(th, c) /\ d2 = IF q \in Dirs(t) THEN q ELSE d
  BY <1>2 DEF RanChDir
<1>5. q = In(d, p)
  BY <1>3 DEF q, In
<1>6. th2.code = c /\ Kept(th, th2)
  BY <1>4, ToFields DEF Kept
<1> HIDE DEF q
<1> QED BY <1>4, <1>5, <1>6

LEMMA ByChDirAbs ==
    ASSUME NEW th, NEW t, NEW d, NEW th2, NEW t2, NEW d2, Runs(th, t, d, th2, t2, d2),
           NEW c, IsCode(c), NEW p, th.code = Do(<<"chdir_abs", p>>, c)
    PROVE  /\ d2 = IF p \in Dirs(t) THEN p ELSE d
           /\ t2 = t /\ th2.code = c /\ Kept(th, th2)
<1>1. Ran(<<"chdir_abs", p>>, c, th, t, d, th2, t2, d2)
  BY DEF Runs
<1>2. RanChDirAbs(<<"chdir_abs", p>>, c, th, t, d, th2, t2, d2)
  BY <1>1 DEF Ran, OpenCalls
<1> QED BY <1>2, ToFields DEF RanChDirAbs, Kept, In

LEMMA ByChDirOut ==
    ASSUME NEW th, NEW t, NEW d, NEW th2, NEW t2, NEW d2, Runs(th, t, d, th2, t2, d2),
           NEW c, IsCode(c), NEW p, th.code = Do(<<"chdir_out", p>>, c)
    PROVE  /\ t2 = t /\ Kept(th, th2)
           /\ In(d, p) \in Dirs(t) => d2 = In(d, p) /\ th2.code = c
           /\ In(d, p) \notin Dirs(t) => d2 = d /\ th2.code = SkipToBack(c)
<1> DEFINE x == <<"chdir_out", p>>
           q == d \o x[2]
<1>1. Ran(x, c, th, t, d, th2, t2, d2)
  BY DEF Runs
<1>2. RanChDirOut(x, c, th, t, d, th2, t2, d2)
  BY <1>1 DEF Ran
<1>3. x[2] = p
  OBVIOUS
<1> HIDE DEF x
<1>4. /\ t2 = t
      /\ q \in Dirs(t) => d2 = q /\ th2 = Goes(th, c)
      /\ q \notin Dirs(t) => d2 = d /\ th2 = Goes(th, SkipToBack(c))
  BY <1>2 DEF RanChDirOut
<1>5. q = In(d, p)
  BY <1>3 DEF q, In
<1> HIDE DEF q
<1>6. /\ t2 = t /\ Kept(th, th2)
      /\ q \in Dirs(t) => d2 = q /\ th2.code = c
      /\ q \notin Dirs(t) => d2 = d /\ th2.code = SkipToBack(c)
  <2>1. CASE q \in Dirs(t)
    <3>1. th2 = Goes(th, c)
      BY <1>4, <2>1
    <3> QED BY <1>4, <2>1, <3>1, ToFields DEF Kept
  <2>2. CASE q \notin Dirs(t)
    <3>1. th2 = Goes(th, SkipToBack(c))
      BY <1>4, <2>2
    <3> QED BY <1>4, <2>2, <3>1, ToFields DEF Kept
  <2> QED BY <2>1, <2>2
<1> QED BY <1>5, <1>6

LEMMA ByChDirUp ==
    ASSUME NEW th, NEW t, NEW d, NEW th2, NEW t2, NEW d2, Runs(th, t, d, th2, t2, d2),
           NEW c, IsCode(c), NEW k, th.code = Do(<<"chdir_up", k>>, c)
    PROVE  /\ t2 = t /\ th2.code = c /\ Kept(th, th2)
           /\ LET to == IF Len(d) >= k THEN SubSeq(d, 1, Len(d) - k) ELSE Home
              IN  d2 = IF to \in Dirs(t) THEN to ELSE d
<1>1. Ran(<<"chdir_up", k>>, c, th, t, d, th2, t2, d2)
  BY DEF Runs
<1>2. RanChDirUp(<<"chdir_up", k>>, c, th, t, d, th2, t2, d2)
  BY <1>1 DEF Ran, OpenCalls
<1> QED BY <1>2, ToFields DEF RanChDirUp, Kept, In

LEMMA ByOpenDir ==
    ASSUME NEW th, NEW t, NEW d, NEW th2, NEW t2, NEW d2, Runs(th, t, d, th2, t2, d2),
           NEW c, IsCode(c), NEW x, x[1] \in OpenCalls, th.code = Do(x, c)
    PROVE  /\ t2 = t /\ d2 = d /\ Kept(th, th2)
           /\ th2.code = IF x[1] = "opendir_links" /\ In(d, <<x[2]>>) \notin Dirs(t)
                         THEN SkipToBack(c) ELSE Loop(NamesIn(x, t, d), x, c)
<1>1. Ran(x, c, th, t, d, th2, t2, d2)
  BY DEF Runs
<1>2. RanOpenDir(x, c, th, t, d, th2, t2, d2)
  BY <1>1 DEF Ran, OpenCalls
<1> QED BY <1>2, ToFields DEF RanOpenDir, Kept, In

LEMMA ByReadDir ==
    ASSUME NEW th, NEW t, NEW d, NEW th2, NEW t2, NEW d2, Runs(th, t, d, th2, t2, d2),
           NEW c, IsCode(c), NEW left, NEW x, th.code = Do(<<"readdir", left, x>>, c)
    PROVE  /\ t2 = t /\ d2 = d /\ Kept(th, th2)
           /\ \/ left = {} /\ th2.code = c
              \/ \E n \in left : th2.code = Joined(Entry(x, n), Loop(left \ {n}, x, c))
<1> DEFINE y == <<"readdir", left, x>>
<1>1. Ran(y, c, th, t, d, th2, t2, d2)
  BY DEF Runs
<1>2. RanReadDir(y, c, th, t, d, th2, t2, d2)
  BY <1>1 DEF Ran
<1>3. y[2] = left /\ y[3] = x
  OBVIOUS
<1> HIDE DEF y
<1>4. /\ t2 = t /\ d2 = d
      /\ \/ left = {} /\ th2 = Goes(th, c)
         \/ \E n \in left : th2 = Goes(th, Joined(Entry(x, n), Loop(left \ {n}, x, c)))
  BY <1>2, <1>3 DEF RanReadDir
<1>5. \A e : th2 = Goes(th, e) => th2.code = e /\ Kept(th, th2)
  BY ToFields DEF Kept
<1> QED BY <1>4, <1>5

-----------------------------------------------------------------------------
(* The operations that are done in a few calls.                             *)

LEMMA CreateHostSteps ==
    ASSUME NEW op, op[1] = "create_host", NEW b, IsTree(b), NEW r, IsCode(r),
           NEW th, NEW t, NEW d, NEW th2, NEW t2, NEW d2, Runs(th, t, d, th2, t2, d2),
           NEW sv, NEW home, Entered(op, b, r, th, t, d, sv, home)
    PROVE  Leaves(op, b, r, th2, t2, sv, home)
<1> DEFINE h == op[2]
           u == PlusHost(b, h)
<1>1. /\ th.code = Do(<<"mkdir", <<h>>>>, Do(Back, r)) /\ d = <<"hosts">>
      /\ t = b /\ th.ok = TRUE /\ th.saved = Do(home, sv)
  BY DEF Entered, BodyOf, DirOf
<1>2. IsCode(Do(Back, r)) /\ In(d, <<h>>) = HostDir(h)
  BY <1>1, DoCode, JoinedPaths
<1>3. CanMake(t, HostDir(h)) /\ Made(t, HostDir(h)) = u
  BY <1>1, MadeDirs
<1>4. /\ t2 = IF HostDir(h) \in Dirs(b) THEN b ELSE u
      /\ th2.code = Do(Back, r) /\ th2.ok = TRUE /\ th2.saved = Do(home, sv)
  <2>1. MkDirDid(<<h>>, Do(Back, r), th, t, d, th2, t2, d2)
    BY <1>1, <1>2, ByMkDir
  <2> QED BY <1>1, <1>2, <1>3, <2>1 DEF MkDirDid
<1>5. h \in b.hosts => u = b
  BY DEF IsTree, PlusHost
<1>6. t2 = u
  BY <1>4, <1>5, DirsOf
<1>7. Alone(b, op) = [tree |-> u, ok |-> TRUE]
  BY DEF Alone, create_host, Ok, PlusHost
<1> HIDE DEF u
<1> QED BY <1>4, <1>6, <1>7 DEF Leaves

LEMMA DeleteHostSteps ==
    ASSUME NEW op, op[1] = "delete_host", NEW b, IsTree(b), NEW r, IsCode(r),
           NEW th, NEW t, NEW d, NEW th2, NEW t2, NEW d2, Runs(th, t, d, th2, t2, d2),
           NEW sv, NEW home, Entered(op, b, r, th, t, d, sv, home)
    PROVE  Leaves(op, b, r, th2, t2, sv, home)
<1> DEFINE h == op[2]
           u == LessHost(b, h)
<1>1. /\ th.code = Do(<<"rmdir", <<h>>>>, Do(Back, r)) /\ d = <<"hosts">>
      /\ t = b /\ th.ok = TRUE /\ th.saved = Do(home, sv)
  BY DEF Entered, BodyOf, DirOf
<1>2. IsCode(Do(Back, r)) /\ In(d, <<h>>) = HostDir(h)
  BY <1>1, DoCode, JoinedPaths
<1>3. t2 = Removed(b, HostDir(h)) /\ th2.code = Do(Back, r) /\ Kept(th, th2)
  BY <1>1, <1>2, ByRmDir
<1>4. t2 = IF h \notin b.hosts \/ \E a \in b.allowed : a[2] = h THEN b ELSE u
  BY <1>3, RemovedHost
<1>5. h \notin b.hosts => u = b
  BY DEF IsTree, LessHost
<1>6. Alone(b, op) = IF \E a \in b.allowed : a[2] = h THEN Ok(b) ELSE Ok(u)
  BY DEF Alone, delete_host, LessHost
<1> HIDE DEF u
<1>7. Alone(b, op) = Ok(t2)
  BY <1>4, <1>5, <1>6
<1> QED BY <1>1, <1>3, <1>7 DEF Leaves, Kept, Ok

LEMMA LinkHostSteps ==
    ASSUME NEW op, op[1] = "link_host", NEW b, IsTree(b), NEW r, IsCode(r),
           NEW th, NEW t, NEW d, NEW th2, NEW t2, NEW d2, Runs(th, t, d, th2, t2, d2),
           NEW sv, NEW home, Entered(op, b, r, th, t, d, sv, home)
    PROVE  Leaves(op, b, r, th2, t2, sv, home)
<1> DEFINE p == AllowedLink(op[2], op[3])
           u == PlusAllowed(b, op[2], op[3])
           x == <<"symlink", AllowedPath(op[2], op[3]), HostDir(op[3])>>
<1>1. /\ th.code = Do(x, Do(Back, r)) /\ d = <<"subsystems">>
      /\ t = b /\ th.ok = TRUE /\ th.saved = Do(home, sv)
  BY DEF Entered, BodyOf, DirOf, HostDir
<1>2. IsCode(Do(Back, r)) /\ In(d, AllowedPath(op[2], op[3])) = p
  <2>1. In(<<"subsystems">>, AllowedPath(op[2], op[3])) = p
    BY JoinedPaths
  <2> QED BY <1>1, <2>1, DoCode
<1>3. (CanLink(b, p, HostDir(op[3])) <=> op[2] \in b.subsys /\ op[3] \in b.hosts) /\ Linked(b, p) = u
  BY LinkPaths
<1>4. SkipToBack(Do(x, Do(Back, r))) = Do(Back, r)
  BY SkipsBack, SkipsDo DEF Skips
<1> HIDE DEF p
<1>5. /\ th2.saved = th.saved
      /\ CanLink(b, p, HostDir(op[3])) => t2 = Linked(b, p) /\ th2.code = Do(Back, r) /\ th2.ok = th.ok
      /\ ~CanLink(b, p, HostDir(op[3])) =>
           t2 = b /\ th2.code = SkipToBack(Do(x, Do(Back, r))) /\ th2.ok = FALSE
  <2>1. SymLinkDid(AllowedPath(op[2], op[3]), HostDir(op[3]), Do(Back, r), th, t, d, th2, t2, d2)
    BY <1>1, <1>2, BySymLink
  <2> QED BY <1>1, <1>2, <2>1 DEF SymLinkDid
<1>6. Alone(b, op) = IF op[2] \in b.subsys /\ op[3] \in b.hosts
                    THEN [tree |-> u, ok |-> TRUE]
                    ELSE [tree |-> b, ok |-> FALSE]
  BY DEF Alone, link_host_to_subsys, Ok, Refuse, PlusAllowed
<1> HIDE DEF u, x
<1>7. th2.code = Do(Back, r) /\ th2.saved = Do(home, sv)
  BY <1>1, <1>4, <1>5
<1>8. Alone(b, op) = [tree |-> t2, ok |-> th2.ok]
  BY <1>1, <1>3, <1>5, <1>6
<1> QED BY <1>7, <1>8 DEF Leaves

LEMMA UnlinkHostSteps ==
    ASSUME NEW op, op[1] = "unlink_host", NEW b, IsTree(b), NEW r, IsCode(r),
           NEW th, NEW t, NEW d, NEW th2, NEW t2, NEW d2, Runs(th, t, d, th2, t2, d2),
           NEW sv, NEW home, Entered(op, b, r, th, t, d, sv, home)
    PROVE  Leaves(op, b, r, th2, t2, sv, home)
<1> DEFINE p == AllowedLink(op[2], op[3])
           u == LessAllowed(b, op[2], op[3])
<1>1. /\ th.code = Do(<<"remove", AllowedPath(op[2], op[3])>>, Do(Back, r)) /\ d = <<"subsystems">>
      /\ t = b /\ th.ok = TRUE /\ th.saved = Do(home, sv)
  BY DEF Entered, BodyOf, DirOf
<1>2. IsCode(Do(Back, r)) /\ In(d, AllowedPath(op[2], op[3])) = p
  <2>1. In(<<"subsystems">>, AllowedPath(op[2], op[3])) = p
    BY JoinedPaths
  <2> QED BY <1>1, <2>1, DoCode
<1>3. Unlinked(b, p) = u
  BY LinkPaths
<1> HIDE DEF p
<1>4. t2 = Unlinked(b, p) /\ th2.code = Do(Back, r) /\ Kept(th, th2)
  BY <1>1, <1>2, ByRemove
<1>5. Alone(b, op) = [tree |-> u, ok |-> TRUE]
  BY DEF Alone, unlink_host_from_subsys, Ok, LessAllowed
<1> HIDE DEF u
<1> QED BY <1>1, <1>3, <1>4, <1>5 DEF Leaves, Kept

LEMMA LinkPortSteps ==
    ASSUME NEW op, op[1] = "link_port", NEW b, IsTree(b), NEW r, IsCode(r),
           NEW th, NEW t, NEW d, NEW th2, NEW t2, NEW d2, Runs(th, t, d, th2, t2, d2),
           NEW sv, NEW home, Entered(op, b, r, th, t, d, sv, home)
    PROVE  Leaves(op, b, r, th2, t2, sv, home)
<1> DEFINE p == PortLink(op[3], op[2])
           u == PlusLink(b, op[3], op[2])
           x == <<"symlink", LinkPath(op[3], op[2]), SubsysDir(op[2])>>
<1>1. /\ th.code = Do(x, Do(Back, r)) /\ d = <<"ports">>
      /\ t = b /\ th.ok = TRUE /\ th.saved = Do(home, sv)
  BY DEF Entered, BodyOf, DirOf, SubsysDir
<1>2. IsCode(Do(Back, r)) /\ In(d, LinkPath(op[3], op[2])) = p
  <2>1. In(<<"ports">>, LinkPath(op[3], op[2])) = p
    BY JoinedPaths
  <2> QED BY <1>1, <2>1, DoCode
<1>3. (CanLink(b, p, SubsysDir(op[2])) <=> op[3] \in PortIds(b) /\ op[2] \in b.subsys) /\ Linked(b, p) = u
  BY LinkPaths
<1>4. SkipToBack(Do(x, Do(Back, r))) = Do(Back, r)
  BY SkipsBack, SkipsDo DEF Skips
<1> HIDE DEF p
<1>5. /\ th2.saved = th.saved
      /\ CanLink(b, p, SubsysDir(op[2])) => t2 = Linked(b, p) /\ th2.code = Do(Back, r) /\ th2.ok = th.ok
      /\ ~CanLink(b, p, SubsysDir(op[2])) =>
           t2 = b /\ th2.code = SkipToBack(Do(x, Do(Back, r))) /\ th2.ok = FALSE
  <2>1. SymLinkDid(LinkPath(op[3], op[2]), SubsysDir(op[2]), Do(Back, r), th, t, d, th2, t2, d2)
    BY <1>1, <1>2, BySymLink
  <2> QED BY <1>1, <1>2, <2>1 DEF SymLinkDid
<1>6. Alone(b, op) = IF op[3] \in PortIds(b) /\ op[2] \in b.subsys
                    THEN [tree |-> u, ok |-> TRUE]
                    ELSE [tree |-> b, ok |-> FALSE]
  BY DEF Alone, link_port_to_subsys, Ok, Refuse, PlusLink
<1> HIDE DEF u, x
<1>7. th2.code = Do(Back, r) /\ th2.saved = Do(home, sv)
  BY <1>1, <1>4, <1>5
<1>8. Alone(b, op) = [tree |-> t2, ok |-> th2.ok]
  BY <1>1, <1>3, <1>5, <1>6
<1> QED BY <1>7, <1>8 DEF Leaves

LEMMA UnlinkPortSteps ==
    ASSUME NEW op, op[1] = "unlink_port", NEW b, IsTree(b), NEW r, IsCode(r),
           NEW th, NEW t, NEW d, NEW th2, NEW t2, NEW d2, Runs(th, t, d, th2, t2, d2),
           NEW sv, NEW home, Entered(op, b, r, th, t, d, sv, home)
    PROVE  Leaves(op, b, r, th2, t2, sv, home)
<1> DEFINE p == PortLink(op[3], op[2])
           u == LessLink(b, op[3], op[2])
<1>1. /\ th.code = Do(<<"remove", LinkPath(op[3], op[2])>>, Do(Back, r)) /\ d = <<"ports">>
      /\ t = b /\ th.ok = TRUE /\ th.saved = Do(home, sv)
  BY DEF Entered, BodyOf, DirOf
<1>2. IsCode(Do(Back, r)) /\ In(d, LinkPath(op[3], op[2])) = p
  <2>1. In(<<"ports">>, LinkPath(op[3], op[2])) = p
    BY JoinedPaths
  <2> QED BY <1>1, <2>1, DoCode
<1>3. Unlinked(b, p) = u
  BY LinkPaths
<1> HIDE DEF p
<1>4. t2 = Unlinked(b, p) /\ th2.code = Do(Back, r) /\ Kept(th, th2)
  BY <1>1, <1>2, ByRemove
<1>5. Alone(b, op) = [tree |-> u, ok |-> TRUE]
  BY DEF Alone, unlink_port_from_subsys, Ok, LessLink
<1> HIDE DEF u
<1> QED BY <1>1, <1>3, <1>4, <1>5 DEF Leaves, Kept

LEMMA AloneSubsys ==
    ASSUME NEW t, IsTree(t), NEW s, NEW v
    PROVE  create_subsys(t, s, v) = Ok(SetAny(PlusSubsys(t, s), s, v))
<1> DEFINE u == PlusSubsys(t, s)
           w == create_subsys(t, s, v).tree
<1>1. But(t, u, {"subsys"}) /\ u.subsys = t.subsys \cup {s}
  BY PlusSubsysIs
<1>2. But(u, SetAny(u, s, v), {"any"})
      /\ SetAny(u, s, v).any = (IF v THEN u.any \cup {s} ELSE u.any \ {s})
  <2>1. IsTree(u)
    BY <1>1 DEF But
  <2> QED BY <2>1, SetAnyIs
<1>3. /\ But(t, w, {"subsys", "any"}) /\ w.subsys = t.subsys \cup {s}
      /\ w.any = (IF v THEN t.any \cup {s} ELSE t.any \ {s})
  BY ZenonT(40) DEF create_subsys, Ok, IsTree, But
<1> HIDE DEF u, w
<1>4. w = SetAny(u, s, v)
  <2>1. IsTree(w) /\ IsTree(SetAny(u, s, v))
    BY <1>2, <1>3 DEF But
  <2>2. w.subsys = SetAny(u, s, v).subsys /\ w.any = SetAny(u, s, v).any
    BY <1>1, <1>2, <1>3 DEF But
  <2>3. /\ w.ns = SetAny(u, s, v).ns /\ w.allowed = SetAny(u, s, v).allowed
        /\ w.ports = SetAny(u, s, v).ports /\ w.links = SetAny(u, s, v).links
        /\ w.hosts = SetAny(u, s, v).hosts
    BY <1>1, <1>2, <1>3 DEF But
  <2> QED BY <2>1, <2>2, <2>3, SameTree
<1>5. create_subsys(t, s, v) = Ok(w)
  BY DEF create_subsys, Ok, w
<1> QED BY <1>4, <1>5 DEF u

LEMMA AloneNs ==
    ASSUME NEW t, NEW s, s \in t.subsys, NEW n, NEW v
    PROVE  create_ns(t, s, n, v) = Ok(IF Enabled(t, s, n) THEN t ELSE SetNs(t, s, n, v))
BY DEF create_ns, SetNs

LEMMA AloneNoNs == ASSUME NEW t, NEW s, NEW n PROVE delete_ns(t, s, n) = Ok(LessNs(t, s, n))
BY DEF delete_ns, LessNs

LEMMA AlonePort ==
    ASSUME NEW t, NEW s, NEW v
    PROVE  create_portid(t, s, v)
             = IF InUse(t, s) THEN IF <<s, v>> \in t.ports THEN Ok(t) ELSE Refuse(t)
               ELSE Ok(SetPort(t, s, v))
BY DEF create_portid, SetPort

LEMMA PlusAgain == ASSUME NEW t, IsTree(t), NEW s, s \in t.subsys PROVE PlusSubsys(t, s) = t
<1>1. But(t, PlusSubsys(t, s), {"subsys"}) /\ PlusSubsys(t, s).subsys = t.subsys \cup {s}
  BY PlusSubsysIs
<1>2. t.subsys \cup {s} = t.subsys
  OBVIOUS
<1> QED BY <1>1, <1>2, SameTree DEF But

LEMMA SetAfterPlus ==
    ASSUME NEW t, IsTree(t), NEW s, NEW n, NEW v
    PROVE  SetNs(PlusNs(t, s, n), s, n, v) = SetNs(t, s, n, v)
<1> DEFINE u == PlusNs(t, s, n)
           x == SetNs(u, s, n, v)
           y == SetNs(t, s, n, v)
<1>1. But(t, u, {"ns"}) /\ u.ns = t.ns \cup {<<s, n, Unset>>}
  BY PlusNsIs
<1>2. But(t, y, {"ns"}) /\ y.ns = {m \in t.ns : m[1] # s \/ m[2] # n} \cup {<<s, n, v>>}
  BY SetNsIs
<1>3. IsTree(u)
  BY <1>1 DEF But
<1> HIDE DEF u, y
<1>4. But(u, x, {"ns"}) /\ x.ns = {m \in u.ns : m[1] # s \/ m[2] # n} \cup {<<s, n, v>>}
  BY <1>3, SetNsIs
<1> HIDE DEF x
<1>5. x.ns = y.ns
  <2>1. {m \in u.ns : m[1] # s \/ m[2] # n} = {m \in t.ns : m[1] # s \/ m[2] # n}
    BY <1>1
  <2> QED BY <1>2, <1>4, <2>1
<1>6. x = y
  BY <1>1, <1>2, <1>4, <1>5, SameTree DEF But
<1> QED BY <1>6 DEF x, y, u

LEMMA CreateSubsysEntered ==
    ASSUME NEW op, op[1] = "create_subsys", NEW b, IsTree(b), NEW r, IsCode(r),
           NEW th, NEW t, NEW d, NEW th2, NEW t2, NEW d2, Runs(th, t, d, th2, t2, d2),
           NEW sv, NEW home, Entered(op, b, r, th, t, d, sv, home)
    PROVE  Working(op, b, r, th2, t2, d2, sv, home)
<1> DEFINE s == op[2]
           u == PlusSubsys(b, s)
           c == Do(<<"chdir", <<s>>>>, Do(<<"write_any", op[3]>>, Do(Back, r)))
<1>1. /\ th.code = Do(<<"mkdir", <<s>>>>, c) /\ d = <<"subsystems">>
      /\ t = b /\ th.ok = TRUE /\ th.saved = Do(home, sv)
  BY DEF Entered, BodyOf, DirOf
<1>2. IsCode(c) /\ In(d, <<s>>) = SubsysDir(s)
  <2>1. In(<<"subsystems">>, <<s>>) = SubsysDir(s)
    BY JoinedPaths
  <2> QED BY <1>1, <2>1, DoCode
<1> HIDE DEF c
<1>3. CanMake(b, SubsysDir(s)) /\ Made(b, SubsysDir(s)) = u
  BY MadeDirs
<1>4. /\ t2 = IF SubsysDir(s) \in Dirs(b) THEN b ELSE u
      /\ th2.code = c /\ th2.ok = TRUE /\ th2.saved = Do(home, sv) /\ d2 = <<"subsystems">>
  <2>1. MkDirDid(<<s>>, c, th, t, d, th2, t2, d2)
    BY <1>1, <1>2, ByMkDir
  <2> QED BY <1>1, <1>2, <1>3, <2>1 DEF MkDirDid
<1>5. s \in b.subsys => u = b
  BY PlusAgain
<1>6. t2 = u
  BY <1>4, <1>5, DirsOf
<1>7. IsTree(u) /\ s \in u.subsys /\ Alone(u, op) = Alone(b, op)
  <2>1. IsTree(u) /\ s \in u.subsys
    BY PlusSubsysIs DEF But
  <2>2. PlusSubsys(u, s) = u
    BY <2>1, PlusAgain
  <2>3. /\ create_subsys(b, s, op[3]) = Ok(SetAny(u, s, op[3]))
        /\ create_subsys(u, s, op[3]) = Ok(SetAny(PlusSubsys(u, s), s, op[3]))
    BY <2>1, AloneSubsys
  <2> HIDE DEF u
  <2> QED BY <2>1, <2>2, <2>3 DEF Alone
<1> HIDE DEF u
<1>8. InCreateSubsys(s, op[3], r, th2, t2, d2)
  BY <1>4, <1>6, <1>7 DEF InCreateSubsys, c
<1> QED BY <1>4, <1>6, <1>7, <1>8 DEF Working, Inside

LEMMA CreateSubsysWorking ==
    ASSUME NEW op, op[1] = "create_subsys", NEW b, IsTree(b), NEW r, IsCode(r),
           NEW th, NEW t, NEW d, NEW th2, NEW t2, NEW d2, Runs(th, t, d, th2, t2, d2),
           NEW sv, NEW home, op[3] \in BOOLEAN, Working(op, b, r, th, t, d, sv, home)
    PROVE  Working(op, b, r, th2, t2, d2, sv, home) \/ Leaves(op, b, r, th2, t2, sv, home)
<1> DEFINE s == op[2]
           w == Do(<<"write_any", op[3]>>, Do(Back, r))
<1>1. /\ s \in t.subsys /\ th.ok = TRUE /\ th.saved = Do(home, sv) /\ IsTree(t)
      /\ Alone(t, op) = Alone(b, op)
      /\ \/ th.code = Do(<<"chdir", <<s>>>>, w) /\ d = <<"subsystems">>
         \/ th.code = w /\ d = SubsysDir(s)
  BY DEF Working, Inside, InCreateSubsys, SubsysDir
<1>2. IsCode(Do(Back, r)) /\ IsCode(w)
  BY DoCode
<1>3. CASE th.code = Do(<<"chdir", <<s>>>>, w) /\ d = <<"subsystems">>
  <2> HIDE DEF w
  <2>1. In(d, <<s>>) = SubsysDir(s)
    BY <1>3, JoinedPaths
  <2>2. /\ d2 = IF In(d, <<s>>) \in Dirs(t) THEN In(d, <<s>>) ELSE d
        /\ t2 = t /\ th2.code = w /\ Kept(th, th2)
    BY <1>2, <1>3, ByChDir
  <2>3. d2 = SubsysDir(s)
    BY <1>1, <2>1, <2>2, DirsOf
  <2>4. InCreateSubsys(s, op[3], r, th2, t2, d2)
    BY <1>1, <2>2, <2>3 DEF InCreateSubsys, SubsysDir, w, Kept
  <2> QED BY <1>1, <2>2, <2>4 DEF Working, Inside, Kept
<1>4. CASE th.code = w /\ d = SubsysDir(s)
  <2> DEFINE u == SetAny(t, s, op[3])
  <2>1. t2 = Wrote(t, SubsysDir(s), "write_any", op[3]) /\ th2.code = Do(Back, r) /\ Kept(th, th2)
    BY <1>2, <1>4, ByWrite
  <2>2. t2 = u
    BY <1>1, <2>1, WroteAny
  <2>3. Alone(t, op) = Ok(u)
    <3>1. create_subsys(t, s, op[3]) = Ok(SetAny(PlusSubsys(t, s), s, op[3]))
      BY <1>1, AloneSubsys
    <3>2. PlusSubsys(t, s) = t
      BY <1>1, PlusAgain
    <3> QED BY <3>1, <3>2 DEF Alone
  <2> HIDE DEF u
  <2> QED BY <1>1, <2>1, <2>2, <2>3 DEF Leaves, Kept, Ok
<1> QED BY <1>1, <1>3, <1>4

LEMMA CreateNsEntered ==
    ASSUME NEW op, op[1] = "create_ns", NEW b, IsTree(b), NEW r, IsCode(r),
           NEW th, NEW t, NEW d, NEW th2, NEW t2, NEW d2, Runs(th, t, d, th2, t2, d2),
           NEW sv, NEW home, Entered(op, b, r, th, t, d, sv, home)
    PROVE  Working(op, b, r, th2, t2, d2, sv, home) \/ Leaves(op, b, r, th2, t2, sv, home)
<1> DEFINE s == op[2]
           n == op[3]
           u == PlusNs(b, s, n)
           c == Do(<<"chdir", NsPath(s, n)>>, Do(<<"write_dev", op[4]>>, Do(Back, r)))
           x == <<"mkdir", NsPath(s, n)>>
<1>1. /\ th.code = Do(x, c) /\ d = <<"subsystems">>
      /\ t = b /\ th.ok = TRUE /\ th.saved = Do(home, sv)
  BY DEF Entered, BodyOf, DirOf
<1>2. IsCode(c) /\ In(d, NsPath(s, n)) = NsDir(s, n) /\ SkipToBack(Do(x, c)) = Do(Back, r)
  <2>1. In(<<"subsystems">>, NsPath(s, n)) = NsDir(s, n)
    BY JoinedPaths
  <2>2. Skips(Do(<<"write_dev", op[4]>>, Do(Back, r)), r)
    BY SkipsBack, SkipsDo
  <2>3. Skips(c, r)
    BY <2>2, SkipsDo
  <2>4. Skips(Do(x, c), r)
    BY <2>3, SkipsDo
  <2> QED BY <1>1, <2>1, <2>3, <2>4 DEF Skips
<1> HIDE DEF c
<1>3. (CanMake(b, NsDir(s, n)) <=> s \in b.subsys) /\ Made(b, NsDir(s, n)) = u
  BY MadeDirs
<1>4. MkDirDid(NsPath(s, n), c, th, t, d, th2, t2, d2)
  BY <1>1, <1>2, ByMkDir
<1>5. CASE s \notin b.subsys
  <2>1. t2 = b /\ th2.code = Do(Back, r) /\ th2.ok = FALSE /\ th2.saved = Do(home, sv)
    BY <1>1, <1>2, <1>3, <1>4, <1>5 DEF MkDirDid
  <2>2. Alone(b, op) = [tree |-> b, ok |-> FALSE]
    BY <1>5 DEF Alone, create_ns, Refuse
  <2> QED BY <2>1, <2>2 DEF Leaves
<1>6. CASE s \in b.subsys
  <2>1. /\ t2 = IF NsDir(s, n) \in Dirs(b) THEN b ELSE u
        /\ th2.code = c /\ th2.ok = TRUE /\ th2.saved = Do(home, sv) /\ d2 = <<"subsystems">>
    <3> HIDE DEF u
    <3> QED BY <1>1, <1>2, <1>3, <1>4, <1>6 DEF MkDirDid
  <2>2. IsTree(u) /\ u.subsys = b.subsys /\ u.ns = b.ns \cup {<<s, n, Unset>>}
    BY PlusNsIs DEF But
  <2> HIDE DEF u
  <2>3. \E m \in u.ns : m[1] = s /\ m[2] = n
    <3>1. <<s, n, Unset>> \in u.ns /\ <<s, n, Unset>>[1] = s /\ <<s, n, Unset>>[2] = n
      BY <2>2
    <3> QED BY <3>1
  <2>5. ASSUME NsDir(s, n) \notin Dirs(b) PROVE Alone(u, op) = Alone(b, op)
    <3>1. SetNs(u, s, n, op[4]) = SetNs(b, s, n, op[4])
      BY SetAfterPlus DEF u
    <3>2. ~Enabled(b, s, n)
      BY <2>5, DirsOf DEF Enabled
    <3>3. ~Enabled(u, s, n)
      BY <2>2, <3>2 DEF Enabled
    <3>4. Alone(u, op) = Ok(SetNs(u, s, n, op[4])) /\ Alone(b, op) = Ok(SetNs(b, s, n, op[4]))
      BY <1>6, <2>2, <3>2, <3>3, AloneNs DEF Alone
    <3> QED BY <3>1, <3>4
  <2>6. /\ IsTree(t2) /\ t2.subsys = b.subsys /\ Alone(t2, op) = Alone(b, op)
        /\ \E m \in t2.ns : m[1] = s /\ m[2] = n
    BY <2>1, <2>2, <2>3, <2>5, DirsOf
  <2>7. InCreateNs(s, n, op[4], r, th2, t2, d2)
    BY <1>6, <2>1, <2>6 DEF InCreateNs, c
  <2> QED BY <2>1, <2>6, <2>7 DEF Working, Inside
<1> QED BY <1>5, <1>6

LEMMA CreateNsWorking ==
    ASSUME NEW op, op[1] = "create_ns", NEW b, IsTree(b), NEW r, IsCode(r),
           NEW th, NEW t, NEW d, NEW th2, NEW t2, NEW d2, Runs(th, t, d, th2, t2, d2),
           NEW sv, NEW home, Working(op, b, r, th, t, d, sv, home)
    PROVE  Working(op, b, r, th2, t2, d2, sv, home) \/ Leaves(op, b, r, th2, t2, sv, home)
<1> DEFINE s == op[2]
           n == op[3]
           w == Do(<<"write_dev", op[4]>>, Do(Back, r))
<1>1. /\ s \in t.subsys /\ th.ok = TRUE /\ th.saved = Do(home, sv) /\ IsTree(t)
      /\ \E m \in t.ns : m[1] = s /\ m[2] = n
      /\ Alone(t, op) = Alone(b, op)
      /\ \/ th.code = Do(<<"chdir", NsPath(s, n)>>, w) /\ d = <<"subsystems">>
         \/ th.code = w /\ d = NsDir(s, n)
  BY DEF Working, Inside, InCreateNs, NsDir
<1>2. IsCode(Do(Back, r)) /\ IsCode(w)
  BY DoCode
<1>3. CASE th.code = Do(<<"chdir", NsPath(s, n)>>, w) /\ d = <<"subsystems">>
  <2> HIDE DEF w
  <2>1. In(d, NsPath(s, n)) = NsDir(s, n)
    <3>1. In(<<"subsystems">>, NsPath(s, n)) = NsDir(s, n)
      BY JoinedPaths
    <3> QED BY <1>3, <3>1
  <2>2. /\ d2 = IF In(d, NsPath(s, n)) \in Dirs(t) THEN In(d, NsPath(s, n)) ELSE d
        /\ t2 = t /\ th2.code = w /\ Kept(th, th2)
    BY <1>2, <1>3, ByChDir
  <2>3. d2 = NsDir(s, n)
    BY <1>1, <2>1, <2>2, DirsOf
  <2>4. InCreateNs(s, n, op[4], r, th2, t2, d2)
    BY <1>1, <2>2, <2>3 DEF InCreateNs, NsDir, w, Kept
  <2> QED BY <1>1, <2>2, <2>4 DEF Working, Inside, Kept
<1>4. CASE th.code = w /\ d = NsDir(s, n)
  <2> DEFINE u == IF Enabled(t, s, n) THEN t ELSE SetNs(t, s, n, op[4])
  <2>1. t2 = Wrote(t, NsDir(s, n), "write_dev", op[4]) /\ th2.code = Do(Back, r) /\ Kept(th, th2)
    BY <1>2, <1>4, ByWrite
  <2>2. Wrote(t, NsDir(s, n), "write_dev", op[4]) = u
    BY <1>1, WroteDev
  <2>3. Alone(t, op) = Ok(u)
    BY <1>1, AloneNs DEF Alone
  <2> HIDE DEF u
  <2> QED BY <1>1, <2>1, <2>2, <2>3 DEF Leaves, Kept, Ok
<1> QED BY <1>1, <1>3, <1>4

LEMMA DeleteNsEntered ==
    ASSUME NEW op, op[1] = "delete_ns", NEW b, IsTree(b), NEW r, IsCode(r),
           NEW th, NEW t, NEW d, NEW th2, NEW t2, NEW d2, Runs(th, t, d, th2, t2, d2),
           NEW sv, NEW home, Entered(op, b, r, th, t, d, sv, home)
    PROVE  Working(op, b, r, th2, t2, d2, sv, home) \/ Leaves(op, b, r, th2, t2, sv, home)
<1> DEFINE s == op[2]
           n == op[3]
           c == Do(<<"chdir_up", 3>>, Do(<<"rmdir", NsPath(s, n)>>, Do(Back, r)))
<1>1. /\ th.code = Do(<<"chdir_out", NsPath(s, n)>>, c) /\ d = <<"subsystems">>
      /\ t = b /\ th.ok = TRUE /\ th.saved = Do(home, sv)
  BY DEF Entered, BodyOf, DirOf
<1>2. IsCode(c) /\ In(d, NsPath(s, n)) = NsDir(s, n) /\ SkipToBack(c) = Do(Back, r)
  <2>1. In(<<"subsystems">>, NsPath(s, n)) = NsDir(s, n)
    BY JoinedPaths
  <2>2. Skips(Do(<<"rmdir", NsPath(s, n)>>, Do(Back, r)), r)
    BY SkipsBack, SkipsDo
  <2>3. Skips(c, r)
    BY <2>2, SkipsDo
  <2> QED BY <1>1, <2>1, <2>3 DEF Skips
<1> HIDE DEF c
<1>3. /\ t2 = t /\ Kept(th, th2)
      /\ In(d, NsPath(s, n)) \in Dirs(t) => d2 = In(d, NsPath(s, n)) /\ th2.code = c
      /\ In(d, NsPath(s, n)) \notin Dirs(t) => d2 = d /\ th2.code = SkipToBack(c)
  BY <1>1, <1>2, ByChDirOut
<1>4. CASE NsDir(s, n) \in Dirs(b)
  <2>1. \E m \in t.ns : m[1] = s /\ m[2] = n
    BY <1>1, <1>4, DirsOf
  <2>2. d2 = NsDir(s, n) /\ th2.code = c
    BY <1>1, <1>2, <1>3, <1>4
  <2>3. InDeleteNs(s, n, r, th2, t2, d2)
    BY <1>1, <1>3, <2>1, <2>2 DEF InDeleteNs, NsDir, c, Kept
  <2> QED BY <1>1, <1>3, <2>3 DEF Working, Inside, Kept
<1>5. CASE NsDir(s, n) \notin Dirs(b)
  <2>1. ~\E m \in b.ns : m[1] = s /\ m[2] = n
    BY <1>5, DirsOf
  <2>2. {m \in b.ns : m[1] # s \/ m[2] # n} = b.ns
    BY <2>1
  <2>3. Alone(b, op) = Ok([b EXCEPT !.ns = b.ns])
    BY <2>2 DEF Alone, delete_ns
  <2>4. Alone(b, op) = [tree |-> b, ok |-> TRUE]
    BY <2>3 DEF Ok, IsTree
  <2>5. th2.code = Do(Back, r)
    BY <1>1, <1>2, <1>3, <1>5
  <2> QED BY <1>1, <1>3, <2>4, <2>5 DEF Leaves, Kept
<1> QED BY <1>4, <1>5

LEMMA DeleteNsWorking ==
    ASSUME NEW op, op[1] = "delete_ns", NEW b, IsTree(b), NEW r, IsCode(r),
           NEW th, NEW t, NEW d, NEW th2, NEW t2, NEW d2, Runs(th, t, d, th2, t2, d2),
           NEW sv, NEW home, Working(op, b, r, th, t, d, sv, home)
    PROVE  Working(op, b, r, th2, t2, d2, sv, home) \/ Leaves(op, b, r, th2, t2, sv, home)
<1> DEFINE s == op[2]
           n == op[3]
           w == Do(<<"rmdir", NsPath(s, n)>>, Do(Back, r))
<1>1. /\ th.ok = TRUE /\ th.saved = Do(home, sv) /\ IsTree(t)
      /\ \E m \in t.ns : m[1] = s /\ m[2] = n
      /\ Alone(t, op) = Alone(b, op)
      /\ \/ th.code = Do(<<"chdir_up", 3>>, w) /\ d = NsDir(s, n)
         \/ th.code = w /\ d = <<"subsystems">>
  BY DEF Working, Inside, InDeleteNs, NsDir
<1>2. IsCode(Do(Back, r)) /\ IsCode(w)
  BY DoCode
<1>3. CASE th.code = Do(<<"chdir_up", 3>>, w) /\ d = NsDir(s, n)
  <2> HIDE DEF w
  <2> DEFINE to == IF Len(d) >= 3 THEN SubSeq(d, 1, Len(d) - 3) ELSE Home
  <2>1. to = SubSeq(NsDir(s, n), 1, 1)
    <3>1. Len(d) = 4
      BY <1>3, UpPaths
    <3> QED BY <1>3, <3>1
  <2>2. to = <<"subsystems">>
    BY <2>1, UpPaths
  <2>3. /\ t2 = t /\ th2.code = w /\ Kept(th, th2)
        /\ d2 = IF to \in Dirs(t) THEN to ELSE d
    BY <1>2, <1>3, ByChDirUp
  <2> HIDE DEF to
  <2>4. d2 = <<"subsystems">>
    BY <2>2, <2>3, TopDirs
  <2>5. InDeleteNs(s, n, r, th2, t2, d2)
    BY <1>1, <2>3, <2>4 DEF InDeleteNs, w, Kept
  <2> QED BY <1>1, <2>3, <2>5 DEF Working, Inside, Kept
<1>4. CASE th.code = w /\ d = <<"subsystems">>
  <2> DEFINE u == LessNs(t, s, n)
  <2>1. In(d, NsPath(s, n)) = NsDir(s, n)
    <3>1. In(<<"subsystems">>, NsPath(s, n)) = NsDir(s, n)
      BY JoinedPaths
    <3> QED BY <1>4, <3>1
  <2>2. t2 = Removed(t, NsDir(s, n)) /\ th2.code = Do(Back, r) /\ Kept(th, th2)
    BY <1>2, <1>4, <2>1, ByRmDir
  <2>3. Removed(t, NsDir(s, n)) = u
    BY <1>1, RemovedNs
  <2>4. Alone(t, op) = Ok(u)
    BY AloneNoNs DEF Alone
  <2> HIDE DEF u
  <2> QED BY <1>1, <2>2, <2>3, <2>4 DEF Leaves, Kept, Ok
<1> QED BY <1>1, <1>3, <1>4

LEMMA PortsOf ==
    ASSUME NEW t, IsTree(t), NEW p, NEW v
    PROVE  /\ But(t, PlusPort(t, p), {"ports"}) /\ But(t, SetPort(t, p, v), {"ports"})
           /\ p \in PortIds(PlusPort(t, p)) /\ p \in PortIds(SetPort(t, p, v))
           /\ <<p, v>> \in SetPort(t, p, v).ports
           /\ InUse(PlusPort(t, p), p) <=> InUse(t, p)
           /\ (InUse(SetPort(t, p, v), p) <=> InUse(t, p))
<1>1. But(t, PlusPort(t, p), {"ports"}) /\ PlusPort(t, p).ports = t.ports \cup {<<p, Unset>>}
  BY PlusPortIs
<1>2. /\ But(t, SetPort(t, p, v), {"ports"})
      /\ SetPort(t, p, v).ports = {q \in t.ports : q[1] # p} \cup {<<p, v>>}
  BY SetPortIs
<1>3. <<p, Unset>> \in PlusPort(t, p).ports /\ <<p, v>> \in SetPort(t, p, v).ports
  BY <1>1, <1>2
<1>4. <<p, Unset>>[1] = p /\ <<p, v>>[1] = p
  OBVIOUS
<1>5. p \in PortIds(PlusPort(t, p)) /\ p \in PortIds(SetPort(t, p, v))
  BY <1>3, <1>4 DEF PortIds
<1>6. PlusPort(t, p).links = t.links /\ SetPort(t, p, v).links = t.links
  BY <1>1, <1>2 DEF But
<1> QED BY <1>1, <1>2, <1>3, <1>5, <1>6 DEF InUse

LEMMA SetPortTwice ==
    ASSUME NEW t, IsTree(t), NEW p, NEW v
    PROVE  /\ SetPort(PlusPort(t, p), p, v) = SetPort(t, p, v)
           /\ SetPort(SetPort(t, p, v), p, v) = SetPort(t, p, v)
<1> DEFINE y == SetPort(t, p, v)
<1>1. But(t, y, {"ports"}) /\ y.ports = {q \in t.ports : q[1] # p} \cup {<<p, v>>}
  BY SetPortIs
<1> HIDE DEF y
<1>2. ASSUME NEW u, But(t, u, {"ports"}),
             {q \in u.ports : q[1] # p} = {q \in t.ports : q[1] # p}
      PROVE  SetPort(u, p, v) = y
  <2> DEFINE x == SetPort(u, p, v)
  <2>0. IsTree(u)
    BY <1>2 DEF But
  <2>1. But(u, x, {"ports"}) /\ x.ports = {q \in u.ports : q[1] # p} \cup {<<p, v>>}
    BY <2>0, SetPortIs
  <2> HIDE DEF x
  <2>2. x.ports = y.ports
    BY <1>1, <1>2, <2>1
  <2>3. x = y
    BY <1>1, <1>2, <2>1, <2>2, SameTree DEF But
  <2> QED BY <2>3 DEF x
<1>3. SetPort(PlusPort(t, p), p, v) = y
  <2> DEFINE u == PlusPort(t, p)
  <2>1. But(t, u, {"ports"}) /\ u.ports = t.ports \cup {<<p, Unset>>}
    BY PlusPortIs
  <2> HIDE DEF u
  <2>2. {q \in u.ports : q[1] # p} = {q \in t.ports : q[1] # p}
    BY <2>1
  <2>3. SetPort(u, p, v) = y
    BY <1>2, <2>1, <2>2
  <2> QED BY <2>3 DEF u
<1>4. SetPort(y, p, v) = y
  <2>1. {q \in y.ports : q[1] # p} = {q \in t.ports : q[1] # p}
    BY <1>1
  <2> QED BY <1>1, <1>2, <2>1
<1> QED BY <1>3, <1>4 DEF y

LEMMA CreatePortidEntered ==
    ASSUME NEW op, op[1] = "create_portid", NEW b, IsTree(b), NEW r, IsCode(r),
           NEW th, NEW t, NEW d, NEW th2, NEW t2, NEW d2, Runs(th, t, d, th2, t2, d2),
           NEW sv, NEW home, Sound(b), op[2] \in Ports, Entered(op, b, r, th, t, d, sv, home)
    PROVE  Working(op, b, r, th2, t2, d2, sv, home)
<1> DEFINE p == op[2]
           u == PlusPort(b, p)
           w == Do(<<"write_addr", op[3]>>, Do(<<"read_addr", op[3]>>, Do(Back, r)))
           c == Do(<<"chdir", <<p>>>>, w)
<1>1. /\ th.code = Do(<<"mkdir", <<p>>>>, c) /\ d = <<"ports">>
      /\ t = b /\ th.ok = TRUE /\ th.saved = Do(home, sv)
  BY DEF Entered, BodyOf, DirOf
<1>2. IsCode(c) /\ In(d, <<p>>) = PortDir(p)
  <2>1. In(<<"ports">>, <<p>>) = PortDir(p)
    BY JoinedPaths
  <2>2. IsCode(Do(<<"read_addr", op[3]>>, Do(Back, r)))
    BY DoCode
  <2>3. IsCode(w)
    BY <2>2, DoCode
  <2> QED BY <1>1, <2>1, <2>3, DoCode
<1> HIDE DEF c
<1>3. CanMake(b, PortDir(p)) /\ Made(b, PortDir(p)) = u
  BY MadeDirs
<1>4. /\ t2 = IF PortDir(p) \in Dirs(b) THEN b ELSE u
      /\ th2.code = c /\ th2.ok = TRUE /\ th2.saved = Do(home, sv) /\ d2 = <<"ports">>
      /\ th2.exists = (PortDir(p) \in Dirs(b))
  <2>1. MkDirDid(<<p>>, c, th, t, d, th2, t2, d2)
    BY <1>1, <1>2, ByMkDir
  <2> QED BY <1>1, <1>2, <1>3, <2>1 DEF MkDirDid
<1>5. CASE PortDir(p) \in Dirs(b)
  <2>1. p \in PortIds(t2) /\ th2.exists /\ t2 = b
    BY <1>4, <1>5, DirsOf
  <2>2. InCreatePortid(p, op[3], r, th2, t2, d2)
    BY <1>4, <2>1 DEF InCreatePortid, c
  <2> QED BY <1>4, <2>1, <2>2 DEF Working, Inside
<1>6. CASE PortDir(p) \notin Dirs(b)
  <2>1. p \notin PortIds(b) /\ t2 = u
    BY <1>4, <1>6, DirsOf
  <2>2. ~InUse(b, p)
    BY <2>1 DEF Sound, InUse
  <2>3. IsTree(u) /\ p \in PortIds(u) /\ ~InUse(u, p)
    BY <2>2, PortsOf DEF But
  <2>4. SetPort(u, p, op[3]) = SetPort(b, p, op[3])
    BY SetPortTwice
  <2> HIDE DEF u
  <2>5. create_portid(u, p, op[3]) = Ok(SetPort(u, p, op[3]))
    BY <2>3, AlonePort
  <2>6. create_portid(b, p, op[3]) = Ok(SetPort(b, p, op[3]))
    BY <2>2, AlonePort
  <2>7. Alone(u, op) = Alone(b, op)
    BY <2>4, <2>5, <2>6 DEF Alone
  <2>8. InCreatePortid(p, op[3], r, th2, t2, d2)
    BY <1>4, <2>1, <2>3 DEF InCreatePortid, c
  <2> QED BY <1>4, <2>1, <2>3, <2>7, <2>8 DEF Working, Inside
<1> QED BY <1>5, <1>6

LEMMA CreatePortidWorking ==
    ASSUME NEW op, op[1] = "create_portid", NEW b, IsTree(b), NEW r, IsCode(r),
           NEW th, NEW t, NEW d, NEW th2, NEW t2, NEW d2, Runs(th, t, d, th2, t2, d2),
           NEW sv, NEW home, Working(op, b, r, th, t, d, sv, home)
    PROVE  Working(op, b, r, th2, t2, d2, sv, home) \/ Leaves(op, b, r, th2, t2, sv, home)
<1> DEFINE p == op[2]
           v == op[3]
           e == Do(<<"read_addr", v>>, Do(Back, r))
           w == Do(<<"write_addr", v>>, e)
<1>1. /\ p \in PortIds(t) /\ th.ok = TRUE /\ th.saved = Do(home, sv) /\ IsTree(t)
      /\ InUse(t, p) => th.exists
      /\ Alone(t, op) = Alone(b, op)
      /\ \/ th.code = Do(<<"chdir", <<p>>>>, w) /\ d = <<"ports">>
         \/ th.code = w /\ d = PortDir(p)
         \/ /\ th.code = e /\ d = PortDir(p)
            /\ InUse(t, p) \/ <<p, v>> \in t.ports
            /\ t = create_portid(t, p, v).tree
  BY DEF Working, Inside, InCreatePortid, PortDir
<1>2. IsCode(Do(Back, r)) /\ IsCode(e) /\ IsCode(w)
  BY DoCode
<1>3. CASE th.code = Do(<<"chdir", <<p>>>>, w) /\ d = <<"ports">>
  <2> HIDE DEF w
  <2>1. In(d, <<p>>) = PortDir(p)
    BY <1>3, JoinedPaths
  <2>2. /\ d2 = IF In(d, <<p>>) \in Dirs(t) THEN In(d, <<p>>) ELSE d
        /\ t2 = t /\ th2.code = w /\ Kept(th, th2)
    BY <1>2, <1>3, ByChDir
  <2>3. d2 = PortDir(p)
    BY <1>1, <2>1, <2>2, DirsOf
  <2>4. InCreatePortid(p, v, r, th2, t2, d2)
    BY <1>1, <2>2, <2>3 DEF InCreatePortid, PortDir, w, Kept
  <2> QED BY <1>1, <2>2, <2>4 DEF Working, Inside, Kept
<1>4. CASE th.code = w /\ d = PortDir(p)
  <2> HIDE DEF e
  <2>1. t2 = Wrote(t, PortDir(p), "write_addr", v) /\ th2.code = e /\ Kept(th, th2) /\ d2 = d
    BY <1>2, <1>4, ByWrite
  <2>2. t2 = IF InUse(t, p) THEN t ELSE SetPort(t, p, v)
    BY <1>1, <2>1, WroteAddr
  <2>3. CASE InUse(t, p)
    <3>1. t2 = t /\ create_portid(t, p, v).tree = t
      BY <2>2, <2>3, AlonePort DEF Ok, Refuse
    <3>2. InCreatePortid(p, v, r, th2, t2, d2)
      BY <1>1, <1>4, <2>1, <2>3, <3>1 DEF InCreatePortid, PortDir, e, Kept
    <3> QED BY <1>1, <2>1, <3>1, <3>2 DEF Working, Inside, Kept
  <2>4. CASE ~InUse(t, p)
    <3>1. t2 = SetPort(t, p, v)
      BY <2>2, <2>4
    <3>2. IsTree(t2) /\ p \in PortIds(t2) /\ ~InUse(t2, p) /\ <<p, v>> \in t2.ports
      <4>1. /\ But(t, SetPort(t, p, v), {"ports"}) /\ p \in PortIds(SetPort(t, p, v))
            /\ <<p, v>> \in SetPort(t, p, v).ports /\ (InUse(SetPort(t, p, v), p) <=> InUse(t, p))
        BY <1>1, PortsOf
      <4>2. IsTree(t2)
        BY <3>1, <4>1 DEF But
      <4> QED BY <2>4, <3>1, <4>1, <4>2
    <3>3. SetPort(t2, p, v) = t2
      BY <1>1, <3>1, SetPortTwice
    <3>4. create_portid(t2, p, v) = Ok(t2) /\ create_portid(t, p, v) = Ok(t2)
      BY <2>4, <3>1, <3>2, <3>3, AlonePort
    <3>5. Alone(t2, op) = Alone(b, op)
      BY <1>1, <3>4 DEF Alone
    <3>6. create_portid(t2, p, v).tree = t2
      BY <3>4 DEF Ok
    <3>7. InCreatePortid(p, v, r, th2, t2, d2)
      BY <1>1, <1>4, <2>1, <3>2, <3>6 DEF InCreatePortid, PortDir, e, Kept
    <3> QED BY <1>1, <2>1, <3>2, <3>5, <3>7 DEF Working, Inside, Kept
  <2> QED BY <2>3, <2>4
<1>5. CASE /\ th.code = e /\ d = PortDir(p)
           /\ InUse(t, p) \/ <<p, v>> \in t.ports
           /\ t = create_portid(t, p, v).tree
  <2>1. /\ t2 = t /\ th2.code = Do(Back, r) /\ th2.saved = th.saved
        /\ th2.ok = (~th.exists \/ (Len(d) = 2 /\ <<d[2], v>> \in t.ports))
    BY <1>2, <1>5, ByRead
  <2>2. Len(d) = 2 /\ d[2] = p
    BY <1>5, Lens
  <2>3. th2.ok = (~th.exists \/ <<p, v>> \in t.ports)
    BY <2>1, <2>2
  <2>4. CASE <<p, v>> \in t.ports
    <3>1. th2.ok = TRUE
      BY <2>3, <2>4
    <3>3. create_portid(t, p, v) = [tree |-> t, ok |-> TRUE]
      BY <1>5, <2>4 DEF create_portid, Ok
    <3> QED BY <1>1, <2>1, <3>1, <3>3 DEF Leaves, Alone
  <2>5. CASE <<p, v>> \notin t.ports
    <3>1. InUse(t, p) /\ th.exists
      BY <1>1, <1>5, <2>5
    <3>2. th2.ok = FALSE
      BY <2>3, <2>5, <3>1
    <3>3. create_portid(t, p, v) = [tree |-> t, ok |-> FALSE]
      BY <2>5, <3>1 DEF create_portid, Refuse
    <3> QED BY <1>1, <2>1, <3>2, <3>3 DEF Leaves, Alone
  <2> QED BY <2>4, <2>5
<1> QED BY <1>1, <1>3, <1>4, <1>5

-----------------------------------------------------------------------------
(* The loops over a directory.                                              *)

LEMMA ByLoop ==
    ASSUME NEW th, NEW t, NEW d, NEW th2, NEW t2, NEW d2, Runs(th, t, d, th2, t2, d2),
           NEW c, IsCode(c), NEW left, NEW x, th.code = Loop(left, x, c)
    PROVE  /\ t2 = t /\ d2 = d /\ Kept(th, th2)
           /\ \/ left = {} /\ th2.code = c
              \/ \E n \in left : th2.code = Joined(Entry(x, n), Loop(left \ {n}, x, c))
           /\ \A y, z : IsCode(Loop(y, z, c))
<1>1. th.code = Do(<<"readdir", left, x>>, c) /\ \A y, z : IsCode(Loop(y, z, c))
  BY DoCode DEF Loop
<1> QED BY <1>1, ByReadDir

LEMMA EntryCode ==
    ASSUME NEW c, IsCode(c), NEW n, NEW s
    PROVE  /\ Joined(Entry(<<"opendir_links", s>>, n), c) = Do(<<"remove", LinkPath(s, n)>>, c)
           /\ Joined(Entry(<<"opendir_hosts">>, n), c)
                = Do(<<"remove", <<"allowed_hosts", n>>>>, c)
           /\ Joined(Entry(<<"opendir_ns">>, n), c)
                = Do(<<"chdir", <<"namespaces", n>>>>, Do(<<"chdir_up", 2>>,
                  Do(<<"rmdir", <<"namespaces", n>>>>, c)))
<1>1. Entry(<<"opendir_links", s>>, n) = << <<"remove", LinkPath(s, n)>> >>
  BY DEF Entry, LinkPath
<1>2. Entry(<<"opendir_hosts">>, n) = << <<"remove", <<"allowed_hosts", n>>>> >>
  BY DEF Entry
<1>4. Entry(<<"opendir_ns">>, n)
        = << <<"chdir", <<"namespaces", n>>>>, <<"chdir_up", 2>>, <<"rmdir", <<"namespaces", n>>>> >>
  BY DEF Entry
<1>5. \A x : Joined(<<x>>, c) = Do(x, c)
  BY Code1
<1>6. \A x, y, z : Joined(<<x, y, z>>, c) = Do(x, Do(y, Do(z, c)))
  BY Code3
<1> QED BY <1>1, <1>2, <1>4, <1>5, <1>6

LEMMA EntryPorts ==
    ASSUME NEW c, IsCode(c), NEW n, NEW s
    PROVE  Joined(Entry(<<"opendir_ports", s>>, n), c) = Do(<<"remove", PortLink(n, s)>>, c)
<1>1. Entry(<<"opendir_ports", s>>, n) = << <<"remove", PortLink(n, s)>> >>
  BY DEF Entry, PortLink
<1>2. Joined(<< <<"remove", PortLink(n, s)>> >>, c) = Do(<<"remove", PortLink(n, s)>>, c)
  BY Code1
<1> QED BY <1>1, <1>2

LEMMA DeletePortidIs ==
    ASSUME NEW t, IsTree(t), NEW p
    PROVE  LET u == delete_portid(t, p).tree
           IN  /\ delete_portid(t, p) = Ok(u)
               /\ But(t, u, {"ports", "links"})
               /\ u.ports = {q \in t.ports : q[1] # p}
               /\ u.links = {l \in t.links : l[1] # p}
<1> DEFINE v == [t EXCEPT !.ports = {q \in @ : q[1] # p}]
           u == delete_portid(t, p).tree
<1>1. But(t, v, {"ports"}) /\ v.ports = {q \in t.ports : q[1] # p}
  BY DEF IsTree, But
<1>2. u = [v EXCEPT !.links = {l \in @ : l[1] # p}] /\ delete_portid(t, p) = Ok(u)
  BY DEF delete_portid, Ok
<1> HIDE DEF v
<1>3. But(v, u, {"links"}) /\ u.links = {l \in v.links : l[1] # p}
  <2>1. IsTree(v)
    BY <1>1 DEF But
  <2> HIDE DEF u
  <2> QED BY <1>2, <2>1 DEF IsTree, But
<1> HIDE DEF u
<1>4. u.links = {l \in t.links : l[1] # p} /\ u.ports = {q \in t.ports : q[1] # p}
  BY <1>1, <1>3 DEF But
<1>5. But(t, u, {"ports", "links"})
  BY <1>1, <1>3 DEF But
<1> QED BY <1>2, <1>4, <1>5 DEF u

\* A link fewer: the port is removed with the same result.
LEMMA DeletePortidLess ==
    ASSUME NEW t, IsTree(t), NEW p, NEW s
    PROVE  delete_portid(LessLink(t, p, s), p) = delete_portid(t, p)
<1> DEFINE v == LessLink(t, p, s)
           x == delete_portid(v, p).tree
           y == delete_portid(t, p).tree
<1>1. But(t, v, {"links"}) /\ v.links = t.links \ {<<p, s>>}
  BY LessLinkIs
<1>2. IsTree(v)
  BY <1>1 DEF But
<1> HIDE DEF v
<1>3. /\ delete_portid(t, p) = Ok(y) /\ But(t, y, {"ports", "links"})
      /\ y.ports = {q \in t.ports : q[1] # p} /\ y.links = {l \in t.links : l[1] # p}
  BY DeletePortidIs
<1>4. /\ delete_portid(v, p) = Ok(x) /\ But(v, x, {"ports", "links"})
      /\ x.ports = {q \in v.ports : q[1] # p} /\ x.links = {l \in v.links : l[1] # p}
  BY <1>2, DeletePortidIs
<1> HIDE DEF x, y
<1>5. x.links = y.links
  <2>1. <<p, s>>[1] = p
    OBVIOUS
  <2> QED BY <1>1, <1>3, <1>4, <2>1
<1>6. x.ports = y.ports
  BY <1>1, <1>3, <1>4 DEF But
<1>7. IsTree(x) /\ IsTree(y) /\ x.subsys = y.subsys /\ x.any = y.any /\ x.ns = y.ns
  BY <1>1, <1>3, <1>4 DEF But
<1>8. x.allowed = y.allowed /\ x.hosts = y.hosts
  BY <1>1, <1>3, <1>4 DEF But
<1>9. x = y
  BY <1>5, <1>6, <1>7, <1>8, SameTree
<1> QED BY <1>3, <1>4, <1>9 DEF v

\* Without a link, removing its directory removes the port.
LEMMA DeletePortidLast ==
    ASSUME NEW t, IsTree(t), NEW p, ~InUse(t, p)
    PROVE  delete_portid(t, p) = Ok(LessPort(t, p))
<1> DEFINE x == LessPort(t, p)
           y == delete_portid(t, p).tree
<1>1. But(t, x, {"ports"}) /\ x.ports = {q \in t.ports : q[1] # p}
  BY LessPortIs
<1>2. /\ delete_portid(t, p) = Ok(y) /\ But(t, y, {"ports", "links"})
      /\ y.ports = {q \in t.ports : q[1] # p} /\ y.links = {l \in t.links : l[1] # p}
  BY DeletePortidIs
<1> HIDE DEF x, y
<1>3. y.links = t.links
  BY <1>2 DEF InUse
<1>4. x = y
  BY <1>1, <1>2, <1>3, SameTree DEF But
<1> QED BY <1>2, <1>4 DEF x

LEMMA DeletePortidEntered ==
    ASSUME NEW op, op[1] = "delete_portid", NEW b, IsTree(b), NEW r, IsCode(r),
           NEW th, NEW t, NEW d, NEW th2, NEW t2, NEW d2, Runs(th, t, d, th2, t2, d2),
           NEW sv, NEW home, Sound(b), Proper(b), Entered(op, b, r, th, t, d, sv, home)
    PROVE  Working(op, b, r, th2, t2, d2, sv, home) \/ Leaves(op, b, r, th2, t2, sv, home)
<1> DEFINE p == op[2]
           x == <<"opendir_links", p>>
           c == Removes(p, r)
<1>1. /\ th.code = Do(x, c) /\ d = <<"ports">>
      /\ t = b /\ th.ok = TRUE /\ th.saved = Do(home, sv)
  BY DEF Entered, BodyOf, DirOf
<1>2. IsCode(c) /\ In(d, <<p>>) = PortDir(p) /\ SkipToBack(c) = Do(Back, r)
  <2>1. In(<<"ports">>, <<p>>) = PortDir(p)
    BY JoinedPaths
  <2>2. Skips(c, r)
    BY SkipsBack, SkipsDo DEF Removes
  <2> QED BY <1>1, <2>1, <2>2 DEF Skips
<1>3. x[1] = "opendir_links" /\ x[2] = p /\ x[1] \in OpenCalls
  BY DEF OpenCalls
<1>4. NamesIn(x, t, d) = {l[2] : l \in {m \in b.links : m[1] = p}}
  BY <1>1 DEF NamesIn
<1> HIDE DEF c, x
<1>5. /\ t2 = t /\ d2 = d /\ Kept(th, th2)
      /\ th2.code = IF PortDir(p) \notin Dirs(b) THEN Do(Back, r) ELSE Loop(NamesIn(x, t, d), x, c)
  <2>1. /\ t2 = t /\ d2 = d /\ Kept(th, th2)
        /\ th2.code = IF x[1] = "opendir_links" /\ In(d, <<x[2]>>) \notin Dirs(t)
                      THEN SkipToBack(c) ELSE Loop(NamesIn(x, t, d), x, c)
    BY <1>1, <1>2, <1>3, ByOpenDir
  <2> QED BY <1>1, <1>2, <1>3, <2>1
<1>6. CASE PortDir(p) \notin Dirs(b)
  <2>1. p \notin PortIds(b)
    BY <1>6, DirsOf
  <2>2. ~InUse(b, p)
    BY <2>1 DEF Sound, InUse
  <2>3. But(b, LessPort(b, p), {"ports"}) /\ LessPort(b, p).ports = {q \in b.ports : q[1] # p}
    BY LessPortIs
  <2>4. LessPort(b, p).ports = b.ports
    BY <2>1, <2>3 DEF PortIds
  <2>5. LessPort(b, p) = b
    BY <2>3, <2>4, SameTree DEF But
  <2>6. Alone(b, op) = Ok(b)
    BY <2>2, <2>5, DeletePortidLast DEF Alone
  <2> QED BY <1>1, <1>5, <1>6, <2>6 DEF Leaves, Kept, Ok
<1>7. CASE PortDir(p) \in Dirs(b)
  <2> DEFINE left == NamesIn(x, t, d)
  <2>1. p \in PortIds(b)
    BY <1>7, DirsOf
  <2>2. \A l \in t.links : l[1] = p => l[2] \in left
    BY <1>1, <1>4
  <2> HIDE DEF left
  <2>3. th2.code = Loop(left, <<"opendir_links", p>>, Removes(p, r))
    BY <1>5, <1>7 DEF x, c, left
  <2>4. InDeletePortid(p, r, th2, t2, d2)
    BY <1>1, <1>5, <2>1, <2>2, <2>3 DEF InDeletePortid, Kept
  <2> QED BY <1>1, <1>5, <2>4 DEF Working, Inside, Kept
<1> QED BY <1>6, <1>7

LEMMA DeletePortidWorking ==
    ASSUME NEW op, op[1] = "delete_portid", NEW b, IsTree(b), NEW r, IsCode(r),
           NEW th, NEW t, NEW d, NEW th2, NEW t2, NEW d2, Runs(th, t, d, th2, t2, d2),
           NEW sv, NEW home, Working(op, b, r, th, t, d, sv, home)
    PROVE  Working(op, b, r, th2, t2, d2, sv, home) \/ Leaves(op, b, r, th2, t2, sv, home)
<1> DEFINE p == op[2]
           x == <<"opendir_links", p>>
           c == Removes(p, r)
<1>1. /\ d = <<"ports">> /\ p \in PortIds(t) /\ th.ok = TRUE /\ Proper(t)
      /\ th.saved = Do(home, sv) /\ IsTree(t) /\ Alone(t, op) = Alone(b, op)
      /\ InDeletePortid(p, r, th, t, d)
  BY DEF Working, Inside, InDeletePortid
<1>2. IsCode(Do(Back, r)) /\ IsCode(c)
  BY DoCode DEF Removes
<1> HIDE DEF x, c
<1>3. ASSUME NEW left, \A l \in t.links : l[1] = p => l[2] \in left, th.code = Loop(left, x, c)
      PROVE  Working(op, b, r, th2, t2, d2, sv, home)
  <2>1. /\ t2 = t /\ d2 = d /\ Kept(th, th2)
        /\ \/ left = {} /\ th2.code = c
           \/ \E n \in left : th2.code = Joined(Entry(x, n), Loop(left \ {n}, x, c))
        /\ \A y, z : IsCode(Loop(y, z, c))
    BY <1>2, <1>3, ByLoop
  <2>2. CASE left = {} /\ th2.code = c
    <3>1. ~InUse(t, p)
      BY <1>3, <2>2 DEF InUse
    <3>2. InDeletePortid(p, r, th2, t2, d2)
      BY <1>1, <2>1, <2>2, <3>1 DEF InDeletePortid, Kept, c
    <3> QED BY <1>1, <2>1, <3>2 DEF Working, Inside, Kept
  <2>3. ASSUME NEW n, n \in left, th2.code = Joined(Entry(x, n), Loop(left \ {n}, x, c))
        PROVE  Working(op, b, r, th2, t2, d2, sv, home)
    <3>1. th2.code = Do(<<"remove", LinkPath(p, n)>>, Loop(left \ {n}, x, c))
      BY <2>1, <2>3, EntryCode DEF x
    <3>2. InDeletePortid(p, r, th2, t2, d2)
      BY <1>1, <1>3, <2>1, <3>1 DEF InDeletePortid, Kept, x, c
    <3> QED BY <1>1, <2>1, <3>2 DEF Working, Inside, Kept
  <2> QED BY <2>1, <2>2, <2>3
<1>4. ASSUME NEW left, \A l \in t.links : l[1] = p => l[2] \in left, NEW s,
             th.code = Do(<<"remove", LinkPath(p, s)>>, Loop(left \ {s}, x, c))
      PROVE  Working(op, b, r, th2, t2, d2, sv, home)
  <2>1. IsCode(Loop(left \ {s}, x, c))
    BY <1>2, DoCode DEF Loop
  <2>2. In(d, LinkPath(p, s)) = PortLink(p, s)
    <3>1. In(<<"ports">>, LinkPath(p, s)) = PortLink(p, s)
      BY JoinedPaths
    <3> QED BY <1>1, <3>1
  <2>3. /\ d2 = d /\ t2 = Unlinked(t, In(d, LinkPath(p, s)))
        /\ th2.code = Loop(left \ {s}, x, c) /\ Kept(th, th2)
    BY <1>4, <2>1, ByRemove
  <2>4. t2 = LessLink(t, p, s)
    BY <2>2, <2>3, LinkPaths
  <2>5. But(t, t2, {"links"}) /\ t2.links = t.links \ {<<p, s>>}
    BY <1>1, <2>4, LessLinkIs
  <2>6. \A l \in t2.links : l[1] = p => l[2] \in left \ {s}
    BY <1>1, <1>4, <2>5 DEF Proper
  <2>7. IsTree(t2) /\ Proper(t2) /\ PortIds(t2) = PortIds(t)
    BY <1>1, <2>5 DEF But, Proper, PortIds
  <2>8. Alone(t2, op) = Alone(b, op)
    BY <1>1, <2>4, DeletePortidLess DEF Alone
  <2>9. InDeletePortid(p, r, th2, t2, d2)
    BY <1>1, <2>3, <2>6, <2>7 DEF InDeletePortid, Kept, x, c
  <2> QED BY <1>1, <2>3, <2>7, <2>8, <2>9 DEF Working, Inside, Kept
<1>5. ASSUME th.code = c, ~InUse(t, p)
      PROVE  Leaves(op, b, r, th2, t2, sv, home)
  <2>1. In(d, <<p>>) = PortDir(p)
    BY <1>1, JoinedPaths
  <2>2. th.code = Do(<<"rmdir", <<p>>>>, Do(Back, r))
    BY <1>5 DEF c, Removes
  <2>3. t2 = Removed(t, PortDir(p)) /\ th2.code = Do(Back, r) /\ Kept(th, th2)
    BY <1>2, <2>1, <2>2, ByRmDir
  <2>4. t2 = LessPort(t, p)
    BY <1>1, <1>5, <2>3, RemovedPort
  <2>5. Alone(t, op) = Ok(t2)
    BY <1>1, <1>5, <2>4, DeletePortidLast DEF Alone
  <2> QED BY <1>1, <2>3, <2>5 DEF Leaves, Kept, Ok
<1>6. \/ \E left :
            /\ \A l \in t.links : l[1] = p => l[2] \in left
            /\ \/ th.code = Loop(left, x, c)
               \/ \E s : th.code = Do(<<"remove", LinkPath(p, s)>>, Loop(left \ {s}, x, c))
      \/ th.code = c /\ ~InUse(t, p)
  BY <1>1 DEF InDeletePortid, x, c
<1> QED BY <1>3, <1>4, <1>5, <1>6

LEMMA DeleteSubsysIs ==
    ASSUME NEW t, IsTree(t), NEW s
    PROVE  LET u == delete_subsys(t, s).tree
           IN  /\ delete_subsys(t, s) = Ok(u)
               /\ But(t, u, {"subsys", "any", "ns", "allowed", "links"})
               /\ u.subsys = t.subsys \ {s} /\ u.any = t.any \ {s}
               /\ u.ns = {n \in t.ns : n[1] # s}
               /\ u.allowed = {a \in t.allowed : a[1] # s}
               /\ u.links = {l \in t.links : l[2] # s}
<1> DEFINE v == LessSubsys(t, s)
           w == [v EXCEPT !.ns = {n \in @ : n[1] # s}]
           x == [w EXCEPT !.allowed = {a \in @ : a[1] # s}]
           u == delete_subsys(t, s).tree
<1>1. /\ But(t, v, {"subsys", "any"}) /\ v.subsys = t.subsys \ {s} /\ v.any = t.any \ {s}
  BY LessSubsysIs
<1>2. u = [x EXCEPT !.links = {l \in @ : l[2] # s}] /\ delete_subsys(t, s) = Ok(u)
  BY DEF delete_subsys, Ok, LessSubsys
<1> HIDE DEF v
<1>3. But(v, w, {"ns"}) /\ w.ns = {n \in v.ns : n[1] # s}
  <2>1. IsTree(v)
    BY <1>1 DEF But
  <2> DEFINE A == {n \in v.ns : n[1] # s}
  <2>2. w = [v EXCEPT !.ns = A]
    OBVIOUS
  <2> HIDE DEF A, w
  <2>3. But(v, w, {"ns"}) /\ w.ns = A
    BY <2>1, <2>2 DEF IsTree, But
  <2> QED BY <2>3 DEF A
<1> HIDE DEF w
<1>4. But(w, x, {"allowed"}) /\ x.allowed = {a \in w.allowed : a[1] # s}
  <2>1. IsTree(w)
    BY <1>3 DEF But
  <2> DEFINE A == {a \in w.allowed : a[1] # s}
  <2>2. x = [w EXCEPT !.allowed = A]
    OBVIOUS
  <2> HIDE DEF A, x
  <2>3. But(w, x, {"allowed"}) /\ x.allowed = A
    BY <2>1, <2>2 DEF IsTree, But
  <2> QED BY <2>3 DEF A
<1> HIDE DEF x, u
<1>5. But(x, u, {"links"}) /\ u.links = {l \in x.links : l[2] # s}
  <2>1. IsTree(x)
    BY <1>4 DEF But
  <2> QED BY <1>2, <2>1 DEF IsTree, But
<1>6. But(t, u, {"subsys", "any", "ns", "allowed", "links"})
  BY <1>1, <1>3, <1>4, <1>5 DEF But
<1>7. u.subsys = t.subsys \ {s} /\ u.any = t.any \ {s} /\ u.ns = {n \in t.ns : n[1] # s}
  BY <1>1, <1>3, <1>4, <1>5 DEF But
<1>8. u.allowed = {a \in t.allowed : a[1] # s} /\ u.links = {l \in t.links : l[2] # s}
  BY <1>1, <1>3, <1>4, <1>5 DEF But
<1> QED BY <1>2, <1>6, <1>7, <1>8 DEF u

\* What is removed below a subsystem first does not matter in the end.
LEMMA DeleteSubsysSame ==
    ASSUME NEW t, IsTree(t), NEW v, But(t, v, {"ns", "allowed", "links"}), NEW s,
           {n \in v.ns : n[1] # s} = {n \in t.ns : n[1] # s},
           {a \in v.allowed : a[1] # s} = {a \in t.allowed : a[1] # s},
           {l \in v.links : l[2] # s} = {l \in t.links : l[2] # s}
    PROVE  delete_subsys(v, s) = delete_subsys(t, s)
<1> DEFINE x == delete_subsys(v, s).tree
           y == delete_subsys(t, s).tree
<1>1. IsTree(v) /\ v.subsys = t.subsys /\ v.any = t.any /\ v.ports = t.ports /\ v.hosts = t.hosts
  BY DEF But
<1>2. /\ delete_subsys(t, s) = Ok(y)
      /\ But(t, y, {"subsys", "any", "ns", "allowed", "links"})
      /\ y.subsys = t.subsys \ {s} /\ y.any = t.any \ {s}
      /\ y.ns = {n \in t.ns : n[1] # s}
      /\ y.allowed = {a \in t.allowed : a[1] # s}
      /\ y.links = {l \in t.links : l[2] # s}
  BY DeleteSubsysIs
<1>3. /\ delete_subsys(v, s) = Ok(x)
      /\ But(v, x, {"subsys", "any", "ns", "allowed", "links"})
      /\ x.subsys = v.subsys \ {s} /\ x.any = v.any \ {s}
      /\ x.ns = {n \in v.ns : n[1] # s}
      /\ x.allowed = {a \in v.allowed : a[1] # s}
      /\ x.links = {l \in v.links : l[2] # s}
  BY <1>1, DeleteSubsysIs
<1> HIDE DEF x, y
<1>4. /\ IsTree(x) /\ IsTree(y) /\ x.ports = y.ports /\ x.hosts = y.hosts
      /\ x.subsys = y.subsys /\ x.any = y.any
  BY <1>1, <1>2, <1>3 DEF But
<1>5. x.ns = y.ns /\ x.allowed = y.allowed /\ x.links = y.links
  BY <1>2, <1>3
<1>6. x = y
  BY <1>4, <1>5, SameTree
<1> QED BY <1>2, <1>3, <1>6

LEMMA DeleteSubsysLess ==
    ASSUME NEW t, IsTree(t), NEW s, NEW x
    PROVE  /\ delete_subsys(LessAllowed(t, s, x), s) = delete_subsys(t, s)
           /\ delete_subsys(LessNs(t, s, x), s) = delete_subsys(t, s)
           /\ delete_subsys(LessLink(t, x, s), s) = delete_subsys(t, s)
<1>1. delete_subsys(LessAllowed(t, s, x), s) = delete_subsys(t, s)
  <2> DEFINE v == LessAllowed(t, s, x)
  <2>1. But(t, v, {"allowed"}) /\ v.allowed = t.allowed \ {<<s, x>>} /\ <<s, x>>[1] = s
    BY LessAllowedIs
  <2> HIDE DEF v
  <2>2. But(t, v, {"ns", "allowed", "links"}) /\ v.ns = t.ns /\ v.links = t.links
    BY <2>1 DEF But
  <2>3. {a \in v.allowed : a[1] # s} = {a \in t.allowed : a[1] # s}
    BY <2>1
  <2>4. delete_subsys(v, s) = delete_subsys(t, s)
    BY <2>2, <2>3, DeleteSubsysSame
  <2> QED BY <2>4 DEF v
<1>2. delete_subsys(LessNs(t, s, x), s) = delete_subsys(t, s)
  <2> DEFINE v == LessNs(t, s, x)
  <2>1. But(t, v, {"ns"}) /\ v.ns = {m \in t.ns : m[1] # s \/ m[2] # x}
    BY LessNsIs
  <2> HIDE DEF v
  <2>2. But(t, v, {"ns", "allowed", "links"}) /\ v.allowed = t.allowed /\ v.links = t.links
    BY <2>1 DEF But
  <2>3. {n \in v.ns : n[1] # s} = {n \in t.ns : n[1] # s}
    BY <2>1
  <2>4. delete_subsys(v, s) = delete_subsys(t, s)
    BY <2>2, <2>3, DeleteSubsysSame
  <2> QED BY <2>4 DEF v
<1>3. delete_subsys(LessLink(t, x, s), s) = delete_subsys(t, s)
  <2> DEFINE v == LessLink(t, x, s)
  <2>1. But(t, v, {"links"}) /\ v.links = t.links \ {<<x, s>>} /\ <<x, s>>[2] = s
    BY LessLinkIs
  <2> HIDE DEF v
  <2>2. But(t, v, {"ns", "allowed", "links"}) /\ v.ns = t.ns /\ v.allowed = t.allowed
    BY <2>1 DEF But
  <2>3. {l \in v.links : l[2] # s} = {l \in t.links : l[2] # s}
    BY <2>1
  <2>4. delete_subsys(v, s) = delete_subsys(t, s)
    BY <2>2, <2>3, DeleteSubsysSame
  <2> QED BY <2>4 DEF v
<1> QED BY <1>1, <1>2, <1>3

LEMMA DeleteSubsysLast ==
    ASSUME NEW t, IsTree(t), NEW s, NoHosts(t, s), NoNs(t, s), NoPorts(t, s)
    PROVE  delete_subsys(t, s) = Ok(LessSubsys(t, s))
<1> DEFINE x == LessSubsys(t, s)
           y == delete_subsys(t, s).tree
<1>1. But(t, x, {"subsys", "any"}) /\ x.subsys = t.subsys \ {s} /\ x.any = t.any \ {s}
  BY LessSubsysIs
<1>2. /\ delete_subsys(t, s) = Ok(y)
      /\ But(t, y, {"subsys", "any", "ns", "allowed", "links"})
      /\ y.subsys = t.subsys \ {s} /\ y.any = t.any \ {s}
      /\ y.ns = {n \in t.ns : n[1] # s}
      /\ y.allowed = {a \in t.allowed : a[1] # s}
      /\ y.links = {l \in t.links : l[2] # s}
  BY DeleteSubsysIs
<1> HIDE DEF x, y
<1>3. y.ns = t.ns /\ y.allowed = t.allowed /\ y.links = t.links
  BY <1>2 DEF NoHosts, NoNs, NoPorts
<1>4. x = y
  BY <1>1, <1>2, <1>3, SameTree DEF But
<1> QED BY <1>2, <1>4 DEF x

-----------------------------------------------------------------------------
(* delete_subsys.                                                           *)

\* What holds from the first loop on.
Ready(op, b, th, t, sv, home) ==
    /\ th.saved = Do(home, sv) /\ th.ok = TRUE /\ IsTree(t) /\ Proper(t)
    /\ Alone(t, op) = Alone(b, op) /\ op[2] \in t.subsys

LEMMA ReadyWorks ==
    ASSUME NEW op, op[1] = "delete_subsys", NEW b, NEW r, NEW th, NEW t, NEW d, NEW sv, NEW home,
           Ready(op, b, th, t, sv, home), InDeleteSubsys(op[2], r, th, t, d)
    PROVE  Working(op, b, r, th, t, d, sv, home)
BY DEF Ready, Working, Inside

LEMMA ReadyStays ==
    ASSUME NEW op, NEW b, NEW th, NEW t, NEW sv, NEW home, Ready(op, b, th, t, sv, home),
           NEW th2, Kept(th, th2)
    PROVE  Ready(op, b, th2, t, sv, home)
BY DEF Ready, Kept

\* What is left to do can be done.
LEMMA SubsysCode ==
    ASSUME NEW s, NEW r, IsCode(r)
    PROVE  /\ IsCode(Do(Back, r)) /\ IsCode(Removes(s, r)) /\ IsCode(AfterPorts(s, r))
           /\ IsCode(Do(<<"opendir_ports", s>>, AfterPorts(s, r)))
           /\ IsCode(AfterNs(s, r)) /\ IsCode(AfterHosts(s, r))
<1>1. IsCode(Do(Back, r))
  BY DoCode
<1>2. IsCode(Removes(s, r))
  BY <1>1, DoCode DEF Removes
<1>3. IsCode(AfterPorts(s, r))
  BY <1>2, DoCode DEF AfterPorts
<1>4. IsCode(Do(<<"opendir_ports", s>>, AfterPorts(s, r)))
  BY <1>3, DoCode
<1>5. IsCode(AfterNs(s, r))
  BY <1>4, DoCode DEF AfterNs
<1>6. IsCode(AfterHosts(s, r))
  BY <1>5, DoCode DEF AfterHosts
<1> QED BY <1>1, <1>2, <1>3, <1>4, <1>5, <1>6

\* What the directories of a subsystem hold.
HostsOf(t, s) == {a[2] : a \in {m \in t.allowed : m[1] = s}}
NsOf(t, s)    == {n[2] : n \in {m \in t.ns : m[1] = s}}

LEMMA SubsysNames ==
    ASSUME NEW t, NEW s
    PROVE  /\ NamesIn(<<"opendir_hosts">>, t, SubsysDir(s)) = HostsOf(t, s)
           /\ NamesIn(<<"opendir_ns">>, t, SubsysDir(s)) = NsOf(t, s)
           /\ NamesIn(<<"opendir_ports", s>>, t, <<>>) = PortIds(t)
<1> DEFINE d == SubsysDir(s)
           here == IF Len(d) = 2 /\ d[1] = "subsystems" THEN {d[2]} ELSE {}
<1>1. here = {s}
  BY Lens
<1> HIDE DEF d, here
<1>2. NamesIn(<<"opendir_hosts">>, t, d) = {a[2] : a \in {m \in t.allowed : m[1] \in here}}
  BY DEF NamesIn, here
<1>3. NamesIn(<<"opendir_ns">>, t, d) = {n[2] : n \in {m \in t.ns : m[1] \in here}}
  BY DEF NamesIn, here
<1>4. NamesIn(<<"opendir_ports", s>>, t, <<>>) = PortIds(t)
  BY DEF NamesIn
<1>5. \A m : m[1] \in here <=> m[1] = s
  BY <1>1
<1>6. /\ {m \in t.allowed : m[1] \in here} = {m \in t.allowed : m[1] = s}
      /\ {m \in t.ns : m[1] \in here} = {m \in t.ns : m[1] = s}
  BY <1>5
<1> QED BY <1>2, <1>3, <1>4, <1>6 DEF d, HostsOf, NsOf

LEMMA ByOpen ==
    ASSUME NEW th, NEW t, NEW d, NEW th2, NEW t2, NEW d2, Runs(th, t, d, th2, t2, d2),
           NEW c, IsCode(c), NEW x, x[1] \in OpenCalls, x[1] # "opendir_links", th.code = Do(x, c)
    PROVE  t2 = t /\ d2 = d /\ Kept(th, th2) /\ th2.code = Loop(NamesIn(x, t, d), x, c)
<1>1. Ran(x, c, th, t, d, th2, t2, d2)
  BY DEF Runs
<1>2. RanOpenDir(x, c, th, t, d, th2, t2, d2)
  BY <1>1 DEF Ran
<1>3. t2 = t /\ d2 = d /\ th2 = Goes(th, Loop(NamesIn(x, t, d), x, c))
  BY <1>2 DEF RanOpenDir
<1> QED BY <1>3, ToFields DEF Kept

LEMMA SubsysEntered ==
    ASSUME NEW op, op[1] = "delete_subsys", NEW b, IsTree(b), NEW r, IsCode(r),
           NEW th, NEW t, NEW d, NEW th2, NEW t2, NEW d2, Runs(th, t, d, th2, t2, d2),
           NEW sv, NEW home, Proper(b), Entered(op, b, r, th, t, d, sv, home)
    PROVE  Working(op, b, r, th2, t2, d2, sv, home)
<1> DEFINE s == op[2]
           x == <<"opendir_hosts">>
           c == AfterHosts(s, r)
<1>1. /\ th.code = Do(x, c) /\ d = SubsysDir(s) /\ SubsysDir(s) \in Dirs(t)
      /\ t = b /\ th.ok = TRUE /\ th.saved = Do(home, sv)
  BY DEF Entered, BodyOf, DirOf, SubsysDir
<1>2. IsCode(c) /\ x[1] \in OpenCalls /\ x[1] # "opendir_links"
  BY SubsysCode DEF OpenCalls
<1>3. NamesIn(x, t, d) = HostsOf(t, s)
  <2>1. NamesIn(x, t, SubsysDir(s)) = HostsOf(t, s)
    BY SubsysNames
  <2> QED BY <1>1, <2>1
<1> HIDE DEF x, c
<1>4. t2 = t /\ d2 = d /\ Kept(th, th2) /\ th2.code = Loop(NamesIn(x, t, d), x, c)
  BY <1>1, <1>2, ByOpen
<1>5. s \in t.subsys
  BY <1>1, DirsOf
<1>6. Ready(op, b, th2, t2, sv, home)
  BY <1>1, <1>4, <1>5 DEF Ready, Kept
<1> DEFINE left == NamesIn(x, t, d)
<1>7. \A a \in t.allowed : a[1] = s => a[2] \in left
  BY <1>3 DEF HostsOf
<1>8. th2.code = Loop(left, x, c)
  BY <1>4
<1> HIDE DEF left
<1>9. InHosts(s, r, th2, t2, d2)
  BY <1>1, <1>4, <1>7, <1>8 DEF InHosts, SubsysDir, x, c
<1>10. InDeleteSubsys(s, r, th2, t2, d2)
  BY <1>6, <1>9 DEF InDeleteSubsys, Ready
<1> QED BY <1>6, <1>10, ReadyWorks

LEMMA SubsysHosts ==
    ASSUME NEW op, op[1] = "delete_subsys", NEW b, IsTree(b), NEW r, IsCode(r),
           NEW th, NEW t, NEW d, NEW th2, NEW t2, NEW d2, Runs(th, t, d, th2, t2, d2),
           NEW sv, NEW home, Ready(op, b, th, t, sv, home),
           InHosts(op[2], r, th, t, d)
    PROVE  Working(op, b, r, th2, t2, d2, sv, home)
<1> DEFINE s == op[2]
           x == <<"opendir_hosts">>
           c == AfterHosts(s, r)
<1>1. IsCode(c) /\ d = SubsysDir(s)
  BY SubsysCode DEF InHosts, SubsysDir
<1> HIDE DEF x, c
<1>2. ASSUME NEW left, \A a \in t.allowed : a[1] = s => a[2] \in left, th.code = Loop(left, x, c)
      PROVE  Working(op, b, r, th2, t2, d2, sv, home)
  <2>1. /\ t2 = t /\ d2 = d /\ Kept(th, th2)
        /\ \/ left = {} /\ th2.code = c
           \/ \E n \in left : th2.code = Joined(Entry(x, n), Loop(left \ {n}, x, c))
        /\ \A y, z : IsCode(Loop(y, z, c))
    BY <1>1, <1>2, ByLoop
  <2>2. Ready(op, b, th2, t2, sv, home)
    BY <2>1, ReadyStays
  <2>3. CASE left = {} /\ th2.code = c
    <3>1. NoHosts(t, s)
      BY <1>2, <2>3 DEF NoHosts
    <3>2. InDeleteSubsys(s, r, th2, t2, d2)
      BY <1>1, <2>1, <2>2, <2>3, <3>1 DEF InDeleteSubsys, Ready, SubsysDir, c
    <3> QED BY <2>2, <3>2, ReadyWorks
  <2>4. ASSUME NEW n, n \in left, th2.code = Joined(Entry(x, n), Loop(left \ {n}, x, c))
        PROVE  Working(op, b, r, th2, t2, d2, sv, home)
    <3>1. th2.code = Do(<<"remove", <<"allowed_hosts", n>>>>, Loop(left \ {n}, x, c))
      BY <2>1, <2>4, EntryCode DEF x
    <3>2. InHosts(s, r, th2, t2, d2)
      BY <1>1, <1>2, <2>1, <3>1 DEF InHosts, SubsysDir, x, c
    <3>3. InDeleteSubsys(s, r, th2, t2, d2)
      BY <2>2, <3>2 DEF InDeleteSubsys, Ready
    <3> QED BY <2>2, <3>3, ReadyWorks
  <2> QED BY <2>1, <2>3, <2>4
<1>3. ASSUME NEW left, \A a \in t.allowed : a[1] = s => a[2] \in left, NEW h,
             th.code = Do(<<"remove", <<"allowed_hosts", h>>>>, Loop(left \ {h}, x, c))
      PROVE  Working(op, b, r, th2, t2, d2, sv, home)
  <2>1. IsCode(Loop(left \ {h}, x, c))
    BY <1>1, DoCode DEF Loop
  <2>2. In(d, <<"allowed_hosts", h>>) = AllowedLink(s, h)
    BY <1>1, JoinedPaths
  <2>3. /\ d2 = d /\ t2 = Unlinked(t, In(d, <<"allowed_hosts", h>>))
        /\ th2.code = Loop(left \ {h}, x, c) /\ Kept(th, th2)
    BY <1>3, <2>1, ByRemove
  <2>4. t2 = LessAllowed(t, s, h)
    BY <2>2, <2>3, LinkPaths
  <2>5. But(t, t2, {"allowed"}) /\ t2.allowed = t.allowed \ {<<s, h>>}
    BY <2>4, LessAllowedIs DEF Ready
  <2>6. \A a \in t2.allowed : a[1] = s => a[2] \in left \ {h}
    BY <1>3, <2>5 DEF Ready, Proper
  <2>7. IsTree(t2) /\ Proper(t2) /\ t2.subsys = t.subsys
    <3>1. IsTree(t2) /\ t2.subsys = t.subsys /\ t2.links = t.links /\ t2.ports = t.ports
      BY <2>5 DEF But
    <3>2. PortIds(t2) = PortIds(t)
      BY <3>1 DEF PortIds
    <3> QED BY <2>5, <3>1, <3>2 DEF Ready, Proper
  <2>8. Alone(t2, op) = Alone(b, op)
    BY <2>4, DeleteSubsysLess DEF Alone, Ready
  <2>9. Ready(op, b, th2, t2, sv, home)
    BY <2>3, <2>7, <2>8 DEF Ready, Kept
  <2>10. InHosts(s, r, th2, t2, d2)
    BY <1>1, <2>3, <2>6 DEF InHosts, SubsysDir, x, c
  <2>11. InDeleteSubsys(s, r, th2, t2, d2)
    BY <2>9, <2>10 DEF InDeleteSubsys, Ready
  <2> QED BY <2>9, <2>11, ReadyWorks
<1>4. \E left :
         /\ \A a \in t.allowed : a[1] = s => a[2] \in left
         /\ \/ th.code = Loop(left, x, c)
            \/ \E h : th.code = Do(<<"remove", <<"allowed_hosts", h>>>>, Loop(left \ {h}, x, c))
  BY DEF InHosts, x, c
<1> QED BY <1>2, <1>3, <1>4

LEMMA SubsysAfterHosts ==
    ASSUME NEW op, op[1] = "delete_subsys", NEW b, IsTree(b), NEW r, IsCode(r),
           NEW th, NEW t, NEW d, NEW th2, NEW t2, NEW d2, Runs(th, t, d, th2, t2, d2),
           NEW sv, NEW home, Ready(op, b, th, t, sv, home),
           th.code = AfterHosts(op[2], r), d = SubsysDir(op[2]), NoHosts(t, op[2])
    PROVE  Working(op, b, r, th2, t2, d2, sv, home)
<1> DEFINE s == op[2]
           x == <<"opendir_ns">>
           c == AfterNs(s, r)
<1>1. th.code = Do(x, c) /\ IsCode(c) /\ x[1] \in OpenCalls /\ x[1] # "opendir_links"
  BY SubsysCode DEF AfterHosts, OpenCalls
<1>2. NamesIn(x, t, d) = NsOf(t, s)
  <2>1. NamesIn(x, t, SubsysDir(s)) = NsOf(t, s)
    BY SubsysNames
  <2> QED BY <2>1
<1> HIDE DEF x, c
<1>3. t2 = t /\ d2 = d /\ Kept(th, th2) /\ th2.code = Loop(NamesIn(x, t, d), x, c)
  BY <1>1, ByOpen
<1>4. Ready(op, b, th2, t2, sv, home)
  BY <1>3, ReadyStays
<1> DEFINE left == NamesIn(x, t, d)
<1>5. /\ \A n \in t.ns : n[1] = s => n[2] \in left
      /\ \A y \in left : \E n \in t.ns : n[1] = s /\ n[2] = y
  BY <1>2 DEF NsOf
<1>6. th2.code = Loop(left, x, c)
  BY <1>3
<1> HIDE DEF left
<1>7. InNs(s, r, th2, t2, d2)
  BY <1>3, <1>5, <1>6 DEF InNs, SubsysDir, x, c
<1>8. InDeleteSubsys(s, r, th2, t2, d2)
  BY <1>4, <1>7 DEF InDeleteSubsys, Ready
<1> QED BY <1>4, <1>8, ReadyWorks

LEMMA SubsysNs ==
    ASSUME NEW op, op[1] = "delete_subsys", NEW b, IsTree(b), NEW r, IsCode(r),
           NEW th, NEW t, NEW d, NEW th2, NEW t2, NEW d2, Runs(th, t, d, th2, t2, d2),
           NEW sv, NEW home, Ready(op, b, th, t, sv, home),
           InNs(op[2], r, th, t, d)
    PROVE  Working(op, b, r, th2, t2, d2, sv, home)
<1> DEFINE s == op[2]
           x == <<"opendir_ns">>
           c == AfterNs(s, r)
           InDir(n) == <<"namespaces", n>>
           rest(left, n) == Loop(left \ {n}, x, c)
           rm(left, n) == Do(<<"rmdir", InDir(n)>>, rest(left, n))
           up(left, n) == Do(<<"chdir_up", 2>>, rm(left, n))
           All(left) == /\ \A n \in t.ns : n[1] = s => n[2] \in left
                        /\ \A y \in left : \E n \in t.ns : n[1] = s /\ n[2] = y
<1>1. IsCode(c) /\ NoHosts(t, s)
  BY SubsysCode DEF InNs
<1>2. \E left :
         /\ All(left)
         /\ \/ th.code = Loop(left, x, c) /\ d = SubsysDir(s)
            \/ \E n \in left :
                  \/ th.code = Do(<<"chdir", InDir(n)>>, up(left, n)) /\ d = SubsysDir(s)
                  \/ th.code = up(left, n) /\ d = NsDir(s, n)
                  \/ th.code = rm(left, n) /\ d = SubsysDir(s)
  BY DEF InNs, SubsysDir, NsDir
<1>3. ASSUME NEW left, NEW n
      PROVE  IsCode(rest(left, n)) /\ IsCode(rm(left, n)) /\ IsCode(up(left, n))
  <2>1. IsCode(rest(left, n))
    BY <1>1, DoCode DEF Loop
  <2>2. IsCode(rm(left, n))
    BY <2>1, DoCode
  <2> QED BY <2>1, <2>2, DoCode
\* Where the thread can be next, if it stays in the loop.
<1>4. ASSUME Ready(op, b, th2, t2, sv, home), NoHosts(t2, s),
             NEW left, \A n \in t2.ns : n[1] = s => n[2] \in left,
             \A y \in left : \E n \in t2.ns : n[1] = s /\ n[2] = y,
             \/ th2.code = Loop(left, x, c) /\ d2 = SubsysDir(s)
             \/ \E n \in left :
                   \/ th2.code = Do(<<"chdir", InDir(n)>>, up(left, n)) /\ d2 = SubsysDir(s)
                   \/ th2.code = up(left, n) /\ d2 = NsDir(s, n)
                   \/ th2.code = rm(left, n) /\ d2 = SubsysDir(s)
      PROVE  Working(op, b, r, th2, t2, d2, sv, home)
  <2>1. InNs(s, r, th2, t2, d2)
    BY <1>4 DEF InNs, SubsysDir, NsDir
  <2>2. InDeleteSubsys(s, r, th2, t2, d2)
    BY <1>4, <2>1 DEF InDeleteSubsys, Ready
  <2> QED BY <1>4, <2>2, ReadyWorks
<1> HIDE DEF x, c
<1>5. ASSUME NEW left, All(left), th.code = Loop(left, x, c), d = SubsysDir(s)
      PROVE  Working(op, b, r, th2, t2, d2, sv, home)
  <2>1. /\ t2 = t /\ d2 = d /\ Kept(th, th2)
        /\ \/ left = {} /\ th2.code = c
           \/ \E n \in left : th2.code = Joined(Entry(x, n), rest(left, n))
    BY <1>1, <1>5, ByLoop
  <2>2. Ready(op, b, th2, t2, sv, home)
    BY <2>1, ReadyStays
  <2>3. CASE left = {} /\ th2.code = c
    <3>1. NoNs(t, s)
      BY <1>5, <2>3 DEF NoNs
    <3>2. InDeleteSubsys(s, r, th2, t2, d2)
      BY <1>1, <1>5, <2>1, <2>2, <2>3, <3>1 DEF InDeleteSubsys, Ready, SubsysDir, c
    <3> QED BY <2>2, <3>2, ReadyWorks
  <2>4. ASSUME NEW n, n \in left, th2.code = Joined(Entry(x, n), rest(left, n))
        PROVE  Working(op, b, r, th2, t2, d2, sv, home)
    <3>1. IsCode(rest(left, n))
      BY <1>3
    <3> HIDE DEF rest
    <3>2. th2.code = Do(<<"chdir", InDir(n)>>, up(left, n))
      BY <2>4, <3>1, EntryCode DEF x
    <3> HIDE DEF up, InDir
    <3> QED BY <1>1, <1>4, <1>5, <2>1, <2>2, <2>4, <3>2
  <2> QED BY <2>1, <2>3, <2>4
<1>6. ASSUME NEW left, All(left), NEW n, n \in left,
             th.code = Do(<<"chdir", InDir(n)>>, up(left, n)), d = SubsysDir(s)
      PROVE  Working(op, b, r, th2, t2, d2, sv, home)
  <2>1. IsCode(up(left, n))
    BY <1>3
  <2> HIDE DEF up
  <2>2. /\ d2 = IF In(d, InDir(n)) \in Dirs(t) THEN In(d, InDir(n)) ELSE d
        /\ t2 = t /\ th2.code = up(left, n) /\ Kept(th, th2)
    BY <1>6, <2>1, ByChDir
  <2>3. In(d, InDir(n)) = NsDir(s, n)
    BY <1>6, JoinedPaths
  <2>4. NsDir(s, n) \in Dirs(t)
    BY <1>6, DirsOf
  <2>5. d2 = NsDir(s, n)
    BY <2>2, <2>3, <2>4
  <2>6. Ready(op, b, th2, t2, sv, home)
    BY <2>2, ReadyStays
  <2> HIDE DEF rm, rest
  <2> QED BY <1>1, <1>4, <1>6, <2>2, <2>5, <2>6
<1>7. ASSUME NEW left, All(left), NEW n, n \in left,
             th.code = up(left, n), d = NsDir(s, n)
      PROVE  Working(op, b, r, th2, t2, d2, sv, home)
  <2>1. IsCode(rm(left, n))
    BY <1>3
  <2> HIDE DEF rm
  <2> DEFINE to == IF Len(d) >= 2 THEN SubSeq(d, 1, Len(d) - 2) ELSE Home
  <2>2. to = SubsysDir(s)
    <3>1. Len(d) = 4
      BY <1>7, UpPaths
    <3>2. to = SubSeq(NsDir(s, n), 1, 2)
      BY <1>7, <3>1
    <3> QED BY <3>2, UpPaths
  <2>3. /\ t2 = t /\ th2.code = rm(left, n) /\ Kept(th, th2)
        /\ d2 = IF to \in Dirs(t) THEN to ELSE d
    BY <1>7, <2>1, ByChDirUp
  <2> HIDE DEF to
  <2>4. SubsysDir(s) \in Dirs(t)
    BY DirsOf DEF Ready
  <2>5. d2 = SubsysDir(s)
    BY <2>2, <2>3, <2>4
  <2>6. Ready(op, b, th2, t2, sv, home)
    BY <2>3, ReadyStays
  <2> QED BY <1>1, <1>4, <1>7, <2>3, <2>5, <2>6
<1>8. ASSUME NEW left, All(left), NEW n, n \in left,
             th.code = rm(left, n), d = SubsysDir(s)
      PROVE  Working(op, b, r, th2, t2, d2, sv, home)
  <2>1. IsCode(rest(left, n))
    BY <1>3
  <2> HIDE DEF rest
  <2>2. In(d, InDir(n)) = NsDir(s, n)
    BY <1>8, JoinedPaths
  <2>3. d2 = d /\ t2 = Removed(t, In(d, InDir(n))) /\ th2.code = rest(left, n) /\ Kept(th, th2)
    BY <1>8, <2>1, ByRmDir
  <2>4. t2 = LessNs(t, s, n)
    BY <1>8, <2>2, <2>3, RemovedNs
  <2>5. But(t, t2, {"ns"}) /\ t2.ns = {m \in t.ns : m[1] # s \/ m[2] # n}
    BY <2>4, LessNsIs DEF Ready
  <2>6. /\ \A m \in t2.ns : m[1] = s => m[2] \in left \ {n}
        /\ \A y \in left \ {n} : \E m \in t2.ns : m[1] = s /\ m[2] = y
    BY <1>8, <2>5
  <2>7. IsTree(t2) /\ Proper(t2) /\ t2.subsys = t.subsys /\ NoHosts(t2, s)
    <3>1. /\ IsTree(t2) /\ t2.subsys = t.subsys /\ t2.links = t.links /\ t2.ports = t.ports
          /\ t2.allowed = t.allowed
      BY <2>5 DEF But
    <3>2. PortIds(t2) = PortIds(t)
      BY <3>1 DEF PortIds
    <3> QED BY <1>1, <3>1, <3>2 DEF Ready, Proper, NoHosts
  <2>8. Alone(t2, op) = Alone(b, op)
    BY <2>4, DeleteSubsysLess DEF Alone, Ready
  <2>9. Ready(op, b, th2, t2, sv, home)
    BY <2>3, <2>7, <2>8 DEF Ready, Kept
  <2>10. th2.code = Loop(left \ {n}, x, c) /\ d2 = SubsysDir(s)
    BY <1>8, <2>3 DEF rest
  <2> QED BY <1>4, <2>6, <2>7, <2>9, <2>10
<1> HIDE DEF All, rm, up, InDir
<1> QED BY <1>2, <1>5, <1>6, <1>7, <1>8

LEMMA SubsysAfterNs ==
    ASSUME NEW op, op[1] = "delete_subsys", NEW b, IsTree(b), NEW r, IsCode(r),
           NEW th, NEW t, NEW d, NEW th2, NEW t2, NEW d2, Runs(th, t, d, th2, t2, d2),
           NEW sv, NEW home, Ready(op, b, th, t, sv, home),
           th.code = AfterNs(op[2], r), NoHosts(t, op[2]), NoNs(t, op[2])
    PROVE  Working(op, b, r, th2, t2, d2, sv, home)
<1> DEFINE s == op[2]
           c == Do(<<"opendir_ports", s>>, AfterPorts(s, r))
<1>1. th.code = Do(<<"chdir_abs", <<>>>>, c) /\ IsCode(c)
  BY SubsysCode DEF AfterNs
<1> HIDE DEF c
<1>2. d2 = (IF <<>> \in Dirs(t) THEN <<>> ELSE d) /\ t2 = t /\ th2.code = c /\ Kept(th, th2)
  BY <1>1, ByChDirAbs
<1>3. d2 = <<>>
  BY <1>2, TopDirs
<1>4. Ready(op, b, th2, t2, sv, home)
  BY <1>2, ReadyStays
<1>5. InDeleteSubsys(s, r, th2, t2, d2)
  BY <1>2, <1>3, <1>4 DEF InDeleteSubsys, Ready, c
<1> QED BY <1>4, <1>5, ReadyWorks

LEMMA SubsysOpenPorts ==
    ASSUME NEW op, op[1] = "delete_subsys", NEW b, IsTree(b), NEW r, IsCode(r),
           NEW th, NEW t, NEW d, NEW th2, NEW t2, NEW d2, Runs(th, t, d, th2, t2, d2),
           NEW sv, NEW home, Ready(op, b, th, t, sv, home),
           th.code = Do(<<"opendir_ports", op[2]>>, AfterPorts(op[2], r)), d = <<>>,
           NoHosts(t, op[2]), NoNs(t, op[2])
    PROVE  Working(op, b, r, th2, t2, d2, sv, home)
<1> DEFINE s == op[2]
           x == <<"opendir_ports", s>>
           c == AfterPorts(s, r)
<1>1. th.code = Do(x, c) /\ IsCode(c) /\ x[1] \in OpenCalls /\ x[1] # "opendir_links"
  BY SubsysCode DEF OpenCalls
<1>2. NamesIn(x, t, d) = PortIds(t)
  BY SubsysNames
<1> HIDE DEF x, c
<1>3. t2 = t /\ d2 = d /\ Kept(th, th2) /\ th2.code = Loop(NamesIn(x, t, d), x, c)
  BY <1>1, ByOpen
<1>4. Ready(op, b, th2, t2, sv, home)
  BY <1>3, ReadyStays
<1> DEFINE left == NamesIn(x, t, d)
<1>5. \A l \in t.links : l[2] = s => l[1] \in left
  BY <1>2 DEF Ready, Proper
<1>6. th2.code = Loop(left, x, c)
  BY <1>3
<1> HIDE DEF left
<1>7. InPorts(s, r, th2, t2, d2)
  BY <1>3, <1>5, <1>6 DEF InPorts, x, c
<1>8. InDeleteSubsys(s, r, th2, t2, d2)
  BY <1>4, <1>7 DEF InDeleteSubsys, Ready
<1> QED BY <1>4, <1>8, ReadyWorks

LEMMA SubsysPorts ==
    ASSUME NEW op, op[1] = "delete_subsys", NEW b, IsTree(b), NEW r, IsCode(r),
           NEW th, NEW t, NEW d, NEW th2, NEW t2, NEW d2, Runs(th, t, d, th2, t2, d2),
           NEW sv, NEW home, Ready(op, b, th, t, sv, home),
           InPorts(op[2], r, th, t, d)
    PROVE  Working(op, b, r, th2, t2, d2, sv, home)
<1> DEFINE s == op[2]
           x == <<"opendir_ports", s>>
           c == AfterPorts(s, r)
<1>1. IsCode(c) /\ d = <<>> /\ NoHosts(t, s) /\ NoNs(t, s)
  BY SubsysCode DEF InPorts
<1> HIDE DEF x, c
<1>2. ASSUME NEW left, \A l \in t.links : l[2] = s => l[1] \in left, th.code = Loop(left, x, c)
      PROVE  Working(op, b, r, th2, t2, d2, sv, home)
  <2>1. /\ t2 = t /\ d2 = d /\ Kept(th, th2)
        /\ \/ left = {} /\ th2.code = c
           \/ \E n \in left : th2.code = Joined(Entry(x, n), Loop(left \ {n}, x, c))
        /\ \A y, z : IsCode(Loop(y, z, c))
    BY <1>1, <1>2, ByLoop
  <2>2. Ready(op, b, th2, t2, sv, home)
    BY <2>1, ReadyStays
  <2>3. CASE left = {} /\ th2.code = c
    <3>1. NoPorts(t, s)
      BY <1>2, <2>3 DEF NoPorts
    <3>2. InDeleteSubsys(s, r, th2, t2, d2)
      BY <1>1, <2>1, <2>2, <2>3, <3>1 DEF InDeleteSubsys, Ready, c
    <3> QED BY <2>2, <3>2, ReadyWorks
  <2>4. ASSUME NEW n, n \in left, th2.code = Joined(Entry(x, n), Loop(left \ {n}, x, c))
        PROVE  Working(op, b, r, th2, t2, d2, sv, home)
    <3> DEFINE e == Loop(left \ {n}, x, c)
    <3>0. IsCode(e) /\ th2.code = Joined(Entry(x, n), e)
      BY <2>1, <2>4
    <3> HIDE DEF e
    <3>a. Joined(Entry(<<"opendir_ports", s>>, n), e) = Do(<<"remove", PortLink(n, s)>>, e)
      BY <3>0, EntryPorts
    <3>1. th2.code = Do(<<"remove", PortLink(n, s)>>, Loop(left \ {n}, x, c))
      BY <3>0, <3>a DEF x, e
    <3>2. InPorts(s, r, th2, t2, d2)
      BY <1>1, <1>2, <2>1, <3>1 DEF InPorts, PortLink, x, c
    <3>3. InDeleteSubsys(s, r, th2, t2, d2)
      BY <2>2, <3>2 DEF InDeleteSubsys, Ready
    <3> QED BY <2>2, <3>3, ReadyWorks
  <2> QED BY <2>1, <2>3, <2>4
<1>3. ASSUME NEW left, \A l \in t.links : l[2] = s => l[1] \in left, NEW p,
             th.code = Do(<<"remove", PortLink(p, s)>>, Loop(left \ {p}, x, c))
      PROVE  Working(op, b, r, th2, t2, d2, sv, home)
  <2>1. IsCode(Loop(left \ {p}, x, c))
    BY <1>1, DoCode DEF Loop
  <2>2. In(d, PortLink(p, s)) = PortLink(p, s)
    BY <1>1, JoinedPaths
  <2>3. /\ d2 = d /\ t2 = Unlinked(t, In(d, PortLink(p, s)))
        /\ th2.code = Loop(left \ {p}, x, c) /\ Kept(th, th2)
    BY <1>3, <2>1, ByRemove
  <2>4. t2 = LessLink(t, p, s)
    BY <2>2, <2>3, LinkPaths
  <2>5. But(t, t2, {"links"}) /\ t2.links = t.links \ {<<p, s>>}
    BY <2>4, LessLinkIs DEF Ready
  <2>6. \A l \in t2.links : l[2] = s => l[1] \in left \ {p}
    BY <1>3, <2>5 DEF Ready, Proper
  <2>7. IsTree(t2) /\ Proper(t2) /\ t2.subsys = t.subsys /\ NoHosts(t2, s) /\ NoNs(t2, s)
    <3>1. /\ IsTree(t2) /\ t2.subsys = t.subsys /\ t2.allowed = t.allowed /\ t2.ports = t.ports
          /\ t2.ns = t.ns
      BY <2>5 DEF But
    <3>2. PortIds(t2) = PortIds(t)
      BY <3>1 DEF PortIds
    <3> QED BY <1>1, <2>5, <3>1, <3>2 DEF Ready, Proper, NoHosts, NoNs
  <2>8. Alone(t2, op) = Alone(b, op)
    BY <2>4, DeleteSubsysLess DEF Alone, Ready
  <2>9. Ready(op, b, th2, t2, sv, home)
    BY <2>3, <2>7, <2>8 DEF Ready, Kept
  <2>10. InPorts(s, r, th2, t2, d2)
    BY <1>1, <2>3, <2>6, <2>7 DEF InPorts, x, c
  <2>11. InDeleteSubsys(s, r, th2, t2, d2)
    BY <2>9, <2>10 DEF InDeleteSubsys, Ready
  <2> QED BY <2>9, <2>11, ReadyWorks
<1>4. \E left :
         /\ \A l \in t.links : l[2] = s => l[1] \in left
         /\ \/ th.code = Loop(left, x, c)
            \/ \E p : th.code = Do(<<"remove", PortLink(p, s)>>, Loop(left \ {p}, x, c))
  BY DEF InPorts, PortLink, x, c
<1> QED BY <1>2, <1>3, <1>4

LEMMA SubsysAfterPorts ==
    ASSUME NEW op, op[1] = "delete_subsys", NEW b, IsTree(b), NEW r, IsCode(r),
           NEW th, NEW t, NEW d, NEW th2, NEW t2, NEW d2, Runs(th, t, d, th2, t2, d2),
           NEW sv, NEW home, Ready(op, b, th, t, sv, home),
           th.code = AfterPorts(op[2], r), NoHosts(t, op[2]), NoNs(t, op[2]), NoPorts(t, op[2])
    PROVE  Working(op, b, r, th2, t2, d2, sv, home)
<1> DEFINE s == op[2]
           c == Removes(s, r)
<1>1. th.code = Do(<<"chdir_abs", <<"subsystems">>>>, c) /\ IsCode(c)
  BY SubsysCode DEF AfterPorts
<1> HIDE DEF c
<1>2. /\ d2 = IF <<"subsystems">> \in Dirs(t) THEN <<"subsystems">> ELSE d
      /\ t2 = t /\ th2.code = c /\ Kept(th, th2)
  BY <1>1, ByChDirAbs
<1>3. d2 = <<"subsystems">>
  BY <1>2, TopDirs
<1>4. Ready(op, b, th2, t2, sv, home)
  BY <1>2, ReadyStays
<1>5. InDeleteSubsys(s, r, th2, t2, d2)
  BY <1>2, <1>3, <1>4 DEF InDeleteSubsys, Ready, c
<1> QED BY <1>4, <1>5, ReadyWorks

LEMMA SubsysRemoves ==
    ASSUME NEW op, op[1] = "delete_subsys", NEW b, IsTree(b), NEW r, IsCode(r),
           NEW th, NEW t, NEW d, NEW th2, NEW t2, NEW d2, Runs(th, t, d, th2, t2, d2),
           NEW sv, NEW home, Ready(op, b, th, t, sv, home),
           th.code = Removes(op[2], r), d = <<"subsystems">>, NoHosts(t, op[2]), NoNs(t, op[2]),
           NoPorts(t, op[2])
    PROVE  Leaves(op, b, r, th2, t2, sv, home)
<1> DEFINE s == op[2]
<1>1. th.code = Do(<<"rmdir", <<s>>>>, Do(Back, r)) /\ IsCode(Do(Back, r))
  BY SubsysCode DEF Removes
<1>2. In(d, <<s>>) = SubsysDir(s)
  BY JoinedPaths
<1>3. t2 = Removed(t, SubsysDir(s)) /\ th2.code = Do(Back, r) /\ Kept(th, th2)
  BY <1>1, <1>2, ByRmDir
<1>4. t2 = LessSubsys(t, s)
  BY <1>3, RemovedSubsys DEF Ready
<1>5. Alone(t, op) = Ok(t2)
  BY <1>4, DeleteSubsysLast DEF Alone, Ready
<1> QED BY <1>3, <1>5 DEF Leaves, Kept, Ready, Ok

LEMMA DeleteSubsysWorking ==
    ASSUME NEW op, op[1] = "delete_subsys", NEW b, IsTree(b), NEW r, IsCode(r),
           NEW th, NEW t, NEW d, NEW th2, NEW t2, NEW d2, Runs(th, t, d, th2, t2, d2),
           NEW sv, NEW home, Working(op, b, r, th, t, d, sv, home)
    PROVE  Working(op, b, r, th2, t2, d2, sv, home) \/ Leaves(op, b, r, th2, t2, sv, home)
<1>1. InDeleteSubsys(op[2], r, th, t, d)
  BY DEF Working, Inside
<1>2. Ready(op, b, th, t, sv, home)
  BY <1>1 DEF Working, Ready, InDeleteSubsys
<1> DEFINE s == op[2]
<1>3. \/ InHosts(s, r, th, t, d)
      \/ th.code = AfterHosts(s, r) /\ d = SubsysDir(s) /\ NoHosts(t, s)
      \/ InNs(s, r, th, t, d)
      \/ th.code = AfterNs(s, r) /\ NoHosts(t, s) /\ NoNs(t, s)
      \/ /\ th.code = Do(<<"opendir_ports", s>>, AfterPorts(s, r))
         /\ d = <<>> /\ NoHosts(t, s) /\ NoNs(t, s)
      \/ InPorts(s, r, th, t, d)
      \/ th.code = AfterPorts(s, r) /\ NoHosts(t, s) /\ NoNs(t, s) /\ NoPorts(t, s)
      \/ /\ th.code = Removes(s, r) /\ d = <<"subsystems">>
         /\ NoHosts(t, s) /\ NoNs(t, s) /\ NoPorts(t, s)
  BY <1>1 DEF InDeleteSubsys, SubsysDir
<1> QED BY <1>2, <1>3, SubsysHosts, SubsysAfterHosts, SubsysNs, SubsysAfterNs, SubsysOpenPorts,
           SubsysPorts, SubsysAfterPorts, SubsysRemoves

-----------------------------------------------------------------------------
(* Every operation but reset_config, step by step.                          *)

IsOp(op) == /\ op[1] \in OpNames \ {"reset_config"}
            /\ op[1] = "create_portid" => op[2] \in Ports
            /\ op[1] = "create_subsys" => op[3] \in BOOLEAN

\* Without its directory an operation has nothing to do.
LEMMA NotEntered ==
    ASSUME NEW op, IsOp(op), NEW b, IsTree(b), Sound(b), DirOf(op) \notin Dirs(b)
    PROVE  Alone(b, op) = Ok(b)
<1>1. CASE op[1] = "delete_subsys"
  <2> DEFINE s == op[2]
             u == delete_subsys(b, s).tree
  <2>1. s \notin b.subsys
    <3>1. DirOf(op) = SubsysDir(s)
      BY <1>1 DEF DirOf, SubsysDir
    <3> QED BY <3>1, DirsOf
  <2>2. /\ delete_subsys(b, s) = Ok(u)
        /\ But(b, u, {"subsys", "any", "ns", "allowed", "links"})
        /\ u.subsys = b.subsys \ {s} /\ u.any = b.any \ {s}
        /\ u.ns = {n \in b.ns : n[1] # s}
        /\ u.allowed = {a \in b.allowed : a[1] # s}
        /\ u.links = {l \in b.links : l[2] # s}
    BY DeleteSubsysIs
  <2> HIDE DEF u
  <2>3. u.subsys = b.subsys /\ u.any = b.any
    BY <2>1, <2>2 DEF Sound
  <2>4. u.ns = b.ns /\ u.allowed = b.allowed /\ u.links = b.links
    BY <2>1, <2>2 DEF Sound
  <2>5. IsTree(u) /\ u.ports = b.ports /\ u.hosts = b.hosts
    BY <2>2 DEF But
  <2>6. u = b
    BY <2>3, <2>4, <2>5, SameTree
  <2>7. Alone(b, op) = delete_subsys(b, s)
    BY <1>1 DEF Alone
  <2> QED BY <2>2, <2>6, <2>7
<1>2. CASE op[1] # "delete_subsys"
  <2>1. DirOf(op) \in {<<"subsystems">>, <<"ports">>, <<"hosts">>}
    BY <1>2 DEF IsOp, OpNames, DirOf
  <2> QED BY <2>1, TopDirs
<1> QED BY <1>1, <1>2

LEMMA EnteredSteps ==
    ASSUME NEW op, IsOp(op), NEW b, IsTree(b), Sound(b), Proper(b), NEW r, IsCode(r),
           NEW th, NEW t, NEW d, NEW th2, NEW t2, NEW d2, Runs(th, t, d, th2, t2, d2),
           NEW sv, NEW home, Entered(op, b, r, th, t, d, sv, home)
    PROVE  Working(op, b, r, th2, t2, d2, sv, home) \/ Leaves(op, b, r, th2, t2, sv, home)
<1>1. CASE op[1] = "create_subsys"
  BY <1>1, CreateSubsysEntered
<1>2. CASE op[1] = "delete_subsys"
  BY <1>2, SubsysEntered
<1>3. CASE op[1] = "create_ns"
  BY <1>3, CreateNsEntered
<1>4. CASE op[1] = "delete_ns"
  BY <1>4, DeleteNsEntered
<1>5. CASE op[1] = "create_host"
  BY <1>5, CreateHostSteps
<1>6. CASE op[1] = "delete_host"
  BY <1>6, DeleteHostSteps
<1>7. CASE op[1] = "create_portid"
  BY <1>7, CreatePortidEntered DEF IsOp
<1>8. CASE op[1] = "delete_portid"
  BY <1>8, DeletePortidEntered
<1>9. CASE op[1] = "link_host"
  BY <1>9, LinkHostSteps
<1>10. CASE op[1] = "unlink_host"
  BY <1>10, UnlinkHostSteps
<1>11. CASE op[1] = "link_port"
  BY <1>11, LinkPortSteps
<1>12. CASE op[1] = "unlink_port"
  BY <1>12, UnlinkPortSteps
<1> QED BY <1>1, <1>2, <1>3, <1>4, <1>5, <1>6, <1>7, <1>8, <1>9, <1>10, <1>11, <1>12 DEF IsOp,
           OpNames

LEMMA WorkingSteps ==
    ASSUME NEW op, IsOp(op), NEW b, IsTree(b), NEW r, IsCode(r),
           NEW th, NEW t, NEW d, NEW th2, NEW t2, NEW d2, Runs(th, t, d, th2, t2, d2),
           NEW sv, NEW home, Working(op, b, r, th, t, d, sv, home)
    PROVE  Working(op, b, r, th2, t2, d2, sv, home) \/ Leaves(op, b, r, th2, t2, sv, home)
<1>1. CASE op[1] = "create_subsys"
  BY <1>1, CreateSubsysWorking DEF IsOp
<1>2. CASE op[1] = "create_ns"
  BY <1>2, CreateNsWorking
<1>3. CASE op[1] = "delete_ns"
  BY <1>3, DeleteNsWorking
<1>4. CASE op[1] = "create_portid"
  BY <1>4, CreatePortidWorking
<1>5. CASE op[1] = "delete_portid"
  BY <1>5, DeletePortidWorking
<1>6. CASE op[1] = "delete_subsys"
  BY <1>6, DeleteSubsysWorking
<1>7. Inside(op, r, th, t, d)
  BY DEF Working
<1> QED BY <1>1, <1>2, <1>3, <1>4, <1>5, <1>6, <1>7 DEF Inside

LEMMA OpSteps ==
    ASSUME NEW op, IsOp(op), NEW b, IsTree(b), Sound(b), Proper(b), NEW r, IsCode(r),
           NEW th, NEW t, NEW d, NEW th2, NEW t2, NEW d2, Runs(th, t, d, th2, t2, d2),
           NEW sv, IsCode(sv), NEW home, home \in {Home, <<>>},
           At(op, b, r, th, t, d, sv, home)
    PROVE  At(op, b, r, th2, t2, d2, sv, home) \/ Over(op, b, r, th2, t2, d2, sv, home)
<1>1. CASE Begins(op, b, r, th, t, d, sv, home)
  <2>1. op[1] \in OpNames /\ op[1] # "reset_config"
    BY DEF IsOp
  <2>2. DirOf(op) \notin Dirs(b) => Alone(b, op) = Ok(b)
    BY NotEntered
  <2>3. \/ Begins(op, b, r, th2, t2, d2, sv, home)
        \/ Entered(op, b, r, th2, t2, d2, sv, home)
        \/ Over(op, b, r, th2, t2, d2, sv, home)
    BY <1>1, <2>1, <2>2, BeginSteps
  <2> QED BY <2>3 DEF At
<1>2. CASE Entered(op, b, r, th, t, d, sv, home)
  BY <1>2, EnteredSteps DEF At
<1>3. CASE Working(op, b, r, th, t, d, sv, home)
  BY <1>3, WorkingSteps DEF At
<1>4. CASE Leaves(op, b, r, th, t, sv, home)
  BY <1>4, LeaveSteps
<1> QED BY <1>1, <1>2, <1>3, <1>4 DEF At

LEMMA SoundProper == ASSUME NEW t, Sound(t) PROVE Proper(t)
BY DEF Sound, Proper

LEMMA AloneSound ==
    ASSUME NEW t, IsTree(t), Sound(t), NEW op, op[1] \in OpNames
    PROVE  Good(Alone(t, op))
BY OperationsKeepSound DEF Alone, OpNames

-----------------------------------------------------------------------------
(* reset_config.                                                            *)

HomeStack == <<Home>>

LEMMA RestCode ==
    ASSUME NEW kind \in Kinds
    PROVE  IsCode(RestOf(kind)) /\ IsCode(HomeStack)
<1>1. IsCode(Do(Back, <<>>))
  BY NoCode, DoCode
<1>2. IsCode(AfterAllPorts)
  BY <1>1, DoCode DEF AfterAllPorts
<1>3. IsCode(AfterSubsystems)
  BY <1>2, DoCode DEF AfterSubsystems
<1> QED BY <1>1, <1>2, <1>3, NoCode DEF RestOf, Kinds, HomeStack

LEMMA OpForIs ==
    ASSUME NEW kind \in Kinds, NEW n
    PROVE  /\ IsOp(OpFor(kind, n)) /\ OpFor(kind, n)[1] \in OpNames
           /\ Entry(<<kind>>, n) = CodeOf(OpFor(kind, n))
<1>1. CASE kind = "opendir_subsystems"
  BY <1>1 DEF OpFor, IsOp, OpNames, Entry, CodeOf
<1>2. CASE kind = "opendir_all_ports"
  BY <1>2 DEF OpFor, IsOp, OpNames, Entry, CodeOf
<1>3. CASE kind = "opendir_all_hosts"
  BY <1>3 DEF OpFor, IsOp, OpNames, Entry, CodeOf
<1> QED BY <1>1, <1>2, <1>3 DEF Kinds

\* What the operation for an entry leaves of the loop.
LEMMA AfterEntry ==
    ASSUME NEW kind \in Kinds, NEW b, Phase(kind, b), NEW left, LeftOf(kind, b) \subseteq left,
           NEW n, NEW t, NEW ok, Alone(b, OpFor(kind, n)) = [tree |-> t, ok |-> ok]
    PROVE  ok = TRUE /\ Phase(kind, t) /\ LeftOf(kind, t) \subseteq left \ {n}
<1>1. IsTree(b) /\ Sound(b)
  BY DEF Phase
<1>2. IsTree(t) /\ Sound(t)
  <2>1. Good(Alone(b, OpFor(kind, n)))
    BY <1>1, OpForIs, AloneSound
  <2>2. Alone(b, OpFor(kind, n)).tree = t
    OBVIOUS
  <2> QED BY <2>1, <2>2 DEF Good
<1>3. Proper(t)
  BY <1>2, SoundProper
<1>4. CASE kind = "opendir_subsystems"
  <2> DEFINE u == delete_subsys(b, n).tree
  <2>1. Alone(b, OpFor(kind, n)) = delete_subsys(b, n)
    BY <1>4 DEF Alone, OpFor
  <2>2. delete_subsys(b, n) = Ok(u) /\ u.subsys = b.subsys \ {n}
    BY <1>1, DeleteSubsysIs
  <2> HIDE DEF u
  <2>3. t = u /\ ok = TRUE
    BY <2>1, <2>2 DEF Ok
  <2> QED BY <1>2, <1>3, <1>4, <2>2, <2>3 DEF Phase, LeftOf
<1>5. CASE kind = "opendir_all_ports"
  <2> DEFINE u == delete_portid(b, n).tree
  <2>1. Alone(b, OpFor(kind, n)) = delete_portid(b, n)
    BY <1>5 DEF Alone, OpFor
  <2>2. /\ delete_portid(b, n) = Ok(u) /\ But(b, u, {"ports", "links"})
        /\ u.ports = {q \in b.ports : q[1] # n}
    BY <1>1, DeletePortidIs
  <2> HIDE DEF u
  <2>3. t = u /\ ok = TRUE
    BY <2>1, <2>2 DEF Ok
  <2>4. PortIds(u) \subseteq PortIds(b) \ {n}
    BY <2>2 DEF PortIds
  <2>5. u.subsys = b.subsys
    BY <2>2 DEF But
  <2> QED BY <1>2, <1>3, <1>5, <2>3, <2>4, <2>5 DEF Phase, LeftOf
<1>6. CASE kind = "opendir_all_hosts"
  <2> DEFINE u == LessHost(b, n)
  <2>1. Alone(b, OpFor(kind, n)) = delete_host(b, n)
    BY <1>6 DEF Alone, OpFor
  <2>2. b.subsys = {} /\ b.ports = {}
    BY <1>6 DEF Phase
  <2>3. \A a \in b.allowed : FALSE
    BY <1>1, <2>2 DEF Sound
  <2>4. delete_host(b, n) = Ok(u)
    BY <2>3 DEF delete_host, LessHost
  <2>5. But(b, u, {"hosts"}) /\ u.hosts = b.hosts \ {n}
    BY <1>1, LessHostIs
  <2> HIDE DEF u
  <2>6. t = u /\ ok = TRUE
    BY <2>1, <2>4 DEF Ok
  <2>7. u.subsys = {} /\ u.ports = {}
    BY <2>2, <2>5 DEF But
  <2> QED BY <1>2, <1>3, <1>6, <2>5, <2>6, <2>7 DEF Phase, LeftOf
<1> QED BY <1>4, <1>5, <1>6 DEF Kinds

\* The end of a loop is the beginning of the next, or of the end.
LEMMA LoopEnds ==
    ASSUME NEW kind \in Kinds, NEW t, Phase(kind, t), LeftOf(kind, t) = {}
    PROVE  \/ \E k \in Kinds : Phase(k, t) /\ RestOf(kind) = Do(<<k>>, RestOf(k))
           \/ t = EmptyTree /\ RestOf(kind) = Do(Back, <<>>)
<1>0. IsTree(t) /\ Sound(t) /\ Proper(t)
  BY DEF Phase
<1>1. CASE kind = "opendir_subsystems"
  <2>1. t.subsys = {}
    BY <1>1 DEF LeftOf
  <2>2. Phase("opendir_all_ports", t)
    BY <1>0, <2>1 DEF Phase
  <2>3. RestOf(kind) = Do(<<"opendir_all_ports">>, RestOf("opendir_all_ports"))
    BY <1>1 DEF RestOf, AfterSubsystems
  <2> QED BY <2>2, <2>3 DEF Kinds
<1>2. CASE kind = "opendir_all_ports"
  <2>1. t.subsys = {}
    BY <1>2 DEF Phase
  <2>2. t.ports = {}
    BY <1>2 DEF LeftOf, PortIds
  <2>3. Phase("opendir_all_hosts", t)
    BY <1>0, <2>1, <2>2 DEF Phase
  <2>4. RestOf(kind) = Do(<<"opendir_all_hosts">>, RestOf("opendir_all_hosts"))
    BY <1>2 DEF RestOf, AfterAllPorts
  <2> QED BY <2>3, <2>4 DEF Kinds
<1>3. CASE kind = "opendir_all_hosts"
  <2>1. t.subsys = {} /\ t.ports = {} /\ t.hosts = {}
    BY <1>3 DEF Phase, LeftOf
  <2>2. t.any = {} /\ t.ns = {}
    BY <1>0, <2>1 DEF Sound
  <2>3. t.allowed = {} /\ t.links = {}
    BY <1>0, <2>1 DEF Sound
  <2>4. t = EmptyTree
    BY <1>0, <2>1, <2>2, <2>3 DEF IsTree, EmptyTree
  <2>5. RestOf(kind) = Do(Back, <<>>)
    BY <1>3 DEF RestOf
  <2> QED BY <2>4, <2>5
<1> QED BY <1>1, <1>2, <1>3 DEF Kinds

LEMMA ResetOpens ==
    ASSUME NEW kind \in Kinds,
           NEW th, NEW t, NEW d, NEW th2, NEW t2, NEW d2, Runs(th, t, d, th2, t2, d2),
           Phase(kind, t), d = <<>>, th.saved = HomeStack, th.ok = TRUE,
           th.code = Do(<<kind>>, RestOf(kind))
    PROVE  InReset(kind, th2, t2, d2)
<1> DEFINE x == <<kind>>
           c == RestOf(kind)
           left == NamesIn(x, t, d)
<1>1. IsCode(c) /\ x[1] \in OpenCalls /\ x[1] # "opendir_links"
  BY RestCode DEF OpenCalls, Kinds
<1>2. left = LeftOf(kind, t)
  BY DEF NamesIn, LeftOf, Kinds
<1> HIDE DEF c, x
<1>3. t2 = t /\ d2 = d /\ Kept(th, th2) /\ th2.code = Loop(left, x, c)
  BY <1>1, ByOpen DEF x, c
<1> HIDE DEF left
<1>4. LeftOf(kind, t2) \subseteq left /\ th2.saved = HomeStack /\ th2.ok = TRUE
  BY <1>2, <1>3 DEF Kept
<1> QED BY <1>3, <1>4 DEF InReset, HomeStack, x, c

LEMMA ResetLoops ==
    ASSUME NEW kind \in Kinds,
           NEW th, NEW t, NEW d, NEW th2, NEW t2, NEW d2, Runs(th, t, d, th2, t2, d2),
           Phase(kind, t), d = <<>>, th.saved = HomeStack, th.ok = TRUE,
           NEW left, LeftOf(kind, t) \subseteq left,
           th.code = Loop(left, <<kind>>, RestOf(kind)),
           NEW op, op[1] = "reset_config", NEW b
    PROVE  \/ \E k \in Kinds : InReset(k, th2, t2, d2)
           \/ Leaves(op, b, <<>>, th2, t2, <<>>, Home)
<1> DEFINE x == <<kind>>
           c == RestOf(kind)
           rest(n) == Loop(left \ {n}, x, c)
<1>1. IsCode(c) /\ HomeStack = Do(Home, <<>>)
  BY RestCode, NoCode DEF HomeStack
<1> HIDE DEF c, x
<1>2. /\ t2 = t /\ d2 = d /\ Kept(th, th2)
      /\ \/ left = {} /\ th2.code = c
         \/ \E n \in left : th2.code = Joined(Entry(x, n), rest(n))
      /\ \A y, z : IsCode(Loop(y, z, c))
  BY <1>1, ByLoop DEF x, c
<1>3. th2.saved = HomeStack /\ th2.ok = TRUE
  BY <1>2 DEF Kept
<1>4. CASE left = {} /\ th2.code = c
  <2>1. LeftOf(kind, t) = {}
    BY <1>4
  <2>2. \/ \E k \in Kinds : Phase(k, t) /\ RestOf(kind) = Do(<<k>>, RestOf(k))
        \/ t = EmptyTree /\ RestOf(kind) = Do(Back, <<>>)
    BY <2>1, LoopEnds
  <2>3. ASSUME NEW k \in Kinds, Phase(k, t), RestOf(kind) = Do(<<k>>, RestOf(k))
        PROVE  InReset(k, th2, t2, d2)
    BY <1>2, <1>3, <1>4, <2>3 DEF InReset, HomeStack, c
  <2>4. ASSUME t = EmptyTree, RestOf(kind) = Do(Back, <<>>)
        PROVE  Leaves(op, b, <<>>, th2, t2, <<>>, Home)
    <3>1. Alone(b, op) = Ok(EmptyTree)
      BY DEF Alone, reset_config
    <3> QED BY <1>1, <1>2, <1>3, <1>4, <2>4, <3>1 DEF Leaves, Ok, c
  <2> QED BY <2>2, <2>3, <2>4
<1>5. ASSUME NEW n \in left, th2.code = Joined(Entry(x, n), rest(n))
      PROVE  InReset(kind, th2, t2, d2)
  <2> DEFINE o == OpFor(kind, n)
             e == rest(n)
  <2>1. IsOp(o) /\ o[1] \in OpNames /\ Entry(x, n) = CodeOf(o)
    BY OpForIs DEF x
  <2>2. IsCode(e) /\ o[1] # "reset_config"
    BY <1>2, <2>1 DEF IsOp
  <2> HIDE DEF o
  <2>3. th2.code = Joined(CodeOf(o), e)
    BY <1>5, <2>1
  <2> HIDE DEF e
  <2>4. th2.code = Do(Start, Do(<<"enter", DirOf(o)>>, BodyOf(o, e)))
    BY <2>1, <2>2, <2>3, CodeBegins
  <2>5. Begins(o, t, e, th2, t2, d2, HomeStack, <<>>)
    BY <1>2, <1>3, <2>4 DEF Begins
  <2>6. At(OpFor(kind, n), t, Loop(left \ {n}, <<kind>>, RestOf(kind)), th2, t2, d2, <<Home>>, <<>>)
    BY <2>5 DEF At, o, e, x, c, HomeStack
  <2> QED BY <2>6 DEF InReset
<1> HIDE DEF rest
<1> QED BY <1>2, <1>4, <1>5

LEMMA ResetSteps ==
    ASSUME NEW op, op[1] = "reset_config", NEW b, NEW kind \in Kinds,
           NEW th, NEW t, NEW d, NEW th2, NEW t2, NEW d2, Runs(th, t, d, th2, t2, d2),
           InReset(kind, th, t, d)
    PROVE  \/ \E k \in Kinds : InReset(k, th2, t2, d2)
           \/ Leaves(op, b, <<>>, th2, t2, <<>>, Home)
<1>1. CASE /\ Phase(kind, t) /\ d = <<>> /\ th.saved = <<Home>> /\ th.ok = TRUE
           /\ th.code = Do(<<kind>>, RestOf(kind))
  BY <1>1, ResetOpens DEF HomeStack
<1>2. ASSUME Phase(kind, t), d = <<>>, th.saved = <<Home>>, th.ok = TRUE,
             NEW left, LeftOf(kind, t) \subseteq left,
             th.code = Loop(left, <<kind>>, RestOf(kind))
      PROVE  \/ \E k \in Kinds : InReset(k, th2, t2, d2)
             \/ Leaves(op, b, <<>>, th2, t2, <<>>, Home)
  BY <1>2, ResetLoops DEF HomeStack
<1>3. ASSUME NEW left, NEW u, NEW n, Phase(kind, u), LeftOf(kind, u) \subseteq left,
             At(OpFor(kind, n), u, Loop(left \ {n}, <<kind>>, RestOf(kind)), th, t, d, HomeStack, <<>>)
      PROVE  InReset(kind, th2, t2, d2)
  <2> DEFINE o == OpFor(kind, n)
             r == Loop(left \ {n}, <<kind>>, RestOf(kind))
  <2>1. IsOp(o)
    BY OpForIs
  <2>2. IsCode(r) /\ IsCode(HomeStack)
    BY RestCode, DoCode DEF Loop
  <2>3. IsTree(u) /\ Sound(u) /\ Proper(u)
    BY <1>3 DEF Phase
  <2>4. At(o, u, r, th, t, d, HomeStack, <<>>)
    BY <1>3
  <2> HIDE DEF o, r
  <2>5. At(o, u, r, th2, t2, d2, HomeStack, <<>>) \/ Over(o, u, r, th2, t2, d2, HomeStack, <<>>)
    BY <2>1, <2>2, <2>3, <2>4, OpSteps
  <2>6. CASE At(o, u, r, th2, t2, d2, HomeStack, <<>>)
    BY <1>3, <2>6 DEF InReset, o, r, HomeStack
  <2>7. CASE Over(o, u, r, th2, t2, d2, HomeStack, <<>>)
    <3>1. /\ th2.code = Loop(left \ {n}, <<kind>>, RestOf(kind))
          /\ th2.saved = <<Home>> /\ d2 = <<>>
          /\ Alone(u, OpFor(kind, n)) = [tree |-> t2, ok |-> th2.ok]
      BY <2>7 DEF Over, o, r, HomeStack
    <3>2. th2.ok = TRUE /\ Phase(kind, t2) /\ LeftOf(kind, t2) \subseteq left \ {n}
      <4> DEFINE k == th2.ok
      <4>1. Alone(u, OpFor(kind, n)) = [tree |-> t2, ok |-> k]
        BY <3>1
      <4> HIDE DEF k
      <4>2. k = TRUE /\ Phase(kind, t2) /\ LeftOf(kind, t2) \subseteq left \ {n}
        BY <1>3, <4>1, AfterEntry
      <4> QED BY <4>2 DEF k
    <3> DEFINE l2 == left \ {n}
    <3> HIDE DEF l2
    <3>3. LeftOf(kind, t2) \subseteq l2 /\ th2.code = Loop(l2, <<kind>>, RestOf(kind))
      BY <3>1, <3>2 DEF l2
    <3> QED BY <3>1, <3>2, <3>3 DEF InReset
  <2> QED BY <2>5, <2>6, <2>7
<1>4. \/ /\ Phase(kind, t) /\ d = <<>> /\ th.saved = <<Home>> /\ th.ok = TRUE
         /\ th.code = Do(<<kind>>, RestOf(kind))
      \/ /\ Phase(kind, t) /\ d = <<>> /\ th.saved = <<Home>> /\ th.ok = TRUE
         /\ \E left : /\ LeftOf(kind, t) \subseteq left
                      /\ th.code = Loop(left, <<kind>>, RestOf(kind))
      \/ \E left, u, n :
            /\ Phase(kind, u) /\ LeftOf(kind, u) \subseteq left
            /\ At(OpFor(kind, n), u, Loop(left \ {n}, <<kind>>, RestOf(kind)),
                  th, t, d, HomeStack, <<>>)
  BY DEF InReset, HomeStack
<1> QED BY <1>1, <1>2, <1>3, <1>4

-----------------------------------------------------------------------------
(* An operation that is not over has something left to do.                  *)

Left(th) == \E x, c : IsCode(c) /\ th.code = Do(x, c)

LEMMA InsideLeft ==
    ASSUME NEW op, NEW r, IsCode(r), NEW th, NEW t, NEW d, Inside(op, r, th, t, d)
    PROVE  Left(th)
<1>0. IsCode(Do(Back, r)) /\ \A x, c : IsCode(c) => IsCode(Do(x, c))
  BY DoCode
<1>1. CASE InCreateSubsys(op[2], op[3], r, th, t, d)
  BY <1>0, <1>1 DEF InCreateSubsys, Left
<1>2. CASE InCreateNs(op[2], op[3], op[4], r, th, t, d)
  BY <1>0, <1>2 DEF InCreateNs, Left
<1>3. CASE InDeleteNs(op[2], op[3], r, th, t, d)
  BY <1>0, <1>3 DEF InDeleteNs, Left
<1>4. CASE InCreatePortid(op[2], op[3], r, th, t, d)
  BY <1>0, <1>4 DEF InCreatePortid, Left
<1>5. CASE InDeletePortid(op[2], r, th, t, d)
  BY <1>0, <1>5 DEF InDeletePortid, Left, Loop, Removes
<1>6. CASE InDeleteSubsys(op[2], r, th, t, d)
  <2> DEFINE s == op[2]
  <2>1. /\ IsCode(AfterHosts(s, r)) /\ IsCode(AfterNs(s, r)) /\ IsCode(AfterPorts(s, r))
        /\ IsCode(Removes(s, r)) /\ IsCode(Do(<<"opendir_ports", s>>, AfterPorts(s, r)))
    BY SubsysCode
  <2>2. CASE InHosts(s, r, th, t, d)
    BY <1>0, <2>1, <2>2 DEF InHosts, Loop, Left
  <2>3. CASE InNs(s, r, th, t, d)
    <3> DEFINE rest(left, x) == Loop(left \ {x}, <<"opendir_ns">>, AfterNs(s, r))
               rm(left, x) == Do(<<"rmdir", <<"namespaces", x>>>>, rest(left, x))
    <3>1. \A left, x : IsCode(rest(left, x))
      BY <1>0, <2>1 DEF Loop
    <3> HIDE DEF rest
    <3>2. \A left, x : IsCode(rm(left, x))
      BY <1>0, <3>1
    <3>3. \/ \E left : th.code = Do(<<"readdir", left, <<"opendir_ns">>>>, AfterNs(s, r))
          \/ \E left, x :
                \/ th.code = Do(<<"chdir", <<"namespaces", x>>>>,
                             Do(<<"chdir_up", 2>>, rm(left, x)))
                \/ th.code = Do(<<"chdir_up", 2>>, rm(left, x))
                \/ th.code = rm(left, x)
      BY <2>3 DEF InNs, rest, Loop
    <3>4. ASSUME NEW left, NEW x, th.code = rm(left, x)
          PROVE  Left(th)
      BY <3>1, <3>4 DEF Left
    <3> HIDE DEF rm
    <3> QED BY <1>0, <2>1, <3>2, <3>3, <3>4 DEF Left
  <2>4. CASE InPorts(s, r, th, t, d)
    BY <1>0, <2>1, <2>4 DEF InPorts, Loop, Left
  <2>5. CASE th.code = AfterHosts(s, r)
    BY <2>1, <2>5 DEF AfterHosts, Left
  <2>6. CASE th.code = AfterNs(s, r)
    BY <2>1, <2>6 DEF AfterNs, Left
  <2>7. CASE th.code = Do(<<"opendir_ports", s>>, AfterPorts(s, r))
    BY <2>1, <2>7 DEF Left
  <2>8. CASE th.code = AfterPorts(s, r)
    BY <2>1, <2>8 DEF AfterPorts, Left
  <2>9. CASE th.code = Removes(s, r)
    BY <1>0, <2>9 DEF Removes, Left
  <2> QED BY <1>6, <2>2, <2>3, <2>4, <2>5, <2>6, <2>7, <2>8, <2>9 DEF InDeleteSubsys
<1> QED BY <1>1, <1>2, <1>3, <1>4, <1>5, <1>6 DEF Inside

LEMMA AtLeft ==
    ASSUME NEW op, op[1] \in OpNames, NEW b, NEW r, IsCode(r), op[1] = "reset_config" => r = <<>>,
           NEW th, NEW t, NEW d, NEW sv, NEW home, At(op, b, r, th, t, d, sv, home)
    PROVE  th.code # <<>>
<1> DEFINE e == Do(<<"enter", DirOf(op)>>, BodyOf(op, r))
<1>1. IsCode(BodyOf(op, r)) /\ BodyOf(op, r) # <<>>
  <2>1. IsCode(BodyOf(op, r)) /\ HasBack(BodyOf(op, r))
    BY BodySkips DEF Skips
  <2> DEFINE c == BodyOf(op, r)
  <2> HIDE DEF c
  <2>2. HasBack(c) => c # <<>>
    <3>1. ASSUME c = <<>> PROVE ~HasBack(c)
      <4>1. Len(c) = 0
        BY <3>1
      <4> QED BY <4>1 DEF HasBack
    <3> QED BY <3>1
  <2> QED BY <2>1, <2>2 DEF c
<1>2. e # <<>> /\ IsCode(e) /\ Do(Start, e) # <<>> /\ Do(Back, r) # <<>>
  <2>1. e # <<>> /\ IsCode(e)
    BY <1>1, DoCode
  <2> QED BY <2>1, DoCode
<1>3. Left(th) => th.code # <<>>
  BY DoCode DEF Left
<1>4. CASE Begins(op, b, r, th, t, d, sv, home)
  BY <1>2, <1>4 DEF Begins
<1>5. CASE Entered(op, b, r, th, t, d, sv, home)
  BY <1>1, <1>5 DEF Entered
<1>6. CASE Working(op, b, r, th, t, d, sv, home)
  <2>1. Inside(op, r, th, t, d)
    BY <1>6 DEF Working
  <2> QED BY <1>3, <2>1, InsideLeft
<1>7. CASE Leaves(op, b, r, th, t, sv, home)
  BY <1>2, <1>7 DEF Leaves
<1> QED BY <1>4, <1>5, <1>6, <1>7 DEF At

LEMMA ResetLeft ==
    ASSUME NEW kind \in Kinds, NEW th, NEW t, NEW d, InReset(kind, th, t, d)
    PROVE  th.code # <<>>
<1>1. IsCode(RestOf(kind))
  BY RestCode
<1>2. CASE th.code = Do(<<kind>>, RestOf(kind))
  BY <1>1, <1>2, DoCode
<1>3. ASSUME NEW left, th.code = Loop(left, <<kind>>, RestOf(kind))
      PROVE  th.code # <<>>
  BY <1>1, <1>3, DoCode DEF Loop
<1>4. ASSUME NEW left, NEW u, NEW n,
             At(OpFor(kind, n), u, Loop(left \ {n}, <<kind>>, RestOf(kind)), th, t, d, <<Home>>, <<>>)
      PROVE  th.code # <<>>
  <2> DEFINE r == Loop(left \ {n}, <<kind>>, RestOf(kind))
             o == OpFor(kind, n)
             sv == <<Home>>
  <2>1. IsCode(r)
    BY <1>1, DoCode DEF Loop
  <2>2. o[1] \in OpNames /\ o[1] # "reset_config"
    BY OpForIs DEF IsOp
  <2>3. At(o, u, r, th, t, d, sv, <<>>)
    BY <1>4
  <2> HIDE DEF o, r, sv
  <2> QED BY <2>1, <2>2, <2>3, AtLeft
<1> QED BY <1>2, <1>3, <1>4 DEF InReset

-----------------------------------------------------------------------------
(* The operations that can be asked for.                                    *)

LEMMA OpsAre ==
    ASSUME NEW op \in AllOps
    PROVE  /\ op[1] \in OpNames /\ op # <<>>
           /\ op[1] # "reset_config" => IsOp(op)
<1>1. CASE \E s \in Subsystems, any \in BOOLEAN : op = <<"create_subsys", s, any>>
  BY <1>1 DEF IsOp, OpNames
<1>2. CASE \E s \in Subsystems : op = <<"delete_subsys", s>>
  BY <1>2 DEF IsOp, OpNames
<1>3. CASE \E s \in Subsystems, n \in Nsids, d \in Devs : op = <<"create_ns", s, n, d>>
  BY <1>3 DEF IsOp, OpNames
<1>4. CASE \E s \in Subsystems, n \in Nsids : op = <<"delete_ns", s, n>>
  BY <1>4 DEF IsOp, OpNames
<1>5. CASE \E h \in Hosts : op = <<"create_host", h>>
  BY <1>5 DEF IsOp, OpNames
<1>6. CASE \E h \in Hosts : op = <<"delete_host", h>>
  BY <1>6 DEF IsOp, OpNames
<1>7. CASE \E p \in Ports, a \in Addrs : op = <<"create_portid", p, a>>
  BY <1>7 DEF IsOp, OpNames
<1>8. CASE \E p \in Ports : op = <<"delete_portid", p>>
  BY <1>8 DEF IsOp, OpNames
<1>9. CASE \E s \in Subsystems, h \in Hosts : op = <<"link_host", s, h>>
  BY <1>9 DEF IsOp, OpNames
<1>10. CASE \E s \in Subsystems, h \in Hosts : op = <<"unlink_host", s, h>>
  BY <1>10 DEF IsOp, OpNames
<1>11. CASE \E s \in Subsystems, p \in Ports : op = <<"link_port", s, p>>
  BY <1>11 DEF IsOp, OpNames
<1>12. CASE \E s \in Subsystems, p \in Ports : op = <<"unlink_port", s, p>>
  BY <1>12 DEF IsOp, OpNames
<1>13. CASE op = <<"reset_config">>
  BY <1>13 DEF IsOp, OpNames
<1> QED BY <1>1, <1>2, <1>3, <1>4, <1>5, <1>6, <1>7, <1>8, <1>9, <1>10, <1>11, <1>12,
           <1>13 DEF AllOps

LEMMA CodeIs ==
    ASSUME NEW op, op[1] \in OpNames
    PROVE  CodeOf(op) = Do(Start, Do(<<"enter", DirOf(op)>>, BodyOf(op, <<>>)))
<1>0. IsCode(<<>>)
  BY NoCode
<1>1. IsCode(CodeOf(op))
  <2>1. CASE op[1] = "create_subsys"
    BY <1>0, <2>1, Code6 DEF CodeOf, CreateSubsys
  <2>2. CASE op[1] = "delete_subsys"
    BY <1>0, <2>2, Code9 DEF CodeOf, DeleteSubsys
  <2>3. CASE op[1] = "create_ns"
    BY <1>0, <2>3, Code6 DEF CodeOf, CreateNs
  <2>4. CASE op[1] = "delete_ns"
    BY <1>0, <2>4, Code6 DEF CodeOf, DeleteNs
  <2>5. CASE op[1] = "create_host"
    BY <1>0, <2>5, Code4 DEF CodeOf, CreateHost
  <2>6. CASE op[1] = "delete_host"
    BY <1>0, <2>6, Code4 DEF CodeOf, DeleteHost
  <2>7. CASE op[1] = "create_portid"
    BY <1>0, <2>7, Code7 DEF CodeOf, CreatePortid
  <2>8. CASE op[1] = "delete_portid"
    BY <1>0, <2>8, Code5 DEF CodeOf, DeletePortid
  <2>9. CASE op[1] = "link_host"
    BY <1>0, <2>9, Code4 DEF CodeOf, LinkHost
  <2>10. CASE op[1] = "unlink_host"
    BY <1>0, <2>10, Code4 DEF CodeOf, UnlinkHost
  <2>11. CASE op[1] = "link_port"
    BY <1>0, <2>11, Code4 DEF CodeOf, LinkPort
  <2>12. CASE op[1] = "unlink_port"
    BY <1>0, <2>12, Code4 DEF CodeOf, UnlinkPort
  <2>13. CASE op[1] = "reset_config"
    BY <1>0, <2>13, Code6 DEF CodeOf, ResetConfig
  <2> QED BY <2>1, <2>2, <2>3, <2>4, <2>5, <2>6, <2>7, <2>8, <2>9, <2>10, <2>11, <2>12,
           <2>13 DEF OpNames
<1>2. Joined(CodeOf(op), <<>>) = CodeOf(op)
  BY <1>1, DoEmpty
<1>3. Joined(CodeOf(op), <<>>) = Do(Start, Do(<<"enter", DirOf(op)>>, BodyOf(op, <<>>)))
  BY <1>0, CodeBegins
<1> QED BY <1>2, <1>3

-----------------------------------------------------------------------------
(* The invariant.                                                           *)

SysCall(i) ==
    \/ GetCwd(i) \/ ChDir(i) \/ ChDirBack(i) \/ MkDir(i) \/ RmDir(i) \/ SymLink(i)
    \/ RemoveLink(i) \/ Write(i) \/ Read(i) \/ OpenDir(i) \/ ReadDir(i)

\* A system call changes neither the other threads nor what the thread is doing.
LEMMA CallKeeps ==
    ASSUME NEW i \in Threads, thread = [j \in Threads |-> thread[j]], IsThread(thread[i]),
           SysCall(i)
    PROVE  /\ OthersStay(i) /\ IsThread(thread'[i]) /\ thread[i].code # <<>>
           /\ thread'[i].op = thread[i].op /\ thread'[i].before = thread[i].before
<1> DEFINE Keeps == /\ OthersStay(i) /\ IsThread(thread'[i])
                    /\ thread'[i].op = thread[i].op /\ thread'[i].before = thread[i].before
<1>1. \A c : thread' = [thread EXCEPT ![i].code = c] => Keeps
  BY DEF IsThread, OthersStay
<1>2. \A c, s : thread' = [thread EXCEPT ![i].code = c, ![i].saved = s] => Keeps
  BY DEF IsThread, OthersStay
<1>3. \A c, e : thread' = [thread EXCEPT ![i].code = c, ![i].exists = e] => Keeps
  BY DEF IsThread, OthersStay
<1>4. \A c, k : thread' = [thread EXCEPT ![i].code = c, ![i].ok = k] => Keeps
  BY DEF IsThread, OthersStay
<1> HIDE DEF Keeps
<1>5. CASE GetCwd(i)
  <2>1. PICK d : thread' = [thread EXCEPT ![i].code = Tail(thread[i].code),
                                         ![i].saved = <<d>> \o thread[i].saved]
    BY <1>5 DEF GetCwd
  <2> QED BY <1>2, <1>5, <2>1 DEF GetCwd, Calls, Keeps
<1>6. CASE ChDir(i)
  <2>1. thread[i].code # <<>>
    BY <1>6 DEF ChDir, Calls
  <2>2. \/ \E c : thread' = [thread EXCEPT ![i].code = c]
        \/ thread' = [thread EXCEPT ![i].code = Tail(SkipToBack(thread[i].code)),
                                   ![i].saved = Tail(thread[i].saved)]
    BY <1>6 DEF ChDir, Then
  <2> QED BY <1>1, <1>2, <2>1, <2>2 DEF Keeps
<1>7. CASE ChDirBack(i)
  BY <1>2, <1>7 DEF ChDirBack, Calls, Keeps
<1>8. CASE MkDir(i)
  <2>1. \/ thread' = [thread EXCEPT ![i].code = Tail(thread[i].code),
                                   ![i].exists = cwd \o Call(i)[2] \in Dirs(tree)]
        \/ thread' = [thread EXCEPT ![i].code = SkipToBack(thread[i].code), ![i].ok = FALSE]
    BY <1>8 DEF MkDir
  <2> QED BY <1>3, <1>4, <1>8, <2>1 DEF MkDir, Calls, Keeps
<1>9. CASE RmDir(i) \/ RemoveLink(i) \/ Write(i)
  BY <1>1, <1>9 DEF RmDir, RemoveLink, Write, Calls, Then, Keeps
<1>10. CASE SymLink(i)
  <2>1. \/ thread' = [thread EXCEPT ![i].code = Rest(i)]
        \/ thread' = [thread EXCEPT ![i].code = SkipToBack(thread[i].code), ![i].ok = FALSE]
    BY <1>10 DEF SymLink, Then
  <2> QED BY <1>1, <1>4, <1>10, <2>1 DEF SymLink, Calls, Keeps
<1>11. CASE Read(i)
  <2> DEFINE k == ~thread[i].exists \/ (Len(cwd) = 2 /\ <<cwd[2], Call(i)[2]>> \in tree.ports)
  <2>1. thread' = [thread EXCEPT ![i].code = Tail(thread[i].code), ![i].ok = k]
    BY <1>11 DEF Read
  <2>2. thread[i].code # <<>>
    BY <1>11 DEF Read, Calls
  <2> HIDE DEF k
  <2> QED BY <1>4, <2>1, <2>2 DEF Keeps
<1>12. CASE OpenDir(i)
  BY <1>1, <1>12 DEF OpenDir, Calls, Then, Keeps
<1>13. CASE ReadDir(i)
  BY <1>1, <1>13 DEF ReadDir, Calls, Then, Keeps
<1> QED BY <1>5, <1>6, <1>7, <1>8, <1>9, <1>10, <1>11, <1>12, <1>13 DEF SysCall

LEMMA CallRuns ==
    ASSUME NEW i \in Threads, thread = [j \in Threads |-> thread[j]], IsThread(thread[i]),
           thread[i].op # <<>>, SysCall(i)
    PROVE  Runs(thread[i], tree, cwd, thread'[i], tree', cwd')
<1>1. Step(i)
  BY DEF Step, SysCall
<1>2. ASSUME NEW x, NEW c, IsCode(c), thread[i].code = Do(x, c)
      PROVE  Ran(x, c, thread[i], tree, cwd, thread'[i], tree', cwd')
  BY <1>1, <1>2, RanSteps
<1> QED BY <1>2 DEF Runs

\* A thread stays where it can be, whatever system call it makes.
LEMMA PointSteps ==
    ASSUME NEW th, NEW t, NEW d, NEW th2, NEW t2, NEW d2, Runs(th, t, d, th2, t2, d2),
           th.code # <<>>, th2.op = th.op, th2.before = th.before, Point(th, t, d)
    PROVE  Point(th2, t2, d2)
<1> DEFINE op == th.op
           b == th.before
<1>1. op \in AllOps /\ IsTree(b) /\ Sound(b) /\ Proper(b)
  BY DEF Point
<1>2. op[1] \in OpNames /\ (op[1] # "reset_config" => IsOp(op))
  BY <1>1, OpsAre
<1>3. IsCode(<<>>) /\ Home \in {Home, <<>>}
  BY NoCode
<1>4. CASE op[1] # "reset_config" /\ At(op, b, <<>>, th, t, d, <<>>, Home)
  <2>1. At(op, b, <<>>, th2, t2, d2, <<>>, Home) \/ Over(op, b, <<>>, th2, t2, d2, <<>>, Home)
    BY <1>1, <1>2, <1>3, <1>4, OpSteps
  <2> QED BY <1>1, <1>4, <2>1 DEF Point
<1>5. CASE op[1] = "reset_config" /\ Begins(op, b, <<>>, th, t, d, <<>>, Home)
  <2>1. DirOf(op) = <<>>
    BY <1>5 DEF DirOf
  <2>2. DirOf(op) \in Dirs(b)
    BY <2>1, TopDirs
  <2>3. \/ Begins(op, b, <<>>, th2, t2, d2, <<>>, Home)
        \/ Entered(op, b, <<>>, th2, t2, d2, <<>>, Home)
        \/ Over(op, b, <<>>, th2, t2, d2, <<>>, Home)
    BY <1>2, <1>3, <1>5, <2>2, BeginSteps
  <2>4. CASE Entered(op, b, <<>>, th2, t2, d2, <<>>, Home)
    <3> DEFINE kind == "opendir_subsystems"
    <3>1. /\ t2 = b /\ th2.ok = TRUE /\ th2.saved = Do(Home, <<>>) /\ d2 = <<>>
          /\ th2.code = BodyOf(op, <<>>)
      BY <2>1, <2>4 DEF Entered
    <3>2. th2.code = Do(<<kind>>, RestOf(kind))
      BY <1>5, <3>1 DEF BodyOf, RestOf
    <3>3. th2.saved = <<Home>>
      BY <3>1, NoCode
    <3>4. Phase(kind, t2)
      BY <1>1, <3>1 DEF Phase
    <3>5. InReset(kind, th2, t2, d2)
      BY <3>1, <3>2, <3>3, <3>4 DEF InReset
    <3> QED BY <1>1, <1>5, <3>5 DEF Point, Kinds
  <2> QED BY <1>1, <1>5, <2>3, <2>4 DEF Point
<1>6. CASE op[1] = "reset_config" /\ \E kind \in Kinds : InReset(kind, th, t, d)
  <2>1. PICK kind \in Kinds : InReset(kind, th, t, d)
    BY <1>6
  <2>2. \/ \E k \in Kinds : InReset(k, th2, t2, d2)
        \/ Leaves(op, b, <<>>, th2, t2, <<>>, Home)
    BY <1>6, <2>1, ResetSteps
  <2> QED BY <1>1, <1>6, <2>2 DEF Point
<1>7. CASE op[1] = "reset_config" /\ Leaves(op, b, <<>>, th, t, <<>>, Home)
  <2>1. Over(op, b, <<>>, th2, t2, d2, <<>>, Home)
    BY <1>3, <1>7, LeaveSteps
  <2> QED BY <1>1, <2>1 DEF Point
<1>8. CASE Over(op, b, <<>>, th, t, d, <<>>, Home)
  BY <1>8 DEF Over
<1> QED BY <1>4, <1>5, <1>6, <1>7, <1>8 DEF Point

\* An operation with nothing left to do is over.
LEMMA PointEnds ==
    ASSUME NEW th, NEW t, NEW d, Point(th, t, d), th.code = <<>>
    PROVE  Over(th.op, th.before, <<>>, th, t, d, <<>>, Home)
<1> DEFINE op == th.op
           b == th.before
<1>1. op \in AllOps /\ op[1] \in OpNames /\ IsCode(<<>>)
  BY OpsAre, NoCode DEF Point
<1>2. ~At(op, b, <<>>, th, t, d, <<>>, Home)
  BY <1>1, AtLeft
<1>3. \A kind \in Kinds : ~InReset(kind, th, t, d)
  BY ResetLeft
<1> QED BY <1>2, <1>3 DEF Point, At

LEMMA InvInit == Init => IInv
<1> SUFFICES ASSUME Init PROVE IInv
  OBVIOUS
<1>1. /\ thread = [i \in Threads |-> Idle] /\ tree = EmptyTree /\ cwd = Home
  BY DEF Init
<1>2. IsThread(Idle) /\ Idle.op = <<>>
  BY DEF IsThread, Idle
<1>3. IsTree(EmptyTree) /\ Sound(EmptyTree)
  BY DEF IsTree, Sound, EmptyTree
<1>4. Proper(EmptyTree)
  BY <1>3, SoundProper
<1> QED BY <1>1, <1>2, <1>3, <1>4 DEF IInv, Quiet

LEMMA InvRequest ==
    ASSUME IInv, Serial', NEW i \in Threads, Request(i)
    PROVE  IInv'
<1>1. PICK op \in Ops : thread' = [thread EXCEPT ![i] = [Idle EXCEPT !.op = op, !.code = CodeOf(op),
                                                                   !.before = tree]]
  BY DEF Request
<1> DEFINE th == [Idle EXCEPT !.op = op, !.code = CodeOf(op), !.before = tree]
<1>2. /\ th.op = op /\ th.code = CodeOf(op) /\ th.saved = <<>> /\ th.ok = TRUE
      /\ th.before = tree /\ IsThread(th)
  <2>1. IsThread(Idle) /\ Idle.saved = <<>> /\ Idle.ok = TRUE
    BY DEF Idle, IsThread
  <2> DEFINE u == [Idle EXCEPT !.op = op]
             v == [u EXCEPT !.code = CodeOf(op)]
  <2>2. IsThread(u) /\ u.op = op /\ u.saved = Idle.saved /\ u.ok = Idle.ok
    BY <2>1 DEF IsThread
  <2>3. th = [v EXCEPT !.before = tree]
    OBVIOUS
  <2> HIDE DEF u
  <2>4. IsThread(v) /\ v.op = op /\ v.code = CodeOf(op) /\ v.saved = u.saved /\ v.ok = u.ok
    BY <2>2 DEF IsThread
  <2> HIDE DEF v, th
  <2>5. /\ IsThread(th) /\ th.op = v.op /\ th.code = v.code /\ th.saved = v.saved /\ th.ok = v.ok
        /\ th.before = tree
    BY <2>3, <2>4 DEF IsThread
  <2> QED BY <2>1, <2>2, <2>4, <2>5
<1> HIDE DEF th
<1>3. /\ thread = [j \in Threads |-> thread[j]] /\ \A j \in Threads : IsThread(thread[j])
      /\ \A j \in Threads : thread[j].op = <<>> => thread[j] = Idle
  BY DEF IInv
<1>4. /\ thread'[i] = th /\ thread' = [j \in Threads |-> thread'[j]]
      /\ \A j \in Threads \ {i} : thread'[j] = thread[j]
  BY <1>1, <1>3 DEF th
<1>5. op \in AllOps /\ op[1] \in OpNames /\ op # <<>>
  BY OpsAssumption, OpsAre
<1>6. \A j \in Threads \ {i} : thread'[j].op = <<>>
  BY <1>2, <1>4, <1>5 DEF Serial
<1>7. Quiet
  BY <1>4, <1>6 DEF Quiet, Request
<1>8. IsTree(tree) /\ Sound(tree) /\ Proper(tree) /\ cwd = Home /\ tree' = tree /\ cwd' = cwd
  BY <1>7 DEF IInv, Request
<1>9. Point(th, tree, cwd)
  <2>1. th.code = Do(Start, Do(<<"enter", DirOf(op)>>, BodyOf(op, <<>>)))
    BY <1>2, <1>5, CodeIs
  <2>2. Begins(op, tree, <<>>, th, tree, cwd, <<>>, Home)
    BY <1>2, <1>8, <2>1 DEF Begins
  <2> QED BY <1>2, <1>5, <1>8, <2>2 DEF Point, At
<1>10. ~Quiet'
  BY <1>2, <1>4, <1>5 DEF Quiet
<1>11. \A j \in Threads : IsThread(thread'[j])
  BY <1>2, <1>3, <1>4
<1>12. \A j \in Threads : thread'[j].op = <<>> => thread'[j] = Idle
  BY <1>2, <1>3, <1>4, <1>5
<1>13. \A j \in Threads : thread'[j].op # <<>> => Point(thread'[j], tree', cwd')
  BY <1>4, <1>6, <1>8, <1>9
<1> QED BY <1>4, <1>10, <1>11, <1>12, <1>13 DEF IInv

LEMMA InvReturn ==
    ASSUME IInv, Serial, NEW i \in Threads, Return(i)
    PROVE  IInv'
<1>1. /\ thread' = [thread EXCEPT ![i] = Idle] /\ tree' = tree /\ cwd' = cwd
      /\ thread[i].op # <<>> /\ thread[i].code = <<>>
  BY DEF Return
<1>2. /\ thread = [j \in Threads |-> thread[j]] /\ \A j \in Threads : IsThread(thread[j])
      /\ \A j \in Threads : thread[j].op = <<>> => thread[j] = Idle
      /\ Point(thread[i], tree, cwd)
  BY <1>1 DEF IInv
<1>3. /\ thread'[i] = Idle /\ thread' = [j \in Threads |-> thread'[j]]
      /\ \A j \in Threads \ {i} : thread'[j] = thread[j]
  BY <1>1, <1>2
<1>4. IsThread(Idle) /\ Idle.op = <<>>
  BY DEF IsThread, Idle
<1>5. \A j \in Threads : thread'[j].op = <<>>
  BY <1>1, <1>3, <1>4 DEF Serial
<1> DEFINE th == thread[i]
<1>6. Over(th.op, th.before, <<>>, th, tree, cwd, <<>>, Home)
  BY <1>1, <1>2, PointEnds
<1>7. th.op \in AllOps /\ IsTree(th.before) /\ Sound(th.before)
  BY <1>2 DEF Point
<1>8. Good(Alone(th.before, th.op))
  BY <1>7, OpsAre, AloneSound
<1>9. Alone(th.before, th.op).tree = tree /\ cwd = Home
  BY <1>6 DEF Over
<1>10. IsTree(tree) /\ Sound(tree) /\ Proper(tree)
  BY <1>8, <1>9, SoundProper DEF Good
<1>11. \A j \in Threads : IsThread(thread'[j])
  BY <1>2, <1>3, <1>4
<1>12. \A j \in Threads : thread'[j].op = <<>> => thread'[j] = Idle
  BY <1>2, <1>3, <1>4
<1> QED BY <1>1, <1>3, <1>5, <1>9, <1>10, <1>11, <1>12 DEF IInv

LEMMA InvCall ==
    ASSUME IInv, Serial, NEW i \in Threads, SysCall(i)
    PROVE  IInv'
<1>1. /\ thread = [j \in Threads |-> thread[j]] /\ \A j \in Threads : IsThread(thread[j])
      /\ \A j \in Threads : thread[j].op = <<>> => thread[j] = Idle
  BY DEF IInv
<1>2. /\ OthersStay(i) /\ IsThread(thread'[i]) /\ thread[i].code # <<>>
      /\ thread'[i].op = thread[i].op /\ thread'[i].before = thread[i].before
  BY <1>1, CallKeeps
<1>3. thread[i].op # <<>>
  BY <1>1, <1>2 DEF Idle
<1>4. Point(thread[i], tree, cwd)
  BY <1>3 DEF IInv
<1>5. Runs(thread[i], tree, cwd, thread'[i], tree', cwd')
  BY <1>1, <1>3, CallRuns
<1>6. Point(thread'[i], tree', cwd')
  BY <1>2, <1>4, <1>5, PointSteps
<1>7. /\ thread' = [j \in Threads |-> thread'[j]]
      /\ \A j \in Threads \ {i} : thread'[j] = thread[j]
  BY <1>2 DEF OthersStay
<1>8. \A j \in Threads \ {i} : thread'[j].op = <<>>
  BY <1>3, <1>7 DEF Serial
<1>9. ~Quiet'
  BY <1>2, <1>3 DEF Quiet
<1>10. \A j \in Threads : IsThread(thread'[j])
  BY <1>1, <1>2, <1>7
<1>11. \A j \in Threads : thread'[j].op = <<>> => thread'[j] = Idle
  BY <1>1, <1>2, <1>3, <1>7
<1>12. \A j \in Threads : thread'[j].op # <<>> => Point(thread'[j], tree', cwd')
  BY <1>6, <1>8
<1> QED BY <1>7, <1>9, <1>10, <1>11, <1>12 DEF IInv

\* The invariant is preserved by every step from and to a state with one operation.
LEMMA InvStep == IInv /\ Serial /\ Serial' /\ [Next]_vars => IInv'
<1> SUFFICES ASSUME IInv, Serial, Serial', [Next]_vars PROVE IInv'
  OBVIOUS
<1>1. CASE UNCHANGED vars
  BY <1>1 DEF IInv, Quiet, vars
<1>2. ASSUME NEW i \in Threads, Request(i) PROVE IInv'
  BY <1>2, InvRequest
<1>3. ASSUME NEW i \in Threads, Return(i) PROVE IInv'
  BY <1>3, InvReturn
<1>4. ASSUME NEW i \in Threads, SysCall(i) PROVE IInv'
  BY <1>4, InvCall
<1> QED BY <1>1, <1>2, <1>3, <1>4 DEF Next, SysCall

LEMMA InvAsIfAlone == IInv => AsIfAlone
<1> SUFFICES ASSUME IInv, NEW i \in Threads, Returns(i)
             PROVE  /\ [tree |-> tree, ok |-> thread[i].ok] = Alone(thread[i].before, thread[i].op)
                    /\ cwd = Home
  BY DEF AsIfAlone
<1>1. Point(thread[i], tree, cwd) /\ thread[i].code = <<>>
  BY DEF IInv, Returns
<1>2. Over(thread[i].op, thread[i].before, <<>>, thread[i], tree, cwd, <<>>, Home)
  BY <1>1, PointEnds
<1> QED BY <1>2 DEF Over

\* Where the operations come one at a time, each of them leaves the tree and
\* returns the status that Configfs.tla says, and the working directory is back
\* where it was (configfs.c), for any subsystems, hosts, ports and operations,
\* whatever order the directories are read in and on every path out of it.  That
\* is what a lock around the operations would give: dem-em has none.
THEOREM OneAtATime == Spec /\ []Serial => []AsIfAlone
<1>1. Init => IInv
  BY InvInit
<1>2. IInv /\ Serial /\ Serial' /\ [Next]_vars => IInv'
  BY InvStep
<1>3. IInv => AsIfAlone
  BY InvAsIfAlone
<1> QED BY <1>1, <1>2, <1>3, PTL DEF Spec

\* A dem-em whose operations are all carried out in one thread needs no lock.
THEOREM OneThread ==
    ASSUME NEW i, Threads = {i}
    PROVE  Spec => []AsIfAlone
<1>1. Serial
  BY DEF Serial
<1>2. Spec => []Serial
  BY <1>1, PTL
<1> QED BY <1>2, OneAtATime, PTL
===============================================================================
