------------------------------- MODULE Restful -------------------------------
(***************************************************************************)
(* The REST interface of dem (dem/restful.c): which operation of           *)
(* config.c a request is given to, and when the document is stored.  A     *)
(* request is served from beginning to end under json_spinlock, on the one *)
(* thread that polls mongoose.  Requests that only read are left to the    *)
(* properties.                                                             *)
(*                                                                         *)
(* path is what follows the name of the target, host or group.             *)
(***************************************************************************)
EXTENDS Config

CONSTANTS
    Scenarios,    \* by name: the file that dem starts from first (boot), the
                  \* requests that clients send (Cli.tla) and the faults that
                  \* the messages of a request may meet
    MayRepeat     \* do clients link a member to a group that has it?

VARIABLE scenario \* the one that takes place

Cl == INSTANCE Cli

Boot     == Scenarios[scenario].boot
Requests == Scenarios[scenario].requests
Faults   == Scenarios[scenario].faults

\* A method, path or body that no handler takes: the request changes nothing.
bad_request == /\ reply' = "EINVAL"
               /\ notified' = {}
               /\ UNCHANGED <<root, lists, tree, life>>

-----------------------------------------------------------------------------
(* /target/... *)

delete_target_request(target, path, fault) ==
    LET n == Len(path)
    IN  CASE n = 0 -> del_target(target, fault)
          [] n = 2 /\ path[1] = "subsystem" -> del_subsys(target, path[2], fault)
          [] n = 2 /\ path[1] = "portid" /\ path[2] # 0 ->
                 del_portid(target, path[2], fault)
          [] n = 4 /\ path[1] = "subsystem" /\ path[3] = "nsid" ->
                 del_ns(target, path[2], path[4], fault)
          [] n = 4 /\ path[1] = "subsystem" /\ path[3] = "host" ->
                 unlink_host(target, path[2], path[4], fault)
          [] OTHER -> bad_request

put_target_request(target, path, body, fault) ==
    LET n == Len(path)
    IN  CASE n = 0 -> update_target(target, body, fault)
          [] n \in 1..2 /\ path[1] = "subsystem" ->
                 set_subsys(target, IF n = 1 THEN NONE ELSE path[2], body, fault)
          [] n \in 3..4 /\ path[1] = "subsystem" /\ path[3] = "nsid" ->
                 set_ns(target, path[2], body, fault)
          [] n \in 3..4 /\ path[1] = "subsystem" /\ path[3] = "host" ->
                 link_host(target, path[2], IF n = 4 THEN path[4] ELSE body.alias,
                           fault)
          [] n = 1 /\ path[1] = "portid" -> set_portid(target, 0, body, fault)
          [] n = 2 /\ path[1] = "portid" /\ path[2] # 0 ->
                 set_portid(target, path[2], body, fault)
          [] OTHER -> bad_request

\* With a body and no path, update_target is given the alias of the target where
\* it wants a document, and refuses.
post_target_request(target, path, body, fault) ==
    LET to(part) == path # <<>> /\ path[1] = part
    IN  CASE body # NONE /\ to("subsystem") -> set_subsys(target, path[2], body, fault)
          [] body = NONE /\ path = <<>> -> add_target(target)
          [] body = NONE /\ to("reconfig") -> target_reconfig(target, fault)
          [] body = NONE /\ to("refresh") -> target_refresh(target)
          [] body = NONE /\ to("subsystem") ->
                 set_subsys(target, NONE,
                            [Cl!Tags EXCEPT !.nqn = path[2], !.access = "any"], fault)
          [] OTHER -> bad_request

patch_target_request(target, path, body, fault) ==
    CASE path = <<>> -> update_target(target, body, fault)
      [] path # <<>> /\ path[1] = "subsystem" ->
             set_subsys(target, path[2], body, fault)
      [] OTHER -> bad_request

handle_target_requests(method, target, path, body, fault) ==
    CASE method = "PUT"    -> put_target_request(target, path, body, fault)
      [] method = "DELETE" -> delete_target_request(target, path, fault)
      [] method = "POST"   -> post_target_request(target, path, body, fault)
      [] method = "PATCH"  -> patch_target_request(target, path, body, fault)

-----------------------------------------------------------------------------
(* /host/... *)

put_host_request(host, path, body, fault) ==
    IF path # <<>> THEN bad_request ELSE update_host(host, body, fault)
delete_host_request(host, path, fault) ==
    IF path # <<>> THEN bad_request ELSE del_host(host, fault)
post_host_request(host, path, body, fault) ==
    IF path # <<>> THEN bad_request
    ELSE IF body = NONE THEN add_host(host) ELSE update_host(host, body, fault)
patch_host_request(host, path, body, fault) ==
    IF path # <<>> \/ host = NONE THEN bad_request
    ELSE update_host(host, body, fault)

handle_host_requests(method, host, path, body, fault) ==
    CASE method = "PUT"    -> put_host_request(host, path, body, fault)
      [] method = "DELETE" -> delete_host_request(host, path, fault)
      [] method = "POST"   -> post_host_request(host, path, body, fault)
      [] method = "PATCH"  -> patch_host_request(host, path, body, fault)

-----------------------------------------------------------------------------
(* /group/... *)

\* The array of a kind of member.
Tag(kind) == IF kind = "host" THEN "hosts" ELSE "targets"

put_group_request(group, path, body) ==
    CASE path = <<>> -> update_group(group, body.alias)
      [] path # <<>> /\ path[1] \in {"host", "target"} ->
             set_group_member(group, body.alias, Tag(path[1]))
      [] OTHER -> bad_request

post_group_request(group, path) ==
    CASE path = <<>> -> add_group(group)
      [] Len(path) = 2 /\ path[1] \in {"host", "target"} ->
             set_group_member(group, path[2], Tag(path[1]))
      [] OTHER -> bad_request

delete_group_request(group, path) ==
    CASE path = <<>> -> del_group(group)
      [] path # <<>> /\ path[1] \in {"host", "target"} ->
             del_group_member(group, path[2], Tag(path[1]))
      [] OTHER -> bad_request

patch_group_request(group, body) == update_group(group, body.alias)

handle_group_requests(method, group, path, body) ==
    CASE method = "PUT"    -> put_group_request(group, path, body)
      [] method = "DELETE" -> delete_group_request(group, path)
      [] method = "POST"   -> post_group_request(group, path)
      [] method = "PATCH"  -> patch_group_request(group, body)

-----------------------------------------------------------------------------

\* The document is stored by the requests that succeed, and by no other.
store_json_config_file == file' = IF reply' = "ok" THEN root' ELSE file

handle_http_request(req, fault) ==
    LET name == IF Len(req.uri) > 1 THEN req.uri[2] ELSE NONE
        path == SubSeq(req.uri, 3, Len(req.uri))
    IN  /\ life = "up"
        /\ CASE req.uri[1] = "target" ->
                    handle_target_requests(req.method, name, path, req.body, fault)
             [] req.uri[1] = "host" ->
                    handle_host_requests(req.method, name, path, req.body, fault)
             [] req.uri[1] = "group" ->
                    handle_group_requests(req.method, name, path, req.body)
             [] OTHER -> bad_request
        /\ store_json_config_file

\* dem starts from Boot; the machine has nothing yet and answers.
Init == /\ scenario \in DOMAIN Scenarios
        /\ \E junk \in Leftover, addresses \in Placements(Boot) :
           \E w \in {Started(Boot, addresses, ExchangeWith(E!EmptyTree, NoFault))} :
              /\ root = w.root
              /\ file = Boot
              /\ target_list = w.tl
              /\ group_list = build_group_list(Boot, w.tl, junk)
              /\ tree = w.x.tree
              /\ reply = "start"
              /\ notified = {}
              /\ life = "up"

LinksAgain(req) ==
    /\ req.method = "POST" /\ req.uri[1] = "group" /\ Len(req.uri) = 4
    /\ \E g \in Range(root.groups) :
          g.name = req.uri[2] /\ Contains(g[Tag(req.uri[3])], req.uri[4])

Next == /\ \/ \E req \in Requests, fault \in Faults :
                 (MayRepeat \/ ~LinksAgain(req)) /\ handle_http_request(req, fault)
           \/ \E fault \in Faults : Restart(fault)
        /\ UNCHANGED scenario

allVars == <<vars, scenario>>

Spec == Init /\ [][Next]_allVars

-----------------------------------------------------------------------------
(* What hosts see *)

\* handle_get_log_pages: the subsystems whose log pages a host is given.
Served(tl, gl, nqn) ==
    {<<tg.alias, s.nqn>> : <<tg, s>> \in
        {<<t, r>> \in Range(tl) \X UNION {Range(u.subsystems) : u \in Range(tl)} :
            /\ r \in Range(t.subsystems)
            /\ ~t.member \/ shared_group(gl, t, nqn)
            /\ ~is_restricted(r) \/ \E h \in Range(r.hosts) : h.nqn = nqn}}

ServedNow(nqn) == Served(target_list, group_list, nqn)

\* The same, if dem were started from the document as it is.
ServedAfter(nqn) ==
    LET tl == build_target_list(root, [i \in DOMAIN root.targets |-> i])
    IN  Served(tl, build_group_list(root, tl, NONE), nqn)

-----------------------------------------------------------------------------
(* Properties *)

Statuses == {"start", "ok", "alert", "ENOENT", "EEXIST", "EINVAL", "EFAULT"}

\* The state has its shape: statuses, modes and member flags are known values
\* and the addresses of the targets are distinct.
TypeOK == /\ reply \in Statuses
          /\ life \in {"up", "looped", "crashed"}
          /\ notified \subseteq Subscribed
          /\ \A i, j \in DOMAIN target_list :
                target_list[i].id = target_list[j].id => i = j
          /\ \A tg \in Range(target_list) :
                /\ tg.id \in Addresses
                /\ tg.mode \in {"local", "inb", "oob"}
                /\ tg.member \in BOOLEAN
                /\ tg.devs \subseteq Range(Devices)
          /\ tree.links \subseteq E!PortIds(tree) \X tree.subsys
          /\ tree.allowed \subseteq tree.subsys \X tree.hosts

\* Every target, port, subsystem and group of the document is on the lists,
\* under the same name, so that the lookups that follow a change of the
\* document find it (find_target, find_portid, find_subsys and find_group in
\* config.c, some of them dereferenced without a test).
DocumentFound ==
    /\ \A d \in Range(root.targets) : \E tg \in Range(target_list) :
           /\ tg.alias = d.alias
           /\ {p.id : p \in Range(d.portids)} \subseteq {p.id : p \in Range(tg.portids)}
           /\ {s.nqn : s \in Range(d.subsystems)}
                  \subseteq {s.nqn : s \in Range(tg.subsystems)}
    /\ Names(root.groups) \subseteq Names(group_list)

\* No other host has the nqn.
OwnNqn(h) == \A g \in Range(root.hosts) : g.nqn = h.nqn => g = h

\* The subsystems that a host is served are the same now (the lists), after a
\* restart (the document), and in what an administrator is shown of the host
\* (the document, and the links of the groups by alias): the three are kept by
\* separate code (config.c, json.c, show_json_host) and must stay together.
ViewAgrees ==
    life = "up" => \A h \in {g \in Range(root.hosts) : g.nqn # NONE} :
        /\ ServedNow(h.nqn) = ServedAfter(h.nqn)
        /\ OwnNqn(h) => show_json_host(h.alias) = ServedNow(h.nqn)

-----------------------------------------------------------------------------
(* What the machine should have of a target: everything that is on the     *)
(* lists, a subsystem nobody may use on no port.                           *)

Usable(s) == ~is_restricted(s) \/ s.hosts # <<>>

Wanted(tg) ==
    LET subs == Range(tg.subsystems)
        open == {s \in subs : ~is_restricted(s)}
    IN  [subsys  |-> {s.nqn : s \in subs},
         any     |-> {s.nqn : s \in open},
         ns      |-> UNION {{<<s.nqn, n.id, n.dev>> : n \in Range(s.nss)} : s \in subs},
         allowed |-> UNION {{<<s.nqn, h.nqn>> : h \in Range(s.hosts)} : s \in subs \ open},
         ports   |-> {<<p.id, p.addr>> : p \in Range(tg.portids)},
         links   |-> {<<p.id, s.nqn>> : p \in Range(tg.portids),
                                        s \in {r \in subs : Usable(r)}}]

Managed == {tg \in Range(target_list) : tg.mode # "local"}

Lossless == \A f \in Faults : f.kind \in {"none", "twice"}

\* The requests that change how a target is managed, or who is allowed to use
\* its subsystems.
Remanages(req) == req.uri[1] = "target" /\ req.method \in {"PUT", "PATCH"}
                  /\ Len(req.uri) \in 1..2
ChangesAccess(req) == Len(req.uri) > 4 /\ req.uri[5] = "host"

\* As long as no message is lost, the machine has what the lists have, port by
\* port, subsystem by subsystem, namespace by namespace and host by host, also
\* when _send_set_config sends a command a second time.  Where hosts are allowed
\* and denied, the ports of a restricted subsystem may differ: the first host
\* does not put it on them, the last one does not take it off.
MachineAgrees ==
    life = "up" /\ Lossless /\ (\A req \in Requests : ~Remanages(req)) =>
        \A tg \in Managed :
            /\ \A f \in DOMAIN Wanted(tg) \ {"links"} : tree[f] = Wanted(tg)[f]
            /\ \A l \in SymDiff(tree.links, Wanted(tg).links) :
                  l[2] \notin tree.any /\ \E req \in Requests : ChangesAccess(req)

\* A request that is answered with an error changes neither the document nor
\* the lists: the functions of json.c test before they write, and config.c
\* comes after json.c.
RefusedUnchanged ==
    [][reply' \notin {"ok", "alert", "start"} => UNCHANGED <<root, lists>>]_vars

\* What config.c has added to or taken from what target i should have: the
\* request succeeded, and the target is managed as before.
OkFor(i) ==
    /\ reply' = "ok" /\ life = "up"
    /\ i \in DOMAIN target_list \cap DOMAIN target_list'
    /\ target_list[i].mode = target_list'[i].mode
    /\ target_list[i].mode # "local"
Added(i, f)   == Wanted(target_list'[i])[f] \ Wanted(target_list[i])[f]
Removed(i, f) == Wanted(target_list[i])[f] \ Wanted(target_list'[i])[f]

\* A port, a subsystem, its access, a namespace or an allowed host that was added
\* or taken away by a request answered with success was added or taken away on
\* the machine, whatever happened to the messages.  That the subsystem is on the
\* ports is not said: see OkMeansLinked.
OkMeansDone ==
    [][target_list' # target_list =>
          \A i \in DOMAIN target_list, f \in {"subsys", "any", "ns", "ports", "allowed"} :
             OkFor(i) => Added(i, f) \subseteq tree'[f] /\ Removed(i, f) \cap tree'[f] = {}]_vars

\* The same for the links of subsystems to ports.  It fails: set_subsys and
\* set_portid do not look at what _link_portid returns and answer with success
\* although the subsystem is on no port.
OkMeansLinked ==
    [][target_list' # target_list =>
          \A i \in DOMAIN target_list : OkFor(i) => Added(i, "links") \subseteq tree'.links]_vars

\* An in-band reconfiguration that is answered with success has put everything
\* that is on the lists on the machine, whatever happened to the messages
\* (target_reconfig, config_target_inb).
ReconfigDelivers ==
    [][reply' = "ok" /\ UNCHANGED <<root, lists>> =>
          \A tg \in {t \in Managed : t.mode = "inb"}, f \in Faults :
              target_reconfig(tg.alias, f) =>
                  \A k \in DOMAIN Wanted(tg) : Wanted(tg)[k] \subseteq tree'[k]]_vars

\* Subsystems that are open to all, or restricted before and after a step.
AccessOf(tl) == UNION {{<<t.alias, s.nqn, s.access>> : s \in Range(t.subsystems)} :
                          t \in Range(tl)}
Followed(old, new) ==
    {<<a[1], a[2]>> : a \in {b \in old \cup new : b[3] = "any" \/ b \in old \cap new}}

\* A host that waits for events is told when a subsystem that is open to all
\* comes or goes, and when it is allowed or denied the use of a restricted one
\* (the lists of hosts that the operations of config.c make before
\* send_notifications).  Changes of groups and of the nqn of a host are left out.
NotifiedOnChange ==
    [][(/\ target_list' # target_list
        /\ reply' \in {"ok", "alert"}
        /\ UNCHANGED <<group_list, root.hosts>>) =>
          \A n \in Subscribed :
              (\E p \in Followed(AccessOf(target_list), AccessOf(target_list')) :
                  p \in ServedNow(n) <=> p \notin ServedNow(n)') => n \in notified']_vars

\* The answer that says that dem's configuration is updated although the
\* machine could not be reached (CONFIG_ALERT) means that the update lasts.
AlertDurable == reply = "alert" => file = root

\* A host that is deleted takes no subsystem with it: only its entries in the
\* lists of allowed hosts and of the groups go (del_from_allowed_hosts).
SubsysOf(doc) == UNION {{<<d.alias, s.nqn>> : s \in Range(d.subsystems)} :
                           d \in Range(doc.targets)}
DelHostKeepsSubsystems ==
    [][Len(root'.hosts) < Len(root.hosts) => SubsysOf(root') = SubsysOf(root)]_vars

\* dem can be started from the file that it has stored: no list loops and no
\* target is missing.
StaysUp == life = "up"
===============================================================================
