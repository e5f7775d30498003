-------------------------------- MODULE Config --------------------------------
(***************************************************************************)
(* The configuration of dem (dem/config.c): what each operation does to    *)
(* the document (JsonStore), to the lists that dem serves hosts from, and  *)
(* to the machine that it manages (Endpoint).  Restful.tla gives each      *)
(* request its operation.                                                  *)
(*                                                                         *)
(* There is one managed machine; targets in in-band or out-of-band mode    *)
(* manage it, targets in local mode send nothing.  A target of the list    *)
(* has an id, the address that the links of the groups hold: a freed       *)
(* address may be used again.  A host link is kept with its group, since a *)
(* link never outlives its group.  Every subscribed host has an event      *)
(* request waiting, so that the hosts an operation notifies are those that *)
(* its notification list names.  Log pages are left to                     *)
(* DiscoveryQueues.tla.                                                    *)
(*                                                                         *)
(* The messages of one operation meet at most one fault:                   *)
(*   lost        one message does not arrive and is not answered           *)
(*   unanswered  one message arrives, its answer does not                  *)
(*   twice       one in-band message arrives, its answer does not, and     *)
(*               _send_set_config connects and sends it again              *)
(*   down        a message and all that follow do not arrive               *)
(***************************************************************************)
EXTENDS JsonStore

CONSTANTS
    Subscribed,   \* host nqns with an event request waiting
    Addresses,    \* memory addresses of targets
    Devices,      \* the devices of the machine, in the order it reports them
    Leftover,     \* what a nqn buffer that was not written may hold
    StalePortIds  \* what a port id that was not written may be

VARIABLES
    root,         \* the document (json.c)
    file,         \* the configuration file
    target_list,
    group_list,   \* with the host links of each group
    tree,         \* the nvmet tree of the managed machine
    reply,        \* status of the last operation; "start" after a start
    notified,     \* hosts notified by the last operation
    life          \* "up", "looped" (a list that never ends), "crashed"

vars == <<root, file, target_list, group_list, tree, reply, notified, life>>
lists == <<target_list, group_list>>

E == INSTANCE Endpoint

-----------------------------------------------------------------------------
(* Looking things up: the first match, or 0 *)

find_target(alias) == find_alias(target_list, alias)
find_subsys(target, nqn) == find_nqn(target.subsystems, nqn)
find_portid(target, id) == find_int(target.portids, id)
find_ns(subsys, nsid) == find_int(subsys.nss, nsid)
find_group(name) == find_name(group_list, name)

is_restricted(subsys) == subsys.access = "restricted"

-----------------------------------------------------------------------------
(* Notifications: the hosts an operation tells of a change.  The two flag_ *)
(* functions mark a host when the list has some OTHER host.                *)

any_subsys_unrestricted(target) ==
    \E i \in DOMAIN target.subsystems : ~is_restricted(target.subsystems[i])

flag_by_group_hosts(group) ==
    {n \in Subscribed : \E h \in Range(group.hosts) : h.nqn # n}

flag_by_access_list(subsys) ==
    {n \in Subscribed : \E h \in Range(subsys.hosts) : h.nqn # n}

create_event_host_list_for_subsys(subsys) ==
    IF is_restricted(subsys) THEN flag_by_access_list(subsys) ELSE Subscribed

\* The second prune finds every entry marked by the first flag_ function.
create_event_host_list_for_group(group, target) == flag_by_group_hosts(group)

create_event_host_list_for_target(target) ==
    IF any_subsys_unrestricted(target) THEN Subscribed
    ELSE UNION {flag_by_access_list(target.subsystems[i]) :
                   i \in DOMAIN target.subsystems}

\* Mutated: the host itself is left out.
EventsForOtherHosts(nqn) == Subscribed \ {nqn}

create_event_host_list_for_host(nqn) == Subscribed \cap {nqn}

-----------------------------------------------------------------------------
(* Messages to the machine *)

NoFault == [kind |-> "none", at |-> 0]

\* An exchange of messages: the tree so far, how many were sent, the fault,
\* and whether the last one was answered with success.
ExchangeWith(t, fault) == [tree |-> t, n |-> 0, fault |-> fault, ok |-> TRUE]
Exchange(fault) == ExchangeWith(tree, fault)

\* A message of either form arrives at the machine and is carried out.
Took(x, r) == [x EXCEPT !.tree = r.tree, !.ok = r.ok]
Arrive(x, mode, inb, oob) ==
    Took(x, IF mode = "inb" THEN E!handle_mi_send(x.tree, inb)
            ELSE E!handle_target_requests(x.tree, oob))

\* Does message k not arrive?
Gone(fault, k) == \/ fault.kind = "lost" /\ k = fault.at
                  \/ fault.kind = "down" /\ k >= fault.at

\* Mutated: the answer is not looked at.
SendSetConfigBlindly(x, mode, inb, oob) ==
    IF mode = "local" THEN [x EXCEPT !.ok = TRUE]
    ELSE [x EXCEPT !.n    = @ + 1,
                   !.tree = IF Gone(x.fault, x.n + 1) THEN @
                            ELSE Arrive(x, mode, inb, oob).tree,
                   !.ok   = TRUE]

\* One message in the form of either management mode; local mode sends none
\* and succeeds.  In-band messages that fail are sent once more.
_send_set_config(x, mode, inb, oob) ==
    LET k        == x.n + 1
        hit(s)   == x.fault.kind = s /\ k = x.fault.at
        arrivals == IF Gone(x.fault, k) THEN <<>>
                    ELSE IF hit("twice") /\ mode = "inb" THEN <<1, 2>> ELSE <<1>>
    IN  IF mode = "local" THEN [x EXCEPT !.ok = TRUE]
        ELSE [FoldLeft(LAMBDA y, i : Arrive(y, mode, inb, oob),
                       [x EXCEPT !.n = k, !.ok = FALSE], arrivals)
                EXCEPT !.ok = @ /\ ~hit("unanswered")]

\* A list of messages: all of them whatever happens, or up to the first that
\* fails.
SendAll(x, msgs) == FoldLeft(LAMBDA y, m : _send_set_config(y, m[1], m[2], m[3]),
                             x, msgs)
SendUntilError(x, msgs) ==
    FoldLeft(LAMBDA y, m : IF y.ok THEN _send_set_config(y, m[1], m[2], m[3])
                                   ELSE y,
             [x EXCEPT !.ok = TRUE], msgs)

\* Messages whose outcome is not looked at; the same, after a success only.
SendQuietly(x, msgs) == [SendAll(x, msgs) EXCEPT !.ok = x.ok]
SendIfOk(x, msgs) == SendQuietly(x, IF x.ok THEN msgs ELSE <<>>)

\* An operation ends with the outcome of its messages.
Status(ok) == IF ok THEN "ok" ELSE "alert"
Answered(x) == tree' = x.tree /\ reply' = Status(x.ok)

Entry == [portid |-> NONE, addr |-> NONE, nqn |-> NONE, allowany |-> NONE,
          nsid |-> NONE, dev |-> NONE, host |-> NONE]

\* The messages: <<mode, in-band command, REST request>>.
PortMsg(mode, portid) ==
    LET e == [Entry EXCEPT !.portid = portid.id, !.addr = portid.addr]
    IN  <<mode, <<"set_port", e>>, <<"POST", <<"portid", portid.id>>, e>>>>
DelPortMsg(mode, id) ==
    <<mode, <<"del_port", [Entry EXCEPT !.portid = id]>>,
            <<"DELETE", <<"portid", id>>>>>>
SubsysMsg(mode, subsys) ==
    LET e == [Entry EXCEPT !.nqn = subsys.nqn,
                           !.allowany = ~is_restricted(subsys)]
    IN  <<mode, <<"set_subsys", e>>, <<"POST", <<"subsystem">>, e>>>>
DelSubsysMsg(mode, nqn) ==
    <<mode, <<"del_subsys", [Entry EXCEPT !.nqn = nqn]>>,
            <<"DELETE", <<"subsystem", nqn>>>>>>
NsMsg(mode, nqn, ns) ==
    LET e == [Entry EXCEPT !.nqn = nqn, !.nsid = ns.id, !.dev = ns.dev]
    IN  <<mode, <<"set_ns", e>>,
                <<"POST", <<"subsystem", nqn, "namespace", ns.id>>, e>>>>
DelNsMsg(mode, nqn, nsid) ==
    <<mode, <<"del_ns", [Entry EXCEPT !.nqn = nqn, !.nsid = nsid]>>,
            <<"DELETE", <<"subsystem", nqn, "namespace", nsid>>>>>>
HostMsg(mode, host) ==
    LET e == [Entry EXCEPT !.host = host]
    IN  <<mode, <<"set_host", e>>, <<"POST", <<"host">>, e>>>>
DelHostMsg(mode, host) ==
    <<mode, <<"del_host", [Entry EXCEPT !.host = host]>>,
            <<"DELETE", <<"host", host>>>>>>
LinkHostMsg(mode, nqn, host) ==
    LET e == [Entry EXCEPT !.nqn = nqn, !.host = host]
    IN  <<mode, <<"link_host", e>>,
                <<"POST", <<"subsystem", nqn, "host">>, e>>>>
UnlinkHostMsg(mode, nqn, host) ==
    <<mode, <<"unlink_host", [Entry EXCEPT !.nqn = nqn, !.host = host]>>,
            <<"DELETE", <<"subsystem", nqn, "host", host>>>>>>
LinkPortMsg(mode, nqn, id) ==
    LET e == [Entry EXCEPT !.nqn = nqn, !.portid = id]
    IN  <<mode, <<"link_port", e>>,
                <<"POST", <<"subsystem", nqn, "portid">>, e>>>>
UnlinkPortMsg(mode, nqn, id) ==
    <<mode, <<"unlink_port", [Entry EXCEPT !.nqn = nqn, !.portid = id]>>,
            <<"DELETE", <<"subsystem", nqn, "portid", id>>>>>>
ResetMsg(mode) ==
    <<mode, <<"reset_config", Entry>>, <<"DELETE", <<"config">>>>>>

\* The host, then the link; the link is not sent if the host failed.
_link_host(x, mode, nqn, host) ==
    SendUntilError(x, <<HostMsg(mode, host), LinkHostMsg(mode, nqn, host)>>)

\* A restricted subsystem nobody may use is not put on a port.
_link_portid(mode, subsys, portids) ==
    IF is_restricted(subsys) /\ subsys.hosts = <<>> THEN <<>>
    ELSE [i \in DOMAIN portids |->
             LinkPortMsg(mode, subsys.nqn, portids[i].id)]

-----------------------------------------------------------------------------
(* Groups *)

init_group(name) == [name |-> name, targets |-> <<>>, hosts |-> <<>>]

add_group(name) ==
    LET o == add_json_group(root, name)
    IN  /\ root' = o.root
        /\ group_list' = IF o.ret = "ok" THEN Append(group_list, init_group(name))
                         ELSE group_list
        /\ reply' = o.ret
        /\ notified' = {}
        /\ UNCHANGED <<target_list, tree, life>>

\* The group is looked up by its new name.
update_group(name, newname) ==
    LET o == update_json_group(root, name, newname)
    IN  /\ root' = o.root
        /\ group_list' = IF o.ret = "ok" /\ find_group(newname) = 0
                         THEN Append(group_list, init_group(newname))
                         ELSE group_list
        /\ reply' = o.ret
        /\ notified' = {}
        /\ UNCHANGED <<target_list, tree, life>>

\* A host without a nqn leaves the buffer as it was.
add_host_to_group(group, alias, junk, doc) ==
    LET nqn == get_json_host_nqn(doc, alias)
    IN  [group EXCEPT !.hosts =
            Append(@, [alias |-> alias,
                       nqn   |-> IF nqn = NONE THEN junk ELSE nqn])]

add_target_to_group(group, targets, alias) ==
    LET t == find_alias(targets, alias)
    IN  IF t = 0 THEN group
        ELSE [group EXCEPT !.targets = Append(@, targets[t].id)]

\* A member that the group has already gets a second link.
set_group_member(name, alias, tag) ==
    LET o == set_json_group_member(root, name, alias, tag)
        g == find_group(name)
        t == find_target(alias)
    IN  /\ root' = o.root
        /\ reply' = o.ret
        /\ UNCHANGED <<tree, life>>
        /\ IF o.ret # "ok" THEN notified' = {} /\ UNCHANGED lists
           ELSE IF tag = "hosts"
           THEN /\ \E junk \in Leftover :
                      group_list' = [group_list EXCEPT ![g] =
                                        add_host_to_group(@, alias, junk, root)]
                /\ notified' = {}
                /\ UNCHANGED target_list
           ELSE /\ group_list' = [group_list EXCEPT ![g] =
                                     add_target_to_group(@, target_list, alias)]
                /\ target_list' = [target_list EXCEPT ![t].member = TRUE]
                /\ notified' = create_event_host_list_for_group(
                                   group_list[g], target_list[t])

\* find_group_host compares the nqn of a link with the alias.
del_host_from_group(group, alias) ==
    [group EXCEPT !.hosts = ArrayRemove(@, find_nqn(@, alias))]

\* Mutated: the link stays.
DelNoTargetFromGroup(group, id) == group

del_target_from_group(group, id) ==
    [group EXCEPT !.targets = DeleteString(@, id)]

\* Where no group has the target any more, the hosts notified are those of a
\* "group" that is the head of the list: none.
del_group_member(name, alias, tag) ==
    LET o  == del_json_group_member(root, name, alias, tag)
        g  == find_group(name)
        t  == find_target(alias)
        gl == [group_list EXCEPT ![g] =
                  del_target_from_group(@, target_list[t].id)]
    IN  /\ root' = o.root
        /\ reply' = o.ret
        /\ notified' = {}
        /\ UNCHANGED <<tree, life>>
        /\ IF o.ret # "ok" THEN UNCHANGED lists
           ELSE IF tag = "hosts"
           THEN /\ group_list' = [group_list EXCEPT ![g] =
                                     del_host_from_group(@, alias)]
                /\ UNCHANGED target_list
           ELSE /\ group_list' = gl
                /\ target_list' =
                      IF \/ gl = group_list
                         \/ \E i \in DOMAIN gl :
                               Contains(gl[i].targets, target_list[t].id)
                      THEN target_list
                      ELSE [target_list EXCEPT ![t].member = FALSE]

\* The links to the hosts go with the group; the targets are not looked at.
del_group(name) ==
    LET o == del_json_group(root, name)
    IN  /\ root' = o.root
        /\ group_list' = IF o.ret = "ok" THEN RemoveAt(group_list, find_group(name))
                         ELSE group_list
        /\ reply' = o.ret
        /\ notified' = {}
        /\ UNCHANGED <<target_list, tree, life>>

\* Does the host share a group with the target?
shared_group(gl, target, nqn) ==
    \E i \in DOMAIN gl : /\ \E h \in Range(gl[i].hosts) : h.nqn = nqn
                         /\ Contains(gl[i].targets, target.id)

\* The same for an alias of a host.
indirect_shared_group(gl, target, alias) ==
    \E i \in DOMAIN gl : /\ \E h \in Range(gl[i].hosts) : h.alias = alias
                         /\ Contains(gl[i].targets, target.id)

\* What the REST interface shows of a host.
show_json_host(alias) ==
    get_host_subsystems(root, alias,
        {a \in Aliases(root.targets) :
            LET t == find_target(a)
            IN  t # 0 => \/ ~target_list[t].member
                         \/ indirect_shared_group(group_list, target_list[t], alias)})

-----------------------------------------------------------------------------
(* Hosts *)

\* Every subsystem of the list, target by target: <<target, subsystem>>.
SubsysIndexes(tl) ==
    FlattenSeq([i \in DOMAIN tl |-> [j \in DOMAIN tl[i].subsystems |-> <<i, j>>]])

add_host(alias) ==
    LET o == add_json_host(root, alias)
    IN  /\ root' = o.root
        /\ reply' = o.ret
        /\ notified' = {}
        /\ UNCHANGED <<lists, tree, life>>

\* Every subsystem with the host: the old nqn is unlinked, the new one linked,
\* and neither outcome is reported.
_update_host(w, ij, alias, newalias, nqn) ==
    LET mode == w.tl[ij[1]].mode
        sub  == w.tl[ij[1]].subsystems[ij[2]]
        h    == find_alias(sub.hosts, alias)
        old  == sub.hosts[h].nqn
    IN  IF h = 0 THEN w
        ELSE [tl |-> [w.tl EXCEPT ![ij[1]].subsystems[ij[2]].hosts[h] =
                         [alias |-> newalias, nqn |-> nqn]],
              x  |-> IF old = nqn THEN w.x
                     ELSE _link_host(SendAll(w.x, <<UnlinkHostMsg(mode, sub.nqn, old)>>),
                                     mode, sub.nqn, nqn)]

update_host(alias, data, fault) ==
    \E o \in {update_json_host(root, alias, data)} :
        /\ root' = o.root
        /\ reply' = o.ret
        /\ notified' = {}
        /\ UNCHANGED <<group_list, life>>
        /\ IF o.ret # "ok" THEN UNCHANGED <<target_list, tree>>
           ELSE \E junk \in Leftover :
                LET key == IF alias = NONE THEN o.alias ELSE alias
                    nqn == IF o.nqn = NONE THEN junk ELSE o.nqn
                IN  \E w \in {FoldLeft(
                                 LAMBDA v, ij : _update_host(v, ij, key, o.alias, nqn),
                                 [tl |-> target_list, x |-> Exchange(fault)],
                                 SubsysIndexes(target_list))} :
                        target_list' = w.tl /\ tree' = w.x.tree

\* One restricted subsystem of del_host: the host is unlinked and forgotten.
DelHostFromSubsys(w, i, j, alias) ==
    LET target == w.tl[i]
        sub    == target.subsystems[j]
        h      == find_alias(sub.hosts, alias)
    IN  IF ~is_restricted(sub) \/ h = 0 THEN w
        ELSE [tl   |-> [w.tl EXCEPT ![i].subsystems[j].hosts = RemoveAt(@, h)],
              x    |-> SendAll(w.x, <<UnlinkHostMsg(target.mode, sub.nqn,
                                                    sub.hosts[h].nqn)>>),
              root |-> del_json_acl(w.root, target.alias, sub.nqn, alias).root]

\* The status is that of the last target.
del_host(alias, fault) ==
    \E o \in {del_json_host(root, alias)} :
    LET dirty(i) == \E s \in Range(target_list[i].subsystems) : is_restricted(s)
        OfTarget(w, i) ==
            [FoldLeft(LAMBDA u, j : DelHostFromSubsys(u, i, j, alias),
                      w, [j \in DOMAIN w.tl[i].subsystems |-> j])
                EXCEPT !.x = IF dirty(i)
                             THEN SendAll(@, <<DelHostMsg(target_list[i].mode, o.nqn)>>)
                             ELSE [@ EXCEPT !.ok = TRUE]]
    IN  /\ notified' = {}
        /\ UNCHANGED <<group_list, life>>
        /\ IF o.ret # "ok"
           THEN root' = o.root /\ reply' = o.ret /\ UNCHANGED <<target_list, tree>>
           ELSE \E w \in {FoldLeft(OfTarget,
                                   [tl |-> target_list, x |-> Exchange(fault),
                                    root |-> o.root],
                                   [i \in DOMAIN target_list |-> i])} :
                /\ root' = w.root
                /\ target_list' = w.tl
                /\ Answered(w.x)

-----------------------------------------------------------------------------
(* Allowed hosts *)

\* The ports are linked before the host is on the list, so for a restricted
\* subsystem _link_portid declines.  A host that the list has is put at its
\* end again: the hosts after it are lost, or the list has no end.
link_host(tgt, subnqn, alias, fault) ==
    \E o \in {set_json_acl(root, tgt, subnqn, alias)} :
    LET t    == find_target(tgt)
        tg   == target_list[t]
        s    == find_subsys(tg, subnqn)
        sub  == tg.subsystems[s]
        h    == find_alias(sub.hosts, alias)
        host == [alias |-> alias, nqn |-> o.nqn]
        unlink == IF h = 0 THEN <<>>
                  ELSE <<UnlinkHostMsg(tg.mode, subnqn, sub.hosts[h].nqn)>>
        links  == IF sub.hosts # <<>> THEN <<>>
                  ELSE _link_portid(tg.mode, sub, tg.portids)
    IN  /\ root' = o.root
        /\ UNCHANGED group_list
        /\ IF o.ret # "ok" \/ t = 0
           THEN reply' = o.ret /\ notified' = {}
                /\ UNCHANGED <<target_list, tree, life>>
           ELSE IF s = 0
           THEN reply' = o.ret /\ notified' = {}
                /\ UNCHANGED <<target_list, tree, life>>
           ELSE /\ target_list' = [target_list EXCEPT ![t].subsystems[s].hosts =
                                      IF h = 0 THEN Append(@, host)
                                      ELSE Append(SubSeq(@, 1, h - 1), host)]
                /\ life' = IF h # 0 /\ h = Len(sub.hosts) THEN "looped" ELSE life
                /\ Answered(SendQuietly(_link_host(SendAll(Exchange(fault), unlink),
                                                   tg.mode, subnqn, o.nqn),
                                        links))
                /\ notified' = create_event_host_list_for_host(o.nqn)

\* The host entry of the machine is asked for by alias, and no failure of the
\* machine is reported.
unlink_host(tgt, subnqn, alias, fault) ==
    \E o \in {del_json_acl(root, tgt, subnqn, alias)} :
    LET t    == find_target(tgt)
        tg   == target_list[t]
        s    == find_subsys(tg, subnqn)
        sub  == tg.subsystems[s]
        h    == find_alias(sub.hosts, alias)
        tl   == [target_list EXCEPT ![t].subsystems[s].hosts = RemoveAt(@, h)]
        used == \E r \in Range(tl[t].subsystems) : find_alias(r.hosts, alias) # 0
        x    == SendAll(Exchange(fault),
                        <<UnlinkHostMsg(tg.mode, subnqn, sub.hosts[h].nqn)>>
                        \o IF used THEN <<>> ELSE <<DelHostMsg(tg.mode, alias)>>)
        found == IF o.ret # "ok" \/ t = 0 THEN FALSE
                 ELSE IF s = 0 THEN FALSE ELSE h # 0
    IN  /\ root' = o.root
        /\ reply' = o.ret
        /\ UNCHANGED <<group_list, life>>
        /\ IF found
           THEN /\ target_list' = tl
                /\ tree' = x.tree
                /\ notified' = create_event_host_list_for_host(sub.hosts[h].nqn)
           ELSE notified' = {} /\ UNCHANGED <<target_list, tree>>

-----------------------------------------------------------------------------
(* Subsystems *)

\* What follows the subsystem itself, if it succeeded: a host whose entry failed
\* is not linked, and no failure is reported.
config_subsys_rest(x, m, sub, portids) ==
    LET nss   == [i \in DOMAIN sub.nss |-> NsMsg(m, sub.nqn, sub.nss[i])]
        links == _link_portid(m, sub, portids)
    IN  IF ~x.ok THEN x
        ELSE [SendAll(FoldLeft(LAMBDA y, h : _link_host(y, m, sub.nqn, h.nqn),
                               SendAll(x, nss), sub.hosts),
                      links) EXCEPT !.ok = TRUE]

\* Every message of a subsystem out of band.  Only the first may fail.
config_subsys_oob(x, target, sub) ==
    config_subsys_rest(SendAll(x, <<SubsysMsg(target.mode, sub)>>),
                       target.mode, sub, target.portids)

\* In-band, the subsystem alone.  A subsystem open to all loses its hosts.
_config_subsys(x, target, sub) ==
    SendQuietly(IF target.mode = "oob" THEN config_subsys_oob(x, target, sub)
                ELSE SendAll(x, <<SubsysMsg(target.mode, sub)>>),
                IF is_restricted(sub) THEN <<>>
                ELSE [i \in DOMAIN sub.hosts |->
                         UnlinkHostMsg(target.mode, sub.nqn, sub.hosts[i].nqn)])
KeptSubsys(sub) == IF is_restricted(sub) THEN sub ELSE [sub EXCEPT !.hosts = <<>>]

\* A change of name or access deletes the subsystem on the machine and makes
\* it again.
set_subsys(alias, nqn, data, fault) ==
    \E o \in {set_json_subsys(root, alias, nqn, data)} :
    LET t   == find_target(alias)
        tg  == target_list[t]
        s   == IF nqn = NONE THEN Len(tg.subsystems) + 1 ELSE find_subsys(tg, nqn)
        old == tg.subsystems[s]
        changed == \/ o.nqn # NONE /\ nqn # o.nqn
                   \/ o.access # NONE /\ o.access # old.access
        new == IF nqn = NONE
               THEN [nqn |-> o.nqn, access |-> o.access, nss |-> <<>>, hosts |-> <<>>]
               ELSE [old EXCEPT !.nqn    = IF o.nqn # NONE THEN o.nqn ELSE @,
                                !.access = IF o.access # NONE THEN o.access ELSE @]
        sub == KeptSubsys(new)
        dels  == IF nqn = NONE \/ ~changed THEN <<>>
                 ELSE <<DelSubsysMsg(tg.mode, nqn)>>
                      \o IF is_restricted(new) THEN <<>>
                         ELSE [i \in DOMAIN new.hosts |->
                                  DelHostMsg(tg.mode, new.hosts[i].alias)]
        links == _link_portid(tg.mode, sub, tg.portids)
        lost == IF o.ret # "ok" \/ t = 0 THEN TRUE ELSE s = 0
    IN  /\ root' = o.root
        /\ UNCHANGED <<group_list, life>>
        /\ IF lost
           THEN /\ reply' = IF o.ret = "ok" THEN "ENOENT" ELSE o.ret
                /\ notified' = {}
                /\ UNCHANGED <<target_list, tree>>
           ELSE /\ target_list' = [target_list EXCEPT ![t].subsystems =
                                      IF nqn = NONE THEN Append(@, sub)
                                      ELSE ReplaceAt(@, s, sub)]
                /\ Answered(SendIfOk(_config_subsys(SendAll(Exchange(fault), dels),
                                                    tg, new),
                                     links))
                /\ notified' = create_event_host_list_for_subsys(sub)

del_subsys(alias, nqn, fault) ==
    \E o \in {del_json_subsys(root, alias, nqn)} :
    LET t == find_target(alias)
        s == find_subsys(target_list[t], nqn)
        x == SendAll(Exchange(fault), <<DelSubsysMsg(target_list[t].mode, nqn)>>)
        lost == IF o.ret # "ok" \/ t = 0 THEN TRUE ELSE s = 0
    IN  /\ root' = o.root
        /\ UNCHANGED <<group_list, life>>
        /\ IF lost THEN reply' = o.ret /\ notified' = {}
                        /\ UNCHANGED <<target_list, tree>>
           ELSE /\ target_list' = [target_list EXCEPT ![t].subsystems =
                                      RemoveAt(@, s)]
                /\ Answered(x)
                /\ notified' = create_event_host_list_for_subsys(
                                   target_list[t].subsystems[s])

-----------------------------------------------------------------------------
(* Ports *)

\* A body without an id leaves the id of the port as the stack has it.
set_portid(alias, id, data, fault) ==
    \E o \in {set_json_portid(root, alias, id, data)} :
    LET t  == find_target(alias)
        tg == target_list[t]
    IN  /\ root' = o.root
        /\ UNCHANGED <<group_list, life>>
        /\ IF o.ret # "ok" \/ t = 0
           THEN /\ reply' = IF o.ret = "ok" THEN "ENOENT" ELSE o.ret
                /\ notified' = {}
                /\ UNCHANGED <<target_list, tree>>
           ELSE \E stale \in StalePortIds :
                LET newid == IF o.id = NONE THEN stale ELSE o.id
                    key   == IF id = 0 THEN newid ELSE id
                    p     == find_portid(tg, key)
                    port  == [id |-> newid, addr |-> o.addr]
                    subs  == tg.subsystems
                    x1    == SendAll(Exchange(fault),
                                [i \in DOMAIN subs |->
                                    UnlinkPortMsg(tg.mode, subs[i].nqn, key)]
                                \o IF newid = key THEN <<>>
                                   ELSE <<DelPortMsg(tg.mode, key)>>)
                    links == FlattenSeq([i \in DOMAIN subs |->
                                 _link_portid(tg.mode, subs[i], <<port>>)])
                IN  /\ target_list' = [target_list EXCEPT ![t].portids =
                                          IF p = 0 THEN Append(@, port)
                                          ELSE ReplaceAt(@, p, port)]
                    /\ Answered(SendIfOk(SendAll(x1, <<PortMsg(tg.mode, port)>>), links))
                    /\ notified' = create_event_host_list_for_target(tg)

del_portid(alias, id, fault) ==
    \E o \in {del_json_portid(root, alias, id)} :
    LET t == find_target(alias)
        p == find_portid(target_list[t], id)
        x == SendAll(Exchange(fault), <<DelPortMsg(target_list[t].mode, id)>>)
        lost == IF o.ret # "ok" \/ t = 0 THEN TRUE ELSE p = 0
    IN  /\ root' = o.root
        /\ UNCHANGED <<group_list, life>>
        /\ IF lost THEN reply' = o.ret /\ notified' = {}
                        /\ UNCHANGED <<target_list, tree>>
           ELSE /\ target_list' = [target_list EXCEPT ![t].portids = RemoveAt(@, p)]
                /\ Answered(x)
                /\ notified' = create_event_host_list_for_target(target_list[t])

-----------------------------------------------------------------------------
(* Namespaces *)

\* The document has the namespace before its device is looked for.
set_ns(alias, nqn, data, fault) ==
    \E o \in {set_json_ns(root, alias, nqn, data)} :
    LET t  == find_target(alias)
        tg == target_list[t]
        s  == find_subsys(tg, nqn)
        ns == [id |-> data.id, dev |-> data.dev]
        n  == find_ns(tg.subsystems[s], data.id)
        x  == SendAll(Exchange(fault), <<NsMsg(tg.mode, nqn, ns)>>)
        unknown == tg.mode # "local" /\ data.dev \notin tg.devs
        early   == IF o.ret # "ok" \/ t = 0 THEN TRUE ELSE unknown \/ s = 0
    IN  /\ root' = o.root
        /\ notified' = {}
        /\ UNCHANGED <<group_list, life>>
        /\ IF early
           THEN /\ reply' = IF o.ret = "ok" /\ t # 0
                            THEN IF unknown THEN "ENOENT" ELSE "ok"
                            ELSE o.ret
                /\ UNCHANGED <<target_list, tree>>
           ELSE /\ target_list' = [target_list EXCEPT ![t].subsystems[s].nss =
                                      IF n = 0 THEN Append(@, ns)
                                      ELSE ReplaceAt(@, n, ns)]
                /\ Answered(x)

del_ns(alias, nqn, nsid, fault) ==
    \E o \in {del_json_ns(root, alias, nqn, nsid)} :
    LET t  == find_target(alias)
        tg == target_list[t]
        s  == find_subsys(tg, nqn)
        n  == find_ns(tg.subsystems[s], nsid)
        x  == SendAll(Exchange(fault), <<DelNsMsg(tg.mode, nqn, nsid)>>)
        lost == IF o.ret # "ok" \/ t = 0 THEN TRUE
                ELSE IF s = 0 THEN TRUE ELSE n = 0
    IN  /\ root' = o.root
        /\ notified' = {}
        /\ UNCHANGED <<group_list, life>>
        /\ IF lost THEN reply' = o.ret /\ UNCHANGED <<target_list, tree>>
           ELSE /\ target_list' = [target_list EXCEPT ![t].subsystems[s].nss =
                                      RemoveAt(@, n)]
                /\ Answered(x)

-----------------------------------------------------------------------------
(* Targets *)

alloc_target(a, alias) ==
    [id |-> a, alias |-> alias, mode |-> "local", refresh |-> 0, member |-> FALSE,
     portids |-> <<>>, subsystems |-> <<>>, devs |-> {}]

FreeAddresses(tl) == Addresses \ {tl[i].id : i \in DOMAIN tl}

add_target(alias) ==
    LET o == add_json_target(root, alias)
    IN  /\ root' = o.root
        /\ reply' = o.ret
        /\ notified' = {}
        /\ UNCHANGED <<group_list, tree, life>>
        /\ IF o.ret # "ok" THEN UNCHANGED target_list
           ELSE \E a \in FreeAddresses(target_list) :
                    target_list' = Append(target_list, alloc_target(a, alias))

\* Ask the machine for its devices, then for its interfaces; the devices stay if
\* the second fails.  In-band, each device that is new to the target replaces the
\* devices of the document.
get_config(x, target, doc) ==
    LET k    == x.n + 1
        fails(n) == \/ Gone(x.fault, n)
                    \/ x.fault.kind = "unanswered" /\ n = x.fault.at
        new  == SelectSeq(Devices, LAMBDA d : d \notin target.devs)
    IN  IF target.mode = "local"
        THEN [x |-> [x EXCEPT !.ok = TRUE], target |-> target, root |-> doc]
        ELSE IF fails(k)
        THEN [x |-> [x EXCEPT !.n = k, !.ok = FALSE], target |-> target, root |-> doc]
        ELSE [x      |-> [x EXCEPT !.n = k + 1, !.ok = ~fails(k + 1)],
              target |-> [target EXCEPT !.devs = Range(Devices)],
              root   |-> IF target.mode = "oob"
                         THEN set_json_oob_nsdevs(doc, target.alias, Devices)
                         ELSE FoldLeft(LAMBDA r, d :
                                          set_json_inb_nsdev(r, target.alias, d),
                                       doc, new)]

\* Mutated: the alias is not copied.
UpdatedTargetSameName(target, o) ==
    [target EXCEPT !.mode = o.mode, !.refresh = o.refresh]

\* What update_target copies from the outcome of update_json_target.
UpdatedTarget(target, o) ==
    [target EXCEPT !.alias = o.alias, !.mode = o.mode, !.refresh = o.refresh]

\* A body that does not name the mode makes it local.
update_target(alias, data, fault) ==
    \E o \in {update_json_target(root, alias, data)} :
    LET t == find_target(alias)
        Put(tl, i) ==
            \E g \in {get_config(Exchange(fault), UpdatedTarget(tl[i], o), o.root)} :
                /\ root' = g.root
                /\ target_list' = [tl EXCEPT ![i] = g.target]
                /\ reply' = Status(g.x.ok)
                /\ notified' = create_event_host_list_for_target(g.target)
    IN  /\ UNCHANGED <<group_list, tree, life>>
        /\ IF o.ret # "ok" \/ (alias # NONE /\ t = 0)
           THEN /\ root' = o.root
                /\ reply' = IF o.ret = "ok" THEN "EFAULT" ELSE o.ret
                /\ notified' = {}
                /\ UNCHANGED target_list
           ELSE IF alias # NONE THEN Put(target_list, t)
           ELSE \E a \in FreeAddresses(target_list) :
                    Put(Append(target_list, alloc_target(a, o.alias)),
                        Len(target_list) + 1)

\* The links of the groups to the target stay.  Host entries are asked for by
\* alias; no failure is reported.
del_target(alias, fault) ==
    \E o \in {del_json_target(root, alias)} :
    LET t    == find_target(alias)
        tg   == target_list[t]
        OfSubsys(sub) == <<DelSubsysMsg(tg.mode, sub.nqn)>>
                         \o [i \in DOMAIN sub.hosts |->
                                DelHostMsg(tg.mode, sub.hosts[i].alias)]
        msgs == FlattenSeq([i \in DOMAIN tg.subsystems |-> OfSubsys(tg.subsystems[i])])
                \o [i \in DOMAIN tg.portids |-> DelPortMsg(tg.mode, tg.portids[i].id)]
    IN  /\ root' = o.root
        /\ reply' = o.ret
        /\ UNCHANGED <<group_list, life>>
        /\ IF o.ret # "ok" \/ t = 0
           THEN notified' = {} /\ UNCHANGED <<target_list, tree>>
           ELSE /\ target_list' = RemoveAt(target_list, t)
                /\ tree' = SendAll(Exchange(fault), msgs).tree
                /\ notified' = create_event_host_list_for_target(tg)

\* Everything dem has of the target, up to the first failure.
config_target_inb(x, target) ==
    LET m == target.mode
        OfSubsys(sub) ==
            <<SubsysMsg(m, sub)>>
            \o (IF ~is_restricted(sub) THEN <<>>
                ELSE FlattenSeq([i \in DOMAIN sub.hosts |->
                         <<HostMsg(m, sub.hosts[i].nqn),
                           LinkHostMsg(m, sub.nqn, sub.hosts[i].nqn)>>]))
            \o [i \in DOMAIN sub.nss |-> NsMsg(m, sub.nqn, sub.nss[i])]
            \o _link_portid(m, sub, target.portids)
    IN  SendUntilError(x,
            [i \in DOMAIN target.portids |-> PortMsg(m, target.portids[i])]
            \o FlattenSeq([i \in DOMAIN target.subsystems |->
                              OfSubsys(target.subsystems[i])]))

config_target_oob(x, target) ==
    FoldLeft(LAMBDA y, s : IF y.ok THEN config_subsys_oob(y, target, s) ELSE y,
             SendUntilError(x, [i \in DOMAIN target.portids |->
                                   PortMsg(target.mode, target.portids[i])]),
             target.subsystems)

config_target(x, target) ==
    CASE target.mode = "inb" -> config_target_inb(x, target)
      [] target.mode = "oob" -> config_target_oob(x, target)
      [] OTHER -> [x EXCEPT !.ok = TRUE]

\* The log pages are fetched again: see DiscoveryQueues.tla.
target_refresh(alias) ==
    /\ reply' = IF find_target(alias) = 0 THEN "ENOENT" ELSE "ok"
    /\ notified' = {}
    /\ UNCHANGED <<root, lists, tree, life>>

\* Whether the machine was reset is not looked at.
target_reconfig(alias, fault) ==
    LET t == find_target(alias)
    IN  /\ notified' = {}
        /\ UNCHANGED <<root, lists, life>>
        /\ IF t = 0 THEN reply' = "ENOENT" /\ UNCHANGED tree
           ELSE Answered(config_target(
                             SendAll(Exchange(fault), <<ResetMsg(target_list[t].mode)>>),
                             target_list[t]))

-----------------------------------------------------------------------------
(* dem starts: the lists are built from the file, then every target that   *)
(* is not local is asked for its devices and configured.                   *)

\* In the order of the hosts of the document; a host without a nqn is left out.
check_hosts(acl, hosts) ==
    SelectSeq(hosts, LAMBDA h : h.nqn # NONE /\ Contains(acl, h.alias))

\* A subsystem without AllowAny is restricted.
check_subsystems(subsystems, hosts) ==
    [i \in DOMAIN subsystems |->
        LET s      == subsystems[i]
            access == IF s.access = NONE THEN "restricted" ELSE s.access
        IN  [nqn |-> s.nqn, access |-> access, nss |-> s.nsids,
             hosts |-> IF access = "restricted" THEN check_hosts(s.hosts, hosts)
                       ELSE <<>>]]

\* An in-band target without an interface becomes local; an out-of-band one is
\* on the list before its interface is looked for, and stays there empty.
add_to_target_list(doc, hosts, a) ==
    LET mode == get_mgmt_mode(doc.mode)
        new  == [alloc_target(a, doc.alias) EXCEPT
                    !.mode = IF mode = "inb" /\ ~doc.iface THEN "local" ELSE mode]
    IN  IF mode = "oob" /\ ~doc.iface THEN new
        ELSE [new EXCEPT !.refresh    = IF doc.refresh = NONE THEN 0 ELSE doc.refresh,
                         !.subsystems = check_subsystems(doc.subsystems, hosts),
                         !.portids    = doc.portids]

\* The ports of an out-of-band target that failed are added through a null
\* pointer.
NullTarget(doc) ==
    get_mgmt_mode(doc.mode) = "oob" /\ ~doc.iface /\ doc.portids # <<>>

build_target_list(doc, addresses) ==
    [i \in DOMAIN doc.targets |->
        LET tg == doc.targets[i]
        IN  [add_to_target_list(tg, doc.hosts, addresses[i]) EXCEPT
                !.member = \E g \in Range(doc.groups) : Contains(g.targets, tg.alias)]]

build_group_list(doc, tl, junk) ==
    [i \in DOMAIN doc.groups |->
        LET g == doc.groups[i]
            withTargets == FoldLeft(LAMBDA v, a : add_target_to_group(v, tl, a),
                                    init_group(g.name), g.targets)
        IN  FoldLeft(LAMBDA v, a : add_host_to_group(v, a, junk, doc),
                     withTargets, g.hosts)]

\* One target after the other.
init_targets(x, tl, doc) ==
    LET Step(w, i) ==
            LET g == get_config(w.x, w.tl[i], w.root)
            IN  [x    |-> IF g.x.ok THEN config_target(g.x, g.target) ELSE g.x,
                 tl   |-> [w.tl EXCEPT ![i] = g.target],
                 root |-> g.root]
    IN  FoldLeft(Step, [x |-> x, tl |-> tl, root |-> doc], [i \in DOMAIN tl |-> i])

\* A start from a file, the targets at the given addresses.
Started(doc, addresses, x) == init_targets(x, build_target_list(doc, addresses), doc)

Placements(doc) ==
    {f \in [DOMAIN doc.targets -> Addresses] : IsInjective(f)}

\* dem stops, or dies, and starts again; the machine keeps what it has.
Restart(fault) ==
    \E junk \in Leftover, addresses \in Placements(file) :
    \E w \in {Started(file, addresses, Exchange(fault))} :
        /\ notified' = {}
        /\ reply' = "start"
        /\ UNCHANGED file
        /\ IF \E tg \in Range(file.targets) : NullTarget(tg)
           THEN /\ life' = "crashed"
                /\ UNCHANGED <<root, lists, tree>>
           ELSE /\ life' = "up"
                /\ root' = w.root
                /\ target_list' = w.tl
                /\ group_list' = build_group_list(file, w.tl, junk)
                /\ tree' = w.x.tree
===============================================================================
