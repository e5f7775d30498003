--------------------------------- MODULE Cli ---------------------------------
(***************************************************************************)
(* The commands of dem-cli (cli/cli.c): the request that each one sends to *)
(* dem.  A request has a method, the parts of its path and a body; a body  *)
(* has the tags that the command prints, the others are absent (NONE).     *)
(* Commands that take a list of names send one request for each.           *)
(*                                                                         *)
(* "alias" is Alias or Name, "nqn" SUBNQN or HOSTNQN, "access" AllowAny,   *)
(* "id" PortID or NSID, "addr" the transport type, family, address and     *)
(* service id, "dev" the device and its namespace id, "iface" tells        *)
(* whether there is an Interface object.                                   *)
(***************************************************************************)
EXTENDS Sequences

CONSTANT NONE

Tags == [alias |-> NONE, nqn |-> NONE, access |-> NONE, id |-> NONE,
         addr |-> NONE, dev |-> NONE, mode |-> NONE, refresh |-> NONE,
         iface |-> FALSE]

exec_put(uri, body)   == [method |-> "PUT",    uri |-> uri, body |-> body]
exec_patch(uri, body) == [method |-> "PATCH",  uri |-> uri, body |-> body]
exec_post(uri)        == [method |-> "POST",   uri |-> uri, body |-> NONE]
exec_delete(uri)      == [method |-> "DELETE", uri |-> uri, body |-> NONE]

-----------------------------------------------------------------------------
(* Groups and the links to them *)

add_group(name) == exec_post(<<"group", name>>)
set_group(name) == exec_put(<<"group">>, [Tags EXCEPT !.alias = name])
del_group(name) == exec_delete(<<"group", name>>)
rename_group(old, new) ==
    exec_patch(<<"group", old>>, [Tags EXCEPT !.alias = new])

link_target(alias, group)   == exec_post(<<"group", group, "target", alias>>)
unlink_target(alias, group) == exec_delete(<<"group", group, "target", alias>>)
link_host(alias, group)     == exec_post(<<"group", group, "host", alias>>)
unlink_host(alias, group)   == exec_delete(<<"group", group, "host", alias>>)

-----------------------------------------------------------------------------
(* Targets *)

add_target(alias) == exec_post(<<"target", alias>>)
set_target(alias) == exec_put(<<"target">>, [Tags EXCEPT !.alias = alias])
del_target(alias) == exec_delete(<<"target", alias>>)
rename_target(old, new) ==
    exec_patch(<<"target", old>>, [Tags EXCEPT !.alias = new])
set_inb_mgmt(alias) ==
    exec_patch(<<"target", alias>>, [Tags EXCEPT !.mode = "inb",
                                                 !.iface = TRUE])
set_oob_mgmt(alias) ==
    exec_patch(<<"target", alias>>, [Tags EXCEPT !.mode = "oob",
                                                 !.iface = TRUE])
set_local_mgmt(alias) ==
    exec_patch(<<"target", alias>>, [Tags EXCEPT !.mode = "local"])
set_refresh(alias, refresh) ==
    exec_patch(<<"target", alias>>, [Tags EXCEPT !.refresh = refresh])
reconfig_target(alias) == exec_post(<<"target", alias, "reconfig">>)
refresh_target(alias)  == exec_post(<<"target", alias, "refresh">>)

-----------------------------------------------------------------------------
(* Subsystems, ports, allowed hosts, namespaces *)

add_subsys(alias, nqn) == exec_post(<<"target", alias, "subsystem", nqn>>)
set_subsys(alias, nqn, access) ==
    exec_put(<<"target", alias, "subsystem">>,
             [Tags EXCEPT !.nqn = nqn, !.access = access])
edit_subsys(alias, nqn, access) ==
    exec_put(<<"target", alias, "subsystem", nqn>>,
             [Tags EXCEPT !.access = access])
del_subsys(alias, nqn) == exec_delete(<<"target", alias, "subsystem", nqn>>)
rename_subsys(alias, old, new) ==
    exec_patch(<<"target", alias, "subsystem", old>>,
               [Tags EXCEPT !.nqn = new])

set_portid(alias, id, addr) ==
    exec_put(<<"target", alias, "portid">>,
             [Tags EXCEPT !.id = id, !.addr = addr])
edit_portid(alias, id, addr) ==
    exec_put(<<"target", alias, "portid", id>>, [Tags EXCEPT !.addr = addr])
del_portid(alias, id) == exec_delete(<<"target", alias, "portid", id>>)

set_acl(alias, nqn, host) ==
    exec_put(<<"target", alias, "subsystem", nqn, "host">>,
             [Tags EXCEPT !.alias = host])
del_acl(alias, nqn, host) ==
    exec_delete(<<"target", alias, "subsystem", nqn, "host", host>>)

set_ns(alias, nqn, nsid, dev) ==
    exec_put(<<"target", alias, "subsystem", nqn, "nsid">>,
             [Tags EXCEPT !.id = nsid, !.dev = dev])
del_ns(alias, nqn, nsid) ==
    exec_delete(<<"target", alias, "subsystem", nqn, "nsid", nsid>>)

-----------------------------------------------------------------------------
(* Hosts *)

add_host(alias) == exec_post(<<"host", alias>>)
set_host(alias, nqn) ==
    exec_put(<<"host">>, [Tags EXCEPT !.alias = alias, !.nqn = nqn])
edit_host(alias, nqn) ==
    exec_put(<<"host", alias>>, [Tags EXCEPT !.nqn = nqn])
del_host(alias) == exec_delete(<<"host", alias>>)
rename_host(old, new) ==
    exec_patch(<<"host", old>>, [Tags EXCEPT !.alias = new])
==============================================================================
