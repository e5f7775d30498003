------------------------------- MODULE Endpoint -------------------------------
(***************************************************************************)
(* How the endpoint manager (dem-em) carries out the management commands   *)
(* of dem: the in-band ones (endpoint/pseudo_target.c) and the requests of *)
(* its REST interface (endpoint/restful.c).  A handler is an operator from *)
(* the tree and a command to the new tree and whether it reports success.  *)
(*                                                                         *)
(* "addr" stands for type, family, address and service id of a port, "dev" *)
(* for the device id and the namespace id on the device.  A tag missing    *)
(* from a body is NONE.  The REST interface finds the name of a thing in   *)
(* the path or, where the path has none, in the body.                      *)
(***************************************************************************)
EXTENDS Configfs

CONSTANT NONE

MIN_PORTID == 1
MAX_PORTID == 65534    \* 0xfffe

-----------------------------------------------------------------------------
(* In-band commands: the entry e of the command, and the ops call.          *)

mi_set_portid(t, e)    == create_portid(t, e.portid, e.addr)
mi_del_portid(t, e)    == delete_portid(t, e.portid)
mi_set_subsys(t, e)    == create_subsys(t, e.nqn, e.allowany)
mi_del_subsys(t, e)    == delete_subsys(t, e.nqn)
mi_set_ns(t, e)        == create_ns(t, e.nqn, e.nsid, e.dev)
mi_del_ns(t, e)        == delete_ns(t, e.nqn, e.nsid)
mi_set_host(t, e)      == create_host(t, e.host)
mi_del_host(t, e)      == delete_host(t, e.host)
mi_link_portid(t, e)   == link_port_to_subsys(t, e.nqn, e.portid)
mi_unlink_portid(t, e) == unlink_port_from_subsys(t, e.nqn, e.portid)
mi_link_host(t, e)     == link_host_to_subsys(t, e.nqn, e.host)
mi_unlink_host(t, e)   == unlink_host_from_subsys(t, e.nqn, e.host)

\* c is <<function code, entry>>.  An entry that cannot be read from the other side
\* (rma_read) is a command that was lost.
handle_mi_send(t, c) ==
    CASE c[1] = "reset_config" -> reset_config(t)
      [] c[1] = "set_port"     -> mi_set_portid(t, c[2])
      [] c[1] = "del_port"     -> mi_del_portid(t, c[2])
      [] c[1] = "link_port"    -> mi_link_portid(t, c[2])
      [] c[1] = "unlink_port"  -> mi_unlink_portid(t, c[2])
      [] c[1] = "set_subsys"   -> mi_set_subsys(t, c[2])
      [] c[1] = "del_subsys"   -> mi_del_subsys(t, c[2])
      [] c[1] = "set_ns"       -> mi_set_ns(t, c[2])
      [] c[1] = "del_ns"       -> mi_del_ns(t, c[2])
      [] c[1] = "set_host"     -> mi_set_host(t, c[2])
      [] c[1] = "del_host"     -> mi_del_host(t, c[2])
      [] c[1] = "link_host"    -> mi_link_host(t, c[2])
      [] c[1] = "unlink_host"  -> mi_unlink_host(t, c[2])
      [] OTHER                 -> Refuse(t)

-----------------------------------------------------------------------------
(* REST requests: a method, the parts of the path and a body.               *)

post_portid(t, port, body) ==
    IF port \notin MIN_PORTID..MAX_PORTID \/ body.addr = NONE THEN Refuse(t)
    ELSE create_portid(t, port, body.addr)

\* subsys is NONE where only the body names it.
post_subsys(t, subsys, body) ==
    LET nqn == IF subsys # NONE THEN subsys ELSE body.nqn
    IN  IF nqn = NONE THEN Refuse(t) ELSE create_subsys(t, nqn, body.allowany)

post_ns(t, subsys, ns, body) ==
    LET nsid == IF ns # NONE THEN ns ELSE body.nsid
    IN  IF nsid = NONE \/ body.dev = NONE THEN Refuse(t)
        ELSE create_ns(t, subsys, nsid, body.dev)

post_host(t, body) ==
    IF body.host = NONE THEN Refuse(t) ELSE create_host(t, body.host)

link_host(t, subsys, body) ==
    IF body.host = NONE THEN Refuse(t)
    ELSE link_host_to_subsys(t, subsys, body.host)

link_portid(t, subsys, body) ==
    IF body.portid = NONE THEN Refuse(t)
    ELSE link_port_to_subsys(t, subsys, body.portid)

\* A request without a body can only ask dem-em to stop, which leaves the tree
\* alone.  Of POST portid without an id nothing comes back either: the handler
\* converts the id it was not given (atoi(NULL)) and the process is gone.
post_request(t, p, body) ==
    LET n == Len(p)
    IN  IF body = NONE THEN IF p = <<"shutdown">> THEN Ok(t) ELSE Refuse(t)
        ELSE
        CASE n = 1 /\ p[1] = "subsystem" -> post_subsys(t, NONE, body)
          [] n = 1 /\ p[1] = "host"      -> post_host(t, body)
          [] n = 2 /\ p[1] = "subsystem" -> post_subsys(t, p[2], body)
          [] n = 2 /\ p[1] = "portid"    -> post_portid(t, p[2], body)
          [] n = 3 /\ p[1] = "subsystem" /\ p[3] = "namespace" ->
                 post_ns(t, p[2], NONE, body)
          [] n = 3 /\ p[1] = "subsystem" /\ p[3] = "host" ->
                 link_host(t, p[2], body)
          [] n = 3 /\ p[1] = "subsystem" /\ p[3] = "portid" ->
                 link_portid(t, p[2], body)
          [] n = 4 /\ p[1] = "subsystem" /\ p[3] = "namespace" ->
                 post_ns(t, p[2], p[4], body)
          [] OTHER -> Refuse(t)

del_portid(t, port)            == delete_portid(t, port)
del_subsys(t, subsys)          == delete_subsys(t, subsys)
del_ns(t, subsys, ns)          == delete_ns(t, subsys, ns)
del_host(t, host)              == delete_host(t, host)
unlink_host(t, subsys, host)   == unlink_host_from_subsys(t, subsys, host)
unlink_portid(t, subsys, port) == unlink_port_from_subsys(t, subsys, port)

delete_request(t, p) ==
    LET n == Len(p)
    IN  CASE n = 1 /\ p[1] = "config"    -> reset_config(t)
          [] n = 2 /\ p[1] = "subsystem" -> del_subsys(t, p[2])
          [] n = 2 /\ p[1] = "portid"    -> del_portid(t, p[2])
          [] n = 2 /\ p[1] = "host"      -> del_host(t, p[2])
          [] n = 4 /\ p[1] = "subsystem" /\ p[3] = "namespace" ->
                 del_ns(t, p[2], p[4])
          [] n = 4 /\ p[1] = "subsystem" /\ p[3] = "portid" ->
                 unlink_portid(t, p[2], p[4])
          [] n = 4 /\ p[1] = "subsystem" /\ p[3] = "host" ->
                 unlink_host(t, p[2], p[4])
          [] OTHER -> Refuse(t)

\* r is <<method, path, body>>.
handle_target_requests(t, r) ==
    IF r[1] = "POST" THEN post_request(t, r[2], r[3])
    ELSE IF r[1] = "DELETE" THEN delete_request(t, r[2])
    ELSE Refuse(t)
===============================================================================
