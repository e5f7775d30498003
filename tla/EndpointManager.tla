--------------------------- MODULE EndpointManager ---------------------------
(***************************************************************************)
(* The operations of endpoint/configfs.c as the system calls they are made *)
(* of.  They name files relative to the working directory, which belongs   *)
(* to the process: each operation moves it and then moves it back.  dem-em *)
(* carries out the commands of the in-band interface in a host_thread and  *)
(* those of the REST interface in its main thread, without a lock between  *)
(* them (endpoint/daemon.c, main).                                         *)
(*                                                                         *)
(* A path below the nvmet directory is a sequence of names, <<>> is that   *)
(* directory, and Home is where dem-em was started.  The five attributes   *)
(* of a port are one, and the enable file of a namespace is left out.      *)
(***************************************************************************)
EXTENDS Configfs

CONSTANTS
    Threads,
    Subsystems, Hosts, Ports, Nsids, Addrs, Devs,
    Home,
    Ops,       \* operations that may be asked for
    MaxOps     \* bound: operations that are asked for

\* dem-em is started outside the nvmet directory.
ASSUME HomeAssumption ==
    Home = <<Home[1]>> /\ Home[1] \notin {"subsystems", "ports", "hosts"}

VARIABLES
    tree,
    cwd,      \* the working directory of the process
    thread,   \* what each thread is doing
    ops       \* operations that may still be asked for

vars == <<tree, cwd, thread, ops>>

Idle == [op |-> <<>>, code |-> <<>>, saved |-> <<>>, exists |-> FALSE,
         ok |-> TRUE, before |-> EmptyTree]

\* What may be asked for.
AllOps ==
         {<<"create_subsys", s, any>> : s \in Subsystems, any \in BOOLEAN}
    \cup {<<"delete_subsys", s>> : s \in Subsystems}
    \cup {<<"create_ns", s, n, d>> : s \in Subsystems, n \in Nsids, d \in Devs}
    \cup {<<"delete_ns", s, n>> : s \in Subsystems, n \in Nsids}
    \cup {<<"create_host", h>> : h \in Hosts} \cup {<<"delete_host", h>> : h \in Hosts}
    \cup {<<"create_portid", p, a>> : p \in Ports, a \in Addrs}
    \cup {<<"delete_portid", p>> : p \in Ports}
    \cup {<<"link_host", s, h>> : s \in Subsystems, h \in Hosts}
    \cup {<<"unlink_host", s, h>> : s \in Subsystems, h \in Hosts}
    \cup {<<"link_port", s, p>> : s \in Subsystems, p \in Ports}
    \cup {<<"unlink_port", s, p>> : s \in Subsystems, p \in Ports}
    \cup {<<"reset_config">>}

ASSUME OpsAssumption == Ops \subseteq AllOps

\* What an operation does if nothing comes between its system calls.
Alone(t, op) ==
    CASE op[1] = "create_subsys" -> create_subsys(t, op[2], op[3])
      [] op[1] = "delete_subsys" -> delete_subsys(t, op[2])
      [] op[1] = "create_ns"     -> create_ns(t, op[2], op[3], op[4])
      [] op[1] = "delete_ns"     -> delete_ns(t, op[2], op[3])
      [] op[1] = "create_host"   -> create_host(t, op[2])
      [] op[1] = "delete_host"   -> delete_host(t, op[2])
      [] op[1] = "create_portid" -> create_portid(t, op[2], op[3])
      [] op[1] = "delete_portid" -> delete_portid(t, op[2])
      [] op[1] = "link_host"     -> link_host_to_subsys(t, op[2], op[3])
      [] op[1] = "unlink_host"   -> unlink_host_from_subsys(t, op[2], op[3])
      [] op[1] = "link_port"     -> link_port_to_subsys(t, op[2], op[3])
      [] op[1] = "unlink_port"   -> unlink_port_from_subsys(t, op[2], op[3])
      [] op[1] = "reset_config"  -> reset_config(t)

-----------------------------------------------------------------------------
(* The operations: sequences of <<system call, path or argument, ...>>.     *)

Start == <<"getcwd">>
Back  == <<"back">>

DeleteSubsys(s) ==
    <<Start, <<"enter", <<"subsystems", s>>>>,
      <<"opendir_hosts">>, <<"opendir_ns">>,
      <<"chdir_abs", <<>>>>, <<"opendir_ports", s>>,
      <<"chdir_abs", <<"subsystems">>>>, <<"rmdir", <<s>>>>, Back>>

DeletePortid(p) ==
    <<Start, <<"enter", <<"ports">>>>, <<"opendir_links", p>>, <<"rmdir", <<p>>>>, Back>>

DeleteHost(h) ==
    <<Start, <<"enter", <<"hosts">>>>, <<"rmdir", <<h>>>>, Back>>

\* Mutated: the namespace is left with one step too few.
DeleteNsShort(s, n) ==
    <<Start, <<"enter", <<"subsystems">>>>,
      <<"chdir_out", <<s, "namespaces", n>>>>,
      <<"chdir_up", 2>>, <<"rmdir", <<s, "namespaces", n>>>>, Back>>

DeleteNs(s, n) ==
    <<Start, <<"enter", <<"subsystems">>>>,
      <<"chdir_out", <<s, "namespaces", n>>>>,
      <<"chdir_up", 3>>, <<"rmdir", <<s, "namespaces", n>>>>, Back>>

CreateHost(h) == <<Start, <<"enter", <<"hosts">>>>, <<"mkdir", <<h>>>>, Back>>

CreateSubsys(s, any) ==
    <<Start, <<"enter", <<"subsystems">>>>, <<"mkdir", <<s>>>>,
      <<"chdir", <<s>>>>, <<"write_any", any>>, Back>>

CreateNs(s, n, dev) ==
    <<Start, <<"enter", <<"subsystems">>>>, <<"mkdir", <<s, "namespaces", n>>>>,
      <<"chdir", <<s, "namespaces", n>>>>, <<"write_dev", dev>>, Back>>

CreatePortid(p, addr) ==
    <<Start, <<"enter", <<"ports">>>>, <<"mkdir", <<p>>>>,
      <<"chdir", <<p>>>>, <<"write_addr", addr>>, <<"read_addr", addr>>, Back>>

LinkHost(s, h) ==
    <<Start, <<"enter", <<"subsystems">>>>,
      <<"symlink", <<s, "allowed_hosts", h>>, <<"hosts", h>>>>, Back>>

UnlinkHost(s, h) ==
    <<Start, <<"enter", <<"subsystems">>>>, <<"remove", <<s, "allowed_hosts", h>>>>, Back>>

LinkPort(s, p) ==
    <<Start, <<"enter", <<"ports">>>>,
      <<"symlink", <<p, "subsystems", s>>, <<"subsystems", s>>>>, Back>>

UnlinkPort(s, p) ==
    <<Start, <<"enter", <<"ports">>>>, <<"remove", <<p, "subsystems", s>>>>, Back>>

ResetConfig ==
    <<Start, <<"enter", <<>>>>, <<"opendir_subsystems">>,
      <<"opendir_all_ports">>, <<"opendir_all_hosts">>, Back>>

CodeOf(op) ==
    CASE op[1] = "create_subsys" -> CreateSubsys(op[2], op[3])
      [] op[1] = "delete_subsys" -> DeleteSubsys(op[2])
      [] op[1] = "create_ns"     -> CreateNs(op[2], op[3], op[4])
      [] op[1] = "delete_ns"     -> DeleteNs(op[2], op[3])
      [] op[1] = "create_host"   -> CreateHost(op[2])
      [] op[1] = "delete_host"   -> DeleteHost(op[2])
      [] op[1] = "create_portid" -> CreatePortid(op[2], op[3])
      [] op[1] = "delete_portid" -> DeletePortid(op[2])
      [] op[1] = "link_host"     -> LinkHost(op[2], op[3])
      [] op[1] = "unlink_host"   -> UnlinkHost(op[2], op[3])
      [] op[1] = "link_port"     -> LinkPort(op[2], op[3])
      [] op[1] = "unlink_port"   -> UnlinkPort(op[2], op[3])
      [] op[1] = "reset_config"  -> ResetConfig

-----------------------------------------------------------------------------
(* The file system of the kernel.                                           *)

Top == {<<>>, Home, <<"subsystems">>, <<"ports">>, <<"hosts">>}

Dirs(t) == Top \cup {<<"subsystems", s>> : s \in t.subsys}
               \cup {<<"subsystems", n[1], "namespaces", n[2]>> : n \in t.ns}
               \cup {<<"ports", p[1]>> : p \in t.ports}
               \cup {<<"hosts", h>> : h \in t.hosts}

\* A directory with any name can be made among the subsystems and the hosts.
\* The names of ports and namespaces are numbers.
CanMake(t, p) ==
    \/ Len(p) = 2 /\ p[1] \in {"subsystems", "hosts"}
    \/ Len(p) = 2 /\ p[1] = "ports" /\ p[2] \in Ports
    \/ Len(p) = 4 /\ p[1] = "subsystems" /\ p[2] \in t.subsys /\ p[3] = "namespaces"

Made(t, p) ==
    IF Len(p) = 4 THEN [t EXCEPT !.ns = @ \cup {<<p[2], p[4], Unset>>}]
    ELSE CASE p[1] = "subsystems" -> [t EXCEPT !.subsys = @ \cup {p[2]}]
           [] p[1] = "hosts"      -> [t EXCEPT !.hosts = @ \cup {p[2]}]
           [] p[1] = "ports"      -> [t EXCEPT !.ports = @ \cup {<<p[2], Unset>>}]

\* Neither a directory with something in it nor one with links to it goes.
Removed(t, p) ==
    IF p \notin Dirs(t) \ Top THEN t ELSE
    CASE Len(p) = 4 -> [t EXCEPT !.ns = {n \in @ : <<n[1], n[2]>> # <<p[2], p[4]>>}]
      [] Len(p) = 2 /\ p[1] = "subsystems" ->
             IF \/ \E n \in t.ns : n[1] = p[2]
                \/ \E a \in t.allowed : a[1] = p[2]
                \/ \E l \in t.links : l[2] = p[2]
             THEN t
             ELSE [t EXCEPT !.subsys = @ \ {p[2]}, !.any = @ \ {p[2]}]
      [] Len(p) = 2 /\ p[1] = "hosts" ->
             IF \E a \in t.allowed : a[2] = p[2] THEN t
             ELSE [t EXCEPT !.hosts = @ \ {p[2]}]
      [] Len(p) = 2 /\ p[1] = "ports" ->
             IF InUse(t, p[2]) THEN t
             ELSE [t EXCEPT !.ports = {q \in @ : q[1] # p[2]}]

IsLink(p) == Len(p) = 4 /\ \/ p[1] = "subsystems" /\ p[3] = "allowed_hosts"
                           \/ p[1] = "ports" /\ p[3] = "subsystems"

CanLink(t, p, to) == IsLink(p) /\ {<<p[1], p[2]>>, to} \subseteq Dirs(t)

Linked(t, p) ==
    IF p[1] = "ports" THEN [t EXCEPT !.links = @ \cup {<<p[2], p[4]>>}]
    ELSE [t EXCEPT !.allowed = @ \cup {<<p[2], p[4]>>}]

Unlinked(t, p) ==
    CASE IsLink(p) /\ p[1] = "ports" -> [t EXCEPT !.links = @ \ {<<p[2], p[4]>>}]
      [] IsLink(p) /\ p[1] # "ports" -> [t EXCEPT !.allowed = @ \ {<<p[2], p[4]>>}]
      [] OTHER                       -> t

\* Writing to a file of the working directory: only what is there takes it.
Wrote(t, d, what, val) ==
    IF d \notin Dirs(t) THEN t ELSE
    CASE what = "write_any" /\ Len(d) = 2 /\ d[1] = "subsystems" ->
             [t EXCEPT !.any = IF val THEN @ \cup {d[2]} ELSE @ \ {d[2]}]
      [] what = "write_dev" /\ Len(d) = 4 /\ ~Enabled(t, d[2], d[4]) ->
             [t EXCEPT !.ns = {n \in @ : <<n[1], n[2]>> # <<d[2], d[4]>>}
                                 \cup {<<d[2], d[4], val>>}]
      [] what = "write_addr" /\ Len(d) = 2 /\ d[1] = "ports" /\ ~InUse(t, d[2]) ->
             [t EXCEPT !.ports = {p \in @ : p[1] # d[2]} \cup {<<d[2], val>>}]
      [] OTHER -> t

-----------------------------------------------------------------------------
(* The steps.                                                               *)

\* goto out: the rest up to the chdir back is left out.
SkipToBack(code) ==
    SubSeq(code, CHOOSE i \in 1..Len(code) :
                     code[i] = Back /\ \A j \in 1..(i - 1) : code[j] # Back, Len(code))

Request(i) ==
    /\ thread[i].op = <<>> /\ ops > 0
    /\ \E op \in Ops :
          thread' = [thread EXCEPT ![i] = [Idle EXCEPT !.op = op, !.code = CodeOf(op),
                                                       !.before = tree]]
    /\ ops' = ops - 1
    /\ UNCHANGED <<tree, cwd>>

Return(i) ==
    /\ thread[i].op # <<>> /\ thread[i].code = <<>>
    /\ thread' = [thread EXCEPT ![i] = Idle]
    /\ UNCHANGED <<tree, cwd, ops>>

\* The next system call of thread i is one of these.
Calls(i, kinds) == thread[i].code # <<>> /\ thread[i].code[1][1] \in kinds
Call(i) == thread[i].code[1]
Then(i, code) == thread' = [thread EXCEPT ![i].code = code]
Rest(i) == Tail(thread[i].code)

\* Where the working directory is gone getcwd leaves its result as it was.
GetCwd(i) ==
    /\ Calls(i, {"getcwd"})
    /\ \E d \in IF cwd \in Dirs(tree) THEN {cwd} ELSE Dirs(tree) :
          thread' = [thread EXCEPT ![i].code = Tail(@), ![i].saved = <<d>> \o @]
    /\ UNCHANGED <<tree, cwd, ops>>

\* "enter" returns if it fails, "chdir_out" goes to the end, the others go on.
ChDir(i) ==
    /\ Calls(i, {"enter", "chdir_abs", "chdir", "chdir_out", "chdir_up"})
    /\ LET c    == Call(i)
           to   == CASE c[1] \in {"enter", "chdir_abs"} -> c[2]
                     [] c[1] = "chdir_up" ->
                            IF Len(cwd) >= c[2] THEN SubSeq(cwd, 1, Len(cwd) - c[2]) ELSE Home
                     [] OTHER -> cwd \o c[2]
           done == to \in Dirs(tree)
       IN  /\ cwd' = IF done THEN to ELSE cwd
           /\ IF ~done /\ c[1] = "enter"
              THEN thread' = [thread EXCEPT ![i].code = Tail(SkipToBack(@)),
                                            ![i].saved = Tail(@)]
              ELSE Then(i, IF ~done /\ c[1] = "chdir_out" THEN SkipToBack(Rest(i)) ELSE Rest(i))
    /\ UNCHANGED <<tree, ops>>

ChDirBack(i) ==
    /\ Calls(i, {"back"})
    /\ cwd' = IF thread[i].saved[1] \in Dirs(tree) THEN thread[i].saved[1] ELSE cwd
    /\ thread' = [thread EXCEPT ![i].code = Tail(@), ![i].saved = Tail(@)]
    /\ UNCHANGED <<tree, ops>>

\* That it exists already is no error.
MkDir(i) ==
    /\ Calls(i, {"mkdir"})
    /\ LET p == cwd \o Call(i)[2]
       IN  IF CanMake(tree, p)
           THEN /\ tree' = IF p \in Dirs(tree) THEN tree ELSE Made(tree, p)
                /\ thread' = [thread EXCEPT ![i].code = Tail(@),
                                            ![i].exists = p \in Dirs(tree)]
           ELSE /\ thread' = [thread EXCEPT ![i].code = SkipToBack(@), ![i].ok = FALSE]
                /\ UNCHANGED tree
    /\ UNCHANGED <<cwd, ops>>

RmDir(i) ==
    /\ Calls(i, {"rmdir"})
    /\ tree' = Removed(tree, cwd \o Call(i)[2])
    /\ Then(i, Rest(i))
    /\ UNCHANGED <<cwd, ops>>

SymLink(i) ==
    /\ Calls(i, {"symlink"})
    /\ LET p == cwd \o Call(i)[2]
       IN  IF CanLink(tree, p, Call(i)[3])
           THEN tree' = Linked(tree, p) /\ Then(i, Rest(i))
           ELSE /\ thread' = [thread EXCEPT ![i].code = SkipToBack(@), ![i].ok = FALSE]
                /\ UNCHANGED tree
    /\ UNCHANGED <<cwd, ops>>

\* That it does not exist is no error.
RemoveLink(i) ==
    /\ Calls(i, {"remove"})
    /\ tree' = Unlinked(tree, cwd \o Call(i)[2])
    /\ Then(i, Rest(i))
    /\ UNCHANGED <<cwd, ops>>

Write(i) ==
    /\ Calls(i, {"write_any", "write_dev", "write_addr"})
    /\ tree' = Wrote(tree, cwd, Call(i)[1], Call(i)[2])
    /\ Then(i, Rest(i))
    /\ UNCHANGED <<cwd, ops>>

\* create_portid: a port that was there before is compared with what was asked.
Read(i) ==
    /\ Calls(i, {"read_addr"})
    /\ thread' = [thread EXCEPT
                     ![i].code = Tail(@),
                     ![i].ok = ~thread[i].exists \/
                               (Len(cwd) = 2 /\ <<cwd[2], Call(i)[2]>> \in tree.ports)]
    /\ UNCHANGED <<tree, cwd, ops>>

\* The entries of the directory that is opened.
Names(i) ==
    LET c    == Call(i)
        here == IF Len(cwd) = 2 /\ cwd[1] = "subsystems" THEN {cwd[2]} ELSE {}
    IN  CASE c[1] = "opendir_hosts" -> {a[2] : a \in {b \in tree.allowed : b[1] \in here}}
          [] c[1] = "opendir_ns"    -> {n[2] : n \in {m \in tree.ns : m[1] \in here}}
          [] c[1] = "opendir_ports" -> IF cwd = <<>> THEN PortIds(tree) ELSE {}
          [] c[1] = "opendir_links" ->
                 {l[2] : l \in {m \in tree.links : m[1] = c[2] /\ cwd = <<"ports">>}}
          [] c[1] = "opendir_subsystems" -> tree.subsys
          [] c[1] = "opendir_all_ports"  -> PortIds(tree)
          [] c[1] = "opendir_all_hosts"  -> tree.hosts

\* What is done with the entry n of the directory that c opened.
Entry(c, n) ==
    CASE c[1] = "opendir_hosts" -> << <<"remove", <<"allowed_hosts", n>>>> >>
      [] c[1] = "opendir_ns"    -> << <<"chdir", <<"namespaces", n>>>>, <<"chdir_up", 2>>,
                                      <<"rmdir", <<"namespaces", n>>>> >>
      [] c[1] = "opendir_ports" -> << <<"remove", <<"ports", n, "subsystems", c[2]>>>> >>
      [] c[1] = "opendir_links" -> << <<"remove", <<c[2], "subsystems", n>>>> >>
      [] c[1] = "opendir_subsystems" -> DeleteSubsys(n)
      [] c[1] = "opendir_all_ports"  -> DeletePortid(n)
      [] c[1] = "opendir_all_hosts"  -> DeleteHost(n)

\* The directory is read as it is when it is opened.  delete_portid is over
\* if there is no such port.
OpenDir(i) ==
    /\ Calls(i, {"opendir_hosts", "opendir_ns", "opendir_ports", "opendir_links",
                 "opendir_subsystems", "opendir_all_ports", "opendir_all_hosts"})
    /\ Then(i, IF Call(i)[1] = "opendir_links" /\ cwd \o <<Call(i)[2]>> \notin Dirs(tree)
               THEN SkipToBack(Rest(i))
               ELSE << <<"readdir", Names(i), Call(i)>> >> \o Rest(i))
    /\ UNCHANGED <<tree, cwd, ops>>

\* for_each_dir: the entries come in any order.
ReadDir(i) ==
    /\ Calls(i, {"readdir"})
    /\ LET left == Call(i)[2]
           dir  == Call(i)[3]
       IN  \/ left = {} /\ Then(i, Rest(i))
           \/ \E n \in left :
                 Then(i, Entry(dir, n) \o (<< <<"readdir", left \ {n}, dir>> >> \o Rest(i)))
    /\ UNCHANGED <<tree, cwd, ops>>

Init == /\ tree = EmptyTree
        /\ cwd = Home
        /\ thread = [i \in Threads |-> Idle]
        /\ ops = MaxOps

Next == \E i \in Threads :
            \/ Request(i) \/ Return(i) \/ GetCwd(i) \/ ChDir(i) \/ ChDirBack(i)
            \/ MkDir(i) \/ RmDir(i) \/ SymLink(i) \/ RemoveLink(i) \/ Write(i) \/ Read(i)
            \/ OpenDir(i) \/ ReadDir(i)

Spec == Init /\ [][Next]_vars

-----------------------------------------------------------------------------

Returns(i) == thread[i].op # <<>> /\ thread[i].code = <<>>

\* When an operation returns, the tree and its status are what the operation
\* makes of the tree that it was called with: the system calls of one operation
\* amount to the operators that the models of the configuration are built on.
\* On every path out of it the working directory is back where it was.
AsIfAlone ==
    \A i \in Threads :
        Returns(i) => /\ [tree |-> tree, ok |-> thread[i].ok] = Alone(thread[i].before, thread[i].op)
                      /\ cwd = Home

\* Only what was asked for as a host is among the hosts (cfgfs_create_host).
HostsAsked == tree.hosts \subseteq Hosts

\* A subsystem is open to any host only if that was asked for
\* (cfgfs_create_subsys).
OpenAsAsked ==
    \A s \in tree.any : <<"create_subsys", s, TRUE>> \in Ops
=============================================================================
