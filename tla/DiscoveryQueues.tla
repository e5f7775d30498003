---------------------------- MODULE DiscoveryQueues ----------------------------
(***************************************************************************)
(* How dem collects the log pages of a target: the discovery queues, one   *)
(* for each port under the nqn that dem shares, and one for each           *)
(* restricted subsystem under the nqn of one of its hosts (dem/daemon.c,   *)
(* dem/config.c), what is read over them (dem/logpages.c), and when        *)
(* (periodic_work).                                                        *)
(*                                                                         *)
(* The target is under local management: its machine is configured by      *)
(* somebody else, who keeps it like the lists of dem.  Over a queue it     *)
(* reports every port of the subsystems that the host of the queue may     *)
(* use, and of the subsystems that dem does not know.                      *)
(*                                                                         *)
(* Nothing in dem sets dq->connected: a queue is connected again for every *)
(* fetch, and keep_alive_work sends nothing on it.  eps counts the         *)
(* endpoints of a queue that were not closed, up to 2.                     *)
(***************************************************************************)
EXTENDS Integers, Sequences, FiniteSets, SequencesExt

CONSTANTS
    NONE,            \* the subsystem of a queue of the shared nqn
    shared_nqn,
    Subsystems, Ports, Hosts,
    InitSubs,        \* the subsystems and ports that dem starts with
    InitPorts,
    OpSets,          \* what may happen together: requests of clients (links
                     \* of a host where the host is in the set), restarts
                     \* ("restart"), and the machine going out of reach ("fail")
    KatoOk,          \* does the machine accept a keep-alive time-out?
    Refresh,         \* polls between two refreshes, 0 if none is configured
    LOG_PAGE_RETRY,  \* polls that a failed connection delays a refresh
    MaxDqs,          \* bound of the queues of one subsystem, or of one port
    MANY             \* bound of a countdown that went below 0

ASSUME DiscoveryQueuesAssumption ==
    /\ NONE \notin Subsystems
    /\ shared_nqn \notin Hosts
    /\ KatoOk \in BOOLEAN
    /\ {Refresh, LOG_PAGE_RETRY, MaxDqs, MANY} \subseteq Nat
    /\ InitSubs \in Seq([nqn : Subsystems, open : BOOLEAN, hosts : Seq(Hosts)])
    /\ InitPorts \in Seq(Ports)
    /\ \A i, j \in DOMAIN InitSubs : InitSubs[i].nqn = InitSubs[j].nqn => i = j
    /\ \A i \in DOMAIN InitSubs : InitSubs[i].open => InitSubs[i].hosts = <<>>
    /\ \A i, j \in DOMAIN InitPorts : InitPorts[i] = InitPorts[j] => i = j

VARIABLES
    tg,     \* the target: lists, queues, pages, counters
    link,   \* of each port: "up", "down", or "mute" (connects, no log)
    ops,    \* the one of OpSets that takes place
    odd,    \* ghost: is the number of polls odd?
    stale   \* ghost: was a subsystem freed that had more than one queue?

vars == <<tg, link, ops, odd, stale>>

\* A page has its subsystem and port, and the port of the queue it came over.
Target == [subs : Seq([nqn : Subsystems, open : BOOLEAN, hosts : Seq(Hosts)]),
           ports : Seq(Ports),
           dqs : Seq([subsys : Subsystems \cup {NONE}, port : Ports,
                      host : Hosts \cup {shared_nqn}, eps : 0..2]),
           pages : SUBSET [nqn : Subsystems, port : Ports, via : Ports,
                           valid : BOOLEAN],
           unattached : SUBSET (Subsystems \X Ports),
           retry : 0..LOG_PAGE_RETRY,
           countdown : (-MANY)..Refresh]

-----------------------------------------------------------------------------
(* Lookups *)

Listed(w) == {w.subs[i].nqn : i \in DOMAIN w.subs}
SubOf(w, nqn) == w.subs[SelectInSeq(w.subs, LAMBDA s : s.nqn = nqn)]
DqOf(w, nqn) == SelectInSeq(w.dqs, LAMBDA d : d.subsys = nqn)
Usable(s) == s.open \/ s.hosts # <<>>

\* What is left of a list when all but the elements of K are taken off it, one
\* by one.
Only(s, K) ==
    LET kept[n \in 0..Len(s)] ==
            IF n = 0 THEN <<>>
            ELSE IF s[n] \in K THEN Append(kept[n - 1], s[n]) ELSE kept[n - 1]
    IN  kept[Len(s)]

\* What the machine reports to a host.
MayUse(w, nqn, host) ==
    nqn \in Listed(w) => SubOf(w, nqn).open \/ Contains(SubOf(w, nqn).hosts, host)

RemoteLog(w, host) == {nqn \in Subsystems : MayUse(w, nqn, host)} \X Ports

-----------------------------------------------------------------------------
(* Log pages *)

\* The queues of Q are connected and read, in their order: the last one that
\* reports a subsystem on a port leaves its page.
save_log_pages(w, Q) ==
    LET log  == UNION {RemoteLog(w, w.dqs[i].host) : i \in Q}
        Via(e) == w.dqs[Max({i \in Q : e \in RemoteLog(w, w.dqs[i].host)})].port
    IN  [w EXCEPT
           !.pages = {p \in @ : <<p.nqn, p.port>> \notin log}
                     \cup {[nqn |-> e[1], port |-> e[2], via |-> Via(e), valid |-> TRUE] :
                              e \in {f \in log : f[1] \in Listed(w)}},
           !.unattached = @ \cup {e \in log : e[1] \notin Listed(w)}]

\* An endpoint is closed only if the machine has refused the time-out.
ConnectAndFetch(w, Q) ==
    LET Opened(i, d) == IF KatoOk /\ i \in Q /\ d.eps < 2 THEN d.eps + 1 ELSE d.eps
    IN  save_log_pages(
            [w EXCEPT !.dqs = [i \in DOMAIN @ |-> [@[i] EXCEPT !.eps = Opened(i, w.dqs[i])]]],
            {i \in Q : link[w.dqs[i].port] = "up"})

invalidate_log_pages(w) ==
    [w EXCEPT !.pages = {[p EXCEPT !.valid = FALSE] : p \in @},
              !.unattached = {}]

\* Mutated: the queues of subsystems are left out.
SharedDqOnly(w, dq) == dq.subsys = NONE

avilable_dq(w, dq) ==
    IF dq.subsys = NONE THEN \E i \in DOMAIN w.subs : w.subs[i].open
    ELSE dq.subsys \in Listed(w) /\ SubOf(w, dq.subsys).hosts # <<>>

refresh_log_pages(w) ==
    LET use  == {i \in DOMAIN w.dqs : avilable_dq(w, w.dqs[i])}
        down == {i \in use : link[w.dqs[i].port] = "down"}
    IN  ConnectAndFetch(
            [invalidate_log_pages(w) EXCEPT
                !.retry = IF down = {} THEN @ ELSE LOG_PAGE_RETRY],
            use \ down)

-----------------------------------------------------------------------------
(* Discovery queues *)

\* Queues of the same port are passed over.
dq_exists(w, sub, port) ==
    \E i \in DOMAIN w.dqs : /\ w.dqs[i].subsys # NONE
                            /\ w.dqs[i].port # port
                            /\ Contains(sub.hosts, w.dqs[i].host)

create_discovery_queue(w, subsys, port) ==
    LET sub  == SubOf(w, subsys)
        dq   == [subsys |-> subsys, port |-> port, eps |-> 0,
                 host |-> IF subsys = NONE THEN shared_nqn ELSE sub.hosts[1]]
        none == IF subsys = NONE THEN FALSE
                ELSE sub.open \/ sub.hosts = <<>> \/ dq_exists(w, sub, port)
        v    == [w EXCEPT !.dqs = Append(@, dq)]
    IN  IF none THEN w
        ELSE IF link[port] = "down" THEN v
        ELSE ConnectAndFetch(v, {Len(v.dqs)})

\* For every port of the target.
CreateOnPorts(w, subsys) ==
    LET made[n \in 0..Len(w.ports)] ==
            IF n = 0 THEN w
            ELSE create_discovery_queue(made[n - 1], subsys, w.ports[n])
    IN  made[Len(w.ports)]

init_discovery_queue(w, port) ==
    LET made[n \in 0..Len(w.subs)] ==
            create_discovery_queue(IF n = 0 THEN w ELSE made[n - 1],
                                   IF n = 0 THEN NONE ELSE w.subs[n].nqn, port)
    IN  made[Len(w.subs)]

\* Mutated: the queue stays.
DelNoDq(w, nqn) == IF DqOf(w, nqn) = 0 THEN w ELSE refresh_log_pages(w)

\* Only the first queue of the subsystem.
_del_subsys_dq(w, nqn) ==
    IF DqOf(w, nqn) = 0 THEN w
    ELSE refresh_log_pages([w EXCEPT !.dqs = RemoveAt(@, DqOf(w, nqn))])

_reset_subsys_dq(w, nqn, host) ==
    LET i == DqOf(w, nqn)
    IN  IF i = 0 THEN CreateOnPorts(w, nqn)
        ELSE refresh_log_pages([w EXCEPT !.dqs[i].host = host])

_update_subsys_dq(w, nqn, old, new) ==
    LET i == DqOf(w, nqn)
    IN  IF i = 0 THEN w
        ELSE IF w.dqs[i].host # old THEN w
        ELSE refresh_log_pages([w EXCEPT !.dqs[i].host =
                                   IF SubOf(w, nqn).hosts = <<>> THEN @ ELSE new])

\* Mutated: the queue goes with its host.
ResetDqAlways(w, nqn, host) ==
    LET i == DqOf(w, nqn)
    IN  IF i = 0 THEN w
        ELSE IF w.dqs[i].host # host THEN w
        ELSE refresh_log_pages([w EXCEPT !.dqs = RemoveAt(@, i)])

\* The host is no longer on the list.
_reset_subsys_dq_nqn(w, nqn, host) ==
    LET i  == DqOf(w, nqn)
        hs == SubOf(w, nqn).hosts
    IN  IF i = 0 THEN w
        ELSE IF w.dqs[i].host # host THEN w
        ELSE refresh_log_pages([w EXCEPT !.dqs =
                 IF hs = <<>> THEN RemoveAt(@, i)
                 ELSE [@ EXCEPT ![i].host = hs[1]]])

-----------------------------------------------------------------------------
(* Operations of the main thread *)

Step(w) == tg' = w /\ UNCHANGED <<link, ops, odd, stale>>

Pos(nqn) == SelectInSeq(tg.subs, LAMBDA s : s.nqn = nqn)

\* set_subsys of a new subsystem: no host yet, so no queue.
AddSubsys(nqn, open) ==
    /\ "add" \in ops
    /\ nqn \notin Listed(tg)
    /\ Step(refresh_log_pages(
            [tg EXCEPT !.subs = Append(@, [nqn |-> nqn, open |-> open, hosts |-> <<>>])]))

\* _config_subsys: a subsystem that all hosts may use has no list of hosts.
_config_subsys(w, nqn) ==
    IF ~SubOf(w, nqn).open THEN w
    ELSE [_del_subsys_dq(w, nqn) EXCEPT !.subs[Pos(nqn)].hosts = <<>>]

\* set_subsys of a subsystem there is: a restricted one is given queues again.
EditSubsys(nqn, open) ==
    /\ "edit" \in ops
    /\ nqn \in Listed(tg)
    /\ open \/ Cardinality({i \in DOMAIN tg.dqs : tg.dqs[i].subsys = nqn}) < MaxDqs
    /\ LET w == [tg EXCEPT !.subs[Pos(nqn)].open = open]
       IN  Step(refresh_log_pages(CreateOnPorts(_config_subsys(w, nqn), nqn)))

\* Has the subsystem more than one queue?
Several(nqn) ==
    \E i, j \in DOMAIN tg.dqs : i # j /\ tg.dqs[i].subsys = nqn /\ tg.dqs[j].subsys = nqn

\* The pages of the subsystem are freed, or forgotten, with it.
del_subsys(nqn) ==
    /\ "del" \in ops
    /\ nqn \in Listed(tg)
    /\ tg' = [_del_subsys_dq(tg, nqn) EXCEPT
                !.subs  = RemoveAt(@, Pos(nqn)),
                !.pages = {p \in @ : p.nqn # nqn}]
    /\ stale' = Several(nqn)
    /\ UNCHANGED <<link, ops, odd>>

link_host(nqn, h) ==
    /\ h \in ops
    /\ nqn \in Listed(tg)
    /\ ~SubOf(tg, nqn).open
    /\ ~Contains(SubOf(tg, nqn).hosts, h)
    /\ LET w == [tg EXCEPT !.subs[Pos(nqn)].hosts = Append(@, h)]
       IN  Step(IF SubOf(tg, nqn).hosts = <<>> THEN _reset_subsys_dq(w, nqn, h)
                ELSE w)

unlink_host(nqn, h) ==
    /\ h \in ops
    /\ nqn \in Listed(tg)
    /\ Contains(SubOf(tg, nqn).hosts, h)
    /\ Step(_reset_subsys_dq_nqn(
            [tg EXCEPT !.subs[Pos(nqn)].hosts = Only(@, Hosts \ {h})],
            nqn, h))

\* The nqn of a host changes: in the n-th subsystem, in one after the other.
ChangeHost(w, n, h, new) ==
    IF ~Contains(w.subs[n].hosts, h) THEN w
    ELSE _update_subsys_dq(
             [w EXCEPT !.subs[n].hosts =
                 [k \in DOMAIN @ |-> IF @[k] = h THEN new ELSE @[k]]],
             w.subs[n].nqn, h, new)

update_host(h, new) ==
    /\ "host" \in ops
    /\ \A i \in DOMAIN tg.subs : ~Contains(tg.subs[i].hosts, new)
    /\ LET changed[n \in 0..Len(tg.subs)] ==
               IF n = 0 THEN tg ELSE ChangeHost(changed[n - 1], n, h, new)
       IN  Step(changed[Len(tg.subs)])

\* Under local management a new port, or one that is set again, gets a queue of
\* the shared nqn.
set_portid(p) ==
    /\ "port" \in ops
    /\ Cardinality({i \in DOMAIN tg.dqs :
                        tg.dqs[i].subsys = NONE /\ tg.dqs[i].port = p}) < MaxDqs
    /\ Step(create_discovery_queue(
            [tg EXCEPT !.ports = IF Contains(@, p) THEN @ ELSE Append(@, p)],
            NONE, p))

del_portid(p) ==
    /\ "port" \in ops
    /\ Contains(tg.ports, p)
    /\ Step([tg EXCEPT !.ports = Only(@, Ports \ {p}),
                       !.dqs   = Only(@, {d \in Range(@) : d.port # p}),
                       !.pages = {g \in @ : g.via # p}])

target_refresh == "refresh" \in ops /\ Step(refresh_log_pages(tg))

\* A retry count only delays the countdown, and a countdown of 0 is missed.
periodic_work ==
    LET waits == tg.retry > 1
        w     == [tg EXCEPT !.retry = IF @ = 0 THEN 0 ELSE @ - 1]
        count == IF w.countdown > -MANY THEN w.countdown - 1 ELSE w.countdown
    IN  /\ tg' = IF waits THEN w
                 ELSE IF count # 0 THEN [w EXCEPT !.countdown = count]
                 ELSE [refresh_log_pages(w) EXCEPT !.countdown = Refresh]
        /\ odd' = ~odd
        /\ UNCHANGED <<link, ops, stale>>

\* init_targets, for lists without queues and pages.
Started(subs, ports) ==
    LET started[n \in 0..Len(ports)] ==
            IF n = 0
            THEN [subs |-> subs, ports |-> ports, dqs |-> <<>>, pages |-> {},
                  unattached |-> {}, retry |-> LOG_PAGE_RETRY, countdown |-> Refresh]
            ELSE init_discovery_queue(started[n - 1], ports[n])
    IN  started[Len(ports)]

Restart == "restart" \in ops /\ Step(Started(tg.subs, tg.ports))

\* The network and the machine.
Outage(p, s) ==
    /\ "fail" \in ops
    /\ link' = [link EXCEPT ![p] = s]
    /\ UNCHANGED <<tg, ops, odd, stale>>

-----------------------------------------------------------------------------

Init == /\ ops \in OpSets
        /\ odd = FALSE
        /\ stale = FALSE
        /\ link = [p \in Ports |-> "up"]
        /\ tg = Started(InitSubs, InitPorts)

Defined == \/ \E n \in Subsystems, o \in BOOLEAN : AddSubsys(n, o) \/ EditSubsys(n, o)
           \/ \E n \in Subsystems : del_subsys(n)
           \/ \E n \in Subsystems, h \in Hosts : link_host(n, h) \/ unlink_host(n, h)
           \/ \E h, new \in Hosts : update_host(h, new)
           \/ \E p \in Ports : set_portid(p) \/ del_portid(p)
           \/ target_refresh
           \/ periodic_work
           \/ Restart
           \/ \E p \in Ports, s \in {"up", "down", "mute"} : Outage(p, s)

\* Nothing is said of what dem does with a queue whose subsystem was freed.
Undefined == odd' = ~odd /\ UNCHANGED <<tg, link, ops, stale>>

Next == (~stale /\ Defined) \/ (stale /\ Undefined)

\* poll_loop never blocks for longer than IDLE_TIMEOUT: periodic_work, which is
\* always enabled and alone changes odd, is done again and again.
Spec == Init /\ [][Next]_vars /\ []<><<odd' # odd>>_odd

-----------------------------------------------------------------------------

\* Every subsystem that some host may use has a valid page for each port of
\* the target.
Complete ==
    \A i \in DOMAIN tg.subs : Usable(tg.subs[i]) =>
        \A p \in Range(tg.ports) : \E g \in tg.pages :
            g.nqn = tg.subs[i].nqn /\ g.port = p /\ g.valid

\* While the machine is in reach and its ports stay, the log pages are complete
\* after every operation, so that dem tells the hosts where each subsystem is
\* (handle_get_log_pages leaves out pages that are not valid).  A restricted
\* subsystem depends on queues that come and go with hosts (_reset_subsys_dq,
\* _reset_subsys_dq_nqn, dq_exists).
PagesComplete == ~stale /\ ops \cap {"port", "fail"} = {} => Complete

\* The target has its shape, and a queue points to a subsystem and to a port of
\* the target: nothing it points to was freed before it (_del_subsys_dq,
\* del_portid).  There is one exception, the deletion of a subsystem that has
\* several queues, of which _del_subsys_dq frees the first.
QueuesValid ==
    /\ tg \in Target
    /\ ~stale => \A i \in DOMAIN tg.dqs : /\ tg.dqs[i].subsys \in Listed(tg) \cup {NONE}
                                           /\ tg.dqs[i].port \in Range(tg.ports)

\* No subsystem is freed that has more than one queue: every subsystem goes with
\* all that points to it (_del_subsys_dq).
NeverStale == ~stale

\* A queue has at most one endpoint: refresh_log_pages connects the queues that
\* are not connected.
ConnectedOnce == \A i \in DOMAIN tg.dqs : tg.dqs[i].eps <= 1

\* Once the machine stays in reach, the log pages become complete, again and
\* again: a connection that failed is retried (log_page_retry_count,
\* refresh_countdown in periodic_work).
EventuallyComplete ==
    /\ "port" \notin ops
    /\ []~stale
    /\ <>[](\A p \in Ports : link[p] = "up")
    => []<>Complete
================================================================================
