------------------------------ MODULE AutoConnect ------------------------------
(***************************************************************************)
(* How dem-ac (auto_connect/daemon.c) keeps a host connected to the        *)
(* subsystems of the log: what it makes of the devices that it finds in    *)
(* sysfs, and the one connection that each turn of its main loop asks the  *)
(* kernel for.  When fetches happen is the matter of DiscoveryClient; here *)
(* a change of the log is followed by one, and others may fail or come     *)
(* without a change.                                                       *)
(***************************************************************************)
EXTENDS HostPages, Naturals

CONSTANTS
    MaxEvents,    \* bound: events without a change, and updates that fail
    MaxFails,     \* bound: connections that cannot be made, and devices lost
    MaxChanges,   \* bound: changes of the log
    MaxLost       \* bound: connections to the discovery controller lost

ASSUME AutoConnectAssumption ==
    {MaxEvents, MaxFails, MaxChanges, MaxLost} \subseteq Nat

VARIABLES
    log,       \* what the discovery controller reports
    pages,     \* what dem-ac keeps
    devs,      \* the devices of the host: keys
    up,        \* dem-ac is connected to the discovery controller
    fetched,   \* ghost: the log that was last fetched over this connection
    failed,    \* ghost: keys whose connection was lost, or could not be made, last,
               \* or whose page was marked although there was none
    left       \* what is left of the bounds

vars == <<log, pages, devs, up, fetched, failed, left>>

\* Of the pages that have a device, those that are not new are connected, and
\* the deleted ones removed.
mark_connected_subsystems(ps) ==
    {[p EXCEPT !.connected = p.key \in devs /\ p.valid = "VALID"] :
        p \in {q \in ps : ~(q.key \in devs /\ q.valid = "DELETED")}}

\* Mutated: a page without a device stays.
CleanupNothing(ps) == ps

cleanup_log_pages(ps) == {p \in ps : p.valid # "DELETED"}

\* The directory of the devices cannot be opened: the pages have the marks they
\* had, new ones what their memory held.
mark_blindly(ps, marks) == {[p EXCEPT !.connected = p.key \in marks] : p \in ps}

\* Mutated: a fetch that fails leaves nothing connected.
ProcessUpdatesForget(res, dir) ==
    /\ pages' = IF res = "ok" THEN fetch_log_pages({}, log, "ok") ELSE {}
    /\ fetched' = IF res = "failed" THEN fetched ELSE Got(log, res)
    /\ UNCHANGED <<log, devs, failed>>

process_updates(res, dir) ==
    /\ LET ps == fetch_log_pages(pages, log, res)
       IN  \/ /\ dir
              /\ pages' = cleanup_log_pages(mark_connected_subsystems(ps))
              /\ UNCHANGED failed
           \/ /\ ~dir
              /\ \E marks \in SUBSET Keys :
                    /\ pages' = cleanup_log_pages(mark_blindly(ps, marks))
                    /\ failed' = failed \cup (marks \ devs)
    /\ fetched' = IF res = "failed" THEN fetched ELSE Got(log, res)
    /\ UNCHANGED <<log, devs>>

\* complete_connection
Connect(res, dir) ==
    /\ ~up
    /\ LET good == res = "ok" /\ dir
       IN  /\ good \/ left.events > 0
           /\ left' = [left EXCEPT !.events = IF good THEN @ ELSE @ - 1]
    /\ process_updates(res, dir)
    /\ up' = TRUE

Event(res, dir) ==
    /\ up
    /\ LET due == res = "ok" /\ dir /\ log # fetched
       IN  /\ due \/ left.events > 0
           /\ left' = [left EXCEPT !.events = IF due THEN @ ELSE @ - 1]
    /\ process_updates(res, dir)
    /\ UNCHANGED up

\* The page is marked whatever the kernel says.  Pages are passed over as long as
\* the device of the kernel cannot be opened: p is any that is not marked.
connect_one_subsystem(p, ok) ==
    /\ p \in pages /\ ~p.connected
    /\ \/ /\ ok
          /\ devs' = devs \cup {p.key} /\ failed' = failed \ {p.key}
          /\ UNCHANGED left
       \/ /\ ~ok /\ left.fails > 0
          /\ left' = [left EXCEPT !.fails = @ - 1]
          /\ failed' = failed \cup {p.key}
          /\ UNCHANGED devs
    /\ pages' = (pages \ {p}) \cup {[p EXCEPT !.connected = TRUE]}
    /\ UNCHANGED <<log, up, fetched>>

\* cleanup_dq
LostConnection ==
    /\ up /\ left.lost > 0
    /\ up' = FALSE
    /\ pages' = {} /\ fetched' = {}
    /\ left' = [left EXCEPT !.lost = @ - 1]
    /\ UNCHANGED <<log, devs, failed>>

\* The kernel gives up a device, or an administrator removes it.
DeviceLost(k) ==
    /\ k \in devs /\ left.fails > 0
    /\ devs' = devs \ {k} /\ failed' = failed \cup {k}
    /\ left' = [left EXCEPT !.fails = @ - 1]
    /\ UNCHANGED <<log, pages, up, fetched>>

ChangeLog ==
    /\ left.changes > 0
    /\ log' \in Logs
    /\ left' = [left EXCEPT !.changes = @ - 1]
    /\ UNCHANGED <<pages, devs, up, fetched, failed>>

Init == /\ log \in Logs
        /\ pages = {} /\ devs = {}
        /\ up = FALSE
        /\ fetched = {} /\ failed = {}
        /\ left = [events |-> MaxEvents, fails |-> MaxFails, changes |-> MaxChanges, lost |-> MaxLost]

Next == \/ \E res \in Results, dir \in BOOLEAN : Connect(res, dir) \/ Event(res, dir)
        \/ \E p \in pages, ok \in BOOLEAN : connect_one_subsystem(p, ok)
        \/ LostConnection
        \/ \E k \in Keys : DeviceLost(k)
        \/ ChangeLog

\* The main loop goes on: it connects again, and each turn asks for one
\* connection, and the device of the kernel is there in the end.  A change of the
\* log is fetched in the end, also after something else was taken for it
\* (EventuallyFresh of DiscoveryClient).
Fairness == /\ WF_vars(Connect("ok", TRUE))
            /\ WF_vars(\E p \in pages : connect_one_subsystem(p, TRUE))
            /\ WF_vars(log # fetched /\ Event("ok", TRUE))

Spec == Init /\ [][Next]_vars /\ Fairness

-----------------------------------------------------------------------------

\* The pages are those of the log that was last fetched, one for each key, over
\* fetches that fail and devices that come and go: deleted pages do not outlast
\* the turn that found them deleted (mark_connected_subsystems removes those
\* with a device, cleanup_log_pages the others).
PagesFetched ==
    /\ KeysOf(pages) = KeysOf(fetched)
    /\ \A p, q \in pages : p.key = q.key => p = q

\* A connection is only asked for if the log that was last fetched has the
\* subsystem (connect_one_subsystem knows nothing of deleted pages).
ConnectsListed == [][devs' \ devs \subseteq KeysOf(fetched)]_vars

\* No connection is asked for that the host has already
\* (mark_connected_subsystems).
NoSecondConnect ==
    [][\A p \in pages, ok \in BOOLEAN :
           connect_one_subsystem(p, ok) => p.key \notin devs]_vars

\* The host comes to be connected to every subsystem of the log, and stays so,
\* but for connections that the kernel could not make or keep, and pages whose
\* marks could not be read from the devices: connecting one subsystem in each
\* turn of the main loop is enough, over changes of the log, answers that were
\* none and lost connections to the discovery controller.
EventuallyConnected == <>[](KeysOf(log) \subseteq devs \cup failed)
================================================================================
