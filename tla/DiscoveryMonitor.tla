--------------------------- MODULE DiscoveryMonitor ---------------------------
(***************************************************************************)
(* What dem-dm (monitor/daemon.c) tells its user about the log, from one   *)
(* fetch to the next, over lost connections.  When fetches happen is the   *)
(* matter of DiscoveryClient; here one may happen at any time.             *)
(***************************************************************************)
EXTENDS HostPages

VARIABLES
    log,        \* what the discovery controller reports
    pages,      \* what dem-dm keeps
    connected,
    told,       \* entries that were displayed, and not said to be deleted
    current,    \* ghost: the log is the one that was last fetched
    forgotten   \* ghost: keys that were told, forgotten with a connection, and
                \* not displayed since

vars == <<log, pages, connected, told, current, forgotten>>

\* Mutated: the user is not told of a page that is gone.
PrintNoDeleted(ps) ==
    /\ told' = told \cup {[key |-> p.key, data |-> p.data] :
                             p \in {q \in ps : q.valid = "NEW"}}
    /\ forgotten' = forgotten \ KeysOf({p \in ps : p.valid = "NEW"})

\* New pages are displayed, deleted ones mentioned.
print_log_pages(ps) ==
    LET gone  == KeysOf({p \in ps : p.valid = "DELETED"})
        shown == {p \in ps : p.valid = "NEW"}
    IN  /\ told' = {e \in told : e.key \notin gone \cup KeysOf(shown)}
                   \cup {[key |-> p.key, data |-> p.data] : p \in shown}
        /\ forgotten' = forgotten \ KeysOf(shown)

report_updates(res) ==
    LET ps == fetch_log_pages(pages, log, res)
    IN  /\ print_log_pages(ps)
        /\ pages' = {p \in ps : p.valid # "DELETED"}
        /\ current' = CASE res = "ok" -> TRUE
                        [] res = "empty" -> FALSE
                        [] res = "failed" -> current
        /\ UNCHANGED log

\* complete_connection; if the controller refuses the keep-alive time-out the
\* connection is closed again, and the pages are kept.
Connect(res) ==
    /\ ~connected
    /\ report_updates(res)
    /\ connected' \in BOOLEAN

\* An event, or what is taken for one.
Event(res) ==
    /\ connected
    /\ report_updates(res)
    /\ UNCHANGED connected

\* cleanup_dq: the pages are forgotten.
LostConnection ==
    /\ connected
    /\ connected' = FALSE
    /\ pages' = {}
    /\ forgotten' = forgotten \cup KeysOf(pages)
    /\ UNCHANGED <<log, told, current>>

ChangeLog ==
    /\ log' \in Logs
    /\ current' = FALSE
    /\ UNCHANGED <<pages, connected, told, forgotten>>

Init == /\ log \in Logs
        /\ pages = {} /\ told = {} /\ forgotten = {}
        /\ connected = FALSE /\ current = FALSE

Next == \/ \E res \in Results : Connect(res) \/ Event(res)
        \/ LostConnection
        \/ ChangeLog

Spec == Init /\ [][Next]_vars

-----------------------------------------------------------------------------

\* Once the log was fetched, and nothing else taken for it since, the user knows of every subsystem, and way to it,
\* that it has, and of no other but those that were forgotten with a connection
\* and went before the next one: fetches may fail in between, and a deletion is
\* told once (save_log_pages, print_log_pages, cleanup_dq).
ToldAgrees == current => KeysOf(told) = KeysOf(log) \cup forgotten

\* The user has seen every entry of the log as it is now.
ModifiedShown == current => log \subseteq told
================================================================================
