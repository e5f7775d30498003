--------------------------- MODULE DiscoveryClient ---------------------------
(***************************************************************************)
(* A host that follows the discovery log of dem: dem-dm (monitor/daemon.c) *)
(* or dem-ac (auto_connect/daemon.c), whose connection logic is the same,  *)
(* composed with the part of dem that answers it: handle_request, run by a *)
(* host_thread, and the notifications, sent by the main thread when the    *)
(* configuration changes.                                                  *)
(*                                                                         *)
(* The connection is an RDMA queue pair: in order and reliable until it    *)
(* breaks.  A log page is not in the answer to a Get Log Page: dem writes  *)
(* it into a buffer of the host, whose key is only valid until the host    *)
(* stops waiting for that answer.  process_nvme_rsp takes whatever message *)
(* is next for the answer to the command it waits for, because answers are *)
(* not matched with commands; and it gives up after MSG_TIMEOUT, which is  *)
(* as long as a host_thread sleeps between two passes.                     *)
(*                                                                         *)
(* What the log says is abstracted to a version number, and a version to   *)
(* its number of records: that is all that get_logpages compares.          *)
(***************************************************************************)
EXTENDS Integers, Sequences, SequencesExt

CONSTANTS MaxVer,              \* bound: changes of the log
          NumRec,              \* the records of each version of the log
          KEEP_ALIVE_COUNTER,  \* silent polls between two keep-alives
          MaxLag,              \* bound: waits of MSG_TIMEOUT that were too short
          MaxBreaks            \* bound: times that the network breaks a connection

Version == 0 .. MaxVer

ASSUME DiscoveryClientAssumption ==
  /\ MaxVer \in Nat /\ MaxLag \in Nat /\ MaxBreaks \in Nat
  /\ KEEP_ALIVE_COUNTER \in Nat
  /\ NumRec \in [Version -> Nat \ {0}]

None == -1     \* no log pages; also a buffer that is still all zeros

VARIABLES
  ver,       \* dem: the version of the log it would report
  main,      \* dem: what its main thread has still to do: nothing (rest), notify,
             \* or, of a deletion, notify and remove (delete), or remove
  noted,     \* dem: the version of the log at the last send_notifications
  aenlist,   \* dem: aen_req_list, each request as the connection it came from
  alloc,     \* dem: the connections whose struct endpoint is allocated
  up,        \* the queue pair of connection inc works
  inc,       \* the number of the host's current connection
  c2s, s2c,  \* the messages on their way
  pc,        \* host: the command it is at, or poll, or down
  wait,      \* host: it has sent the command and waits for the answer
  cnt,       \* host: cnt of main
  numrec,    \* host: numrec of get_logpages
  buf,       \* host: the version that dem has written into the buffer
  have,      \* host: the version that its log pages show
  lag,       \* waits that were too short so far
  breaks     \* connections that the network broke so far

demVars  == <<ver, main, noted, aenlist, alloc>>
netVars  == <<up, inc, c2s, s2c>>
hostVars == <<pc, wait, cnt, numrec, buf, have>>
vars     == <<demVars, netVars, hostVars, lag, breaks>>

\* The commands, in the order of complete_connection.  aer0 is the Async Event
\* Request of enable_aens and aer the one that follows every fetch.
LogCmd == {"hdr", "pages"}
Cmd    == {"get_feat", "set_feat", "aer0", "aer", "ka"} \cup LogCmd

\* Mutated: enable_aens does not ask for a first event.
AfterCmdNoFirstRequest(op) ==
  CASE op = "get_feat"             -> "set_feat"
    [] op \in {"set_feat", "aer0"} -> "hdr"
    [] op = "pages"                -> "aer"
    [] op \in {"aer", "ka"}        -> "poll"

\* Where the host goes on after a command: once it has an answer, or none in
\* time (send_admin_cmd and send_set_features ignore the difference) ...
AfterCmd(op) ==
  CASE op = "get_feat"      -> "set_feat"
    [] op = "set_feat"      -> "aer0"
    [] op = "aer0"          -> "hdr"
    [] op = "pages"         -> "aer"
    [] op \in {"aer", "ka"} -> "poll"

\* ... and when the command could not be sent.
AfterSendFails(op) ==
  CASE op \in {"get_feat", "set_feat", "aer0"} -> "hdr"
    [] op \in LogCmd                           -> "aer"
    [] op = "aer"                              -> "poll"

\* The key of the log page's buffer is deallocated.
DeallocKey(q) == [k \in DOMAIN q |-> IF q[k] \in LogCmd THEN "stale" ELSE q[k]]

-----------------------------------------------------------------------------
\* connect_ctrl has succeeded, which leaves no message under way.
Init ==
  /\ ver = 0 /\ main = "rest" /\ noted = 0
  /\ aenlist = << >> /\ alloc = {1}
  /\ up = TRUE /\ inc = 1
  /\ c2s = << >> /\ s2c = << >>
  /\ pc = "get_feat" /\ wait = FALSE
  /\ cnt = 0 /\ numrec = 0 /\ buf = None /\ have = None
  /\ lag = 0 /\ breaks = 0

(***************************************************************************)
(* The host.                                                               *)
(***************************************************************************)
Send ==
  /\ pc \in Cmd /\ ~wait
  /\ up
  /\ c2s' = Append(c2s, pc)
  /\ wait' = TRUE
  /\ buf' = IF pc \in LogCmd THEN None ELSE buf
  /\ UNCHANGED <<demVars, up, inc, s2c, pc, cnt, numrec, have, lag, breaks>>

SendFails ==
  /\ pc \in Cmd \ {"ka"} /\ ~wait
  /\ ~up
  /\ pc' = AfterSendFails(pc)
  /\ UNCHANGED <<demVars, netVars, wait, cnt, numrec, buf, have, lag, breaks>>

\* Mutated: the failure of a keep-alive is ignored.
LostConnectionIgnored ==
  /\ pc = "ka" /\ ~wait
  /\ ~up
  /\ pc' = "poll"
  /\ UNCHANGED <<demVars, netVars, wait, cnt, numrec, buf, have, lag, breaks>>

\* A keep-alive cannot be sent: cleanup_dq disconnects and forgets all pages.
LostConnection ==
  /\ pc = "ka" /\ ~wait
  /\ ~up
  /\ have' = None
  /\ pc' = "down"
  /\ UNCHANGED <<demVars, netVars, wait, cnt, numrec, buf, lag, breaks>>

\* Any message will do as the answer to a command without data.
Answer ==
  /\ pc \in Cmd \ LogCmd /\ wait
  /\ s2c # << >>
  /\ s2c' = Tail(s2c)
  /\ wait' = FALSE
  /\ pc' = AfterCmd(pc)
  /\ UNCHANGED <<demVars, up, inc, c2s, cnt, numrec, buf, have, lag, breaks>>

\* The number of records, if dem has written it by now.  Without records there
\* is nothing to fetch, and save_log_pages leaves every page deleted.
AnswerHdr ==
  /\ pc = "hdr" /\ wait
  /\ s2c # << >>
  /\ s2c' = Tail(s2c)
  /\ c2s' = DeallocKey(c2s)
  /\ wait' = FALSE
  /\ \/ /\ buf # None
        /\ numrec' = NumRec[buf]
        /\ pc' = "pages"
        /\ UNCHANGED have
     \/ /\ buf = None
        /\ numrec' = 0
        /\ have' = None
        /\ pc' = "aer"
  /\ UNCHANGED <<demVars, up, inc, cnt, buf, lag, breaks>>

\* Mutated: the host does not ask for another event.
AnswerPagesNoRequest ==
  /\ pc = "pages" /\ wait
  /\ s2c # << >>
  /\ s2c' = Tail(s2c)
  /\ c2s' = DeallocKey(c2s)
  /\ wait' = FALSE
  /\ pc' = "poll"
  /\ have' = IF buf # None /\ NumRec[buf] = numrec THEN buf ELSE have
  /\ UNCHANGED <<demVars, up, inc, cnt, numrec, buf, lag, breaks>>

\* The pages are only used if there are as many as the header announced.
AnswerPages ==
  /\ pc = "pages" /\ wait
  /\ s2c # << >>
  /\ s2c' = Tail(s2c)
  /\ c2s' = DeallocKey(c2s)
  /\ wait' = FALSE
  /\ pc' = "aer"
  /\ have' = IF buf # None /\ NumRec[buf] = numrec THEN buf ELSE have
  /\ UNCHANGED <<demVars, up, inc, cnt, numrec, buf, lag, breaks>>

\* No message comes for MSG_TIMEOUT although a command has not been handled.
Late == lag < MaxLag /\ lag' = lag + 1

\* The answer does not come in time, or never, since the connection is gone.
NoAnswer ==
  /\ wait
  /\ s2c = << >>
  /\ IF up THEN Late ELSE UNCHANGED lag
  /\ wait' = FALSE
  /\ c2s' = IF pc \in LogCmd THEN DeallocKey(c2s) ELSE c2s
  /\ UNCHANGED <<demVars, up, inc, s2c, cnt, numrec, buf, have, breaks>>

\* send_get_features then leaves result uninitialised, and enable_aens takes 0
\* for "not supported".
NoAnswerGetFeatures ==
  /\ pc = "get_feat"
  /\ pc' \in {"set_feat", "hdr"}
  /\ NoAnswer

NoAnswerOther ==
  /\ pc \in Cmd \ {"get_feat"}
  /\ pc' = IF pc = "hdr" THEN "aer" ELSE AfterCmd(pc)
  /\ NoAnswer

\* Mutated: the host enables events anew for every event.
PollEnables ==
  /\ pc = "poll"
  /\ s2c # << >>
  /\ s2c' = Tail(s2c)
  /\ cnt' = 0
  /\ pc' = "get_feat"
  /\ UNCHANGED <<demVars, up, inc, c2s, wait, numrec, buf, have, lag, breaks>>

\* The main loop: a message is taken for an event, and the log is read again.
Poll ==
  /\ pc = "poll"
  /\ s2c # << >>
  /\ s2c' = Tail(s2c)
  /\ cnt' = 0
  /\ pc' = "hdr"
  /\ UNCHANGED <<demVars, up, inc, c2s, wait, numrec, buf, have, lag, breaks>>

PollTimeout ==
  /\ pc = "poll"
  /\ s2c = << >>
  /\ \/ cnt + 1 <= KEEP_ALIVE_COUNTER /\ cnt' = cnt + 1 /\ UNCHANGED pc
     \/ cnt + 1 > KEEP_ALIVE_COUNTER /\ cnt' = 0 /\ pc' = "ka"
  /\ IF up /\ c2s # << >> THEN Late ELSE UNCHANGED lag
  /\ UNCHANGED <<demVars, netVars, wait, numrec, buf, have, breaks>>

\* connect_ctrl succeeds.  dem may not have noticed yet that the old
\* connection is gone.
Reconnect ==
  /\ pc = "down"
  /\ inc' = inc + 1
  /\ alloc' = alloc \cup {inc + 1}
  /\ up' = TRUE
  /\ c2s' = << >> /\ s2c' = << >>
  /\ cnt' = 0
  /\ pc' = "get_feat"
  /\ UNCHANGED <<ver, main, noted, aenlist, wait, numrec, buf, have, lag, breaks>>

(***************************************************************************)
(* dem: handle_request, for the next command of the current connection.    *)
(***************************************************************************)
NextRequest(ops) == up /\ c2s # << >> /\ Head(c2s) \in ops

SendRsp ==
  /\ c2s' = Tail(c2s)
  /\ s2c' = Append(s2c, "rsp")

HandleNoData ==
  /\ NextRequest({"get_feat", "set_feat", "ka"})
  /\ SendRsp
  /\ UNCHANGED <<demVars, up, inc, hostVars, lag, breaks>>

\* An Async Event Request is remembered, and answered at once.
handle_async_event ==
  /\ NextRequest({"aer0", "aer"})
  /\ aenlist' = <<inc>> \o aenlist
  /\ SendRsp
  /\ UNCHANGED <<ver, main, noted, alloc, up, inc, hostVars, lag, breaks>>

handle_get_log_page ==
  /\ NextRequest(LogCmd)
  /\ buf' = ver
  /\ SendRsp
  /\ UNCHANGED <<demVars, up, inc, pc, wait, cnt, numrec, have, lag, breaks>>

\* The key is no longer valid: the write breaks the connection on both sides,
\* and host_thread disconnects and frees the endpoint.
WriteFault ==
  /\ NextRequest({"stale"})
  /\ up' = FALSE
  /\ c2s' = << >>
  /\ alloc' = alloc \ {inc}
  /\ UNCHANGED <<ver, main, noted, aenlist, inc, s2c, hostVars, lag, breaks>>

\* Mutated: an endpoint is freed although its connection works.
FreeEndpointAny(i) ==
  /\ i \in alloc
  /\ alloc' = alloc \ {i}
  /\ UNCHANGED <<ver, main, noted, aenlist, netVars, hostVars, lag, breaks>>

\* host_thread notices that a connection is gone, and frees its endpoint.  The
\* event requests of that connection stay where they are.
FreeEndpoint(i) ==
  /\ i \in alloc
  /\ i # inc \/ ~up
  /\ alloc' = alloc \ {i}
  /\ UNCHANGED <<ver, main, noted, aenlist, netVars, hostVars, lag, breaks>>

(***************************************************************************)
(* dem: the main thread changes the configuration, and then notifies the   *)
(* host through the latest of its event requests.  A deleted subsystem is  *)
(* the one change whose notification comes first.                          *)
(***************************************************************************)
Change ==
  /\ main = "rest"
  /\ ver < MaxVer
  /\ ver' = ver + 1
  /\ main' = "notify"
  /\ UNCHANGED <<noted, aenlist, alloc, netVars, hostVars, lag, breaks>>

\* del_subsys up to its notification: the document and the target are changed,
\* but not yet the lists that the log is made from.
del_subsys ==
  /\ main = "rest"
  /\ ver < MaxVer
  /\ main' = "delete"
  /\ UNCHANGED <<ver, noted, aenlist, alloc, netVars, hostVars, lag, breaks>>

send_notifications ==
  /\ main \in {"notify", "delete"}
  /\ main' = IF main = "notify" THEN "rest" ELSE "remove"
  /\ noted' = ver
  /\ \/ aenlist = << >> /\ UNCHANGED <<aenlist, s2c>>
     \/ /\ aenlist # << >>
        /\ aenlist' = Tail(aenlist)
        /\ s2c' = IF Head(aenlist) = inc /\ up THEN Append(s2c, "aen") ELSE s2c
  /\ UNCHANGED <<ver, alloc, up, inc, c2s, hostVars, lag, breaks>>

\* The rest of del_subsys: _del_subsys_dq and list_del.
RemoveSubsys ==
  /\ main = "remove"
  /\ ver' = ver + 1
  /\ main' = "rest"
  /\ UNCHANGED <<noted, aenlist, alloc, netVars, hostVars, lag, breaks>>

\* The network breaks the connection; what had not arrived is lost.
Break ==
  /\ up /\ breaks < MaxBreaks
  /\ breaks' = breaks + 1
  /\ up' = FALSE
  /\ c2s' = << >>
  /\ s2c' \in Prefixes(s2c)
  /\ UNCHANGED <<demVars, inc, hostVars, lag>>

-----------------------------------------------------------------------------
HostStep ==
  \/ Send \/ SendFails \/ LostConnection \/ Answer \/ AnswerHdr \/ AnswerPages
  \/ NoAnswerGetFeatures \/ NoAnswerOther
  \/ Poll \/ PollTimeout \/ Reconnect

handle_request ==
  HandleNoData \/ handle_async_event \/ handle_get_log_page \/ WriteFault

main_thread == send_notifications \/ RemoveSubsys

Next ==
  \/ HostStep
  \/ handle_request
  \/ \E i \in alloc : FreeEndpoint(i)
  \/ Change \/ del_subsys \/ main_thread
  \/ Break

Spec == Init /\ [][Next]_vars

\* The host's loop and dem's threads keep running: a change that has been begun
\* is finished and notified.  Nobody needs to change anything.
FairSpec ==
  /\ Spec
  /\ WF_vars(HostStep) /\ WF_vars(handle_request) /\ WF_vars(main_thread)

-----------------------------------------------------------------------------
TypeOK ==
  /\ ver \in Version /\ noted \in 0 .. ver
  /\ main \in {"rest", "notify", "delete", "remove"}
  /\ main \in {"delete", "remove"} => ver < MaxVer
  /\ aenlist \in Seq(1 .. inc) /\ alloc \subseteq 1 .. inc
  /\ up \in BOOLEAN /\ inc \in Nat
  /\ c2s \in Seq(Cmd \cup {"stale"}) /\ s2c \in Seq({"rsp", "aen"})
  /\ pc \in Cmd \cup {"poll", "down"} /\ wait \in BOOLEAN
  /\ cnt \in 0 .. KEEP_ALIVE_COUNTER
  /\ numrec \in Nat
  /\ buf \in Version \cup {None} /\ have \in Version \cup {None}
  /\ lag \in 0 .. MaxLag /\ breaks \in 0 .. MaxBreaks
  /\ up => inc \in alloc

\* The event requests of the current connection that dem has, and with the ones
\* on their way; the messages on their way that no command will wait for.
Count(q, X) == Cardinality({k \in DOMAIN q : q[k] \in X})
Armed    == Count(aenlist, {inc})
Requests == Armed + Count(c2s, {"aer0", "aer"})
Strays   == Len(c2s) + Len(s2c) - (IF wait THEN 1 ELSE 0)

\* The host waits for events, and nothing that concerns it is under way.
AtRest == up /\ pc = "poll" /\ c2s = << >> /\ s2c = << >>

\* If dem has notified since the log last changed, a host at rest shows the
\* current log, although it fetches the log first and only then asks for the
\* next event: enable_aens has already asked for one.
CaughtUp == AtRest /\ noted = ver => have = ver

\* What the notifications are for: when dem and the host are both at rest, the
\* host shows the current log.  It fails after del_subsys, which notifies before
\* it changes the log: a host that reads the log in between keeps the deleted
\* subsystem, and one whose two reads are on either side of the change keeps
\* what it had before.
ShowsCurrent == AtRest /\ main = "rest" => have = ver

\* Whatever is taken for the answer to whatever, one event request that dem has
\* or is about to get, or one message that will make the host read the log
\* again, is always left to tell the host of a change that its current fetch
\* may miss; and two of them while the host waits for events.
AlwaysNotified ==
  up =>
    /\ pc \in {"hdr", "pages"} \/ (pc = "aer" /\ ~wait) => Requests + Strays >= 1
    /\ pc \in {"poll", "ka"} \/ (pc = "aer" /\ wait) => Requests + Strays >= 2

\* Nor do they pile up: there are at most two, and one more for each wait that
\* was too short, since the answer that then comes late is taken for an event
\* and makes the host ask for another one.
RequestsBounded == up => Requests + Strays <= 2 + lag

\* Once the log no longer changes and its last change was followed by a
\* notification, the host comes to show it and keeps it.  Only finitely many
\* waits may be too short for that (MaxLag): a host whose every fetch is
\* answered late never shows anything.
EventuallyFresh == <>[](noted = ver => have = ver)

\* A host only shows that its subsystems were deleted when they were: the log
\* is never empty here, so a fetch never leaves it without pages.
NoFalseDeletion == [][pc = "hdr" /\ have # None => have' # None]_vars

\* A notification is only sent to an endpoint that still exists.
NotifiesExisting ==
  [][send_notifications /\ aenlist # << >> => Head(aenlist) \in alloc]_vars

\* dem never writes more records than the host has asked for, although the log
\* may grow between the two requests of get_logpages: handle_get_log_pages
\* copies every record there is into a buffer of the length that was asked for.
RecordsFit ==
  [][handle_get_log_page /\ Head(c2s) = "pages" => NumRec[ver] <= numrec]_vars
=============================================================================
