----------------------------- MODULE HostService -----------------------------
(***************************************************************************)
(* How host_thread of dem/pseudo_target.c serves its hosts, and how it     *)
(* decides that one is gone.  Every pass of its outer loop visits each     *)
(* host once: it handles the requests that are there until there is none   *)
(* left, and a visit that ends without a message counts against the        *)
(* host's countdown, which every request that succeeds sets back to its    *)
(* keep-alive time-out.  A host whose countdown is used up, whose request  *)
(* failed or whose connection broke is disconnected and freed.             *)
(*                                                                         *)
(* A request is abstracted to what it does to that decision: whether       *)
(* handle_request gives it a non-zero status, and the time-out that a Set  *)
(* Features (Keep Alive Timer) brings.                                     *)
(***************************************************************************)
EXTENDS Integers, FiniteSets

CONSTANTS Host,         \* hosts that may connect
          RETRY_COUNT,  \* silent visits that a new host may have
          Kato,         \* the time-outs that hosts may ask for
          INT_MAX,      \* the greatest int
          MaxPend,      \* requests of a host that may wait (the queue's depth)
          MaxReq        \* bound: requests in a behaviour

KATO_VISITS == 5   \* KATO_INTERVAL / DELAY_TIMEOUT

ASSUME HostServiceAssumption ==
  /\ RETRY_COUNT \in Nat \ {0}
  /\ INT_MAX \in Nat /\ RETRY_COUNT <= INT_MAX
  /\ Kato \subseteq Nat
  /\ MaxPend \in Nat /\ MaxReq \in Nat

\* A request: it succeeds, or it fails, or it sets the time-out.
Request == [kind : {"ok", "fails"}] \cup [kind : {"set_kato"}, kato : Kato]

VARIABLES
  stopped,    \* the global flag
  hosts,      \* host_list
  todo,       \* the hosts that the current pass has still to visit
  pass,       \* in a pass
  kato,       \* host->kato
  countdown,  \* host->countdown
  pend,       \* the requests of a host that have arrived
  broken,     \* the hosts whose connection broke
  dropped,    \* the hosts that have been disconnected
  asked,      \* ghost: the silent visits that a host was promised
  idle,       \* ghost: its silent visits since its last request
  sent        \* requests sent so far

connVars  == <<pend, broken, sent>>
timerVars == <<kato, countdown, asked, idle>>
vars == <<stopped, hosts, todo, pass, dropped, timerVars, connVars>>

\* The conversion of an unsigned product to an int.
UINT_RANGE == 2 * (INT_MAX + 1)
ToInt(n) == LET m == n % UINT_RANGE
            IN  IF m <= INT_MAX THEN m ELSE m - UINT_RANGE

Init ==
  /\ stopped = FALSE
  /\ hosts = {} /\ todo = {} /\ pass = FALSE
  /\ kato = [h \in Host |-> 0] /\ countdown = [h \in Host |-> 0]
  /\ pend = [h \in Host |-> 0] /\ broken = {}
  /\ dropped = {}
  /\ asked = [h \in Host |-> 0] /\ idle = [h \in Host |-> 0]
  /\ sent = 0

-----------------------------------------------------------------------------
\* A host taken from the queue, at the beginning of a pass.
AddHost(h) ==
  /\ ~pass /\ ~stopped
  /\ h \notin hosts \cup dropped
  /\ hosts' = hosts \cup {h}
  /\ kato' = [kato EXCEPT ![h] = RETRY_COUNT]
  /\ countdown' = [countdown EXCEPT ![h] = RETRY_COUNT]
  /\ asked' = [asked EXCEPT ![h] = RETRY_COUNT]
  /\ idle' = [idle EXCEPT ![h] = 0]
  /\ UNCHANGED <<stopped, todo, pass, dropped, connVars>>

\* Mutated: a pass skips the hosts that were heard from since they were last
\* visited.
BeginPassSilentOnly ==
  /\ ~pass /\ ~stopped
  /\ pass' = TRUE
  /\ todo' = {h \in hosts : countdown[h] < kato[h]}
  /\ UNCHANGED <<stopped, hosts, dropped, timerVars, connVars>>

BeginPass ==
  /\ ~pass /\ ~stopped
  /\ pass' = TRUE
  /\ todo' = hosts
  /\ UNCHANGED <<stopped, hosts, dropped, timerVars, connVars>>

EndPass ==
  /\ pass /\ todo = {}
  /\ pass' = FALSE
  /\ UNCHANGED <<stopped, hosts, todo, dropped, timerVars, connVars>>

\* disconnect_endpoint, list_del and the two frees.
Drop(h) ==
  /\ hosts' = hosts \ {h}
  /\ todo' = todo \ {h}
  /\ dropped' = dropped \cup {h}

\* Mutated: a request does not set the countdown back.
HandleOkNoReset(h) ==
  /\ h \in todo /\ pend[h] > 0
  /\ pend' = [pend EXCEPT ![h] = @ - 1]
  /\ idle' = [idle EXCEPT ![h] = 0]
  /\ UNCHANGED <<stopped, hosts, todo, pass, dropped, kato, countdown, asked, broken, sent>>

\* A request that succeeds.  The visit goes on.
HandleOk(h) ==
  /\ h \in todo /\ pend[h] > 0
  /\ pend' = [pend EXCEPT ![h] = @ - 1]
  /\ countdown' = [countdown EXCEPT ![h] = kato[h]]
  /\ idle' = [idle EXCEPT ![h] = 0]
  /\ UNCHANGED <<stopped, hosts, todo, pass, dropped, kato, asked, broken, sent>>

\* handle_set_features stores the new time-out before countdown is set to it.
HandleSetKato(h, k) ==
  /\ h \in todo /\ pend[h] > 0
  /\ pend' = [pend EXCEPT ![h] = @ - 1]
  /\ kato' = [kato EXCEPT ![h] = ToInt(k * KATO_VISITS)]
  /\ countdown' = [countdown EXCEPT ![h] = ToInt(k * KATO_VISITS)]
  /\ asked' = [asked EXCEPT ![h] = k * KATO_VISITS]
  /\ idle' = [idle EXCEPT ![h] = 0]
  /\ UNCHANGED <<stopped, hosts, todo, pass, dropped, broken, sent>>

\* A request with a non-zero status ends the connection.
HandleFails(h) ==
  /\ h \in todo /\ pend[h] > 0
  /\ pend' = [pend EXCEPT ![h] = @ - 1]
  /\ Drop(h)
  /\ UNCHANGED <<stopped, pass, timerVars, broken, sent>>

handle_request(h, r) ==
  \/ r.kind = "ok" /\ HandleOk(h)
  \/ r.kind = "set_kato" /\ HandleSetKato(h, r.kato)
  \/ r.kind = "fails" /\ HandleFails(h)

\* poll_for_msg returns an error other than -EAGAIN.
VisitBroken(h) ==
  /\ h \in todo /\ pend[h] = 0
  /\ h \in broken
  /\ Drop(h)
  /\ UNCHANGED <<stopped, pass, timerVars, connVars>>

\* Mutated: the countdown is tested before it is decremented.
VisitSilentPostDecrement(h) ==
  /\ h \in todo /\ pend[h] = 0
  /\ h \notin broken
  /\ countdown' = [countdown EXCEPT ![h] = @ - 1]
  /\ idle' = [idle EXCEPT ![h] = @ + 1]
  /\ \/ /\ countdown[h] > 0
        /\ todo' = todo \ {h}
        /\ UNCHANGED <<hosts, dropped>>
     \/ /\ countdown[h] <= 0
        /\ Drop(h)
  /\ UNCHANGED <<stopped, pass, kato, asked, connVars>>

\* Mutated: silence costs nothing.
VisitSilentStays(h) ==
  /\ h \in todo /\ pend[h] = 0
  /\ h \notin broken
  /\ todo' = todo \ {h}
  /\ UNCHANGED <<stopped, hosts, pass, dropped, timerVars, connVars>>

\* poll_for_msg returns -EAGAIN: the host stays if its countdown allows.
VisitSilent(h) ==
  /\ h \in todo /\ pend[h] = 0
  /\ h \notin broken
  /\ countdown' = [countdown EXCEPT ![h] = @ - 1]
  /\ idle' = [idle EXCEPT ![h] = @ + 1]
  /\ \/ /\ countdown[h] - 1 > 0
        /\ todo' = todo \ {h}
        /\ UNCHANGED <<hosts, dropped>>
     \/ /\ countdown[h] - 1 <= 0
        /\ Drop(h)
  /\ UNCHANGED <<stopped, pass, kato, asked, connVars>>

\* Mutated: hosts whose connection broke are left.
CloseWorkingHosts ==
  /\ ~pass /\ stopped
  /\ hosts # {}
  /\ hosts' = hosts \cap broken
  /\ dropped' = dropped \cup (hosts \ broken)
  /\ UNCHANGED <<stopped, todo, pass, timerVars, connVars>>

\* out: the hosts that are left are disconnected and freed.
CloseHosts ==
  /\ ~pass /\ stopped
  /\ hosts # {}
  /\ hosts' = {}
  /\ dropped' = dropped \cup hosts
  /\ UNCHANGED <<stopped, todo, pass, timerVars, connVars>>

-----------------------------------------------------------------------------
\* What the hosts and the user do.
SendRequest(h) ==
  /\ h \in hosts \ broken
  /\ pend[h] < MaxPend
  /\ sent < MaxReq
  /\ pend' = [pend EXCEPT ![h] = @ + 1]
  /\ sent' = sent + 1
  /\ UNCHANGED <<stopped, hosts, todo, pass, dropped, timerVars, broken>>

Break(h) ==
  /\ h \in hosts \ broken
  /\ broken' = broken \cup {h}
  /\ UNCHANGED <<stopped, hosts, todo, pass, dropped, timerVars, pend, sent>>

Stop ==
  /\ ~stopped
  /\ stopped' = TRUE
  /\ UNCHANGED <<hosts, todo, pass, dropped, timerVars, connVars>>

Terminated == stopped /\ ~pass /\ hosts = {} /\ UNCHANGED vars

Visit(h) ==
  \/ \E r \in Request : handle_request(h, r)
  \/ VisitBroken(h) \/ VisitSilent(h)

host_thread == BeginPass \/ EndPass \/ CloseHosts \/ \E h \in Host : Visit(h)

Next ==
  \/ host_thread
  \/ \E h \in Host : AddHost(h) \/ SendRequest(h) \/ Break(h)
  \/ Stop
  \/ Terminated

Spec == Init /\ [][Next]_vars

\* host_thread keeps running.  Hosts need not send or break anything.
FairSpec == Spec /\ WF_vars(host_thread)

-----------------------------------------------------------------------------
TypeOK ==
  /\ stopped \in BOOLEAN /\ pass \in BOOLEAN
  /\ hosts \in SUBSET Host /\ todo \in SUBSET hosts
  /\ dropped \in SUBSET (Host \ hosts) /\ broken \in SUBSET Host
  /\ kato \in [Host -> Int] /\ countdown \in [Host -> Int]
  /\ pend \in [Host -> Nat] /\ sent \in Nat
  /\ asked \in [Host -> Nat] /\ idle \in [Host -> Nat]
  /\ ~pass => todo = {}

\* The silent visits that a time-out of n visits comes to.  One that an int can
\* hold comes to n; 0 and one that becomes negative end the connection at the
\* first silent visit.
Granted(n) == IF ToInt(n) > 0 THEN ToInt(n) ELSE 1

\* While a host is connected its countdown is what is left of the silent visits
\* that its time-out, converted to an int, gives it, whatever requests it sends.
CountdownInv ==
  \A h \in hosts :
    /\ kato[h] = ToInt(asked[h]) /\ countdown[h] = kato[h] - idle[h]
    /\ countdown[h] > 0 \/ idle[h] = 0

\* A host whose connection works and whose requests succeed is only dropped
\* once it has been silent for the visits that it is granted, neither sooner nor
\* later, unless the program is stopped.
DroppedWhenDue ==
  [][\A h \in hosts \ hosts' :
       \/ h \in broken \/ pend[h] > 0 \/ stopped
       \/ idle'[h] = Granted(asked[h])]_vars

\* What a host may expect: it is not dropped for silence before its time-out has
\* passed, and not at all if it asked for none.  handle_set_features multiplies
\* and converts the time-out unchecked, so this fails for 0 and for a great one.
NeverEarly ==
  [][\A h \in hosts \ hosts' :
       \/ h \in broken \/ pend[h] > 0 \/ stopped
       \/ asked[h] # 0 /\ idle'[h] >= asked[h]]_vars

\* A host that falls silent is dropped; so is one whose connection breaks once
\* its requests that have arrived are handled.
SilentIsDropped == \A h \in Host : h \in hosts ~> (h \notin hosts \/ pend[h] > 0)

\* A request is handled, or its host is dropped, as long as no other host can
\* keep host_thread busy for ever.
RequestServed == \A h \in Host : pend[h] > 0 ~> (pend[h] = 0 \/ h \notin hosts)

\* Once the program is stopped host_thread closes every connection.
StopCloses == stopped ~> hosts = {}
=============================================================================
