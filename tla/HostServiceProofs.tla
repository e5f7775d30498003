-------------------------- MODULE HostServiceProofs --------------------------
(***************************************************************************)
(* Proofs about the time-outs of host_thread, for every set of hosts, any  *)
(* requests, every RETRY_COUNT and every width of an int.                  *)
(***************************************************************************)
EXTENDS HostService, TLAPS

(***************************************************************************)
(* What the conversion to int does to a time-out.                          *)
(***************************************************************************)
LEMMA SmallRemainder ==
  ASSUME NEW m \in Nat, NEW n \in Nat, n < m
  PROVE  n % m = n
OBVIOUS

LEMMA ToIntType ==
  ASSUME NEW n \in Nat
  PROVE  ToInt(n) \in Int
<1>1. UINT_RANGE \in Nat /\ UINT_RANGE > 0
  BY HostServiceAssumption DEF UINT_RANGE
<1>2. n % UINT_RANGE \in Int
  BY <1>1
<1>3. QED
  BY <1>1, <1>2 DEF ToInt

\* A time-out that an int can hold is kept.
LEMMA ToIntInRange ==
  ASSUME NEW n \in Nat, n <= INT_MAX
  PROVE  ToInt(n) = n
<1>1. UINT_RANGE \in Nat /\ n < UINT_RANGE
  BY HostServiceAssumption DEF UINT_RANGE
<1>2. n % UINT_RANGE = n
  BY <1>1, SmallRemainder
<1>3. QED
  BY <1>2 DEF ToInt

(***************************************************************************)
(* Type correctness.                                                       *)
(***************************************************************************)
\* Every variable of host_thread's service loop keeps its type; in particular
\* a pass only visits hosts that are still in host_list.
THEOREM TypeCorrect == Spec => []TypeOK
<1>1. Init => TypeOK
  <2> SUFFICES ASSUME Init PROVE TypeOK
    OBVIOUS
  <2>1. kato \in [Host -> Int] /\ countdown \in [Host -> Int]
    BY DEF Init
  <2>2. pend \in [Host -> Nat] /\ asked \in [Host -> Nat] /\ idle \in [Host -> Nat]
    BY DEF Init
  <2>3. QED
    BY <2>1, <2>2 DEF Init, TypeOK
<1>2. TypeOK /\ [Next]_vars => TypeOK'
  <2> SUFFICES ASSUME TypeOK, [Next]_vars PROVE TypeOK'
    OBVIOUS
  <2> USE DEF TypeOK
  <2>1. ASSUME NEW h \in Host, AddHost(h) PROVE TypeOK'
    BY <2>1, HostServiceAssumption DEF AddHost, connVars
  <2>2. CASE BeginPass \/ EndPass \/ CloseHosts
    BY <2>2 DEF BeginPass, EndPass, CloseHosts, timerVars, connVars
  <2>3. ASSUME NEW h \in Host, HandleOk(h) PROVE TypeOK'
    BY <2>3 DEF HandleOk
  <2>4. ASSUME NEW h \in Host, NEW k \in Kato, HandleSetKato(h, k) PROVE TypeOK'
    <3>1. k * KATO_VISITS \in Nat
      BY HostServiceAssumption DEF KATO_VISITS
    <3>2. ToInt(k * KATO_VISITS) \in Int
      BY <3>1, ToIntType
    <3>3. QED
      BY <2>4, <3>1, <3>2 DEF HandleSetKato
  <2>5. ASSUME NEW h \in Host, HandleFails(h) PROVE TypeOK'
    BY <2>5 DEF HandleFails, Drop, timerVars
  <2>6. ASSUME NEW h \in Host, VisitBroken(h) PROVE TypeOK'
    BY <2>6 DEF VisitBroken, Drop, timerVars, connVars
  <2>7. ASSUME NEW h \in Host, VisitSilent(h) PROVE TypeOK'
    BY <2>7 DEF VisitSilent, Drop, connVars
  <2>8. ASSUME NEW h \in Host, SendRequest(h) PROVE TypeOK'
    BY <2>8 DEF SendRequest, timerVars
  <2>9. ASSUME NEW h \in Host, Break(h) PROVE TypeOK'
    BY <2>9 DEF Break, timerVars
  <2>10. CASE Stop
    BY <2>10 DEF Stop, timerVars, connVars
  <2>11. CASE Terminated \/ UNCHANGED vars
    BY <2>11 DEF Terminated, vars, timerVars, connVars
  <2>12. QED
    BY <2>1, <2>2, <2>3, <2>4, <2>5, <2>6, <2>7, <2>8, <2>9, <2>10, <2>11
       DEF Next, host_thread, Visit, handle_request, Request
<1>3. QED
  BY <1>1, <1>2, PTL DEF Spec

(***************************************************************************)
(* The countdown.                                                          *)
(***************************************************************************)
\* What CountdownInv says of one host.
Counted(h) ==
  /\ kato[h] = ToInt(asked[h]) /\ countdown[h] = kato[h] - idle[h]
  /\ countdown[h] > 0 \/ idle[h] = 0

LEMMA CountdownStep == TypeOK /\ CountdownInv /\ [Next]_vars => CountdownInv'
<1> SUFFICES ASSUME TypeOK, CountdownInv, [Next]_vars, NEW g \in hosts'
             PROVE  Counted(g)'
  BY DEF CountdownInv, Counted
<1>0. g \in hosts => Counted(g)
  BY DEF CountdownInv, Counted
<1> USE DEF TypeOK
<1>1. ASSUME NEW h \in Host, AddHost(h) PROVE Counted(g)'
  <2>1. ToInt(RETRY_COUNT) = RETRY_COUNT
    BY ToIntInRange, HostServiceAssumption
  <2>2. QED
    BY <1>0, <1>1, <2>1, HostServiceAssumption DEF AddHost, Counted, connVars
<1>2. CASE BeginPass \/ EndPass \/ CloseHosts
  BY <1>0, <1>2 DEF BeginPass, EndPass, CloseHosts, timerVars, Counted
<1>3. ASSUME NEW h \in Host, HandleOk(h) PROVE Counted(g)'
  BY <1>0, <1>3 DEF HandleOk, Counted
<1>4. ASSUME NEW h \in Host, NEW k \in Kato, HandleSetKato(h, k) PROVE Counted(g)'
  <2>1. k * KATO_VISITS \in Nat
    BY HostServiceAssumption DEF KATO_VISITS
  <2>2. ToInt(k * KATO_VISITS) \in Int
    BY <2>1, ToIntType
  <2>3. QED
    BY <1>0, <1>4, <2>1, <2>2 DEF HandleSetKato, Counted
<1>5. ASSUME NEW h \in Host, HandleFails(h) PROVE Counted(g)'
  BY <1>0, <1>5 DEF HandleFails, Drop, timerVars, Counted
<1>6. ASSUME NEW h \in Host, VisitBroken(h) PROVE Counted(g)'
  BY <1>0, <1>6 DEF VisitBroken, Drop, timerVars, Counted
<1>7. ASSUME NEW h \in Host, VisitSilent(h) PROVE Counted(g)'
  BY <1>0, <1>7 DEF VisitSilent, Drop, Counted
<1>8. ASSUME NEW h \in Host, SendRequest(h) \/ Break(h) PROVE Counted(g)'
  BY <1>0, <1>8 DEF SendRequest, Break, timerVars, Counted
<1>9. CASE Stop \/ Terminated \/ UNCHANGED vars
  BY <1>0, <1>9 DEF Stop, Terminated, vars, timerVars, Counted
<1>10. QED
  BY <1>1, <1>2, <1>3, <1>4, <1>5, <1>6, <1>7, <1>8, <1>9
     DEF Next, host_thread, Visit, handle_request, Request

\* The countdown of a connected host is what is left of the silent visits that
\* its keep-alive time-out gives it once it is an int.
THEOREM CountdownCorrect == Spec => []CountdownInv
<1>1. Init => CountdownInv
  BY DEF Init, CountdownInv
<1>2. QED
  BY <1>1, CountdownStep, TypeCorrect, PTL DEF Spec

\* host_thread gives up on a silent host after exactly the silent visits that
\* its time-out grants it, whatever that is and whatever the other hosts do.
THEOREM DroppedWhenDueCorrect == Spec => DroppedWhenDue
<1> DEFINE Due(h) ==
      \/ h \in broken \/ pend[h] > 0 \/ stopped
      \/ idle'[h] = Granted(asked[h])
<1>1. TypeOK /\ CountdownInv /\ [Next]_vars => [\A h \in hosts \ hosts' : Due(h)]_vars
  <2> SUFFICES ASSUME TypeOK, CountdownInv, Next, NEW g \in hosts, g \notin hosts'
               PROVE  Due(g)
    OBVIOUS
  <2>0. Counted(g)
    BY DEF CountdownInv, Counted
  <2> USE DEF TypeOK
  <2>1. CASE BeginPass \/ EndPass \/ CloseHosts
    BY <2>1 DEF BeginPass, EndPass, CloseHosts
  <2>2. ASSUME NEW h \in Host,
               \/ AddHost(h) \/ HandleOk(h) \/ SendRequest(h) \/ Break(h)
               \/ \E k \in Kato : HandleSetKato(h, k)
        PROVE  Due(g)
    BY <2>2 DEF AddHost, HandleOk, HandleSetKato, SendRequest, Break
  <2>3. ASSUME NEW h \in Host, HandleFails(h) \/ VisitBroken(h) PROVE Due(g)
    BY <2>3 DEF HandleFails, VisitBroken, Drop
  <2>4. ASSUME NEW h \in Host, VisitSilent(h) PROVE Due(g)
    BY <2>0, <2>4 DEF VisitSilent, Drop, Counted, Granted
  <2>5. CASE Stop \/ Terminated
    BY <2>5 DEF Stop, Terminated, vars
  <2>6. QED
    BY <2>1, <2>2, <2>3, <2>4, <2>5
       DEF Next, host_thread, Visit, handle_request, Request
<1>2. QED
  BY <1>1, TypeCorrect, CountdownCorrect, PTL DEF Spec, DroppedWhenDue
=============================================================================
