---------------------------- MODULE ShutdownProofs ----------------------------
(***************************************************************************)
(* Proofs about the counter of interface threads, for every number of      *)
(* interfaces.                                                             *)
(***************************************************************************)
EXTENDS Shutdown, FiniteSetTheorems, TLAPS

(***************************************************************************)
(* The number of finished threads.                                         *)
(***************************************************************************)
LEMMA FinishedFinite == IsFiniteSet(Finished) /\ Cardinality(Finished) \in Nat
<1>1. IsFiniteSet(Thread)
  BY FS_Interval, ShutdownAssumption DEF Thread
<1>2. QED
  BY <1>1, FS_Subset, FS_CardinalityType DEF Finished

\* A thread that finishes is counted once.
LEMMA OneMoreFinished ==
  ASSUME NEW t \in Thread, tpc[t] # "exit", Finished' = Finished \cup {t}
  PROVE  Cardinality(Finished') = Cardinality(Finished) + 1
<1>1. t \notin Finished
  BY DEF Finished
<1>2. QED
  BY <1>1, FinishedFinite, FS_AddElement

(***************************************************************************)
(* The types and the counter, which need each other: the loops of main run *)
(* up to the counter.                                                      *)
(***************************************************************************)
LEMMA ShutdownInit == Init => TypeOK /\ CountInv
<1> SUFFICES ASSUME Init PROVE TypeOK /\ CountInv
  OBVIOUS
<1>1. Finished = {}
  BY DEF Init, Finished
<1>2. Cardinality(Finished) = 0
  BY <1>1, FS_EmptySet
<1>3. reg \in [Thread -> Int]
  BY DEF Init
<1>4. tpc \in [Thread -> {"none", "start", "run", "cleanup", "load", "store", "exit"}]
  BY DEF Init
<1>5. i \in 0 .. NumIfaces /\ num_interfaces \in Int
  BY ShutdownAssumption DEF Init
<1>6. TypeOK
  BY <1>3, <1>4, <1>5 DEF Init, TypeOK
<1>7. QED
  BY <1>2, <1>6, ShutdownAssumption DEF Init, CountInv

\* A step that finishes no thread and touches neither the counter nor what a
\* thread has loaded.
LEMMA CountUntouched ==
  ASSUME TypeOK, CountInv, Finished' = Finished,
         UNCHANGED <<num_interfaces, reg>>,
         \A t \in Thread : tpc'[t] = "store" => tpc[t] = "store",
         mpc' \in {"init", "create"} => \A t \in Thread : i' <= t => tpc'[t] = "none"
  PROVE  CountInv'
BY DEF CountInv

\* A step of thread t that only changes where it is.
LEMMA ThreadMoves ==
  ASSUME TypeOK, CountInv, NEW t \in Thread, NEW pc,
         pc \in {"run", "cleanup", "load"},
         tpc[t] \notin {"none", "exit"},
         tpc' = [tpc EXCEPT ![t] = pc],
         ignored' \in BOOLEAN,
         UNCHANGED <<term, stopped, num_interfaces, mainVars, reg>>
  PROVE  TypeOK' /\ CountInv'
<1>1. TypeOK'
  BY DEF TypeOK, mainVars
<1>2. Finished' = Finished
  BY DEF TypeOK, Finished
<1>3. \A u \in Thread : tpc'[u] = "store" => tpc[u] = "store"
  BY DEF TypeOK
<1>4. mpc' \in {"init", "create"} => \A u \in Thread : i' <= u => tpc'[u] = "none"
  BY DEF TypeOK, CountInv, mainVars
<1>5. QED
  BY <1>1, <1>2, <1>3, <1>4, CountUntouched

LEMMA ShutdownStep == TypeOK /\ CountInv /\ [Next]_vars => TypeOK' /\ CountInv'
<1> SUFFICES ASSUME TypeOK, CountInv, [Next]_vars PROVE TypeOK' /\ CountInv'
  OBVIOUS
<1>0. NumIfaces \in Nat /\ num_interfaces <= NumIfaces
  BY ShutdownAssumption DEF CountInv
<1>1. CASE CreateThread
  <2>1. i \in Thread /\ tpc[i] = "none"
    BY <1>0, <1>1 DEF CreateThread, TypeOK, Thread, CountInv
  <2>2. TypeOK'
    BY <1>0, <1>1, <2>1 DEF CreateThread, TypeOK, sigVars
  <2>3. Finished' = Finished
    BY <1>1, <2>1 DEF CreateThread, TypeOK, Finished
  <2>4. \A t \in Thread : tpc'[t] = "store" => tpc[t] = "store"
    BY <1>1, <2>1 DEF CreateThread, TypeOK
  <2>5. mpc' \in {"init", "create"} => \A t \in Thread : i' <= t => tpc'[t] = "none"
    BY <1>1, <2>1 DEF CreateThread, TypeOK, Thread, CountInv
  <2>6. QED
    BY <1>1, <2>2, <2>3, <2>4, <2>5, CountUntouched DEF CreateThread
<1>2. CASE \/ CreateFails \/ AllCreated \/ LeavePollLoop \/ KillThread \/ EndKill
           \/ NullHandle \/ EndWait \/ EndJoin \/ FreeInterfaces \/ Return
  <2>1. /\ UNCHANGED <<num_interfaces, tpc, reg>>
        /\ mpc' \notin {"init", "create"}
    BY <1>2 DEF CreateFails, AllCreated, LeavePollLoop, KillThread, EndKill, NullHandle,
                EndWait, EndJoin, FreeInterfaces, Return, threadVars
  <2>2. i' \in 0 .. NumIfaces
    BY <1>0, <1>2 DEF CreateFails, AllCreated, LeavePollLoop, KillThread, EndKill,
                      NullHandle, EndWait, EndJoin, FreeInterfaces, Return, TypeOK
  <2>3. /\ UNCHANGED <<sigVars, stopped, joined>>
        /\ freed' \in BOOLEAN
        /\ mpc' \in {"poll", "kill", "wait", "join", "free", "done", "crash"}
    BY <1>2 DEF CreateFails, AllCreated, LeavePollLoop, KillThread, EndKill, NullHandle,
                EndWait, EndJoin, FreeInterfaces, Return, TypeOK
  <2>4. TypeOK'
    BY <2>1, <2>2, <2>3 DEF TypeOK, sigVars
  <2>5. QED
    BY <2>1, <2>4, CountUntouched DEF Finished
<1>3. CASE JoinThread
  <2>1. i \in Thread
    BY <1>0, <1>3 DEF JoinThread, TypeOK, Thread
  <2>2. TypeOK'
    BY <1>0, <1>3, <2>1 DEF JoinThread, TypeOK, sigVars, threadVars, Thread
  <2>3. QED
    BY <1>3, <2>2, CountUntouched DEF JoinThread, threadVars, Finished
<1>4. ASSUME NEW t \in Thread,
             StartListener(t) \/ StartFails(t) \/ LeaveLoop(t) \/ DestroyListener(t)
      PROVE  TypeOK' /\ CountInv'
  BY <1>4, ThreadMoves DEF StartListener, StartFails, LeaveLoop, DestroyListener, sigVars, TypeOK
<1>5. ASSUME NEW t \in Thread, LoadCount(t) PROVE TypeOK' /\ CountInv'
  <2>1. TypeOK'
    BY <1>5 DEF LoadCount, TypeOK, sigVars, mainVars
  <2>2. Finished' = Finished
    BY <1>5 DEF LoadCount, TypeOK, Finished
  <2>3. QED
    BY <1>5, <2>1, <2>2 DEF LoadCount, TypeOK, CountInv, mainVars
<1>6. ASSUME NEW t \in Thread, StoreCount(t) PROVE TypeOK' /\ CountInv'
  <2>1. TypeOK'
    BY <1>6 DEF StoreCount, TypeOK, sigVars, mainVars
  <2>2. Finished' = Finished \cup {t} /\ tpc[t] # "exit"
    BY <1>6 DEF StoreCount, TypeOK, Finished
  <2>3. /\ Cardinality(Finished) \in Nat
        /\ Cardinality(Finished') = Cardinality(Finished) + 1
    BY <2>2, FinishedFinite, OneMoreFinished
  <2>4. NumIfaces - Cardinality(Finished) <= reg[t] /\ reg[t] <= NumIfaces
    BY <1>6 DEF StoreCount, CountInv
  <2>5. num_interfaces' = reg[t] - 1 /\ reg[t] \in Int
    BY <1>6 DEF StoreCount, TypeOK
  <2>6. /\ NumIfaces - Cardinality(Finished') <= num_interfaces'
        /\ num_interfaces' <= NumIfaces
    BY <1>0, <2>3, <2>4, <2>5
  <2>7. ASSUME NEW u \in Thread, tpc'[u] = "store"
        PROVE  NumIfaces - Cardinality(Finished') <= reg'[u] /\ reg'[u] <= NumIfaces
    <3>1. tpc[u] = "store" /\ reg'[u] = reg[u] /\ reg[u] \in Int
      BY <1>6, <2>7 DEF StoreCount, TypeOK
    <3>2. QED
      BY <1>0, <2>3, <3>1 DEF CountInv
  <2>8. mpc' \in {"init", "create"} => \A u \in Thread : i' <= u => tpc'[u] = "none"
    BY <1>6 DEF StoreCount, mainVars, TypeOK, CountInv
  <2>9. QED
    BY <2>1, <2>6, <2>7, <2>8 DEF CountInv
<1>7. CASE Stop \/ Term \/ Terminated \/ UNCHANGED vars
  <2>1. /\ UNCHANGED <<num_interfaces, mainVars, threadVars>>
        /\ stopped' \in BOOLEAN /\ ignored' \in BOOLEAN /\ term' \in BOOLEAN
    BY <1>7 DEF Stop, Term, Terminated, vars, sigVars, TypeOK
  <2>2. TypeOK'
    BY <2>1 DEF TypeOK, mainVars, threadVars
  <2>3. QED
    BY <2>1, <2>2, CountUntouched DEF mainVars, threadVars, Finished, CountInv
<1>8. CASE Ready
  <2>1. TypeOK'
    BY <1>8 DEF Ready, TypeOK, sigVars, threadVars
  <2>2. UNCHANGED <<i, num_interfaces, tpc, reg>> /\ mpc = "init"
    BY <1>8 DEF Ready, threadVars
  <2>3. QED
    BY <2>1, <2>2, CountUntouched DEF Finished, CountInv
<1>9. QED
  BY <1>1, <1>2, <1>3, <1>4, <1>5, <1>6, <1>7, <1>8 DEF Next, MainStep, ThreadStep

\* However many interface threads race to decrement num_interfaces, the counter
\* is never lower than the number of threads that have not finished.
THEOREM CountCorrect == Spec => [](TypeOK /\ CountInv)
BY ShutdownInit, ShutdownStep, PTL DEF Spec
=============================================================================
