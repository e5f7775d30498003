------------------------------- MODULE Shutdown -------------------------------
(***************************************************************************)
(* The life of the interface threads of dem as the main thread sees it:    *)
(* init_interface_threads creates one per interface, poll_loop runs until  *)
(* stopped is set, cleanup_threads signals the threads, waits for          *)
(* num_interfaces to become 0 and then joins, main frees the array of      *)
(* interfaces and returns.  The global num_interfaces is at once the size  *)
(* of the array and the number of threads that have not finished; every    *)
(* thread decrements it without a lock, so its load and its store are      *)
(* steps of their own.                                                     *)
(***************************************************************************)
EXTENDS Integers, FiniteSets

CONSTANTS NumIfaces,        \* configured interfaces
          CreateMayFail     \* may pthread_create fail?

ASSUME ShutdownAssumption ==
  /\ NumIfaces \in Nat \ {0}
  /\ CreateMayFail \in BOOLEAN

Thread == 0 .. NumIfaces - 1

VARIABLES
  stopped,         \* the global flag
  ignored,         \* SIGTERM is ignored, by the whole process
  term,            \* a SIGTERM has been sent to dem
  num_interfaces,  \* the global counter
  mpc,             \* where main is: init, create, poll, kill, wait, join, free,
                   \* done, crash
  i,               \* the loop variable of init_interface_threads and cleanup_threads
  joined,          \* threads that main has joined
  freed,           \* free(interfaces) has been called
  tpc,             \* where each thread is: none, start, run, cleanup, load, store, exit
  reg              \* the value of num_interfaces that a thread has loaded, or 0

sigVars    == <<ignored, term>>
mainVars   == <<mpc, i, joined, freed>>
threadVars == <<tpc, reg>>
vars == <<sigVars, stopped, num_interfaces, mainVars, threadVars>>

Init ==
  /\ stopped = FALSE
  /\ ignored = FALSE /\ term = FALSE
  /\ num_interfaces = NumIfaces
  /\ mpc = "init"
  /\ i = 0
  /\ joined = {}
  /\ freed = FALSE
  /\ tpc = [t \in Thread |-> "none"]
  /\ reg = [t \in Thread |-> 0]

(***************************************************************************)
(* The main thread.                                                        *)
(***************************************************************************)
\* The lists are built and the targets asked.  A stop that came meanwhile is
\* forgotten.
Ready ==
  /\ mpc = "init"
  /\ stopped' = FALSE
  /\ mpc' = "create"
  /\ UNCHANGED <<sigVars, num_interfaces, i, joined, freed, threadVars>>

CreateThread ==
  /\ mpc = "create"
  /\ i < num_interfaces
  /\ tpc' = [tpc EXCEPT ![i] = "start"]
  /\ i' = i + 1
  /\ UNCHANGED <<sigVars, stopped, num_interfaces, mpc, joined, freed, reg>>

\* pthread_create fails: main goes to out3 and leaves the threads it created.
CreateFails ==
  /\ CreateMayFail
  /\ mpc = "create"
  /\ i < num_interfaces
  /\ mpc' = "free"
  /\ UNCHANGED <<sigVars, stopped, num_interfaces, i, joined, freed, threadVars>>

AllCreated ==
  /\ mpc = "create"
  /\ i >= num_interfaces
  /\ mpc' = "poll"
  /\ UNCHANGED <<sigVars, stopped, num_interfaces, i, joined, freed, threadVars>>

LeavePollLoop ==
  /\ mpc = "poll"
  /\ stopped
  /\ i' = 0
  /\ mpc' = "kill"
  /\ UNCHANGED <<sigVars, stopped, num_interfaces, joined, freed, threadVars>>

\* A SIGTERM to a thread, of a program that is already to stop.
KillThread ==
  /\ mpc = "kill"
  /\ i < num_interfaces
  /\ tpc[i] # "none"
  /\ i' = i + 1
  /\ UNCHANGED <<sigVars, stopped, num_interfaces, mpc, joined, freed, threadVars>>

EndKill ==
  /\ mpc = "kill"
  /\ i >= num_interfaces
  /\ mpc' = "wait"
  /\ UNCHANGED <<sigVars, stopped, num_interfaces, i, joined, freed, threadVars>>

\* pthread_kill or pthread_join of a thread that was never created: calloc has
\* left a null handle, which is followed.
NullHandle ==
  /\ mpc \in {"kill", "join"}
  /\ i < num_interfaces
  /\ tpc[i] = "none"
  /\ mpc' = "crash"
  /\ UNCHANGED <<sigVars, stopped, num_interfaces, i, joined, freed, threadVars>>

\* Mutated: the wait has no time-out.
EndWaitAtZero ==
  /\ mpc = "wait"
  /\ num_interfaces = 0
  /\ i' = 0
  /\ mpc' = "join"
  /\ UNCHANGED <<sigVars, stopped, num_interfaces, joined, freed, threadVars>>

\* The wait of cleanup_threads ends when the counter is 0, or after 100 naps
\* of 100 us; a thread may need 100 ms to notice that it is to stop.
EndWait ==
  /\ mpc = "wait"
  /\ i' = 0
  /\ mpc' = "join"
  /\ UNCHANGED <<sigVars, stopped, num_interfaces, joined, freed, threadVars>>

JoinThread ==
  /\ mpc = "join"
  /\ i < num_interfaces
  /\ tpc[i] = "exit"
  /\ joined' = joined \cup {i}
  /\ i' = i + 1
  /\ UNCHANGED <<sigVars, stopped, num_interfaces, mpc, freed, threadVars>>

EndJoin ==
  /\ mpc = "join"
  /\ i >= num_interfaces
  /\ mpc' = "free"
  /\ UNCHANGED <<sigVars, stopped, num_interfaces, i, joined, freed, threadVars>>

\* out3: the array of interfaces is freed, then the lists, the json tree ...
FreeInterfaces ==
  /\ mpc = "free"
  /\ ~freed
  /\ freed' = TRUE
  /\ UNCHANGED <<sigVars, stopped, num_interfaces, mpc, i, joined, threadVars>>

\* main returns, which ends the process and every thread left in it.
Return ==
  /\ mpc = "free"
  /\ freed
  /\ mpc' = "done"
  /\ UNCHANGED <<sigVars, stopped, num_interfaces, i, joined, freed, threadVars>>

(***************************************************************************)
(* An interface thread.                                                    *)
(***************************************************************************)
Alive == mpc \notin {"done", "crash"}

\* start_pseudo_target succeeds; the thread then has SIGTERM ignored, which is
\* not a matter of the thread alone; and host_thread is created, or not.
StartListener(t) ==
  /\ Alive /\ tpc[t] = "start"
  /\ \E next \in {"run", "cleanup"} : tpc' = [tpc EXCEPT ![t] = next]
  /\ ignored' = TRUE
  /\ UNCHANGED <<term, stopped, num_interfaces, mainVars, reg>>

\* start_pseudo_target fails: there is no listener to destroy.
StartFails(t) ==
  /\ Alive /\ tpc[t] = "start"
  /\ tpc' = [tpc EXCEPT ![t] = "load"]
  /\ UNCHANGED <<sigVars, stopped, num_interfaces, mainVars, reg>>

\* The accept loop ends, and host_thread is joined.
LeaveLoop(t) ==
  /\ Alive /\ tpc[t] = "run"
  /\ stopped
  /\ tpc' = [tpc EXCEPT ![t] = "cleanup"]
  /\ UNCHANGED <<sigVars, stopped, num_interfaces, mainVars, reg>>

\* Mutated: the listener's destruction counts the thread as finished, too.
DestroyListenerCounts(t) ==
  /\ Alive /\ tpc[t] = "cleanup"
  /\ tpc' = [tpc EXCEPT ![t] = "load"]
  /\ num_interfaces' = num_interfaces - 1
  /\ UNCHANGED <<sigVars, stopped, mainVars, reg>>

\* iface->ops->destroy_listener: the last use of the interface.
DestroyListener(t) ==
  /\ Alive /\ tpc[t] = "cleanup"
  /\ tpc' = [tpc EXCEPT ![t] = "load"]
  /\ UNCHANGED <<sigVars, stopped, num_interfaces, mainVars, reg>>

LoadCount(t) ==
  /\ Alive /\ tpc[t] = "load"
  /\ reg' = [reg EXCEPT ![t] = num_interfaces]
  /\ tpc' = [tpc EXCEPT ![t] = "store"]
  /\ UNCHANGED <<sigVars, stopped, num_interfaces, mainVars>>

StoreCount(t) ==
  /\ Alive /\ tpc[t] = "store"
  /\ num_interfaces' = reg[t] - 1
  /\ reg' = [reg EXCEPT ![t] = 0]
  /\ tpc' = [tpc EXCEPT ![t] = "exit"]
  /\ UNCHANGED <<sigVars, stopped, mainVars>>

-----------------------------------------------------------------------------
\* shutdown_dem, from the handler of SIGINT or from the RESTful interface.
Stop ==
  /\ ~stopped /\ Alive
  /\ stopped' = TRUE
  /\ UNCHANGED <<sigVars, num_interfaces, mainVars, threadVars>>

\* A SIGTERM, which signal_handler turns into a stop unless it is ignored.  To
\* a program that is already to stop it says nothing new.
Term ==
  /\ ~term /\ ~stopped /\ Alive
  /\ term' = TRUE
  /\ stopped' = ~ignored
  /\ UNCHANGED <<ignored, num_interfaces, mainVars, threadVars>>

Terminated == ~Alive /\ UNCHANGED vars

MainStep ==
  \/ Ready \/ CreateThread \/ CreateFails \/ AllCreated \/ LeavePollLoop
  \/ KillThread \/ EndKill \/ NullHandle \/ EndWait
  \/ JoinThread \/ EndJoin \/ FreeInterfaces \/ Return

ThreadStep(t) ==
  \/ StartListener(t) \/ StartFails(t) \/ LeaveLoop(t) \/ DestroyListener(t)
  \/ LoadCount(t) \/ StoreCount(t)

Next ==
  \/ MainStep
  \/ \E t \in Thread : ThreadStep(t)
  \/ Stop \/ Term
  \/ Terminated

Spec == Init /\ [][Next]_vars

\* Every thread keeps running once it exists.  Nobody needs to stop the
\* program.
FairSpec == Spec /\ WF_vars(MainStep) /\ \A t \in Thread : WF_vars(ThreadStep(t))

-----------------------------------------------------------------------------
TypeOK ==
  /\ stopped \in BOOLEAN /\ ignored \in BOOLEAN /\ term \in BOOLEAN
  /\ num_interfaces \in Int
  /\ mpc \in {"init", "create", "poll", "kill", "wait", "join", "free", "done", "crash"}
  /\ i \in 0 .. NumIfaces
  /\ joined \in SUBSET Thread
  /\ freed \in BOOLEAN
  /\ tpc \in [Thread -> {"none", "start", "run", "cleanup", "load", "store", "exit"}]
  /\ reg \in [Thread -> Int]

Finished == {t \in Thread : tpc[t] = "exit"}
UsesInterface == {t \in Thread : tpc[t] \in {"start", "run", "cleanup"}}

\* The unlocked decrements may lose one another, which leaves the counter too
\* high, but never too low: main never stops waiting too early because of them.
\* A stale store may raise it again, but never above its first value, so that no
\* loop over it leaves the array.
CountInv ==
  /\ NumIfaces - Cardinality(Finished) <= num_interfaces
  /\ num_interfaces <= NumIfaces
  /\ \A t \in Thread :
       tpc[t] = "store" => /\ NumIfaces - Cardinality(Finished) <= reg[t]
                           /\ reg[t] <= NumIfaces
  /\ mpc \in {"init", "create"} => \A t \in Thread : i <= t => tpc[t] = "none"

\* Once dem has started and is told to stop, it ends: the wait ends, and no join
\* is for a thread that goes on.  It may end by following a null handle.
StopTerminates == stopped /\ mpc # "init" ~> ~Alive

\* What the comments in cleanup_threads say of its loops: they go over the
\* threads there are.  Threads that fail to start make the loop that creates
\* them end early, and a stale store then raises num_interfaces again.
OnlyCreated == mpc # "crash"

\* What main installs signal_handler for: a signal stops dem.
TermStops == term ~> ~Alive
StopHeeded == stopped ~> ~Alive

\* What the comment in cleanup_threads says its wait is for: no thread is still
\* at work on its interface when main goes on to free the interfaces.
ThreadsCleanedUp == freed /\ Alive => UsesInterface = {}

\* What the second comment in cleanup_threads says: every thread is joined, or
\* its memory is not released.
AllJoined == mpc = "done" => joined = Thread
=============================================================================
