------------------------------ MODULE HostQueue ------------------------------
(***************************************************************************)
(* The hand-over of host connections inside one pseudo target of the       *)
(* discovery controller (dem/pseudo_target.c; endpoint/pseudo_target.c     *)
(* holds a copy of the same code).                                         *)
(*                                                                         *)
(* interface_thread accepts a connection, allocates an endpoint for it and *)
(* puts it in a ring; host_thread takes endpoints out of the ring, keeps   *)
(* them in its host_list, serves them and frees them.  The ring has no     *)
(* lock: head is written by interface_thread only, tail by host_thread     *)
(* only, the slots by both.  Every shared load or store is a step.  The    *)
(* two stores of add_new_host_conn, and the two of get_new_host_conn, are  *)
(* plain stores to different addresses, so they may become visible in      *)
(* either order; both orders are modelled.                                 *)
(***************************************************************************)
EXTENDS Integers, FiniteSets

CONSTANTS Endpoint,        \* addresses malloc may return for a struct endpoint
          NoEp,            \* the NULL pointer
          HOST_QUEUE_MAX,  \* slots of the ring
          MallocMayFail    \* may malloc of a host_conn fail in host_thread?

ASSUME HostQueueAssumption ==
  /\ NoEp \notin Endpoint
  /\ HOST_QUEUE_MAX \in Nat /\ HOST_QUEUE_MAX >= 2
  /\ MallocMayFail \in BOOLEAN

VARIABLES
  stopped,   \* the global flag, set by the signal handler
  slot,      \* q->ep
  head,      \* q->head
  tail,      \* q->tail
  ppc,       \* where interface_thread is
  pep,       \* its ep, in add_host_to_queue
  pidx,      \* the slot that add_new_host_conn is filling
  cpc,       \* where host_thread is
  cep,       \* the endpoint get_new_host_conn gave it last
  cidx,      \* the slot that get_new_host_conn is emptying
  draining,  \* host_thread is past its label out
  hosts,     \* the endpoints of its host_list
  live       \* the endpoints that are allocated

queueVars    == <<slot, head, tail>>
producerVars == <<ppc, pep, pidx>>
consumerVars == <<cpc, cep, cidx, draining, hosts>>
vars == <<stopped, queueVars, producerVars, consumerVars, live>>

Index == 0 .. HOST_QUEUE_MAX - 1

Succ(i) == (i + 1) % HOST_QUEUE_MAX

\* Mutated: a ring with one endpoint counts as empty.
EmptyWithOne == head = tail \/ Succ(tail) = head

is_empty == head = tail

is_full == Succ(head) = tail

(***************************************************************************)
(* interface_thread.  Its program counter:                                 *)
(*   init    about to start the listener and host_thread                   *)
(*   accept  at the head of its loop, in wait_for_connection               *)
(*   full    in add_host_to_queue, waiting for room                        *)
(*   add     at the is_full test of add_new_host_conn                      *)
(*   store   both stores of add_new_host_conn are still to come            *)
(*   slot    only the store to the slot is still to come                   *)
(*   head    only the store to head is still to come                       *)
(*   join    in pthread_join                                               *)
(*   exit    finished                                                      *)
(***************************************************************************)
PInit ==
  /\ ppc = "init"
  /\ pep = NoEp
  /\ pidx = 0

\* start_pseudo_target or pthread_create fails: nothing runs.
StartFails ==
  /\ ppc = "init"
  /\ ppc' = "exit"
  /\ UNCHANGED <<stopped, queueVars, pep, pidx, consumerVars, live>>

Start ==
  /\ ppc = "init"
  /\ ppc' = "accept"
  /\ cpc' = "loop"
  /\ UNCHANGED <<stopped, queueVars, pep, pidx, cep, cidx, draining, hosts, live>>

\* wait_for_connection returns a connection and run_pseudo_target accepts it.
\* A failure of either leaves nothing behind, so it is no step.
Accept(e) ==
  /\ ppc = "accept"
  /\ ~stopped
  /\ e \notin live
  /\ live' = live \cup {e}
  /\ pep' = e
  /\ ppc' = "full"
  /\ UNCHANGED <<stopped, queueVars, pidx, consumerVars>>

LeaveLoop ==
  /\ ppc = "accept"
  /\ stopped
  /\ ppc' = "join"
  /\ UNCHANGED <<stopped, queueVars, pep, pidx, consumerVars, live>>

\* Mutated: it does not wait for room.
WaitForNothing ==
  /\ ppc = "full"
  /\ ppc' = "add"
  /\ UNCHANGED <<stopped, queueVars, pep, pidx, consumerVars, live>>

\* The wait for room in add_host_to_queue ends when there is room, and also
\* when the program is stopped.
WaitForRoom ==
  /\ ppc = "full"
  /\ ~is_full \/ stopped
  /\ ppc' = "add"
  /\ UNCHANGED <<stopped, queueVars, pep, pidx, consumerVars, live>>

\* add_new_host_conn refuses; add_host_to_queue ignores its result.
AddRefused ==
  /\ ppc = "add"
  /\ is_full
  /\ ppc' = "accept"
  /\ UNCHANGED <<stopped, queueVars, pep, pidx, consumerVars, live>>

\* Mutated: add_new_host_conn does not test is_full.
AddWhenFull ==
  /\ ppc = "add"
  /\ pidx' = head
  /\ ppc' = "store"
  /\ UNCHANGED <<stopped, queueVars, pep, consumerVars, live>>

AddAllowed ==
  /\ ppc = "add"
  /\ ~is_full
  /\ pidx' = head
  /\ ppc' = "store"
  /\ UNCHANGED <<stopped, queueVars, pep, consumerVars, live>>

StoreSlot ==
  /\ ppc \in {"store", "slot"}
  /\ slot' = [slot EXCEPT ![pidx] = pep]
  /\ ppc' = IF ppc = "store" THEN "head" ELSE "accept"
  /\ UNCHANGED <<stopped, head, tail, pep, pidx, consumerVars, live>>

StoreHead ==
  /\ ppc \in {"store", "head"}
  /\ head' = Succ(head)
  /\ ppc' = IF ppc = "store" THEN "slot" ELSE "accept"
  /\ UNCHANGED <<stopped, slot, tail, pep, pidx, consumerVars, live>>

\* pthread_join, then destroy_listener.  q goes out of scope here.
Join ==
  /\ ppc = "join"
  /\ cpc = "exit"
  /\ ppc' = "exit"
  /\ UNCHANGED <<stopped, queueVars, pep, pidx, consumerVars, live>>

(***************************************************************************)
(* host_thread.  Its program counter:                                      *)
(*   none     not created                                                  *)
(*   loop     at the test of its outer loop                                *)
(*   get      calling get_new_host_conn                                    *)
(*   clear    it has read the slot; both stores are still to come          *)
(*   null     only the store of NULL to the slot is still to come          *)
(*   tail     only the store to tail is still to come                      *)
(*   got      get_new_host_conn has returned an endpoint                   *)
(*   service  serving its host_list                                        *)
(*   out      at the label out                                             *)
(*   exit     finished                                                     *)
(***************************************************************************)
CInit ==
  /\ cpc = "none"
  /\ cep = NoEp
  /\ cidx = 0
  /\ draining = FALSE
  /\ hosts = {}

\* Mutated: host_thread does not look at stopped.
OuterLoopForEver ==
  /\ cpc = "loop"
  /\ cpc' = "get"
  /\ UNCHANGED <<stopped, queueVars, producerVars, cep, cidx, draining, hosts, live>>

OuterLoop ==
  /\ cpc = "loop"
  /\ cpc' = IF stopped THEN "out" ELSE "get"
  /\ UNCHANGED <<stopped, queueVars, producerVars, cep, cidx, draining, hosts, live>>

\* The ring is empty: go on to the hosts, or, when draining, finish.
GetEmpty ==
  /\ cpc = "get"
  /\ is_empty
  /\ cpc' = IF draining THEN "exit" ELSE "service"
  /\ UNCHANGED <<stopped, queueVars, producerVars, cep, cidx, draining, hosts, live>>

\* head has advanced but the slot is still NULL: get_new_host_conn returns 1.
\* The drain loop just tries again, which is no step.
GetNotYet ==
  /\ cpc = "get"
  /\ ~is_empty /\ slot[tail] = NoEp
  /\ ~draining
  /\ cpc' = "service"
  /\ UNCHANGED <<stopped, queueVars, producerVars, cep, cidx, draining, hosts, live>>

\* Mutated: get_new_host_conn does not test the slot for NULL.
GetUnchecked ==
  /\ cpc = "get"
  /\ ~is_empty
  /\ cep' = slot[tail]
  /\ cidx' = tail
  /\ cpc' = "clear"
  /\ UNCHANGED <<stopped, queueVars, producerVars, draining, hosts, live>>

GetOne ==
  /\ cpc = "get"
  /\ ~is_empty /\ slot[tail] # NoEp
  /\ cep' = slot[tail]
  /\ cidx' = tail
  /\ cpc' = "clear"
  /\ UNCHANGED <<stopped, queueVars, producerVars, draining, hosts, live>>

\* Mutated: the slot is not set to NULL.
ClearNothing ==
  /\ cpc \in {"clear", "null"}
  /\ cpc' = IF cpc = "clear" THEN "tail" ELSE "got"
  /\ UNCHANGED <<stopped, queueVars, producerVars, cep, cidx, draining, hosts, live>>

ClearSlot ==
  /\ cpc \in {"clear", "null"}
  /\ slot' = [slot EXCEPT ![cidx] = NoEp]
  /\ cpc' = IF cpc = "clear" THEN "tail" ELSE "got"
  /\ UNCHANGED <<stopped, head, tail, producerVars, cep, cidx, draining, hosts, live>>

StoreTail ==
  /\ cpc \in {"clear", "tail"}
  /\ tail' = Succ(tail)
  /\ cpc' = IF cpc = "clear" THEN "null" ELSE "got"
  /\ UNCHANGED <<stopped, slot, head, producerVars, cep, cidx, draining, hosts, live>>

AddHost ==
  /\ cpc = "got" /\ ~draining
  /\ hosts' = hosts \cup {cep}
  /\ cpc' = IF stopped THEN "service" ELSE "get"
  /\ UNCHANGED <<stopped, queueVars, producerVars, cep, cidx, draining, live>>

\* malloc of the host_conn fails: goto out, although nobody stopped us.
AddHostFails ==
  /\ MallocMayFail
  /\ cpc = "got" /\ ~draining
  /\ cpc' = "out"
  /\ UNCHANGED <<stopped, queueVars, producerVars, cep, cidx, draining, hosts, live>>

\* One pass over host_list: the hosts in gone fail or time out, and are
\* disconnected and freed.  (HostService models how that is decided.)
Service(gone) ==
  /\ cpc = "service"
  /\ hosts' = hosts \ gone
  /\ live' = live \ gone
  /\ cpc' = "loop"
  /\ UNCHANGED <<stopped, queueVars, producerVars, cep, cidx, draining>>

CloseHosts ==
  /\ cpc = "out"
  /\ live' = live \ hosts
  /\ hosts' = {}
  /\ draining' = TRUE
  /\ cpc' = "get"
  /\ UNCHANGED <<stopped, queueVars, producerVars, cep, cidx>>

DrainOne ==
  /\ cpc = "got" /\ draining
  /\ live' = live \ {cep}
  /\ cpc' = "get"
  /\ UNCHANGED <<stopped, queueVars, producerVars, cep, cidx, draining, hosts>>

-----------------------------------------------------------------------------
\* The signal handler of the main thread (shutdown_dem).
Stop ==
  /\ ~stopped
  /\ stopped' = TRUE
  /\ UNCHANGED <<queueVars, producerVars, consumerVars, live>>

\* Both threads are gone.
Terminated ==
  /\ ppc = "exit"
  /\ UNCHANGED vars

Init ==
  /\ stopped = FALSE
  /\ slot = [i \in Index |-> NoEp]
  /\ head = 0
  /\ tail = 0
  /\ live = {}
  /\ PInit
  /\ CInit

ProducerStep ==
  \/ LeaveLoop \/ WaitForRoom \/ AddRefused \/ AddAllowed
  \/ StoreSlot \/ StoreHead \/ Join

ConsumerStep ==
  \/ OuterLoop \/ GetEmpty \/ GetNotYet \/ GetOne \/ ClearSlot \/ StoreTail
  \/ AddHost \/ AddHostFails \/ CloseHosts \/ DrainOne
  \/ \E gone \in SUBSET hosts : Service(gone)

Next ==
  \/ StartFails \/ Start
  \/ \E e \in Endpoint : Accept(e)
  \/ ProducerStep
  \/ ConsumerStep
  \/ Stop
  \/ Terminated

Spec == Init /\ [][Next]_vars

\* Both threads keep running: pthreads are scheduled fairly, and none of the
\* calls inside a modelled step blocks for ever.  Connections need not arrive
\* and nobody needs to stop the program.
FairSpec ==
  /\ Spec
  /\ WF_vars(Start)
  /\ WF_vars(ProducerStep)
  /\ WF_vars(ConsumerStep)

-----------------------------------------------------------------------------
(***************************************************************************)
(* The cells of the ring between tail and head, and what is in them.       *)
(***************************************************************************)
Occupied(i) ==
  IF tail <= head THEN tail <= i /\ i < head ELSE tail <= i \/ i < head

\* The endpoint that a cell holds, or is about to hold once the store that
\* was overtaken by the store to head becomes visible.
Cell(i) == IF ppc = "slot" /\ i = pidx THEN pep ELSE slot[i]

\* The cells whose endpoint host_thread has not read yet.
Waiting == {i \in Index : Occupied(i) /\ ~(cpc \in {"clear", "tail"} /\ i = tail)}

\* Who holds an endpoint: interface_thread, the ring, host_thread on its way
\* from the ring to host_list, host_list.
Offered == IF ppc \in {"full", "add", "store", "head"} THEN {pep} ELSE {}
Queued  == {Cell(i) : i \in Waiting}
Taken   == IF cpc \in {"clear", "null", "tail", "got"} THEN {cep} ELSE {}

(***************************************************************************)
(* The ring as a queue: the endpoints from the first one that host_thread  *)
(* has not read yet up to head.  An endpoint enters the queue with the     *)
(* store to head and leaves it when its slot is read.                      *)
(***************************************************************************)
First == IF cpc \in {"clear", "tail"} THEN Succ(tail) ELSE tail

Dist(i, j) == IF i <= j THEN j - i ELSE j - i + HOST_QUEUE_MAX

\* The cell that is k places after cell i.
Place(i, k) == (i + k) % HOST_QUEUE_MAX

QueueSeq == [k \in 1 .. Dist(First, head) |-> Cell(Place(First, k - 1))]

HandOver == INSTANCE Fifo WITH
              queue <- QueueSeq, out <- cep, Capacity <- HOST_QUEUE_MAX - 1

TypeOK ==
  /\ stopped \in BOOLEAN
  /\ slot \in [Index -> Endpoint \cup {NoEp}]
  /\ head \in Index /\ tail \in Index
  /\ ppc \in {"init", "accept", "full", "add", "store", "slot", "head", "join", "exit"}
  /\ pep \in Endpoint \cup {NoEp}
  /\ ppc \in {"full", "add", "store", "slot", "head"} => pep # NoEp
  /\ pidx \in Index
  /\ cpc \in {"none", "loop", "get", "clear", "null", "tail", "got", "service", "out", "exit"}
  /\ cep \in Endpoint \cup {NoEp}
  /\ cpc \in {"clear", "null", "tail", "got"} => cep # NoEp
  /\ cidx \in Index
  /\ draining \in BOOLEAN
  /\ hosts \in SUBSET Endpoint
  /\ live \in SUBSET Endpoint

\* What interface_thread relies on while it fills a cell.
Filling ==
  /\ ppc \in {"store", "head"} => pidx = head /\ ~is_full
  /\ ppc = "slot" => head = Succ(pidx) /\ Occupied(pidx)
  /\ ppc = "head" => slot[pidx] = pep

\* What host_thread relies on while it empties a cell.
Emptying ==
  /\ cpc \in {"clear", "tail"} => cidx = tail /\ ~is_empty
  /\ cpc = "null" => tail = Succ(cidx) /\ ~Occupied(cidx)
  /\ cpc \in {"clear", "null"} => slot[cidx] = cep

\* The cells that hold an endpoint: those between tail and head, but for the
\* cell that one of the threads is working on.
Filled(i) ==
  \/ Occupied(i) /\ ~(ppc = "slot" /\ i = pidx) /\ ~(cpc = "tail" /\ i = cidx)
  \/ ppc = "head" /\ i = pidx
  \/ cpc = "null" /\ i = cidx

\* The ring as the two threads rely on it, although neither locks it: exactly
\* the filled cells are not NULL, and the threads never work on the same cell.
RingInv ==
  /\ ppc = "init" => cpc = "none"
  /\ Filling
  /\ Emptying
  /\ ppc \in {"store", "slot", "head"} /\ cpc \in {"clear", "null", "tail"} => pidx # cidx
  /\ \A i \in Index : slot[i] # NoEp <=> Filled(i)

\* Every endpoint that a thread or the ring refers to is allocated, and has
\* one holder only: a connection is never served twice, never freed while it
\* waits, and never both queued and served.
OneOwner ==
  /\ Offered \cup Queued \cup Taken \cup hosts \subseteq live
  /\ \A i, j \in Waiting : Cell(i) = Cell(j) => i = j
  /\ Offered \cap (Queued \cup Taken \cup hosts) = {}
  /\ Queued \cap (Taken \cup hosts) = {}
  /\ Taken \cap hosts = {}

\* While host_thread serves and nobody has stopped the program, no accepted
\* connection is forgotten.
NoneForgotten ==
  ~stopped /\ ~draining /\ cpc # "out" =>
    live = Offered \cup Queued \cup Taken \cup hosts

\* The room that ended the wait in add_host_to_queue is still there when
\* add_new_host_conn looks again, so that its ignored result is a success.
RoomStays == ppc = "add" /\ ~stopped => ~is_full

\* A store to a slot either fills an empty one or empties the one that
\* host_thread has just read: neither thread destroys what the other stored.
NoOverwrite ==
  [][\A i \in Index : slot'[i] # slot[i] =>
        \/ slot[i] = NoEp
        \/ slot'[i] = NoEp /\ slot[i] = cep]_slot

\* Every accepted connection reaches host_list, unless the program is stopped
\* first, or host_thread gives up because it cannot allocate a host.
AcceptedIsServed ==
  \A e \in Endpoint :
    (e \in Offered \cup Queued \cup Taken)
      ~> (e \in hosts \/ stopped \/ draining \/ cpc = "out")

\* A stopped pseudo target terminates, wherever its two threads were.
StopTerminates == stopped ~> ppc = "exit"

\* The unlocked ring is a first-in first-out queue of HOST_QUEUE_MAX - 1
\* places: host_thread takes the endpoints in the order in which they were
\* accepted, each of them once.
RingIsFifo == HandOver!Spec

=============================================================================
