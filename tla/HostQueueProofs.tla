--------------------------- MODULE HostQueueProofs ---------------------------
(***************************************************************************)
(* Proofs about the hand-over of connections, for every set of endpoints   *)
(* and every size of the ring from 2 up.                                   *)
(***************************************************************************)
EXTENDS HostQueue, SequenceTheorems, TLAPS

(***************************************************************************)
(* The successor of a ring index, without the remainder.                   *)
(***************************************************************************)
LEMMA SuccCases ==
  ASSUME NEW i \in Index
  PROVE  /\ i < HOST_QUEUE_MAX - 1 => Succ(i) = i + 1
         /\ i = HOST_QUEUE_MAX - 1 => Succ(i) = 0
BY HostQueueAssumption DEF Index, Succ

LEMMA SuccIndex ==
  ASSUME NEW i \in Index
  PROVE  Succ(i) \in Index
BY SuccCases, HostQueueAssumption DEF Index

(***************************************************************************)
(* Type correctness.                                                       *)
(***************************************************************************)
\* Every variable of the hand-over keeps its type; in particular head and
\* tail (q->head, q->tail) never leave the array.
THEOREM TypeCorrect == Spec => []TypeOK
<1>1. Init => TypeOK
  <2> SUFFICES ASSUME Init PROVE TypeOK
    OBVIOUS
  <2>1. 0 \in Index
    BY HostQueueAssumption DEF Index
  <2>2. slot \in [Index -> Endpoint \cup {NoEp}]
    BY DEF Init
  <2>3. QED
    BY <2>1, <2>2 DEF Init, PInit, CInit, TypeOK
<1>2. TypeOK /\ [Next]_vars => TypeOK'
  <2> SUFFICES ASSUME TypeOK, [Next]_vars PROVE TypeOK'
    OBVIOUS
  <2> USE DEF TypeOK
  <2>1. ASSUME NEW e \in Endpoint, Accept(e) PROVE TypeOK'
    BY <2>1, HostQueueAssumption DEF Accept, queueVars, consumerVars
  <2>2. CASE StartFails \/ Start
    BY <2>2 DEF StartFails, Start, queueVars, consumerVars
  <2>3. CASE LeaveLoop \/ WaitForRoom \/ AddRefused \/ AddAllowed \/ Join
    BY <2>3 DEF LeaveLoop, WaitForRoom, AddRefused, AddAllowed, Join,
                queueVars, consumerVars
  <2>4. CASE StoreSlot
    BY <2>4 DEF StoreSlot, consumerVars
  <2>5. CASE StoreHead
    BY <2>5, SuccIndex DEF StoreHead, consumerVars
  <2>6. CASE OuterLoop \/ GetEmpty \/ GetNotYet
    BY <2>6 DEF OuterLoop, GetEmpty, GetNotYet, queueVars, producerVars
  <2>7. CASE GetOne
    BY <2>7 DEF GetOne, queueVars, producerVars
  <2>8. CASE ClearSlot
    BY <2>8 DEF ClearSlot, producerVars
  <2>9. CASE StoreTail
    BY <2>9, SuccIndex DEF StoreTail, producerVars
  <2>10. CASE AddHost \/ AddHostFails
    BY <2>10 DEF AddHost, AddHostFails, queueVars, producerVars
  <2>11. CASE CloseHosts \/ DrainOne
    BY <2>11 DEF CloseHosts, DrainOne, queueVars, producerVars
  <2>12. ASSUME NEW gone \in SUBSET hosts, Service(gone) PROVE TypeOK'
    BY <2>12 DEF Service, queueVars, producerVars
  <2>13. CASE Stop
    BY <2>13 DEF Stop, queueVars, producerVars, consumerVars
  <2>14. CASE UNCHANGED vars
    BY <2>14 DEF vars, queueVars, producerVars, consumerVars
  <2>15. QED
    BY <2>1, <2>2, <2>3, <2>4, <2>5, <2>6, <2>7, <2>8, <2>9, <2>10, <2>11,
       <2>12, <2>13, <2>14
       DEF Next, ProducerStep, ConsumerStep, Terminated
<1>3. QED
  BY <1>1, <1>2, PTL DEF Spec

(***************************************************************************)
(* The ring invariant.                                                     *)
(***************************************************************************)
\* The lock-free ring of add_new_host_conn and get_new_host_conn is correct in
\* whichever order the two stores of either become visible.
THEOREM RingCorrect == Spec => []RingInv
<1>1. Init => RingInv
  BY HostQueueAssumption
     DEF Init, PInit, CInit, RingInv, Filling, Emptying, Filled, Occupied, Index
<1>2. TypeOK /\ RingInv /\ [Next]_vars => RingInv'
  <2> SUFFICES ASSUME TypeOK, RingInv, [Next]_vars PROVE RingInv'
    OBVIOUS
  <2> USE DEF TypeOK, RingInv, Filling, Emptying, Filled, Occupied, is_empty, is_full
  <2>1. ASSUME NEW e \in Endpoint, Accept(e) PROVE RingInv'
    BY <2>1 DEF Accept, queueVars, consumerVars
  <2>2. CASE StartFails \/ Start
    BY <2>2 DEF StartFails, Start, queueVars, consumerVars
  <2>3. CASE LeaveLoop \/ WaitForRoom \/ AddRefused \/ Join
    BY <2>3 DEF LeaveLoop, WaitForRoom, AddRefused, Join, queueVars, consumerVars
  <2>4. CASE AddAllowed
    BY <2>4, SuccCases, HostQueueAssumption DEF AddAllowed, queueVars, consumerVars, Index
  <2>5. CASE StoreSlot
    BY <2>5 DEF StoreSlot, consumerVars
  <2>6. CASE StoreHead
    BY <2>6, SuccCases, HostQueueAssumption DEF StoreHead, consumerVars, Index
  <2>7. CASE OuterLoop \/ GetEmpty \/ GetNotYet
    BY <2>7 DEF OuterLoop, GetEmpty, GetNotYet, queueVars, producerVars
  <2>8. CASE GetOne
    BY <2>8 DEF GetOne, queueVars, producerVars
  <2>9. CASE ClearSlot
    BY <2>9 DEF ClearSlot, producerVars
  <2>10. CASE StoreTail
    BY <2>10, SuccCases, HostQueueAssumption DEF StoreTail, producerVars, Index
  <2>11. CASE AddHost \/ AddHostFails \/ CloseHosts \/ DrainOne
    BY <2>11 DEF AddHost, AddHostFails, CloseHosts, DrainOne, queueVars, producerVars
  <2>12. ASSUME NEW gone \in SUBSET hosts, Service(gone) PROVE RingInv'
    BY <2>12 DEF Service, queueVars, producerVars
  <2>13. CASE Stop
    BY <2>13 DEF Stop, queueVars, producerVars, consumerVars
  <2>14. CASE UNCHANGED vars
    BY <2>14 DEF vars, queueVars, producerVars, consumerVars
  <2>15. QED
    BY <2>1, <2>2, <2>3, <2>4, <2>5, <2>6, <2>7, <2>8, <2>9, <2>10, <2>11,
       <2>12, <2>13, <2>14
       DEF Next, ProducerStep, ConsumerStep, Terminated
<1>3. QED
  BY <1>1, <1>2, TypeCorrect, PTL DEF Spec

(***************************************************************************)
(* The holders of endpoints.                                               *)
(***************************************************************************)
\* A connection has one holder at a time, and its memory is allocated for as
\* long as it has one.
THEOREM OneOwnerCorrect == Spec => []OneOwner
<1>1. Init => OneOwner
  <2> SUFFICES ASSUME Init PROVE OneOwner
    OBVIOUS
  <2>1. Waiting = {}
    BY DEF Init, Waiting, Occupied, Index
  <2>2. QED
    BY <2>1 DEF Init, PInit, CInit, OneOwner, Offered, Queued, Taken
<1>2. TypeOK /\ RingInv /\ OneOwner /\ [Next]_vars => OneOwner'
  <2> SUFFICES ASSUME TypeOK, RingInv, OneOwner, [Next]_vars PROVE OneOwner'
    OBVIOUS
  <2> USE DEF TypeOK, OneOwner, Offered, Queued, Taken
  <2>1. ASSUME NEW e \in Endpoint, Accept(e) PROVE OneOwner'
    BY <2>1 DEF Accept, queueVars, consumerVars, Waiting, Occupied, Cell
  <2>2. CASE StartFails \/ Start
    BY <2>2 DEF StartFails, Start, queueVars, consumerVars, Waiting, Occupied, Cell, RingInv
  <2>3. CASE LeaveLoop \/ WaitForRoom \/ AddRefused \/ AddAllowed \/ Join
    BY <2>3 DEF LeaveLoop, WaitForRoom, AddRefused, AddAllowed, Join, queueVars,
                consumerVars, Waiting, Occupied, Cell
  <2>4. CASE StoreSlot
    <3>1. Waiting' = Waiting
      BY <2>4 DEF StoreSlot, consumerVars, Waiting, Occupied
    <3>2. \A i \in Waiting : Cell(i)' = Cell(i)
      BY <2>4 DEF StoreSlot, Waiting, Occupied, Cell, RingInv, Filling, Index
    <3>3. Queued' = Queued
      BY <3>1, <3>2
    <3>4. QED
      BY <2>4, <3>1, <3>2, <3>3 DEF StoreSlot, consumerVars
  <2>5. CASE StoreHead
    BY <2>5, SuccCases, HostQueueAssumption, SMTT(30) DEF StoreHead, consumerVars, Index,
       Waiting, Occupied, Cell, RingInv, Filling, is_full
  <2>6. CASE OuterLoop \/ GetEmpty \/ GetNotYet
    BY <2>6 DEF OuterLoop, GetEmpty, GetNotYet, queueVars, producerVars, Waiting, Occupied, Cell
  <2>7. CASE GetOne
    BY <2>7, HostQueueAssumption DEF GetOne, queueVars, producerVars, Waiting, Occupied, Cell, RingInv, Filled, is_empty, Index
  <2>8. CASE ClearSlot
    BY <2>8 DEF ClearSlot, producerVars, Waiting, Occupied, Cell, RingInv, Emptying
  <2>9. CASE StoreTail
    <3>1. Waiting' = Waiting
      BY <2>9, SuccCases, HostQueueAssumption
         DEF StoreTail, Waiting, Occupied, RingInv, Emptying, is_empty, Index
    <3>2. \A i \in Waiting : Cell(i)' = Cell(i)
      BY <2>9 DEF StoreTail, producerVars, Waiting, Cell
    <3>3. Queued' = Queued
      BY <3>1, <3>2
    <3>4. QED
      BY <2>9, <3>1, <3>2, <3>3 DEF StoreTail, producerVars
  <2>10. CASE AddHost \/ AddHostFails \/ CloseHosts \/ DrainOne
    BY <2>10 DEF AddHost, AddHostFails, CloseHosts, DrainOne, queueVars, producerVars, Waiting, Occupied, Cell
  <2>11. ASSUME NEW gone \in SUBSET hosts, Service(gone) PROVE OneOwner'
    BY <2>11 DEF Service, queueVars, producerVars, Waiting, Occupied, Cell
  <2>12. CASE Stop
    BY <2>12 DEF Stop, queueVars, producerVars, consumerVars, Waiting, Occupied, Cell
  <2>13. CASE UNCHANGED vars
    BY <2>13 DEF vars, queueVars, producerVars, consumerVars, Waiting, Occupied, Cell
  <2>14. QED
    BY <2>1, <2>2, <2>3, <2>4, <2>5, <2>6, <2>7, <2>8, <2>9, <2>10, <2>11,
       <2>12, <2>13
       DEF Next, ProducerStep, ConsumerStep, Terminated
<1>3. QED
  BY <1>1, <1>2, TypeCorrect, RingCorrect, PTL DEF Spec

(***************************************************************************)
(* No thread destroys what the other stored.                               *)
(***************************************************************************)
\* The slot stores of add_new_host_conn hit empty slots only, those of
\* get_new_host_conn only the slot that was just read.
THEOREM NoOverwriteCorrect == Spec => NoOverwrite
<1>1. TypeOK /\ RingInv /\ [Next]_vars =>
        [\A i \in Index : slot'[i] # slot[i] =>
           \/ slot[i] = NoEp
           \/ slot'[i] = NoEp /\ slot[i] = cep]_slot
  <2> SUFFICES ASSUME TypeOK, RingInv, [Next]_vars, slot' # slot,
                      NEW i \in Index, slot'[i] # slot[i]
               PROVE  \/ slot[i] = NoEp
                      \/ slot'[i] = NoEp /\ slot[i] = cep
    OBVIOUS
  <2>1. StoreSlot \/ ClearSlot
    BY DEF Next, ProducerStep, ConsumerStep, vars, queueVars, Accept, StartFails,
           Start, LeaveLoop, WaitForRoom, AddRefused, AddAllowed, StoreHead, Join,
           OuterLoop, GetEmpty, GetNotYet, GetOne, StoreTail, AddHost, AddHostFails,
           CloseHosts, DrainOne, Service, Stop, Terminated
  <2>2. CASE StoreSlot
    BY <2>2, SuccCases, HostQueueAssumption
       DEF StoreSlot, TypeOK, RingInv, Filling, Filled, Occupied, is_full, Index
  <2>3. CASE ClearSlot
    BY <2>3 DEF ClearSlot, TypeOK, RingInv, Emptying
  <2>4. QED
    BY <2>1, <2>2, <2>3
<1>2. QED
  BY <1>1, TypeCorrect, RingCorrect, PTL DEF Spec, NoOverwrite

(***************************************************************************)
(* The room for a connection.                                              *)
(***************************************************************************)
\* The room that add_host_to_queue waited for is still there when
\* add_new_host_conn tests is_full again: only interface_thread takes room
\* away, so the result that add_host_to_queue ignores is a success.
THEOREM RoomStaysCorrect == Spec => []RoomStays
<1>1. Init => RoomStays
  BY DEF Init, PInit, RoomStays
<1>2. TypeOK /\ RingInv /\ RoomStays /\ [Next]_vars => RoomStays'
  <2> SUFFICES ASSUME TypeOK, RingInv, RoomStays, [Next]_vars,
                      ppc' = "add", ~stopped'
               PROVE  ~is_full'
    BY DEF RoomStays
  <2>1. CASE WaitForRoom
    BY <2>1 DEF WaitForRoom, queueVars, is_full
  <2>2. CASE StoreTail
    BY <2>2, SuccCases, HostQueueAssumption
       DEF StoreTail, producerVars, RoomStays, is_full, is_empty, Index, TypeOK, RingInv, Emptying
  <2>3. CASE ~(WaitForRoom \/ StoreTail)
    <3>1. UNCHANGED <<ppc, stopped, head, tail>>
      BY <2>3 DEF Next, ProducerStep, ConsumerStep, vars, queueVars, producerVars, Accept,
                  StartFails, Start, LeaveLoop, AddRefused, AddAllowed, StoreSlot, StoreHead,
                  Join, OuterLoop, GetEmpty, GetNotYet, GetOne, ClearSlot, AddHost,
                  AddHostFails, CloseHosts, DrainOne, Service, Stop, Terminated
    <3>2. QED
      BY <3>1 DEF RoomStays, is_full
  <2>4. QED
    BY <2>1, <2>2, <2>3
<1>3. QED
  BY <1>1, <1>2, TypeCorrect, RingCorrect, PTL DEF Spec

(***************************************************************************)
(* No connection is forgotten.                                             *)
(***************************************************************************)
\* As long as the pseudo target is not stopped and host_thread has not failed,
\* every allocated endpoint is on its way to host_list or in it.
THEOREM NoneForgottenCorrect == Spec => []NoneForgotten
<1>1. Init => NoneForgotten
  <2> SUFFICES ASSUME Init PROVE NoneForgotten
    OBVIOUS
  <2>1. Waiting = {}
    BY DEF Init, Waiting, Occupied, Index
  <2>2. QED
    BY <2>1 DEF Init, PInit, CInit, NoneForgotten, Offered, Queued, Taken
<1>2. TypeOK /\ RingInv /\ OneOwner /\ RoomStays /\ NoneForgotten /\ [Next]_vars
        => NoneForgotten'
  <2> SUFFICES ASSUME TypeOK, RingInv, OneOwner, RoomStays, NoneForgotten, [Next]_vars
               PROVE  NoneForgotten'
    OBVIOUS
  <2> USE DEF TypeOK, NoneForgotten, RoomStays, Offered, Queued, Taken
  <2>1. ASSUME NEW e \in Endpoint, Accept(e) PROVE NoneForgotten'
    BY <2>1 DEF Accept, queueVars, consumerVars, Waiting, Occupied, Cell
  <2>2. CASE StartFails \/ Start
    BY <2>2 DEF StartFails, Start, queueVars, consumerVars, Waiting, Occupied, Cell, RingInv
  <2>3. CASE LeaveLoop \/ WaitForRoom \/ AddRefused \/ AddAllowed \/ Join
    BY <2>3 DEF LeaveLoop, WaitForRoom, AddRefused, AddAllowed, Join, queueVars,
                consumerVars, Waiting, Occupied, Cell, is_full
  <2>4. CASE StoreSlot
    <3>1. Waiting' = Waiting
      BY <2>4 DEF StoreSlot, consumerVars, Waiting, Occupied
    <3>2. \A i \in Waiting : Cell(i)' = Cell(i)
      BY <2>4 DEF StoreSlot, Waiting, Occupied, Cell, RingInv, Filling, Index
    <3>3. QED
      BY <2>4, <3>1, <3>2 DEF StoreSlot, consumerVars
  <2>5. CASE StoreHead
    <3>1. Waiting' = Waiting \cup {pidx}
      BY <2>5, SuccCases, HostQueueAssumption
         DEF StoreHead, consumerVars, Index, Waiting, Occupied, RingInv, Filling, Emptying,
             is_full, is_empty
    <3>2. Cell(pidx)' = pep
      BY <2>5 DEF StoreHead, Cell, RingInv, Filling
    <3>3. \A i \in Waiting : Cell(i)' = Cell(i)
      BY <2>5 DEF StoreHead, Cell, Waiting, Occupied, RingInv, Filling, Index
    <3>4. Queued' = Queued \cup {pep}
      BY <2>5, <3>1, <3>2, <3>3 DEF StoreHead
    <3>5. QED
      BY <2>5, <3>4 DEF StoreHead, consumerVars
  <2>6. CASE OuterLoop \/ GetEmpty \/ GetNotYet
    BY <2>6 DEF OuterLoop, GetEmpty, GetNotYet, queueVars, producerVars, Waiting,
                Occupied, Cell, is_full
  <2>7. CASE GetOne
    <3>1. Queued = Queued' \cup {cep'}
      BY <2>7, HostQueueAssumption
         DEF GetOne, queueVars, producerVars, Waiting, Occupied, Cell, RingInv, Filled,
             is_empty, Index
    <3>2. QED
      BY <2>7, <3>1 DEF GetOne, queueVars, producerVars, is_full
  <2>8. CASE ClearSlot
    <3>1. Waiting' = Waiting
      BY <2>8 DEF ClearSlot, Waiting, Occupied, RingInv, Emptying
    <3>2. \A i \in Waiting : Cell(i)' = Cell(i)
      BY <2>8 DEF ClearSlot, producerVars, Waiting, Cell, RingInv, Emptying
    <3>3. QED
      BY <2>8, <3>1, <3>2 DEF ClearSlot, producerVars, is_full
  <2>9. CASE StoreTail
    <3>1. Waiting' = Waiting
      BY <2>9, SuccCases, HostQueueAssumption
         DEF StoreTail, Waiting, Occupied, RingInv, Emptying, is_empty, Index
    <3>2. \A i \in Waiting : Cell(i)' = Cell(i)
      BY <2>9 DEF StoreTail, producerVars, Waiting, Cell
    <3>3. QED
      BY <2>9, <3>1, <3>2 DEF StoreTail, producerVars
  <2>10. CASE AddHost \/ AddHostFails \/ CloseHosts \/ DrainOne
    BY <2>10 DEF AddHost, AddHostFails, CloseHosts, DrainOne, queueVars, producerVars,
                 Waiting, Occupied, Cell, is_full
  <2>11. ASSUME NEW gone \in SUBSET hosts, Service(gone) PROVE NoneForgotten'
    BY <2>11 DEF Service, queueVars, producerVars, Waiting, Occupied, Cell, OneOwner, is_full
  <2>12. CASE Stop
    BY <2>12 DEF Stop, queueVars, producerVars, consumerVars
  <2>13. CASE UNCHANGED vars
    BY <2>13 DEF vars, queueVars, producerVars, consumerVars, Waiting, Occupied, Cell, is_full
  <2>14. QED
    BY <2>1, <2>2, <2>3, <2>4, <2>5, <2>6, <2>7, <2>8, <2>9, <2>10, <2>11,
       <2>12, <2>13
       DEF Next, ProducerStep, ConsumerStep, Terminated
<1>3. QED
  BY <1>1, <1>2, TypeCorrect, RingCorrect, OneOwnerCorrect, RoomStaysCorrect, PTL
     DEF Spec

(***************************************************************************)
(* The ring implements a first-in first-out queue.                         *)
(***************************************************************************)
\* A place of the ring, without the remainder.
LEMMA PlaceCases ==
  ASSUME NEW i \in Index, NEW k \in 0 .. HOST_QUEUE_MAX
  PROVE  /\ i + k < HOST_QUEUE_MAX => Place(i, k) = i + k
         /\ i + k >= HOST_QUEUE_MAX => Place(i, k) = i + k - HOST_QUEUE_MAX
BY HostQueueAssumption DEF Index, Place

\* The queue starts at an index of the ring and is shorter than the ring.
LEMMA QueueType ==
  ASSUME TypeOK
  PROVE  /\ First \in Index
         /\ Dist(First, head) \in 0 .. HOST_QUEUE_MAX - 1
         /\ Len(QueueSeq) = Dist(First, head)
         /\ DOMAIN QueueSeq = 1 .. Dist(First, head)
         /\ QueueSeq \in Seq(Endpoint \cup {NoEp})
<1>1. First \in Index
  BY SuccIndex DEF TypeOK, First
<1>2. Dist(First, head) \in 0 .. HOST_QUEUE_MAX - 1
  BY <1>1, HostQueueAssumption DEF TypeOK, Dist, Index
<1>3. \A k \in 1 .. Dist(First, head) : Cell(Place(First, k - 1)) \in Endpoint \cup {NoEp}
  <2> TAKE k \in 1 .. Dist(First, head)
  <2>1. k - 1 \in 0 .. HOST_QUEUE_MAX
    BY <1>2, HostQueueAssumption
  <2>2. Place(First, k - 1) \in Index
    BY <1>1, <2>1, PlaceCases, HostQueueAssumption DEF Index
  <2>3. QED
    BY <2>2 DEF Cell, TypeOK
<1>4. QED
  BY <1>1, <1>2, <1>3 DEF QueueSeq

\* The places of the queue are the cells of the ring that host_thread has not
\* read yet.
LEMMA QueueIsWaiting ==
  ASSUME TypeOK, RingInv, NEW k \in 1 .. Dist(First, head)
  PROVE  Place(First, k - 1) \in Waiting
<1> DEFINE p == Place(First, k - 1)
<1>1. /\ First \in Index
      /\ Dist(First, head) \in 0 .. HOST_QUEUE_MAX - 1
  BY QueueType
<1>2. /\ k - 1 \in 0 .. HOST_QUEUE_MAX
      /\ k \in 1 .. HOST_QUEUE_MAX - 1
  BY <1>1, HostQueueAssumption
<1>3. /\ First + k - 1 < HOST_QUEUE_MAX => p = First + k - 1
      /\ First + k - 1 >= HOST_QUEUE_MAX => p = First + k - 1 - HOST_QUEUE_MAX
  BY <1>1, <1>2, PlaceCases DEF Index
<1> HIDE DEF p
<1>4. p \in Index
  BY <1>1, <1>2, <1>3, HostQueueAssumption DEF Index
<1>5. CASE cpc \in {"clear", "tail"}
  <2>1. First = Succ(tail) /\ tail # head
    BY <1>5 DEF First, RingInv, Emptying, is_empty
  <2>2. /\ tail \in Index /\ head \in Index
        /\ tail < HOST_QUEUE_MAX - 1 => First = tail + 1
        /\ tail = HOST_QUEUE_MAX - 1 => First = 0
    BY <2>1, SuccCases DEF TypeOK
  <2>3. k <= IF First <= head THEN head - First ELSE head - First + HOST_QUEUE_MAX
    BY <1>1, <1>2 DEF Dist
  <2>4. Occupied(p) /\ p # tail
    BY <1>1, <1>2, <1>3, <1>4, <2>1, <2>2, <2>3, HostQueueAssumption DEF Occupied, Index
  <2>5. QED
    BY <1>4, <2>4 DEF Waiting, p
<1>6. CASE cpc \notin {"clear", "tail"}
  <2>1. First = tail
    BY <1>6 DEF First
  <2>2. Occupied(p)
    BY <1>1, <1>2, <1>3, <1>4, <2>1, HostQueueAssumption DEF TypeOK, Dist, Occupied, Index
  <2>3. QED
    BY <1>4, <1>6, <2>2 DEF Waiting, p
<1>7. QED
  BY <1>5, <1>6

\* A step that leaves the ends of the queue and its cells alone leaves the
\* queue alone.
LEMMA QueueUnchanged ==
  ASSUME TypeOK, RingInv, First' = First, head' = head,
         \A i \in Waiting : Cell(i)' = Cell(i)
  PROVE  QueueSeq' = QueueSeq
<1>1. \A k \in 1 .. Dist(First, head) : Cell(Place(First, k - 1))' = Cell(Place(First, k - 1))
  BY QueueIsWaiting
<1>2. QED
  BY <1>1 DEF QueueSeq

\* The store to head is the moment at which an endpoint enters the queue.
LEMMA StoreHeadIsPut ==
  ASSUME TypeOK, RingInv, StoreHead
  PROVE  HandOver!Put(pep)
<1> DEFINE d == Dist(First, head)
<1>1. /\ First \in Index /\ d \in 0 .. HOST_QUEUE_MAX - 1
      /\ Len(QueueSeq) = d
      /\ DOMAIN QueueSeq = 1 .. d
      /\ head \in Index /\ tail \in Index
  BY QueueType DEF TypeOK
<1>2. First' = First /\ head' = Succ(head) /\ pidx = head /\ Succ(head) # tail
  BY DEF StoreHead, consumerVars, First, RingInv, Filling, is_full
<1>3. First = tail \/ (First = Succ(tail) /\ head # tail)
  BY DEF First, RingInv, Emptying, is_empty
<1>4. /\ Dist(First', head') = d + 1
      /\ d < HOST_QUEUE_MAX - 1
  <2>1. /\ head < HOST_QUEUE_MAX - 1 => Succ(head) = head + 1
        /\ head = HOST_QUEUE_MAX - 1 => Succ(head) = 0
        /\ tail < HOST_QUEUE_MAX - 1 => Succ(tail) = tail + 1
        /\ tail = HOST_QUEUE_MAX - 1 => Succ(tail) = 0
    BY <1>1, SuccCases
  <2>2. CASE First = tail
    BY <1>1, <1>2, <2>1, <2>2, HostQueueAssumption DEF Dist, Index
  <2>3. CASE First = Succ(tail) /\ head # tail
    <3>1. CASE tail = HOST_QUEUE_MAX - 1
      BY <1>1, <1>2, <2>1, <2>3, <3>1, HostQueueAssumption DEF Dist, Index
    <3>2. CASE tail # HOST_QUEUE_MAX - 1 /\ head = HOST_QUEUE_MAX - 1
      BY <1>1, <1>2, <2>1, <2>3, <3>2, HostQueueAssumption DEF Dist, Index
    <3>3. CASE tail # HOST_QUEUE_MAX - 1 /\ head # HOST_QUEUE_MAX - 1
      <4>1. First = tail + 1 /\ head' = head + 1 /\ tail \in Nat /\ head \in Nat
        BY <1>1, <1>2, <2>1, <2>3, <3>3, HostQueueAssumption DEF Index
      <4> QED
        BY <1>1, <1>2, <2>3, <3>3, <4>1, HostQueueAssumption DEF Dist, Index
    <3> QED BY <3>1, <3>2, <3>3
  <2>4. QED
    BY <1>3, <2>2, <2>3
<1>5. \A i \in Index : i = head => Cell(i)' = pep
  BY <1>2 DEF StoreHead, Cell, RingInv, Filling
<1>6. \A i \in Waiting : Cell(i)' = Cell(i)
  BY DEF StoreHead, Cell, Waiting, Occupied, TypeOK, RingInv, Filling, Index
<1>7. Place(First, d) = head
  BY <1>1, PlaceCases, HostQueueAssumption DEF Dist, Index
<1>8. \A k \in 1 .. d : Cell(Place(First, k - 1))' = Cell(Place(First, k - 1))
  BY <1>2, <1>6, QueueIsWaiting
<1> DEFINE new == [k \in 1 .. d + 1 |-> Cell(Place(First, k - 1))']
<1>9. QueueSeq' = new
  BY <1>2, <1>4 DEF QueueSeq
<1> HIDE DEF d
<1>10. new[d + 1] = pep
  <2>1. (d + 1) - 1 = d /\ d + 1 \in 1 .. d + 1
    BY <1>1
  <2>2. QED
    BY <2>1, <1>1, <1>2, <1>5, <1>7
<1>11. new = Append(QueueSeq, pep)
  <2>1. QueueSeq = [k \in 1 .. d |-> Cell(Place(First, k - 1))]
    BY DEF QueueSeq, d
  <2>2. \A k \in 1 .. d : new[k] = QueueSeq[k]
    BY <1>1, <1>8, <2>1
  <2>3. /\ QueueSeq \in Seq(Endpoint \cup {NoEp})
        /\ pep \in Endpoint \cup {NoEp}
    BY QueueType DEF TypeOK
  <2>4. \A k \in 1 .. d + 1 : k = d + 1 \/ k \in 1 .. d
    BY <1>1
  <2>5. /\ Append(QueueSeq, pep) \in Seq(Endpoint \cup {NoEp})
        /\ Len(Append(QueueSeq, pep)) = d + 1
        /\ \A k \in 1 .. d : Append(QueueSeq, pep)[k] = QueueSeq[k]
        /\ Append(QueueSeq, pep)[d + 1] = pep
    BY <1>1, <2>3, AppendProperties
  <2>6. DOMAIN new = 1 .. d + 1 /\ new = [k \in 1 .. d + 1 |-> new[k]]
    OBVIOUS
  <2> HIDE DEF new
  <2>7. \A k \in 1 .. d + 1 : new[k] = Append(QueueSeq, pep)[k]
    <3> TAKE k \in 1 .. d + 1
    <3>1. CASE k = d + 1
      BY <3>1, <1>10, <2>5
    <3>2. CASE k \in 1 .. d
      BY <3>2, <2>2, <2>5
    <3>3. QED
      BY <3>1, <3>2, <2>4
  <2>8. /\ new \in Seq(Endpoint \cup {NoEp})
        /\ Len(new) = d + 1
    <3>1. \A k \in 1 .. d + 1 : new[k] \in Endpoint \cup {NoEp}
      BY <1>1, <2>5, <2>7, ElementOfSeq
    <3>2. d + 1 \in Nat
      BY <1>1
    <3>3. QED
      BY <2>6, <3>1, <3>2
  <2>9. QED
    BY <2>5, <2>7, <2>8, SeqEqual
<1>12. QED
  BY <1>1, <1>4, <1>9, <1>11 DEF HandOver!Put, StoreHead, consumerVars

\* The read of a slot is the moment at which its endpoint leaves the queue.
LEMMA GetOneIsGet ==
  ASSUME TypeOK, RingInv, GetOne
  PROVE  HandOver!Get
<1> DEFINE d == Dist(First, head)
<1>1. /\ First \in Index /\ d \in 0 .. HOST_QUEUE_MAX - 1
      /\ Len(QueueSeq) = d
      /\ DOMAIN QueueSeq = 1 .. d
      /\ head \in Index /\ tail \in Index
  BY QueueType DEF TypeOK
<1>2. First = tail /\ First' = Succ(tail) /\ head' = head /\ head # tail
  BY DEF GetOne, queueVars, First, is_empty
<1>3. d >= 1 /\ Dist(First', head') = d - 1
  BY <1>1, <1>2, SuccCases, HostQueueAssumption DEF Dist, Index
<1>4. \A i \in Index : Cell(i)' = Cell(i)
  BY DEF GetOne, queueVars, producerVars, Cell
<1>5. QueueSeq[1] = slot[tail]
  <2>1. Place(First, 0) = tail
    BY <1>1, <1>2, PlaceCases, HostQueueAssumption DEF Index
  <2>2. Cell(tail) = slot[tail]
    BY DEF GetOne, Cell, TypeOK, RingInv, Filling, Filled, is_empty, Occupied, Index
  <2>3. QED
    BY <1>1, <1>3, <2>1, <2>2 DEF QueueSeq
<1>6. \A k \in 1 .. d - 1 : Place(Succ(tail), k - 1) = Place(tail, k)
  <2> TAKE k \in 1 .. d - 1
  <2>1. /\ k \in 0 .. HOST_QUEUE_MAX /\ k - 1 \in 0 .. HOST_QUEUE_MAX
        /\ Succ(tail) \in Index
    BY <1>1, HostQueueAssumption, SuccIndex
  <2>2. /\ Succ(tail) + (k - 1) < HOST_QUEUE_MAX => Place(Succ(tail), k - 1) = Succ(tail) + (k - 1)
        /\ Succ(tail) + (k - 1) >= HOST_QUEUE_MAX
             => Place(Succ(tail), k - 1) = Succ(tail) + (k - 1) - HOST_QUEUE_MAX
        /\ tail + k < HOST_QUEUE_MAX => Place(tail, k) = tail + k
        /\ tail + k >= HOST_QUEUE_MAX => Place(tail, k) = tail + k - HOST_QUEUE_MAX
        /\ tail < HOST_QUEUE_MAX - 1 => Succ(tail) = tail + 1
        /\ tail = HOST_QUEUE_MAX - 1 => Succ(tail) = 0
    BY <1>1, <2>1, PlaceCases, SuccCases
  <2>3. k < HOST_QUEUE_MAX
    BY <1>1, HostQueueAssumption
  <2>4. QED
    BY <1>1, <2>1, <2>2, <2>3, HostQueueAssumption, SMTT(30) DEF Index
<1>7. \A k \in 1 .. d - 1 : Place(tail, k) \in Index
  <2> TAKE k \in 1 .. d - 1
  <2>1. k + 1 \in 1 .. d /\ (k + 1) - 1 = k
    BY <1>1
  <2>2. QED
    BY <1>2, <2>1, QueueIsWaiting DEF Waiting
<1> DEFINE new == [k \in 1 .. d - 1 |-> Cell(Place(tail, k))]
<1>8. QueueSeq' = new
  BY <1>2, <1>3, <1>4, <1>6, <1>7 DEF QueueSeq
<1>9. new = Tail(QueueSeq)
  <2>1. QueueSeq = [k \in 1 .. d |-> Cell(Place(tail, k - 1))]
    BY <1>2 DEF QueueSeq
  <2>2. /\ QueueSeq \in Seq(Endpoint \cup {NoEp})
        /\ QueueSeq # << >>
    BY <1>1, <1>3, QueueType
  <2>3. /\ Tail(QueueSeq) \in Seq(Endpoint \cup {NoEp})
        /\ Len(Tail(QueueSeq)) = d - 1
        /\ \A k \in 1 .. d - 1 : Tail(QueueSeq)[k] = QueueSeq[k + 1]
    BY <1>1, <2>2, HeadTailProperties
  <2>4. \A k \in 1 .. d - 1 : k + 1 \in 1 .. d /\ (k + 1) - 1 = k
    BY <1>1
  <2>5. \A k \in 1 .. d - 1 : new[k] = QueueSeq[k + 1]
    BY <2>1, <2>4
  <2>6. \A k \in 1 .. d - 1 : new[k] \in Endpoint \cup {NoEp}
    BY <1>1, <2>2, <2>4, <2>5
  <2>7. /\ new \in Seq(Endpoint \cup {NoEp})
        /\ Len(new) = d - 1
    BY <1>1, <1>3, <2>6
  <2>8. \A k \in 1 .. d - 1 : new[k] = Tail(QueueSeq)[k]
    BY <2>3, <2>5
  <2> HIDE DEF new
  <2>9. QED
    BY <2>3, <2>7, <2>8, SeqEqual
<1>10. QueueSeq # << >> /\ cep' = Head(QueueSeq)
  BY <1>1, <1>3, <1>5 DEF GetOne
<1>11. QED
  BY <1>8, <1>9, <1>10 DEF HandOver!Get

\* host_thread receives the connections in the order in which interface_thread
\* accepted them, each once, and at most HOST_QUEUE_MAX - 1 of them wait: the
\* ring without a lock implements the bounded queue of Fifo.
THEOREM RingImplementsFifo == Spec => RingIsFifo
<1>1. Init => HandOver!Init
  BY DEF Init, PInit, CInit, HandOver!Init, QueueSeq, First, Dist
<1>2. TypeOK /\ RingInv /\ [Next]_vars => [HandOver!Next]_<<QueueSeq, cep>>
  <2> SUFFICES ASSUME TypeOK, RingInv, [Next]_vars
               PROVE  HandOver!Next \/ UNCHANGED <<QueueSeq, cep>>
    OBVIOUS
  <2>1. CASE StoreHead
    <3>1. pep \in Endpoint
      BY <2>1 DEF StoreHead, TypeOK
    <3>2. QED
      BY <2>1, <3>1, StoreHeadIsPut DEF HandOver!Next
  <2>2. CASE GetOne
    BY <2>2, GetOneIsGet DEF HandOver!Next
  <2>3. CASE StoreSlot
    <3>1. First' = First /\ head' = head /\ cep' = cep
      BY <2>3 DEF StoreSlot, consumerVars, First
    <3>2. \A i \in Waiting : Cell(i)' = Cell(i)
      BY <2>3 DEF StoreSlot, Waiting, Occupied, Cell, TypeOK, RingInv, Filling, Index
    <3>3. QED
      BY <3>1, <3>2, QueueUnchanged
  <2>4. CASE ClearSlot
    <3>1. First' = First /\ head' = head /\ cep' = cep
      BY <2>4 DEF ClearSlot, First
    <3>2. \A i \in Waiting : Cell(i)' = Cell(i)
      BY <2>4 DEF ClearSlot, producerVars, Waiting, Cell, TypeOK, RingInv, Emptying
    <3>3. QED
      BY <3>1, <3>2, QueueUnchanged
  <2>5. CASE StoreTail
    <3>1. First' = First /\ head' = head /\ cep' = cep
      BY <2>5 DEF StoreTail, First
    <3>2. \A i \in Waiting : Cell(i)' = Cell(i)
      BY <2>5 DEF StoreTail, producerVars, Cell
    <3>3. QED
      BY <3>1, <3>2, QueueUnchanged
  <2>6. CASE ~(StoreHead \/ GetOne \/ StoreSlot \/ ClearSlot \/ StoreTail)
    <3>1. /\ UNCHANGED <<slot, head, tail, cep>>
          /\ ppc = "slot" <=> ppc' = "slot"
          /\ ppc = "slot" => UNCHANGED <<pidx, pep>>
          /\ cpc \in {"clear", "tail"} <=> cpc' \in {"clear", "tail"}
      BY <2>6 DEF Next, ProducerStep, ConsumerStep, vars, queueVars, producerVars,
                  consumerVars, Accept, StartFails, Start, LeaveLoop, WaitForRoom,
                  AddRefused, AddAllowed, Join, OuterLoop, GetEmpty, GetNotYet, AddHost,
                  AddHostFails, CloseHosts, DrainOne, Service, Stop, Terminated, RingInv
    <3>2. First' = First
      BY <3>1 DEF First
    <3>3. \A i \in Waiting : Cell(i)' = Cell(i)
      BY <3>1 DEF Cell
    <3>4. QED
      BY <3>1, <3>2, <3>3, QueueUnchanged
  <2>7. QED
    BY <2>1, <2>2, <2>3, <2>4, <2>5, <2>6
<1>3. QED
  BY <1>1, <1>2, TypeCorrect, RingCorrect, PTL DEF Spec, RingIsFifo, HandOver!Spec
=============================================================================
