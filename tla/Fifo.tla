-------------------------------- MODULE Fifo --------------------------------
(***************************************************************************)
(* What the host queue of a pseudo target promises: a bounded first-in     *)
(* first-out queue of endpoints between the thread that accepts            *)
(* connections and the thread that serves them.  It is the abstract        *)
(* specification that HostQueue, where every shared store is a step of its *)
(* own, is shown to implement.                                             *)
(***************************************************************************)
EXTENDS Naturals, Sequences

CONSTANTS Endpoint,   \* the endpoints that may be handed over
          NoEp,       \* "no endpoint"
          Capacity    \* how many endpoints may wait

VARIABLES queue,      \* the endpoints that wait, oldest first
          out         \* the endpoint handed over last

Init ==
  /\ queue = << >>
  /\ out = NoEp

Put(e) ==
  /\ Len(queue) < Capacity
  /\ queue' = Append(queue, e)
  /\ UNCHANGED out

Get ==
  /\ queue # << >>
  /\ out' = Head(queue)
  /\ queue' = Tail(queue)

Next == Get \/ \E e \in Endpoint : Put(e)

Spec == Init /\ [][Next]_<<queue, out>>
=============================================================================
