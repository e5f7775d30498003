---------------------------- MODULE EventListProofs ----------------------------
(***************************************************************************)
(* The list of event requests and the buffers of the endpoints, for any    *)
(* interfaces, hosts, nodes and numbers of requests, in any interleaving:  *)
(* what holds until two threads meet where raced says it does harm.        *)
(***************************************************************************)
EXTENDS EventList, SequenceTheorems, TLAPS

\* What list_add may lead to, and what the main thread may meet.
Reachable == Complete \cup {HEAD}

Shapes == /\ next \in [Ref -> Ref]
          /\ live \subseteq Node
          /\ ht = [t \in HostThread |-> [pc |-> ht[t].pc, host |-> ht[t].host,
                                         node |-> ht[t].node, nx |-> ht[t].nx]]
          /\ mt = [pc |-> mt.pc, cur |-> mt.cur, list |-> mt.list]

\* Each thread that adds a request has one of its own, which leads to the list
\* before it can be reached.
AddersOk ==
    \A t \in HostThread : IsAdding(t) =>
        /\ ht[t].node \in live
        /\ ht[t].nx \in Reachable
        /\ ht[t].pc \in {"add3", "add4"} => next[ht[t].node] = ht[t].nx
        /\ \A u \in HostThread \ {t} : IsAdding(u) => ht[u].node # ht[t].node

\* The inductive invariant: what can be reached leads to what can be reached.
IInv == /\ Shapes
        /\ AddersOk
        /\ \A n \in Reachable : next[n] \in Reachable
        /\ mt.pc = "walk" => mt.cur \in Reachable

LEMMA RefType == Node \subseteq Ref /\ HEAD \in Ref /\ NULL \in Ref
BY DEF Ref

LEMMA ReachableType == Shapes => Reachable \subseteq live \cup {HEAD} /\ Reachable \subseteq Ref
BY DEF Shapes, Reachable, Complete, Ref

\* A node is complete if it is allocated and nobody is adding it.
LEMMA CompleteMeans ==
    \A n : n \in Complete <=> /\ n \in live
                              /\ \A t \in HostThread : IsAdding(t) => ht[t].node # n
BY DEF Complete, Adding, IsAdding

LEMMA InitIInv == Init => IInv
<1> SUFFICES ASSUME Init PROVE IInv
  OBVIOUS
<1>1. \A t \in HostThread : ht[t] = [pc |-> "idle", host |-> NULL, node |-> NULL, nx |-> NULL]
  BY DEF Init, Idle
<1>2. Shapes
  <2>1. next \in [Ref -> Ref]
    BY RefType DEF Init
  <2>2. ht = [t \in HostThread |-> [pc |-> ht[t].pc, host |-> ht[t].host,
                                    node |-> ht[t].node, nx |-> ht[t].nx]]
    BY DEF Init, Idle
  <2>3. mt = [pc |-> mt.pc, cur |-> mt.cur, list |-> mt.list]
    BY DEF Init
  <2> QED BY <2>1, <2>2, <2>3 DEF Init, Shapes
<1>3. AddersOk
  BY <1>1 DEF AddersOk, IsAdding
<1>4. Reachable = {HEAD} /\ next[HEAD] = HEAD
  BY RefType DEF Init, Reachable, Complete
<1> QED BY <1>2, <1>3, <1>4 DEF Init, IInv

\* What the update of one host thread's state does.
LEMMA HtUpdate ==
    ASSUME Shapes, NEW t \in HostThread, NEW f, ht' = [ht EXCEPT ![t] = f],
           f = [pc |-> f.pc, host |-> f.host, node |-> f.node, nx |-> f.nx]
    PROVE  /\ \A u \in HostThread \ {t} : ht'[u] = ht[u]
           /\ ht'[t] = f
           /\ ht' = [u \in HostThread |-> [pc |-> ht'[u].pc, host |-> ht'[u].host,
                                           node |-> ht'[u].node, nx |-> ht'[u].nx]]
<1>1. DOMAIN ht = HostThread
  BY DEF Shapes
<1>2. \A u \in HostThread : ht[u] = [pc |-> ht[u].pc, host |-> ht[u].host,
                                     node |-> ht[u].node, nx |-> ht[u].nx]
  BY DEF Shapes
<1>3. ht = [u \in HostThread |-> ht[u]]
  BY <1>2 DEF Shapes
<1>4. ht' = [u \in HostThread |-> IF u = t THEN f ELSE ht[u]]
  BY <1>3
<1> QED BY <1>2, <1>4

\* The updates of a host thread's record.
LEMMA UpdatePc ==
    ASSUME NEW r, r = [pc |-> r.pc, host |-> r.host, node |-> r.node, nx |-> r.nx], NEW p
    PROVE  [r EXCEPT !.pc = p] = [pc |-> p, host |-> r.host, node |-> r.node, nx |-> r.nx]
<1>1. PICK a, b, c, d : /\ r = [pc |-> a, host |-> b, node |-> c, nx |-> d]
                        /\ a = r.pc /\ b = r.host /\ c = r.node /\ d = r.nx
  OBVIOUS
<1>2. [r EXCEPT !.pc = p] = [pc |-> p, host |-> b, node |-> c, nx |-> d]
  BY <1>1
<1> QED BY <1>1, <1>2

LEMMA UpdatePcHost ==
    ASSUME NEW r, r = [pc |-> r.pc, host |-> r.host, node |-> r.node, nx |-> r.nx],
           NEW p, NEW h
    PROVE  [r EXCEPT !.pc = p, !.host = h]
             = [pc |-> p, host |-> h, node |-> r.node, nx |-> r.nx]
<1> DEFINE q == [r EXCEPT !.pc = p]
<1>1. [r EXCEPT !.pc = p, !.host = h] = [q EXCEPT !.host = h]
  OBVIOUS
<1>2. q = [pc |-> p, host |-> r.host, node |-> r.node, nx |-> r.nx]
  BY UpdatePc
<1> HIDE DEF q
<1>3. [q EXCEPT !.host = h] = [pc |-> p, host |-> h, node |-> r.node, nx |-> r.nx]
  BY <1>2
<1> QED BY <1>1, <1>3

AddPcs == {"add1", "add2", "add3", "add4"}

\* A step of a host thread in which it neither begins nor ends to add.
LEMMA QuietStep ==
    ASSUME IInv, NEW t \in HostThread, NEW f, ht' = [ht EXCEPT ![t] = f],
           f = [pc |-> f.pc, host |-> f.host, node |-> f.node, nx |-> f.nx],
           f.pc \in AddPcs <=> IsAdding(t),
           IsAdding(t) => f.node = ht[t].node /\ f.nx = ht[t].nx,
           f.pc \in {"add3", "add4"} => next[f.node] = f.nx,
           UNCHANGED <<next, live, mt>>
    PROVE  IInv'
<1>0. Shapes
  BY DEF IInv
<1>1. /\ \A u \in HostThread \ {t} : ht'[u] = ht[u]
      /\ ht'[t] = f
      /\ ht' = [u \in HostThread |-> [pc |-> ht'[u].pc, host |-> ht'[u].host,
                                      node |-> ht'[u].node, nx |-> ht'[u].nx]]
  BY <1>0, HtUpdate
<1>2. \A u \in HostThread : /\ IsAdding(u)' <=> IsAdding(u)
                            /\ IsAdding(u) => ht'[u].node = ht[u].node /\ ht'[u].nx = ht[u].nx
  BY <1>1 DEF IsAdding, AddPcs
<1>3. \A n : n \in Complete' <=> /\ n \in live'
                                 /\ \A u \in HostThread : IsAdding(u)' => ht'[u].node # n
  BY DEF Complete, Adding, IsAdding
<1>4. Reachable' = Reachable
  <2>1. \A n : n \in Complete' <=> n \in Complete
    BY <1>2, <1>3, CompleteMeans
  <2>2. Complete' = Complete
    BY <2>1
  <2> QED BY <2>2 DEF Reachable
<1>5. Shapes'
  BY <1>1 DEF Shapes, IInv
<1>6. AddersOk'
  <2> SUFFICES ASSUME NEW u \in HostThread, IsAdding(u)'
               PROVE  /\ ht'[u].node \in live'
                      /\ ht'[u].nx \in Reachable'
                      /\ ht'[u].pc \in {"add3", "add4"} => next'[ht'[u].node] = ht'[u].nx
                      /\ \A v \in HostThread \ {u} : IsAdding(v)' => ht'[v].node # ht'[u].node
    BY DEF AddersOk
  <2>1. ht'[u].node \in live' /\ ht'[u].nx \in Reachable'
    BY <1>2, <1>4 DEF IInv, AddersOk
  <2>2. \A v \in HostThread \ {u} : IsAdding(v)' => ht'[v].node # ht'[u].node
    BY <1>2 DEF IInv, AddersOk
  <2>3. ht'[u].pc \in {"add3", "add4"} => next'[ht'[u].node] = ht'[u].nx
    <3>1. CASE u = t
      BY <1>1, <3>1
    <3>2. CASE u # t
      BY <1>1, <1>2, <3>2 DEF IInv, AddersOk
    <3> QED BY <3>1, <3>2
  <2> QED BY <2>1, <2>2, <2>3
<1> QED BY <1>4, <1>5, <1>6 DEF IInv

LEMMA HostThreadStep ==
    ASSUME IInv, NEW t \in HostThread
    PROVE  /\ (\E h \in Host : handle_request(t, h)) => IInv'
           /\ handle_async_event(t) => IInv'
           /\ list_add(t) => IInv'
           /\ SendRsp(t) => IInv'
<1>0. /\ Shapes
      /\ ht[t] = [pc |-> ht[t].pc, host |-> ht[t].host, node |-> ht[t].node, nx |-> ht[t].nx]
  BY DEF IInv, Shapes
<1>a. \A u \in HostThread : IsAdding(u) =>
          /\ ht[u].node \in live
          /\ ht[u].nx \in Reachable
          /\ ht[u].pc \in {"add3", "add4"} => next[ht[u].node] = ht[u].nx
          /\ \A v \in HostThread \ {u} : IsAdding(v) => ht[v].node # ht[u].node
  BY DEF IInv, AddersOk
<1>1. ASSUME NEW h \in Host, handle_request(t, h) PROVE IInv'
  <2>1. PICK pc \in {"handle", "reply"} : ht' = [ht EXCEPT ![t].pc = pc, ![t].host = h]
    BY <1>1 DEF handle_request
  <2> DEFINE f == [pc |-> pc, host |-> h, node |-> ht[t].node, nx |-> ht[t].nx]
  <2>2. ht' = [ht EXCEPT ![t] = f]
    <3>1. ht' = [ht EXCEPT ![t] = [ht[t] EXCEPT !.pc = pc, !.host = h]]
      BY <2>1
    <3>2. [ht[t] EXCEPT !.pc = pc, !.host = h] = f
      BY <1>0, UpdatePcHost
    <3> QED BY <3>1, <3>2
  <2>3. ~IsAdding(t) /\ f.pc \notin AddPcs /\ UNCHANGED <<next, live, mt>>
    BY <1>1 DEF handle_request, IsAdding, AddPcs, listVars
  <2>4. f = [pc |-> f.pc, host |-> f.host, node |-> f.node, nx |-> f.nx]
    OBVIOUS
  <2> HIDE DEF f
  <2> QED BY <2>2, <2>3, <2>4, QuietStep DEF AddPcs
<1>2. ASSUME SendRsp(t) PROVE IInv'
  <2>1. ht' = [ht EXCEPT ![t] = Idle] /\ UNCHANGED <<next, live, mt>> /\ ~IsAdding(t)
    BY <1>2 DEF SendRsp, listVars, IsAdding
  <2>2. /\ Idle = [pc |-> Idle.pc, host |-> Idle.host, node |-> Idle.node, nx |-> Idle.nx]
        /\ Idle.pc \notin AddPcs
    BY DEF Idle, AddPcs
  <2> QED BY <2>1, <2>2, QuietStep DEF AddPcs
<1>b. ASSUME handle_async_event(t), Goto(t, "reply"), UNCHANGED listVars PROVE IInv'
  <2> DEFINE f == [pc |-> "reply", host |-> ht[t].host, node |-> ht[t].node, nx |-> ht[t].nx]
  <2>1. ht' = [ht EXCEPT ![t] = [ht[t] EXCEPT !.pc = "reply"]]
    BY <1>b DEF Goto
  <2>2. [ht[t] EXCEPT !.pc = "reply"] = f
    BY <1>0, UpdatePc
  <2>3. /\ f = [pc |-> f.pc, host |-> f.host, node |-> f.node, nx |-> f.nx]
        /\ f.pc \notin AddPcs
    BY DEF AddPcs
  <2>4. ~IsAdding(t) /\ UNCHANGED <<next, live, mt>>
    BY <1>b DEF handle_async_event, IsAdding, listVars
  <2> HIDE DEF f
  <2> QED BY <2>1, <2>2, <2>3, <2>4, QuietStep DEF AddPcs
<1>3. ASSUME handle_async_event(t), ~Goto(t, "reply") \/ ~UNCHANGED listVars PROVE IInv'
  <2>1. PICK n \in Node \ live :
            /\ live' = live \cup {n}
            /\ next' = [next EXCEPT ![n] = NULL]
            /\ ht' = [ht EXCEPT ![t].pc = "add1", ![t].node = n, ![t].nx = next[HEAD]]
    BY <1>3 DEF handle_async_event
  <2>a. n \in Node /\ n \notin live /\ live' = live \cup {n}
    BY <2>1
  <2>2. ht[t].pc = "handle" /\ ~IsAdding(t) /\ mt' = mt
    BY <1>3 DEF handle_async_event, IsAdding
  <2> DEFINE f == [pc |-> "add1", host |-> ht[t].host, node |-> n, nx |-> next[HEAD]]
  <2>3. ht' = [ht EXCEPT ![t] = f]
    <3>1. ht' = [ht EXCEPT ![t] = [ht[t] EXCEPT !.pc = "add1", !.node = n, !.nx = next[HEAD]]]
      BY <2>1
    <3>2. [ht[t] EXCEPT !.pc = "add1", !.node = n, !.nx = next[HEAD]] = f
      <4>1. PICK r, x : r = ht[t] /\ x = next[HEAD]
        OBVIOUS
      <4>2. r = [pc |-> r.pc, host |-> r.host, node |-> r.node, nx |-> r.nx]
        BY <1>0, <4>1
      <4> DEFINE q == [r EXCEPT !.pc = "add1"]
                 m == [q EXCEPT !.node = n]
      <4>3. [r EXCEPT !.pc = "add1", !.node = n, !.nx = x] = [m EXCEPT !.nx = x]
        OBVIOUS
      <4>4. q = [pc |-> "add1", host |-> r.host, node |-> r.node, nx |-> r.nx]
        BY <4>2, UpdatePc
      <4> HIDE DEF q
      <4>5. m = [pc |-> "add1", host |-> r.host, node |-> n, nx |-> r.nx]
        BY <4>4
      <4> HIDE DEF m
      <4>6. [m EXCEPT !.nx = x] = [pc |-> "add1", host |-> r.host, node |-> n, nx |-> x]
        BY <4>5
      <4> QED BY <4>1, <4>3, <4>6
    <3> QED BY <3>1, <3>2
  <2>4. /\ \A u \in HostThread \ {t} : ht'[u] = ht[u]
        /\ ht'[t].pc = "add1" /\ ht'[t].node = n /\ ht'[t].nx = next[HEAD]
        /\ ht' = [u \in HostThread |-> [pc |-> ht'[u].pc, host |-> ht'[u].host,
                                        node |-> ht'[u].node, nx |-> ht'[u].nx]]
    <3>1. f = [pc |-> f.pc, host |-> f.host, node |-> f.node, nx |-> f.nx]
      OBVIOUS
    <3>2. f.pc = "add1" /\ f.node = n /\ f.nx = next[HEAD]
      OBVIOUS
    <3> HIDE DEF f
    <3> QED BY <1>0, <2>3, <3>1, <3>2, HtUpdate
  <2>5. IsAdding(t)' /\ \A u \in HostThread \ {t} : IsAdding(u)' <=> IsAdding(u)
    BY <2>4 DEF IsAdding
  <2>b. /\ \A u \in HostThread \ {t} : ht'[u].node = ht[u].node
        /\ ht'[t].node = n
    BY <2>4
  <2>6. Reachable' = Reachable
    <3>1. \A m : m \in Complete' <=> /\ m \in live'
                                    /\ \A u \in HostThread : IsAdding(u)' => ht'[u].node # m
      BY DEF Complete, Adding, IsAdding
    <3>2. \A m \in Complete' : m \in Complete
      BY <2>a, <2>2, <2>b, <2>5, <3>1, CompleteMeans
    <3>3. \A m \in Complete : m \in Complete'
      BY <2>a, <2>2, <2>b, <2>5, <3>1, CompleteMeans
    <3>4. Complete' = Complete
      BY <3>2, <3>3
    <3> QED BY <3>4 DEF Reachable
  <2>7. n \notin Reachable /\ next[HEAD] \in Reachable
    BY <2>1, EventListAssumption DEF IInv, Reachable, Complete
  <2>8. Shapes'
    BY <1>0, <2>1, <2>2, <2>4, RefType DEF Shapes
  <2>9. \A m \in Reachable : next'[m] = next[m]
    BY <1>0, <2>1, <2>7, ReachableType DEF Shapes
  <2>10. AddersOk'
    <3> SUFFICES ASSUME NEW u \in HostThread, IsAdding(u)'
                 PROVE  /\ ht'[u].node \in live'
                        /\ ht'[u].nx \in Reachable'
                        /\ ht'[u].pc \in {"add3", "add4"} => next'[ht'[u].node] = ht'[u].nx
                        /\ \A v \in HostThread \ {u} : IsAdding(v)' => ht'[v].node # ht'[u].node
      BY DEF AddersOk
    <3>1. \A v \in HostThread \ {t} : IsAdding(v)' => ht'[v].node \in live /\ ht'[v].node # n
      BY <1>a, <2>1, <2>4, <2>5
    <3>2. CASE u = t
      <4>1. ht'[u].node = n /\ ht'[u].nx = next[HEAD] /\ ht'[u].pc = "add1"
        BY <2>4, <3>2
      <4> QED BY <2>a, <2>6, <2>7, <3>1, <3>2, <4>1
    <3>3. CASE u # t
      <4>1. IsAdding(u) /\ ht'[u] = ht[u] /\ ht[u].node \in live /\ ht[u].nx \in Reachable
        BY <1>a, <2>4, <2>5, <3>3
      <4>2. ht[u].pc \in {"add3", "add4"} => next[ht[u].node] = ht[u].nx
        BY <1>a, <4>1
      <4>3. next'[ht[u].node] = next[ht[u].node]
        BY <1>0, <2>1, <4>1, RefType DEF Shapes
      <4>4. \A v \in HostThread \ {u} : IsAdding(v)' => ht'[v].node # ht'[u].node
        BY <1>a, <2>4, <2>5, <3>1, <4>1
      <4>5. ht'[u].node \in live' /\ ht'[u].nx \in Reachable'
        BY <2>a, <2>6, <4>1
      <4>6. ht'[u].pc \in {"add3", "add4"} => next'[ht'[u].node] = ht'[u].nx
        BY <4>1, <4>2, <4>3
      <4> QED BY <4>4, <4>5, <4>6
    <3> QED BY <3>2, <3>3
  <2> QED BY <2>2, <2>6, <2>8, <2>9, <2>10 DEF IInv
<1>4. ASSUME list_add(t) PROVE IInv'
  <2>1. PICK pc \in {"add2", "add3", "add4", "reply"} : ht' = [ht EXCEPT ![t].pc = pc]
    BY <1>4 DEF list_add, Goto
  <2> DEFINE f == [pc |-> pc, host |-> ht[t].host, node |-> ht[t].node, nx |-> ht[t].nx]
             n == ht[t].node
  <2>2. ht' = [ht EXCEPT ![t] = f]
    <3>1. ht' = [ht EXCEPT ![t] = [ht[t] EXCEPT !.pc = pc]]
      BY <2>1
    <3>2. [ht[t] EXCEPT !.pc = pc] = f
      BY <1>0, UpdatePc
    <3> QED BY <3>1, <3>2
  <2>3. /\ f = [pc |-> f.pc, host |-> f.host, node |-> f.node, nx |-> f.nx]
        /\ f.pc = pc /\ f.node = n /\ f.nx = ht[t].nx
    OBVIOUS
  <2> HIDE DEF f
  <2>4. /\ \A u \in HostThread \ {t} : ht'[u] = ht[u]
        /\ ht'[t] = f
        /\ ht' = [u \in HostThread |-> [pc |-> ht'[u].pc, host |-> ht'[u].host,
                                        node |-> ht'[u].node, nx |-> ht'[u].nx]]
    BY <1>0, <2>2, <2>3, HtUpdate
  <2>5. ht'[t].pc = pc
    BY <2>3, <2>4
  <2>6. IsAdding(t) /\ mt' = mt /\ live' = live
    BY <1>4 DEF list_add, IsAdding
  <2>7. n \in live /\ n \in Node /\ n \in Ref /\ n # HEAD /\ n \notin Reachable
    BY <1>0, <1>a, <2>6, CompleteMeans, EventListAssumption DEF Shapes, Reachable, Ref
  <2>8. ht[t].nx \in Reachable
    BY <1>a, <2>6
  <2>9. CASE ht[t].pc \in {"add1", "add3"}
    <3>1. next' = next /\ pc = IF ht[t].pc = "add1" THEN "add2" ELSE "add4"
      <4>1. ht[t].pc = "add1" => next' = next /\ ht' = [ht EXCEPT ![t].pc = "add2"]
        BY <1>4 DEF list_add, Goto
      <4>2. ht[t].pc = "add3" => next' = next /\ ht' = [ht EXCEPT ![t].pc = "add4"]
        BY <1>4 DEF list_add, Goto
      <4>3. \A q : ht' = [ht EXCEPT ![t].pc = q] => ht'[t].pc = q
        BY <1>0 DEF Shapes
      <4> QED BY <2>5, <2>9, <4>1, <4>2, <4>3
    <3>2. f.pc \in AddPcs /\ (f.pc \in {"add3", "add4"} => next[f.node] = f.nx)
      BY <1>a, <2>3, <2>6, <2>9, <3>1 DEF AddPcs
    <3> QED BY <2>2, <2>3, <2>6, <3>1, <3>2, QuietStep
  <2>10. CASE ht[t].pc = "add2"
    <3>1. next' = [next EXCEPT ![n] = ht[t].nx] /\ pc = "add3"
      <4>1. next' = [next EXCEPT ![n] = ht[t].nx] /\ ht' = [ht EXCEPT ![t].pc = "add3"]
        BY <1>4, <2>10 DEF list_add, Goto
      <4>2. ht'[t].pc = "add3"
        BY <1>0, <4>1 DEF Shapes
      <4> QED BY <2>5, <4>1, <4>2
    <3>2. \A u \in HostThread : /\ IsAdding(u)' <=> IsAdding(u)
                                /\ ht'[u].node = ht[u].node /\ ht'[u].nx = ht[u].nx
      BY <2>3, <2>4, <2>10, <3>1 DEF IsAdding
    <3>3. Reachable' = Reachable
      <4>1. \A m : m \in Complete' <=> /\ m \in live'
                                      /\ \A u \in HostThread : IsAdding(u)' => ht'[u].node # m
        BY DEF Complete, Adding, IsAdding
      <4>2. \A m : m \in Complete' <=> m \in Complete
        BY <2>6, <3>2, <4>1, CompleteMeans
      <4>3. Complete' = Complete
        BY <4>2
      <4> QED BY <4>3 DEF Reachable
    <3>4. next'[n] = ht[t].nx /\ \A m \in Ref \ {n} : next'[m] = next[m]
      BY <1>0, <2>7, <3>1 DEF Shapes
    <3>5. Shapes'
      <4>1. next' \in [Ref -> Ref]
        BY <1>0, <2>7, <2>8, <3>1, ReachableType DEF Shapes
      <4> QED BY <1>0, <2>4, <2>6, <4>1 DEF Shapes
    <3>6. AddersOk'
      <4> SUFFICES ASSUME NEW u \in HostThread, IsAdding(u)'
                   PROVE  /\ ht'[u].node \in live'
                          /\ ht'[u].nx \in Reachable'
                          /\ ht'[u].pc \in {"add3", "add4"} => next'[ht'[u].node] = ht'[u].nx
                          /\ \A v \in HostThread \ {u} : IsAdding(v)' => ht'[v].node # ht'[u].node
        BY DEF AddersOk
      <4>1. ht'[u].node \in live' /\ ht'[u].nx \in Reachable'
        BY <1>a, <2>6, <3>2, <3>3
      <4>2. \A v \in HostThread \ {u} : IsAdding(v)' => ht'[v].node # ht'[u].node
        BY <1>a, <3>2
      <4>3. ht'[u].pc \in {"add3", "add4"} => next'[ht'[u].node] = ht'[u].nx
        <5>1. CASE u = t
          BY <3>2, <3>4, <5>1
        <5>2. CASE u # t
          <6>1. ht'[u].pc = ht[u].pc /\ ht[u].node # n /\ ht[u].node \in Ref
            BY <1>0, <1>a, <2>4, <2>6, <3>2, <5>2, RefType DEF Shapes
          <6> QED BY <1>a, <3>2, <3>4, <6>1
        <5> QED BY <5>1, <5>2
      <4> QED BY <4>1, <4>2, <4>3
    <3>7. \A m \in Reachable : next'[m] = next[m]
      BY <1>0, <2>7, <3>4, ReachableType
    <3> QED BY <2>6, <3>3, <3>5, <3>6, <3>7 DEF IInv
  <2>11. CASE ht[t].pc = "add4"
    <3>1. next' = [next EXCEPT ![HEAD] = n] /\ pc = "reply"
      <4>1. next' = [next EXCEPT ![HEAD] = n] /\ ht' = [ht EXCEPT ![t].pc = "reply"]
        BY <1>4, <2>11 DEF list_add, Goto
      <4>2. ht'[t].pc = "reply"
        BY <1>0, <4>1 DEF Shapes
      <4> QED BY <2>5, <4>1, <4>2
    <3>2. ~IsAdding(t)' /\ \A u \in HostThread \ {t} : IsAdding(u)' <=> IsAdding(u)
      BY <2>4, <2>5, <3>1 DEF IsAdding
    <3>3. \A u \in HostThread : ht'[u].node = ht[u].node /\ ht'[u].nx = ht[u].nx
      BY <2>3, <2>4
    <3>4. Reachable' = Reachable \cup {n}
      <4>1. \A m : m \in Complete' <=> /\ m \in live'
                                      /\ \A u \in HostThread : IsAdding(u)' => ht'[u].node # m
        BY DEF Complete, Adding, IsAdding
      <4>2. \A m : m \in Complete' => m \in Complete \cup {n}
        BY <2>6, <3>2, <3>3, <4>1, CompleteMeans
      <4>3. \A m : m \in Complete => m \in Complete'
        BY <2>6, <3>2, <3>3, <4>1, CompleteMeans
      <4>4. n \in Complete'
        BY <1>a, <2>6, <2>7, <3>2, <3>3, <4>1
      <4>5. Complete' = Complete \cup {n}
        BY <4>2, <4>3, <4>4
      <4> QED BY <4>5 DEF Reachable
    <3>5. next'[HEAD] = n /\ \A m \in Ref \ {HEAD} : next'[m] = next[m]
      BY <1>0, <2>7, <3>1, RefType DEF Shapes
    <3>6. Shapes'
      <4>1. next' \in [Ref -> Ref]
        BY <1>0, <2>7, <3>1 DEF Shapes
      <4> QED BY <1>0, <2>4, <2>6, <4>1 DEF Shapes
    <3>7. AddersOk'
      <4> SUFFICES ASSUME NEW u \in HostThread, IsAdding(u)'
                   PROVE  /\ ht'[u].node \in live'
                          /\ ht'[u].nx \in Reachable'
                          /\ ht'[u].pc \in {"add3", "add4"} => next'[ht'[u].node] = ht'[u].nx
                          /\ \A v \in HostThread \ {u} : IsAdding(v)' => ht'[v].node # ht'[u].node
        BY DEF AddersOk
      <4>1. u # t /\ IsAdding(u) /\ ht'[u].pc = ht[u].pc
        BY <2>4, <3>2
      <4>2. ht'[u].node \in live' /\ ht'[u].nx \in Reachable'
        BY <1>a, <2>6, <3>3, <3>4, <4>1
      <4>3. \A v \in HostThread \ {u} : IsAdding(v)' => ht'[v].node # ht'[u].node
        BY <1>a, <3>2, <3>3, <4>1
      <4>4. ht[u].node \in Ref \ {HEAD}
        BY <1>0, <1>a, <4>1, RefType, EventListAssumption DEF Shapes
      <4>5. ht'[u].pc \in {"add3", "add4"} => next'[ht'[u].node] = ht'[u].nx
        BY <1>a, <3>3, <3>5, <4>1, <4>4
      <4> QED BY <4>2, <4>3, <4>5
    <3>8. \A m \in Reachable' : next'[m] \in Reachable'
      <4>1. next'[n] = ht[t].nx
        BY <1>a, <2>6, <2>7, <2>11, <3>5
      <4>2. \A m \in Reachable \ {HEAD} : next'[m] = next[m]
        BY <1>0, <3>5, ReachableType
      <4>3. \A m \in Reachable : next[m] \in Reachable
        BY DEF IInv
      <4> QED BY <2>8, <3>4, <3>5, <4>1, <4>2, <4>3
    <3>9. (mt.pc = "walk" => mt.cur \in Reachable)'
      BY <2>6, <3>4 DEF IInv
    <3> QED BY <3>6, <3>7, <3>8, <3>9 DEF IInv
  <2> QED BY <1>4, <2>9, <2>10, <2>11 DEF list_add
<1> QED BY <1>1, <1>2, <1>b, <1>3, <1>4

\* The steps of the main thread that leave the list alone.
Looking == BeginWalk \/ create_notification_list \/ EndWalk \/ prune_notification_list
           \/ send_notifications

LEMMA WalkStep ==
    ASSUME IInv, Looking \/ UNCHANGED vars
    PROVE  IInv'
<1>1. UNCHANGED <<next, live, ht>>
  BY DEF Looking, BeginWalk, create_notification_list, EndWalk, prune_notification_list,
         send_notifications, vars, listVars
<1>2. ASSUME mt' = [pc |-> mt'.pc, cur |-> mt'.cur, list |-> mt'.list],
             mt'.pc = "walk" => mt'.cur \in Reachable
      PROVE  IInv'
  <2>1. Reachable' = Reachable /\ AddersOk'
    BY <1>1 DEF IInv, AddersOk, IsAdding, Reachable, Complete, Adding
  <2>2. Shapes'
    BY <1>1, <1>2 DEF IInv, Shapes
  <2> QED BY <1>1, <1>2, <2>1, <2>2 DEF IInv
<1>3. next[HEAD] \in Reachable /\ mt = [pc |-> mt.pc, cur |-> mt.cur, list |-> mt.list]
  BY DEF IInv, Reachable, Shapes
<1>4. CASE BeginWalk
  <2>1. mt' = [pc |-> "walk", cur |-> next[HEAD], list |-> <<>>]
    BY <1>4 DEF BeginWalk
  <2> QED BY <1>2, <1>3, <2>1
<1>5. CASE create_notification_list
  <2>1. PICK l : mt' = [mt EXCEPT !.cur = next[mt.cur], !.list = l]
    BY <1>5 DEF create_notification_list
  <2>2. mt.pc = "walk" /\ next[mt.cur] \in Reachable
    BY <1>5 DEF create_notification_list, IInv
  <2>3. mt' = [pc |-> "walk", cur |-> next[mt.cur], list |-> l]
    BY <1>3, <2>1, <2>2
  <2> QED BY <1>2, <2>2, <2>3
<1>6. CASE EndWalk
  <2>1. PICK p \in {"idle", "fill"} : mt' = [mt EXCEPT !.pc = p]
    BY <1>6 DEF EndWalk
  <2>2. mt' = [pc |-> p, cur |-> mt.cur, list |-> mt.list]
    BY <1>3, <2>1
  <2> QED BY <1>2, <2>2
<1>a. CASE prune_notification_list
  <2>1. PICK p \in {"idle", "fill"} : mt' = [mt EXCEPT !.pc = p, !.list = Tail(mt.list)]
    BY <1>a DEF prune_notification_list, Rest
  <2>2. mt' = [pc |-> p, cur |-> mt.cur, list |-> Tail(mt.list)]
    BY <1>3, <2>1
  <2> QED BY <1>2, <2>2
<1>7. CASE send_notifications
  <2>1. PICK p \in {"send", "del1"} : mt' = [mt EXCEPT !.pc = p]
    BY <1>7 DEF send_notifications
  <2>2. mt' = [pc |-> p, cur |-> mt.cur, list |-> mt.list]
    BY <1>3, <2>1
  <2> QED BY <1>2, <2>2
<1>8. CASE UNCHANGED vars
  BY <1>2, <1>3, <1>8 DEF vars, IInv
<1> QED BY <1>4, <1>5, <1>6, <1>a, <1>7, <1>8 DEF Looking

(***************************************************************************)
(* What holds of pointers and threads whatever happens.                    *)
(***************************************************************************)

\* Nodes that were a request at some time; a pointer leads to no other.
Owned  == {n \in Node : owner[n] \in Host}
Places == Owned \cup {HEAD, NULL}

PlacesOk ==
    /\ next \in [Ref -> Places] /\ prev \in [Ref -> Places]
    /\ \A t \in HostThread : ht[t].node \in Places /\ ht[t].nx \in Places
    /\ mt.cur \in Places
    /\ \A i \in DOMAIN mt.list : mt.list[i] \in Owned

Sending == {"fill", "send", "del1", "del2"}

\* The main thread has an entry to send; a request that is handled is one of a
\* host of the interface.
Busy ==
    /\ mt.pc \in Sending => mt.list # <<>>
    /\ \A t \in HostThread : ht[t].pc # "idle" =>
          ht[t].host \in Host /\ ServedBy[ht[t].host] = t /\ nreq[ht[t].host] # 0

TInv == TypeOK /\ PlacesOk /\ Busy

\* The two messages that are built in a cleared buffer.
LEMMA MessageTypes ==
    /\ [Cleared EXCEPT !.event = TRUE] = [id |-> 0, event |-> TRUE]
    /\ \A k : [Cleared EXCEPT !.id = k] = [id |-> k, event |-> FALSE]
    /\ \A k \in 0..MaxReq, e \in BOOLEAN : [id |-> k, event |-> e] \in Message
    /\ Cleared \in Message
<1>1. \A k \in 0..MaxReq, e \in BOOLEAN : [id |-> k, event |-> e] \in Message
  BY DEF Message
<1>2. Cleared = [id |-> 0, event |-> FALSE]
  BY DEF Cleared
<1>3. PICK no, yes : no = FALSE /\ yes = TRUE
  OBVIOUS
<1>a. Cleared = [id |-> 0, event |-> no]
  BY <1>2, <1>3, Zenon
<1>b. /\ [Cleared EXCEPT !.event = yes] = [id |-> 0, event |-> yes]
      /\ \A k : [Cleared EXCEPT !.id = k] = [id |-> k, event |-> no]
  BY <1>a, SMT
<1>4. /\ [Cleared EXCEPT !.event = TRUE] = [id |-> 0, event |-> TRUE]
      /\ \A k : [Cleared EXCEPT !.id = k] = [id |-> k, event |-> FALSE]
  BY <1>3, <1>b, Zenon
<1>5. 0 \in 0..MaxReq
  BY EventListAssumption
<1>6. Cleared \in Message
  BY <1>1, <1>2, <1>5
<1> QED BY <1>1, <1>4, <1>6

LEMMA InitTInv == Init => TInv
<1> SUFFICES ASSUME Init PROVE TInv
  OBVIOUS
<1>1. /\ HEAD \in Ref /\ NULL \in Ref /\ HEAD \in Places /\ NULL \in Places /\ 0 \in 0..MaxReq
  BY EventListAssumption DEF Ref, Places
<1>2. Cleared \in Message /\ [Cleared EXCEPT !.event = TRUE] = [id |-> 0, event |-> TRUE]
  BY MessageTypes
<1>3. [id |-> 0, event |-> TRUE] \in Message
  BY <1>1, MessageTypes
<1>4. mt.list = <<>> /\ <<>> \in Seq(Node) /\ DOMAIN mt.list = {}
  BY DEF Init
<1>5. TypeOK
  BY <1>1, <1>2, <1>3, <1>4 DEF Init, TypeOK, Idle
<1>6. PlacesOk
  BY <1>1, <1>4 DEF Init, PlacesOk, Idle
<1>7. Busy
  BY DEF Init, Busy, Sending, Idle
<1> QED BY <1>5, <1>6, <1>7 DEF TInv

\* The states of a host thread, and the updates that keep it one.
HtRecord == [pc : {"idle", "handle", "add1", "add2", "add3", "add4", "reply"},
             host : Host \cup {NULL}, node : Node \cup {NULL}, nx : Ref]

LEMMA HtType ==
    ASSUME TypeOK, NEW t \in HostThread,
           NEW p \in {"idle", "handle", "add1", "add2", "add3", "add4", "reply"}
    PROVE  /\ [ht EXCEPT ![t].pc = p] \in [HostThread -> HtRecord]
           /\ \A h \in Host : [ht EXCEPT ![t].pc = p, ![t].host = h] \in [HostThread -> HtRecord]
           /\ \A n \in Node, x \in Ref :
                 [ht EXCEPT ![t].pc = p, ![t].node = n, ![t].nx = x] \in [HostThread -> HtRecord]
<1>1. ht \in [HostThread -> HtRecord]
  BY DEF TypeOK, HtRecord
<1>2. [ht EXCEPT ![t].pc = p] \in [HostThread -> HtRecord]
  BY <1>1 DEF HtRecord
<1>3. \A h \in Host : [ht EXCEPT ![t].pc = p, ![t].host = h] \in [HostThread -> HtRecord]
  BY <1>1 DEF HtRecord
<1>4. \A n \in Node, x \in Ref :
        [ht EXCEPT ![t].pc = p, ![t].node = n, ![t].nx = x] \in [HostThread -> HtRecord]
  BY <1>1, ZenonT(40) DEF HtRecord
<1> QED BY <1>2, <1>3, <1>4

LEMMA HostThreadTInv ==
    ASSUME TInv, NEW t \in HostThread, raced' \subseteq {"list", "buffer"}
    PROVE  /\ (\E h \in Host : handle_request(t, h)) => TInv'
           /\ handle_async_event(t) => TInv'
           /\ list_add(t) => TInv'
           /\ SendRsp(t) => TInv'
<1> USE DEF TInv
<1>1. ASSUME NEW h \in Host, handle_request(t, h) PROVE TInv'
  <2>1. /\ ht[t].pc = "idle" /\ ServedBy[h] = t
        /\ UNCHANGED <<next, prev, live, owner, mt, wire, due>>
    BY <1>1 DEF handle_request, listVars
  <2>2. PICK pc \in {"handle", "reply"} : ht' = [ht EXCEPT ![t].pc = pc, ![t].host = h]
    BY <1>1 DEF handle_request
  <2>3. /\ nreq[h] + 1 \in 0..MaxReq /\ nreq[h] + 1 # 0
        /\ nreq' = [nreq EXCEPT ![h] = nreq[h] + 1]
    <3>1. nreq[h] \in 0..MaxReq /\ nreq[h] < MaxReq /\ MaxReq \in Nat
      BY <1>1, EventListAssumption DEF handle_request, TypeOK
    <3>2. nreq' = [nreq EXCEPT ![h] = nreq[h] + 1]
      BY <1>1 DEF handle_request
    <3> QED BY <3>1, <3>2
  <2>4. buf' = [buf EXCEPT ![h] = [id |-> nreq[h] + 1, event |-> FALSE]]
    BY <1>1, MessageTypes DEF handle_request
  <2>5. TypeOK'
    <3>1. buf' \in [Host -> Message] /\ nreq' \in [Host -> 0..MaxReq]
      BY <2>3, <2>4, MessageTypes DEF TypeOK
    <3>2. ht' \in [HostThread -> HtRecord]
      BY <2>2, HtType
    <3> QED BY <2>1, <2>3, <3>1, <3>2 DEF TypeOK, HtRecord
  <2>6. /\ \A u \in HostThread : ht'[u].node = ht[u].node /\ ht'[u].nx = ht[u].nx
        /\ \A u \in HostThread \ {t} : ht'[u] = ht[u]
        /\ ht'[t].pc = pc /\ ht'[t].host = h
    BY <2>2 DEF TypeOK
  <2>7. PlacesOk'
    BY <2>1, <2>6 DEF PlacesOk, Places, Owned
  <2>8. Busy'
    <3>1. nreq'[h] # 0 /\ \A g \in Host \ {h} : nreq'[g] = nreq[g]
      BY <2>3 DEF TypeOK
    <3> QED BY <2>1, <2>6, <3>1 DEF Busy
  <2> QED BY <2>5, <2>7, <2>8
<1>2. ASSUME handle_async_event(t), Goto(t, "reply"), UNCHANGED listVars PROVE TInv'
  <2>1. /\ UNCHANGED <<next, prev, live, owner, mt, buf, wire, nreq, due>>
        /\ ht[t].pc = "handle"
    BY <1>2 DEF handle_async_event, sendVars, listVars
  <2>2. ht' = [ht EXCEPT ![t].pc = "reply"]
    BY <1>2 DEF Goto
  <2>3. /\ \A u \in HostThread \ {t} : ht'[u] = ht[u]
        /\ ht'[t].pc = "reply" /\ ht'[t].node = ht[t].node /\ ht'[t].nx = ht[t].nx
        /\ ht'[t].host = ht[t].host
    BY <2>2 DEF TypeOK
  <2>4. TypeOK'
    <3>1. ht' \in [HostThread -> HtRecord]
      BY <2>2, HtType
    <3> QED BY <2>1, <3>1 DEF TypeOK, HtRecord
  <2>5. PlacesOk'
    BY <2>1, <2>3 DEF PlacesOk, Places, Owned
  <2>6. Busy'
    BY <2>1, <2>3 DEF Busy
  <2> QED BY <2>4, <2>5, <2>6
<1>3. ASSUME handle_async_event(t), ~Goto(t, "reply") \/ ~UNCHANGED listVars PROVE TInv'
  <2>1. PICK n \in Node \ live :
            /\ live' = live \cup {n}
            /\ owner' = [owner EXCEPT ![n] = ht[t].host]
            /\ next' = [next EXCEPT ![n] = NULL]
            /\ prev' = [prev EXCEPT ![n] = NULL]
            /\ ht' = [ht EXCEPT ![t].pc = "add1", ![t].node = n, ![t].nx = next[HEAD]]
    BY <1>3 DEF handle_async_event
  <2>2. /\ UNCHANGED <<mt, buf, wire, nreq, due>>
        /\ ht[t].pc = "handle" /\ ht[t].host \in Host
    BY <1>3 DEF handle_async_event, sendVars, Busy
  <2>3. NULL \in Ref /\ n \in Ref /\ HEAD \in Ref /\ next[HEAD] \in Ref
    BY <2>1 DEF Ref, TypeOK
  <2>4. TypeOK'
    <3>1. ht' \in [HostThread -> HtRecord]
      BY <2>1, <2>3, HtType
    <3> QED BY <2>1, <2>2, <2>3, <3>1 DEF TypeOK, HtRecord
  <2>5. Owned \subseteq Owned' /\ n \in Owned' /\ Places \subseteq Places'
    BY <2>1, <2>2 DEF Owned, Places, TypeOK
  <2>6. /\ \A u \in HostThread \ {t} : ht'[u] = ht[u]
        /\ ht'[t].pc = "add1" /\ ht'[t].node = n /\ ht'[t].nx = next[HEAD] /\ ht'[t].host = ht[t].host
    BY <2>1 DEF TypeOK
  <2>7. PlacesOk'
    <3>1. next[HEAD] \in Places /\ NULL \in Places' /\ n \in Places'
      BY <2>3, <2>5 DEF PlacesOk, Places
    <3>2. next' \in [Ref -> Places'] /\ prev' \in [Ref -> Places']
      BY <2>1, <2>3, <2>5, <3>1 DEF PlacesOk
    <3> QED BY <2>2, <2>5, <2>6, <3>1, <3>2 DEF PlacesOk
  <2>8. Busy'
    BY <2>2, <2>6 DEF Busy
  <2> QED BY <2>4, <2>7, <2>8
<1>4. ASSUME list_add(t) PROVE TInv'
  <2>1. PICK pc \in {"add2", "add3", "add4", "reply"} : ht' = [ht EXCEPT ![t].pc = pc]
    BY <1>4 DEF list_add, Goto
  <2>2. /\ UNCHANGED <<live, owner, mt, buf, wire, nreq, due>>
        /\ ht[t].pc # "idle"
    BY <1>4 DEF list_add, sendVars
  <2>3. /\ \A u \in HostThread \ {t} : ht'[u] = ht[u]
        /\ ht'[t].pc = pc /\ ht'[t].node = ht[t].node /\ ht'[t].nx = ht[t].nx
        /\ ht'[t].host = ht[t].host
    BY <2>1 DEF TypeOK
  <2>4. /\ next' \in [Ref -> Ref] /\ prev' \in [Ref -> Ref]
        /\ next' \in [Ref -> Places] /\ prev' \in [Ref -> Places]
    <3>1. /\ ht[t].node \in Ref /\ ht[t].nx \in Ref /\ HEAD \in Ref
          /\ ht[t].node \in Places /\ ht[t].nx \in Places /\ HEAD \in Places
      BY DEF TypeOK, Ref, PlacesOk, Places
    <3>2. /\ next \in [Ref -> Ref] /\ prev \in [Ref -> Ref]
          /\ next \in [Ref -> Places] /\ prev \in [Ref -> Places]
      BY DEF TypeOK, PlacesOk
    <3>3. \E a, b \in {ht[t].node, ht[t].nx, HEAD} :
            \/ next' = [next EXCEPT ![a] = b] /\ prev' = prev
            \/ prev' = [prev EXCEPT ![a] = b] /\ next' = next
      BY <1>4 DEF list_add
    <3> QED BY <3>1, <3>2, <3>3
  <2>5. TypeOK'
    <3>1. ht' \in [HostThread -> HtRecord]
      BY <2>1, HtType
    <3> QED BY <2>2, <2>4, <3>1 DEF TypeOK, HtRecord
  <2>6. Places' = Places /\ Owned' = Owned
    BY <2>2 DEF Places, Owned
  <2>7. PlacesOk'
    BY <2>2, <2>3, <2>4, <2>6 DEF PlacesOk
  <2>8. Busy'
    BY <2>2, <2>3 DEF Busy
  <2> QED BY <2>5, <2>7, <2>8
<1>5. ASSUME SendRsp(t) PROVE TInv'
  <2> DEFINE h == ht[t].host
  <2>1. /\ UNCHANGED <<next, prev, live, owner, mt, buf, nreq, due>>
        /\ ht[t].pc = "reply"
        /\ wire' = [wire EXCEPT ![h] = [for |-> nreq[h], msg |-> buf[h]]]
        /\ ht' = [ht EXCEPT ![t] = Idle]
    BY <1>5 DEF SendRsp, listVars
  <2>2. h \in Host /\ nreq[h] # 0
    BY <2>1 DEF Busy
  <2>3. /\ \A u \in HostThread \ {t} : ht'[u] = ht[u]
        /\ ht'[t].pc = "idle" /\ ht'[t].node = NULL /\ ht'[t].nx = NULL
    BY <2>1 DEF TypeOK, Idle
  <2>4. TypeOK'
    BY <2>1, <2>2 DEF TypeOK, Idle, Ref
  <2>5. PlacesOk'
    <3>1. Places' = Places /\ Owned' = Owned /\ NULL \in Places
      BY <2>1 DEF Places, Owned
    <3> QED BY <2>1, <2>3, <3>1 DEF PlacesOk
  <2>6. Busy'
    BY <2>1, <2>3 DEF Busy
  <2> QED BY <2>4, <2>5, <2>6
<1> QED BY <1>1, <1>2, <1>3, <1>4, <1>5

\* The entry that the main thread sends, and what is left without it.
LEMMA Sends ==
    ASSUME TInv, mt.pc \in Sending
    PROVE  /\ mt.list # <<>> /\ mt.list \in Seq(Node) /\ Len(mt.list) \in Nat \ {0}
           /\ DOMAIN mt.list = 1 .. Len(mt.list)
           /\ Head(mt.list) = mt.list[1] /\ 1 \in DOMAIN mt.list
           /\ Head(mt.list) \in Node /\ owner[Head(mt.list)] \in Host
           /\ Tail(mt.list) \in Seq(Node)
           /\ \A i \in DOMAIN Tail(mt.list) :
                 i + 1 \in DOMAIN mt.list /\ i + 1 # 1 /\ Tail(mt.list)[i] = mt.list[i + 1]
           /\ \A i, j \in DOMAIN Tail(mt.list) : i + 1 = j + 1 => i = j
           /\ Len(mt.list) # 1 => Tail(mt.list) # <<>>
<1>1. mt.list # <<>> /\ mt.list \in Seq(Node)
  BY DEF TInv, Busy, TypeOK
<1>2. Head(mt.list) = mt.list[1] /\ Len(mt.list) \in Nat \ {0} /\ DOMAIN mt.list = 1 .. Len(mt.list)
  BY <1>1, HeadTailProperties, EmptySeq, LenProperties
<1>3. 1 \in DOMAIN mt.list
  BY <1>2
<1>4. /\ Tail(mt.list) \in Seq(Node) /\ Len(Tail(mt.list)) = Len(mt.list) - 1
      /\ DOMAIN Tail(mt.list) = 1 .. Len(mt.list) - 1
      /\ \A i \in 1 .. Len(mt.list) - 1 : Tail(mt.list)[i] = mt.list[i + 1]
  BY <1>1, HeadTailProperties, LenProperties
<1>5. \A i \in DOMAIN Tail(mt.list) :
          i + 1 \in DOMAIN mt.list /\ i + 1 # 1 /\ Tail(mt.list)[i] = mt.list[i + 1]
  BY <1>2, <1>4
<1>6. \A i, j \in DOMAIN Tail(mt.list) : i + 1 = j + 1 => i = j
  BY <1>4
<1>7. Len(mt.list) # 1 => Tail(mt.list) # <<>>
  <2>1. Len(mt.list) # 1 => Len(Tail(mt.list)) # 0
    BY <1>2, <1>4
  <2> QED BY <2>1, EmptySeq
<1>8. Head(mt.list) \in Node /\ owner[Head(mt.list)] \in Host
  BY <1>2, <1>3 DEF TInv, PlacesOk, Owned
<1> QED BY <1>1, <1>2, <1>3, <1>4, <1>5, <1>6, <1>7, <1>8

\* A step of the main thread that only changes its own state.
LEMMA MainOnly ==
    ASSUME TInv, UNCHANGED <<next, prev, live, owner, ht, buf, wire, nreq>>,
           due' \subseteq Node, raced' \subseteq {"list", "buffer"},
           mt' \in [pc : {"idle", "walk", "fill", "send", "del1", "del2"},
                    cur : Ref, list : Seq(Node)],
           mt'.cur \in Places, \A i \in DOMAIN mt'.list : mt'.list[i] \in Owned,
           mt'.pc \in Sending => mt'.list # <<>>
    PROVE  TInv'
<1> USE DEF TInv
<1>1. TypeOK'
  BY DEF TypeOK
<1>2. Places' = Places /\ Owned' = Owned
  BY DEF Places, Owned
<1>3. PlacesOk'
  BY <1>2 DEF PlacesOk
<1>4. Busy'
  BY DEF Busy
<1> QED BY <1>1, <1>3, <1>4

LEMMA MainThreadTInv ==
    ASSUME TInv, Looking \/ list_del, raced' \subseteq {"list", "buffer"}
    PROVE  TInv'
<1> USE DEF TInv
<1> DEFINE MtRecord == [pc : {"idle", "walk", "fill", "send", "del1", "del2"},
                        cur : Ref, list : Seq(Node)]
<1>0. /\ mt \in MtRecord /\ HEAD \in Ref /\ HEAD \in Places /\ NULL \in Ref
      /\ next \in [Ref -> Ref] /\ next \in [Ref -> Places] /\ owner \in [Node -> Host \cup {NULL}]
      /\ \A i \in DOMAIN mt.list : mt.list[i] \in Owned /\ mt.list[i] \in Node
      /\ DOMAIN (<<>>) = {} /\ <<>> \in Seq(Node)
      /\ due \subseteq Node /\ Places \subseteq Ref /\ mt.cur \in Places
  BY DEF TypeOK, Ref, Places, PlacesOk, Owned
<1>1. CASE BeginWalk
  <2>1. /\ mt' = [pc |-> "walk", cur |-> next[HEAD], list |-> <<>>]
        /\ UNCHANGED <<next, prev, live, owner, ht, buf, wire, nreq>>
        /\ due' = Complete
    BY <1>1 DEF BeginWalk, listVars, sendVars
  <2>2. /\ due' \subseteq Node /\ mt' \in MtRecord /\ mt'.cur \in Places /\ DOMAIN mt'.list = {}
        /\ mt'.pc \notin Sending
    BY <1>0, <2>1 DEF Complete, TypeOK, Sending
  <2> QED BY <2>1, <2>2, MainOnly
<1>2. CASE create_notification_list
  <2>1. PICK l : /\ mt' = [mt EXCEPT !.cur = next[mt.cur], !.list = l]
                 /\ l = mt.list \/ l = Append(mt.list, mt.cur)
    BY <1>2 DEF create_notification_list
  <2>2. /\ UNCHANGED <<next, prev, live, owner, ht, buf, wire, nreq, due>>
        /\ mt.pc = "walk" /\ mt.cur \in Node
    BY <1>2 DEF create_notification_list, listVars, sendVars
  <2>3. mt.cur \in Owned /\ mt.list \in Seq(Node)
    BY <1>0, <2>2, EventListAssumption DEF PlacesOk, Places
  <2>4. l \in Seq(Node) /\ \A i \in DOMAIN l : l[i] \in Owned
    <3>1. CASE l = mt.list
      BY <1>0, <2>3, <3>1
    <3>2. CASE l = Append(mt.list, mt.cur)
      <4>1. /\ l \in Seq(Node) /\ DOMAIN l = 1 .. Len(mt.list) + 1
            /\ DOMAIN mt.list = 1 .. Len(mt.list) /\ Len(mt.list) \in Nat
            /\ \A i \in 1 .. Len(mt.list) : l[i] = mt.list[i]
            /\ l[Len(mt.list) + 1] = mt.cur
        BY <2>2, <2>3, <3>2, AppendProperties, LenProperties
      <4>2. \A i \in DOMAIN l : i \in 1 .. Len(mt.list) \/ i = Len(mt.list) + 1
        BY <4>1
      <4> QED BY <1>0, <2>3, <4>1, <4>2
    <3> QED BY <2>1, <3>1, <3>2
  <2>5. mt' \in MtRecord /\ mt'.pc = "walk" /\ mt'.cur = next[mt.cur] /\ mt'.list = l
    BY <1>0, <2>1, <2>2, <2>4
  <2>6. mt'.pc \notin Sending
    BY <2>5 DEF Sending
  <2>7. next[mt.cur] \in Places
    BY <1>0
  <2> QED BY <1>0, <2>2, <2>4, <2>5, <2>6, <2>7, MainOnly
<1>3. CASE EndWalk
  <2>1. /\ UNCHANGED <<next, prev, live, owner, ht, buf, wire, nreq>> /\ due' = {}
        /\ mt' = [mt EXCEPT !.pc = IF mt.list = <<>> THEN "idle" ELSE "fill"]
    BY <1>3 DEF EndWalk, listVars, sendVars
  <2>2. /\ mt' \in MtRecord /\ mt'.cur = mt.cur /\ mt'.list = mt.list
        /\ mt'.pc = IF mt.list = <<>> THEN "idle" ELSE "fill"
    BY <1>0, <2>1
  <2>3. mt'.pc \in Sending => mt'.list # <<>>
    BY <2>2 DEF Sending
  <2> QED BY <1>0, <2>1, <2>2, <2>3, MainOnly
<1>4. ASSUME mt.pc \in Sending, mt' = Rest
      PROVE  /\ mt' \in MtRecord /\ mt'.cur = mt.cur /\ mt'.list = Tail(mt.list)
             /\ \A i \in DOMAIN mt'.list : mt'.list[i] \in Owned
             /\ mt'.pc \in {"idle", "fill"} /\ (mt'.pc \in Sending => mt'.list # <<>>)
  <2>1. mt' = [mt EXCEPT !.pc = IF Len(mt.list) = 1 THEN "idle" ELSE "fill", !.list = Tail(mt.list)]
    BY <1>4 DEF Rest
  <2>2. Tail(mt.list) \in Seq(Node)
    BY <1>4, Sends
  <2>3. /\ mt' \in MtRecord /\ mt'.cur = mt.cur /\ mt'.list = Tail(mt.list)
        /\ mt'.pc = IF Len(mt.list) = 1 THEN "idle" ELSE "fill"
    BY <1>0, <2>1, <2>2
  <2>4. \A i \in DOMAIN Tail(mt.list) : Tail(mt.list)[i] \in Owned
    BY <1>0, <1>4, Sends
  <2>5. mt'.pc \in Sending => Tail(mt.list) # <<>>
    BY <1>4, <2>3, Sends DEF Sending
  <2> QED BY <2>3, <2>4, <2>5
<1>5. CASE prune_notification_list
  <2>1. /\ UNCHANGED <<next, prev, live, owner, ht, buf, wire, nreq, due>>
        /\ mt.pc \in Sending /\ mt' = Rest
    BY <1>5 DEF prune_notification_list, listVars, sendVars, Sending
  <2> QED BY <1>0, <1>4, <2>1, MainOnly
<1>6. CASE send_notifications
  <2> DEFINE h == owner[Head(mt.list)]
  <2>0. mt.pc \in {"fill", "send"}
    BY <1>6 DEF send_notifications
  <2>1. h \in Host /\ mt.list # <<>>
    BY <2>0, Sends DEF Sending
  <2>2. PICK pc \in {"send", "del1"} : mt' = [mt EXCEPT !.pc = pc]
    BY <1>6 DEF send_notifications
  <2>3. mt' \in MtRecord /\ mt'.pc = pc /\ mt'.cur = mt.cur /\ mt'.list = mt.list
    BY <1>0, <2>2
  <2>4. UNCHANGED <<next, prev, live, owner, ht, nreq, due>>
    BY <1>6 DEF send_notifications, listVars
  <2>5. PlacesOk' /\ Busy'
    BY <2>1, <2>3, <2>4 DEF PlacesOk, Places, Owned, Busy
  <2>6. CASE mt.pc = "fill"
    <3>1. buf' = [buf EXCEPT ![h] = [id |-> 0, event |-> TRUE]] /\ wire' = wire
      BY <1>6, <2>6, MessageTypes DEF send_notifications
    <3>2. [id |-> 0, event |-> TRUE] \in Message
      <4>1. 0 \in 0..MaxReq
        BY EventListAssumption
      <4> QED BY <4>1, MessageTypes
    <3>3. buf' \in [Host -> Message]
      BY <2>1, <3>1, <3>2 DEF TypeOK
    <3>4. TypeOK'
      BY <2>3, <2>4, <3>1, <3>3 DEF TypeOK
    <3> QED BY <2>5, <3>4
  <2>7. CASE mt.pc = "send"
    <3>1. wire' = [wire EXCEPT ![h] = [for |-> 0, msg |-> buf[h]]] /\ buf' = buf
      BY <1>6, <2>7 DEF send_notifications
    <3>2. wire' \in [Host -> [for : 0..MaxReq, msg : Message]]
      BY <2>1, <3>1, EventListAssumption DEF TypeOK
    <3>3. TypeOK'
      BY <2>3, <2>4, <3>1, <3>2 DEF TypeOK
    <3> QED BY <2>5, <3>3
  <2> QED BY <2>0, <2>6, <2>7
<1>7. CASE list_del
  <2> DEFINE n == Head(mt.list)
  <2>0. mt.pc \in {"del1", "del2"} /\ mt.pc \in Sending
    BY <1>7 DEF list_del, Sending
  <2>1. n \in Node /\ mt.list # <<>>
    BY <2>0, Sends
  <2>2. /\ n \in Ref /\ next[n] \in Ref /\ prev[n] \in Ref /\ next[n] \in Places /\ prev[n] \in Places
        /\ prev \in [Ref -> Ref] /\ prev \in [Ref -> Places]
    BY <1>0, <2>1 DEF Ref, TypeOK, PlacesOk
  <2>3. UNCHANGED <<owner, ht, buf, wire, nreq, due>>
    BY <1>7 DEF list_del, sendVars
  <2>4. Places' = Places /\ Owned' = Owned
    BY <2>3 DEF Places, Owned
  <2>5. CASE mt.pc = "del1"
    <3>1. /\ prev' = [prev EXCEPT ![next[n]] = prev[n]] /\ next' = next /\ live' = live
          /\ mt' = [mt EXCEPT !.pc = "del2"]
      BY <1>7, <2>5 DEF list_del
    <3>2. mt' \in MtRecord /\ mt'.pc = "del2" /\ mt'.cur = mt.cur /\ mt'.list = mt.list
      BY <1>0, <3>1
    <3>3. prev' \in [Ref -> Ref] /\ prev' \in [Ref -> Places]
      BY <2>2, <3>1
    <3>4. TypeOK'
      BY <2>3, <3>1, <3>2, <3>3 DEF TypeOK
    <3>5. PlacesOk'
      BY <2>3, <2>4, <3>1, <3>2, <3>3 DEF PlacesOk
    <3>6. Busy'
      BY <2>1, <2>3, <3>2 DEF Busy
    <3> QED BY <3>4, <3>5, <3>6
  <2>6. CASE mt.pc = "del2"
    <3>1. /\ next' = [next EXCEPT ![prev[n]] = next[n]] /\ prev' = prev /\ live' = live \ {n}
          /\ mt' = Rest
      BY <1>7, <2>6 DEF list_del
    <3>2. /\ mt' \in MtRecord /\ mt'.cur = mt.cur
          /\ \A i \in DOMAIN mt'.list : mt'.list[i] \in Owned
          /\ mt'.pc \in Sending => mt'.list # <<>>
      BY <1>4, <2>0, <3>1
    <3>3. next' \in [Ref -> Ref] /\ next' \in [Ref -> Places]
      BY <1>0, <2>2, <3>1
    <3>4. TypeOK'
      BY <2>3, <3>1, <3>2, <3>3 DEF TypeOK
    <3>5. PlacesOk'
      BY <2>3, <2>4, <3>1, <3>2, <3>3 DEF PlacesOk
    <3>6. Busy'
      BY <2>3, <3>2 DEF Busy
    <3> QED BY <3>4, <3>5, <3>6
  <2> QED BY <2>0, <2>5, <2>6
<1> QED BY <1>1, <1>2, <1>3, <1>5, <1>6, <1>7 DEF Looking

LEMMA NextTInv == TInv /\ [Next]_vars => TInv'
<1> SUFFICES ASSUME TInv, [Next]_vars PROVE TInv'
  OBVIOUS
<1>1. CASE Next
  <2>1. raced' \subseteq {"list", "buffer"}
    <3>1. raced' = raced \cup Races'
      BY <1>1 DEF Next
    <3>2. Races' \subseteq {"list", "buffer"}
      BY DEF Races
    <3> QED BY <3>1, <3>2 DEF TInv, TypeOK
  <2> QED BY <1>1, <2>1, HostThreadTInv, MainThreadTInv DEF Next, Step, Looking
<1>2. CASE UNCHANGED vars
  BY <1>2 DEF vars, listVars, sendVars, TInv, TypeOK, PlacesOk, Places, Owned, Busy
<1> QED BY <1>1, <1>2

(***************************************************************************)
(* The list: no request is lost, and none is missed, while one thread adds *)
(* and another walks and removes elsewhere.                                *)
(***************************************************************************)

Storing(t) == ht[t].pc \in {"add2", "add3", "add4"}

\* The list is one ring: who goes along it from the head meets all of it, and
\* no two entries lead to the same one.
Full == \A S \in SUBSET Reachable :
            HEAD \in S /\ (\A r \in S : next[r] \in S) => Reachable \subseteq S

Injective == \A q, r \in Reachable : next[q] = next[r] => q = r

\* How far an addition is.
AddInv == \A t \in HostThread : IsAdding(t) =>
             /\ ht[t].nx = next[HEAD]
             /\ Storing(t) => prev[ht[t].nx] = ht[t].node
             /\ ht[t].pc = "add4" => prev[ht[t].node] = HEAD

\* prev leads back, except from where an addition or a removal is under way.
BackInv ==
    /\ \A q \in Reachable : \/ prev[next[q]] = q
                            \/ q = HEAD /\ \E t \in HostThread : Storing(t)
                            \/ mt.pc = "del2" /\ q = Head(mt.list)
    /\ mt.pc = "del2" => prev[next[Head(mt.list)]] = prev[Head(mt.list)]

\* The main thread's own list has requests of different hosts.
OwnList == /\ \A i \in DOMAIN mt.list : mt.list[i] \in Complete
           /\ \A i, j \in DOMAIN mt.list : owner[mt.list[i]] = owner[mt.list[j]] => i = j

Seen(d) == \E i \in DOMAIN mt.list : owner[mt.list[i]] = owner[d]

\* What the walk has to see lies between its place and the head, or was seen.
WalkInv == mt.pc = "walk" =>
    /\ due \subseteq Complete
    /\ \A S \in SUBSET Reachable :
          mt.cur \in S /\ (\A r \in S \ {HEAD} : next[r] \in S) =>
              \A d \in due : d \in S \/ Seen(d)

LInv == Full /\ Injective /\ AddInv /\ BackInv /\ OwnList /\ WalkInv

CInv == TInv /\ IInv /\ LInv

LEMMA InitCInv == Init => CInv /\ ~ListRace
<1> SUFFICES ASSUME Init PROVE CInv /\ ~ListRace
  OBVIOUS
<1>1. TInv /\ IInv
  BY InitTInv, InitIInv
<1>2. \A t \in HostThread : ~IsAdding(t) /\ ~Storing(t)
  BY DEF Init, Idle, IsAdding, Storing
<1>3. Reachable = {HEAD} /\ next[HEAD] = HEAD /\ prev[HEAD] = HEAD
  BY RefType DEF Init, Reachable, Complete
<1>4. mt.pc = "idle" /\ DOMAIN mt.list = {}
  BY DEF Init
<1>5. Full /\ Injective
  BY <1>3 DEF Full, Injective
<1>6. AddInv /\ BackInv /\ OwnList /\ WalkInv
  BY <1>2, <1>3, <1>4 DEF AddInv, BackInv, OwnList, WalkInv
<1>7. ~ListRace
  BY <1>2, <1>4 DEF ListRace
<1> QED BY <1>1, <1>5, <1>6, <1>7 DEF CInv, LInv

\* An entry of the list has one before it, which is not the entry itself.
LEMMA HasPrevious ==
    ASSUME IInv, Full, Injective, NEW n \in Complete
    PROVE  /\ next[n] # n
           /\ \E p \in Reachable \ {n} : next[p] = n
<1>1. n # HEAD /\ n \in Reachable /\ HEAD \in Reachable
  BY EventListAssumption DEF Reachable, Complete, IInv, Shapes
<1>2. \E p \in Reachable \ {n} : next[p] = n
  <2> SUFFICES ASSUME \A p \in Reachable \ {n} : next[p] # n PROVE FALSE
    OBVIOUS
  <2> DEFINE S == Reachable \ {n}
  <2>1. S \in SUBSET Reachable /\ HEAD \in S
    BY <1>1
  <2>2. \A r \in S : next[r] \in S
    BY DEF IInv
  <2>3. Reachable \subseteq S
    BY <2>1, <2>2 DEF Full
  <2> QED BY <1>1, <2>3
<1>3. next[n] # n
  BY <1>1, <1>2 DEF Injective
<1> QED BY <1>2, <1>3

\* What does not concern the list keeps what is said of it.
LEMMA KeepList ==
    ASSUME Full, Injective, OwnList, WalkInv, Complete' = Complete,
           \A r \in Reachable : next'[r] = next[r],
           \A n \in Complete : owner'[n] = owner[n],
           UNCHANGED <<mt, due>>
    PROVE  (Full /\ Injective /\ OwnList /\ WalkInv)'
<1>1. Reachable' = Reachable
  BY DEF Reachable
<1>2. Full'
  <2> SUFFICES ASSUME NEW S \in SUBSET Reachable, HEAD \in S, \A r \in S : next'[r] \in S
               PROVE  Reachable \subseteq S
    BY <1>1 DEF Full
  <2>1. \A r \in S : next[r] \in S
    OBVIOUS
  <2> QED BY <2>1 DEF Full
<1>3. Injective'
  BY <1>1 DEF Injective
<1>4. OwnList'
  BY DEF OwnList
<1>5. WalkInv'
  <2> SUFFICES ASSUME mt.pc = "walk"
               PROVE  /\ due \subseteq Complete
                      /\ \A S \in SUBSET Reachable :
                            mt.cur \in S /\ (\A r \in S \ {HEAD} : next'[r] \in S) =>
                                \A d \in due : d \in S \/ Seen(d)'
    BY <1>1 DEF WalkInv
  <2>1. due \subseteq Complete
    BY DEF WalkInv
  <2>2. \A d \in due : Seen(d) => (\E i \in DOMAIN mt.list : owner'[mt.list[i]] = owner'[d])
    BY <2>1 DEF Seen, OwnList
  <2>3. ASSUME NEW S \in SUBSET Reachable, mt.cur \in S, \A r \in S \ {HEAD} : next'[r] \in S,
               NEW d \in due
        PROVE  d \in S \/ \E i \in DOMAIN mt.list : owner'[mt.list[i]] = owner'[d]
    <3>1. \A r \in S \ {HEAD} : next[r] \in S
      BY <2>3
    <3>2. d \in S \/ Seen(d)
      BY <2>3, <3>1 DEF WalkInv
    <3> QED BY <2>2, <3>2
  <2> QED BY <2>1, <2>3 DEF Seen
<1> QED BY <1>2, <1>3, <1>4, <1>5

\* At most one addition is under way.
LEMMA OneAdding ==
    ASSUME ~ListRace, NEW t \in HostThread, IsAdding(t)
    PROVE  /\ \A u \in HostThread \ {t} : ~IsAdding(u)
           /\ Complete = live \ {ht[t].node}
<1>1. \A u \in HostThread \ {t} : ~IsAdding(u)
  BY DEF ListRace
<1>2. Adding = {ht[t].node}
  BY <1>1 DEF Adding
<1> QED BY <1>1, <1>2 DEF Complete

LEMMA OneAddingNext ==
    ASSUME ~ListRace', NEW t \in HostThread, IsAdding(t)'
    PROVE  /\ \A u \in HostThread \ {t} : ~IsAdding(u)'
           /\ Complete' = live' \ {ht'[t].node}
<1>1. \A u \in HostThread \ {t} : ~IsAdding(u)'
  BY DEF ListRace
<1>2. Adding' = {ht'[t].node}
  BY <1>1 DEF Adding
<1> QED BY <1>1, <1>2 DEF Complete

\* The entry that is sent or removed is on the list.
LEMMA HeadComplete ==
    ASSUME TInv, OwnList, mt.pc \in Sending
    PROVE  Head(mt.list) \in Complete
BY Sends DEF OwnList

\* A step of a host thread that does not concern the list.
LEMMA QuietList ==
    ASSUME LInv, NEW t \in HostThread, ~IsAdding(t), ~IsAdding(t)',
           \A u \in HostThread \ {t} : ht'[u] = ht[u],
           UNCHANGED <<next, prev, live, owner, mt, due>>
    PROVE  LInv'
<1>0. Full /\ Injective /\ AddInv /\ BackInv /\ OwnList /\ WalkInv
  BY DEF LInv
<1>1. \A u \in HostThread : (IsAdding(u)' <=> IsAdding(u)) /\ (Storing(u)' <=> Storing(u))
  BY DEF IsAdding, Storing
<1>2. \A u \in HostThread : IsAdding(u) => ht'[u] = ht[u]
  OBVIOUS
<1>3. Complete' = Complete /\ Reachable' = Reachable
  <2>1. \A m : m \in Complete' <=> /\ m \in live'
                                  /\ \A u \in HostThread : IsAdding(u)' => ht'[u].node # m
    BY DEF Complete, Adding
  <2>2. \A m : m \in Complete' <=> m \in Complete
    BY <1>1, <1>2, <2>1, CompleteMeans
  <2>3. Complete' = Complete
    BY <2>2
  <2> QED BY <2>3 DEF Reachable
<1>4. (Full /\ Injective /\ OwnList /\ WalkInv)'
  BY <1>0, <1>3, KeepList
<1>5. AddInv'
  BY <1>0, <1>1, <1>2 DEF AddInv
<1>6. BackInv'
  BY <1>0, <1>1, <1>3 DEF BackInv
<1> QED BY <1>4, <1>5, <1>6 DEF LInv

LEMMA HostThreadLInv ==
    ASSUME CInv, ~ListRace, ~ListRace', NEW t \in HostThread
    PROVE  /\ (\E h \in Host : handle_request(t, h)) => LInv'
           /\ handle_async_event(t) => LInv'
           /\ list_add(t) => LInv'
           /\ SendRsp(t) => LInv'
<1>0. /\ Full /\ Injective /\ AddInv /\ BackInv /\ OwnList /\ WalkInv /\ LInv
      /\ TInv /\ IInv /\ TypeOK
      /\ HEAD \in Reachable /\ Reachable \subseteq Ref /\ live \subseteq Node
      /\ \A r \in Reachable : next[r] \in Reachable
  BY ReachableType DEF CInv, LInv, TInv, IInv, TypeOK, Reachable
<1> DEFINE m == Head(mt.list)
<1>a. mt.pc = "del2" => /\ m \in Complete /\ m \in Reachable /\ m # HEAD
                        /\ next[m] \in Reachable /\ prev[next[m]] = prev[m]
  <2>1. mt.pc = "del2" => m \in Complete
    BY <1>0, HeadComplete DEF Sending
  <2>2. HEAD \notin Complete
    BY <1>0, EventListAssumption DEF Complete
  <2> QED BY <1>0, <2>1, <2>2 DEF BackInv, Reachable
<1> HIDE DEF m
<1>1. ASSUME NEW h \in Host, handle_request(t, h) PROVE LInv'
  <2>1. PICK pc \in {"handle", "reply"} : ht' = [ht EXCEPT ![t].pc = pc, ![t].host = h]
    BY <1>1 DEF handle_request
  <2>2. /\ ht'[t].pc = pc /\ ht[t].pc = "idle" /\ UNCHANGED <<next, prev, live, owner, mt, due>>
        /\ \A u \in HostThread \ {t} : ht'[u] = ht[u]
    BY <1>0, <1>1, <2>1 DEF handle_request, listVars, TypeOK
  <2>3. ~IsAdding(t) /\ ~IsAdding(t)'
    BY <2>2 DEF IsAdding
  <2> QED BY <1>0, <2>2, <2>3, QuietList
<1>2. ASSUME SendRsp(t) PROVE LInv'
  <2>1. ht' = [ht EXCEPT ![t] = Idle]
    BY <1>2 DEF SendRsp
  <2>2. /\ ht'[t].pc = "idle" /\ ht[t].pc = "reply" /\ UNCHANGED <<next, prev, live, owner, mt, due>>
        /\ \A u \in HostThread \ {t} : ht'[u] = ht[u]
    BY <1>0, <1>2, <2>1 DEF SendRsp, listVars, TypeOK, Idle
  <2>3. ~IsAdding(t) /\ ~IsAdding(t)'
    BY <2>2 DEF IsAdding
  <2> QED BY <1>0, <2>2, <2>3, QuietList
<1>b. ASSUME handle_async_event(t), Goto(t, "reply"), UNCHANGED listVars PROVE LInv'
  <2>1. ht' = [ht EXCEPT ![t].pc = "reply"]
    BY <1>b DEF Goto
  <2>2. /\ ht'[t].pc = "reply" /\ ht[t].pc = "handle" /\ UNCHANGED <<next, prev, live, owner, mt, due>>
        /\ \A u \in HostThread \ {t} : ht'[u] = ht[u]
    BY <1>0, <1>b, <2>1 DEF handle_async_event, listVars, TypeOK
  <2>3. ~IsAdding(t) /\ ~IsAdding(t)'
    BY <2>2 DEF IsAdding
  <2> QED BY <1>0, <2>2, <2>3, QuietList
<1>3. ASSUME handle_async_event(t), ~Goto(t, "reply") \/ ~UNCHANGED listVars PROVE LInv'
  <2>1. PICK n \in Node \ live :
            /\ live' = live \cup {n}
            /\ owner' = [owner EXCEPT ![n] = ht[t].host]
            /\ next' = [next EXCEPT ![n] = NULL]
            /\ prev' = [prev EXCEPT ![n] = NULL]
            /\ ht' = [ht EXCEPT ![t].pc = "add1", ![t].node = n, ![t].nx = next[HEAD]]
    BY <1>3 DEF handle_async_event
  <2>2. /\ ht[t].pc = "handle" /\ UNCHANGED <<mt, due>>
        /\ ht'[t].pc = "add1" /\ ht'[t].node = n /\ ht'[t].nx = next[HEAD]
        /\ \A u \in HostThread \ {t} : ht'[u] = ht[u]
    <3>1. ht[t].pc = "handle" /\ UNCHANGED <<mt, due>>
      BY <1>3 DEF handle_async_event
    <3>2. ht'[t].pc = "add1" /\ ht'[t].node = n /\ ht'[t].nx = next[HEAD]
      BY <1>0, <2>1 DEF TypeOK
    <3>3. \A u \in HostThread \ {t} : ht'[u] = ht[u]
      BY <1>0, <2>1 DEF TypeOK
    <3> QED BY <3>1, <3>2, <3>3
  <2>3. /\ IsAdding(t)' /\ ht'[t].pc # "add4" /\ ~Storing(t)'
        /\ \A u \in HostThread : ~IsAdding(u) /\ ~Storing(u)
        /\ \A u \in HostThread \ {t} : ~IsAdding(u)' /\ ~Storing(u)'
    <3>1. IsAdding(t)' /\ ~IsAdding(t) /\ ~Storing(t) /\ ~Storing(t)' /\ ht'[t].pc # "add4"
      BY <2>2 DEF IsAdding, Storing
    <3>2. \A u \in HostThread \ {t} : ~IsAdding(u)'
      BY <3>1, OneAddingNext
    <3>3. \A u \in HostThread \ {t} : ~IsAdding(u) /\ ~Storing(u) /\ ~Storing(u)'
      BY <2>2, <3>2 DEF IsAdding, Storing
    <3> QED BY <3>1, <3>2, <3>3
  <2>4. Complete' = Complete /\ Reachable' = Reachable /\ Complete = live
    <3>1. Complete = live
      BY <2>3 DEF Complete, Adding
    <3>2. Complete' = live' \ {ht'[t].node}
      BY <2>3, OneAddingNext
    <3>3. live' = live \cup {n} /\ n \notin live /\ ht'[t].node = n
      BY <2>1, <2>2
    <3> QED BY <3>1, <3>2, <3>3 DEF Reachable
  <2>5. n \notin Reachable
    BY <2>1, <2>4, EventListAssumption DEF Reachable
  <2>6. /\ \A r \in Reachable : next'[r] = next[r] /\ prev'[r] = prev[r]
        /\ \A c \in Complete : owner'[c] = owner[c]
    BY <1>0, <2>1, <2>4, <2>5 DEF TypeOK
  <2>7. (Full /\ Injective /\ OwnList /\ WalkInv)'
    BY <1>0, <2>2, <2>4, <2>6, KeepList
  <2>8. AddInv'
    BY <1>0, <2>2, <2>3, <2>6 DEF AddInv
  <2>9. BackInv'
    <3>1. \A q \in Reachable : prev'[next'[q]] = q \/ (mt.pc = "del2" /\ q = Head(mt.list))
      BY <1>0, <2>3, <2>6 DEF BackInv
    <3>2. mt.pc = "del2" => prev'[next'[m]] = prev'[m]
      BY <1>a, <2>6
    <3> QED BY <2>2, <2>4, <3>1, <3>2 DEF BackInv, m
  <2> QED BY <2>7, <2>8, <2>9 DEF LInv
<1>4. ASSUME list_add(t) PROVE LInv'
  <2> DEFINE n == ht[t].node
             x == ht[t].nx
  <2>1. PICK pc \in {"add2", "add3", "add4", "reply"} : ht' = [ht EXCEPT ![t].pc = pc]
    BY <1>4 DEF list_add, Goto
  <2>2. /\ IsAdding(t) /\ UNCHANGED <<live, owner, mt, due>>
        /\ ht'[t].pc = pc /\ ht'[t].node = n /\ ht'[t].nx = x
    BY <1>0, <1>4, <2>1 DEF list_add, TypeOK, IsAdding
  <2>a. /\ \A u \in HostThread \ {t} : ~IsAdding(u) /\ ~Storing(u) /\ ht'[u] = ht[u]
        /\ \A u \in HostThread \ {t} : ~IsAdding(u)' /\ ~Storing(u)'
    <3>1. \A u \in HostThread \ {t} : ~IsAdding(u)
      BY <2>2, OneAdding
    <3>2. \A u \in HostThread \ {t} : ht'[u] = ht[u]
      BY <1>0, <2>1 DEF TypeOK
    <3> QED BY <3>1, <3>2 DEF IsAdding, Storing
  <2>4. /\ n \in live /\ n \in Node /\ n \in Ref /\ n # HEAD /\ n \notin Reachable /\ n \notin Complete
        /\ x \in Reachable /\ x = next[HEAD] /\ x # n
        /\ Complete = live \ {n}
    <3>1. Complete = live \ {n}
      BY <2>2, OneAdding
    <3>2. n \in live /\ x \in Reachable /\ x = next[HEAD]
      BY <1>0, <2>2 DEF IInv, AddersOk, AddInv
    <3> QED BY <1>0, <3>1, <3>2, EventListAssumption DEF Reachable, Ref
  <2>3. mt.pc = "del2" => m # x /\ next[m] # x
    <3>1. mt.pc = "del2" => m # x
      BY <2>2 DEF ListRace, m
    <3>2. mt.pc = "del2" => next[m] # x
      BY <1>0, <1>a, <2>4 DEF Injective
    <3> QED BY <3>1, <3>2
  <2>5. ASSUME NEW q \in Reachable
        PROVE  q # HEAD \/ ~Storing(t) =>
                   prev[next[q]] = q \/ (mt.pc = "del2" /\ q = m)
    BY <1>0, <2>a DEF BackInv, m
  <2>6. ASSUME pc # "reply"
        PROVE  /\ IsAdding(t)' /\ Storing(t)' /\ Complete' = Complete /\ Reachable' = Reachable
    <3>1. IsAdding(t)' /\ Storing(t)'
      BY <2>2, <2>6 DEF IsAdding, Storing
    <3>2. Complete' = live' \ {ht'[t].node}
      BY <3>1, OneAddingNext
    <3> QED BY <2>2, <2>4, <3>1, <3>2 DEF Reachable
  <2>7. CASE ht[t].pc = "add1"
    <3>1. prev' = [prev EXCEPT ![x] = n] /\ next' = next /\ pc = "add2"
      <4>1. prev' = [prev EXCEPT ![x] = n] /\ next' = next /\ ht' = [ht EXCEPT ![t].pc = "add2"]
        BY <1>4, <2>7 DEF list_add, Goto
      <4>2. ht'[t].pc = "add2"
        BY <1>0, <4>1 DEF TypeOK
      <4> QED BY <2>2, <4>1, <4>2
    <3>2. (Full /\ Injective /\ OwnList /\ WalkInv)'
      BY <1>0, <2>2, <2>6, <3>1, KeepList
    <3>3. prev'[x] = n /\ \A r \in Reachable \ {x} : prev'[r] = prev[r]
      BY <1>0, <2>4, <3>1 DEF TypeOK
    <3>4. AddInv'
      BY <1>0, <2>a, <2>2, <2>4, <3>1, <3>3 DEF AddInv
    <3>5. \A q \in Reachable \ {HEAD} : prev'[next[q]] = q \/ (mt.pc = "del2" /\ q = m)
      <4>1. \A q \in Reachable \ {HEAD} : next[q] # x /\ next[q] \in Reachable
        BY <1>0, <2>4 DEF Injective
      <4> QED BY <2>5, <3>3, <4>1
    <3>6. mt.pc = "del2" => prev'[next[m]] = prev'[m]
      BY <1>a, <2>3, <3>3
    <3>7. BackInv'
      BY <2>2, <2>6, <3>1, <3>5, <3>6 DEF BackInv, m
    <3> QED BY <3>2, <3>4, <3>7 DEF LInv
  <2>8. CASE ht[t].pc = "add2"
    <3>1. next' = [next EXCEPT ![n] = x] /\ prev' = prev /\ pc = "add3"
      <4>1. next' = [next EXCEPT ![n] = x] /\ prev' = prev /\ ht' = [ht EXCEPT ![t].pc = "add3"]
        BY <1>4, <2>8 DEF list_add, Goto
      <4>2. ht'[t].pc = "add3"
        BY <1>0, <4>1 DEF TypeOK
      <4> QED BY <2>2, <4>1, <4>2
    <3>2. \A r \in Reachable : next'[r] = next[r]
      BY <1>0, <2>4, <3>1 DEF TypeOK
    <3>3. (Full /\ Injective /\ OwnList /\ WalkInv)'
      BY <1>0, <2>2, <2>6, <3>1, <3>2, KeepList
    <3>4. prev[x] = n
      BY <1>0, <2>2, <2>8 DEF AddInv, Storing
    <3>5. AddInv'
      BY <1>0, <2>a, <2>2, <2>4, <3>1, <3>2, <3>4 DEF AddInv
    <3>6. \A q \in Reachable \ {HEAD} : prev'[next'[q]] = q \/ (mt.pc = "del2" /\ q = m)
      BY <2>5, <3>1, <3>2
    <3>7. mt.pc = "del2" => prev'[next'[m]] = prev'[m]
      BY <1>a, <3>1, <3>2
    <3>8. BackInv'
      BY <2>2, <2>6, <3>1, <3>6, <3>7 DEF BackInv, m
    <3> QED BY <3>3, <3>5, <3>8 DEF LInv
  <2>9. CASE ht[t].pc = "add3"
    <3>1. prev' = [prev EXCEPT ![n] = HEAD] /\ next' = next /\ pc = "add4"
      <4>1. prev' = [prev EXCEPT ![n] = HEAD] /\ next' = next /\ ht' = [ht EXCEPT ![t].pc = "add4"]
        BY <1>4, <2>9 DEF list_add, Goto
      <4>2. ht'[t].pc = "add4"
        BY <1>0, <4>1 DEF TypeOK
      <4> QED BY <2>2, <4>1, <4>2
    <3>2. prev'[n] = HEAD /\ \A r \in Reachable : prev'[r] = prev[r]
      BY <1>0, <2>4, <3>1 DEF TypeOK
    <3>3. (Full /\ Injective /\ OwnList /\ WalkInv)'
      BY <1>0, <2>2, <2>6, <3>1, KeepList
    <3>4. prev[x] = n
      BY <1>0, <2>2, <2>9 DEF AddInv, Storing
    <3>5. AddInv'
      BY <1>0, <2>a, <2>2, <2>4, <3>1, <3>2, <3>4 DEF AddInv
    <3>6. \A q \in Reachable \ {HEAD} : prev'[next'[q]] = q \/ (mt.pc = "del2" /\ q = m)
      BY <1>0, <2>5, <3>1, <3>2
    <3>7. mt.pc = "del2" => prev'[next'[m]] = prev'[m]
      BY <1>a, <3>1, <3>2
    <3>8. BackInv'
      BY <2>2, <2>6, <3>1, <3>6, <3>7 DEF BackInv, m
    <3> QED BY <3>3, <3>5, <3>8 DEF LInv
  <2>10. CASE ht[t].pc = "add4"
    <3>1. next' = [next EXCEPT ![HEAD] = n] /\ prev' = prev /\ pc = "reply"
      <4>1. next' = [next EXCEPT ![HEAD] = n] /\ prev' = prev /\ ht' = [ht EXCEPT ![t].pc = "reply"]
        BY <1>4, <2>10 DEF list_add, Goto
      <4>2. ht'[t].pc = "reply"
        BY <1>0, <4>1 DEF TypeOK
      <4> QED BY <2>2, <4>1, <4>2
    <3>2. ~IsAdding(t)' /\ ~Storing(t)' /\ Complete' = Complete \cup {n} /\ Reachable' = Reachable \cup {n}
      <4>1. ~IsAdding(t)' /\ ~Storing(t)'
        BY <2>2, <3>1 DEF IsAdding, Storing
      <4>2. \A u \in HostThread : ~IsAdding(u)'
        BY <2>a, <4>1
      <4>3. Complete' = live'
        BY <4>2 DEF Complete, Adding
      <4> QED BY <2>2, <2>4, <4>1, <4>3 DEF Reachable
    <3>3. /\ next'[HEAD] = n /\ next'[n] = x
          /\ \A r \in Reachable \ {HEAD} : next'[r] = next[r]
      <4>1. next[n] = x
        BY <1>0, <2>2, <2>10 DEF IInv, AddersOk
      <4> QED BY <1>0, <2>4, <3>1, <4>1 DEF TypeOK
    <3>4. prev[n] = HEAD /\ prev[x] = n
      BY <1>0, <2>2, <2>10 DEF AddInv, Storing
    <3>5. Full'
      <4> SUFFICES ASSUME NEW S \in SUBSET Reachable', HEAD \in S, \A r \in S : next'[r] \in S
                   PROVE  Reachable' \subseteq S
        BY DEF Full
      <4>1. n \in S /\ x \in S
        BY <3>3
      <4> DEFINE T == S \ {n}
      <4>2. T \in SUBSET Reachable /\ HEAD \in T
        BY <2>4, <3>2
      <4>3. \A r \in T : next[r] \in T
        BY <1>0, <2>4, <3>3, <4>1, <4>2
      <4>4. Reachable \subseteq T
        BY <1>0, <4>2, <4>3 DEF Full
      <4> QED BY <3>2, <4>1, <4>4
    <3>6. Injective'
      <4> SUFFICES ASSUME NEW q \in Reachable', NEW r \in Reachable', next'[q] = next'[r]
                   PROVE  q = r
        BY DEF Injective
      <4>1. \A s \in Reachable \ {HEAD} : next'[s] # x /\ next'[s] # n
        BY <1>0, <2>4, <3>3 DEF Injective
      <4>2. \A a, b \in Reachable \ {HEAD} : next'[a] = next'[b] => a = b
        BY <1>0, <3>3 DEF Injective
      <4>3. \A s \in Reachable' : s = n \/ s = HEAD \/ s \in Reachable \ {HEAD}
        BY <3>2
      <4> QED BY <2>4, <3>3, <4>1, <4>2, <4>3
    <3>7. AddInv'
      BY <2>a, <3>2 DEF AddInv
    <3>8. BackInv'
      <4>1. \A q \in Reachable \ {HEAD} : prev'[next'[q]] = q \/ (mt.pc = "del2" /\ q = m)
        BY <2>5, <3>1, <3>3
      <4>2. prev'[next'[HEAD]] = HEAD /\ prev'[next'[n]] = n
        BY <3>1, <3>3, <3>4
      <4>3. \A q \in Reachable' : prev'[next'[q]] = q \/ (mt.pc = "del2" /\ q = m)
        BY <3>2, <4>1, <4>2
      <4>4. mt.pc = "del2" => prev'[next'[m]] = prev'[m]
        BY <1>a, <3>1, <3>3
      <4> QED BY <2>2, <4>3, <4>4 DEF BackInv, m
    <3>9. OwnList'
      BY <1>0, <2>2, <3>2 DEF OwnList
    <3>10. WalkInv'
      <4> SUFFICES ASSUME mt.pc = "walk"
                   PROVE  /\ due \subseteq Complete'
                          /\ \A S \in SUBSET Reachable' :
                                mt.cur \in S /\ (\A r \in S \ {HEAD} : next'[r] \in S) =>
                                    \A d \in due : d \in S \/ Seen(d)
        BY <2>2 DEF WalkInv, Seen
      <4>1. due \subseteq Complete /\ due \subseteq Complete' /\ mt.cur \in Reachable
        BY <1>0, <3>2 DEF WalkInv, IInv
      <4>2. ASSUME NEW S \in SUBSET Reachable', mt.cur \in S, \A r \in S \ {HEAD} : next'[r] \in S,
                   NEW d \in due
            PROVE  d \in S \/ Seen(d)
        <5> DEFINE T == S \ {n}
        <5>1. T \in SUBSET Reachable /\ mt.cur \in T
          BY <2>4, <3>2, <4>1, <4>2
        <5>2. \A r \in T \ {HEAD} : next[r] \in T
          BY <1>0, <2>4, <3>3, <4>2, <5>1
        <5>3. d \in T \/ Seen(d)
          BY <1>0, <5>1, <5>2 DEF WalkInv
        <5> QED BY <5>3
      <4> QED BY <4>1, <4>2
    <3> QED BY <3>5, <3>6, <3>7, <3>8, <3>9, <3>10 DEF LInv
  <2>11. ht[t].pc \in {"add1", "add2", "add3", "add4"}
    BY <2>2 DEF IsAdding
  <2> QED BY <2>7, <2>8, <2>9, <2>10, <2>11
<1> QED BY <1>1, <1>2, <1>b, <1>3, <1>4

\* The steps of the main thread that leave the list alone.
LEMMA WalkLInv ==
    ASSUME CInv, Looking \/ UNCHANGED vars
    PROVE  LInv'
<1>0. /\ Full /\ Injective /\ AddInv /\ BackInv /\ OwnList /\ WalkInv /\ TInv /\ IInv /\ TypeOK
      /\ HEAD \in Reachable
  BY DEF CInv, LInv, TInv, Reachable
<1>1. UNCHANGED <<next, prev, live, owner, ht>>
  BY DEF Looking, BeginWalk, create_notification_list, EndWalk, prune_notification_list,
         send_notifications, vars, listVars
<1>2. Complete' = Complete /\ Reachable' = Reachable
  BY <1>1 DEF Complete, Adding, IsAdding, Reachable
<1>3. Full' /\ Injective' /\ AddInv'
  BY <1>0, <1>1, <1>2 DEF Full, Injective, AddInv, IsAdding, Storing
<1>4. ASSUME mt.pc # "del2", mt'.pc # "del2" PROVE BackInv'
  BY <1>0, <1>1, <1>2, <1>4 DEF BackInv, Storing
<1>5. CASE BeginWalk
  <2>1. /\ mt.pc = "idle" /\ mt' = [pc |-> "walk", cur |-> next[HEAD], list |-> <<>>]
        /\ due' = Complete
    BY <1>5 DEF BeginWalk
  <2>2. mt'.pc = "walk" /\ mt'.cur = next[HEAD] /\ DOMAIN mt'.list = {}
    BY <2>1
  <2>3. BackInv' /\ OwnList'
    BY <1>4, <2>1, <2>2 DEF OwnList
  <2>4. ASSUME NEW S \in SUBSET Reachable, next[HEAD] \in S, \A r \in S \ {HEAD} : next[r] \in S
        PROVE  Complete \subseteq S
    <3> DEFINE T == S \cup {HEAD}
    <3>1. T \in SUBSET Reachable /\ HEAD \in T /\ \A r \in T : next[r] \in T
      BY <1>0, <2>4
    <3>2. Reachable \subseteq T
      BY <1>0, <3>1 DEF Full
    <3>3. HEAD \notin Complete
      BY <1>0, EventListAssumption DEF Complete, TypeOK
    <3> QED BY <3>2, <3>3 DEF Reachable
  <2>5. WalkInv'
    BY <1>1, <1>2, <2>1, <2>2, <2>4 DEF WalkInv
  <2> QED BY <1>3, <2>3, <2>5 DEF LInv
<1>6. CASE create_notification_list
  <2> DEFINE l == IF Seen(mt.cur) THEN mt.list ELSE Append(mt.list, mt.cur)
  <2>1. /\ mt.pc = "walk" /\ mt.cur \in Node /\ due' = due
        /\ mt' = [mt EXCEPT !.cur = next[mt.cur], !.list = l]
    BY <1>6 DEF create_notification_list, Seen
  <2>2. mt'.pc = "walk" /\ mt'.cur = next[mt.cur] /\ mt'.list = l /\ mt.list \in Seq(Node)
    BY <1>0, <2>1 DEF TypeOK
  <2>3. mt.cur \in Complete /\ mt.cur \in Reachable /\ mt.cur # HEAD
    BY <1>0, <2>1, EventListAssumption DEF IInv, Reachable
  <2>4. /\ \A i \in DOMAIN mt.list : i \in DOMAIN l /\ l[i] = mt.list[i]
        /\ \A i \in DOMAIN l : i \in DOMAIN mt.list \/ (~Seen(mt.cur) /\ l[i] = mt.cur)
        /\ ~Seen(mt.cur) => \E i \in DOMAIN l : l[i] = mt.cur
        /\ \A i, j \in DOMAIN l : i \notin DOMAIN mt.list /\ j \notin DOMAIN mt.list => i = j
    <3>1. CASE Seen(mt.cur)
      BY <3>1
    <3>2. CASE ~Seen(mt.cur)
      <4>1. l = Append(mt.list, mt.cur)
        BY <3>2
      <4>2. /\ DOMAIN l = 1 .. Len(mt.list) + 1
            /\ DOMAIN mt.list = 1 .. Len(mt.list) /\ Len(mt.list) \in Nat
            /\ \A i \in 1 .. Len(mt.list) : l[i] = mt.list[i]
            /\ l[Len(mt.list) + 1] = mt.cur
        BY <2>1, <2>2, <4>1, AppendProperties, LenProperties
      <4>3. \A i \in DOMAIN l : i \in DOMAIN mt.list \/ i = Len(mt.list) + 1
        BY <4>2
      <4>4. \A i \in DOMAIN mt.list : i \in DOMAIN l
        BY <4>2
      <4>5. Len(mt.list) + 1 \in DOMAIN l
        BY <4>2
      <4> HIDE DEF l
      <4> QED BY <3>2, <4>2, <4>3, <4>4, <4>5
    <3> QED BY <3>1, <3>2
  <2> HIDE DEF l
  <2>5. BackInv'
    BY <1>4, <2>1, <2>2
  <2>6. OwnList'
    <3>1. \A i \in DOMAIN l : l[i] \in Complete
      BY <1>0, <2>3, <2>4 DEF OwnList
    <3>2. \A i, j \in DOMAIN mt.list : owner[l[i]] = owner[l[j]] => i = j
      BY <1>0, <2>4 DEF OwnList
    <3>3. \A i, j \in DOMAIN l : i \in DOMAIN mt.list /\ j \notin DOMAIN mt.list =>
              owner[l[i]] # owner[l[j]]
      BY <2>4 DEF Seen
    <3>4. \A i, j \in DOMAIN l : owner[l[i]] = owner[l[j]] => i = j
      BY <2>4, <3>2, <3>3
    <3> QED BY <1>1, <1>2, <2>2, <3>1, <3>4 DEF OwnList
  <2>7. WalkInv'
    <3>1. due \subseteq Complete
      BY <1>0, <2>1 DEF WalkInv
    <3>2. ASSUME NEW S \in SUBSET Reachable, next[mt.cur] \in S,
                 \A r \in S \ {HEAD} : next[r] \in S, NEW d \in due
          PROVE  d \in S \/ \E i \in DOMAIN l : owner[l[i]] = owner[d]
      <4> DEFINE T == S \cup {mt.cur}
      <4>1. T \in SUBSET Reachable /\ mt.cur \in T /\ \A r \in T \ {HEAD} : next[r] \in T
        BY <2>3, <3>2
      <4>2. d \in T \/ Seen(d)
        BY <1>0, <2>1, <4>1 DEF WalkInv
      <4>3. CASE Seen(d)
        BY <2>4, <4>3 DEF Seen
      <4>4. CASE d = mt.cur
        BY <2>4, <4>4 DEF Seen
      <4> QED BY <4>2, <4>3, <4>4
    <3> QED BY <1>1, <1>2, <2>1, <2>2, <3>1, <3>2 DEF WalkInv, Seen
  <2> QED BY <1>3, <2>5, <2>6, <2>7 DEF LInv
<1>7. CASE EndWalk
  <2>1. mt.pc = "walk" /\ \E p \in {"idle", "fill"} : mt' = [mt EXCEPT !.pc = p]
    BY <1>7 DEF EndWalk
  <2>2. mt'.pc \in {"idle", "fill"} /\ mt'.list = mt.list
    BY <1>0, <2>1 DEF TypeOK
  <2>3. BackInv' /\ WalkInv'
    BY <1>4, <2>1, <2>2 DEF WalkInv
  <2>4. OwnList'
    BY <1>0, <1>1, <1>2, <2>2 DEF OwnList
  <2> QED BY <1>3, <2>3, <2>4 DEF LInv
<1>a. CASE prune_notification_list
  <2>1. mt.pc = "fill" /\ mt' = Rest
    BY <1>a DEF prune_notification_list
  <2>2. mt'.pc \in {"idle", "fill"} /\ mt'.list = Tail(mt.list)
    BY <1>0, <2>1 DEF TypeOK, Rest
  <2>3. BackInv' /\ WalkInv'
    BY <1>4, <2>1, <2>2 DEF WalkInv
  <2>4. OwnList'
    <3>1. \A i \in DOMAIN Tail(mt.list) : Tail(mt.list)[i] \in Complete
      BY <1>0, <2>1, Sends DEF OwnList, Sending
    <3>2. \A i, j \in DOMAIN Tail(mt.list) :
              owner[Tail(mt.list)[i]] = owner[Tail(mt.list)[j]] => i = j
      BY <1>0, <2>1, Sends DEF OwnList, Sending
    <3> QED BY <1>1, <1>2, <2>2, <3>1, <3>2 DEF OwnList
  <2> QED BY <1>3, <2>3, <2>4 DEF LInv
<1>8. CASE send_notifications
  <2>1. mt.pc \in {"fill", "send"} /\ \E p \in {"send", "del1"} : mt' = [mt EXCEPT !.pc = p]
    BY <1>8 DEF send_notifications
  <2>2. mt'.pc \in {"send", "del1"} /\ mt'.list = mt.list
    BY <1>0, <2>1 DEF TypeOK
  <2>3. BackInv' /\ WalkInv'
    BY <1>4, <2>1, <2>2 DEF WalkInv
  <2>4. OwnList'
    BY <1>0, <1>1, <1>2, <2>2 DEF OwnList
  <2> QED BY <1>3, <2>3, <2>4 DEF LInv
<1>9. CASE UNCHANGED vars
  <2>1. mt' = mt /\ due' = due
    BY <1>9 DEF vars
  <2>2. BackInv'
    BY <1>0, <1>1, <1>2, <2>1 DEF BackInv, Storing
  <2>3. OwnList' /\ WalkInv'
    BY <1>0, <1>1, <1>2, <2>1, KeepList
  <2> QED BY <1>3, <2>2, <2>3 DEF LInv
<1> QED BY <1>5, <1>6, <1>7, <1>a, <1>8, <1>9 DEF Looking

\* The entry that is removed, and what lies around it.
LEMMA Removing ==
    ASSUME CInv, mt.pc \in {"del1", "del2"}
    PROVE  /\ Head(mt.list) \in Complete
           /\ next[Head(mt.list)] \in Reachable \ {Head(mt.list)}
           /\ \/ /\ prev[Head(mt.list)] \in Reachable \ {Head(mt.list)}
                 /\ next[prev[Head(mt.list)]] = Head(mt.list)
              \/ \E t \in HostThread :
                    Storing(t) /\ ht[t].nx = Head(mt.list) /\ prev[Head(mt.list)] = ht[t].node
<1> DEFINE n == Head(mt.list)
<1>0. /\ Full /\ Injective /\ AddInv /\ BackInv /\ OwnList /\ TInv /\ IInv /\ TypeOK
  BY DEF CInv, LInv, TInv
<1>1. n \in Complete
  BY <1>0, HeadComplete DEF Sending
<1>2. PICK p \in Reachable \ {n} : next[p] = n
  BY <1>0, <1>1, HasPrevious
<1>3. prev[n] = p \/ (p = HEAD /\ \E t \in HostThread : Storing(t))
  BY <1>0, <1>2 DEF BackInv
<1>4. ASSUME p = HEAD, NEW t \in HostThread, Storing(t)
      PROVE  ht[t].nx = n /\ prev[n] = ht[t].node
  <2>1. IsAdding(t)
    BY <1>4 DEF IsAdding, Storing
  <2> QED BY <1>0, <1>2, <1>4, <2>1 DEF AddInv
<1>5. next[n] \in Reachable \ {n}
  BY <1>0, <1>1, HasPrevious DEF IInv, Reachable
<1> QED BY <1>1, <1>2, <1>3, <1>4, <1>5

LEMMA RemoveStep ==
    ASSUME CInv, ~ListRace, ~ListRace', list_del, TInv'
    PROVE  IInv' /\ LInv'
<1> DEFINE n == Head(mt.list)
           p == prev[n]
<1>0. /\ Full /\ Injective /\ AddInv /\ BackInv /\ OwnList /\ TInv /\ IInv /\ TypeOK
      /\ Reachable \subseteq Ref /\ HEAD \in Reachable /\ live \subseteq Node
      /\ \A r \in Reachable : next[r] \in Reachable
  BY ReachableType DEF CInv, LInv, TInv, TypeOK, IInv, Reachable
<1>1. mt.pc \in {"del1", "del2"} /\ UNCHANGED <<owner, ht>>
  BY DEF list_del
<1>2. \A t \in HostThread : IsAdding(t) => ht[t].nx # n
  <2>1. CASE mt.pc = "del1"
    <3>1. mt' = [mt EXCEPT !.pc = "del2"]
      BY <2>1 DEF list_del
    <3>2. mt'.pc = "del2" /\ mt'.list = mt.list
      BY <1>0, <3>1 DEF TypeOK
    <3> QED BY <1>1, <3>2 DEF ListRace, IsAdding
  <2>2. CASE mt.pc = "del2"
    BY <2>2 DEF ListRace
  <2> QED BY <1>1, <2>1, <2>2
<1>3. /\ n \in Complete /\ n \in Reachable /\ n # HEAD /\ n \in live
      /\ next[n] \in Reachable \ {n} /\ p \in Reachable \ {n} /\ next[p] = n
  <2>1. \A t \in HostThread : Storing(t) => ht[t].nx # n
    BY <1>2 DEF IsAdding, Storing
  <2> QED BY <1>0, <1>1, <2>1, Removing, EventListAssumption DEF Reachable, Complete
<1>4. \A t \in HostThread :
        /\ IsAdding(t)' <=> IsAdding(t)
        /\ Storing(t)' <=> Storing(t)
        /\ Storing(t) => IsAdding(t)
  BY <1>1 DEF IsAdding, Storing
<1>5. ASSUME NEW t \in HostThread, IsAdding(t)
      PROVE  /\ ht[t].node \in live \ {n} /\ ht[t].node \in Ref /\ ht[t].node \notin Reachable
             /\ ht[t].nx \in Reachable \ {n} /\ ht[t].nx = next[HEAD] /\ p # HEAD
  <2>1. ht[t].node \in live /\ ht[t].nx \in Reachable /\ ht[t].nx = next[HEAD]
    BY <1>0, <1>5 DEF IInv, AddersOk, AddInv
  <2>2. ht[t].node \notin Complete /\ ht[t].node # HEAD
    BY <1>0, <1>5, <2>1, CompleteMeans, EventListAssumption
  <2> QED BY <1>0, <1>2, <1>3, <1>5, <2>1, <2>2, RefType DEF Reachable
<1>6. Shapes'
  <2>1. next' \in [Ref -> Ref] /\ live' \subseteq Node
    BY DEF TInv, TypeOK
  <2>2. mt' = [pc |-> mt'.pc, cur |-> mt'.cur, list |-> mt'.list]
    BY DEF TInv, TypeOK
  <2> QED BY <1>0, <1>1, <2>1, <2>2 DEF Shapes, IInv
<1>7. CASE mt.pc = "del1"
  <2>1. /\ prev' = [prev EXCEPT ![next[n]] = p] /\ next' = next /\ live' = live /\ due' = due
        /\ mt' = [mt EXCEPT !.pc = "del2"]
    BY <1>7 DEF list_del
  <2>2. mt'.pc = "del2" /\ mt'.list = mt.list /\ Complete' = Complete /\ Reachable' = Reachable
    BY <1>0, <1>1, <2>1 DEF TypeOK, Reachable, Complete, Adding, IsAdding
  <2>3. IInv'
    <3>1. AddersOk'
      BY <1>0, <1>1, <1>4, <2>1, <2>2 DEF IInv, AddersOk
    <3> QED BY <1>0, <1>6, <2>1, <2>2, <3>1 DEF IInv
  <2>4. Full' /\ Injective'
    BY <1>0, <2>1, <2>2 DEF Full, Injective
  <2>5. OwnList' /\ WalkInv'
    BY <1>0, <1>1, <2>2 DEF OwnList, WalkInv
  <2>6. prev'[next[n]] = p /\ \A r \in Ref \ {next[n]} : prev'[r] = prev[r]
    BY <1>0, <1>3, <2>1 DEF TypeOK
  <2>7. \A q \in Reachable \ {n} : next[q] # next[n] /\ next[q] \in Reachable
    BY <1>0, <1>3 DEF Injective
  <2>8. AddInv'
    <3> SUFFICES ASSUME NEW t \in HostThread, IsAdding(t)
                 PROVE  /\ ht[t].nx = next[HEAD]
                        /\ Storing(t) => prev'[ht[t].nx] = ht[t].node
                        /\ ht[t].pc = "add4" => prev'[ht[t].node] = HEAD
      BY <1>1, <1>4, <2>1 DEF AddInv
    <3>1. ht[t].nx \in Ref \ {next[n]} /\ ht[t].node \in Ref \ {next[n]}
      BY <1>0, <1>3, <1>5, <2>7
    <3> QED BY <1>0, <2>6, <3>1 DEF AddInv
  <2>9. \A q \in Reachable \ {n} : \/ prev'[next[q]] = q
                                   \/ q = HEAD /\ \E t \in HostThread : Storing(t)
    <3>1. \A q \in Reachable \ {n} : \/ prev[next[q]] = q
                                     \/ q = HEAD /\ \E t \in HostThread : Storing(t)
      BY <1>0, <1>7 DEF BackInv
    <3> QED BY <1>0, <2>6, <2>7, <3>1
  <2>10. prev'[n] = p
    BY <1>0, <1>3, <2>6
  <2>11. BackInv'
    BY <1>4, <2>1, <2>2, <2>6, <2>9, <2>10 DEF BackInv
  <2> QED BY <2>3, <2>4, <2>5, <2>8, <2>11 DEF LInv
<1>8. CASE mt.pc = "del2"
  <2>1. /\ next' = [next EXCEPT ![p] = next[n]] /\ prev' = prev /\ live' = live \ {n} /\ due' = due
        /\ mt' = Rest
    BY <1>8 DEF list_del
  <2>2. mt'.pc \in {"idle", "fill"} /\ mt'.list = Tail(mt.list)
    BY <1>0, <2>1 DEF TypeOK, Rest
  <2>3. Complete' = Complete \ {n} /\ Reachable' = Reachable \ {n}
    <3>1. Complete' = Complete \ {n}
      BY <1>1, <2>1 DEF Complete, Adding, IsAdding
    <3> QED BY <1>3, <3>1 DEF Reachable
  <2>4. next'[p] = next[n] /\ \A r \in Ref \ {p} : next'[r] = next[r]
    BY <1>0, <1>3, <2>1 DEF TypeOK
  <2>5. \A r \in Reachable \ {p} : next[r] # n
    BY <1>0, <1>3 DEF Injective
  <2>6. \A r \in Reachable' : next'[r] \in Reachable'
    BY <1>0, <1>3, <2>3, <2>4, <2>5
  <2>a. AddersOk'
    <3> SUFFICES ASSUME NEW t \in HostThread, IsAdding(t)
                 PROVE  /\ ht[t].node \in live'
                        /\ ht[t].nx \in Reachable'
                        /\ ht[t].pc \in {"add3", "add4"} => next'[ht[t].node] = ht[t].nx
                        /\ \A u \in HostThread \ {t} : IsAdding(u) => ht[u].node # ht[t].node
      BY <1>1, <1>4 DEF AddersOk
    <3>1. ht[t].node \in live' /\ ht[t].nx \in Reachable'
      BY <1>5, <2>1, <2>3
    <3>2. ht[t].node \in Ref \ {p}
      BY <1>3, <1>5
    <3> QED BY <1>0, <2>4, <3>1, <3>2 DEF IInv, AddersOk
  <2>7. IInv'
    BY <1>6, <2>a, <2>2, <2>6 DEF IInv
  <2>b. AddInv'
    <3> SUFFICES ASSUME NEW t \in HostThread, IsAdding(t)
                 PROVE  /\ ht[t].nx = next'[HEAD]
                        /\ Storing(t) => prev[ht[t].nx] = ht[t].node
                        /\ ht[t].pc = "add4" => prev[ht[t].node] = HEAD
      BY <1>1, <1>4, <2>1 DEF AddInv
    <3>1. next'[HEAD] = next[HEAD]
      BY <1>5, <2>4, RefType
    <3> QED BY <1>0, <3>1 DEF AddInv
  <2>8. Full'
    <3> SUFFICES ASSUME NEW S \in SUBSET Reachable', HEAD \in S, \A r \in S : next'[r] \in S
                 PROVE  Reachable' \subseteq S
      BY DEF Full
    <3>1. S \in SUBSET Reachable /\ n \notin S
      BY <2>3
    <3>2. CASE p \in S
      <4> DEFINE T == S \cup {n}
      <4>1. T \in SUBSET Reachable /\ HEAD \in T
        BY <1>3, <3>1
      <4>2. \A r \in T : next[r] \in T
        BY <1>0, <1>3, <2>4, <3>1, <3>2
      <4>3. Reachable \subseteq T
        BY <1>0, <4>1, <4>2 DEF Full
      <4> QED BY <2>3, <4>3
    <3>3. CASE p \notin S
      <4>1. \A r \in S : next[r] \in S
        BY <1>0, <2>4, <3>1, <3>3
      <4>2. Reachable \subseteq S
        BY <1>0, <3>1, <4>1 DEF Full
      <4> QED BY <2>3, <4>2
    <3> QED BY <3>2, <3>3
  <2>9. Injective'
    <3>1. \A r \in Reachable \ {p, n} : next'[r] = next[r] /\ next[r] # next[n]
      BY <1>0, <1>3, <2>4 DEF Injective
    <3>2. \A q, r \in Reachable \ {p, n} : next'[q] = next'[r] => q = r
      BY <1>0, <3>1 DEF Injective
    <3>3. \A q, r \in Reachable \ {n} : next'[q] = next'[r] => q = r
      BY <2>4, <3>1, <3>2
    <3> QED BY <2>3, <3>3 DEF Injective
  <2>10. BackInv'
    <3>1. \A q \in Reachable \ {n} : \/ prev[next[q]] = q
                                     \/ q = HEAD /\ \E t \in HostThread : Storing(t)
      BY <1>0 DEF BackInv
    <3>2. prev[next[n]] = p
      BY <1>0, <1>8 DEF BackInv
    <3>3. \A q \in Reachable' : \/ prev'[next'[q]] = q
                                \/ q = HEAD /\ \E t \in HostThread : Storing(t)'
      <4>1. \A q \in Reachable \ {n} : q # p => next'[q] = next[q]
        BY <1>0, <2>4
      <4>2. prev'[next'[p]] = p
        BY <2>1, <2>4, <3>2
      <4>3. \A q \in Reachable \ {n} : \/ prev'[next'[q]] = q
                                       \/ q = HEAD /\ \E t \in HostThread : Storing(t)
        BY <2>1, <3>1, <4>1, <4>2
      <4> QED BY <1>4, <2>3, <4>3
    <3> QED BY <2>2, <3>3 DEF BackInv
  <2>11. WalkInv'
    BY <2>2 DEF WalkInv
  <2>12. OwnList'
    <3>1. \A i \in DOMAIN mt.list : i # 1 => mt.list[i] # n
      <4>1. n = mt.list[1] /\ 1 \in DOMAIN mt.list
        BY <1>0, <1>1, Sends DEF Sending
      <4> QED BY <1>0, <4>1 DEF OwnList
    <3>2. \A i \in DOMAIN Tail(mt.list) : Tail(mt.list)[i] \in Complete \ {n}
      BY <1>0, <1>1, <3>1, Sends DEF OwnList, Sending
    <3>3. \A i, j \in DOMAIN Tail(mt.list) : owner[Tail(mt.list)[i]] = owner[Tail(mt.list)[j]] => i = j
      BY <1>0, <1>1, Sends DEF OwnList, Sending
    <3> QED BY <1>1, <2>2, <2>3, <3>2, <3>3 DEF OwnList
  <2> QED BY <2>7, <2>8, <2>9, <2>b, <2>10, <2>11, <2>12 DEF LInv
<1> QED BY <1>1, <1>7, <1>8

\* Until the list is raced for, nothing breaks it.
ListInv == "list" \in raced \/ (IInv /\ LInv /\ ~ListRace)

\* What a step remembers of the races.
LEMMA RacedStep ==
    ASSUME [Next]_vars
    PROVE  /\ raced \subseteq raced'
           /\ ("list" \notin raced' /\ ~ListRace) => ~ListRace'
           /\ (raced' = {} /\ ~BufferRace) => ~BufferRace'
<1>1. CASE Next
  <2>1. raced' = raced \cup Races'
    BY <1>1 DEF Next
  <2>2. /\ ListRace' => "list" \in Races'
        /\ BufferRace' => "buffer" \in Races'
    BY DEF Races
  <2> QED BY <2>1, <2>2
<1>2. CASE UNCHANGED vars
  BY <1>2 DEF vars, listVars, ListRace, BufferRace, IsAdding
<1> QED BY <1>1, <1>2

LEMMA NextListInv == TInv /\ ListInv /\ [Next]_vars => ListInv'
<1> SUFFICES ASSUME TInv, ListInv, [Next]_vars, "list" \notin raced'
             PROVE  IInv' /\ LInv' /\ ~ListRace'
  BY DEF ListInv
<1>1. CInv /\ ~ListRace /\ ~ListRace' /\ TInv'
  BY RacedStep, NextTInv DEF ListInv, CInv
<1>2. ASSUME NEW t \in HostThread,
             \/ \E h \in Host : handle_request(t, h)
             \/ handle_async_event(t) \/ list_add(t) \/ SendRsp(t)
      PROVE  IInv' /\ LInv'
  <2>1. IInv'
    BY <1>1, <1>2, HostThreadStep DEF CInv
  <2>2. LInv'
    BY <1>1, <1>2, HostThreadLInv
  <2> QED BY <2>1, <2>2
<1>3. CASE Looking \/ UNCHANGED vars
  BY <1>1, <1>3, WalkStep, WalkLInv DEF CInv
<1>4. CASE list_del
  BY <1>1, <1>4, RemoveStep
<1> QED BY <1>1, <1>2, <1>3, <1>4 DEF Next, Step, Looking

(***************************************************************************)
(* The buffers.                                                            *)
(***************************************************************************)

\* A message for request k: an answer to it, or an event for 0.
Own(msg, k) == msg.id = k /\ (msg.event <=> k = 0)

\* A request that is handled has the buffer of its host, and so has an event.
BuffersOk ==
    /\ \A t \in HostThread : ht[t].pc # "idle" => Own(buf[ht[t].host], nreq[ht[t].host])
    /\ mt.pc = "send" => Own(buf[owner[Head(mt.list)]], 0)

Answered == \A h \in Host : Own(wire[h].msg, wire[h].for)

BufferInv == raced # {} \/ (BuffersOk /\ Answered /\ ~BufferRace)

LEMMA InitBufferInv == Init => BufferInv
<1> SUFFICES ASSUME Init PROVE BuffersOk /\ Answered /\ ~BufferRace
  BY DEF BufferInv
<1>1. [Cleared EXCEPT !.event = TRUE] = [id |-> 0, event |-> TRUE]
  BY MessageTypes
<1>2. Answered
  BY <1>1 DEF Init, Answered, Own
<1>3. BuffersOk /\ ~BufferRace
  BY DEF Init, Idle, BuffersOk, BufferRace
<1> QED BY <1>2, <1>3

LEMMA HostThreadBuffers ==
    ASSUME TInv, OwnList, BuffersOk, Answered, ~BufferRace', NEW t \in HostThread
    PROVE  /\ (\E h \in Host : handle_request(t, h)) => (BuffersOk /\ Answered)'
           /\ handle_async_event(t) => (BuffersOk /\ Answered)'
           /\ list_add(t) => (BuffersOk /\ Answered)'
           /\ SendRsp(t) => (BuffersOk /\ Answered)'
<1> USE DEF TInv
<1>1. ASSUME NEW h \in Host, handle_request(t, h) PROVE (BuffersOk /\ Answered)'
  <2>1. ht[t].pc = "idle" /\ ServedBy[h] = t /\ UNCHANGED <<owner, mt, wire>>
    BY <1>1 DEF handle_request, listVars
  <2>2. PICK pc \in {"handle", "reply"} : ht' = [ht EXCEPT ![t].pc = pc, ![t].host = h]
    BY <1>1 DEF handle_request
  <2>3. nreq' = [nreq EXCEPT ![h] = nreq[h] + 1] /\ nreq[h] \in Nat
    BY <1>1, EventListAssumption DEF handle_request, TypeOK
  <2>4. buf' = [buf EXCEPT ![h] = [id |-> nreq[h] + 1, event |-> FALSE]]
    BY <1>1, MessageTypes DEF handle_request
  <2>5. /\ \A u \in HostThread \ {t} : ht'[u] = ht[u]
        /\ ht'[t].pc = pc /\ ht'[t].host = h
    BY <2>2 DEF TypeOK
  <2>6. buf'[h].id = nreq[h] + 1 /\ buf'[h].event = FALSE /\ nreq'[h] = nreq[h] + 1
    BY <2>3, <2>4 DEF TypeOK
  <2>7. \A g \in Host \ {h} : buf'[g] = buf[g] /\ nreq'[g] = nreq[g]
    BY <2>3, <2>4 DEF TypeOK
  <2>8. ASSUME NEW u \in HostThread, ht'[u].pc # "idle"
        PROVE  Own(buf'[ht'[u].host], nreq'[ht'[u].host])
    <3>1. CASE u = t
      BY <2>3, <2>5, <2>6, <3>1 DEF Own
    <3>2. CASE u # t
      <4>1. ht'[u] = ht[u] /\ ht[u].host \in Host /\ ht[u].host # h
        BY <2>1, <2>5, <2>8, <3>2 DEF Busy
      <4> QED BY <2>7, <2>8, <4>1 DEF BuffersOk
    <3> QED BY <3>1, <3>2
  <2>9. ASSUME mt.pc = "send" PROVE Own(buf'[owner[Head(mt.list)]], 0)
    <3>1. owner[Head(mt.list)] # h
      BY <2>1, <2>5, <2>9 DEF BufferRace
    <3>2. owner[Head(mt.list)] \in Host
      BY <2>9, Sends DEF Sending
    <3> QED BY <2>7, <2>9, <3>1, <3>2 DEF BuffersOk
  <2>10. BuffersOk'
    BY <2>1, <2>8, <2>9 DEF BuffersOk
  <2> QED BY <2>1, <2>10 DEF Answered
<1>2. ASSUME handle_async_event(t) \/ list_add(t) PROVE (BuffersOk /\ Answered)'
  <2>1. /\ ht[t].pc # "idle" /\ UNCHANGED <<mt, buf, wire, nreq>>
        /\ \A u \in HostThread \ {t} : ht'[u] = ht[u]
        /\ ht'[t].host = ht[t].host
    <3>1. \/ \E pc \in {"add2", "add3", "add4", "reply"} : ht' = [ht EXCEPT ![t].pc = pc]
          \/ \E n \in Node : ht' = [ht EXCEPT ![t].pc = "add1", ![t].node = n, ![t].nx = next[HEAD]]
      BY <1>2 DEF handle_async_event, list_add, Goto
    <3>2. \A u \in HostThread \ {t} : ht'[u] = ht[u]
      BY <3>1 DEF TypeOK
    <3>3. ht'[t].host = ht[t].host
      <4>1. ASSUME NEW pc, ht' = [ht EXCEPT ![t].pc = pc] PROVE ht'[t].host = ht[t].host
        BY <4>1 DEF TypeOK
      <4>2. ASSUME NEW n \in Node,
                   ht' = [ht EXCEPT ![t].pc = "add1", ![t].node = n, ![t].nx = next[HEAD]]
            PROVE  ht'[t].host = ht[t].host
        BY <4>2 DEF TypeOK
      <4> QED BY <3>1, <4>1, <4>2
    <3> QED BY <1>2, <3>2, <3>3 DEF handle_async_event, list_add, sendVars
  <2>2. mt.pc = "send" => owner'[Head(mt.list)] = owner[Head(mt.list)]
    <3>1. owner' = owner \/ \E n \in Node \ live : owner' = [owner EXCEPT ![n] = ht[t].host]
      BY <1>2 DEF handle_async_event, list_add, listVars
    <3>2. mt.pc = "send" => Head(mt.list) \in live /\ Head(mt.list) \in Node
      BY HeadComplete, Sends DEF Sending, Complete
    <3> QED BY <3>1, <3>2 DEF TypeOK
  <2>3. BuffersOk'
    BY <2>1, <2>2 DEF BuffersOk
  <2> QED BY <2>1, <2>3 DEF Answered
<1>3. ASSUME SendRsp(t) PROVE (BuffersOk /\ Answered)'
  <2> DEFINE h == ht[t].host
  <2>1. /\ UNCHANGED <<owner, mt, buf, nreq>> /\ ht[t].pc = "reply"
        /\ wire' = [wire EXCEPT ![h] = [for |-> nreq[h], msg |-> buf[h]]]
        /\ ht' = [ht EXCEPT ![t] = Idle]
    BY <1>3 DEF SendRsp, listVars
  <2>2. h \in Host /\ Own(buf[h], nreq[h])
    BY <2>1 DEF Busy, BuffersOk
  <2>3. /\ \A u \in HostThread \ {t} : ht'[u] = ht[u]
        /\ ht'[t].pc = "idle"
    BY <2>1 DEF TypeOK, Idle
  <2>4. BuffersOk'
    BY <2>1, <2>3 DEF BuffersOk
  <2>5. wire'[h].msg = buf[h] /\ wire'[h].for = nreq[h]
    BY <2>1, <2>2 DEF TypeOK
  <2>6. \A g \in Host \ {h} : wire'[g] = wire[g]
    BY <2>1 DEF TypeOK
  <2> QED BY <2>2, <2>4, <2>5, <2>6 DEF Answered
<1> QED BY <1>1, <1>2, <1>3

LEMMA MainThreadBuffers ==
    ASSUME TInv, BuffersOk, Answered, ~BufferRace', Looking \/ list_del \/ UNCHANGED vars
    PROVE  (BuffersOk /\ Answered)'
<1> USE DEF TInv
<1>1. CASE BeginWalk \/ create_notification_list \/ EndWalk \/ prune_notification_list \/ list_del
  <2>1. UNCHANGED <<owner, ht, buf, wire, nreq>>
    BY <1>1 DEF BeginWalk, create_notification_list, EndWalk, prune_notification_list, list_del,
                listVars, sendVars
  <2>2. mt'.pc # "send"
    <3>1. BeginWalk => mt'.pc = "walk"
      BY DEF BeginWalk
    <3>2. create_notification_list => mt'.pc = "walk"
      BY DEF create_notification_list, TypeOK
    <3>3. EndWalk => mt'.pc \in {"idle", "fill"}
      BY DEF EndWalk, TypeOK
    <3>4. mt' = Rest => mt'.pc \in {"idle", "fill"}
      BY DEF Rest, TypeOK
    <3>5. list_del => mt'.pc = "del2" \/ mt' = Rest
      BY DEF list_del, TypeOK
    <3> QED BY <1>1, <3>1, <3>2, <3>3, <3>4, <3>5 DEF prune_notification_list
  <2> QED BY <2>1, <2>2 DEF BuffersOk, Answered
<1>2. CASE send_notifications
  <2> DEFINE h == owner[Head(mt.list)]
  <2>0. mt.pc \in {"fill", "send"} /\ UNCHANGED <<owner, ht, nreq>>
    BY <1>2 DEF send_notifications, listVars
  <2>1. h \in Host
    BY <2>0, Sends DEF Sending
  <2>2. CASE mt.pc = "fill"
    <3>1. /\ buf' = [buf EXCEPT ![h] = [id |-> 0, event |-> TRUE]] /\ wire' = wire
          /\ mt' = [mt EXCEPT !.pc = "send"]
      BY <1>2, <2>2, MessageTypes DEF send_notifications
    <3>2. mt'.pc = "send" /\ mt'.list = mt.list
      BY <3>1 DEF TypeOK
    <3>3. Own(buf'[h], 0) /\ \A g \in Host \ {h} : buf'[g] = buf[g]
      BY <2>1, <3>1 DEF TypeOK, Own
    <3>4. \A u \in HostThread : ht[u].pc # "idle" => ht[u].host # h /\ ht[u].host \in Host
      BY <2>0, <3>2 DEF BufferRace, Busy
    <3>5. BuffersOk'
      BY <2>0, <3>2, <3>3, <3>4 DEF BuffersOk
    <3> QED BY <3>1, <3>5 DEF Answered
  <2>3. CASE mt.pc = "send"
    <3>1. /\ wire' = [wire EXCEPT ![h] = [for |-> 0, msg |-> buf[h]]] /\ buf' = buf
          /\ mt' = [mt EXCEPT !.pc = "del1"]
      BY <1>2, <2>3 DEF send_notifications
    <3>2. mt'.pc = "del1"
      BY <3>1 DEF TypeOK
    <3>3. BuffersOk'
      BY <2>0, <3>1, <3>2 DEF BuffersOk
    <3>4. wire'[h].msg = buf[h] /\ wire'[h].for = 0 /\ \A g \in Host \ {h} : wire'[g] = wire[g]
      BY <2>1, <3>1 DEF TypeOK
    <3>5. Own(buf[h], 0)
      BY <2>3 DEF BuffersOk
    <3> QED BY <3>3, <3>4, <3>5 DEF Answered
  <2> QED BY <2>0, <2>2, <2>3
<1>3. CASE UNCHANGED vars
  BY <1>3 DEF vars, listVars, sendVars, BuffersOk, Answered
<1> QED BY <1>1, <1>2, <1>3 DEF Looking

LEMMA NextBufferInv == TInv /\ ListInv /\ BufferInv /\ [Next]_vars => BufferInv'
<1> SUFFICES ASSUME TInv, ListInv, BufferInv, [Next]_vars, raced' = {}
             PROVE  BuffersOk' /\ Answered' /\ ~BufferRace'
  BY DEF BufferInv
<1>1. raced = {} /\ BuffersOk /\ Answered /\ ~BufferRace' /\ OwnList
  BY RacedStep DEF BufferInv, ListInv, LInv
<1> QED BY <1>1, HostThreadBuffers, MainThreadBuffers DEF Next, Step, Looking

(***************************************************************************)
(* The theorems.                                                           *)
(***************************************************************************)

\* The inductive invariant.
Inv == TInv /\ ListInv /\ BufferInv

LEMMA InvHolds == Spec => []Inv
<1>1. Init => Inv
  BY InitCInv, InitBufferInv DEF Inv, CInv, ListInv
<1>2. Inv /\ [Next]_vars => Inv'
  BY NextTInv, NextListInv, NextBufferInv DEF Inv
<1> QED BY <1>1, <1>2, PTL DEF Spec

\* Each host gets its own answers, and events as events, although both are
\* built in one buffer: until an event is built for a host one of whose requests
\* is being handled, or the list is broken.
THEOREM AnswersAreOwn == Spec => []AnswersOwn
<1>1. Inv => AnswersOwn
  BY DEF Inv, BufferInv, Answered, Own, AnswersOwn
<1> QED BY <1>1, InvHolds, PTL

\* A request that was added to aen_req_list and not answered can be reached from
\* its head, until two requests are added at once or one is taken off while
\* another is added in front of it: no other meeting of threads loses one.
THEOREM NoRequestLost == Spec => []NoneLost
<1>1. Inv => NoneLost
  <2> SUFFICES ASSUME Inv, "list" \notin raced,
                      NEW S \in SUBSET Ref, HEAD \in S, \A r \in S : next[r] \in S
               PROVE  Complete \subseteq S
    BY DEF NoneLost, AllReached
  <2> DEFINE T == S \cap Reachable
  <2>1. T \in SUBSET Reachable /\ HEAD \in T /\ \A r \in T : next[r] \in T
    BY DEF Inv, ListInv, IInv, Reachable
  <2>2. Reachable \subseteq T
    BY <2>1 DEF Inv, ListInv, LInv, Full
  <2> QED BY <2>2 DEF Reachable
<1> QED BY <1>1, InvHolds, PTL

\* Until then a walk of create_notification_list sees the host of every request
\* that was on the list when it began, whatever is added meanwhile.
THEOREM WalkMissesNone == Spec => []WalkSeesAll
<1>1. Inv => WalkSeesAll
  <2> SUFFICES ASSUME Inv, "list" \notin raced, mt.pc = "walk", mt.cur = HEAD, NEW d \in due
               PROVE  \E i \in DOMAIN mt.list : owner[mt.list[i]] = owner[d]
    BY DEF WalkSeesAll
  <2>1. d # HEAD
    BY EventListAssumption DEF Inv, TInv, TypeOK
  <2>2. {HEAD} \in SUBSET Reachable
    BY DEF Reachable
  <2>3. d \in {HEAD} \/ Seen(d)
    BY <2>2 DEF Inv, ListInv, LInv, WalkInv
  <2> QED BY <2>1, <2>3 DEF Seen
<1> QED BY <1>1, InvHolds, PTL

\* Until then all threads follow and write to requests that are there only,
\* while requests are added, walked over, removed and freed without a lock.
THEOREM ListIsSafe == Spec => []TouchesLive
<1>1. Inv => TouchesLive
  <2> SUFFICES ASSUME Inv, "list" \notin raced
               PROVE  /\ mt.pc = "walk" => mt.cur \in live \cup {HEAD}
                      /\ mt.pc \in {"del1", "del2"} =>
                          {next[Head(mt.list)], prev[Head(mt.list)]} \subseteq live \cup {HEAD}
                      /\ \A t \in HostThread : ht[t].pc = "add1" => ht[t].nx \in live \cup {HEAD}
    BY DEF TouchesLive
  <2>0. CInv
    BY DEF Inv, ListInv, CInv
  <2>1. Reachable \subseteq live \cup {HEAD}
    BY <2>0, ReachableType DEF CInv, IInv
  <2>2. \A t \in HostThread : IsAdding(t) => ht[t].nx \in Reachable /\ ht[t].node \in live
    BY <2>0 DEF CInv, IInv, AddersOk
  <2>3. mt.pc = "walk" => mt.cur \in live \cup {HEAD}
    BY <2>0, <2>1 DEF CInv, IInv
  <2>4. \A t \in HostThread : Storing(t) => IsAdding(t)
    BY DEF Storing, IsAdding
  <2>5. mt.pc \in {"del1", "del2"} =>
            {next[Head(mt.list)], prev[Head(mt.list)]} \subseteq live \cup {HEAD}
    BY <2>0, <2>1, <2>2, <2>4, Removing
  <2>6. \A t \in HostThread : ht[t].pc = "add1" => ht[t].nx \in live \cup {HEAD}
    BY <2>1, <2>2 DEF IsAdding
  <2> QED BY <2>3, <2>5, <2>6
<1> QED BY <1>1, InvHolds, PTL

================================================================================
