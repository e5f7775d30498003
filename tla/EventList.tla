------------------------------- MODULE EventList -------------------------------
(***************************************************************************)
(* What the threads of dem share without a lock: aen_req_list, to which    *)
(* every host_thread adds the event requests of its hosts                  *)
(* (handle_async_event) and from which the main thread takes the ones it   *)
(* answers (create_notification_list, send_notifications), and the buffer  *)
(* of an endpoint, in which both build what they send to its host.         *)
(*                                                                         *)
(* A step is a C statement that loads or stores something shared, and the  *)
(* stores take effect in the order of the program.  What requests ask for, *)
(* other than for events, does not matter here, and hosts stay connected.  *)
(*                                                                         *)
(* Nothing keeps the threads apart.  raced remembers whether two of them   *)
(* ever met where it does harm: the properties say that nothing else does. *)
(* What the program does with memory that was freed is more than the model *)
(* has, and of interest only after such a meeting.                         *)
(***************************************************************************)
EXTENDS Naturals, Sequences

CONSTANTS
    HostThread,  \* the threads of the interfaces
    Host,        \* the hosts
    ServedBy,    \* of each host: the thread of its interface
    Node,        \* memory for event requests
    HEAD, NULL,
    MaxReq       \* bound of the requests of a host

ASSUME EventListAssumption ==
    /\ ServedBy \in [Host -> HostThread]
    /\ HEAD \notin Node /\ NULL \notin Node /\ HEAD # NULL
    /\ MaxReq \in Nat

Ref == Node \cup {HEAD, NULL}

VARIABLES
    next, prev,  \* the list
    live,        \* nodes that are allocated
    owner,       \* of each node: the host whose request it is
    ht,          \* host threads: what is next, for whom, the node to add, its next
    mt,          \* main thread: what is next, its place, its own list
    buf,         \* of each host: the buffer of its endpoint
    wire,        \* of each host: the last message, and the request it is for
    nreq,        \* requests of each host
    due,         \* ghost: requests on the list when a walk began
    raced        \* ghost: what two threads used at once, "list" or "buffer"

listVars == <<next, prev, live, owner>>
sendVars == <<buf, wire>>
vars == <<listVars, sendVars, nreq, ht, mt, due, raced>>

\* The answer to a request bears its number; that to an event request is an
\* event when it comes from send_notifications.
Message == [id : 0..MaxReq, event : BOOLEAN]
Cleared == [id |-> 0, event |-> FALSE]

IsAdding(t) == ht[t].pc \in {"add1", "add2", "add3", "add4"}

\* Requests on the list and not being added.
Adding   == {ht[t].node : t \in {u \in HostThread : IsAdding(u)}}
Complete == live \ Adding

-----------------------------------------------------------------------------
(* A host thread *)

Idle == [pc |-> "idle", host |-> NULL, node |-> NULL, nx |-> NULL]

Goto(t, pc) == ht' = [ht EXCEPT ![t].pc = pc]

\* Mutated: the buffer is not cleared before the answer is built in it.
HandleRequestNoMemset(t, h) ==
    /\ ht[t].pc = "idle" /\ ServedBy[h] = t
    /\ nreq[h] < MaxReq
    /\ nreq' = [nreq EXCEPT ![h] = @ + 1]
    /\ buf' = [buf EXCEPT ![h].id = nreq[h] + 1]
    /\ \E pc \in {"handle", "reply"} : ht' = [ht EXCEPT ![t].pc = pc, ![t].host = h]
    /\ UNCHANGED <<listVars, mt, wire, due>>

\* memset and command_id; the request is one for an event, or another one.
handle_request(t, h) ==
    /\ ht[t].pc = "idle" /\ ServedBy[h] = t
    /\ nreq[h] < MaxReq
    /\ nreq' = [nreq EXCEPT ![h] = @ + 1]
    /\ buf' = [buf EXCEPT ![h] = [Cleared EXCEPT !.id = nreq[h] + 1]]
    /\ \E pc \in {"handle", "reply"} : ht' = [ht EXCEPT ![t].pc = pc, ![t].host = h]
    /\ UNCHANGED <<listVars, mt, wire, due>>

\* The entry is made, and list->next is loaded; or there is no memory, and the
\* request is answered with an error (after which the host is dropped).
handle_async_event(t) ==
    /\ ht[t].pc = "handle"
    /\ \/ \E n \in Node \ live :
           /\ live' = live \cup {n}
           /\ owner' = [owner EXCEPT ![n] = ht[t].host]
           /\ next' = [next EXCEPT ![n] = NULL]
           /\ prev' = [prev EXCEPT ![n] = NULL]
           /\ ht' = [ht EXCEPT ![t].pc = "add1", ![t].node = n, ![t].nx = next[HEAD]]
       \/ Goto(t, "reply") /\ UNCHANGED listVars
    /\ UNCHANGED <<mt, sendVars, nreq, due>>

\* Mutated: the new entry is reached before it leads on.
ListAddPublishFirst(t) ==
    LET n == ht[t].node  nx == ht[t].nx
    IN  /\ \/ /\ ht[t].pc = "add1"
              /\ next' = [next EXCEPT ![HEAD] = n]
              /\ Goto(t, "add2") /\ UNCHANGED prev
           \/ /\ ht[t].pc = "add2"
              /\ next' = [next EXCEPT ![n] = nx]
              /\ Goto(t, "add3") /\ UNCHANGED prev
           \/ /\ ht[t].pc = "add3"
              /\ prev' = [prev EXCEPT ![n] = HEAD, ![nx] = n]
              /\ Goto(t, "reply") /\ UNCHANGED next
        /\ UNCHANGED <<live, owner, mt, sendVars, nreq, due>>

\* Mutated: the new entry leads to the end.
ListAddForgets(t) ==
    LET n == ht[t].node
    IN  /\ ht[t].pc = "add1"
        /\ next' = [next EXCEPT ![HEAD] = n, ![n] = HEAD]
        /\ prev' = [prev EXCEPT ![HEAD] = n, ![n] = HEAD]
        /\ Goto(t, "reply")
        /\ UNCHANGED <<live, owner, mt, sendVars, nreq, due>>

\* The four stores of __list_add.
list_add(t) ==
    LET n == ht[t].node  nx == ht[t].nx
    IN  /\ \/ /\ ht[t].pc = "add1"
              /\ prev' = [prev EXCEPT ![nx] = n]
              /\ Goto(t, "add2") /\ UNCHANGED next
           \/ /\ ht[t].pc = "add2"
              /\ next' = [next EXCEPT ![n] = nx]
              /\ Goto(t, "add3") /\ UNCHANGED prev
           \/ /\ ht[t].pc = "add3"
              /\ prev' = [prev EXCEPT ![n] = HEAD]
              /\ Goto(t, "add4") /\ UNCHANGED next
           \/ /\ ht[t].pc = "add4"
              /\ next' = [next EXCEPT ![HEAD] = n]
              /\ Goto(t, "reply") /\ UNCHANGED prev
        /\ UNCHANGED <<live, owner, mt, sendVars, nreq, due>>

\* send_rsp at the end of handle_request.
SendRsp(t) ==
    /\ ht[t].pc = "reply"
    /\ LET h == ht[t].host
       IN  wire' = [wire EXCEPT ![h] = [for |-> nreq[h], msg |-> buf[h]]]
    /\ ht' = [ht EXCEPT ![t] = Idle]
    /\ UNCHANGED <<listVars, mt, buf, nreq, due>>

-----------------------------------------------------------------------------
(* The main thread *)

BeginWalk ==
    /\ mt.pc = "idle"
    /\ mt' = [pc |-> "walk", cur |-> next[HEAD], list |-> <<>>]
    /\ due' = Complete
    /\ UNCHANGED <<listVars, ht, sendVars, nreq>>

\* Mutated: one request is enough.
CreateNotificationListFirst ==
    /\ mt.pc = "walk"
    /\ mt.cur \in Node
    /\ mt' = [mt EXCEPT !.cur = HEAD, !.list = Append(@, mt.cur)]
    /\ UNCHANGED <<listVars, ht, sendVars, nreq, due>>

\* The first request of each host.
create_notification_list ==
    /\ mt.pc = "walk"
    /\ mt.cur \in Node
    /\ mt' = [mt EXCEPT
                !.cur  = next[@],
                !.list = IF \E i \in DOMAIN @ : owner[@[i]] = owner[mt.cur]
                         THEN @ ELSE Append(@, mt.cur)]
    /\ UNCHANGED <<listVars, ht, sendVars, nreq, due>>

EndWalk ==
    /\ mt.pc = "walk"
    /\ mt.cur = HEAD
    /\ mt' = [mt EXCEPT !.pc = IF mt.list = <<>> THEN "idle" ELSE "fill"]
    /\ due' = {}
    /\ UNCHANGED <<listVars, ht, sendVars, nreq>>

\* What is left of the main thread's list, after its first entry.
Rest == [mt EXCEPT !.pc = IF Len(mt.list) = 1 THEN "idle" ELSE "fill", !.list = Tail(@)]

\* The filters may drop any entry of the main thread's list, and nothing else:
\* here, when its turn has come.
prune_notification_list ==
    /\ mt.pc = "fill"
    /\ mt' = Rest
    /\ UNCHANGED <<listVars, ht, sendVars, nreq, due>>

\* send_notifications, for the first entry of the main thread's list: the
\* buffer is filled and sent, and the request removed and freed.
send_notifications ==
    LET n == Head(mt.list)  h == owner[n]
    IN  \/ /\ mt.pc = "fill"
           /\ buf' = [buf EXCEPT ![h] = [Cleared EXCEPT !.event = TRUE]]
           /\ mt' = [mt EXCEPT !.pc = "send"]
           /\ UNCHANGED <<listVars, ht, wire, nreq, due>>
        \/ /\ mt.pc = "send"
           /\ wire' = [wire EXCEPT ![h] = [for |-> 0, msg |-> buf[h]]]
           /\ mt' = [mt EXCEPT !.pc = "del1"]
           /\ UNCHANGED <<listVars, ht, buf, nreq, due>>

\* The two stores of list_del, and the free.
list_del ==
    LET n == Head(mt.list)
    IN  \/ /\ mt.pc = "del1"
           /\ prev' = [prev EXCEPT ![next[n]] = prev[n]]
           /\ mt' = [mt EXCEPT !.pc = "del2"]
           /\ UNCHANGED <<next, live, owner, ht, sendVars, nreq, due>>
        \/ /\ mt.pc = "del2"
           /\ next' = [next EXCEPT ![prev[n]] = next[n]]
           /\ live' = live \ {n}
           /\ mt' = Rest
           /\ UNCHANGED <<prev, owner, ht, sendVars, nreq, due>>

-----------------------------------------------------------------------------

\* Two requests are added at once, or one is taken off while another is added
\* in front of it.
ListRace ==
    \/ \E t, u \in HostThread : t # u /\ IsAdding(t) /\ IsAdding(u)
    \/ mt.pc = "del2" /\ \E t \in HostThread : IsAdding(t) /\ ht[t].nx = Head(mt.list)

\* An event for a host is built while a request of that host is handled.
BufferRace ==
    mt.pc = "send" /\ \E t \in HostThread : ht[t].pc # "idle" /\ ht[t].host = owner[Head(mt.list)]

Races == {r \in {"list", "buffer"} : (r = "list" /\ ListRace) \/ (r = "buffer" /\ BufferRace)}

\* A thread is about to follow NULL, which ends the process.  Only a list that
\* is broken leads there.
NullDeref ==
    \/ mt.pc = "walk" /\ mt.cur = NULL
    \/ mt.pc = "del1" /\ next[Head(mt.list)] = NULL
    \/ mt.pc = "del2" /\ prev[Head(mt.list)] = NULL
    \/ \E t \in HostThread : ht[t].pc = "add1" /\ ht[t].nx = NULL

Init ==
    /\ next = [r \in Ref |-> IF r = HEAD THEN HEAD ELSE NULL]
    /\ prev = next
    /\ live = {}
    /\ owner = [n \in Node |-> NULL]
    /\ ht = [t \in HostThread |-> Idle]
    /\ mt = [pc |-> "idle", cur |-> HEAD, list |-> <<>>]
    /\ buf = [h \in Host |-> Cleared]
    /\ wire = [h \in Host |-> [for |-> 0, msg |-> [Cleared EXCEPT !.event = TRUE]]]
    /\ nreq = [h \in Host |-> 0]
    /\ due = {} /\ raced = {}

Step ==
    \/ \E t \in HostThread : \/ \E h \in Host : handle_request(t, h)
                             \/ handle_async_event(t)
                             \/ list_add(t) \/ SendRsp(t)
    \/ BeginWalk \/ create_notification_list \/ EndWalk \/ prune_notification_list
    \/ send_notifications \/ list_del

Next == ~NullDeref /\ Step /\ raced' = raced \cup Races'

Spec == Init /\ [][Next]_vars

-----------------------------------------------------------------------------

\* Pointers, buffers and counters have their types.
TypeOK ==
    /\ next \in [Ref -> Ref] /\ prev \in [Ref -> Ref]
    /\ live \subseteq Node /\ due \subseteq Node /\ raced \subseteq {"list", "buffer"}
    /\ owner \in [Node -> Host \cup {NULL}]
    /\ ht \in [HostThread -> [pc : {"idle", "handle", "add1", "add2", "add3", "add4", "reply"},
                              host : Host \cup {NULL}, node : Node \cup {NULL}, nx : Ref]]
    /\ mt \in [pc : {"idle", "walk", "fill", "send", "del1", "del2"}, cur : Ref, list : Seq(Node)]
    /\ buf \in [Host -> Message]
    /\ wire \in [Host -> [for : 0..MaxReq, msg : Message]]
    /\ nreq \in [Host -> 0..MaxReq]

\* The main thread walks over requests that are there, and all threads write to
\* such requests only, although list_add and list_del take no lock: until two
\* requests are added at once, or one is taken off while another is added in
\* front of it.
TouchesLive ==
    "list" \notin raced =>
        /\ mt.pc = "walk" => mt.cur \in live \cup {HEAD}
        /\ mt.pc \in {"del1", "del2"} =>
            {next[Head(mt.list)], prev[Head(mt.list)]} \subseteq live \cup {HEAD}
        /\ \A t \in HostThread : ht[t].pc = "add1" => ht[t].nx \in live \cup {HEAD}

\* A walk of the main thread sees the host of every request that was on the
\* list when it began, whatever is added meanwhile, unless the list was broken
\* in one of those two ways.
WalkSeesAll ==
    "list" \notin raced /\ mt.pc = "walk" /\ mt.cur = HEAD =>
        {owner[n] : n \in due} \subseteq {owner[mt.list[i]] : i \in DOMAIN mt.list}

\* The requests that were added, and not answered, can be reached from the head
\* of aen_req_list (they are in every set that has the head and, with an entry,
\* the next one).
AllReached ==
    \A S \in SUBSET Ref :
        HEAD \in S /\ (\A r \in S : next[r] \in S) => Complete \subseteq S

\* A request is lost in those two ways only: a removal may run into an addition
\* anywhere else, and any number of walks into both.
NoneLost == "list" \notin raced => AllReached

\* What a host receives as the answer to a request is that answer, and as an
\* event an event, although handle_request and send_notifications fill the same
\* buffer: unless they do so for the same host at once, or the list was broken.
AnswersOwn ==
    raced = {} => \A h \in Host : /\ wire[h].msg.id = wire[h].for
                                  /\ wire[h].msg.event <=> wire[h].for = 0

\* index.html says that hosts are notified of changes: an event request that was
\* accepted, and not answered, is found by the next change.  It does not hold:
\* the threads of two interfaces may add at once, and none takes a lock.
NothingLost == mt.pc = "idle" => AllReached
================================================================================
