------------------------- MODULE DiscoveryClientProofs -------------------------
(***************************************************************************)
(* The followed log, for every number of changes, of waits that were too   *)
(* short and of broken connections, and for every sequence of record       *)
(* counts.                                                                 *)
(***************************************************************************)
EXTENDS DiscoveryClient, FiniteSetTheorems, SequenceTheorems, TLAPS

(***************************************************************************)
(* The inductive invariant.                                                *)
(***************************************************************************)
\* The host only waits for the answer to a command, and as long as the
\* connection works there is a message on its way that will end the wait.
Waits ==
  /\ wait => pc \in Cmd
  /\ pc = "down" => ~up
  /\ up /\ wait => c2s # << >> \/ s2c # << >>

\* dem puts a request before the older ones, and a connection is younger than
\* all those before it: the requests of the current one come first.
NewestFirst == \A j, k \in DOMAIN aenlist : j < k => aenlist[j] >= aenlist[k]

\* How many requests and messages a host has at least at each point of its
\* loop.  It has sent aer0, so there is one; it has sent the aer that follows a
\* fetch, so there is another, which the next event takes away.
Owed ==
  IF pc \in {"get_feat", "set_feat"} \/ (pc = "aer0" /\ ~wait) THEN 0
  ELSE IF pc \in {"poll", "ka"} \/ (pc = "aer" /\ wait) THEN 2
  ELSE 1

\* Nothing takes a request or a message away but what is accounted for in Owed,
\* and only a wait that was too short adds one.
Budget == up => Requests + Strays \in Owed .. Owed + lag

\* As long as no message is astray, a fetch is what it seems: the message under
\* way is the host's own command or the answer to it, and what dem has written
\* is the current log, unless dem has not notified of that.
Fetching ==
  up /\ Strays = 0 =>
    /\ pc \in LogCmd /\ wait =>
         \/ c2s = <<pc>> /\ s2c = << >>
         \/ c2s = << >> /\ buf # None /\ (buf = ver \/ noted # ver)
    /\ pc = "pages" => numrec = NumRec[ver] \/ noted # ver

\* A host that has read the log shows the current one, unless a message is
\* astray, which will make it read the log again, or dem has not notified of it.
Fresh == up /\ pc \in {"aer", "poll", "ka"} => have = ver \/ noted # ver \/ Strays >= 1

\* The event requests that dem has not read yet.
Asked == Count(c2s, {"aer0", "aer"})

IInv == TypeOK /\ Waits /\ NewestFirst /\ Budget /\ Fetching /\ Fresh

(***************************************************************************)
(* Counting in a sequence.                                                 *)
(***************************************************************************)
\* A count is a number, at most the length.
LEMMA CountType ==
  ASSUME NEW D, NEW q \in Seq(D), NEW X
  PROVE  /\ IsFiniteSet({k \in DOMAIN q : q[k] \in X})
         /\ Count(q, X) \in Nat
         /\ Count(q, X) <= Len(q)
<1>1. DOMAIN q = 1 .. Len(q) /\ Len(q) \in Nat
  OBVIOUS
<1>2. IsFiniteSet(1 .. Len(q)) /\ Cardinality(1 .. Len(q)) = Len(q)
  BY <1>1, FS_Interval
<1>3. {k \in DOMAIN q : q[k] \in X} \in SUBSET (1 .. Len(q))
  BY <1>1
<1>4. QED
  BY <1>2, <1>3, FS_Subset, FS_CardinalityType DEF Count

\* Nothing is counted in the empty sequence.
LEMMA CountEmpty ==
  ASSUME NEW X
  PROVE  Count(<< >>, X) = 0
<1>1. {k \in DOMAIN << >> : << >>[k] \in X} = {}
  OBVIOUS
<1>2. QED
  BY <1>1, FS_EmptySet DEF Count

\* An element at the end adds one if it is counted.
LEMMA CountAppend ==
  ASSUME NEW D, NEW q \in Seq(D), NEW e \in D, NEW X
  PROVE  Count(Append(q, e), X) = Count(q, X) + (IF e \in X THEN 1 ELSE 0)
<1> DEFINE n == Len(q)
           S == {k \in DOMAIN q : q[k] \in X}
           T == {k \in DOMAIN Append(q, e) : Append(q, e)[k] \in X}
<1>1. /\ n \in Nat /\ DOMAIN q = 1 .. n
      /\ DOMAIN Append(q, e) = 1 .. n + 1
      /\ \A k \in 1 .. n : Append(q, e)[k] = q[k]
      /\ Append(q, e)[n + 1] = e
  BY AppendProperties
<1>2. IsFiniteSet(S)
  BY CountType
<1>3. n + 1 \notin S
  BY <1>1
<1>4. T = IF e \in X THEN S \cup {n + 1} ELSE S
  <2> HIDE DEF n
  <2>1. \A k : k \in 1 .. n + 1 <=> k \in 1 .. n \/ k = n + 1
    BY <1>1
  <2>2. QED
    BY <1>1, <2>1
<1>5. Cardinality(S) \in Nat /\ Cardinality(S \cup {n + 1}) = Cardinality(S) + 1
  BY <1>2, <1>3, FS_AddElement, FS_CardinalityType
<1>6. Count(q, X) = Cardinality(S) /\ Count(Append(q, e), X) = Cardinality(T)
  BY DEF Count
<1> HIDE DEF S, T
<1>7. QED
  BY <1>4, <1>5, <1>6

\* The first element of a sequence counts for one if it is counted.
LEMMA CountTail ==
  ASSUME NEW D, NEW q \in Seq(D), q # << >>, NEW X
  PROVE  /\ Count(q, X) = Count(Tail(q), X) + (IF Head(q) \in X THEN 1 ELSE 0)
         /\ Head(q) \notin X => Count(Tail(q), X) = Count(q, X)
<1> DEFINE n == Len(q)
           S == {k \in DOMAIN Tail(q) : Tail(q)[k] \in X}
           U == {k \in 2 .. n : q[k] \in X}
           T == {k \in DOMAIN q : q[k] \in X}
           f == [k \in S |-> k + 1]
<1>1. /\ n \in Nat /\ n >= 1 /\ DOMAIN q = 1 .. n
      /\ Tail(q) \in Seq(D)
      /\ DOMAIN Tail(q) = 1 .. n - 1
      /\ \A k \in 1 .. n - 1 : Tail(q)[k] = q[k + 1]
      /\ Head(q) = q[1]
  <2>1. Tail(q) \in Seq(D) /\ Len(Tail(q)) = n - 1
    BY HeadTailProperties
  <2>2. QED
    BY <2>1, EmptySeq, HeadTailProperties, LenProperties
<1> HIDE DEF n
<1>2. IsFiniteSet(S)
  BY <1>1, CountType
<1>3. f \in Bijection(S, U)
  <2>1. f \in [S -> U]
    BY <1>1
  <2>2. \A a, b \in S : f[a] = f[b] => a = b
    BY <1>1
  <2>3. \A t \in U : \E a \in S : f[a] = t
    <3> TAKE t \in U
    <3>1. t - 1 \in 1 .. n - 1 /\ (t - 1) + 1 = t
      BY <1>1
    <3>2. t - 1 \in S
      BY <1>1, <3>1
    <3> WITNESS t - 1 \in S
    <3>3. QED
      BY <3>1, <3>2
  <2>4. QED
    BY <2>1, <2>2, <2>3 DEF Bijection, Injection, Surjection, IsInjective
<1>4. IsFiniteSet(U) /\ Cardinality(U) = Cardinality(S)
  BY <1>2, <1>3, FS_Bijection DEF ExistsBijection
<1>5. T = IF Head(q) \in X THEN U \cup {1} ELSE U
  <2>1. \A k : k \in 1 .. n <=> k \in 2 .. n \/ k = 1
    BY <1>1
  <2>2. QED
    BY <1>1, <2>1
<1>6. 1 \notin U
  OBVIOUS
<1>7. Cardinality(U) \in Nat /\ Cardinality(U \cup {1}) = Cardinality(U) + 1
  BY <1>4, <1>6, FS_AddElement, FS_CardinalityType
<1>8. Count(q, X) = Cardinality(T) /\ Count(Tail(q), X) = Cardinality(S)
  BY DEF Count
<1> HIDE DEF S, T, U
<1>9. QED
  BY <1>4, <1>5, <1>7, <1>8

\* An element in front adds one if it is counted.
LEMMA CountPrepend ==
  ASSUME NEW D, NEW q \in Seq(D), NEW e \in D, NEW X
  PROVE  Count(<<e>> \o q, X) = Count(q, X) + (IF e \in X THEN 1 ELSE 0)
<1> DEFINE r == <<e>> \o q
<1>1. /\ r \in Seq(D) /\ Len(r) = Len(q) + 1
      /\ r[1] = e
      /\ \A k \in 1 .. Len(q) : r[k + 1] = q[k]
  <2>1. <<e>> \in Seq(D) /\ Len(<<e>>) = 1 /\ <<e>>[1] = e /\ Len(q) \in Nat
    OBVIOUS
  <2>2. /\ r \in Seq(D) /\ Len(r) = 1 + Len(q)
        /\ \A i \in 1 .. 1 + Len(q) : r[i] = IF i <= 1 THEN <<e>>[i] ELSE q[i - 1]
    BY <2>1, ConcatProperties
  <2> HIDE DEF r
  <2>3. QED
    BY <2>1, <2>2
<1> HIDE DEF r
<1>2. Len(q) \in Nat /\ r # << >>
  BY <1>1
<1>3. Head(r) = e
  BY <1>1, <1>2
<1>4. Tail(r) = q
  <2>1. Tail(r) \in Seq(D) /\ Len(Tail(r)) = Len(q) /\ \A k \in 1 .. Len(Tail(r)) : Tail(r)[k] = r[k + 1]
    BY <1>1, <1>2, HeadTailProperties
  <2>2. QED
    BY <1>1, <2>1, SeqEqual
<1>5. Count(r, X) = Count(Tail(r), X) + (IF Head(r) \in X THEN 1 ELSE 0)
  BY <1>1, <1>2, CountTail
<1>6. QED
  BY <1>3, <1>4, <1>5 DEF r

\* DeallocKey changes no length and no count of event requests.
LEMMA DeallocKeeps ==
  ASSUME NEW q \in Seq(Cmd \cup {"stale"})
  PROVE  /\ DeallocKey(q) \in Seq(Cmd \cup {"stale"})
         /\ Len(DeallocKey(q)) = Len(q)
         /\ Count(DeallocKey(q), {"aer0", "aer"}) = Count(q, {"aer0", "aer"})
         /\ q = << >> => DeallocKey(q) = << >>
<1>1. /\ DeallocKey(q) \in Seq(Cmd \cup {"stale"})
      /\ Len(DeallocKey(q)) = Len(q)
      /\ DOMAIN DeallocKey(q) = DOMAIN q
  BY DEF DeallocKey
<1>2. {k \in DOMAIN DeallocKey(q) : DeallocKey(q)[k] \in {"aer0", "aer"}}
        = {k \in DOMAIN q : q[k] \in {"aer0", "aer"}}
  BY <1>1 DEF DeallocKey, LogCmd
<1>3. Count(DeallocKey(q), {"aer0", "aer"}) = Count(q, {"aer0", "aer"})
  BY <1>2 DEF Count
<1>4. q = << >> => DeallocKey(q) = << >>
  BY DEF DeallocKey
<1>5. QED
  BY <1>1, <1>3, <1>4

(***************************************************************************)
(* Type correctness.                                                       *)
(***************************************************************************)
\* The types hold when connect_ctrl has succeeded.
LEMMA InitType == Init => TypeOK
<1> SUFFICES ASSUME Init PROVE TypeOK
  OBVIOUS
<1>1. ver \in Version /\ noted \in 0 .. ver /\ lag \in 0 .. MaxLag /\ breaks \in 0 .. MaxBreaks
      /\ cnt \in 0 .. KEEP_ALIVE_COUNTER
  BY DiscoveryClientAssumption DEF Init, Version
<1>2. /\ aenlist \in Seq(1 .. inc) /\ alloc \subseteq 1 .. inc /\ inc \in alloc
      /\ c2s \in Seq(Cmd \cup {"stale"}) /\ s2c \in Seq({"rsp", "aen"})
  BY DEF Init
<1>3. QED
  BY <1>1, <1>2 DEF Init, TypeOK, Cmd

\* Every variable keeps its type.  In particular aen_req_list never names a
\* connection that has not been made, and the endpoint of a connection that
\* works is allocated.
THEOREM TypeCorrect == Spec => []TypeOK
<1>1. Init => TypeOK
  BY InitType
<1>2. TypeOK /\ [Next]_vars => TypeOK'
  <2> SUFFICES ASSUME TypeOK, [Next]_vars PROVE TypeOK'
    OBVIOUS
  <2> USE DiscoveryClientAssumption DEF TypeOK, demVars, netVars, hostVars
  <2>1. CASE Send
    <3>1. c2s' \in Seq(Cmd \cup {"stale"})
      BY <2>1, AppendProperties DEF Send
    <3>2. QED
      BY <2>1, <3>1 DEF Send
  <2>2. CASE SendFails \/ LostConnection
    BY <2>2 DEF SendFails, LostConnection, AfterSendFails, Cmd, LogCmd
  <2> DEFINE Bodies == {"rsp", "aen"}
  <2>0. s2c # << >> => Tail(s2c) \in Seq(Bodies)
    BY HeadTailProperties
  <2>3. CASE Answer
    <3>1. pc' \in Cmd \cup {"poll", "down"}
      BY <2>3 DEF Answer, AfterCmd, Cmd, LogCmd
    <3>2. QED
      BY <2>3, <2>0, <3>1 DEF Answer
  <2>4. CASE AnswerHdr
    <3>1. c2s' \in Seq(Cmd \cup {"stale"})
      BY <2>4, DeallocKeeps DEF AnswerHdr
    <3>2. /\ numrec' \in Nat /\ pc' \in Cmd \cup {"poll", "down"}
          /\ have' \in Version \cup {None}
      BY <2>4 DEF AnswerHdr, Cmd, LogCmd
    <3>3. QED
      BY <2>0, <2>4, <3>1, <3>2 DEF AnswerHdr
  <2>5. CASE AnswerPages
    <3>1. c2s' \in Seq(Cmd \cup {"stale"})
      BY <2>5, DeallocKeeps DEF AnswerPages
    <3>2. QED
      BY <2>0, <2>5, <3>1 DEF AnswerPages, Cmd, LogCmd
  <2>6. CASE NoAnswerGetFeatures \/ NoAnswerOther
    <3>1. NoAnswer /\ pc' \in Cmd \cup {"poll", "down"}
      BY <2>6 DEF NoAnswerGetFeatures, NoAnswerOther, AfterCmd, Cmd, LogCmd
    <3>2. c2s' \in Seq(Cmd \cup {"stale"})
      BY <3>1, DeallocKeeps DEF NoAnswer
    <3>3. lag' \in 0 .. MaxLag
      BY <3>1 DEF NoAnswer, Late
    <3>4. QED
      BY <3>1, <3>2, <3>3 DEF NoAnswer
  <2>7. CASE Poll
    BY <2>0, <2>7 DEF Poll, Cmd, LogCmd
  <2>8. CASE PollTimeout
    <3>1. lag' \in 0 .. MaxLag
      BY <2>8 DEF PollTimeout, Late
    <3>2. cnt' \in 0 .. KEEP_ALIVE_COUNTER /\ pc' \in Cmd \cup {"poll", "down"}
      BY <2>8 DEF PollTimeout, Cmd
    <3>3. QED
      BY <2>8, <3>1, <3>2 DEF PollTimeout
  <2>9. CASE Reconnect
    <3>1. aenlist' \in Seq(1 .. inc') /\ alloc' \subseteq 1 .. inc' /\ inc' \in Nat
      <4>1. 1 .. inc \subseteq 1 .. inc + 1 /\ inc + 1 \in 1 .. inc + 1 /\ inc + 1 \in Nat
        OBVIOUS
      <4>2. aenlist \in Seq(1 .. inc + 1)
        BY <4>1, SeqMonotonic
      <4>3. QED
        BY <2>9, <4>1, <4>2 DEF Reconnect
    <3>2. inc' \in alloc'
      BY <2>9 DEF Reconnect
    <3>3. QED
      BY <2>9, <3>1, <3>2 DEF Reconnect, Cmd
  <2>10. CASE HandleNoData \/ handle_get_log_page
    <3>1. SendRsp /\ c2s # << >>
      BY <2>10 DEF HandleNoData, handle_get_log_page, NextRequest
    <3>2. c2s' \in Seq(Cmd \cup {"stale"}) /\ s2c' \in Seq(Bodies)
      BY <3>1, AppendProperties, HeadTailProperties DEF SendRsp
    <3>3. CASE HandleNoData
      BY <3>2, <3>3 DEF HandleNoData
    <3>4. CASE handle_get_log_page
      BY <3>2, <3>4 DEF handle_get_log_page
    <3>5. QED
      BY <2>10, <3>3, <3>4
  <2>11. CASE handle_async_event
    <3>1. SendRsp /\ up /\ c2s # << >>
      BY <2>11 DEF handle_async_event, NextRequest
    <3>2. c2s' \in Seq(Cmd \cup {"stale"}) /\ s2c' \in Seq(Bodies)
      BY <3>1, AppendProperties, HeadTailProperties DEF SendRsp
    <3>3. <<inc>> \in Seq(1 .. inc)
      BY <3>1
    <3>4. aenlist' \in Seq(1 .. inc)
      BY <2>11, <3>3, ConcatProperties DEF handle_async_event
    <3>5. QED
      BY <2>11, <3>2, <3>4 DEF handle_async_event
  <2>12. CASE WriteFault
    <3>1. c2s' \in Seq(Cmd \cup {"stale"})
      BY <2>12 DEF WriteFault
    <3>2. QED
      BY <2>12, <3>1 DEF WriteFault
  <2>13. ASSUME NEW i \in alloc, FreeEndpoint(i) PROVE TypeOK'
    BY <2>13 DEF FreeEndpoint
  <2>14. CASE Change \/ del_subsys \/ RemoveSubsys
    <3>1. ver \in Nat /\ noted \in 0 .. ver /\ MaxVer \in Nat /\ ver <= MaxVer
      BY DEF Version
    <3>2. ver' \in 0 .. MaxVer /\ noted' \in 0 .. ver'
      <4>1. noted' = noted /\ (ver' = ver \/ (ver' = ver + 1 /\ ver < MaxVer))
        BY <2>14 DEF Change, del_subsys, RemoveSubsys
      <4> HIDE DEF TypeOK
      <4>2. QED
        BY <3>1, <4>1
    <3>3. /\ main' \in {"rest", "notify", "delete", "remove"}
          /\ main' \in {"delete", "remove"} => ver' < MaxVer
      BY <2>14 DEF Change, del_subsys, RemoveSubsys
    <3>4. UNCHANGED <<aenlist, alloc, netVars, hostVars, lag, breaks>>
      BY <2>14 DEF Change, del_subsys, RemoveSubsys
    <3>5. QED
      BY <3>2, <3>3, <3>4 DEF Version
  <2>15. CASE send_notifications
    <3>1. aenlist' \in Seq(1 .. inc)
      BY <2>15, HeadTailProperties, ZenonT(40) DEF send_notifications
    <3>2. s2c' \in Seq(Bodies)
      BY <2>15, AppendProperties, ZenonT(40) DEF send_notifications
    <3>3. /\ ver' = ver /\ noted' \in 0 .. ver'
          /\ main' \in {"rest", "notify", "delete", "remove"}
          /\ main' \in {"delete", "remove"} => ver' < MaxVer
      BY <2>15 DEF send_notifications, Version
    <3>4. UNCHANGED <<alloc, up, inc, c2s, hostVars, lag, breaks>>
      BY <2>15 DEF send_notifications
    <3>5. QED
      BY <3>1, <3>2, <3>3, <3>4
  <2>16. CASE Break
    <3>1. s2c' \in Seq({"rsp", "aen"})
      <4>1. PICK l \in 0 .. Len(s2c) : s2c' = SubSeq(s2c, 1, l)
        BY <2>16 DEF Break, Prefixes
      <4>2. \A i \in 1 .. l : s2c[i] \in {"rsp", "aen"}
        OBVIOUS
      <4>3. QED
        BY <4>1, <4>2, SubSeqProperties
    <3>2. c2s' \in Seq(Cmd \cup {"stale"}) /\ breaks' \in 0 .. MaxBreaks
      BY <2>16 DEF Break
    <3>3. QED
      BY <2>16, <3>1, <3>2 DEF Break
  <2>17. CASE UNCHANGED vars
    BY <2>17 DEF vars
  <2>18. QED
    BY <2>1, <2>2, <2>3, <2>4, <2>5, <2>6, <2>7, <2>8, <2>9, <2>10, <2>11, <2>12,
       <2>13, <2>14, <2>15, <2>16, <2>17
       DEF Next, HostStep, handle_request, main_thread
<1>3. QED
  BY <1>1, <1>2, PTL DEF Spec

(***************************************************************************)
(* Where the host waits, and the order of aen_req_list.                    *)
(***************************************************************************)
\* Every step keeps Waits; only Send starts a wait.
LEMMA NextWaits == TypeOK /\ Waits /\ [Next]_vars => Waits'
<1> SUFFICES ASSUME TypeOK, Waits, [Next]_vars PROVE Waits'
  OBVIOUS
<1> USE DEF Waits, demVars, netVars, hostVars
<1>1. CASE Send
  <2>1. /\ c2s \in Seq(Cmd \cup {"stale"}) /\ pc \in Cmd \cup {"stale"}
        /\ c2s' = Append(c2s, pc)
    BY <1>1 DEF Send, TypeOK
  <2>2. c2s' # << >>
    BY <2>1, AppendProperties
  <2>3. QED
    BY <1>1, <2>2 DEF Send, Cmd, LogCmd
<1>2. CASE SendFails \/ LostConnection
  BY <1>2 DEF SendFails, LostConnection, AfterSendFails, Cmd, LogCmd
<1>3. CASE Answer \/ AnswerHdr \/ AnswerPages
  BY <1>3 DEF Answer, AnswerHdr, AnswerPages, AfterCmd, Cmd, LogCmd
<1>4. CASE NoAnswerGetFeatures \/ NoAnswerOther
  BY <1>4 DEF NoAnswerGetFeatures, NoAnswerOther, NoAnswer, AfterCmd, Cmd, LogCmd
<1>5. CASE Poll \/ PollTimeout
  BY <1>5 DEF Poll, PollTimeout, Cmd, LogCmd
<1>6. CASE Reconnect
  BY <1>6 DEF Reconnect, Cmd, LogCmd
<1>7. CASE HandleNoData \/ handle_async_event \/ handle_get_log_page
  <2>1. s2c' # << >>
    BY <1>7, AppendProperties DEF HandleNoData, handle_async_event, handle_get_log_page, SendRsp, TypeOK
  <2>2. QED
    BY <1>7, <2>1 DEF HandleNoData, handle_async_event, handle_get_log_page
<1>8. CASE WriteFault \/ Break
  BY <1>8 DEF WriteFault, Break
<1>9. ASSUME NEW i \in alloc, FreeEndpoint(i) PROVE Waits'
  BY <1>9 DEF FreeEndpoint
<1>10. CASE Change \/ del_subsys \/ RemoveSubsys
  BY <1>10 DEF Change, del_subsys, RemoveSubsys
<1>11. CASE send_notifications
  <2>1. s2c # << >> => s2c' # << >>
    BY <1>11, AppendProperties DEF send_notifications, TypeOK
  <2>2. QED
    BY <1>11, <2>1 DEF send_notifications
<1>12. CASE UNCHANGED vars
  BY <1>12 DEF vars
<1>13. QED
  BY <1>1, <1>2, <1>3, <1>4, <1>5, <1>6, <1>7, <1>8, <1>9, <1>10, <1>11, <1>12
     DEF Next, HostStep, handle_request, main_thread

\* handle_async_event adds the newest request in front, and send_notifications
\* takes the first.
LEMMA NextNewestFirst == TypeOK /\ NewestFirst /\ [Next]_vars => NewestFirst'
<1> SUFFICES ASSUME TypeOK, NewestFirst, [Next]_vars PROVE NewestFirst'
  OBVIOUS
<1>1. CASE handle_async_event
  <2>1. <<inc>> \in Seq(1 .. inc) /\ Len(<<inc>>) = 1
    BY <1>1 DEF handle_async_event, NextRequest, TypeOK
  <2>2. /\ aenlist' \in Seq(1 .. inc)
        /\ Len(aenlist') = 1 + Len(aenlist)
        /\ \A i \in 1 .. 1 + Len(aenlist) : aenlist'[i] = IF i <= 1 THEN <<inc>>[i] ELSE aenlist[i - 1]
    BY <1>1, <2>1, ConcatProperties DEF handle_async_event, TypeOK
  <2>3. /\ DOMAIN aenlist = 1 .. Len(aenlist) /\ Len(aenlist) \in Nat
        /\ DOMAIN aenlist' = 1 .. 1 + Len(aenlist)
        /\ \A i \in DOMAIN aenlist : aenlist[i] \in 1 .. inc
        /\ inc \in Nat
    BY <2>2, SMTT(30) DEF TypeOK
  <2>4. ASSUME NEW j \in DOMAIN aenlist', NEW k \in DOMAIN aenlist', j < k
        PROVE  aenlist'[j] >= aenlist'[k]
    <3>1. k - 1 \in DOMAIN aenlist /\ aenlist'[k] = aenlist[k - 1]
      BY <2>2, <2>3, <2>4
    <3>2. CASE j = 1
      BY <2>2, <2>3, <3>1, <3>2
    <3>3. CASE j # 1
      <4>1. j - 1 \in DOMAIN aenlist /\ j - 1 < k - 1 /\ aenlist'[j] = aenlist[j - 1]
        BY <2>2, <2>3, <2>4, <3>3
      <4>2. QED
        BY <3>1, <4>1 DEF NewestFirst
    <3>4. QED
      BY <3>2, <3>3
  <2>5. QED
    BY <2>4 DEF NewestFirst
<1>2. CASE send_notifications /\ aenlist # << >>
  <2>0. aenlist' = Tail(aenlist) /\ aenlist \in Seq(1 .. inc) /\ aenlist # << >>
    BY <1>2 DEF send_notifications, TypeOK
  <2>1. /\ \A i \in 1 .. Len(aenlist) - 1 : aenlist'[i] = aenlist[i + 1]
        /\ DOMAIN aenlist = 1 .. Len(aenlist) /\ Len(aenlist) \in Nat
        /\ DOMAIN aenlist' = 1 .. Len(aenlist) - 1
    <3>1. /\ Tail(aenlist) \in Seq(1 .. inc)
          /\ Len(Tail(aenlist)) = Len(aenlist) - 1
          /\ \A i \in 1 .. Len(Tail(aenlist)) : Tail(aenlist)[i] = aenlist[i + 1]
      BY <2>0, HeadTailProperties
    <3>2. QED
      BY <2>0, <3>1, LenProperties
  <2>2. ASSUME NEW j \in DOMAIN aenlist', NEW k \in DOMAIN aenlist', j < k
        PROVE  aenlist'[j] >= aenlist'[k]
    <3>1. /\ j + 1 \in DOMAIN aenlist /\ k + 1 \in DOMAIN aenlist /\ j + 1 < k + 1
          /\ aenlist'[j] = aenlist[j + 1] /\ aenlist'[k] = aenlist[k + 1]
      BY <2>1, <2>2
    <3>2. QED
      BY <3>1 DEF NewestFirst
  <2>3. QED
    BY <2>2 DEF NewestFirst
<1>3. CASE ~(handle_async_event \/ (send_notifications /\ aenlist # << >>))
  <2>1. aenlist' = aenlist
    BY <1>3 DEF Next, HostStep, handle_request, vars, demVars, Send, SendFails,
       LostConnection, Answer, AnswerHdr, AnswerPages, NoAnswerGetFeatures, NoAnswerOther,
       NoAnswer, Poll, PollTimeout, Reconnect, HandleNoData, handle_get_log_page, WriteFault,
       FreeEndpoint, Change, del_subsys, main_thread, RemoveSubsys, send_notifications, Break
  <2>2. QED
    BY <2>1 DEF NewestFirst
<1>4. QED
  BY <1>1, <1>2, <1>3

(***************************************************************************)
(* The numbers that Budget is about.                                       *)
(***************************************************************************)
\* They are numbers, and dem has been asked at most once per message.
LEMMA Numbers ==
  ASSUME TypeOK
  PROVE  /\ Armed \in Nat /\ Asked \in Nat /\ Len(c2s) \in Nat /\ Len(s2c) \in Nat
         /\ Asked <= Len(c2s)
         /\ Requests = Armed + Asked
         /\ Strays = Len(c2s) + Len(s2c) - (IF wait THEN 1 ELSE 0)
         /\ c2s = << >> <=> Len(c2s) = 0
         /\ s2c = << >> <=> Len(s2c) = 0
         /\ lag \in Nat
<1>1. aenlist \in Seq(1 .. inc) /\ c2s \in Seq(Cmd \cup {"stale"}) /\ s2c \in Seq({"rsp", "aen"})
  BY DEF TypeOK
<1>2. Armed \in Nat /\ Asked \in Nat /\ Asked <= Len(c2s)
  BY <1>1, CountType DEF Armed, Asked
<1>3. /\ Len(c2s) \in Nat /\ Len(s2c) \in Nat
      /\ c2s = << >> <=> Len(c2s) = 0
      /\ s2c = << >> <=> Len(s2c) = 0
  BY <1>1, EmptySeq, LenProperties
<1>4. QED
  BY <1>2, <1>3 DEF Requests, Asked, Strays, TypeOK

\* A message that dem reads and answers stays one message; an event request
\* becomes a request that dem has.
LEMMA HandleCounts ==
  ASSUME TypeOK, SendRsp, c2s # << >>
  PROVE  /\ Len(c2s') = Len(c2s) - 1
         /\ Len(s2c') = Len(s2c) + 1
         /\ Asked = Asked' + (IF Head(c2s) \in {"aer0", "aer"} THEN 1 ELSE 0)
<1>1. c2s \in Seq(Cmd \cup {"stale"}) /\ s2c \in Seq({"rsp", "aen"})
  BY DEF TypeOK
<1>2. Len(c2s') = Len(c2s) - 1 /\ Len(s2c') = Len(s2c) + 1
  BY <1>1, HeadTailProperties, AppendProperties DEF SendRsp
<1>3. Asked = Asked' + (IF Head(c2s) \in {"aer0", "aer"} THEN 1 ELSE 0)
  BY <1>1, CountTail DEF SendRsp, Asked
<1>4. QED
  BY <1>2, <1>3

\* If dem has no request of the host, a message is astray wherever the host is
\* reading the log or has read it.
LEMMA AstrayUnlessArmed ==
  ASSUME TypeOK, Waits, Budget, Fetching, up, Armed = 0,
         pc \in {"hdr", "pages", "aer", "poll", "ka"}
  PROVE  Strays >= 1
<1>1. Owed >= 1 /\ (wait /\ pc \notin LogCmd => Owed = 2) /\ Owed \in Nat
  BY DEF Owed, LogCmd, Waits, Cmd
<1>2. Requests + Strays >= Owed
  BY <1>1, Numbers DEF Budget
<1>3. Strays >= 0
  BY Numbers DEF Waits
<1>4. ASSUME Strays = 0 PROVE FALSE
  <2>1. CASE ~wait
    BY <1>1, <1>2, <1>4, <2>1, Numbers
  <2>2. CASE wait /\ pc \notin LogCmd
    BY <1>1, <1>2, <1>4, <2>2, Numbers
  <2>3. CASE wait /\ pc \in LogCmd
    <3>1. c2s = <<pc>> \/ c2s = << >>
      BY <1>4, <2>3 DEF Fetching
    <3>2. Asked = 0
      <4>1. c2s = <<pc>> => {k \in DOMAIN c2s : c2s[k] \in {"aer0", "aer"}} = {}
        BY <2>3 DEF LogCmd
      <4>2. QED
        BY <3>1, <4>1, FS_EmptySet, CountEmpty DEF Asked, Count
    <3>3. QED
      BY <1>1, <1>2, <1>4, <3>2, Numbers
  <2>4. QED
    BY <2>1, <2>2, <2>3
<1>5. QED
  BY <1>3, <1>4, Numbers

(***************************************************************************)
(* One step of the inductive invariant.                                    *)
(***************************************************************************)
\* A new connection owes the host nothing.
LEMMA InitIInv == Init => IInv
<1> SUFFICES ASSUME Init PROVE IInv
  OBVIOUS
<1>1. TypeOK
  BY InitType
<1>2. Armed = 0 /\ Asked = 0
  BY CountEmpty DEF Init, Armed, Asked
<1>3. Strays = 0 /\ Requests = 0
  BY <1>1, <1>2, Numbers DEF Init
<1>4. Budget
  BY <1>3 DEF Init, Budget, Owed
<1>5. Waits /\ NewestFirst /\ Fetching /\ Fresh
  BY DEF Init, Waits, NewestFirst, Fetching, Fresh, Cmd, LogCmd
<1>6. QED
  BY <1>1, <1>4, <1>5 DEF IInv

\* The three parts that are about what the host knows and is owed.
Following == Budget /\ Fetching /\ Fresh

\* The steps of the host that send, and that take a message for an answer.
LEMMA HostAnswered ==
  ASSUME IInv, TypeOK', Send \/ Answer \/ AnswerHdr \/ AnswerPages
  PROVE  Following'
<1> USE DEF IInv, demVars, netVars, hostVars
<1>1. CASE Send
  <2>1. /\ up /\ up' /\ wait' /\ ~wait /\ pc' = pc /\ lag' = lag /\ have' = have
        /\ ver' = ver /\ noted' = noted /\ numrec' = numrec /\ s2c' = s2c
        /\ c2s' = Append(c2s, pc) /\ pc \in Cmd \cup {"stale"} /\ c2s \in Seq(Cmd \cup {"stale"})
        /\ Armed' = Armed
    BY <1>1 DEF Send, TypeOK, Armed, Count
  <2>2. Len(c2s') = Len(c2s) + 1
    BY <2>1, AppendProperties
  <2>3. Asked' = Asked + (IF pc \in {"aer0", "aer"} THEN 1 ELSE 0)
    BY <2>1, CountAppend DEF Asked
  <2>4. Strays' = Strays /\ Requests' = Requests + (IF pc \in {"aer0", "aer"} THEN 1 ELSE 0)
    BY <2>1, <2>2, <2>3, Numbers DEF Requests, Asked, Strays
  <2>5. Owed' = Owed + (IF pc \in {"aer0", "aer"} THEN 1 ELSE 0) /\ Owed \in Nat
    BY <2>1 DEF Owed
  <2>6. Budget'
    BY <2>1, <2>4, <2>5, Numbers, SMTT(30) DEF Budget
  <2>7. Strays' = 0 => c2s' = <<pc>> /\ s2c' = << >>
    <3> SUFFICES ASSUME Strays' = 0 PROVE c2s' = <<pc>> /\ s2c' = << >>
      OBVIOUS
    <3>1. c2s = << >> /\ s2c = << >>
      BY <2>1, <2>4, Numbers
    <3>2. QED
      BY <2>1, <3>1
  <2>8. Fetching' /\ Fresh'
    BY <2>1, <2>4, <2>7 DEF Fetching, Fresh
  <2>9. QED
    BY <2>6, <2>8 DEF Following
<1>2. CASE Answer \/ AnswerHdr \/ AnswerPages
  <2>1. /\ wait /\ ~wait' /\ s2c # << >> /\ s2c' = Tail(s2c) /\ s2c \in Seq({"rsp", "aen"})
        /\ up' = up /\ lag' = lag /\ ver' = ver /\ noted' = noted /\ Armed' = Armed
        /\ c2s' \in {c2s, DeallocKey(c2s)} /\ c2s \in Seq(Cmd \cup {"stale"})
    BY <1>2 DEF Answer, AnswerHdr, AnswerPages, TypeOK, Armed, Count
  <2>2. Len(s2c') = Len(s2c) - 1
    BY <2>1, HeadTailProperties
  <2>3. Len(c2s') = Len(c2s) /\ Asked' = Asked
    BY <2>1, DeallocKeeps DEF Asked
  <2>4. Strays' = Strays /\ Requests' = Requests
    BY <2>1, <2>2, <2>3, Numbers DEF Requests, Asked, Strays
  <2>5. Owed' = Owed
    BY <1>2 DEF Owed, Answer, AnswerHdr, AnswerPages, AfterCmd, Cmd, LogCmd
  <2>6. Budget'
    BY <2>1, <2>4, <2>5 DEF Budget
  <2>7. up => Strays >= 0 /\ Strays \in Int
    BY Numbers DEF Waits
  <2>8. up /\ Strays = 0 /\ pc \in LogCmd => buf # None /\ (buf = ver \/ noted # ver)
    BY <2>1 DEF Fetching
  <2>9. CASE Answer
    BY <2>1, <2>4, <2>6, <2>9
       DEF Following, Fetching, Fresh, Answer, AfterCmd, Cmd, LogCmd
  <2>10. CASE AnswerHdr
    <3>1. Fetching'
      BY <2>1, <2>4, <2>8, <2>10 DEF Fetching, AnswerHdr, LogCmd
    <3>2. Fresh'
      BY <2>1, <2>4, <2>7, <2>8, <2>10 DEF Fresh, AnswerHdr, LogCmd
    <3>3. QED
      BY <2>6, <3>1, <3>2 DEF Following
  <2>11. CASE AnswerPages
    <3>1. Fetching'
      BY <2>1, <2>4, <2>11 DEF Fetching, AnswerPages, LogCmd
    <3>2. up /\ Strays = 0 => numrec = NumRec[ver] \/ noted # ver
      BY <2>11 DEF Fetching, AnswerPages
    <3>3. Fresh'
      BY <2>1, <2>4, <2>7, <2>8, <2>11, <3>2 DEF Fresh, AnswerPages, LogCmd
    <3>4. QED
      BY <2>6, <3>1, <3>3 DEF Following
  <2>12. QED
    BY <1>2, <2>9, <2>10, <2>11
<1>3. QED
  BY <1>1, <1>2

\* A wait that ends without an answer leaves a message astray.
LEMMA HostUnanswered ==
  ASSUME IInv, TypeOK', NoAnswerGetFeatures \/ NoAnswerOther
  PROVE  Following'
<1> USE DEF IInv, demVars, netVars, hostVars
<1>1. /\ wait /\ ~wait' /\ s2c = << >> /\ s2c' = s2c /\ up' = up /\ Armed' = Armed
      /\ c2s' \in {c2s, DeallocKey(c2s)} /\ c2s \in Seq(Cmd \cup {"stale"})
      /\ up => lag' = lag + 1
  BY DEF NoAnswerGetFeatures, NoAnswerOther, NoAnswer, Late, TypeOK, Armed, Count
<1>2. Len(c2s') = Len(c2s) /\ Asked' = Asked
  BY <1>1, DeallocKeeps DEF Asked
<1>3. Strays' = Strays + 1 /\ Requests' = Requests
  BY <1>1, <1>2, Numbers DEF Requests, Asked, Strays
<1>4. Owed' \in {Owed, Owed + 1} /\ Owed \in Nat
      /\ (Owed' # Owed => pc = "get_feat" /\ Owed = 0)
  BY <1>1 DEF NoAnswerGetFeatures, NoAnswerOther, Owed, AfterCmd, Cmd, LogCmd
<1>5. up => Strays >= 0
  BY Numbers DEF Waits
<1>6. Budget'
  BY <1>1, <1>3, <1>4, Numbers DEF Budget
<1>7. Fetching' /\ Fresh'
  BY <1>1, <1>3, <1>5, Numbers DEF Fetching, Fresh
<1>8. QED
  BY <1>6, <1>7 DEF Following

\* The main loop and a new connection.
LEMMA HostPolls ==
  ASSUME IInv, TypeOK', Poll \/ PollTimeout \/ Reconnect
  PROVE  Following'
<1> USE DEF IInv, demVars, netVars, hostVars
<1>1. ~wait
  BY DEF Poll, PollTimeout, Reconnect, Waits, Cmd, LogCmd
<1>2. CASE Poll
  <2>1. /\ s2c # << >> /\ s2c' = Tail(s2c) /\ s2c \in Seq({"rsp", "aen"}) /\ c2s' = c2s
        /\ up' = up /\ wait' = wait /\ lag' = lag /\ Armed' = Armed /\ Asked' = Asked
        /\ pc = "poll" /\ pc' = "hdr"
    BY <1>2 DEF Poll, TypeOK, Armed, Asked, Count
  <2>2. Len(s2c') = Len(s2c) - 1
    BY <2>1, HeadTailProperties
  <2>3. Strays' = Strays - 1 /\ Requests' = Requests
    BY <1>1, <2>1, <2>2, Numbers DEF Requests, Asked, Strays
  <2>4. Owed = 2 /\ Owed' = 1
    BY <2>1 DEF Owed
  <2>5. Budget'
    BY <2>1, <2>3, <2>4, Numbers, SMTT(30) DEF Budget
  <2>6. Fetching' /\ Fresh'
    BY <1>1, <2>1 DEF Fetching, Fresh
  <2>7. QED
    BY <2>5, <2>6 DEF Following
<1>3. CASE PollTimeout
  <2>1. /\ s2c' = s2c /\ c2s' = c2s /\ up' = up /\ wait' = wait /\ Armed' = Armed /\ Asked' = Asked
        /\ pc = "poll" /\ pc' \in {"poll", "ka"} /\ have' = have /\ ver' = ver /\ noted' = noted
        /\ lag' \in {lag, lag + 1}
    BY <1>3 DEF PollTimeout, Late, Armed, Asked, Count
  <2>2. Strays' = Strays /\ Requests' = Requests
    BY <2>1 DEF Requests, Asked, Strays
  <2>3. Owed' = Owed /\ Owed = 2
    BY <2>1 DEF Owed
  <2>4. Budget'
    BY <2>1, <2>2, <2>3, Numbers DEF Budget
  <2>5. Fetching' /\ Fresh'
    BY <1>1, <2>1, <2>2 DEF Fetching, Fresh, LogCmd
  <2>6. QED
    BY <2>4, <2>5 DEF Following
<1>4. CASE Reconnect
  <2>1. /\ aenlist' = aenlist /\ inc' = inc + 1 /\ c2s' = << >> /\ s2c' = << >>
        /\ wait' = wait /\ pc' = "get_feat"
    BY <1>4 DEF Reconnect
  <2>2. Armed' = 0
    <3>1. \A k \in DOMAIN aenlist : aenlist[k] # inc + 1
      <4>1. aenlist \in Seq(1 .. inc) /\ inc \in Nat
        BY DEF TypeOK
      <4>2. \A k \in DOMAIN aenlist : aenlist[k] \in 1 .. inc
        BY <4>1
      <4>3. QED
        BY <4>1, <4>2
    <3>2. {k \in DOMAIN aenlist : aenlist[k] \in {inc + 1}} = {}
      BY <3>1
    <3>3. QED
      BY <2>1, <3>2, FS_EmptySet DEF Armed, Count
  <2>3. Asked' = 0
    BY <2>1, CountEmpty DEF Asked
  <2>4. Strays' = 0 /\ Requests' = 0
    BY <1>1, <2>1, <2>2, <2>3 DEF Requests, Asked, Strays
  <2>5. Owed' = 0 /\ lag' \in Nat
    BY <1>4, <2>1, Numbers DEF Owed, Reconnect
  <2>6. Requests' + Strays' \in Owed' .. Owed' + lag'
    <3>1. \A r, t, o : \A l \in Nat : r = 0 /\ t = 0 /\ o = 0 => r + t \in o .. o + l
      OBVIOUS
    <3>2. QED
      BY <2>4, <2>5, <3>1, Zenon
  <2>7. Fetching' /\ Fresh'
    BY <2>1 DEF Fetching, Fresh, LogCmd
  <2>8. QED
    BY <2>6, <2>7 DEF Following, Budget
<1>5. QED
  BY <1>2, <1>3, <1>4

\* handle_request keeps the number of messages and requests.
LEMMA DemHandles ==
  ASSUME IInv, TypeOK', HandleNoData \/ handle_async_event \/ handle_get_log_page
  PROVE  Following'
<1> USE DEF IInv, demVars, netVars, hostVars
<1>1. /\ SendRsp /\ c2s # << >> /\ up /\ up' = up /\ lag' = lag /\ wait' = wait /\ pc' = pc
      /\ ver' = ver /\ noted' = noted /\ have' = have /\ numrec' = numrec /\ inc' = inc
  BY DEF HandleNoData, handle_async_event, handle_get_log_page, NextRequest
<1>2. /\ Len(c2s') = Len(c2s) - 1 /\ Len(s2c') = Len(s2c) + 1
      /\ Asked = Asked' + (IF Head(c2s) \in {"aer0", "aer"} THEN 1 ELSE 0)
  BY <1>1, HandleCounts
<1>3. Armed' = Armed + (IF Head(c2s) \in {"aer0", "aer"} THEN 1 ELSE 0)
  <2>1. CASE HandleNoData \/ handle_get_log_page
    <3>1. aenlist' = aenlist /\ Head(c2s) \notin {"aer0", "aer"}
      BY <2>1 DEF HandleNoData, handle_get_log_page, NextRequest, LogCmd
    <3>2. QED
      BY <1>1, <3>1, Numbers DEF Armed
  <2>2. CASE handle_async_event
    <3>1. /\ aenlist' = <<inc>> \o aenlist /\ aenlist \in Seq(1 .. inc) /\ inc \in 1 .. inc
          /\ Head(c2s) \in {"aer0", "aer"}
      BY <2>2 DEF handle_async_event, NextRequest, TypeOK
    <3>2. QED
      BY <1>1, <3>1, CountPrepend DEF Armed
  <2>3. QED
    BY <2>1, <2>2
<1>4. Armed' \in Nat /\ Asked' \in Nat
  BY Numbers, <1>2, <1>3, CountType DEF TypeOK, Armed, Asked
<1>5. Strays' = Strays /\ Requests' = Requests
  BY <1>1, <1>2, <1>3, <1>4, Numbers DEF Requests, Asked, Strays
<1>6. Owed' = Owed
  BY <1>1 DEF Owed
<1>7. Budget' /\ Fresh'
  BY <1>1, <1>5, <1>6 DEF Budget, Fresh
<1>8. Fetching'
  <2> SUFFICES ASSUME Strays = 0, wait, pc \in LogCmd
               PROVE  c2s' = << >> /\ buf' # None /\ buf' = ver
    BY <1>1, <1>5 DEF Fetching
  <2>1. c2s = <<pc>>
    BY <1>1 DEF Fetching
  <2>2. handle_get_log_page
    <3>1. Head(c2s) = pc
      BY <2>1
    <3>2. QED
      BY <3>1 DEF HandleNoData, handle_async_event, NextRequest, LogCmd
  <2>3. c2s' = << >>
    BY <1>1, <2>1 DEF SendRsp
  <2>4. QED
    BY <2>2, <2>3, DiscoveryClientAssumption DEF handle_get_log_page, TypeOK, Version, None
<1>9. QED
  BY <1>7, <1>8 DEF Following

\* send_notifications turns a request into a message; and if it has none for
\* this host, a message is astray.
LEMMA DemNotifies ==
  ASSUME IInv, TypeOK', send_notifications
  PROVE  Following'
<1> USE DEF IInv, demVars, netVars, hostVars
<1>1. /\ up' = up /\ lag' = lag /\ wait' = wait /\ pc' = pc /\ c2s' = c2s /\ inc' = inc
      /\ Asked' = Asked /\ aenlist \in Seq(1 .. inc) /\ inc \in Nat
  BY DEF send_notifications, Asked, TypeOK
<1>2. Owed' = Owed
  BY <1>1 DEF Owed
<1>3. CASE ~up
  BY <1>1, <1>3 DEF Following, Budget, Fetching, Fresh
<1>4. CASE up /\ aenlist # << >> /\ Head(aenlist) = inc
  <2>1. /\ aenlist' = Tail(aenlist) /\ s2c' = Append(s2c, "aen")
        /\ s2c \in Seq({"rsp", "aen"})
    BY <1>4 DEF send_notifications, TypeOK
  <2>2. Len(s2c') = Len(s2c) + 1
    BY <2>1, AppendProperties
  <2>3. Armed = Armed' + 1
    BY <1>1, <1>4, <2>1, CountTail DEF Armed
  <2>4. Armed' \in Nat
    BY CountType DEF TypeOK, Armed
  <2>5. Strays' = Strays + 1 /\ Requests = Requests' + 1
    BY <1>1, <2>2, <2>3, <2>4, Numbers DEF Requests, Asked, Strays
  <2>6. Strays >= 0
    BY <1>4, Numbers DEF Waits
  <2>7. Requests' \in Int
    BY <1>1, <2>4, Numbers DEF Requests, Asked
  <2>8. Budget'
    BY <1>1, <1>2, <2>5, <2>7, Numbers, SMTT(30) DEF Budget
  <2>9. Fetching' /\ Fresh'
    BY <2>5, <2>6, Numbers DEF Fetching, Fresh
  <2>10. QED
    BY <2>8, <2>9 DEF Following
<1>5. CASE up /\ ~(aenlist # << >> /\ Head(aenlist) = inc)
  <2>1. \A k \in DOMAIN aenlist : aenlist[k] # inc
    <3> SUFFICES ASSUME NEW k \in DOMAIN aenlist, aenlist[k] = inc PROVE FALSE
      OBVIOUS
    <3>1. aenlist # << >> /\ Head(aenlist) = aenlist[1] /\ 1 \in DOMAIN aenlist
          /\ k \in Nat /\ k >= 1 /\ aenlist[1] \in 1 .. inc
      BY <1>1
    <3>2. aenlist[1] >= inc
      BY <1>1, <3>1 DEF NewestFirst
    <3>3. QED
      BY <1>1, <1>5, <3>1, <3>2
  <2>2. Armed = 0
    <3>1. {k \in DOMAIN aenlist : aenlist[k] \in {inc}} = {}
      BY <2>1
    <3>2. QED
      BY <3>1, FS_EmptySet DEF Armed, Count
  <2>3. Armed' = Armed
    <3>1. CASE aenlist = << >>
      BY <1>1, <3>1 DEF send_notifications, Armed
    <3>2. CASE aenlist # << >>
      <4>1. aenlist' = Tail(aenlist) /\ Head(aenlist) \notin {inc}
        BY <1>5, <3>2 DEF send_notifications
      <4>2. QED
        BY <1>1, <3>2, <4>1, CountTail DEF Armed
    <3>3. QED
      BY <3>1, <3>2
  <2>4. s2c' = s2c
    BY <1>5 DEF send_notifications
  <2>5. Strays' = Strays /\ Requests' = Requests
    BY <1>1, <2>3, <2>4 DEF Requests, Asked, Strays
  <2>6. Budget'
    BY <1>1, <1>2, <2>5 DEF Budget
  <2>7. pc \in {"hdr", "pages", "aer", "poll", "ka"} => Strays >= 1
    BY <1>5, <2>2, AstrayUnlessArmed
  <2>8. Fetching' /\ Fresh'
    BY <1>1, <2>5, <2>7, Numbers DEF Fetching, Fresh, LogCmd
  <2>9. QED
    BY <2>6, <2>8 DEF Following
<1>6. QED
  BY <1>3, <1>4, <1>5

\* Every step keeps the inductive invariant.
LEMMA NextIInv == IInv /\ TypeOK' /\ [Next]_vars => IInv'
<1> SUFFICES ASSUME IInv, TypeOK', [Next]_vars PROVE IInv'
  OBVIOUS
<1>1. Waits' /\ NewestFirst'
  BY NextWaits, NextNewestFirst DEF IInv
<1>2. ASSUME ~up' PROVE Following'
  BY <1>2 DEF Following, Budget, Fetching, Fresh
<1>3. ASSUME UNCHANGED <<aenlist, inc, up, c2s, s2c, hostVars, lag>>,
             UNCHANGED <<ver, noted>> \/ noted' # ver'
      PROVE  Following'
  <2>1. Armed' = Armed /\ Asked' = Asked /\ Strays' = Strays /\ Owed' = Owed
    BY <1>3 DEF Armed, Asked, Count, Strays, Owed, hostVars
  <2>2. Requests' = Requests
    BY <1>3 DEF Requests, Armed, Count
  <2>3. Budget' /\ Fetching' /\ Fresh'
    BY <1>3, <2>1, <2>2 DEF IInv, Budget, Fetching, Fresh, hostVars
  <2>4. QED
    BY <2>3 DEF Following
<1>4. CASE Send \/ Answer \/ AnswerHdr \/ AnswerPages
  BY <1>1, <1>4, HostAnswered DEF IInv, Following
<1>5. CASE NoAnswerGetFeatures \/ NoAnswerOther
  BY <1>1, <1>5, HostUnanswered DEF IInv, Following
<1>6. CASE Poll \/ PollTimeout \/ Reconnect
  BY <1>1, <1>6, HostPolls DEF IInv, Following
<1>7. CASE SendFails \/ LostConnection \/ WriteFault \/ Break
  <2>1. ~up'
    BY <1>7 DEF SendFails, LostConnection, WriteFault, Break, netVars
  <2>2. QED
    BY <1>1, <1>2, <2>1 DEF IInv, Following
<1>8. CASE HandleNoData \/ handle_async_event \/ handle_get_log_page
  BY <1>1, <1>8, DemHandles DEF IInv, Following
<1>9. ASSUME \/ \E i \in alloc : FreeEndpoint(i)
             \/ Change \/ del_subsys \/ RemoveSubsys \/ UNCHANGED vars
      PROVE  IInv'
  <2>1. UNCHANGED <<aenlist, inc, up, c2s, s2c, hostVars, lag>>
    BY <1>9 DEF FreeEndpoint, Change, del_subsys, RemoveSubsys, vars, demVars, netVars
  <2>2. (ver' = ver + 1 /\ noted' = noted) \/ UNCHANGED <<ver, noted>>
    BY <1>9 DEF FreeEndpoint, Change, del_subsys, RemoveSubsys, vars, demVars
  <2>3. noted \in Nat /\ ver \in Nat /\ noted <= ver
    BY DiscoveryClientAssumption DEF IInv, TypeOK, Version
  <2>4. UNCHANGED <<ver, noted>> \/ noted' # ver'
    BY <2>2, <2>3
  <2>5. QED
    BY <1>1, <1>3, <2>1, <2>4 DEF IInv, Following
<1>10. CASE send_notifications
  BY <1>1, <1>10, DemNotifies DEF IInv, Following
<1>11. QED
  BY <1>4, <1>5, <1>6, <1>7, <1>8, <1>9, <1>10
     DEF Next, HostStep, handle_request, main_thread

\* It holds for as long as the host and dem run.
LEMMA Inductive == Spec => []IInv
BY InitIInv, NextIInv, TypeCorrect, PTL DEF Spec

(***************************************************************************)
(* What follows from it.                                                   *)
(***************************************************************************)
\* Wherever the host is in its loop, a request at dem or a message under way is
\* left to tell it of a change that it may be missing, and two of them while it
\* waits for events: no answer that process_nvme_rsp mistakes for another one,
\* however late it comes, uses up the last.
THEOREM NotifiedAlways == Spec => []AlwaysNotified
<1>1. IInv => AlwaysNotified
  <2> SUFFICES ASSUME IInv, up PROVE AlwaysNotified
    BY DEF AlwaysNotified
  <2>1. Requests \in Int /\ Strays \in Int /\ lag \in Nat
    BY Numbers DEF IInv
  <2>2. Requests + Strays >= Owed /\ Owed \in Nat
    BY <2>1 DEF IInv, Budget, Owed
  <2>3. /\ pc \in {"hdr", "pages"} \/ (pc = "aer" /\ ~wait) => Owed = 1
        /\ pc \in {"poll", "ka"} \/ (pc = "aer" /\ wait) => Owed = 2
    BY DEF Owed
  <2>4. QED
    BY <2>1, <2>2, <2>3 DEF AlwaysNotified
<1>2. QED
  BY <1>1, Inductive, PTL

\* The requests in aen_req_list do not pile up, however often a late answer is
\* taken for an event: there is at most one more for each wait too short.
THEOREM RequestsAreBounded == Spec => []RequestsBounded
<1>1. IInv => RequestsBounded
  <2> SUFFICES ASSUME IInv, up PROVE Requests + Strays <= 2 + lag
    BY DEF RequestsBounded
  <2>1. Requests \in Int /\ Strays \in Int /\ lag \in Nat
    BY Numbers DEF IInv
  <2>2. Requests + Strays <= Owed + lag /\ Owed \in 0 .. 2
    BY <2>1 DEF IInv, Budget, Owed
  <2>3. QED
    BY <2>1, <2>2
<1>2. QED
  BY <1>1, Inductive, PTL

\* A host that waits for events, with nothing under way, shows the current log
\* if dem has notified since the log last changed, however many changes,
\* deletions, late answers, notifications in mid-fetch and broken connections
\* there were before.
THEOREM RestIsCaughtUp == Spec => []CaughtUp
<1>1. IInv => CaughtUp
  <2> SUFFICES ASSUME IInv, AtRest, noted = ver PROVE have = ver
    BY DEF CaughtUp
  <2>1. ~wait
    BY DEF IInv, Waits, AtRest, Cmd, LogCmd
  <2>2. Strays = 0
    BY <2>1, Numbers DEF IInv, AtRest
  <2>3. QED
    BY <2>2 DEF IInv, Fresh, AtRest
<1>2. QED
  BY <1>1, Inductive, PTL
=============================================================================
