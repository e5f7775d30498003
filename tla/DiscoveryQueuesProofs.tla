------------------------- MODULE DiscoveryQueuesProofs -------------------------
(***************************************************************************)
(* The discovery queues and the log pages of a target, for any lists of    *)
(* subsystems, ports and hosts: the queues point to what is listed         *)
(* (QueuesAreValid), and the pages of all subsystems that can be used are  *)
(* there (PagesAreComplete).                                               *)
(*                                                                         *)
(* The invariant says how the queues stand after every operation: all      *)
(* queues of subsystems are on the first port, since dq_exists sees those  *)
(* of other ports only; the first queue of a restricted subsystem is under *)
(* the nqn of one of its hosts; a subsystem has one queue, if none is set  *)
(* again.  The operations of dem go along its lists, so the proofs are     *)
(* inductions over their lengths.                                          *)
(***************************************************************************)
EXTENDS DiscoveryQueues, SequenceTheorems, WellFoundedInduction, TLAPS

(***************************************************************************)
(* Induction, stated with sets.                                            *)
(***************************************************************************)
\* A set of natural numbers has a least element.
LEMMA Least ==
    ASSUME NEW T, T \subseteq Nat, T # {}
    PROVE  \E x \in T : \A y \in T : x <= y
<1> DEFINE R == {ss \in Nat \X Nat : ss[1] < ss[2]}
<1>1. IsWellFoundedOn(R, Nat)
  BY NatLessThanWellFounded DEF OpToRel
<1>2. \A x, y \in Nat : y < x => <<y, x>> \in R
  OBVIOUS
<1> HIDE DEF R
<1>3. PICK x \in T : \A y \in T : ~(<<y, x>> \in R)
  BY <1>1, WFMin
<1>4. \A y \in T : ~(y < x)
  BY <1>2, <1>3
<1> QED BY <1>4

\* Induction over the natural numbers.
LEMMA Induct ==
    ASSUME NEW S, 0 \in S, \A n \in Nat : n \in S => n + 1 \in S
    PROVE  Nat \subseteq S
<1>1. SUFFICES ASSUME Nat \ S # {} PROVE FALSE
  OBVIOUS
<1>2. PICK x \in Nat \ S : \A y \in Nat \ S : x <= y
  BY <1>1, Least
<1>3. x # 0
  BY <1>2
<1>4. x - 1 \in Nat /\ x - 1 \in S
  BY <1>2, <1>3
<1> QED BY <1>2, <1>4

\* A set of indices of a list has a least and a greatest element.
LEMMA MinOf ==
    ASSUME NEW T, T \subseteq Nat, T # {}
    PROVE  Min(T) \in T /\ \A y \in T : Min(T) <= y
<1>1. \E x \in T : \A y \in T : x <= y
  BY Least
<1> QED BY <1>1 DEF Min

\* The same for the greatest element, of a set that is bounded.
LEMMA MaxOf ==
    ASSUME NEW N \in Nat, NEW T, T \subseteq 1..N, T # {}
    PROVE  Max(T) \in T /\ \A y \in T : y <= Max(T)
<1> DEFINE D == {d \in Nat : \E x \in T : x + d = N}
<1>1. \A x \in T : N - x \in D
  OBVIOUS
<1>2. PICK d \in D : \A e \in D : d <= e
  BY <1>1, Least
<1>3. PICK x \in T : x + d = N
  BY <1>2
<1>4. \A y \in T : x >= y
  BY <1>1, <1>2, <1>3
<1>5. \E z \in T : \A y \in T : z >= y
  BY <1>4
<1> QED BY <1>5 DEF Max

\* f is v0, and then what the functions of g make of it one after the other.
Iterates(f, N, V, v0, g) ==
    f \in [0..N -> V] /\ f[0] = v0 /\ \A n \in 1..N : f[n] = g[n][f[n - 1]]

\* There is such an f: recursive functions over 0..N are what they say.
LEMMA Iterate ==
    ASSUME NEW N \in Nat, NEW V, NEW v0 \in V, NEW g \in [1..N -> [V -> V]]
    PROVE  \E f : Iterates(f, N, V, v0, g)
<1> DEFINE S == {m \in Nat : m <= N => \E f : Iterates(f, m, V, v0, g)}
<1>1. 0 \in S
  <2> DEFINE f == [i \in 0..0 |-> v0]
  <2>1. Iterates(f, 0, V, v0, g)
    BY DEF Iterates
  <2> QED BY <2>1
<1>2. ASSUME NEW m \in Nat, m \in S PROVE m + 1 \in S
  <2>1. SUFFICES ASSUME m + 1 <= N PROVE \E f : Iterates(f, m + 1, V, v0, g)
    OBVIOUS
  <2>2. PICK f : Iterates(f, m, V, v0, g)
    BY <1>2, <2>1
  <2> DEFINE h == [i \in 0..(m + 1) |-> IF i = m + 1 THEN g[m + 1][f[m]] ELSE f[i]]
  <2>3. m + 1 \in 1..N /\ f[m] \in V
    BY <2>1, <2>2 DEF Iterates
  <2>4. g[m + 1][f[m]] \in V
    BY <2>3
  <2>5. h \in [0..(m + 1) -> V]
    BY <2>2, <2>4 DEF Iterates
  <2>6. h[0] = v0
    BY <2>2 DEF Iterates
  <2>7. ASSUME NEW n \in 1..(m + 1) PROVE h[n] = g[n][h[n - 1]]
    <3>1. h[n - 1] = f[n - 1]
      OBVIOUS
    <3>2. CASE n = m + 1
      BY <3>1, <3>2
    <3>3. CASE n # m + 1
      BY <3>1, <3>3, <2>2 DEF Iterates
    <3> QED BY <3>2, <3>3
  <2> HIDE DEF h
  <2> QED BY <2>5, <2>6, <2>7 DEF Iterates
<1> HIDE DEF S
<1>3. N \in S
  BY <1>1, <1>2, Induct
<1> QED BY <1>3 DEF S

(***************************************************************************)
(* Lookups.                                                                *)
(***************************************************************************)
Sub  == [nqn : Subsystems, open : BOOLEAN, hosts : Seq(Hosts)]
Dq   == [subsys : Subsystems \cup {NONE}, port : Ports,
         host : Hosts \cup {shared_nqn}, eps : 0..2]
Page == [nqn : Subsystems, port : Ports, via : Ports, valid : BOOLEAN]

\* The fields of a target and the lengths of its lists.
LEMMA TargetFields ==
    ASSUME NEW w \in Target
    PROVE  /\ w.subs \in Seq(Sub) /\ w.ports \in Seq(Ports) /\ w.dqs \in Seq(Dq)
           /\ w.pages \in SUBSET Page /\ w.unattached \in SUBSET (Subsystems \X Ports)
           /\ w.retry \in 0..LOG_PAGE_RETRY /\ w.countdown \in (-MANY)..Refresh
           /\ Len(w.subs) \in Nat /\ DOMAIN w.subs = 1..Len(w.subs)
           /\ Len(w.ports) \in Nat /\ DOMAIN w.ports = 1..Len(w.ports)
           /\ Len(w.dqs) \in Nat /\ DOMAIN w.dqs = 1..Len(w.dqs)
           /\ \A i \in DOMAIN w.subs : w.subs[i] \in Sub
           /\ \A i \in DOMAIN w.ports : w.ports[i] \in Ports
           /\ \A i \in DOMAIN w.dqs : w.dqs[i] \in Dq
<1>1. /\ w.subs \in Seq(Sub) /\ w.ports \in Seq(Ports) /\ w.dqs \in Seq(Dq)
      /\ w.pages \in SUBSET Page /\ w.unattached \in SUBSET (Subsystems \X Ports)
      /\ w.retry \in 0..LOG_PAGE_RETRY /\ w.countdown \in (-MANY)..Refresh
  BY DEF Target, Sub, Dq, Page
<1>2. /\ Len(w.subs) \in Nat /\ DOMAIN w.subs = 1..Len(w.subs)
      /\ \A i \in DOMAIN w.subs : w.subs[i] \in Sub
  BY <1>1, LenProperties
<1>3. /\ Len(w.ports) \in Nat /\ DOMAIN w.ports = 1..Len(w.ports)
      /\ \A i \in DOMAIN w.ports : w.ports[i] \in Ports
  BY <1>1, LenProperties
<1>4. /\ Len(w.dqs) \in Nat /\ DOMAIN w.dqs = 1..Len(w.dqs)
      /\ \A i \in DOMAIN w.dqs : w.dqs[i] \in Dq
  BY <1>1, LenProperties
<1> QED BY <1>1, <1>2, <1>3, <1>4

\* No two subsystems of a target have one name, and no two ports one id.
NamesApart(w) == \A i, j \in DOMAIN w.subs : w.subs[i].nqn = w.subs[j].nqn => i = j
PortsApart(w) == \A i, j \in DOMAIN w.ports : w.ports[i] = w.ports[j] => i = j

\* A subsystem is found under its name.
LEMMA SubFound ==
    ASSUME NEW w \in Target, NamesApart(w), NEW k \in DOMAIN w.subs
    PROVE  /\ SelectInSeq(w.subs, LAMBDA s : s.nqn = w.subs[k].nqn) = k
           /\ SubOf(w, w.subs[k].nqn) = w.subs[k]
<1> DEFINE nqn == w.subs[k].nqn
           I   == {i \in 1..Len(w.subs) : w.subs[i].nqn = nqn}
<1>1. DOMAIN w.subs = 1..Len(w.subs) /\ Len(w.subs) \in Nat
  BY TargetFields
<1>2. I = {k}
  BY <1>1 DEF NamesApart
<1>3. Min(I) = k
  BY <1>1, <1>2, MinOf
<1>4. SelectInSeq(w.subs, LAMBDA s : s.nqn = nqn) = Min(I)
  BY <1>2 DEF SelectInSeq
<1> QED BY <1>3, <1>4 DEF SubOf

\* The i-th queue is the first one of a subsystem.
FirstDq(w, nqn, i) ==
    /\ i \in DOMAIN w.dqs /\ w.dqs[i].subsys = nqn
    /\ \A j \in DOMAIN w.dqs : j < i => w.dqs[j].subsys # nqn

\* The search for a queue finds the first one, or there is none.
LEMMA DqFound ==
    ASSUME NEW w \in Target, NEW nqn
    PROVE  /\ DqOf(w, nqn) = 0 => \A i \in DOMAIN w.dqs : w.dqs[i].subsys # nqn
           /\ DqOf(w, nqn) # 0 => FirstDq(w, nqn, DqOf(w, nqn))
<1> DEFINE I == {i \in 1..Len(w.dqs) : w.dqs[i].subsys = nqn}
<1>1. DOMAIN w.dqs = 1..Len(w.dqs) /\ Len(w.dqs) \in Nat
  BY TargetFields
<1>2. DqOf(w, nqn) = IF I # {} THEN Min(I) ELSE 0
  BY DEF DqOf, SelectInSeq
<1>3. I # {} => Min(I) \in I /\ \A j \in I : Min(I) <= j
  <2>1. I \subseteq Nat
    OBVIOUS
  <2> HIDE DEF I
  <2> QED BY <2>1, MinOf
<1>4. CASE I = {}
  BY <1>1, <1>2, <1>4
<1>5. CASE I # {}
  <2>1. DqOf(w, nqn) = Min(I) /\ Min(I) \in I
    BY <1>2, <1>3, <1>5
  <2>2. \A j \in 1..Len(w.dqs) : j < Min(I) => w.dqs[j].subsys # nqn
    BY <1>1, <1>3, <1>5
  <2> QED BY <1>1, <2>1, <2>2 DEF FirstDq
<1> QED BY <1>4, <1>5

(***************************************************************************)
(* Fetching log pages.                                                     *)
(***************************************************************************)
LinkOK == link \in [Ports -> {"up", "down", "mute"}]

HasPage(w, nqn, p) == \E g \in w.pages : g.nqn = nqn /\ g.port = p /\ g.valid

\* The lists of subsystems and ports, and the queues but for their endpoints.
SameLists(v, w) ==
    /\ v.subs = w.subs /\ v.ports = w.ports
    /\ Len(v.dqs) = Len(w.dqs) /\ DOMAIN v.dqs = DOMAIN w.dqs
    /\ \A i \in DOMAIN w.dqs : /\ v.dqs[i].subsys = w.dqs[i].subsys
                               /\ v.dqs[i].port = w.dqs[i].port
                               /\ v.dqs[i].host = w.dqs[i].host

\* The pages of the subsystems that are listed stay.
PagesKept(v, w) == \A n \in Listed(w), p \in Ports : HasPage(w, n, p) => HasPage(v, n, p)

\* save_log_pages keeps pages, and adds those that a queue reports.
LEMMA Saved ==
    ASSUME NEW w \in Target, NEW Q \in SUBSET DOMAIN w.dqs
    PROVE  LET v == save_log_pages(w, Q)
           IN  /\ v \in Target
               /\ v.subs = w.subs /\ v.ports = w.ports /\ v.dqs = w.dqs
               /\ v.retry = w.retry /\ v.countdown = w.countdown
               /\ PagesKept(v, w)
               /\ \A i \in Q, n \in Listed(w), p \in Ports :
                     MayUse(w, n, w.dqs[i].host) => HasPage(v, n, p)
<1> DEFINE Log(i) == RemoteLog(w, w.dqs[i].host)
           log    == UNION {Log(i) : i \in Q}
           Latest(e) == Max({i \in Q : e \in Log(i)})
           Via(e) == w.dqs[Latest(e)].port
           New(e) == [nqn |-> e[1], port |-> e[2], via |-> Via(e), valid |-> TRUE]
           here   == {f \in log : f[1] \in Listed(w)}
           fresh  == {New(e) : e \in here}
           old    == {p \in w.pages : <<p.nqn, p.port>> \notin log}
           rest   == {e \in log : e[1] \notin Listed(w)}
           v      == save_log_pages(w, Q)
<1>1. v = [w EXCEPT !.pages = old \cup fresh, !.unattached = w.unattached \cup rest]
  BY DEF save_log_pages
<1>2. w.pages \in SUBSET Page /\ w.unattached \in SUBSET (Subsystems \X Ports)
      /\ DOMAIN w.dqs = 1..Len(w.dqs) /\ Len(w.dqs) \in Nat
      /\ \A i \in DOMAIN w.dqs : w.dqs[i] \in Dq
  BY TargetFields
<1>3. log \subseteq Subsystems \X Ports
  BY DEF RemoteLog
<1>4. ASSUME NEW e \in here
      PROVE  New(e) \in Page /\ New(e).nqn = e[1] /\ New(e).port = e[2] /\ New(e).valid
  <2> DEFINE T == {i \in Q : e \in Log(i)}
  <2>1. T \subseteq 1..Len(w.dqs) /\ T # {}
    BY <1>2
  <2> HIDE DEF T
  <2>2. Max(T) \in T
    BY <1>2, <2>1, MaxOf
  <2>3. Latest(e) \in DOMAIN w.dqs
    BY <1>2, <2>1, <2>2 DEF T
  <2>4. Via(e) \in Ports
    BY <1>2, <2>3 DEF Dq
  <2> HIDE DEF Via
  <2>5. e[1] \in Subsystems /\ e[2] \in Ports
    BY <1>3
  <2> QED BY <2>4, <2>5 DEF Page
<1> HIDE DEF New, log
<1>5. fresh \in SUBSET Page /\ old \in SUBSET Page
  BY <1>2, <1>4
<1>6. rest \in SUBSET (Subsystems \X Ports)
  BY <1>3
<1>7. ASSUME NEW n \in Listed(w), NEW p \in Ports, <<n, p>> \in log
      PROVE  \E g \in fresh : g.nqn = n /\ g.port = p /\ g.valid
  <2>1. <<n, p>> \in here
    BY <1>7
  <2> QED BY <2>1, <1>4
<1> HIDE DEF fresh, old, rest
<1>8. v \in Target /\ v.pages = old \cup fresh
      /\ v.subs = w.subs /\ v.ports = w.ports /\ v.dqs = w.dqs
      /\ v.retry = w.retry /\ v.countdown = w.countdown
  BY <1>1, <1>2, <1>5, <1>6 DEF Target, Page
<1> HIDE DEF v
<1>9. PagesKept(v, w)
  <2> SUFFICES ASSUME NEW n \in Listed(w), NEW p \in Ports, HasPage(w, n, p)
               PROVE  HasPage(v, n, p)
    BY DEF PagesKept
  <2>1. CASE <<n, p>> \in log
    BY <1>7, <1>8, <2>1 DEF HasPage
  <2>2. CASE <<n, p>> \notin log
    BY <1>8, <2>2 DEF HasPage, old
  <2> QED BY <2>1, <2>2
<1>10. ASSUME NEW i \in Q, NEW n \in Listed(w), NEW p \in Ports, MayUse(w, n, w.dqs[i].host)
       PROVE  HasPage(v, n, p)
  <2>1. n \in Subsystems
    BY TargetFields DEF Listed, Sub
  <2>2. <<n, p>> \in log
    BY <1>10, <2>1 DEF log, RemoteLog
  <2> QED BY <1>7, <1>8, <2>2 DEF HasPage
<1> QED BY <1>8, <1>9, <1>10 DEF v

\* The lookups depend on the lists alone.
LEMMA SameLookups ==
    ASSUME NEW v, NEW w, v.subs = w.subs
    PROVE  /\ Listed(v) = Listed(w)
           /\ \A n : SubOf(v, n) = SubOf(w, n)
           /\ \A n, h : MayUse(v, n, h) = MayUse(w, n, h)
<1>1. Listed(v) = Listed(w) /\ \A n : SubOf(v, n) = SubOf(w, n)
  BY DEF Listed, SubOf
<1> QED BY <1>1 DEF MayUse

\* ConnectAndFetch changes nothing but endpoints and pages, and what the queues
\* that answer report is there.
LEMMA Fetched ==
    ASSUME LinkOK, NEW w \in Target, NEW Q \in SUBSET DOMAIN w.dqs
    PROVE  LET v == ConnectAndFetch(w, Q)
           IN  /\ v \in Target /\ SameLists(v, w) /\ PagesKept(v, w)
               /\ v.retry = w.retry /\ v.countdown = w.countdown
               /\ \A i \in Q, n \in Listed(w), p \in Ports :
                     link[w.dqs[i].port] = "up" /\ MayUse(w, n, w.dqs[i].host)
                         => HasPage(v, n, p)
<1> DEFINE Opened(i) == IF KatoOk /\ i \in Q /\ w.dqs[i].eps < 2 THEN w.dqs[i].eps + 1
                        ELSE w.dqs[i].eps
           New(i) == [w.dqs[i] EXCEPT !.eps = Opened(i)]
           dqs == [i \in DOMAIN w.dqs |-> New(i)]
           u == [w EXCEPT !.dqs = dqs]
           R == {i \in Q : link[w.dqs[i].port] = "up"}
           v == ConnectAndFetch(w, Q)
<1>1. v = save_log_pages(u, R)
  BY DEF ConnectAndFetch
<1>2. DOMAIN w.dqs = 1..Len(w.dqs) /\ Len(w.dqs) \in Nat /\ \A i \in DOMAIN w.dqs : w.dqs[i] \in Dq
  BY TargetFields
<1>3. ASSUME NEW i \in DOMAIN w.dqs
      PROVE  /\ New(i) \in Dq /\ New(i).subsys = w.dqs[i].subsys
             /\ New(i).port = w.dqs[i].port /\ New(i).host = w.dqs[i].host
  <2>1. Opened(i) \in 0..2
    BY <1>2 DEF Dq
  <2> HIDE DEF Opened
  <2> QED BY <1>2, <2>1 DEF Dq
<1> HIDE DEF New
<1>4. dqs \in Seq(Dq) /\ Len(dqs) = Len(w.dqs) /\ DOMAIN dqs = DOMAIN w.dqs
      /\ \A i \in DOMAIN w.dqs : dqs[i] = New(i)
  BY <1>2, <1>3
<1> HIDE DEF dqs
<1>5. u \in Target /\ u.subs = w.subs /\ u.ports = w.ports /\ u.dqs = dqs /\ u.pages = w.pages
      /\ u.retry = w.retry /\ u.countdown = w.countdown
  BY <1>4 DEF Target, Dq
<1> HIDE DEF u
<1>6. R \in SUBSET DOMAIN u.dqs
  BY <1>4, <1>5
<1> HIDE DEF R
<1>7. /\ v \in Target
      /\ v.subs = u.subs /\ v.ports = u.ports /\ v.dqs = u.dqs
      /\ v.retry = u.retry /\ v.countdown = u.countdown
      /\ PagesKept(v, u)
      /\ \A i \in R, n \in Listed(u), p \in Ports :
            MayUse(u, n, u.dqs[i].host) => HasPage(v, n, p)
  BY <1>1, <1>5, <1>6, Saved
<1> HIDE DEF v
<1>8. SameLists(v, w)
  BY <1>3, <1>4, <1>5, <1>7 DEF SameLists
<1>9. Listed(u) = Listed(w) /\ \A n, h : MayUse(u, n, h) = MayUse(w, n, h)
  BY <1>5, SameLookups
<1>10. PagesKept(v, w)
  BY <1>5, <1>7, <1>9 DEF PagesKept, HasPage
<1>11. ASSUME NEW i \in Q, NEW n \in Listed(w), NEW p \in Ports,
              link[w.dqs[i].port] = "up", MayUse(w, n, w.dqs[i].host)
       PROVE  HasPage(v, n, p)
  <2>1. i \in R /\ u.dqs[i].host = w.dqs[i].host
    BY <1>3, <1>4, <1>5, <1>11 DEF R
  <2>2. MayUse(u, n, u.dqs[i].host)
    BY <1>9, <1>11, <2>1
  <2> QED BY <1>7, <1>9, <2>1, <2>2
<1> QED BY <1>5, <1>7, <1>8, <1>10, <1>11 DEF v

\* After refresh_log_pages there are the pages that its queues report.
LEMMA Refreshed ==
    ASSUME LinkOK, NEW w \in Target
    PROVE  LET v == refresh_log_pages(w)
           IN  /\ v \in Target /\ SameLists(v, w) /\ v.countdown = w.countdown
               /\ \A i \in DOMAIN w.dqs, n \in Listed(w), p \in Ports :
                     /\ avilable_dq(w, w.dqs[i]) /\ link[w.dqs[i].port] = "up"
                     /\ MayUse(w, n, w.dqs[i].host)
                     => HasPage(v, n, p)
<1> DEFINE use  == {i \in DOMAIN w.dqs : avilable_dq(w, w.dqs[i])}
           down == {i \in use : link[w.dqs[i].port] = "down"}
           Inv(p) == [p EXCEPT !.valid = FALSE]
           pages == {Inv(p) : p \in w.pages}
           retry == IF down = {} THEN w.retry ELSE LOG_PAGE_RETRY
           u == [w EXCEPT !.pages = pages, !.unattached = {}, !.retry = retry]
           v == refresh_log_pages(w)
<1>1. [invalidate_log_pages(w) EXCEPT !.retry = IF down = {} THEN @ ELSE LOG_PAGE_RETRY] = u
  BY TargetFields DEF invalidate_log_pages, Target
<1>2. v = ConnectAndFetch(u, use \ down)
  <2> HIDE DEF u, Inv
  <2> QED BY <1>1 DEF refresh_log_pages
<1>3. pages \in SUBSET Page
  <2>1. w.pages \in SUBSET Page
    BY TargetFields
  <2>2. \A p \in Page : Inv(p) \in Page
    BY DEF Page
  <2> HIDE DEF Inv
  <2> QED BY <2>1, <2>2
<1> HIDE DEF pages
<1>4. retry \in 0..LOG_PAGE_RETRY
  BY TargetFields, DiscoveryQueuesAssumption
<1> HIDE DEF retry, use, down
<1>5. u \in Target /\ u.subs = w.subs /\ u.ports = w.ports /\ u.dqs = w.dqs
      /\ u.countdown = w.countdown
  BY <1>3, <1>4 DEF Target, Page
<1> HIDE DEF u
<1>6. use \ down \in SUBSET DOMAIN u.dqs
  BY <1>5 DEF use, down
<1>7. /\ v \in Target /\ SameLists(v, u) /\ v.countdown = u.countdown
      /\ \A i \in use \ down, n \in Listed(u), p \in Ports :
            link[u.dqs[i].port] = "up" /\ MayUse(u, n, u.dqs[i].host) => HasPage(v, n, p)
  BY <1>2, <1>5, <1>6, Fetched
<1> HIDE DEF v
<1>8. SameLists(v, w)
  BY <1>5, <1>7 DEF SameLists
<1>9. Listed(u) = Listed(w) /\ \A n, h : MayUse(u, n, h) = MayUse(w, n, h)
  BY <1>5, SameLookups
<1>10. ASSUME NEW i \in DOMAIN w.dqs, NEW n \in Listed(w), NEW p \in Ports,
              avilable_dq(w, w.dqs[i]), link[w.dqs[i].port] = "up",
              MayUse(w, n, w.dqs[i].host)
       PROVE  HasPage(v, n, p)
  <2>1. i \in use \ down
    BY <1>10 DEF use, down
  <2> QED BY <1>5, <1>7, <1>9, <1>10, <2>1
<1> QED BY <1>5, <1>7, <1>8, <1>10 DEF v

(***************************************************************************)
(* Creating discovery queues.                                              *)
(***************************************************************************)
\* The queues of w are the first ones of v.
Grows(v, w) ==
    /\ v \in Target /\ v.subs = w.subs /\ v.ports = w.ports
    /\ Len(v.dqs) >= Len(w.dqs)
    /\ \A i \in DOMAIN w.dqs : /\ v.dqs[i].subsys = w.dqs[i].subsys
                               /\ v.dqs[i].port = w.dqs[i].port
                               /\ v.dqs[i].host = w.dqs[i].host
    /\ PagesKept(v, w)

\* One queue was added, and if its port answers, what it reports is there.
Added(v, w, subsys, p, h) ==
    /\ Len(v.dqs) = Len(w.dqs) + 1
    /\ v.dqs[Len(v.dqs)].subsys = subsys
    /\ v.dqs[Len(v.dqs)].port = p
    /\ v.dqs[Len(v.dqs)].host = h
    /\ link[p] = "up" => \A n \in Listed(w), q \in Ports : MayUse(w, n, h) => HasPage(v, n, q)

\* A new queue is added last, and read if its port can be reached.
LEMMA Appended ==
    ASSUME LinkOK, NEW w \in Target, NEW dq \in Dq
    PROVE  LET u == [w EXCEPT !.dqs = Append(@, dq)]
               v == IF link[dq.port] = "down" THEN u ELSE ConnectAndFetch(u, {Len(u.dqs)})
           IN  Grows(v, w) /\ Added(v, w, dq.subsys, dq.port, dq.host)
<1> DEFINE u == [w EXCEPT !.dqs = Append(@, dq)]
           c == ConnectAndFetch(u, {Len(u.dqs)})
<1>1. w.dqs \in Seq(Dq) /\ DOMAIN w.dqs = 1..Len(w.dqs) /\ Len(w.dqs) \in Nat
  BY TargetFields
<1>2. /\ Append(w.dqs, dq) \in Seq(Dq) /\ Len(Append(w.dqs, dq)) = Len(w.dqs) + 1
      /\ \A i \in 1..Len(w.dqs) : Append(w.dqs, dq)[i] = w.dqs[i]
      /\ Append(w.dqs, dq)[Len(w.dqs) + 1] = dq
  BY <1>1, AppendProperties
<1>3. u \in Target /\ u.subs = w.subs /\ u.ports = w.ports /\ u.dqs = Append(w.dqs, dq)
      /\ u.pages = w.pages
  BY <1>2 DEF Target, Dq
<1>4. /\ Len(u.dqs) = Len(w.dqs) + 1 /\ u.dqs[Len(u.dqs)] = dq
      /\ \A i \in DOMAIN w.dqs : u.dqs[i] = w.dqs[i]
      /\ DOMAIN u.dqs = 1..(Len(w.dqs) + 1)
  BY <1>1, <1>2, <1>3, TargetFields
<1> HIDE DEF u
<1>5. Listed(u) = Listed(w) /\ \A n, h : MayUse(u, n, h) = MayUse(w, n, h)
  BY <1>3, SameLookups
<1>6. Grows(u, w)
  BY <1>1, <1>3, <1>4 DEF Grows, PagesKept, HasPage
<1>7. CASE link[dq.port] = "down"
  BY <1>4, <1>6, <1>7 DEF Added, u
<1>8. CASE link[dq.port] # "down"
  <2>1. {Len(u.dqs)} \in SUBSET DOMAIN u.dqs
    BY <1>1, <1>4
  <2>2. /\ c \in Target /\ SameLists(c, u) /\ PagesKept(c, u)
        /\ \A i \in {Len(u.dqs)}, n \in Listed(u), q \in Ports :
              link[u.dqs[i].port] = "up" /\ MayUse(u, n, u.dqs[i].host) => HasPage(c, n, q)
    BY <1>3, <2>1, Fetched
  <2> HIDE DEF c
  <2>3. Len(u.dqs) \in DOMAIN u.dqs /\ \A i \in DOMAIN w.dqs : i \in DOMAIN u.dqs
    BY <1>1, <1>4
  <2>4. Grows(c, w)
    <3>1. c.subs = w.subs /\ c.ports = w.ports /\ Len(c.dqs) >= Len(w.dqs)
      BY <1>1, <1>3, <1>4, <2>2 DEF SameLists
    <3>2. PagesKept(c, w)
      BY <1>5, <1>6, <2>2 DEF PagesKept, Grows
    <3> QED BY <1>4, <2>2, <2>3, <3>1, <3>2 DEF Grows, SameLists
  <2>5. Added(c, w, dq.subsys, dq.port, dq.host)
    <3>1. Len(c.dqs) = Len(u.dqs)
      BY <2>2 DEF SameLists
    <3>2. /\ c.dqs[Len(c.dqs)].subsys = dq.subsys /\ c.dqs[Len(c.dqs)].port = dq.port
          /\ c.dqs[Len(c.dqs)].host = dq.host
      BY <1>4, <2>2, <2>3, <3>1 DEF SameLists
    <3>3. ASSUME link[dq.port] = "up", NEW n \in Listed(w), NEW q \in Ports, MayUse(w, n, dq.host)
          PROVE  HasPage(c, n, q)
      BY <1>4, <1>5, <2>2, <3>3
    <3> QED BY <1>4, <3>1, <3>2, <3>3 DEF Added
  <2> QED BY <1>8, <2>4, <2>5 DEF c, u
<1> QED BY <1>7, <1>8

\* create_discovery_queue of the shared nqn always adds a queue.
LEMMA SharedCreated ==
    ASSUME LinkOK, NEW w \in Target, NEW p \in Ports
    PROVE  LET v == create_discovery_queue(w, NONE, p)
           IN  Grows(v, w) /\ Added(v, w, NONE, p, shared_nqn)
<1> DEFINE dq == [subsys |-> NONE, port |-> p, eps |-> 0, host |-> shared_nqn]
           u  == [w EXCEPT !.dqs = Append(@, dq)]
<1>1. dq \in Dq /\ dq.subsys = NONE /\ dq.port = p /\ dq.host = shared_nqn
  BY DEF Dq
<1>2. create_discovery_queue(w, NONE, p) =
          IF link[dq.port] = "down" THEN u ELSE ConnectAndFetch(u, {Len(u.dqs)})
  BY DEF create_discovery_queue
<1> HIDE DEF dq
<1> QED BY <1>1, <1>2, Appended

\* When it adds none for a subsystem.
Skips(w, sub, p) == sub.open \/ sub.hosts = <<>> \/ dq_exists(w, sub, p)

\* create_discovery_queue adds one queue for a subsystem, unless it skips it.
LEMMA Created ==
    ASSUME LinkOK, NEW w \in Target, NamesApart(w), NEW k \in DOMAIN w.subs, NEW p \in Ports
    PROVE  LET sub == w.subs[k]
               v   == create_discovery_queue(w, sub.nqn, p)
           IN  /\ Grows(v, w)
               /\ Skips(w, sub, p) => v = w
               /\ ~Skips(w, sub, p) => Added(v, w, sub.nqn, p, sub.hosts[1])
<1> DEFINE sub == w.subs[k]
           v  == create_discovery_queue(w, sub.nqn, p)
           dq == [subsys |-> sub.nqn, port |-> p, eps |-> 0, host |-> sub.hosts[1]]
           u  == [w EXCEPT !.dqs = Append(@, dq)]
<1>1. sub \in Sub
  BY TargetFields
<1>2. sub.nqn # NONE /\ sub.nqn \in Subsystems /\ sub.hosts \in Seq(Hosts)
  BY <1>1, DiscoveryQueuesAssumption DEF Sub
<1>3. SubOf(w, sub.nqn) = sub
  BY SubFound
<1> HIDE DEF sub
<1>4. CASE Skips(w, sub, p)
  <2>1. v = w
    BY <1>2, <1>3, <1>4 DEF create_discovery_queue, Skips
  <2>2. Grows(w, w)
    BY TargetFields DEF Grows, PagesKept
  <2> QED BY <1>4, <2>1, <2>2 DEF sub
<1>5. CASE ~Skips(w, sub, p)
  <2>1. sub.hosts[1] \in Hosts
    BY <1>2, <1>5, EmptySeq, ElementOfSeq DEF Skips
  <2>2. dq \in Dq /\ dq.subsys = sub.nqn /\ dq.port = p /\ dq.host = sub.hosts[1]
    BY <1>2, <2>1 DEF Dq
  <2>3. v = IF link[dq.port] = "down" THEN u ELSE ConnectAndFetch(u, {Len(u.dqs)})
    BY <1>2, <1>3, <1>5 DEF create_discovery_queue, Skips
  <2> HIDE DEF dq
  <2> QED BY <1>5, <2>2, <2>3, Appended DEF sub
<1> QED BY <1>4, <1>5

\* Queues that were first stay first.
LEMMA GrowsOn ==
    ASSUME NEW u \in Target, NEW v, NEW w, Grows(v, u), Grows(w, v)
    PROVE  Grows(w, u)
<1>1. v \in Target /\ w \in Target
  BY DEF Grows
<1>2. /\ DOMAIN u.dqs = 1..Len(u.dqs) /\ Len(u.dqs) \in Nat
      /\ DOMAIN v.dqs = 1..Len(v.dqs) /\ Len(v.dqs) \in Nat
      /\ DOMAIN w.dqs = 1..Len(w.dqs) /\ Len(w.dqs) \in Nat
  BY <1>1, TargetFields
<1>3. DOMAIN u.dqs \subseteq DOMAIN v.dqs /\ Len(w.dqs) >= Len(u.dqs)
  BY <1>2 DEF Grows
<1>4. Listed(v) = Listed(u)
  BY SameLookups DEF Grows
<1>5. PagesKept(w, u)
  BY <1>4 DEF Grows, PagesKept
<1> QED BY <1>3, <1>5 DEF Grows

\* The targets with the lists of w, through which the loops of dem go.
Alike(w) == {v \in Target : v.subs = w.subs /\ v.ports = w.ports}

\* The same for a target on the way.
LEMMA CreatedAlike ==
    ASSUME LinkOK, NEW w \in Target, NamesApart(w), NEW v \in Alike(w),
           NEW k \in DOMAIN w.subs, NEW p \in Ports
    PROVE  LET x == create_discovery_queue(v, w.subs[k].nqn, p)
           IN  /\ x \in Alike(w) /\ Grows(x, v)
               /\ Skips(v, w.subs[k], p) => x = v
               /\ ~Skips(v, w.subs[k], p) => Added(x, v, w.subs[k].nqn, p, w.subs[k].hosts[1])
<1>1. v \in Target /\ v.subs = w.subs /\ v.ports = w.ports
  BY DEF Alike
<1>2. NamesApart(v) /\ k \in DOMAIN v.subs /\ v.subs[k] = w.subs[k]
  BY <1>1 DEF NamesApart
<1> DEFINE x == create_discovery_queue(v, w.subs[k].nqn, p)
<1>3. /\ Grows(x, v)
      /\ Skips(v, w.subs[k], p) => x = v
      /\ ~Skips(v, w.subs[k], p) => Added(x, v, w.subs[k].nqn, p, w.subs[k].hosts[1])
  BY <1>1, <1>2, Created
<1>4. x \in Alike(w)
  BY <1>1, <1>3 DEF Grows, Alike
<1> QED BY <1>3, <1>4

\* The steps of CreateOnPorts.
LEMMA OnPortsSteps ==
    ASSUME LinkOK, NEW w \in Target, NamesApart(w), NEW k \in DOMAIN w.subs
    PROVE  \E f : /\ f[0] = w
                  /\ \A n \in 0..Len(w.ports) : f[n] \in Alike(w)
                  /\ \A n \in 1..Len(w.ports) :
                        f[n] = create_discovery_queue(f[n - 1], w.subs[k].nqn, w.ports[n])
                  /\ CreateOnPorts(w, w.subs[k].nqn) = f[Len(w.ports)]
<1> DEFINE nqn == w.subs[k].nqn
           N == Len(w.ports)
           V == Alike(w)
           g == [n \in 1..N |-> [v \in V |-> create_discovery_queue(v, nqn, w.ports[n])]]
           made[n \in 0..N] ==
               IF n = 0 THEN w ELSE create_discovery_queue(made[n - 1], nqn, w.ports[n])
<1>1. N \in Nat /\ \A n \in 1..N : w.ports[n] \in Ports
  BY TargetFields
<1>2. w \in V
  BY DEF Alike
<1>3. \A n \in 1..N, v \in V : create_discovery_queue(v, nqn, w.ports[n]) \in V
  BY <1>1, CreatedAlike
<1>4. CreateOnPorts(w, nqn) = made[N]
  BY DEF CreateOnPorts
<1> HIDE DEF V, N, nqn
<1>5. g \in [1..N -> [V -> V]]
  BY <1>3
<1>6. PICK f : Iterates(f, N, V, w, g)
  <2> HIDE DEF g
  <2> QED BY <1>1, <1>2, <1>5, Iterate
<1>7. f \in [0..N -> V] /\ f[0] = w /\ \A n \in 1..N : f[n] = g[n][f[n - 1]]
  BY <1>6 DEF Iterates
<1>8. \A n \in 1..N : f[n] = create_discovery_queue(f[n - 1], nqn, w.ports[n])
  <2>1. \A n \in 1..N : n - 1 \in 0..N
    BY <1>1
  <2> QED BY <1>7, <2>1
<1>9. f = [n \in 0..N |-> IF n = 0 THEN w ELSE create_discovery_queue(f[n - 1], nqn, w.ports[n])]
  BY <1>1, <1>7, <1>8
<1>10. made = [n \in 0..N |->
                  IF n = 0 THEN w ELSE create_discovery_queue(made[n - 1], nqn, w.ports[n])]
  <2> HIDE DEF g
  <2> QED BY <1>9
<1> HIDE DEF made, g
<1>11. made[0] = w /\ \A n \in 1..N : made[n] = create_discovery_queue(made[n - 1], nqn, w.ports[n])
  BY <1>1, <1>10
<1> DEFINE S == {n \in Nat : n <= N => made[n] \in V}
<1>12. 0 \in S
  BY <1>2, <1>11
<1>13. ASSUME NEW n \in Nat, n \in S PROVE n + 1 \in S
  <2> SUFFICES ASSUME n + 1 <= N PROVE made[n + 1] \in V
    OBVIOUS
  <2>1. made[n] \in V /\ n + 1 \in 1..N /\ (n + 1) - 1 = n
    BY <1>1, <1>13
  <2> QED BY <1>3, <1>11, <2>1
<1>14. \A n \in 0..N : made[n] \in V
  <2> HIDE DEF S
  <2>1. Nat \subseteq S
    BY <1>12, <1>13, Induct
  <2> QED BY <1>1, <2>1 DEF S
<1> QED BY <1>4, <1>11, <1>14 DEF N, V, nqn

\* All queues of subsystems are on the first port.
FirstPort(w) == \A i \in DOMAIN w.dqs : w.dqs[i].subsys # NONE => w.dqs[i].port = w.ports[1]

Restricted(sub) == ~sub.open /\ sub.hosts # <<>>

\* v is what became of w when queues for a subsystem were created on its first n
\* ports: there is at most one, since dq_exists finds it from then on, and it is
\* on the first port, if all others are.
OneMore(v, w, sub, n) ==
    /\ Grows(v, w)
    /\ \/ Len(v.dqs) = Len(w.dqs)
       \/ /\ Len(v.dqs) = Len(w.dqs) + 1
          /\ Restricted(sub)
          /\ v.dqs[Len(v.dqs)].subsys = sub.nqn
          /\ v.dqs[Len(v.dqs)].host = sub.hosts[1]
          /\ \E m \in 1..n : v.dqs[Len(v.dqs)].port = w.ports[m]
    /\ FirstPort(w) /\ n >= 1 /\ Restricted(sub) =>
          /\ Len(v.dqs) = Len(w.dqs) + 1
          /\ v.dqs[Len(v.dqs)].port = w.ports[1]
          /\ link[w.ports[1]] = "up" => \A m \in Listed(w), q \in Ports :
                 MayUse(w, m, sub.hosts[1]) => HasPage(v, m, q)

\* CreateOnPorts makes one queue more, or none.
LEMMA CreatedOnPorts ==
    ASSUME LinkOK, NEW w \in Target, NamesApart(w), PortsApart(w), NEW k \in DOMAIN w.subs
    PROVE  OneMore(CreateOnPorts(w, w.subs[k].nqn), w, w.subs[k], Len(w.ports))
<1> DEFINE sub == w.subs[k]
           N == Len(w.ports)
<1>1. PICK f : /\ f[0] = w
               /\ \A n \in 0..N : f[n] \in Alike(w)
               /\ \A n \in 1..N : f[n] = create_discovery_queue(f[n - 1], sub.nqn, w.ports[n])
               /\ CreateOnPorts(w, sub.nqn) = f[N]
  BY OnPortsSteps
<1>2. /\ N \in Nat /\ DOMAIN w.ports = 1..N /\ \A n \in 1..N : w.ports[n] \in Ports
      /\ Len(w.dqs) \in Nat /\ DOMAIN w.dqs = 1..Len(w.dqs)
  BY TargetFields
<1>3. sub \in Sub /\ sub.nqn # NONE /\ sub.hosts \in Seq(Hosts)
  BY TargetFields, DiscoveryQueuesAssumption DEF Sub
<1>4. Restricted(sub) => Contains(sub.hosts, sub.hosts[1])
  BY <1>3, EmptySeq DEF Restricted, Contains
<1> DEFINE S == {n \in Nat : n <= N => OneMore(f[n], w, sub, n)}
<1>5. 0 \in S
  <2>1. Grows(w, w)
    BY TargetFields DEF Grows, PagesKept
  <2> QED BY <1>1, <2>1 DEF OneMore
<1>6. ASSUME NEW n \in Nat, n \in S PROVE n + 1 \in S
  <2> DEFINE v == f[n]
             p == w.ports[n + 1]
             x == f[n + 1]
  <2>1. SUFFICES ASSUME n + 1 <= N PROVE OneMore(x, w, sub, n + 1)
    OBVIOUS
  <2>2. n + 1 \in 1..N /\ n \in 0..N /\ (n + 1) - 1 = n /\ p \in Ports
    BY <1>2, <2>1
  <2>3. OneMore(v, w, sub, n) /\ v \in Alike(w)
    BY <1>1, <1>6, <2>1, <2>2
  <2>4. x = create_discovery_queue(v, sub.nqn, p)
    BY <1>1, <2>2
  <2> HIDE DEF v, p, x
  <2>5. /\ x \in Alike(w) /\ Grows(x, v)
        /\ Skips(v, sub, p) => x = v
        /\ ~Skips(v, sub, p) => Added(x, v, sub.nqn, p, sub.hosts[1])
    BY <2>2, <2>3, <2>4, CreatedAlike
  <2>6. /\ v \in Target /\ v.subs = w.subs /\ DOMAIN v.dqs = 1..Len(v.dqs) /\ Len(v.dqs) \in Nat
        /\ Grows(v, w)
    BY <2>3, TargetFields DEF Alike, OneMore
  <2>7. Grows(x, w)
    BY <2>5, <2>6, GrowsOn
  <2>8. CASE Len(v.dqs) = Len(w.dqs)
    <3>1. FirstPort(w) /\ Restricted(sub) => n = 0
      BY <1>2, <2>3, <2>8 DEF OneMore
    <3>2. ASSUME FirstPort(w), n = 0 PROVE ~dq_exists(v, sub, p)
      BY <1>2, <2>6, <2>8, <3>2 DEF dq_exists, FirstPort, Grows, p
    <3>3. CASE Skips(v, sub, p)
      <4>1. ~(FirstPort(w) /\ Restricted(sub))
        BY <3>1, <3>2, <3>3 DEF Skips, Restricted
      <4> QED BY <2>5, <2>7, <2>8, <3>3, <4>1 DEF OneMore
    <3>4. CASE ~Skips(v, sub, p)
      <4>1. Added(x, v, sub.nqn, p, sub.hosts[1]) /\ Restricted(sub)
        BY <2>5, <3>4 DEF Skips, Restricted
      <4>2. /\ Len(x.dqs) = Len(w.dqs) + 1
            /\ x.dqs[Len(x.dqs)].subsys = sub.nqn /\ x.dqs[Len(x.dqs)].host = sub.hosts[1]
            /\ x.dqs[Len(x.dqs)].port = w.ports[n + 1] /\ n + 1 \in 1..(n + 1)
        BY <2>8, <4>1 DEF Added, p
      <4>3. ASSUME FirstPort(w)
            PROVE  /\ x.dqs[Len(x.dqs)].port = w.ports[1]
                   /\ link[w.ports[1]] = "up" => \A m \in Listed(w), q \in Ports :
                          MayUse(w, m, sub.hosts[1]) => HasPage(x, m, q)
        <5>1. n = 0
          BY <3>1, <4>1, <4>3
        <5>2. p = w.ports[1]
          BY <5>1 DEF p
        <5>3. Listed(v) = Listed(w) /\ \A m, h : MayUse(v, m, h) = MayUse(w, m, h)
          BY <2>6, SameLookups
        <5> QED BY <4>1, <5>2, <5>3 DEF Added
      <4> QED BY <2>7, <4>1, <4>2, <4>3 DEF OneMore
    <3> QED BY <3>3, <3>4
  <2>9. CASE Len(v.dqs) # Len(w.dqs)
    <3>1. /\ Len(v.dqs) = Len(w.dqs) + 1 /\ Restricted(sub)
          /\ v.dqs[Len(v.dqs)].subsys = sub.nqn /\ v.dqs[Len(v.dqs)].host = sub.hosts[1]
      BY <2>3, <2>9 DEF OneMore
    <3>2. PICK m \in 1..n : v.dqs[Len(v.dqs)].port = w.ports[m]
      BY <2>3, <2>9 DEF OneMore
    <3>3. w.ports[m] # p
      BY SMTT(30), <1>2, <2>1, <2>2, <3>2 DEF PortsApart, p
    <3>4. Len(v.dqs) \in DOMAIN v.dqs
      BY <1>2, <2>6, <3>1
    <3>5. dq_exists(v, sub, p)
      BY <1>3, <1>4, <3>1, <3>2, <3>3, <3>4 DEF dq_exists
    <3>6. x = v
      BY <2>5, <3>5 DEF Skips
    <3>7. n >= 1 /\ m \in 1..(n + 1)
      BY <3>2
    <3> QED BY <2>3, <2>9, <3>1, <3>2, <3>6, <3>7 DEF OneMore
  <2> QED BY <2>8, <2>9
<1> HIDE DEF S
<1>7. N \in S
  BY <1>2, <1>5, <1>6, Induct
<1> QED BY <1>1, <1>2, <1>7 DEF S

(***************************************************************************)
(* Starting dem.                                                           *)
(***************************************************************************)
\* A subsystem has at most one queue.
Single(w) == \A i, j \in DOMAIN w.dqs :
                 w.dqs[i].subsys # NONE /\ w.dqs[i].subsys = w.dqs[j].subsys => i = j

\* The i-th queue is one of the shared nqn, or of the k-th subsystem under the
\* nqn of one of its hosts.
Serves(w, i, k) ==
    w.dqs[i].subsys = w.subs[k].nqn /\ Contains(w.subs[k].hosts, w.dqs[i].host)

\* How far init_targets is: it has created the queues of n - 1 ports, and of the
\* n-th port the shared one and those of m subsystems.
Placed(w, n, m) ==
    \A i \in DOMAIN w.dqs : \E j \in 1..n :
        /\ w.dqs[i].port = w.ports[j]
        /\ w.dqs[i].subsys # NONE =>
               \E k \in DOMAIN w.subs : Serves(w, i, k) /\ (j = n => k <= m)

Manned(w, n, m) ==
    \A k \in DOMAIN w.subs : (n >= 2 \/ k <= m) /\ Restricted(w.subs[k]) =>
        \E i \in DOMAIN w.dqs : Serves(w, i, k)

Paged(w, n, m) ==
    link[w.ports[1]] = "up" =>
        \A k \in DOMAIN w.subs :
            (n >= 2 \/ k <= m \/ w.subs[k].open) /\ Usable(w.subs[k]) =>
                \A p \in Ports : HasPage(w, w.subs[k].nqn, p)

Part(w, n, m) ==
    /\ Placed(w, n, m) /\ Single(w) /\ FirstPort(w)
    /\ \E i \in DOMAIN w.dqs : w.dqs[i].subsys = NONE
    /\ Manned(w, n, m) /\ Paged(w, n, m)

\* The next subsystem of a port.
LEMMA PartStep ==
    ASSUME LinkOK, NEW v \in Target, NamesApart(v), PortsApart(v),
           NEW n \in DOMAIN v.ports, NEW m \in Nat, m + 1 \in DOMAIN v.subs, Part(v, n, m)
    PROVE  LET x == create_discovery_queue(v, v.subs[m + 1].nqn, v.ports[n])
           IN  x \in Alike(v) /\ Part(x, n, m + 1)
<1> DEFINE sub == v.subs[m + 1]
           p == v.ports[n]
           x == create_discovery_queue(v, sub.nqn, p)
<1>1. /\ DOMAIN v.ports = 1..Len(v.ports) /\ Len(v.ports) \in Nat /\ p \in Ports
      /\ DOMAIN v.dqs = 1..Len(v.dqs) /\ Len(v.dqs) \in Nat
      /\ DOMAIN v.subs = 1..Len(v.subs) /\ Len(v.subs) \in Nat
      /\ \A k \in DOMAIN v.subs : v.subs[k] \in Sub /\ v.subs[k].nqn # NONE
  <2>1. \A k \in DOMAIN v.subs : v.subs[k] \in Sub
    BY TargetFields
  <2>2. \A k \in DOMAIN v.subs : v.subs[k].nqn # NONE
    BY <2>1, DiscoveryQueuesAssumption DEF Sub
  <2> QED BY <2>1, <2>2, TargetFields
<1>2. v \in Alike(v) /\ n \in Nat /\ n >= 1
  BY <1>1 DEF Alike
<1>3. /\ x \in Alike(v) /\ Grows(x, v)
      /\ Skips(v, sub, p) => x = v
      /\ ~Skips(v, sub, p) => Added(x, v, sub.nqn, p, sub.hosts[1])
  BY <1>1, <1>2, CreatedAlike
<1>4. x \in Target /\ x.subs = v.subs /\ x.ports = v.ports
  BY <1>3 DEF Alike
<1>5. DOMAIN x.dqs = 1..Len(x.dqs) /\ Len(x.dqs) \in Nat
  BY <1>4, TargetFields
<1> HIDE DEF x
<1>6. n = 1 => ~dq_exists(v, sub, p)
  BY DEF Part, FirstPort, dq_exists
<1>7. CASE Skips(v, sub, p)
  <2>1. x = v
    BY <1>3, <1>7
  <2>2. Restricted(sub) => n >= 2
    BY <1>2, <1>6, <1>7 DEF Skips, Restricted
  <2>3. Placed(v, n, m + 1)
    <3> SUFFICES ASSUME NEW i \in DOMAIN v.dqs
                 PROVE  \E j \in 1..n :
                            /\ v.dqs[i].port = v.ports[j]
                            /\ v.dqs[i].subsys # NONE =>
                                  \E k \in DOMAIN v.subs : Serves(v, i, k) /\ (j = n => k <= m + 1)
      BY DEF Placed
    <3>1. PICK j \in 1..n :
              /\ v.dqs[i].port = v.ports[j]
              /\ v.dqs[i].subsys # NONE =>
                    \E k \in DOMAIN v.subs : Serves(v, i, k) /\ (j = n => k <= m)
      BY DEF Part, Placed
    <3>2. \A k \in DOMAIN v.subs : k <= m => k <= m + 1
      BY <1>1
    <3> QED BY <3>1, <3>2
  <2>4. \A k \in DOMAIN v.subs : k <= m + 1 => k <= m \/ v.subs[k] = sub
    BY <1>1
  <2>5. Manned(v, n, m + 1)
    BY <2>2, <2>4 DEF Part, Manned
  <2>6. Usable(sub) => sub.open \/ Restricted(sub)
    BY DEF Usable, Restricted
  <2>7. Paged(v, n, m + 1)
    BY <2>2, <2>4, <2>6 DEF Part, Paged
  <2> QED BY <1>3, <2>1, <2>3, <2>5, <2>7 DEF Part, x
<1>8. CASE ~Skips(v, sub, p)
  <2> DEFINE e == Len(v.dqs) + 1
  <2>1. Added(x, v, sub.nqn, p, sub.hosts[1]) /\ Restricted(sub) /\ ~dq_exists(v, sub, p)
    BY <1>3, <1>8 DEF Skips, Restricted
  <2>2. /\ DOMAIN x.dqs = 1..e /\ e \in DOMAIN x.dqs
        /\ x.dqs[e].subsys = sub.nqn /\ x.dqs[e].port = p /\ x.dqs[e].host = sub.hosts[1]
        /\ DOMAIN x.dqs = DOMAIN v.dqs \cup {e}
    BY <1>1, <1>5, <2>1 DEF Added
  <2>3. \A i \in DOMAIN v.dqs : /\ i \in DOMAIN x.dqs /\ i # e
                                /\ x.dqs[i].subsys = v.dqs[i].subsys
                                /\ x.dqs[i].port = v.dqs[i].port
                                /\ x.dqs[i].host = v.dqs[i].host
    BY SMTT(30), <1>1, <1>3, <2>2 DEF Grows
  <2> HIDE DEF e
  <2>4. Contains(sub.hosts, sub.hosts[1])
    BY <1>1, <2>1, EmptySeq DEF Restricted, Contains, Sub
  <2>5. Serves(x, e, m + 1)
    BY <1>4, <2>2, <2>4 DEF Serves
  <2>6. \A i \in DOMAIN v.dqs, k \in DOMAIN v.subs : Serves(v, i, k) => Serves(x, i, k)
    BY <1>4, <2>3 DEF Serves
  <2>7. Placed(x, n, m + 1)
    <3> SUFFICES ASSUME NEW i \in DOMAIN x.dqs
                 PROVE  \E j \in 1..n :
                            /\ x.dqs[i].port = x.ports[j]
                            /\ x.dqs[i].subsys # NONE =>
                                  \E k \in DOMAIN x.subs : Serves(x, i, k) /\ (j = n => k <= m + 1)
      BY DEF Placed
    <3>1. CASE i = e
      <4>1. n \in 1..n /\ x.dqs[i].port = x.ports[n] /\ m + 1 \in DOMAIN x.subs /\ m + 1 <= m + 1
        BY <1>2, <1>4, <2>2, <3>1
      <4> QED BY <2>5, <3>1, <4>1
    <3>2. CASE i \in DOMAIN v.dqs
      <4>1. PICK j \in 1..n :
                /\ v.dqs[i].port = v.ports[j]
                /\ v.dqs[i].subsys # NONE =>
                      \E k \in DOMAIN v.subs : Serves(v, i, k) /\ (j = n => k <= m)
        BY <3>2 DEF Part, Placed
      <4>2. \A k \in DOMAIN v.subs : k <= m => k <= m + 1
        BY <1>1
      <4> QED BY <1>4, <2>3, <2>6, <3>2, <4>1, <4>2
    <3> QED BY <2>2, <3>1, <3>2
  <2>8. ASSUME NEW i \in DOMAIN v.dqs, v.dqs[i].subsys = sub.nqn PROVE FALSE
    <3>1. sub.nqn # NONE
      BY <1>1
    <3>2. PICK j \in 1..n : /\ v.dqs[i].port = v.ports[j]
                            /\ \E k \in DOMAIN v.subs : Serves(v, i, k) /\ (j = n => k <= m)
      BY <2>8, <3>1 DEF Part, Placed
    <3>3. PICK k \in DOMAIN v.subs : Serves(v, i, k) /\ (j = n => k <= m)
      BY <3>2
    <3>4. k = m + 1
      BY <2>8, <3>3 DEF Serves, NamesApart
    <3>5. j # n
      BY <3>3, <3>4
    <3>6. v.ports[j] # p
      BY SMTT(30), <1>1, <3>5 DEF PortsApart
    <3>7. dq_exists(v, sub, p)
      BY <2>8, <3>1, <3>2, <3>3, <3>4, <3>6 DEF dq_exists, Serves
    <3> QED BY <2>1, <3>7
  <2>9. Single(x)
    BY <2>2, <2>3, <2>8 DEF Part, Single
  <2>10. n = 1
    <3> SUFFICES ASSUME n >= 2 PROVE FALSE
      BY <1>2
    <3>1. PICK i \in DOMAIN v.dqs : Serves(v, i, m + 1)
      BY <2>1 DEF Part, Manned
    <3>2. v.dqs[i].subsys = sub.nqn
      BY <3>1 DEF Serves
    <3> QED BY <2>8, <3>2
  <2>11. FirstPort(x)
    BY <1>4, <2>2, <2>3, <2>10 DEF Part, FirstPort
  <2>12. \E i \in DOMAIN x.dqs : x.dqs[i].subsys = NONE
    BY <2>3 DEF Part
  <2>13. \A k \in DOMAIN v.subs : k <= m + 1 => k <= m \/ k = m + 1
    BY <1>1
  <2>14. Manned(x, n, m + 1)
    <3> SUFFICES ASSUME NEW k \in DOMAIN v.subs, k <= m + 1, Restricted(v.subs[k])
                 PROVE  \E i \in DOMAIN x.dqs : Serves(x, i, k)
      BY <1>4, <2>10 DEF Manned
    <3>1. CASE k = m + 1
      BY <2>2, <2>5, <3>1
    <3>2. CASE k <= m
      <4>1. PICK i \in DOMAIN v.dqs : Serves(v, i, k)
        BY <3>2 DEF Part, Manned
      <4> QED BY <2>3, <2>6, <4>1
    <3> QED BY <2>13, <3>1, <3>2
  <2>15. Paged(x, n, m + 1)
    <3> SUFFICES ASSUME link[v.ports[1]] = "up", NEW k \in DOMAIN v.subs,
                        k <= m + 1 \/ v.subs[k].open, Usable(v.subs[k]), NEW q \in Ports
                 PROVE  HasPage(x, v.subs[k].nqn, q)
      BY <1>4, <2>10 DEF Paged
    <3>1. v.subs[k].nqn \in Listed(v)
      BY DEF Listed
    <3>2. CASE k <= m \/ v.subs[k].open
      <4>1. HasPage(v, v.subs[k].nqn, q)
        BY <3>2 DEF Part, Paged
      <4> QED BY <1>3, <3>1, <4>1 DEF Grows, PagesKept
    <3>3. CASE k = m + 1
      <4>1. SubOf(v, sub.nqn) = sub
        BY SubFound
      <4>2. MayUse(v, sub.nqn, sub.hosts[1])
        BY <2>4, <4>1 DEF MayUse
      <4>3. link[p] = "up"
        BY <2>10
      <4> QED BY <2>1, <3>1, <3>3, <4>2, <4>3 DEF Added
    <3> QED BY <2>13, <3>2, <3>3
  <2> QED BY <1>3, <2>7, <2>9, <2>11, <2>12, <2>14, <2>15 DEF Part, x
<1> QED BY <1>7, <1>8

\* Where a port begins: nothing is there yet, or the port before it is done.
Begun(w, n) == (n = 1 /\ w.dqs = <<>>) \/ (n >= 2 /\ Part(w, n - 1, Len(w.subs)))

\* The queue of the shared nqn comes first.
LEMMA PartBegin ==
    ASSUME LinkOK, NEW v \in Target, NamesApart(v), PortsApart(v),
           NEW n \in DOMAIN v.ports, Begun(v, n)
    PROVE  LET x == create_discovery_queue(v, NONE, v.ports[n])
           IN  x \in Alike(v) /\ Part(x, n, 0)
<1> DEFINE p == v.ports[n]
           x == create_discovery_queue(v, NONE, p)
           e == Len(v.dqs) + 1
<1>1. /\ DOMAIN v.ports = 1..Len(v.ports) /\ Len(v.ports) \in Nat /\ p \in Ports
      /\ DOMAIN v.dqs = 1..Len(v.dqs) /\ Len(v.dqs) \in Nat
      /\ DOMAIN v.subs = 1..Len(v.subs) /\ Len(v.subs) \in Nat
      /\ \A k \in DOMAIN v.subs : v.subs[k] \in Sub
  BY TargetFields
<1>2. Grows(x, v) /\ Added(x, v, NONE, p, shared_nqn)
  BY <1>1, SharedCreated
<1> HIDE DEF x
<1>3. x \in Target /\ x.subs = v.subs /\ x.ports = v.ports /\ x \in Alike(v)
  BY <1>2 DEF Grows, Alike
<1>4. DOMAIN x.dqs = 1..Len(x.dqs) /\ Len(x.dqs) \in Nat
  BY <1>3, TargetFields
<1>5. /\ e \in DOMAIN x.dqs /\ x.dqs[e].subsys = NONE /\ x.dqs[e].port = p
      /\ DOMAIN x.dqs = DOMAIN v.dqs \cup {e}
  BY <1>1, <1>2, <1>4 DEF Added
<1>6. \A i \in DOMAIN v.dqs : /\ i \in DOMAIN x.dqs /\ i # e
                              /\ x.dqs[i].subsys = v.dqs[i].subsys
                              /\ x.dqs[i].port = v.dqs[i].port
                              /\ x.dqs[i].host = v.dqs[i].host
  BY <1>1, <1>2, <1>5 DEF Grows
<1> HIDE DEF e
<1>7. \A i \in DOMAIN v.dqs, k \in DOMAIN v.subs : Serves(v, i, k) => Serves(x, i, k)
  BY <1>3, <1>6 DEF Serves
<1>8. n \in 1..n
  BY <1>1
<1>9. CASE n = 1 /\ v.dqs = <<>>
  <2>1. DOMAIN x.dqs = {e}
    BY <1>5, <1>9
  <2>2. Placed(x, n, 0)
    BY <1>3, <1>5, <1>8, <2>1 DEF Placed
  <2>3. Single(x) /\ FirstPort(x)
    BY <1>5, <2>1 DEF Single, FirstPort
  <2>4. \A k \in DOMAIN v.subs : ~(k <= 0)
    BY <1>1
  <2>5. Manned(x, n, 0)
    BY <1>3, <1>9, <2>4 DEF Manned
  <2>6. Paged(x, n, 0)
    <3> SUFFICES ASSUME link[v.ports[1]] = "up", NEW k \in DOMAIN v.subs, v.subs[k].open,
                        NEW q \in Ports
                 PROVE  HasPage(x, v.subs[k].nqn, q)
      BY <1>3, <1>9, <2>4 DEF Paged
    <3>1. v.subs[k].nqn \in Listed(v) /\ SubOf(v, v.subs[k].nqn) = v.subs[k]
      BY SubFound DEF Listed
    <3>2. MayUse(v, v.subs[k].nqn, shared_nqn)
      BY <3>1 DEF MayUse
    <3> QED BY <1>2, <1>9, <3>1, <3>2 DEF Added
  <2> QED BY <1>3, <1>5, <2>2, <2>3, <2>5, <2>6 DEF Part, x
<1>10. CASE n >= 2 /\ Part(v, n - 1, Len(v.subs))
  <2>1. Placed(x, n, 0)
    <3> SUFFICES ASSUME NEW i \in DOMAIN x.dqs
                 PROVE  \E j \in 1..n :
                            /\ x.dqs[i].port = x.ports[j]
                            /\ x.dqs[i].subsys # NONE =>
                                  \E k \in DOMAIN x.subs : Serves(x, i, k) /\ (j = n => k <= 0)
      BY DEF Placed
    <3>1. CASE i = e
      BY <1>3, <1>5, <1>8, <3>1
    <3>2. CASE i \in DOMAIN v.dqs
      <4>1. PICK j \in 1..(n - 1) :
                /\ v.dqs[i].port = v.ports[j]
                /\ v.dqs[i].subsys # NONE => \E k \in DOMAIN v.subs : Serves(v, i, k)
        BY <1>10, <3>2 DEF Part, Placed
      <4>2. j \in 1..n /\ j # n
        BY <1>1
      <4> QED BY <1>3, <1>6, <1>7, <3>2, <4>1, <4>2
    <3> QED BY <1>5, <3>1, <3>2
  <2>2. Single(x)
    BY <1>5, <1>6, <1>10 DEF Part, Single
  <2>3. FirstPort(x)
    BY <1>3, <1>5, <1>6, <1>10 DEF Part, FirstPort
  <2>4. \A k \in DOMAIN v.subs : k <= Len(v.subs)
    BY <1>1
  <2>5. Manned(x, n, 0)
    <3> SUFFICES ASSUME NEW k \in DOMAIN v.subs, Restricted(v.subs[k])
                 PROVE  \E i \in DOMAIN x.dqs : Serves(x, i, k)
      BY <1>3 DEF Manned
    <3>1. PICK i \in DOMAIN v.dqs : Serves(v, i, k)
      BY <1>10, <2>4 DEF Part, Manned
    <3> QED BY <1>6, <1>7, <3>1
  <2>6. Paged(x, n, 0)
    <3> SUFFICES ASSUME link[v.ports[1]] = "up", NEW k \in DOMAIN v.subs, Usable(v.subs[k]),
                        NEW q \in Ports
                 PROVE  HasPage(x, v.subs[k].nqn, q)
      BY <1>3 DEF Paged
    <3>1. HasPage(v, v.subs[k].nqn, q)
      BY <1>10, <2>4 DEF Part, Paged
    <3>2. v.subs[k].nqn \in Listed(v)
      BY DEF Listed
    <3> QED BY <1>2, <3>1, <3>2 DEF Grows, PagesKept
  <2> QED BY <1>3, <1>5, <2>1, <2>2, <2>3, <2>5, <2>6 DEF Part, x
<1> QED BY <1>9, <1>10 DEF Begun

\* init_discovery_queue goes along the subsystems.
LEMMA PortDone ==
    ASSUME LinkOK, NEW w \in Target, NamesApart(w), PortsApart(w),
           NEW v \in Alike(w), NEW n \in DOMAIN w.ports, Begun(v, n)
    PROVE  LET x == init_discovery_queue(v, w.ports[n])
           IN  x \in Alike(w) /\ Part(x, n, Len(w.subs))
<1> DEFINE p == w.ports[n]
           M == Len(w.subs)
           V == Alike(w)
           s == create_discovery_queue(v, NONE, p)
           Cr(u, m) == create_discovery_queue(u, w.subs[m].nqn, p)
           g == [m \in 1..M |-> [u \in V |-> Cr(u, m)]]
           made[m \in 0..Len(v.subs)] ==
               create_discovery_queue(IF m = 0 THEN v ELSE made[m - 1],
                                      IF m = 0 THEN NONE ELSE v.subs[m].nqn, p)
<1>1. v \in Target /\ v.subs = w.subs /\ v.ports = w.ports /\ NamesApart(v) /\ PortsApart(v)
  BY DEF Alike, NamesApart, PortsApart
<1>2. p \in Ports /\ M \in Nat /\ DOMAIN w.subs = 1..M
  BY TargetFields
<1>3. \A u : u \in Alike(v) => u \in V
  BY <1>1 DEF Alike
<1>4. s \in V /\ Part(s, n, 0)
  BY <1>1, <1>3, PartBegin
<1>5. \A m \in 1..M, u \in V : Cr(u, m) \in V
  BY <1>2, CreatedAlike
<1>6. init_discovery_queue(v, p) = made[M]
  BY <1>1 DEF init_discovery_queue
<1>7. \A f : (f[0] = s /\ \A m \in 1..M : f[m] = Cr(f[m - 1], m)) =>
          \A m \in 0..M : f[m] = create_discovery_queue(IF m = 0 THEN v ELSE f[m - 1],
                                      IF m = 0 THEN NONE ELSE v.subs[m].nqn, p)
  BY <1>1, <1>2
<1> HIDE DEF V, M, p, s
<1>8. g \in [1..M -> [V -> V]]
  BY <1>5
<1>9. PICK f : Iterates(f, M, V, s, g)
  <2> HIDE DEF g
  <2> QED BY <1>2, <1>4, <1>8, Iterate
<1>10. f \in [0..M -> V] /\ f[0] = s /\ \A m \in 1..M : f[m] = Cr(f[m - 1], m)
  <2>1. f \in [0..M -> V] /\ f[0] = s /\ \A m \in 1..M : f[m] = g[m][f[m - 1]]
    BY <1>9 DEF Iterates
  <2>2. \A m \in 1..M : m - 1 \in 0..M
    BY <1>2
  <2> QED BY <2>1, <2>2
<1>11. f = [m \in 0..M |-> create_discovery_queue(IF m = 0 THEN v ELSE f[m - 1],
                                      IF m = 0 THEN NONE ELSE v.subs[m].nqn, p)]
  <2>1. \A m \in 0..M : f[m] = create_discovery_queue(IF m = 0 THEN v ELSE f[m - 1],
                                      IF m = 0 THEN NONE ELSE v.subs[m].nqn, p)
    BY <1>7, <1>10
  <2> QED BY <1>10, <2>1
<1>12. Len(v.subs) = M
  BY <1>1 DEF M
<1>13. made = [m \in 0..M |-> create_discovery_queue(IF m = 0 THEN v ELSE made[m - 1],
                                      IF m = 0 THEN NONE ELSE v.subs[m].nqn, p)]
  <2> HIDE DEF g
  <2> QED BY <1>11, <1>12
<1> HIDE DEF made, g
<1>14. made[0] = s
  BY <1>2, <1>13 DEF s
<1>15. \A m \in 1..M : made[m] = Cr(made[m - 1], m)
  BY <1>1, <1>2, <1>13
<1> DEFINE S == {m \in Nat : m <= M => made[m] \in V /\ Part(made[m], n, m)}
<1>16. 0 \in S
  BY <1>4, <1>14
<1>17. ASSUME NEW m \in Nat, m \in S PROVE m + 1 \in S
  <2> DEFINE u == made[m]
  <2> SUFFICES ASSUME m + 1 <= M PROVE made[m + 1] \in V /\ Part(made[m + 1], n, m + 1)
    OBVIOUS
  <2>1. u \in V /\ Part(u, n, m) /\ m + 1 \in 1..M /\ (m + 1) - 1 = m
    BY <1>2, <1>17
  <2>2. made[m + 1] = Cr(u, m + 1)
    BY <1>15, <2>1
  <2> HIDE DEF u
  <2>3. u \in Target /\ u.subs = w.subs /\ u.ports = w.ports
    BY <2>1 DEF V, Alike
  <2>4. NamesApart(u) /\ PortsApart(u) /\ n \in DOMAIN u.ports /\ m + 1 \in DOMAIN u.subs
    BY <1>2, <2>1, <2>3 DEF NamesApart, PortsApart
  <2>5. Cr(u, m + 1) = create_discovery_queue(u, u.subs[m + 1].nqn, u.ports[n])
    BY <2>3 DEF p
  <2>6. Cr(u, m + 1) \in Alike(u) /\ Part(Cr(u, m + 1), n, m + 1)
    BY <2>1, <2>3, <2>4, <2>5, PartStep
  <2>7. Cr(u, m + 1) \in V
    BY <2>3, <2>6 DEF V, Alike
  <2> QED BY <2>2, <2>6, <2>7
<1> HIDE DEF S
<1>18. M \in S
  BY <1>2, <1>16, <1>17, Induct
<1> QED BY <1>2, <1>6, <1>18 DEF S, V, M, p

\* A subsystem that all hosts may use has no list of hosts (_config_subsys).
OpenToAll(subs) == \A i \in DOMAIN subs : subs[i].open => subs[i].hosts = <<>>

Shape(w) == w \in Target /\ NamesApart(w) /\ PortsApart(w) /\ OpenToAll(w.subs)

\* What the queues of w point to is on its lists.
Points(w) == \A i \in DOMAIN w.dqs : /\ w.dqs[i].subsys \in Listed(w) \cup {NONE}
                                     /\ w.dqs[i].port \in Range(w.ports)

\* There is a queue of the shared nqn, and the first queue of a restricted
\* subsystem is under the nqn of one of its hosts.
Covered(w) ==
    w.ports # <<>> =>
        /\ \E i \in DOMAIN w.dqs : w.dqs[i].subsys = NONE
        /\ \A k \in DOMAIN w.subs : Restricted(w.subs[k]) =>
              \E i \in DOMAIN w.dqs :
                  FirstDq(w, w.subs[k].nqn, i) /\ Contains(w.subs[k].hosts, w.dqs[i].host)

\* Every subsystem that can be used has its pages.
AllPages(w) ==
    w.ports # <<>> => \A k \in DOMAIN w.subs : Usable(w.subs[k]) =>
                          \A p \in Ports : HasPage(w, w.subs[k].nqn, p)

AllUp == \A p \in Ports : link[p] = "up"

\* f is how init_targets goes along the first m ports.
Going(f, m, w) ==
    /\ f \in [0..m -> Alike(w)] /\ f[0] = w
    /\ \A n \in 0..m : Begun(f[n], n + 1)
    /\ \A n \in 1..m : f[n] = init_discovery_queue(f[n - 1], w.ports[n])

\* init_targets leaves each restricted subsystem one queue, on the first port,
\* and if the machine is in reach, all pages.
LEMMA StartedRight ==
    ASSUME LinkOK, NEW subs \in Seq(Sub), NEW ports \in Seq(Ports),
           \A i, j \in DOMAIN subs : subs[i].nqn = subs[j].nqn => i = j,
           OpenToAll(subs),
           \A i, j \in DOMAIN ports : ports[i] = ports[j] => i = j
    PROVE  LET x == Started(subs, ports)
           IN  /\ Shape(x) /\ Points(x) /\ Single(x) /\ FirstPort(x) /\ Covered(x)
               /\ AllUp => AllPages(x)
<1> DEFINE w == [subs |-> subs, ports |-> ports, dqs |-> <<>>, pages |-> {},
                 unattached |-> {}, retry |-> LOG_PAGE_RETRY, countdown |-> Refresh]
           N == Len(ports)
           x == Started(subs, ports)
           started[n \in 0..N] ==
               IF n = 0 THEN w ELSE init_discovery_queue(started[n - 1], ports[n])
<1>1. w \in Target /\ w.subs = subs /\ w.ports = ports /\ w.dqs = <<>>
  <2>1. /\ LOG_PAGE_RETRY \in 0..LOG_PAGE_RETRY
        /\ Refresh \in (-MANY)..Refresh
    BY DiscoveryQueuesAssumption
  <2>2. <<>> \in Seq(Dq)
    BY EmptySeq
  <2> QED BY <2>1, <2>2 DEF Target, Sub, Dq
<1>2. N \in Nat /\ DOMAIN ports = 1..N /\ \A n \in 1..N : ports[n] \in Ports
  BY LenProperties
<1>3. x = started[N]
  BY DEF Started
<1> HIDE DEF w, N
<1>4. NamesApart(w) /\ PortsApart(w) /\ w \in Alike(w)
  BY <1>1 DEF NamesApart, PortsApart, Alike
<1> DEFINE Next1(v, n) == init_discovery_queue(v, ports[n])
           Ok == {m \in Nat : m <= N => \E f : Going(f, m, w)}
<1>5. \A n \in 1..N, v \in Alike(w) : Begun(v, n) =>
          Next1(v, n) \in Alike(w) /\ Part(Next1(v, n), n, Len(subs)) /\ Begun(Next1(v, n), n + 1)
  <2> SUFFICES ASSUME NEW n \in 1..N, NEW v \in Alike(w), Begun(v, n)
               PROVE  /\ Next1(v, n) \in Alike(w) /\ Part(Next1(v, n), n, Len(subs))
                      /\ Begun(Next1(v, n), n + 1)
    OBVIOUS
  <2>1. n \in DOMAIN w.ports /\ w.ports[n] = ports[n]
    BY <1>1, <1>2
  <2>2. Next1(v, n) \in Alike(w) /\ Part(Next1(v, n), n, Len(w.subs))
    BY <1>1, <1>4, <2>1, PortDone
  <2>3. Next1(v, n).subs = subs
    BY <1>1, <2>2 DEF Alike
  <2>4. n + 1 >= 2 /\ (n + 1) - 1 = n
    BY <1>2
  <2> QED BY <1>1, <2>2, <2>3, <2>4 DEF Begun
<1> HIDE DEF Next1
<1>6. 0 \in Ok
  <2> DEFINE f == [i \in 0..0 |-> w]
  <2>1. f \in [0..0 -> Alike(w)] /\ f[0] = w /\ \A n \in 0..0 : Begun(f[n], n + 1)
    BY <1>1, <1>4 DEF Begun
  <2>2. \A n \in 1..0 : FALSE
    OBVIOUS
  <2> HIDE DEF f
  <2>3. Going(f, 0, w)
    BY <2>1, <2>2 DEF Going
  <2> QED BY <2>3
<1>7. ASSUME NEW m \in Nat, m \in Ok PROVE m + 1 \in Ok
  <2>1. SUFFICES ASSUME m + 1 <= N PROVE \E f : Going(f, m + 1, w)
    OBVIOUS
  <2>a. PICK f : Going(f, m, w)
    <3>1. m <= N
      BY <1>2, <2>1
    <3> QED BY <1>7, <3>1
  <2>2. /\ f \in [0..m -> Alike(w)] /\ f[0] = w
        /\ \A n \in 0..m : Begun(f[n], n + 1)
        /\ \A n \in 1..m : f[n] = Next1(f[n - 1], n)
    BY <1>1, <2>a DEF Going, Next1
  <2>3. m \in 0..m /\ m + 1 \in 1..N
    BY <1>2, <2>1
  <2>4. Next1(f[m], m + 1) \in Alike(w) /\ Begun(Next1(f[m], m + 1), (m + 1) + 1)
    BY <1>5, <2>2, <2>3
  <2> DEFINE h == [i \in 0..(m + 1) |-> IF i = m + 1 THEN Next1(f[m], m + 1) ELSE f[i]]
  <2>5. /\ \A i \in 0..m : i \in 0..(m + 1) /\ i # m + 1 /\ h[i] = f[i]
        /\ h[m + 1] = Next1(f[m], m + 1)
        /\ \A i \in 0..(m + 1) : i \in 0..m \/ i = m + 1
    OBVIOUS
  <2>6. h \in [0..(m + 1) -> Alike(w)]
    BY <2>2, <2>4
  <2> HIDE DEF h
  <2>7. h[0] = w
    BY <2>2, <2>5
  <2>8. \A n \in 0..(m + 1) : Begun(h[n], n + 1)
    BY <2>2, <2>4, <2>5
  <2>9. ASSUME NEW n \in 1..(m + 1) PROVE h[n] = Next1(h[n - 1], n)
    <3>1. n - 1 \in 0..m /\ (n \in 1..m \/ n = m + 1)
      OBVIOUS
    <3>2. CASE n = m + 1
      BY <2>5, <3>1, <3>2
    <3>3. CASE n \in 1..m
      BY <2>2, <2>5, <3>1, <3>3
    <3> QED BY <3>1, <3>2, <3>3
  <2>10. Going(h, m + 1, w)
    BY <1>1, <2>6, <2>7, <2>8, <2>9 DEF Going, Next1
  <2> QED BY <2>10
<1>a. N \in Ok
  <2> HIDE DEF Ok
  <2> QED BY <1>2, <1>6, <1>7, Induct
<1>b. PICK f : Going(f, N, w)
  <2>1. N <= N
    BY <1>2
  <2> QED BY <1>a, <2>1
<1>8. /\ f \in [0..N -> Alike(w)] /\ f[0] = w
      /\ \A n \in 0..N : Begun(f[n], n + 1)
      /\ \A n \in 1..N : f[n] = Next1(f[n - 1], n)
  BY <1>1, <1>b DEF Going, Next1
<1> HIDE DEF Ok
<1>9. f = [n \in 0..N |-> IF n = 0 THEN w ELSE Next1(f[n - 1], n)]
  BY <1>2, <1>8
<1>10. started = [n \in 0..N |-> IF n = 0 THEN w ELSE Next1(started[n - 1], n)]
  BY <1>9 DEF Next1
<1> HIDE DEF started
<1>11. started[0] = w /\ \A n \in 1..N : started[n] = Next1(started[n - 1], n)
  BY <1>2, <1>10
<1> DEFINE S == {n \in Nat : n <= N => started[n] \in Alike(w) /\ Begun(started[n], n + 1)}
<1>12. 0 \in S
  BY <1>1, <1>4, <1>11 DEF Begun
<1>13. ASSUME NEW n \in Nat, n \in S PROVE n + 1 \in S
  <2> SUFFICES ASSUME n + 1 <= N
               PROVE  started[n + 1] \in Alike(w) /\ Begun(started[n + 1], (n + 1) + 1)
    OBVIOUS
  <2>1. n + 1 \in 1..N /\ (n + 1) - 1 = n /\ started[n] \in Alike(w) /\ Begun(started[n], n + 1)
    BY <1>2, <1>13
  <2> QED BY <1>5, <1>11, <2>1
<1> HIDE DEF S
<1>14. x \in Alike(w) /\ Begun(x, N + 1)
  <2>1. N \in S
    BY <1>2, <1>12, <1>13, Induct
  <2> QED BY <1>2, <1>3, <2>1 DEF S
<1> HIDE DEF x
<1>15. x \in Target /\ x.subs = subs /\ x.ports = ports /\ Shape(x)
  BY <1>1, <1>14 DEF Alike, Shape, NamesApart, PortsApart
<1>16. /\ DOMAIN x.dqs = 1..Len(x.dqs) /\ Len(x.dqs) \in Nat
       /\ DOMAIN x.subs = 1..Len(x.subs) /\ Len(x.subs) \in Nat
  BY <1>15, TargetFields
<1>17. CASE ports = <<>>
  <2>1. N = 0
    BY <1>17 DEF N
  <2>2. x.dqs = <<>> /\ x.ports = <<>>
    BY <1>14, <1>15, <1>17, <2>1 DEF Begun
  <2> QED BY <1>15, <2>2 DEF Points, Single, FirstPort, Covered, AllPages, x
<1>18. CASE ports # <<>>
  <2>1. N # 0 /\ N + 1 # 1 /\ (N + 1) - 1 = N
    BY <1>2, <1>18, EmptySeq DEF N
  <2>2. Part(x, N, Len(x.subs))
    BY <1>14, <2>1 DEF Begun
  <2>3. Single(x) /\ FirstPort(x) /\ \E i \in DOMAIN x.dqs : x.dqs[i].subsys = NONE
    BY <2>2 DEF Part
  <2>4. Points(x)
    <3> SUFFICES ASSUME NEW i \in DOMAIN x.dqs
                 PROVE  /\ x.dqs[i].subsys \in Listed(x) \cup {NONE}
                        /\ x.dqs[i].port \in Range(x.ports)
      BY DEF Points
    <3>1. PICK j \in 1..N :
              /\ x.dqs[i].port = x.ports[j]
              /\ x.dqs[i].subsys # NONE => \E k \in DOMAIN x.subs : Serves(x, i, k)
      BY <2>2 DEF Part, Placed
    <3> QED BY <1>2, <1>15, <3>1 DEF Serves, Listed, Range
  <2>5. ASSUME NEW k \in DOMAIN x.subs PROVE k <= Len(x.subs) /\ x.subs[k].nqn # NONE
    <3>1. x.subs[k] \in Sub
      BY <1>15, TargetFields
    <3>2. x.subs[k].nqn # NONE
      BY <3>1, DiscoveryQueuesAssumption DEF Sub
    <3> QED BY <1>16, <3>2
  <2>6. ASSUME NEW k \in DOMAIN x.subs, Restricted(x.subs[k])
        PROVE  \E i \in DOMAIN x.dqs :
                  FirstDq(x, x.subs[k].nqn, i) /\ Contains(x.subs[k].hosts, x.dqs[i].host)
    <3>1. PICK i \in DOMAIN x.dqs : Serves(x, i, k)
      BY <2>2, <2>5, <2>6 DEF Part, Manned
    <3>2. x.dqs[i].subsys = x.subs[k].nqn /\ x.subs[k].nqn # NONE
      BY <2>5, <3>1 DEF Serves
    <3>3. \A j \in DOMAIN x.dqs : j < i => x.dqs[j].subsys # x.subs[k].nqn
      BY SMTT(30), <1>16, <2>3, <3>2 DEF Single
    <3> QED BY <3>1, <3>2, <3>3 DEF FirstDq, Serves
  <2>7. Covered(x)
    BY <2>3, <2>6 DEF Covered
  <2>8. ASSUME AllUp PROVE AllPages(x)
    <3>1. link[x.ports[1]] = "up"
      <4>1. 1 \in 1..N
        BY <1>2, <2>1
      <4> QED BY <1>2, <1>15, <2>8, <4>1 DEF AllUp
    <3> QED BY <2>2, <2>5, <3>1 DEF Part, Paged, AllPages
  <2> QED BY <1>15, <2>3, <2>4, <2>7, <2>8 DEF x
<1> QED BY <1>17, <1>18

(***************************************************************************)
(* Lists that get shorter.                                                 *)
(***************************************************************************)
LEMMA Removed ==
    ASSUME NEW A, NEW s \in Seq(A), NEW i \in 1..Len(s)
    PROVE  LET r == RemoveAt(s, i)
           IN  /\ r \in Seq(A) /\ Len(r) = Len(s) - 1 /\ DOMAIN r = 1..(Len(s) - 1)
               /\ \A j \in DOMAIN r : r[j] = s[IF j < i THEN j ELSE j + 1]
<1> DEFINE a == SubSeq(s, 1, i - 1)
           b == SubSeq(s, i + 1, Len(s))
           r == RemoveAt(s, i)
<1>1. /\ Len(s) \in Nat /\ i \in Nat /\ 1 <= i /\ i <= Len(s) /\ DOMAIN s = 1..Len(s)
      /\ \A j \in 1..Len(s) : s[j] \in A
  BY LenProperties
<1>2. a \in Seq(A) /\ Len(a) = i - 1 /\ \A j \in 1..(i - 1) : a[j] = s[j]
  BY <1>1, SubSeqProperties
<1>3. b \in Seq(A) /\ Len(b) = Len(s) - i /\ \A j \in 1..(Len(s) - i) : b[j] = s[i + j]
  <2> DEFINE m == i + 1
             n == Len(s)
  <2>1. m \in Int /\ n \in Int /\ \A j \in m..n : s[j] \in A
    BY <1>1
  <2>2. /\ n - m + 1 = n - i /\ (IF m <= n THEN n - m + 1 ELSE 0) = n - i
        /\ \A j \in 1..(n - i) : m + j - 1 = i + j
    <3>1. \A k \in Nat : i <= k => /\ k - (i + 1) + 1 = k - i
                                   /\ (IF i + 1 <= k THEN k - (i + 1) + 1 ELSE 0) = k - i
      BY <1>1
    <3>2. \A j \in Nat : (i + 1) + j - 1 = i + j
      BY <1>1
    <3>3. \A j \in 1..(n - i) : j \in Nat
      BY <1>1
    <3> QED BY <1>1, <3>1, <3>2, <3>3
  <2>3. b = SubSeq(s, m, n)
    OBVIOUS
  <2> HIDE DEF m, n, b
  <2>4. /\ SubSeq(s, m, n) \in Seq(A) /\ Len(SubSeq(s, m, n)) = IF m <= n THEN n - m + 1 ELSE 0
        /\ \A j \in 1..(n - m + 1) : SubSeq(s, m, n)[j] = s[m + j - 1]
    BY <2>1, SubSeqProperties
  <2> QED BY <2>2, <2>3, <2>4 DEF n
<1>4. r = a \o b
  BY DEF RemoveAt
<1> HIDE DEF a, b, r
<1>5. /\ r \in Seq(A) /\ Len(r) = Len(a) + Len(b)
      /\ \A j \in 1..Len(r) : r[j] = IF j <= Len(a) THEN a[j] ELSE b[j - Len(a)]
  <2>1. /\ a \o b \in Seq(A) /\ Len(a \o b) = Len(a) + Len(b)
        /\ \A j \in 1..(Len(a) + Len(b)) :
               (a \o b)[j] = IF j <= Len(a) THEN a[j] ELSE b[j - Len(a)]
    BY <1>2, <1>3, ConcatProperties
  <2> QED BY <1>4, <2>1
<1>6. Len(r) = Len(s) - 1 /\ DOMAIN r = 1..(Len(s) - 1)
  BY <1>1, <1>2, <1>3, <1>5, LenProperties
<1>7. ASSUME NEW j \in 1..(Len(s) - 1) PROVE r[j] = s[IF j < i THEN j ELSE j + 1]
  <2>1. CASE j < i
    BY SMTT(30), <1>1, <1>2, <1>5, <1>6, <2>1
  <2>2. CASE ~(j < i)
    <3>1. r[j] = b[j - (i - 1)] /\ j - (i - 1) \in 1..(Len(s) - i) /\ i + (j - (i - 1)) = j + 1
      BY <1>1, <1>2, <1>5, <1>6, <2>2
    <3> QED BY <1>3, <2>2, <3>1
  <2> QED BY <2>1, <2>2
<1> QED BY <1>5, <1>6, <1>7 DEF r

\* What r holds is, in this order, what the first n places of s hold of K: e tells
\* from where.
Picked(r, s, K, n) ==
    /\ \E e \in [1..Len(r) -> 1..n] :
          /\ \A i \in 1..Len(r) : r[i] = s[e[i]] /\ s[e[i]] \in K
          /\ \A i, j \in 1..Len(r) : e[i] = e[j] => i = j
    /\ \A j \in 1..n : s[j] \in K => \E i \in 1..Len(r) : r[i] = s[j]

\* Only keeps what is in K, once for each place that holds it.
LEMMA OnlyPicked ==
    ASSUME NEW A, NEW s \in Seq(A), NEW K
    PROVE  Only(s, K) \in Seq(A) /\ Picked(Only(s, K), s, K, Len(s))
<1> DEFINE N == Len(s)
           V == Seq(A)
           Take(v, n) == IF s[n] \in K THEN Append(v, s[n]) ELSE v
           g == [n \in 1..N |-> [v \in V |-> Take(v, n)]]
           kept[n \in 0..N] ==
               IF n = 0 THEN <<>>
               ELSE IF s[n] \in K THEN Append(kept[n - 1], s[n]) ELSE kept[n - 1]
<1>1. N \in Nat /\ DOMAIN s = 1..N /\ \A n \in 1..N : s[n] \in A
  BY LenProperties
<1>2. Only(s, K) = kept[N]
  BY DEF Only
<1>3. \A n \in 1..N, v \in V : Take(v, n) \in V
  BY <1>1, AppendProperties
<1>4. <<>> \in V
  BY EmptySeq
<1> HIDE DEF N, V
<1>5. g \in [1..N -> [V -> V]]
  BY <1>3
<1>6. PICK f : Iterates(f, N, V, <<>>, g)
  <2> HIDE DEF g
  <2> QED BY <1>1, <1>4, <1>5, Iterate
<1>7. f \in [0..N -> V] /\ f[0] = <<>> /\ \A n \in 1..N : f[n] = Take(f[n - 1], n)
  <2>1. f \in [0..N -> V] /\ f[0] = <<>> /\ \A n \in 1..N : f[n] = g[n][f[n - 1]]
    BY <1>6 DEF Iterates
  <2>2. \A n \in 1..N : n - 1 \in 0..N
    BY <1>1
  <2> QED BY <2>1, <2>2
<1>8. f = [n \in 0..N |-> IF n = 0 THEN <<>>
                          ELSE IF s[n] \in K THEN Append(f[n - 1], s[n]) ELSE f[n - 1]]
  <2>1. \A n \in 0..N : n = 0 \/ n \in 1..N
    BY <1>1
  <2>2. \A n \in 0..N : f[n] = IF n = 0 THEN <<>>
                          ELSE IF s[n] \in K THEN Append(f[n - 1], s[n]) ELSE f[n - 1]
    BY <1>7, <2>1
  <2> QED BY <1>7, <2>2
<1>9. kept = [n \in 0..N |-> IF n = 0 THEN <<>>
                             ELSE IF s[n] \in K THEN Append(kept[n - 1], s[n]) ELSE kept[n - 1]]
  <2> HIDE DEF g
  <2> QED BY <1>8
<1> HIDE DEF kept, g
<1>10. kept[0] = <<>> /\ \A n \in 1..N : kept[n] = Take(kept[n - 1], n)
  <2>1. 0 \in 0..N /\ \A n \in 1..N : n \in 0..N /\ n # 0
    BY <1>1
  <2>2. \A n \in 0..N : kept[n] = IF n = 0 THEN <<>>
                             ELSE IF s[n] \in K THEN Append(kept[n - 1], s[n]) ELSE kept[n - 1]
    BY <1>9
  <2> QED BY <2>1, <2>2
<1> DEFINE S == {n \in Nat : n <= N => kept[n] \in V /\ Picked(kept[n], s, K, n)}
<1>11. 0 \in S
  <2> DEFINE e == [i \in 1..0 |-> 0]
  <2>1. Len(kept[0]) = 0
    BY <1>10
  <2>2. \A i \in 1..0 : FALSE
    OBVIOUS
  <2>3. e \in [1..0 -> 1..0]
    BY <2>2
  <2> HIDE DEF e
  <2>4. Picked(kept[0], s, K, 0)
    BY <2>1, <2>2, <2>3 DEF Picked
  <2> QED BY <1>4, <1>10, <2>4
<1>12. ASSUME NEW n \in Nat, n \in S PROVE n + 1 \in S
  <2> SUFFICES ASSUME n + 1 <= N
               PROVE  kept[n + 1] \in V /\ Picked(kept[n + 1], s, K, n + 1)
    OBVIOUS
  <2> DEFINE r == kept[n]
             L == Len(r)
             x == s[n + 1]
             q == kept[n + 1]
  <2>1. n + 1 \in 1..N /\ (n + 1) - 1 = n /\ r \in V /\ Picked(r, s, K, n)
    BY <1>1, <1>12
  <2>2. q = IF x \in K THEN Append(r, x) ELSE r
    BY <1>10, <2>1
  <2>3. L \in Nat /\ x \in A
    BY <1>1, <2>1, LenProperties DEF V
  <2>4. PICK e \in [1..L -> 1..n] :
          /\ \A i \in 1..L : r[i] = s[e[i]] /\ s[e[i]] \in K
          /\ \A i, j \in 1..L : e[i] = e[j] => i = j
    BY <2>1 DEF Picked
  <2>5. \A j \in 1..n : s[j] \in K => \E i \in 1..L : r[i] = s[j]
    BY <2>1 DEF Picked
  <2>6. \A j \in 1..(n + 1) : j \in 1..n \/ j = n + 1
    OBVIOUS
  <2> HIDE DEF r, q, L
  <2>7. CASE x \notin K
    <3>1. q = r /\ e \in [1..L -> 1..(n + 1)]
      BY <2>2, <2>7, <2>4
    <3>2. \A j \in 1..(n + 1) : s[j] \in K => \E i \in 1..L : r[i] = s[j]
      BY <2>5, <2>6, <2>7
    <3>3. Picked(r, s, K, n + 1)
      BY <2>4, <3>1, <3>2 DEF Picked, L
    <3> QED BY <2>1, <3>1, <3>3 DEF q
  <2>8. CASE x \in K
    <3> DEFINE h == [i \in 1..(L + 1) |-> IF i = L + 1 THEN n + 1 ELSE e[i]]
    <3>1. /\ q \in V /\ Len(q) = L + 1 /\ q[L + 1] = x
          /\ \A i \in 1..L : q[i] = r[i]
      BY <2>1, <2>2, <2>3, <2>8, AppendProperties DEF V, L
    <3>2. \A i \in 1..(L + 1) : i \in 1..L \/ i = L + 1
      BY <2>3
    <3>3. L + 1 \in 1..(L + 1) /\ \A i \in 1..L : i \in 1..(L + 1) /\ i # L + 1
      BY <2>3
    <3>4. h[L + 1] = n + 1 /\ \A i \in 1..L : h[i] = e[i] /\ e[i] \in 1..n
      BY <2>4, <3>3
    <3>5. h \in [1..(L + 1) -> 1..(n + 1)]
      BY <2>4, <3>2
    <3> HIDE DEF h
    <3>6. \A i \in 1..(L + 1) : q[i] = s[h[i]] /\ s[h[i]] \in K
      BY <2>4, <2>8, <3>1, <3>2, <3>4
    <3>7. ASSUME NEW i \in 1..(L + 1), NEW j \in 1..(L + 1), h[i] = h[j] PROVE i = j
      <4>1. \A m \in 1..n : m # n + 1
        OBVIOUS
      <4> QED BY <2>4, <3>2, <3>4, <3>7, <4>1
    <3>8. \A j \in 1..(n + 1) : s[j] \in K => \E i \in 1..(L + 1) : q[i] = s[j]
      BY <2>5, <2>6, <3>1, <3>3
    <3>9. Picked(q, s, K, n + 1)
      BY <3>1, <3>5, <3>6, <3>7, <3>8 DEF Picked
    <3> QED BY <3>1, <3>9 DEF q
  <2> QED BY <2>7, <2>8
<1> HIDE DEF S
<1>13. N \in S
  BY <1>1, <1>11, <1>12, Induct
<1> QED BY <1>1, <1>2, <1>13 DEF S, V, N

(***************************************************************************)
(* The invariant.                                                          *)
(***************************************************************************)
\* The machine is in reach, and its ports stay.
Calm == ops \cap {"port", "fail"} = {}

\* What is true of the queues when an operation is over, but for what a refresh
\* of the log pages brings about.
Queued(w) ==
    /\ Shape(w) /\ Points(w)
    /\ "edit" \notin ops => Single(w)
    /\ Calm => FirstPort(w) /\ Covered(w)

Right(w) == Queued(w) /\ (Calm => AllPages(w))

\* The same but for the subsystem x, which an operation is about.
CoveredBut(w, x) ==
    w.ports # <<>> =>
        /\ \E i \in DOMAIN w.dqs : w.dqs[i].subsys = NONE
        /\ \A k \in DOMAIN w.subs : w.subs[k].nqn # x /\ Restricted(w.subs[k]) =>
              \E i \in DOMAIN w.dqs :
                  FirstDq(w, w.subs[k].nqn, i) /\ Contains(w.subs[k].hosts, w.dqs[i].host)

PagesBut(w, x) ==
    w.ports # <<>> => \A k \in DOMAIN w.subs : w.subs[k].nqn # x /\ Usable(w.subs[k]) =>
                          \A p \in Ports : HasPage(w, w.subs[k].nqn, p)

QueuedBut(w, x) ==
    /\ Shape(w) /\ Points(w)
    /\ "edit" \notin ops => Single(w)
    /\ Calm => FirstPort(w) /\ CoveredBut(w, x)

\* NONE is no subsystem: all but NONE are all.
LEMMA ButNone ==
    ASSUME NEW w
    PROVE  /\ Queued(w) => \A x : QueuedBut(w, x)
           /\ Right(w) /\ Calm => \A x : PagesBut(w, x)
           /\ QueuedBut(w, NONE) => Queued(w)
           /\ QueuedBut(w, NONE) /\ PagesBut(w, NONE) => AllPages(w)
<1>1. /\ Covered(w) => \A x : CoveredBut(w, x)
      /\ AllPages(w) => \A x : PagesBut(w, x)
  BY DEF Covered, CoveredBut, AllPages, PagesBut
<1>2. ASSUME w \in Target
      PROVE  /\ CoveredBut(w, NONE) => Covered(w)
             /\ PagesBut(w, NONE) => AllPages(w)
  <2>1. \A k \in DOMAIN w.subs : w.subs[k].nqn # NONE
    <3>1. \A k \in DOMAIN w.subs : w.subs[k] \in Sub
      BY <1>2, TargetFields
    <3> QED BY <3>1, DiscoveryQueuesAssumption DEF Sub
  <2> QED BY <2>1 DEF Covered, CoveredBut, AllPages, PagesBut
<1> QED BY <1>1, <1>2 DEF Queued, QueuedBut, Right, Shape

Reach == LinkOK /\ (Calm => AllUp)

\* Nothing of this is about endpoints.
LEMMA SameQueuesBut ==
    ASSUME NEW v \in Target, NEW w, NEW x, SameLists(v, w), QueuedBut(w, x)
    PROVE  QueuedBut(v, x)
<1>1. /\ v.subs = w.subs /\ v.ports = w.ports /\ DOMAIN v.dqs = DOMAIN w.dqs
      /\ \A i \in DOMAIN w.dqs : /\ v.dqs[i].subsys = w.dqs[i].subsys
                                 /\ v.dqs[i].port = w.dqs[i].port
                                 /\ v.dqs[i].host = w.dqs[i].host
  BY DEF SameLists
<1>2. Shape(v)
  BY <1>1 DEF QueuedBut, Shape, NamesApart, PortsApart
<1>3. Listed(v) = Listed(w)
  BY <1>1, SameLookups
<1>4. Points(v)
  BY <1>1, <1>3 DEF QueuedBut, Points
<1>5. Single(w) => Single(v)
  BY <1>1 DEF Single
<1>6. FirstPort(w) => FirstPort(v)
  BY <1>1 DEF FirstPort
<1>7. \A n, i : FirstDq(w, n, i) => FirstDq(v, n, i) /\ v.dqs[i].host = w.dqs[i].host
  BY <1>1 DEF FirstDq
<1>8. CoveredBut(w, x) => CoveredBut(v, x)
  BY <1>1, <1>7 DEF CoveredBut
<1> QED BY <1>2, <1>4, <1>5, <1>6, <1>8 DEF QueuedBut

\* The same without an exception.
LEMMA SameQueues ==
    ASSUME NEW v \in Target, NEW w, SameLists(v, w), Queued(w)
    PROVE  Queued(v)
  BY ButNone, SameQueuesBut

\* A refresh reads all queues that it needs.
LEMMA RefreshBut ==
    ASSUME Reach, NEW w, NEW x, QueuedBut(w, x)
    PROVE  LET v == refresh_log_pages(w)
           IN  /\ QueuedBut(v, x) /\ (Calm => PagesBut(v, x))
               /\ v.subs = w.subs /\ v.ports = w.ports /\ v.countdown = w.countdown
<1> DEFINE v == refresh_log_pages(w)
<1>1. LinkOK /\ w \in Target /\ NamesApart(w) /\ Points(w)
  BY DEF Reach, QueuedBut, Shape
<1>2. /\ v \in Target /\ SameLists(v, w) /\ v.countdown = w.countdown
      /\ \A i \in DOMAIN w.dqs, n \in Listed(w), p \in Ports :
            /\ avilable_dq(w, w.dqs[i]) /\ link[w.dqs[i].port] = "up"
            /\ MayUse(w, n, w.dqs[i].host)
            => HasPage(v, n, p)
  BY <1>1, Refreshed
<1> HIDE DEF v
<1>3. QueuedBut(v, x) /\ v.subs = w.subs /\ v.ports = w.ports
  BY <1>2, SameQueuesBut DEF SameLists
<1>4. ASSUME Calm, w.ports # <<>>, NEW k \in DOMAIN w.subs, Usable(w.subs[k]), NEW p \in Ports,
             w.subs[k].nqn # x
      PROVE  HasPage(v, w.subs[k].nqn, p)
  <2> DEFINE nqn == w.subs[k].nqn
  <2>1. nqn \in Listed(w) /\ SubOf(w, nqn) = w.subs[k]
    BY <1>1, SubFound DEF Listed
  <2>2. nqn # NONE
    <3>1. w.subs[k] \in Sub
      BY <1>1, TargetFields
    <3> QED BY <3>1, DiscoveryQueuesAssumption DEF Sub
  <2>3. \A i \in DOMAIN w.dqs : link[w.dqs[i].port] = "up"
    <3>1. \A i \in DOMAIN w.dqs : w.dqs[i].port \in Ports
      BY <1>1, TargetFields DEF Dq
    <3> QED BY <1>4, <3>1 DEF Reach, AllUp
  <2>4. CoveredBut(w, x)
    BY <1>4 DEF QueuedBut
  <2>5. CASE w.subs[k].open
    <3>1. PICK i \in DOMAIN w.dqs : w.dqs[i].subsys = NONE
      BY <1>4, <2>4 DEF CoveredBut
    <3>2. avilable_dq(w, w.dqs[i])
      BY <2>5, <3>1 DEF avilable_dq
    <3>3. MayUse(w, nqn, w.dqs[i].host)
      BY <2>1, <2>5 DEF MayUse
    <3> QED BY <1>2, <2>1, <2>3, <3>2, <3>3
  <2>6. CASE ~w.subs[k].open
    <3>1. Restricted(w.subs[k])
      BY <1>4, <2>6 DEF Restricted, Usable
    <3>2. PICK i \in DOMAIN w.dqs :
              FirstDq(w, nqn, i) /\ Contains(w.subs[k].hosts, w.dqs[i].host)
      BY <1>4, <2>4, <3>1 DEF CoveredBut
    <3>3. w.dqs[i].subsys = nqn
      BY <3>2 DEF FirstDq
    <3>4. avilable_dq(w, w.dqs[i])
      BY <2>1, <2>2, <3>1, <3>3 DEF avilable_dq, Restricted
    <3>5. MayUse(w, nqn, w.dqs[i].host)
      BY <2>1, <3>2 DEF MayUse
    <3> QED BY <1>2, <2>1, <2>3, <3>4, <3>5
  <2> QED BY <2>5, <2>6
<1>5. Calm => PagesBut(v, x)
  BY <1>3, <1>4 DEF PagesBut
<1> QED BY <1>2, <1>3, <1>5 DEF v

\* The same without an exception.
LEMMA RefreshRight ==
    ASSUME Reach, NEW w, Queued(w)
    PROVE  LET v == refresh_log_pages(w)
           IN  Right(v) /\ v.subs = w.subs /\ v.ports = w.ports /\ v.countdown = w.countdown
<1> DEFINE v == refresh_log_pages(w)
<1>1. QueuedBut(w, NONE)
  BY ButNone
<1>2. /\ QueuedBut(v, NONE) /\ (Calm => PagesBut(v, NONE))
      /\ v.subs = w.subs /\ v.ports = w.ports /\ v.countdown = w.countdown
  BY <1>1, RefreshBut
<1> HIDE DEF v
<1>3. Right(v)
  BY <1>2, ButNone DEF Right
<1> QED BY <1>2, <1>3 DEF v

\* Another list of subsystems.
LEMMA WithSubs ==
    ASSUME NEW w \in Target, NEW s \in Seq(Sub)
    PROVE  LET u == [w EXCEPT !.subs = s]
           IN  /\ u \in Target /\ u.subs = s /\ u.ports = w.ports /\ u.dqs = w.dqs
               /\ u.pages = w.pages /\ u.countdown = w.countdown
  BY DEF Target, Sub

\* Another list of queues.
LEMMA WithDqs ==
    ASSUME NEW w \in Target, NEW s \in Seq(Dq)
    PROVE  LET u == [w EXCEPT !.dqs = s]
           IN  /\ u \in Target /\ u.dqs = s /\ u.subs = w.subs /\ u.ports = w.ports
               /\ u.pages = w.pages /\ u.countdown = w.countdown
  BY DEF Target, Dq

(***************************************************************************)
(* The operations.                                                         *)
(***************************************************************************)
\* A new subsystem has no host, and needs no queue but the shared ones.
LEMMA AddSubsysRight ==
    ASSUME Reach, Right(tg), NEW nqn \in Subsystems, NEW open \in BOOLEAN,
           AddSubsys(nqn, open)
    PROVE  Right(tg')
<1> DEFINE new == [nqn |-> nqn, open |-> open, hosts |-> <<>>]
           s == Append(tg.subs, new)
           L == Len(tg.subs)
           u == [tg EXCEPT !.subs = s]
<1>1. tg' = refresh_log_pages(u) /\ nqn \notin Listed(tg)
  BY DEF AddSubsys, Step
<1>2. tg \in Target /\ Queued(tg) /\ NamesApart(tg) /\ PortsApart(tg)
  BY DEF Right, Queued, Shape
<1>3. tg.subs \in Seq(Sub) /\ L \in Nat /\ DOMAIN tg.subs = 1..L
  BY <1>2, TargetFields
<1>4. new \in Sub /\ new.nqn = nqn /\ new.hosts = <<>> /\ ~Restricted(new)
  <2>1. <<>> \in Seq(Hosts)
    BY EmptySeq
  <2> QED BY <2>1 DEF Sub, Restricted
<1> HIDE DEF new
<1>5. /\ s \in Seq(Sub) /\ DOMAIN s = 1..(L + 1) /\ s[L + 1] = new
      /\ \A i \in 1..L : s[i] = tg.subs[i]
  BY <1>3, <1>4, AppendProperties, LenProperties
<1> HIDE DEF s
<1>6. /\ u \in Target /\ u.subs = s /\ u.ports = tg.ports /\ u.dqs = tg.dqs
  BY <1>2, <1>5, WithSubs
<1> HIDE DEF u
<1>7. \A i \in 1..(L + 1) : i \in 1..L \/ i = L + 1
  BY <1>3
<1>8. \A i \in 1..L : tg.subs[i].nqn # nqn
  BY <1>1, <1>3 DEF Listed
<1>9. NamesApart(u)
  BY <1>2, <1>3, <1>4, <1>5, <1>6, <1>7, <1>8 DEF NamesApart
<1>10. Shape(u)
  <2>1. \A i \in DOMAIN s : s[i].hosts = <<>> \/ (i \in DOMAIN tg.subs /\ s[i] = tg.subs[i])
    BY <1>3, <1>4, <1>5, <1>7
  <2>2. OpenToAll(tg.subs)
    BY <1>2 DEF Queued, Shape
  <2>3. OpenToAll(u.subs)
    BY <1>6, <2>1, <2>2 DEF OpenToAll
  <2> QED BY <1>2, <1>6, <1>9, <2>3 DEF Shape, PortsApart
<1>11. \A n \in Listed(tg) : n \in Listed(u)
  <2>1. \A i \in 1..L : i \in DOMAIN s /\ s[i].nqn = tg.subs[i].nqn
    BY <1>3, <1>5
  <2> QED BY <1>3, <1>6, <2>1 DEF Listed
<1>12. Points(u) /\ ("edit" \notin ops => Single(u)) /\ (Calm => FirstPort(u))
  BY <1>2, <1>6, <1>11 DEF Queued, Points, Single, FirstPort
<1>13. \A n, i : FirstDq(tg, n, i) => FirstDq(u, n, i)
  BY <1>6 DEF FirstDq
<1>14. Covered(tg) => Covered(u)
  <2>1. \A k \in DOMAIN u.subs : Restricted(u.subs[k]) => k \in DOMAIN tg.subs /\ u.subs[k] = tg.subs[k]
    BY <1>3, <1>4, <1>5, <1>6, <1>7
  <2> QED BY <1>6, <1>13, <2>1 DEF Covered
<1>15. Queued(u)
  BY <1>2, <1>10, <1>12, <1>14 DEF Queued
<1> QED BY <1>1, <1>15, RefreshRight

\* A refresh that a client asks for.
LEMMA target_refreshRight ==
    ASSUME Reach, Right(tg), target_refresh
    PROVE  Right(tg')
  BY RefreshRight DEF Right, target_refresh, Step

\* A poll only counts, or refreshes.
LEMMA periodic_workRight ==
    ASSUME Reach, Right(tg), periodic_work
    PROVE  Right(tg')
<1> DEFINE w == [tg EXCEPT !.retry = IF @ = 0 THEN 0 ELSE @ - 1]
           count == IF w.countdown > -MANY THEN w.countdown - 1 ELSE w.countdown
           r == refresh_log_pages(w)
           Same(u) == /\ u \in Target /\ u.subs = tg.subs /\ u.ports = tg.ports
                      /\ u.dqs = tg.dqs /\ u.pages = tg.pages
<1>1. \/ tg' = w
      \/ tg' = [w EXCEPT !.countdown = count]
      \/ tg' = [r EXCEPT !.countdown = Refresh]
  BY DEF periodic_work
<1>2. tg \in Target
  BY DEF Right, Queued, Shape
<1>3. tg.retry \in 0..LOG_PAGE_RETRY /\ LOG_PAGE_RETRY \in Nat /\ Refresh \in Nat /\ MANY \in Nat
  BY <1>2, TargetFields, DiscoveryQueuesAssumption
<1>4. (IF tg.retry = 0 THEN 0 ELSE tg.retry - 1) \in 0..LOG_PAGE_RETRY
  BY <1>3
<1>5. Same(w) /\ w.countdown = tg.countdown
  BY <1>2, <1>4 DEF Target
<1>6. tg.countdown \in (-MANY)..Refresh
  BY <1>2, TargetFields
<1> HIDE DEF w
<1>7. count \in (-MANY)..Refresh
  BY <1>3, <1>5, <1>6
<1> HIDE DEF count
<1>8. Same([w EXCEPT !.countdown = count])
  BY <1>5, <1>7 DEF Target
<1>9. ASSUME NEW u, Same(u) PROVE Right(u)
  <2>1. SameLists(u, tg)
    BY <1>9 DEF SameLists
  <2>2. Queued(u)
    BY <1>9, <2>1, SameQueues DEF Right
  <2> QED BY <1>9, <2>2 DEF Right, AllPages, HasPage
<1>10. Right(r)
  <2>1. Right(w)
    BY <1>5, <1>9
  <2> QED BY <2>1, RefreshRight DEF Right
<1> HIDE DEF r
<1>11. Right([r EXCEPT !.countdown = Refresh])
  <2> DEFINE u == [r EXCEPT !.countdown = Refresh]
  <2>1. r \in Target /\ Refresh \in (-MANY)..Refresh
    BY <1>3, <1>10 DEF Right, Queued, Shape
  <2>2. /\ u \in Target /\ u.subs = r.subs /\ u.ports = r.ports
        /\ u.dqs = r.dqs /\ u.pages = r.pages
    BY <2>1 DEF Target
  <2> HIDE DEF u
  <2>3. SameLists(u, r)
    BY <2>2 DEF SameLists
  <2>4. Queued(u)
    BY <1>10, <2>2, <2>3, SameQueues DEF Right
  <2>5. Right(u)
    BY <1>10, <2>2, <2>4 DEF Right, AllPages, HasPage
  <2> QED BY <2>5 DEF u
<1> HIDE DEF Same
<1> QED BY <1>1, <1>5, <1>8, <1>9, <1>11

\* dem starts with the lists it had.
LEMMA RestartRight ==
    ASSUME Reach, Right(tg), Restart
    PROVE  Right(tg')
<1>1. tg' = Started(tg.subs, tg.ports)
  BY DEF Restart, Step
<1>2. tg \in Target /\ NamesApart(tg) /\ PortsApart(tg) /\ OpenToAll(tg.subs) /\ LinkOK
  BY DEF Right, Queued, Shape, Reach
<1>3. tg.subs \in Seq(Sub) /\ tg.ports \in Seq(Ports)
  BY <1>2, TargetFields
<1>4. /\ \A i, j \in DOMAIN tg.subs : tg.subs[i].nqn = tg.subs[j].nqn => i = j
      /\ \A i, j \in DOMAIN tg.ports : tg.ports[i] = tg.ports[j] => i = j
  BY <1>2 DEF NamesApart, PortsApart
<1>5. /\ Shape(tg') /\ Points(tg') /\ Single(tg') /\ FirstPort(tg') /\ Covered(tg')
      /\ AllUp => AllPages(tg')
  BY <1>1, <1>2, <1>3, <1>4, StartedRight
<1> QED BY <1>5 DEF Right, Queued, Reach

\* Another list of ports.
LEMMA WithPorts ==
    ASSUME NEW w \in Target, NEW s \in Seq(Ports)
    PROVE  LET u == [w EXCEPT !.ports = s]
           IN  u \in Target /\ u.ports = s /\ u.subs = w.subs /\ u.dqs = w.dqs
  BY DEF Target

\* A port is added with a queue of the shared nqn, which points to it.
LEMMA set_portidRight ==
    ASSUME Reach, Right(tg), NEW p \in Ports, set_portid(p)
    PROVE  Right(tg')
<1> DEFINE s == IF Contains(tg.ports, p) THEN tg.ports ELSE Append(tg.ports, p)
           L == Len(tg.ports)
           u == [tg EXCEPT !.ports = s]
           v == create_discovery_queue(u, NONE, p)
<1>1. tg' = v /\ ~Calm
  BY DEF set_portid, Step, Calm
<1>2. /\ tg \in Target /\ NamesApart(tg) /\ PortsApart(tg) /\ OpenToAll(tg.subs)
      /\ Points(tg) /\ LinkOK
  BY DEF Right, Queued, Shape, Reach
<1>3. tg.ports \in Seq(Ports) /\ L \in Nat /\ DOMAIN tg.ports = 1..L
  BY <1>2, TargetFields
<1>4. s \in Seq(Ports) /\ p \in Range(s)
      /\ (\A q \in Range(tg.ports) : q \in Range(s))
      /\ (\A i, j \in DOMAIN s : s[i] = s[j] => i = j)
  <2>1. CASE Contains(tg.ports, p)
    <3>1. p \in Range(tg.ports)
      BY <1>3, <2>1 DEF Contains, Range
    <3> QED BY <1>2, <1>3, <2>1, <3>1 DEF PortsApart
  <2>2. CASE ~Contains(tg.ports, p)
    <3>1. /\ s \in Seq(Ports) /\ DOMAIN s = 1..(L + 1) /\ s[L + 1] = p
          /\ \A i \in 1..L : s[i] = tg.ports[i]
      BY <1>3, <2>2, AppendProperties, LenProperties
    <3>2. \A i \in 1..L : tg.ports[i] # p
      BY <1>3, <2>2 DEF Contains
    <3>3. /\ \A i \in 1..(L + 1) : i \in 1..L \/ i = L + 1
          /\ \A i \in 1..L : i \in 1..(L + 1)
          /\ L + 1 \in 1..(L + 1)
      BY <1>3
    <3> HIDE DEF s
    <3>4. p \in Range(s) /\ \A q \in Range(tg.ports) : q \in Range(s)
      BY <1>3, <3>1, <3>3 DEF Range
    <3>5. \A i, j \in DOMAIN s : s[i] = s[j] => i = j
      BY <1>2, <1>3, <3>1, <3>2, <3>3 DEF PortsApart
    <3> QED BY <3>1, <3>4, <3>5
  <2> QED BY <2>1, <2>2
<1> HIDE DEF s
<1>5. u \in Target /\ u.ports = s /\ u.subs = tg.subs /\ u.dqs = tg.dqs
  BY <1>2, <1>4, WithPorts
<1> HIDE DEF u
<1>6. Grows(v, u) /\ Added(v, u, NONE, p, shared_nqn)
  BY <1>2, <1>5, SharedCreated
<1> HIDE DEF v
<1>7. v \in Target /\ v.subs = tg.subs /\ v.ports = s
  BY <1>5, <1>6 DEF Grows
<1>8. Shape(v) /\ Listed(v) = Listed(tg)
  BY <1>2, <1>4, <1>7, SameLookups DEF Shape, NamesApart, PortsApart
<1>9. /\ Len(tg.dqs) \in Nat /\ DOMAIN tg.dqs = 1..Len(tg.dqs)
      /\ DOMAIN v.dqs = 1..(Len(tg.dqs) + 1)
  BY <1>2, <1>5, <1>6, <1>7, TargetFields DEF Added
<1>10. ASSUME NEW i \in DOMAIN v.dqs
       PROVE  \/ /\ i \in DOMAIN tg.dqs /\ v.dqs[i].subsys = tg.dqs[i].subsys
                 /\ v.dqs[i].port = tg.dqs[i].port
              \/ v.dqs[i].subsys = NONE /\ v.dqs[i].port = p
  <2>1. i \in DOMAIN tg.dqs \/ i = Len(tg.dqs) + 1
    BY <1>9
  <2> QED BY <1>5, <1>6, <2>1 DEF Grows, Added
<1>11. Points(v)
  BY <1>2, <1>4, <1>7, <1>8, <1>10 DEF Points
<1>12. Single(tg) => Single(v)
  BY <1>10 DEF Single
<1> QED BY <1>1, <1>8, <1>11, <1>12 DEF Right, Queued

\* A port goes with all of its queues.
LEMMA del_portidRight ==
    ASSUME Reach, Right(tg), NEW p \in Ports, del_portid(p)
    PROVE  Right(tg')
<1> DEFINE K == Ports \ {p}
           J == {d \in Range(tg.dqs) : d.port # p}
           s == Only(tg.ports, K)
           q == Only(tg.dqs, J)
           g == {x \in tg.pages : x.via # p}
           v == [tg EXCEPT !.ports = s, !.dqs = q, !.pages = g]
<1>1. tg' = v /\ ~Calm
  BY DEF del_portid, Step, Calm
<1>2. /\ tg \in Target /\ NamesApart(tg) /\ PortsApart(tg) /\ OpenToAll(tg.subs)
      /\ Points(tg)
  BY DEF Right, Queued, Shape
<1>3. /\ tg.ports \in Seq(Ports) /\ DOMAIN tg.ports = 1..Len(tg.ports)
      /\ tg.dqs \in Seq(Dq) /\ DOMAIN tg.dqs = 1..Len(tg.dqs)
      /\ \A i \in DOMAIN tg.ports : tg.ports[i] \in Ports
      /\ \A i \in DOMAIN tg.dqs : tg.dqs[i] \in Dq
  BY <1>2, TargetFields
<1>4. s \in Seq(Ports) /\ Picked(s, tg.ports, K, Len(tg.ports))
  BY <1>3, OnlyPicked
<1>5. q \in Seq(Dq) /\ Picked(q, tg.dqs, J, Len(tg.dqs))
  BY <1>3, OnlyPicked
<1>6. DOMAIN s = 1..Len(s) /\ DOMAIN q = 1..Len(q)
  BY <1>4, <1>5, LenProperties
<1>7. \A d \in J : d.port # p
  OBVIOUS
<1> HIDE DEF J, s, q
<1>8. v \in Target /\ v.subs = tg.subs /\ v.ports = s /\ v.dqs = q
  BY <1>2, <1>4, <1>5 DEF Target, Dq
<1> HIDE DEF v
<1>9. PICK e \in [1..Len(s) -> 1..Len(tg.ports)] :
          /\ \A i \in 1..Len(s) : s[i] = tg.ports[e[i]] /\ tg.ports[e[i]] \in K
          /\ \A i, j \in 1..Len(s) : e[i] = e[j] => i = j
  BY <1>4 DEF Picked
<1>10. PICK f \in [1..Len(q) -> 1..Len(tg.dqs)] :
          /\ \A i \in 1..Len(q) : q[i] = tg.dqs[f[i]] /\ tg.dqs[f[i]] \in J
          /\ \A i, j \in 1..Len(q) : f[i] = f[j] => i = j
  BY <1>5 DEF Picked
<1>11. PortsApart(v)
  <2> SUFFICES ASSUME NEW i \in 1..Len(s), NEW j \in 1..Len(s), s[i] = s[j] PROVE i = j
    BY <1>6, <1>8 DEF PortsApart
  <2>1. e[i] \in DOMAIN tg.ports /\ e[j] \in DOMAIN tg.ports /\ tg.ports[e[i]] = tg.ports[e[j]]
    BY <1>3, <1>9
  <2> QED BY <1>2, <1>9, <2>1 DEF PortsApart
<1>12. Shape(v) /\ Listed(v) = Listed(tg)
  BY <1>2, <1>8, <1>11, SameLookups DEF Shape, NamesApart
<1>13. Points(v)
  <2> SUFFICES ASSUME NEW i \in 1..Len(q)
               PROVE  q[i].subsys \in Listed(tg) \cup {NONE} /\ q[i].port \in Range(s)
    BY <1>6, <1>8, <1>12 DEF Points
  <2>1. f[i] \in DOMAIN tg.dqs /\ q[i] = tg.dqs[f[i]] /\ q[i].port # p
    BY <1>3, <1>7, <1>10
  <2>2. PICK m \in DOMAIN tg.ports : tg.ports[m] = q[i].port
    BY <1>2, <2>1 DEF Points, Range
  <2>3. tg.ports[m] \in K /\ m \in 1..Len(tg.ports)
    BY <1>3, <2>1, <2>2
  <2>4. \E j \in 1..Len(s) : s[j] = tg.ports[m]
    BY <1>4, <2>3 DEF Picked
  <2> QED BY <1>2, <1>6, <2>1, <2>2, <2>4 DEF Points, Range
<1>14. Single(tg) => Single(v)
  <2> SUFFICES ASSUME Single(tg), NEW i \in 1..Len(q), NEW j \in 1..Len(q),
                      q[i].subsys # NONE, q[i].subsys = q[j].subsys
               PROVE  i = j
    BY <1>6, <1>8 DEF Single
  <2>1. f[i] \in DOMAIN tg.dqs /\ f[j] \in DOMAIN tg.dqs
        /\ q[i] = tg.dqs[f[i]] /\ q[j] = tg.dqs[f[j]]
    BY <1>3, <1>10
  <2> QED BY <1>10, <2>1 DEF Single
<1> QED BY <1>1, <1>12, <1>13, <1>14 DEF Right, Queued

(***************************************************************************)
(* Operations that change one queue.                                       *)
(***************************************************************************)
\* The i-th queue is taken off the list.
LEMMA DqRemoved ==
    ASSUME NEW w \in Target, NEW i \in DOMAIN w.dqs
    PROVE  LET u == [w EXCEPT !.dqs = RemoveAt(@, i)]
           IN  /\ u \in Target /\ u.subs = w.subs /\ u.ports = w.ports /\ u.pages = w.pages
               /\ \A j \in DOMAIN u.dqs : \E m \in DOMAIN w.dqs : m # i /\ u.dqs[j] = w.dqs[m]
               /\ \A x : QueuedBut(w, x) /\ x # NONE /\ w.dqs[i].subsys = x => QueuedBut(u, x)
<1> DEFINE q == RemoveAt(w.dqs, i)
           L == Len(w.dqs)
           From(j) == IF j < i THEN j ELSE j + 1
           u == [w EXCEPT !.dqs = q]
<1>1. w.dqs \in Seq(Dq) /\ L \in Nat /\ DOMAIN w.dqs = 1..L
  BY TargetFields
<1>2. /\ q \in Seq(Dq) /\ DOMAIN q = 1..(L - 1)
      /\ \A j \in 1..(L - 1) : q[j] = w.dqs[From(j)]
  BY <1>1, Removed
<1> HIDE DEF q
<1>3. /\ u \in Target /\ u.dqs = q /\ u.subs = w.subs /\ u.ports = w.ports
      /\ u.pages = w.pages
  BY <1>2, WithDqs
<1>4. /\ \A j \in 1..(L - 1) : From(j) \in 1..L /\ From(j) # i
      /\ \A j, k \in 1..(L - 1) : From(j) = From(k) => j = k
      /\ \A j, k \in 1..(L - 1) : j < k => From(j) < From(k)
      /\ \A m \in 1..L : m # i => \E j \in 1..(L - 1) : From(j) = m
  <2>1. i \in 1..L
    BY <1>1
  <2>2. /\ \A j \in 1..(L - 1) : From(j) \in 1..L /\ From(j) # i
        /\ \A j, k \in 1..(L - 1) : From(j) = From(k) => j = k
        /\ \A j, k \in 1..(L - 1) : j < k => From(j) < From(k)
    BY <1>1, <2>1
  <2>3. ASSUME NEW m \in 1..L, m # i PROVE \E j \in 1..(L - 1) : From(j) = m
    <3>1. CASE m < i
      <4>1. m \in 1..(L - 1) /\ From(m) = m
        BY <1>1, <2>1, <3>1
      <4> QED BY <4>1
    <3>2. CASE ~(m < i)
      <4>1. m - 1 \in 1..(L - 1) /\ From(m - 1) = m
        BY <1>1, <2>1, <2>3, <3>2
      <4> QED BY <4>1
    <3> QED BY <3>1, <3>2
  <2> QED BY <2>2, <2>3
<1> HIDE DEF From, u
<1>5. \A j \in DOMAIN u.dqs : From(j) \in DOMAIN w.dqs /\ From(j) # i /\ u.dqs[j] = w.dqs[From(j)]
  BY <1>1, <1>2, <1>3, <1>4
<1>6. \A m \in DOMAIN w.dqs : m # i => \E j \in DOMAIN u.dqs : From(j) = m /\ u.dqs[j] = w.dqs[m]
  <2> SUFFICES ASSUME NEW m \in DOMAIN w.dqs, m # i
               PROVE  \E j \in DOMAIN u.dqs : From(j) = m /\ u.dqs[j] = w.dqs[m]
    OBVIOUS
  <2>1. PICK j \in 1..(L - 1) : From(j) = m
    BY <1>1, <1>4
  <2>2. j \in DOMAIN u.dqs /\ u.dqs[j] = w.dqs[From(j)]
    BY <1>2, <1>3
  <2> QED BY <2>1, <2>2
<1>7. ASSUME NEW x, QueuedBut(w, x), x # NONE, w.dqs[i].subsys = x PROVE QueuedBut(u, x)
  <2>1. Shape(u) /\ Listed(u) = Listed(w)
    BY <1>3, <1>7, SameLookups DEF QueuedBut, Shape, NamesApart, PortsApart
  <2>2. Points(u)
    BY <1>3, <1>5, <1>7, <2>1 DEF QueuedBut, Points
  <2>3. Single(w) => Single(u)
    <3>1. \A j, k \in DOMAIN u.dqs : From(j) = From(k) => j = k
      BY <1>2, <1>3, <1>4
    <3> QED BY <1>5, <3>1 DEF Single
  <2>4. FirstPort(w) => FirstPort(u)
    BY <1>3, <1>5 DEF FirstPort
  <2>5. ASSUME NEW n, n # x, NEW m, FirstDq(w, n, m)
        PROVE  \E j \in DOMAIN u.dqs : FirstDq(u, n, j) /\ u.dqs[j].host = w.dqs[m].host
    <3>1. m \in DOMAIN w.dqs /\ m # i /\ w.dqs[m].subsys = n
      BY <1>7, <2>5 DEF FirstDq
    <3>2. PICK j \in DOMAIN u.dqs : From(j) = m /\ u.dqs[j] = w.dqs[m]
      BY <1>6, <3>1
    <3>3. ASSUME NEW k \in DOMAIN u.dqs, k < j PROVE u.dqs[k].subsys # n
      <4>1. From(k) < m
        BY <1>2, <1>3, <1>4, <3>2, <3>3
      <4> QED BY <1>5, <2>5, <4>1 DEF FirstDq
    <3> QED BY <3>1, <3>2, <3>3 DEF FirstDq
  <2>6. CoveredBut(w, x) => CoveredBut(u, x)
    <3> SUFFICES ASSUME CoveredBut(w, x), u.ports # <<>>
                 PROVE  /\ \E j \in DOMAIN u.dqs : u.dqs[j].subsys = NONE
                        /\ \A k \in DOMAIN u.subs : u.subs[k].nqn # x /\ Restricted(u.subs[k]) =>
                              \E j \in DOMAIN u.dqs : /\ FirstDq(u, u.subs[k].nqn, j)
                                                      /\ Contains(u.subs[k].hosts, u.dqs[j].host)
      BY DEF CoveredBut
    <3>1. \E j \in DOMAIN u.dqs : u.dqs[j].subsys = NONE
      <4>1. PICK m \in DOMAIN w.dqs : w.dqs[m].subsys = NONE
        BY <1>3 DEF CoveredBut
      <4> QED BY <1>6, <1>7, <4>1
    <3>2. ASSUME NEW k \in DOMAIN u.subs, u.subs[k].nqn # x, Restricted(u.subs[k])
          PROVE  \E j \in DOMAIN u.dqs : /\ FirstDq(u, u.subs[k].nqn, j)
                                         /\ Contains(u.subs[k].hosts, u.dqs[j].host)
      <4>1. PICK m \in DOMAIN w.dqs : /\ FirstDq(w, w.subs[k].nqn, m)
                                      /\ Contains(w.subs[k].hosts, w.dqs[m].host)
        BY <1>3, <3>2 DEF CoveredBut
      <4> QED BY <1>3, <2>5, <3>2, <4>1
    <3> QED BY <3>1, <3>2
  <2> QED BY <1>7, <2>1, <2>2, <2>3, <2>4, <2>6 DEF QueuedBut
<1> QED BY <1>3, <1>5, <1>7 DEF u, q

\* The i-th queue is given another host.
SetHost(w, i, h) == [w EXCEPT !.dqs[i].host = h]

\* Nothing else changes, and no other subsystem is concerned.
LEMMA DqHost ==
    ASSUME NEW w \in Target, NEW i \in DOMAIN w.dqs, NEW h \in Hosts \cup {shared_nqn}
    PROVE  LET u == SetHost(w, i, h)
           IN  /\ u \in Target /\ u.subs = w.subs /\ u.ports = w.ports /\ u.pages = w.pages
               /\ DOMAIN u.dqs = DOMAIN w.dqs
               /\ \A j \in DOMAIN w.dqs : /\ u.dqs[j].subsys = w.dqs[j].subsys
                                          /\ u.dqs[j].port = w.dqs[j].port
                                          /\ u.dqs[j].host = IF j = i THEN h ELSE w.dqs[j].host
               /\ \A x : QueuedBut(w, x) /\ w.dqs[i].subsys = x => QueuedBut(u, x)
<1> DEFINE d == [w.dqs[i] EXCEPT !.host = h]
           q == [w.dqs EXCEPT ![i] = d]
           u == [w EXCEPT !.dqs = q]
           L == Len(w.dqs)
<1>1. w.dqs \in Seq(Dq) /\ L \in Nat /\ DOMAIN w.dqs = 1..L /\ w.dqs[i] \in Dq
  BY TargetFields
<1>2. d \in Dq /\ d.subsys = w.dqs[i].subsys /\ d.port = w.dqs[i].port /\ d.host = h
  BY <1>1 DEF Dq
<1> HIDE DEF d
<1>3. /\ q \in Seq(Dq) /\ DOMAIN q = DOMAIN w.dqs
      /\ \A j \in DOMAIN w.dqs : q[j] = IF j = i THEN d ELSE w.dqs[j]
  BY <1>1, <1>2, ExceptSeq
<1> HIDE DEF q
<1>4. /\ u \in Target /\ u.dqs = q /\ u.subs = w.subs /\ u.ports = w.ports
      /\ u.pages = w.pages
  BY <1>3, WithDqs
<1>5. u = SetHost(w, i, h)
  BY DEF q, d, SetHost
<1> HIDE DEF u
<1>6. /\ DOMAIN u.dqs = DOMAIN w.dqs
      /\ \A j \in DOMAIN w.dqs : /\ u.dqs[j].subsys = w.dqs[j].subsys
                                 /\ u.dqs[j].port = w.dqs[j].port
                                 /\ u.dqs[j].host = IF j = i THEN h ELSE w.dqs[j].host
  BY <1>2, <1>3, <1>4
<1>7. ASSUME NEW x, QueuedBut(w, x), w.dqs[i].subsys = x PROVE QueuedBut(u, x)
  <2>1. Shape(u) /\ Listed(u) = Listed(w)
    BY <1>4, <1>7, SameLookups DEF QueuedBut, Shape, NamesApart, PortsApart
  <2>2. Points(u)
    BY <1>4, <1>6, <1>7, <2>1 DEF QueuedBut, Points
  <2>3. (Single(w) => Single(u)) /\ (FirstPort(w) => FirstPort(u))
    BY <1>4, <1>6 DEF Single, FirstPort
  <2>4. \A n, m : n # x /\ FirstDq(w, n, m) => FirstDq(u, n, m) /\ u.dqs[m].host = w.dqs[m].host
    BY <1>6, <1>7 DEF FirstDq
  <2>5. CoveredBut(w, x) => CoveredBut(u, x)
    BY <1>4, <1>6, <2>4 DEF CoveredBut
  <2> QED BY <1>7, <2>1, <2>2, <2>3, <2>5 DEF QueuedBut
<1> QED BY <1>4, <1>5, <1>6, <1>7

\* The first queue of a subsystem goes: if it was the only one, none is left.
LEMMA DelDq ==
    ASSUME Reach, NEW w, Right(w), NEW k \in DOMAIN w.subs
    PROVE  LET x == w.subs[k].nqn
               v == _del_subsys_dq(w, x)
           IN  /\ QueuedBut(v, x) /\ (Calm => PagesBut(v, x))
               /\ v.subs = w.subs /\ v.ports = w.ports
               /\ (\A j, m \in DOMAIN w.dqs : w.dqs[j].subsys = x /\ w.dqs[m].subsys = x => j = m)
                  => \A j \in DOMAIN v.dqs : v.dqs[j].subsys # x
<1> DEFINE x == w.subs[k].nqn
           v == _del_subsys_dq(w, x)
           i == DqOf(w, x)
           u == [w EXCEPT !.dqs = RemoveAt(@, i)]
<1>1. w \in Target
  BY DEF Right, Queued, Shape
<1>2. x # NONE
  <2>1. w.subs[k] \in Sub
    BY <1>1, TargetFields
  <2> QED BY <2>1, DiscoveryQueuesAssumption DEF Sub
<1>3. QueuedBut(w, x) /\ (Calm => PagesBut(w, x))
  BY ButNone DEF Right
<1>4. v = IF i = 0 THEN w ELSE refresh_log_pages(u)
  BY DEF _del_subsys_dq
<1>5. /\ i = 0 => \A j \in DOMAIN w.dqs : w.dqs[j].subsys # x
      /\ i # 0 => FirstDq(w, x, i)
  BY <1>1, DqFound
<1> HIDE DEF i, v, x
<1>6. CASE i = 0
  BY <1>3, <1>4, <1>5, <1>6 DEF v, x
<1>7. CASE i # 0
  <2>1. i \in DOMAIN w.dqs /\ w.dqs[i].subsys = x
    BY <1>5, <1>7 DEF FirstDq
  <2>2. /\ u \in Target /\ u.subs = w.subs /\ u.ports = w.ports
        /\ \A j \in DOMAIN u.dqs : \E m \in DOMAIN w.dqs : m # i /\ u.dqs[j] = w.dqs[m]
        /\ QueuedBut(u, x)
    BY <1>1, <1>2, <1>3, <2>1, DqRemoved
  <2> HIDE DEF u
  <2>3. /\ QueuedBut(v, x) /\ (Calm => PagesBut(v, x))
        /\ v.subs = w.subs /\ v.ports = w.ports
    BY <1>4, <1>7, <2>2, RefreshBut
  <2>4. SameLists(v, u)
    BY <1>4, <1>7, <2>2, Refreshed DEF Reach
  <2>5. ASSUME \A j, m \in DOMAIN w.dqs : w.dqs[j].subsys = x /\ w.dqs[m].subsys = x => j = m,
               NEW j \in DOMAIN v.dqs
        PROVE  v.dqs[j].subsys # x
    <3>1. j \in DOMAIN u.dqs /\ v.dqs[j].subsys = u.dqs[j].subsys
      BY <2>4 DEF SameLists
    <3>2. PICK m \in DOMAIN w.dqs : m # i /\ u.dqs[j] = w.dqs[m]
      BY <2>2, <3>1
    <3> QED BY <2>1, <2>5, <3>1, <3>2
  <2> QED BY <2>3, <2>5 DEF v, x
<1> QED BY <1>6, <1>7

\* A queue for a subsystem is added, or none.
LEMMA CreateQueued ==
    ASSUME Reach, NEW w, Shape(w), Points(w), NEW k \in DOMAIN w.subs,
           \/ "edit" \in ops
           \/ \A i \in DOMAIN w.dqs : w.dqs[i].subsys # w.subs[k].nqn
    PROVE  LET x == w.subs[k].nqn
               v == CreateOnPorts(w, x)
               L == Len(v.dqs)
           IN  /\ v.subs = w.subs /\ v.ports = w.ports /\ PagesKept(v, w)
               /\ \A y : QueuedBut(w, y) => QueuedBut(v, y)
               /\ /\ Calm /\ FirstPort(w) /\ Restricted(w.subs[k]) /\ w.ports # <<>>
                  /\ \A i \in DOMAIN w.dqs : w.dqs[i].subsys # x
                  => /\ FirstDq(v, x, L) /\ v.dqs[L].host = w.subs[k].hosts[1]
                     /\ \A p \in Ports : HasPage(v, x, p)
<1> DEFINE sub == w.subs[k]
           x == sub.nqn
           v == CreateOnPorts(w, x)
           L == Len(v.dqs)
           N == Len(w.ports)
<1>1. w \in Target /\ NamesApart(w) /\ PortsApart(w) /\ OpenToAll(w.subs) /\ LinkOK
  BY DEF Shape, Reach
<1>2. OneMore(v, w, sub, N)
  BY <1>1, CreatedOnPorts
<1>3. sub \in Sub /\ x # NONE /\ x \in Listed(w)
  <2>1. sub \in Sub
    BY <1>1, TargetFields
  <2> QED BY <2>1, DiscoveryQueuesAssumption DEF Sub, Listed
<1> HIDE DEF v, sub, x
<1>4. /\ Grows(v, w) /\ v \in Target /\ v.subs = w.subs /\ v.ports = w.ports /\ PagesKept(v, w)
  BY <1>2 DEF OneMore, Grows
<1>5. /\ Len(w.dqs) \in Nat /\ DOMAIN w.dqs = 1..Len(w.dqs)
      /\ Len(v.dqs) \in Nat /\ DOMAIN v.dqs = 1..Len(v.dqs)
      /\ N \in Nat /\ DOMAIN w.ports = 1..N
      /\ \A n \in DOMAIN w.ports : w.ports[n] \in Ports
  BY <1>1, <1>4, TargetFields
<1>6. \/ L = Len(w.dqs)
      \/ /\ L = Len(w.dqs) + 1 /\ Restricted(sub) /\ v.dqs[L].subsys = x
         /\ v.dqs[L].host = sub.hosts[1]
         /\ \E m \in 1..N : v.dqs[L].port = w.ports[m]
  BY <1>2 DEF OneMore, x
<1>7. /\ DOMAIN w.dqs \subseteq DOMAIN v.dqs
      /\ \A i \in DOMAIN w.dqs : /\ v.dqs[i].subsys = w.dqs[i].subsys
                                 /\ v.dqs[i].port = w.dqs[i].port
                                 /\ v.dqs[i].host = w.dqs[i].host
      /\ \A i \in DOMAIN v.dqs : i \in DOMAIN w.dqs \/ (i = L /\ L = Len(w.dqs) + 1)
  BY <1>4, <1>5, <1>6 DEF Grows
<1>8. Shape(v) /\ Listed(v) = Listed(w)
  BY <1>1, <1>4, SameLookups DEF Shape, NamesApart, PortsApart
<1>9. Points(v)
  <2> SUFFICES ASSUME NEW i \in DOMAIN v.dqs
               PROVE  /\ v.dqs[i].subsys \in Listed(w) \cup {NONE}
                      /\ v.dqs[i].port \in Range(w.ports)
    BY <1>4, <1>8 DEF Points
  <2>1. CASE i \in DOMAIN w.dqs
    BY <1>7, <2>1 DEF Points
  <2>2. CASE i = L /\ L = Len(w.dqs) + 1
    <3>1. v.dqs[i].subsys = x /\ \E m \in 1..N : v.dqs[i].port = w.ports[m]
      BY <1>5, <1>6, <2>2
    <3> QED BY <1>3, <1>5, <3>1 DEF Range
  <2> QED BY <1>7, <2>1, <2>2
<1>10. "edit" \notin ops /\ Single(w) => Single(v)
  <2> SUFFICES ASSUME "edit" \notin ops, Single(w), NEW i \in DOMAIN v.dqs, NEW j \in DOMAIN v.dqs,
                      v.dqs[i].subsys # NONE, v.dqs[i].subsys = v.dqs[j].subsys
               PROVE  i = j
    BY DEF Single
  <2>1. \A m \in DOMAIN w.dqs : v.dqs[m].subsys # x
    BY <1>7 DEF x, sub
  <2>2. L = Len(w.dqs) + 1 => v.dqs[L].subsys = x
    BY <1>5, <1>6
  <2>3. CASE i \in DOMAIN w.dqs /\ j \in DOMAIN w.dqs
    BY <1>7, <2>3 DEF Single
  <2> QED BY <1>7, <2>1, <2>2, <2>3
<1>11. FirstPort(w) => FirstPort(v)
  <2> SUFFICES ASSUME FirstPort(w), NEW i \in DOMAIN v.dqs, v.dqs[i].subsys # NONE
               PROVE  v.dqs[i].port = w.ports[1]
    BY <1>4 DEF FirstPort
  <2>1. CASE i \in DOMAIN w.dqs
    BY <1>7, <2>1 DEF FirstPort
  <2>2. CASE i = L /\ L = Len(w.dqs) + 1
    <3>1. Restricted(sub) /\ N >= 1
      BY <1>5, <1>6, <2>2
    <3> QED BY <1>2, <2>2, <3>1 DEF OneMore
  <2> QED BY <1>7, <2>1, <2>2
<1>12. \A n, i : FirstDq(w, n, i) => FirstDq(v, n, i) /\ v.dqs[i].host = w.dqs[i].host
  <2>1. \A i \in DOMAIN w.dqs, j \in DOMAIN v.dqs : j < i => j \in DOMAIN w.dqs
    BY <1>5
  <2> QED BY <1>7, <2>1 DEF FirstDq
<1>13. \A y : CoveredBut(w, y) => CoveredBut(v, y)
  BY <1>4, <1>7, <1>12 DEF CoveredBut
<1>14. \A y : QueuedBut(w, y) => QueuedBut(v, y)
  BY <1>8, <1>9, <1>10, <1>11, <1>13 DEF QueuedBut
<1>15. ASSUME Calm, FirstPort(w), Restricted(sub), w.ports # <<>>,
              \A i \in DOMAIN w.dqs : w.dqs[i].subsys # x
       PROVE  /\ FirstDq(v, x, L) /\ v.dqs[L].host = sub.hosts[1]
              /\ \A p \in Ports : HasPage(v, x, p)
  <2>1. N >= 1
    <3>1. w.ports \in Seq(Ports)
      BY <1>1, TargetFields
    <3> QED BY <1>5, <1>15, <3>1, EmptySeq
  <2>2. /\ L = Len(w.dqs) + 1
        /\ link[w.ports[1]] = "up" => \A m \in Listed(w), q \in Ports :
                 MayUse(w, m, sub.hosts[1]) => HasPage(v, m, q)
    BY <1>2, <1>15, <2>1 DEF OneMore
  <2>3. v.dqs[L].host = sub.hosts[1] /\ v.dqs[L].subsys = x
    BY <1>5, <1>6, <2>2
  <2>4. FirstDq(v, x, L)
    <3>1. L \in DOMAIN v.dqs /\ \A j \in DOMAIN v.dqs : j < L => j \in DOMAIN w.dqs
      BY <1>5, <2>2
    <3> QED BY <1>7, <1>15, <2>3, <3>1 DEF FirstDq
  <2>5. link[w.ports[1]] = "up"
    <3>1. w.ports[1] \in Ports
      BY <1>5, <2>1
    <3> QED BY <1>15, <3>1 DEF Reach, AllUp
  <2>6. SubOf(w, x) = sub
    BY <1>1, SubFound DEF x, sub
  <2>7. Contains(sub.hosts, sub.hosts[1])
    <3>1. sub.hosts \in Seq(Hosts) /\ sub.hosts # <<>>
      BY <1>3, <1>15 DEF Sub, Restricted
    <3>2. 1 \in 1..Len(sub.hosts)
      BY <3>1, EmptySeq, LenProperties
    <3> QED BY <3>2 DEF Contains
  <2>8. MayUse(w, x, sub.hosts[1])
    BY <2>6, <2>7 DEF MayUse
  <2> QED BY <1>3, <2>2, <2>3, <2>4, <2>5, <2>8
<1> QED BY <1>4, <1>14, <1>15 DEF v, sub, x

\* Another subsystem of the same name.
SetSub(w, k, d) == [w EXCEPT !.subs[k] = d]

LEMMA WithSub ==
    ASSUME NEW w \in Target, NEW k \in DOMAIN w.subs, NEW d \in Sub, d.nqn = w.subs[k].nqn
    PROVE  LET u == SetSub(w, k, d)
               x == w.subs[k].nqn
           IN  /\ u \in Target /\ u.ports = w.ports /\ u.dqs = w.dqs /\ u.pages = w.pages
               /\ DOMAIN u.subs = DOMAIN w.subs /\ Len(u.subs) = Len(w.subs)
               /\ \A j \in DOMAIN w.subs : u.subs[j] = IF j = k THEN d ELSE w.subs[j]
               /\ NamesApart(w) => NamesApart(u)
               /\ QueuedBut(w, x) /\ (d.open => d.hosts = <<>>) => QueuedBut(u, x)
               /\ PagesBut(w, x) => PagesBut(u, x)
<1> DEFINE q == [w.subs EXCEPT ![k] = d]
           u == [w EXCEPT !.subs = q]
           x == w.subs[k].nqn
           L == Len(w.subs)
<1>1. /\ w.subs \in Seq(Sub) /\ L \in Nat /\ DOMAIN w.subs = 1..L
      /\ \A j \in DOMAIN w.subs : w.subs[j] \in Sub
  BY TargetFields
<1>2. /\ q \in Seq(Sub) /\ DOMAIN q = DOMAIN w.subs /\ Len(q) = L
      /\ \A j \in DOMAIN w.subs : q[j] = IF j = k THEN d ELSE w.subs[j]
  BY <1>1, ExceptSeq
<1> HIDE DEF q
<1>3. /\ u \in Target /\ u.subs = q /\ u.ports = w.ports /\ u.dqs = w.dqs
      /\ u.pages = w.pages
  BY <1>2, WithSubs
<1>4. u = SetSub(w, k, d)
  BY DEF q, SetSub
<1> HIDE DEF u
<1>5. /\ DOMAIN u.subs = DOMAIN w.subs /\ Len(u.subs) = Len(w.subs)
      /\ \A j \in DOMAIN w.subs : u.subs[j] = IF j = k THEN d ELSE w.subs[j]
  BY <1>2, <1>3
<1>6. \A j \in DOMAIN w.subs : u.subs[j].nqn = w.subs[j].nqn
  BY <1>5
<1>7. \A j \in DOMAIN w.subs : w.subs[j].nqn # x => u.subs[j] = w.subs[j]
  BY <1>5
<1>8. PagesBut(w, x) => PagesBut(u, x)
  BY <1>3, <1>5, <1>6, <1>7 DEF PagesBut, HasPage
<1>9. NamesApart(w) => NamesApart(u)
  BY <1>5, <1>6 DEF NamesApart
<1>10. ASSUME QueuedBut(w, x), d.open => d.hosts = <<>> PROVE QueuedBut(u, x)
  <2>1. Listed(u) = Listed(w)
    BY <1>5, <1>6 DEF Listed
  <2>2. OpenToAll(u.subs)
    BY <1>5, <1>10 DEF QueuedBut, Shape, OpenToAll
  <2>3. Shape(u)
    BY <1>3, <1>9, <1>10, <2>2 DEF QueuedBut, Shape, PortsApart
  <2>4. Points(u) /\ ("edit" \notin ops => Single(u)) /\ (Calm => FirstPort(u))
    BY <1>3, <1>10, <2>1 DEF QueuedBut, Points, Single, FirstPort
  <2>5. \A n, i : FirstDq(w, n, i) => FirstDq(u, n, i)
    BY <1>3 DEF FirstDq
  <2>6. CoveredBut(w, x) => CoveredBut(u, x)
    BY <1>3, <1>5, <1>6, <1>7, <2>5 DEF CoveredBut
  <2> QED BY <1>10, <2>3, <2>4, <2>6 DEF QueuedBut
<1> QED BY <1>3, <1>4, <1>5, <1>8, <1>9, <1>10 DEF x

\* Another list of hosts.
LEMMA WithHosts ==
    ASSUME NEW w \in Target, NEW k \in DOMAIN w.subs, NEW hs \in Seq(Hosts)
    PROVE  LET u == [w EXCEPT !.subs[k].hosts = hs]
               x == w.subs[k].nqn
           IN  /\ u \in Target /\ u.ports = w.ports /\ u.dqs = w.dqs /\ u.pages = w.pages
               /\ DOMAIN u.subs = DOMAIN w.subs /\ Len(u.subs) = Len(w.subs)
               /\ \A j \in DOMAIN w.subs :
                     /\ u.subs[j].nqn = w.subs[j].nqn /\ u.subs[j].open = w.subs[j].open
                     /\ u.subs[j].hosts = IF j = k THEN hs ELSE w.subs[j].hosts
               /\ QueuedBut(w, x) /\ (w.subs[k].open => hs = <<>>) => QueuedBut(u, x)
               /\ PagesBut(w, x) => PagesBut(u, x)
<1> DEFINE d == [w.subs[k] EXCEPT !.hosts = hs]
           u == SetSub(w, k, d)
           x == w.subs[k].nqn
<1>1. w.subs[k] \in Sub
  BY TargetFields
<1>2. d \in Sub /\ d.nqn = w.subs[k].nqn /\ d.open = w.subs[k].open /\ d.hosts = hs
  BY <1>1 DEF Sub
<1>3. u = [w EXCEPT !.subs[k].hosts = hs]
  BY DEF SetSub
<1> HIDE DEF d
<1>4. /\ u \in Target /\ u.ports = w.ports /\ u.dqs = w.dqs /\ u.pages = w.pages
      /\ DOMAIN u.subs = DOMAIN w.subs /\ Len(u.subs) = Len(w.subs)
      /\ \A j \in DOMAIN w.subs : u.subs[j] = IF j = k THEN d ELSE w.subs[j]
      /\ QueuedBut(w, x) /\ (d.open => d.hosts = <<>>) => QueuedBut(u, x)
      /\ PagesBut(w, x) => PagesBut(u, x)
  BY <1>2, WithSub
<1> HIDE DEF u
<1> QED BY <1>2, <1>3, <1>4

\* What is left to show of the subsystem that an operation is about.
LEMMA AllButOne ==
    ASSUME NEW w, NEW k \in DOMAIN w.subs, QueuedBut(w, w.subs[k].nqn),
           Calm /\ w.ports # <<>> /\ Restricted(w.subs[k]) =>
               \E i \in DOMAIN w.dqs : /\ FirstDq(w, w.subs[k].nqn, i)
                                       /\ Contains(w.subs[k].hosts, w.dqs[i].host)
    PROVE  Queued(w)
<1>1. \A m \in DOMAIN w.subs : w.subs[m].nqn = w.subs[k].nqn => m = k
  BY DEF QueuedBut, Shape, NamesApart
<1>2. Calm => Covered(w)
  BY <1>1 DEF QueuedBut, CoveredBut, Covered
<1> QED BY <1>2 DEF QueuedBut, Queued

\* The place of a subsystem in the list.
LEMMA PosFound ==
    ASSUME tg \in Target, NamesApart(tg), NEW k \in DOMAIN tg.subs
    PROVE  Pos(tg.subs[k].nqn) = k
  BY SubFound DEF Pos

\* A subsystem that is set again has its first queue no more, if all hosts may
\* use it, or one queue more, behind those it had.
LEMMA EditSubsysRight ==
    ASSUME Reach, Right(tg), NEW nqn \in Subsystems, NEW open \in BOOLEAN,
           EditSubsys(nqn, open)
    PROVE  Right(tg')
<1>1. PICK k \in DOMAIN tg.subs : tg.subs[k].nqn = nqn
  BY DEF EditSubsys, Listed
<1> DEFINE d == [tg.subs[k] EXCEPT !.open = open]
           v == SetSub(tg, k, d)
           w == _config_subsys(v, nqn)
           c == CreateOnPorts(w, nqn)
<1>2. /\ tg \in Target /\ NamesApart(tg) /\ OpenToAll(tg.subs) /\ Queued(tg) /\ LinkOK
      /\ QueuedBut(tg, nqn)
  BY ButNone DEF Right, Queued, Shape, Reach
<1>3. Pos(nqn) = k
  BY <1>1, <1>2, PosFound
<1>4. "edit" \in ops /\ tg' = refresh_log_pages(c)
  BY <1>3 DEF EditSubsys, Step, SetSub
<1>5. d \in Sub /\ d.nqn = nqn /\ d.open = open /\ d.hosts = tg.subs[k].hosts
  <2>1. tg.subs[k] \in Sub
    BY <1>2, TargetFields
  <2> QED BY <1>1, <2>1 DEF Sub
<1> HIDE DEF d
<1>6. /\ v \in Target /\ v.ports = tg.ports /\ v.dqs = tg.dqs
      /\ DOMAIN v.subs = DOMAIN tg.subs /\ NamesApart(v)
      /\ \A j \in DOMAIN tg.subs : v.subs[j] = IF j = k THEN d ELSE tg.subs[j]
      /\ (d.open => d.hosts = <<>>) => QueuedBut(v, nqn)
  BY <1>1, <1>2, <1>5, WithSub
<1> HIDE DEF v
<1>7. SubOf(v, nqn) = d
  <2>1. k \in DOMAIN v.subs /\ v.subs[k] = d
    BY <1>6
  <2> QED BY <1>5, <1>6, <2>1, SubFound
<1>8. Queued(w) /\ k \in DOMAIN w.subs /\ w.subs[k].nqn = nqn
  <2>1. CASE ~open
    <3>1. w = v
      BY <1>5, <1>7, <2>1 DEF _config_subsys
    <3> HIDE DEF w
    <3>2. ASSUME Calm, v.ports # <<>>, Restricted(v.subs[k])
          PROVE  \E i \in DOMAIN v.dqs : /\ FirstDq(v, nqn, i)
                                          /\ Contains(v.subs[k].hosts, v.dqs[i].host)
      <4>1. Restricted(tg.subs[k])
        BY <1>2, <1>5, <1>6, <3>2 DEF Restricted, OpenToAll
      <4>2. PICK i \in DOMAIN tg.dqs : /\ FirstDq(tg, nqn, i)
                                       /\ Contains(tg.subs[k].hosts, tg.dqs[i].host)
        BY <1>1, <1>2, <1>6, <3>2, <4>1 DEF Queued, Covered
      <4>3. FirstDq(v, nqn, i)
        BY <1>6, <4>2 DEF FirstDq
      <4> QED BY <1>5, <1>6, <4>2, <4>3
    <3>3. QueuedBut(v, nqn) /\ k \in DOMAIN v.subs /\ v.subs[k].nqn = nqn
      BY <1>5, <1>6, <2>1
    <3> QED BY <3>1, <3>2, <3>3, AllButOne
  <2>2. CASE open
    <3> DEFINE i == DqOf(v, nqn)
               e == [d EXCEPT !.hosts = <<>>]
               z == SetSub(tg, k, e)
               y == IF i = 0 THEN z ELSE [z EXCEPT !.dqs = RemoveAt(@, i)]
               u == _del_subsys_dq(v, nqn)
    <3>1. w = [u EXCEPT !.subs[k].hosts = <<>>]
      BY <1>3, <1>5, <1>7, <2>2 DEF _config_subsys
    <3>2. u = IF i = 0 THEN v ELSE refresh_log_pages([v EXCEPT !.dqs = RemoveAt(@, i)])
      BY DEF _del_subsys_dq
    <3>3. i # 0 => i \in DOMAIN tg.dqs /\ tg.dqs[i].subsys = nqn
      BY <1>6, DqFound DEF FirstDq
    <3>4. <<>> \in Seq(Hosts)
      BY EmptySeq
    <3>5. e \in Sub /\ e.nqn = nqn /\ e.open /\ e.hosts = <<>>
      BY <1>5, <2>2, <3>4 DEF Sub
    <3> HIDE DEF e
    <3>6. /\ z \in Target /\ z.ports = tg.ports /\ z.dqs = tg.dqs
          /\ DOMAIN z.subs = DOMAIN tg.subs
          /\ \A j \in DOMAIN tg.subs : z.subs[j] = IF j = k THEN e ELSE tg.subs[j]
          /\ QueuedBut(z, nqn)
      BY <1>1, <1>2, <3>5, WithSub
    <3> HIDE DEF z, i
    <3>7. /\ y \in Target /\ y.ports = tg.ports /\ y.subs = z.subs
          /\ y.dqs = IF i = 0 THEN tg.dqs ELSE RemoveAt(tg.dqs, i)
          /\ QueuedBut(y, nqn)
      <4>1. CASE i = 0
        BY <3>6, <4>1
      <4>2. CASE i # 0
        <5>1. i \in DOMAIN z.dqs /\ z.dqs[i].subsys = nqn /\ nqn # NONE
          BY <3>3, <3>6, <4>2, DiscoveryQueuesAssumption
        <5>2. [z EXCEPT !.dqs = RemoveAt(@, i)].dqs = RemoveAt(z.dqs, i)
          BY <3>6 DEF Target
        <5> QED BY <3>6, <4>2, <5>1, <5>2, DqRemoved
      <4> QED BY <4>1, <4>2
    <3> HIDE DEF y
    <3>8. /\ u \in Target /\ u.subs = v.subs /\ u.ports = tg.ports
          /\ DOMAIN u.dqs = DOMAIN y.dqs
          /\ \A j \in DOMAIN y.dqs : /\ u.dqs[j].subsys = y.dqs[j].subsys
                                      /\ u.dqs[j].port = y.dqs[j].port
                                      /\ u.dqs[j].host = y.dqs[j].host
      <4>1. CASE i = 0
        BY <1>6, <3>2, <3>7, <4>1
      <4>2. CASE i # 0
        <5> DEFINE b == [v EXCEPT !.dqs = RemoveAt(@, i)]
        <5>1. i \in DOMAIN v.dqs
          BY <1>6, <3>3, <4>2
        <5>2. b \in Target /\ b.subs = v.subs /\ b.ports = v.ports
          BY <1>6, <5>1, DqRemoved
        <5>3. b.dqs = RemoveAt(tg.dqs, i)
          BY <1>6 DEF Target
        <5> HIDE DEF b
        <5>4. u \in Target /\ SameLists(u, b)
          BY <1>2, <3>2, <4>2, <5>2, Refreshed DEF b
        <5> QED BY <1>6, <3>7, <4>2, <5>2, <5>3, <5>4 DEF SameLists
      <4> QED BY <4>1, <4>2
    <3> HIDE DEF u
    <3>9. k \in DOMAIN u.subs
      BY <1>6, <3>8
    <3> HIDE DEF w
    <3>10. /\ w \in Target /\ w.ports = tg.ports /\ w.dqs = u.dqs
           /\ DOMAIN w.subs = DOMAIN tg.subs
           /\ \A j \in DOMAIN tg.subs :
                 /\ w.subs[j].nqn = v.subs[j].nqn /\ w.subs[j].open = v.subs[j].open
                 /\ w.subs[j].hosts = IF j = k THEN <<>> ELSE v.subs[j].hosts
      <4>1. PICK hs \in Seq(Hosts) : hs = <<>>
        BY <3>4
      <4> DEFINE b == [u EXCEPT !.subs[k].hosts = hs]
      <4>2. /\ b \in Target /\ b.ports = u.ports /\ b.dqs = u.dqs
            /\ DOMAIN b.subs = DOMAIN u.subs
            /\ \A j \in DOMAIN u.subs :
                  /\ b.subs[j].nqn = u.subs[j].nqn /\ b.subs[j].open = u.subs[j].open
                  /\ b.subs[j].hosts = IF j = k THEN hs ELSE u.subs[j].hosts
        BY <3>8, <3>9, WithHosts
      <4>3. w = b
        BY <3>1, <4>1
      <4> HIDE DEF b
      <4> QED BY <1>6, <3>8, <4>1, <4>2, <4>3
    <3>11. w.subs = z.subs
      <4>1. w.subs \in Seq(Sub) /\ z.subs \in Seq(Sub)
        BY <3>6, <3>10, TargetFields
      <4>2. \A j \in DOMAIN tg.subs : w.subs[j] \in Sub /\ z.subs[j] \in Sub
        BY <3>6, <3>10, TargetFields
      <4>3. \A j \in DOMAIN tg.subs : /\ w.subs[j].nqn = z.subs[j].nqn
                                       /\ w.subs[j].open = z.subs[j].open
                                       /\ w.subs[j].hosts = z.subs[j].hosts
        BY <1>5, <1>6, <2>2, <3>5, <3>6, <3>10
      <4>4. \A j \in DOMAIN tg.subs : w.subs[j] = z.subs[j]
        BY <4>2, <4>3 DEF Sub
      <4>5. /\ w.subs = [j \in DOMAIN tg.subs |-> w.subs[j]]
            /\ z.subs = [j \in DOMAIN tg.subs |-> z.subs[j]]
        BY <3>6, <3>10, <4>1
      <4> QED BY <4>4, <4>5
    <3>12. SameLists(w, y)
      BY <3>7, <3>8, <3>10, <3>11 DEF SameLists
    <3>13. QueuedBut(w, nqn)
      BY <3>7, <3>10, <3>12, SameQueuesBut
    <3>14. k \in DOMAIN w.subs /\ w.subs[k] = e
      BY <3>6, <3>10, <3>11
    <3>15. ~Restricted(w.subs[k])
      BY <3>5, <3>14 DEF Restricted
    <3> QED BY <3>5, <3>13, <3>14, <3>15, AllButOne
  <2> QED BY <2>1, <2>2
<1> HIDE DEF w
<1>9. Shape(w) /\ Points(w)
  BY <1>8 DEF Queued
<1>10. \A y : QueuedBut(w, y) => QueuedBut(c, y)
  BY <1>4, <1>8, <1>9, CreateQueued
<1> HIDE DEF c
<1>11. Queued(c)
  BY <1>8, <1>10, ButNone
<1> QED BY <1>4, <1>11, RefreshRight

\* A subsystem goes with its queue, if it has but one.
LEMMA del_subsysRight ==
    ASSUME Reach, Right(tg), NEW nqn \in Subsystems, del_subsys(nqn)
    PROVE  tg' \in Target /\ (~Several(nqn) => Right(tg'))
<1> DEFINE w == _del_subsys_dq(tg, nqn)
           s == RemoveAt(w.subs, Pos(nqn))
           g == {p \in w.pages : p.nqn # nqn}
           v == [w EXCEPT !.subs = s, !.pages = g]
           L == Len(tg.subs)
<1>1. nqn \in Listed(tg) /\ tg' = v
  BY DEF del_subsys
<1>2. tg \in Target /\ NamesApart(tg) /\ Queued(tg)
  BY DEF Right, Queued, Shape
<1>3. PICK k \in DOMAIN tg.subs : tg.subs[k].nqn = nqn
  BY <1>1 DEF Listed
<1>4. Pos(nqn) = k
  BY <1>2, <1>3, PosFound
<1>5. /\ QueuedBut(w, nqn) /\ (Calm => PagesBut(w, nqn))
      /\ w.subs = tg.subs /\ w.ports = tg.ports
      /\ ~Several(nqn) => \A j \in DOMAIN w.dqs : w.dqs[j].subsys # nqn
  BY <1>3, DelDq DEF Several
<1> HIDE DEF w
<1>6. w \in Target /\ NamesApart(w) /\ PortsApart(w) /\ OpenToAll(w.subs) /\ Points(w)
  BY <1>5 DEF QueuedBut, Shape
<1>7. w.subs \in Seq(Sub) /\ L \in Nat /\ DOMAIN w.subs = 1..L /\ k \in 1..L
  BY <1>3, <1>5, <1>6, TargetFields
<1>8. /\ s \in Seq(Sub) /\ DOMAIN s = 1..(L - 1)
      /\ \A j \in 1..(L - 1) : s[j] = w.subs[IF j < k THEN j ELSE j + 1]
  BY <1>4, <1>5, <1>7, Removed
<1> HIDE DEF s
<1>9. v \in Target /\ v.subs = s /\ v.ports = w.ports /\ v.dqs = w.dqs /\ v.pages = g
  BY <1>6, <1>8 DEF Target, Sub
<1> HIDE DEF v
<1> DEFINE From(j) == IF j < k THEN j ELSE j + 1
<1>10. /\ \A j \in DOMAIN s : From(j) \in 1..L /\ From(j) # k /\ s[j] = w.subs[From(j)]
       /\ \A i, j \in DOMAIN s : From(i) = From(j) => i = j
  <2>1. /\ \A j \in 1..(L - 1) : From(j) \in 1..L /\ From(j) # k
        /\ \A i, j \in 1..(L - 1) : From(i) = From(j) => i = j
    BY <1>7
  <2> QED BY <1>8, <2>1
<1>11. \A m \in 1..L : m # k => \E j \in DOMAIN s : From(j) = m
  <2> SUFFICES ASSUME NEW m \in 1..L, m # k PROVE \E j \in DOMAIN s : From(j) = m
    OBVIOUS
  <2>1. CASE m < k
    <3>1. m \in DOMAIN s /\ From(m) = m
      BY <1>7, <1>8, <2>1
    <3> QED BY <3>1
  <2>2. CASE ~(m < k)
    <3>1. m - 1 \in DOMAIN s /\ From(m - 1) = m
      BY <1>7, <1>8, <2>2
    <3> QED BY <3>1
  <2> QED BY <2>1, <2>2
<1> HIDE DEF From
<1>12. \A j \in DOMAIN s : s[j].nqn # nqn
  BY <1>3, <1>5, <1>6, <1>7, <1>10 DEF NamesApart
<1>13. NamesApart(v)
  BY <1>6, <1>7, <1>9, <1>10 DEF NamesApart
<1>14. Shape(v)
  BY <1>6, <1>7, <1>9, <1>10, <1>13 DEF Shape, PortsApart, OpenToAll
<1>15. ASSUME NEW n \in Listed(w), n # nqn PROVE n \in Listed(v)
  <2>1. PICK m \in 1..L : w.subs[m].nqn = n
    BY <1>7 DEF Listed
  <2>2. m # k
    BY <1>3, <1>5, <1>15, <2>1
  <2>3. PICK j \in DOMAIN s : From(j) = m
    BY <1>11, <2>2
  <2> QED BY <1>9, <1>10, <2>1, <2>3 DEF Listed
<1>16. ~Several(nqn) => Points(v)
  BY <1>5, <1>6, <1>9, <1>15 DEF Points
<1>17. ("edit" \notin ops => Single(v)) /\ (Calm => FirstPort(v))
  BY <1>5, <1>9 DEF QueuedBut, Single, FirstPort
<1>18. \A n, i : FirstDq(w, n, i) => FirstDq(v, n, i)
  BY <1>9 DEF FirstDq
<1>19. CoveredBut(w, nqn) => Covered(v)
  BY <1>7, <1>9, <1>10, <1>12, <1>18 DEF CoveredBut, Covered
<1>20. ASSUME NEW n, n # nqn, NEW p, HasPage(w, n, p) PROVE HasPage(v, n, p)
  <2>1. PICK x \in w.pages : x.nqn = n /\ x.port = p /\ x.valid
    BY <1>20 DEF HasPage
  <2>2. x \in g
    BY <1>20, <2>1
  <2> QED BY <1>9, <2>1, <2>2 DEF HasPage
<1>21. PagesBut(w, nqn) => AllPages(v)
  BY <1>7, <1>9, <1>10, <1>12, <1>20 DEF PagesBut, AllPages
<1> QED BY <1>1, <1>5, <1>9, <1>14, <1>16, <1>17, <1>19, <1>21 DEF QueuedBut, Queued, Right

(***************************************************************************)
(* Operations that change the hosts of a subsystem.                        *)
(***************************************************************************)
\* The same for the pages.
LEMMA PagesOfAll ==
    ASSUME NEW w, NEW k \in DOMAIN w.subs, NamesApart(w), PagesBut(w, w.subs[k].nqn),
           w.ports # <<>> /\ Usable(w.subs[k]) => \A p \in Ports : HasPage(w, w.subs[k].nqn, p)
    PROVE  AllPages(w)
<1>1. \A m \in DOMAIN w.subs : w.subs[m].nqn = w.subs[k].nqn => m = k
  BY DEF NamesApart
<1> QED BY <1>1 DEF PagesBut, AllPages

\* There is one first queue.
LEMMA FirstOnly ==
    ASSUME NEW w \in Target, NEW n, NEW i, NEW j, FirstDq(w, n, i), FirstDq(w, n, j)
    PROVE  i = j
<1>1. i \in 1..Len(w.dqs) /\ j \in 1..Len(w.dqs) /\ Len(w.dqs) \in Nat
  BY TargetFields DEF FirstDq
<1>2. ~(i < j) /\ ~(j < i)
  BY DEF FirstDq
<1> QED BY <1>1, <1>2

\* The first host of a subsystem brings it a queue, or gets the one it has;
\* others are added behind it.
LEMMA link_hostRight ==
    ASSUME Reach, Right(tg), NEW nqn \in Subsystems, NEW h \in Hosts, link_host(nqn, h)
    PROVE  Right(tg')
<1>1. /\ nqn \in Listed(tg) /\ ~SubOf(tg, nqn).open
      /\ tg' = IF SubOf(tg, nqn).hosts = <<>>
               THEN _reset_subsys_dq([tg EXCEPT !.subs[Pos(nqn)].hosts = Append(@, h)], nqn, h)
               ELSE [tg EXCEPT !.subs[Pos(nqn)].hosts = Append(@, h)]
  BY DEF link_host, Step
<1>2. tg \in Target /\ NamesApart(tg) /\ Queued(tg)
  BY DEF Right, Queued, Shape
<1>3. PICK k \in DOMAIN tg.subs : tg.subs[k].nqn = nqn
  BY <1>1 DEF Listed
<1>4. Pos(nqn) = k /\ SubOf(tg, nqn) = tg.subs[k]
  BY <1>2, <1>3, PosFound, SubFound
<1> DEFINE old == tg.subs[k].hosts
           hs == Append(old, h)
           u == [tg EXCEPT !.subs[k].hosts = hs]
<1>5. old \in Seq(Hosts)
  BY <1>2, TargetFields DEF Sub
<1>6. /\ hs \in Seq(Hosts) /\ hs # <<>> /\ Contains(hs, h)
      /\ \A z : Contains(old, z) => Contains(hs, z)
      /\ old = <<>> => hs[1] = h
  <2>1. /\ Len(old) \in Nat /\ hs \in Seq(Hosts) /\ Len(hs) = Len(old) + 1 /\ hs[Len(old) + 1] = h
        /\ \A j \in 1..Len(old) : hs[j] = old[j]
    BY <1>5, AppendProperties, LenProperties
  <2> HIDE DEF hs
  <2>2. hs # <<>>
    BY <2>1
  <2>3. /\ Len(old) + 1 \in 1..Len(hs) /\ \A j \in 1..Len(old) : j \in 1..Len(hs)
    BY <2>1
  <2>4. Contains(hs, h) /\ \A z : Contains(old, z) => Contains(hs, z)
    BY <2>1, <2>3 DEF Contains
  <2>5. old = <<>> => hs[1] = h
    BY <2>1
  <2> QED BY <2>1, <2>2, <2>4, <2>5
<1>7. tg' = IF old = <<>> THEN _reset_subsys_dq(u, nqn, h) ELSE u
  BY <1>1, <1>4
<1> HIDE DEF hs
<1>8. QueuedBut(tg, nqn) /\ (Calm => PagesBut(tg, nqn))
  BY ButNone DEF Right
<1>9. /\ u \in Target /\ u.ports = tg.ports /\ u.dqs = tg.dqs /\ u.pages = tg.pages
      /\ DOMAIN u.subs = DOMAIN tg.subs
      /\ u.subs[k].nqn = nqn /\ u.subs[k].open = tg.subs[k].open /\ u.subs[k].hosts = hs
      /\ QueuedBut(u, nqn) /\ (Calm => PagesBut(u, nqn))
  <2>1. ~tg.subs[k].open
    BY <1>1, <1>4
  <2> QED BY <1>2, <1>3, <1>6, <1>8, <2>1, WithHosts
<1> HIDE DEF u
<1>10. ~tg.subs[k].open /\ Restricted(u.subs[k]) /\ k \in DOMAIN u.subs
  BY <1>1, <1>4, <1>6, <1>9 DEF Restricted
<1>11. CASE old # <<>>
  <2>1. tg' = u
    BY <1>7, <1>11
  <2>2. Restricted(tg.subs[k]) /\ Usable(tg.subs[k])
    BY <1>10, <1>11 DEF Restricted, Usable
  <2>3. ASSUME Calm, u.ports # <<>>
        PROVE  \E i \in DOMAIN u.dqs : FirstDq(u, nqn, i) /\ Contains(u.subs[k].hosts, u.dqs[i].host)
    <3>1. PICK i \in DOMAIN tg.dqs : FirstDq(tg, nqn, i) /\ Contains(old, tg.dqs[i].host)
      BY <1>2, <1>3, <1>9, <2>2, <2>3 DEF Queued, Covered
    <3>2. FirstDq(u, nqn, i)
      BY <1>9, <3>1 DEF FirstDq
    <3> QED BY <1>6, <1>9, <3>1, <3>2
  <2>4. Queued(u)
    BY <1>9, <1>10, <2>3, AllButOne
  <2>5. Calm /\ u.ports # <<>> => \A p \in Ports : HasPage(u, nqn, p)
    BY <1>3, <1>9, <2>2 DEF Right, AllPages, HasPage
  <2>6. Calm => AllPages(u)
    BY <1>9, <1>10, <2>4, <2>5, PagesOfAll DEF Queued, Shape
  <2> QED BY <2>1, <2>4, <2>6 DEF Right
<1>12. CASE old = <<>>
  <2> DEFINE i == DqOf(u, nqn)
  <2>1. /\ i = 0 => \A j \in DOMAIN u.dqs : u.dqs[j].subsys # nqn
        /\ i # 0 => FirstDq(u, nqn, i)
    BY <1>9, DqFound
  <2>2. CASE i = 0
    <3> DEFINE v == CreateOnPorts(u, nqn)
               L == Len(v.dqs)
    <3>1. tg' = v
      BY <1>7, <1>12, <2>2 DEF _reset_subsys_dq
    <3>2. Shape(u) /\ Points(u) /\ (Calm => FirstPort(u))
      BY <1>9 DEF QueuedBut
    <3>3. /\ v.subs = u.subs /\ v.ports = u.ports /\ PagesKept(v, u)
          /\ QueuedBut(v, nqn)
          /\ Calm /\ u.ports # <<>> =>
                /\ FirstDq(v, nqn, L) /\ v.dqs[L].host = u.subs[k].hosts[1]
                /\ \A p \in Ports : HasPage(v, nqn, p)
      BY <1>9, <1>10, <2>1, <2>2, <3>2, CreateQueued
    <3> HIDE DEF v
    <3>4. Calm /\ v.ports # <<>> =>
              \E j \in DOMAIN v.dqs : FirstDq(v, nqn, j) /\ Contains(v.subs[k].hosts, v.dqs[j].host)
      <4> SUFFICES ASSUME Calm, v.ports # <<>>
                   PROVE  \E j \in DOMAIN v.dqs :
                              FirstDq(v, nqn, j) /\ Contains(v.subs[k].hosts, v.dqs[j].host)
        OBVIOUS
      <4>1. FirstDq(v, nqn, L) /\ v.dqs[L].host = h
        BY <1>6, <1>9, <1>12, <3>3
      <4>2. L \in DOMAIN v.dqs
        BY <4>1 DEF FirstDq
      <4> QED BY <1>6, <1>9, <3>3, <4>1, <4>2
    <3>5. Queued(v)
      BY <1>9, <1>10, <3>3, <3>4, AllButOne
    <3>6. Calm => PagesBut(v, nqn)
      <4>1. \A m \in DOMAIN u.subs : u.subs[m].nqn \in Listed(u)
        BY DEF Listed
      <4> QED BY <1>9, <3>3, <4>1 DEF PagesBut, PagesKept
    <3>7. Calm => AllPages(v)
      BY <1>9, <1>10, <3>3, <3>5, <3>6, PagesOfAll DEF Queued, Shape
    <3> QED BY <3>1, <3>5, <3>7 DEF Right
  <2>3. CASE i # 0
    <3> DEFINE v == SetHost(u, i, h)
    <3>1. tg' = refresh_log_pages(v)
      BY <1>7, <1>12, <2>3 DEF _reset_subsys_dq, SetHost
    <3> HIDE DEF i
    <3>2. FirstDq(u, nqn, i) /\ i \in DOMAIN u.dqs /\ u.dqs[i].subsys = nqn
      BY <2>1, <2>3 DEF FirstDq
    <3>3. /\ v.subs = u.subs /\ DOMAIN v.dqs = DOMAIN u.dqs /\ v.dqs[i].host = h
          /\ \A j \in DOMAIN u.dqs : v.dqs[j].subsys = u.dqs[j].subsys
          /\ QueuedBut(v, nqn)
      <4>1. h \in Hosts \cup {shared_nqn}
        OBVIOUS
      <4>2. /\ v.subs = u.subs /\ DOMAIN v.dqs = DOMAIN u.dqs
            /\ \A j \in DOMAIN u.dqs : /\ v.dqs[j].subsys = u.dqs[j].subsys
                                       /\ v.dqs[j].port = u.dqs[j].port
                                       /\ v.dqs[j].host = IF j = i THEN h ELSE u.dqs[j].host
            /\ \A x : QueuedBut(u, x) /\ u.dqs[i].subsys = x => QueuedBut(v, x)
        BY <1>9, <3>2, <4>1, DqHost
      <4> HIDE DEF v
      <4> QED BY <1>9, <3>2, <4>2
    <3> HIDE DEF v
    <3>4. FirstDq(v, nqn, i) /\ i \in DOMAIN v.dqs
      BY <3>2, <3>3 DEF FirstDq
    <3>5. Contains(v.subs[k].hosts, v.dqs[i].host)
      BY <1>6, <1>9, <3>3
    <3>6. Queued(v)
      BY <1>9, <1>10, <3>3, <3>4, <3>5, AllButOne
    <3> QED BY <3>1, <3>6, RefreshRight
  <2> QED BY <2>2, <2>3
<1> QED BY <1>11, <1>12

\* The queue of a subsystem passes to a host that is left, or goes.
LEMMA unlink_hostRight ==
    ASSUME Reach, Right(tg), NEW nqn \in Subsystems, NEW h \in Hosts, unlink_host(nqn, h)
    PROVE  Right(tg')
<1>1. /\ nqn \in Listed(tg)
      /\ tg' = _reset_subsys_dq_nqn(
                   [tg EXCEPT !.subs[Pos(nqn)].hosts = Only(@, Hosts \ {h})], nqn, h)
  BY DEF unlink_host, Step
<1>2. tg \in Target /\ NamesApart(tg) /\ Queued(tg)
  BY DEF Right, Queued, Shape
<1>3. PICK k \in DOMAIN tg.subs : tg.subs[k].nqn = nqn
  BY <1>1 DEF Listed
<1>4. Pos(nqn) = k
  BY <1>2, <1>3, PosFound
<1> DEFINE old == tg.subs[k].hosts
           hs == Only(old, Hosts \ {h})
           u == [tg EXCEPT !.subs[k].hosts = hs]
           i == DqOf(u, nqn)
<1>5. old \in Seq(Hosts)
  BY <1>2, TargetFields DEF Sub
<1>6. /\ hs \in Seq(Hosts)
      /\ \A z : Contains(old, z) /\ z # h => Contains(hs, z)
      /\ hs # <<>> => old # <<>> /\ hs[1] \in Hosts /\ Contains(hs, hs[1])
  <2>1. hs \in Seq(Hosts) /\ Picked(hs, old, Hosts \ {h}, Len(old))
    BY <1>5, OnlyPicked
  <2> HIDE DEF hs
  <2>2. /\ Len(old) \in Nat /\ \A j \in 1..Len(old) : old[j] \in Hosts
        /\ Len(hs) \in Nat /\ \A j \in 1..Len(hs) : hs[j] \in Hosts
    BY <1>5, <2>1, LenProperties
  <2>3. ASSUME NEW z, Contains(old, z), z # h PROVE Contains(hs, z)
    <3>1. PICK j \in 1..Len(old) : old[j] = z
      BY <2>3 DEF Contains
    <3>2. old[j] \in Hosts \ {h}
      BY <2>2, <2>3, <3>1
    <3> QED BY <2>1, <3>1, <3>2 DEF Picked, Contains
  <2>4. ASSUME hs # <<>> PROVE old # <<>> /\ hs[1] \in Hosts /\ Contains(hs, hs[1])
    <3>1. 1 \in 1..Len(hs)
      BY <2>1, <2>2, <2>4, EmptySeq
    <3>2. PICK e \in [1..Len(hs) -> 1..Len(old)] : TRUE
      BY <2>1 DEF Picked
    <3>3. e[1] \in 1..Len(old)
      BY <3>1, <3>2
    <3>4. old # <<>>
      BY <3>3
    <3> QED BY <2>2, <3>1, <3>4 DEF Contains
  <2> QED BY <2>1, <2>3, <2>4
<1>7. tg' = _reset_subsys_dq_nqn(u, nqn, h)
  BY <1>1, <1>4
<1> HIDE DEF hs
<1>8. QueuedBut(tg, nqn) /\ (Calm => PagesBut(tg, nqn))
  BY ButNone DEF Right
<1>9. /\ u \in Target /\ u.ports = tg.ports /\ u.dqs = tg.dqs /\ u.pages = tg.pages
      /\ DOMAIN u.subs = DOMAIN tg.subs
      /\ u.subs[k].nqn = nqn /\ u.subs[k].open = tg.subs[k].open /\ u.subs[k].hosts = hs
      /\ QueuedBut(u, nqn) /\ (Calm => PagesBut(u, nqn))
  <2>1. tg.subs[k].open => hs = <<>>
    BY <1>2, <1>6 DEF Queued, Shape, OpenToAll
  <2> QED BY <1>2, <1>3, <1>6, <1>8, <2>1, WithHosts
<1>10. SubOf(u, nqn) = u.subs[k] /\ k \in DOMAIN u.subs
  BY <1>9, SubFound DEF QueuedBut, Shape
<1> HIDE DEF u
<1>11. /\ i = 0 => \A j \in DOMAIN u.dqs : u.dqs[j].subsys # nqn
       /\ i # 0 => FirstDq(u, nqn, i)
  BY <1>9, DqFound
<1>12. \/ tg' = u /\ (i = 0 \/ u.dqs[i].host # h)
       \/ i # 0 /\ hs = <<>> /\ tg' = refresh_log_pages([u EXCEPT !.dqs = RemoveAt(@, i)])
       \/ i # 0 /\ hs # <<>> /\ tg' = refresh_log_pages(SetHost(u, i, hs[1]))
  BY <1>7, <1>9, <1>10 DEF _reset_subsys_dq_nqn, SetHost
<1> HIDE DEF i
<1>13. /\ Restricted(u.subs[k]) => Restricted(tg.subs[k])
       /\ Usable(u.subs[k]) => Usable(tg.subs[k])
  BY <1>6, <1>9 DEF Restricted, Usable
<1>14. \A j : FirstDq(tg, nqn, j) => FirstDq(u, nqn, j)
  BY <1>9 DEF FirstDq
<1>15. CASE tg' = u /\ (i = 0 \/ u.dqs[i].host # h)
  <2>1. ASSUME Calm, u.ports # <<>>, Restricted(u.subs[k])
        PROVE  \E j \in DOMAIN u.dqs : FirstDq(u, nqn, j) /\ Contains(u.subs[k].hosts, u.dqs[j].host)
    <3>1. PICK j \in DOMAIN tg.dqs : FirstDq(tg, nqn, j) /\ Contains(old, tg.dqs[j].host)
      BY <1>2, <1>3, <1>9, <1>13, <2>1 DEF Queued, Covered
    <3>2. FirstDq(u, nqn, j) /\ i # 0
      BY <1>9, <1>11, <1>14, <3>1 DEF FirstDq
    <3>3. j = i
      BY <1>9, <1>11, <3>2, FirstOnly
    <3> QED BY <1>6, <1>9, <1>15, <3>1, <3>2, <3>3
  <2>2. Queued(u)
    BY <1>9, <1>10, <2>1, AllButOne
  <2>3. Calm /\ u.ports # <<>> /\ Usable(u.subs[k]) => \A p \in Ports : HasPage(u, nqn, p)
    BY <1>3, <1>9, <1>13 DEF Right, AllPages, HasPage
  <2>4. Calm => AllPages(u)
    BY <1>9, <1>10, <2>2, <2>3, PagesOfAll DEF Queued, Shape
  <2> QED BY <1>15, <2>2, <2>4 DEF Right
<1>16. CASE i # 0 /\ hs = <<>> /\ tg' = refresh_log_pages([u EXCEPT !.dqs = RemoveAt(@, i)])
  <2> DEFINE v == [u EXCEPT !.dqs = RemoveAt(@, i)]
  <2>1. i \in DOMAIN u.dqs /\ u.dqs[i].subsys = nqn /\ nqn # NONE
    BY <1>11, <1>16, DiscoveryQueuesAssumption DEF FirstDq
  <2>2. v.subs = u.subs /\ QueuedBut(v, nqn)
    BY <1>9, <2>1, DqRemoved
  <2> HIDE DEF v
  <2>3. ~Restricted(v.subs[k])
    BY <1>9, <1>16, <2>2 DEF Restricted
  <2>4. Queued(v)
    BY <1>9, <1>10, <2>2, <2>3, AllButOne
  <2>5. tg' = refresh_log_pages(v)
    BY <1>16 DEF v
  <2> QED BY <2>4, <2>5, RefreshRight
<1>17. CASE i # 0 /\ hs # <<>> /\ tg' = refresh_log_pages(SetHost(u, i, hs[1]))
  <2> DEFINE v == SetHost(u, i, hs[1])
  <2>1. /\ i \in DOMAIN u.dqs /\ u.dqs[i].subsys = nqn /\ FirstDq(u, nqn, i)
        /\ hs[1] \in Hosts \cup {shared_nqn}
    BY <1>6, <1>11, <1>17 DEF FirstDq
  <2>2. /\ v.subs = u.subs /\ DOMAIN v.dqs = DOMAIN u.dqs
        /\ \A j \in DOMAIN u.dqs : /\ v.dqs[j].subsys = u.dqs[j].subsys
                                   /\ v.dqs[j].port = u.dqs[j].port
                                   /\ v.dqs[j].host = IF j = i THEN hs[1] ELSE u.dqs[j].host
        /\ \A x : QueuedBut(u, x) /\ u.dqs[i].subsys = x => QueuedBut(v, x)
    BY <1>9, <2>1, DqHost
  <2> HIDE DEF v
  <2>3. QueuedBut(v, nqn) /\ FirstDq(v, nqn, i) /\ i \in DOMAIN v.dqs
    BY <1>9, <2>1, <2>2 DEF FirstDq
  <2>4. Contains(v.subs[k].hosts, v.dqs[i].host)
    BY <1>6, <1>9, <1>17, <2>1, <2>2
  <2>5. Queued(v)
    BY <1>9, <1>10, <2>2, <2>3, <2>4, AllButOne
  <2>6. tg' = refresh_log_pages(v)
    BY <1>17 DEF v
  <2> QED BY <2>5, <2>6, RefreshRight
<1> QED BY <1>12, <1>15, <1>16, <1>17

\* One subsystem of those that update_host goes through.
LEMMA ChangeHostRight ==
    ASSUME Reach, NEW w, Right(w), NEW k \in DOMAIN w.subs, NEW h \in Hosts, NEW new \in Hosts
    PROVE  LET v == ChangeHost(w, k, h, new)
           IN  Right(v) /\ Len(v.subs) = Len(w.subs)
<1> DEFINE old == w.subs[k].hosts
           nqn == w.subs[k].nqn
           hs == [j \in DOMAIN old |-> IF old[j] = h THEN new ELSE old[j]]
           u == [w EXCEPT !.subs[k].hosts = hs]
           i == DqOf(u, nqn)
           v == ChangeHost(w, k, h, new)
<1>1. w \in Target /\ NamesApart(w) /\ Queued(w)
  BY DEF Right, Queued, Shape
<1>2. CASE ~Contains(old, h)
  BY <1>2 DEF ChangeHost
<1>3. CASE Contains(old, h)
  <2>1. old \in Seq(Hosts) /\ nqn \in Subsystems
    BY <1>1, TargetFields DEF Sub
  <2>2. Len(old) \in Nat /\ DOMAIN old = 1..Len(old) /\ \A j \in DOMAIN old : old[j] \in Hosts
    BY <2>1, LenProperties
  <2>3. /\ hs \in Seq(Hosts) /\ hs # <<>> /\ Contains(hs, new)
        /\ \A z : Contains(old, z) /\ z # h => Contains(hs, z)
    <3>1. /\ hs \in Seq(Hosts) /\ Len(hs) = Len(old)
          /\ \A j \in 1..Len(old) : hs[j] = IF old[j] = h THEN new ELSE old[j]
      BY <2>2, IsASeq, LenProperties
    <3> HIDE DEF hs
    <3>2. PICK j \in 1..Len(old) : old[j] = h
      BY <1>3 DEF Contains
    <3>3. Contains(hs, new)
      BY <3>1, <3>2 DEF Contains
    <3>4. hs # <<>>
      BY <3>1, <3>2
    <3>5. \A z : Contains(old, z) /\ z # h => Contains(hs, z)
      BY <3>1 DEF Contains
    <3> QED BY <3>1, <3>3, <3>4, <3>5
  <2>4. v = _update_subsys_dq(u, nqn, h, new)
    BY <1>3 DEF ChangeHost
  <2> HIDE DEF hs, v
  <2>5. QueuedBut(w, nqn) /\ (Calm => PagesBut(w, nqn))
    BY ButNone DEF Right
  <2>6. /\ u \in Target /\ u.ports = w.ports /\ u.dqs = w.dqs /\ u.pages = w.pages
        /\ DOMAIN u.subs = DOMAIN w.subs /\ Len(u.subs) = Len(w.subs)
        /\ u.subs[k].nqn = nqn /\ u.subs[k].open = w.subs[k].open /\ u.subs[k].hosts = hs
        /\ QueuedBut(u, nqn) /\ (Calm => PagesBut(u, nqn))
    <3>1. ~w.subs[k].open
      <4>1. old # <<>>
        BY <1>3 DEF Contains
      <4> QED BY <1>1, <4>1 DEF Queued, Shape, OpenToAll
    <3> QED BY <1>1, <2>3, <2>5, <3>1, WithHosts
  <2>7. SubOf(u, nqn) = u.subs[k] /\ k \in DOMAIN u.subs
    BY <2>6, SubFound DEF QueuedBut, Shape
  <2> HIDE DEF u, nqn
  <2>8. /\ i = 0 => \A j \in DOMAIN u.dqs : u.dqs[j].subsys # nqn
        /\ i # 0 => FirstDq(u, nqn, i)
    BY <2>6, DqFound
  <2>9. \/ v = u /\ (i = 0 \/ u.dqs[i].host # h)
        \/ i # 0 /\ v = refresh_log_pages(SetHost(u, i, new))
    BY <2>3, <2>4, <2>6, <2>7 DEF _update_subsys_dq, SetHost
  <2> HIDE DEF i
  <2>10. /\ Restricted(u.subs[k]) => Restricted(w.subs[k])
         /\ Usable(u.subs[k]) => Usable(w.subs[k])
    <3>1. old # <<>>
      BY <1>3, <2>2 DEF Contains
    <3> QED BY <2>6, <3>1 DEF Restricted, Usable
  <2>11. CASE v = u /\ (i = 0 \/ u.dqs[i].host # h)
    <3>1. ASSUME Calm, u.ports # <<>>, Restricted(u.subs[k])
          PROVE  \E j \in DOMAIN u.dqs : FirstDq(u, nqn, j) /\ Contains(u.subs[k].hosts, u.dqs[j].host)
      <4>1. PICK j \in DOMAIN w.dqs : FirstDq(w, nqn, j) /\ Contains(old, w.dqs[j].host)
        BY <1>1, <2>6, <2>10, <3>1 DEF Queued, Covered, nqn
      <4>2. FirstDq(u, nqn, j) /\ i # 0
        BY <2>6, <2>8, <4>1 DEF FirstDq
      <4>3. j = i
        BY <2>6, <2>8, <4>2, FirstOnly
      <4> QED BY <2>3, <2>6, <2>11, <4>1, <4>2, <4>3
    <3>2. Queued(u)
      BY <2>6, <2>7, <3>1, AllButOne
    <3>3. Calm /\ u.ports # <<>> /\ Usable(u.subs[k]) => \A p \in Ports : HasPage(u, nqn, p)
      BY <2>6, <2>10 DEF Right, AllPages, HasPage, nqn
    <3>4. Calm => AllPages(u)
      BY <2>6, <2>7, <3>2, <3>3, PagesOfAll DEF Queued, Shape
    <3> QED BY <2>6, <2>11, <3>2, <3>4 DEF Right, v
  <2>12. CASE i # 0 /\ v = refresh_log_pages(SetHost(u, i, new))
    <3> DEFINE y == SetHost(u, i, new)
    <3>1. /\ i \in DOMAIN u.dqs /\ u.dqs[i].subsys = nqn /\ FirstDq(u, nqn, i)
          /\ new \in Hosts \cup {shared_nqn}
      BY <2>8, <2>12 DEF FirstDq
    <3>2. /\ y.subs = u.subs /\ DOMAIN y.dqs = DOMAIN u.dqs
          /\ \A j \in DOMAIN u.dqs : /\ y.dqs[j].subsys = u.dqs[j].subsys
                                     /\ y.dqs[j].port = u.dqs[j].port
                                     /\ y.dqs[j].host = IF j = i THEN new ELSE u.dqs[j].host
          /\ \A x : QueuedBut(u, x) /\ u.dqs[i].subsys = x => QueuedBut(y, x)
      BY <2>6, <3>1, DqHost
    <3> HIDE DEF y
    <3>3. QueuedBut(y, nqn) /\ FirstDq(y, nqn, i) /\ i \in DOMAIN y.dqs
      BY <2>6, <3>1, <3>2 DEF FirstDq
    <3>4. Contains(y.subs[k].hosts, y.dqs[i].host)
      BY <2>3, <2>6, <3>1, <3>2
    <3>5. Queued(y)
      BY <2>6, <2>7, <3>2, <3>3, <3>4, AllButOne
    <3>6. v = refresh_log_pages(y)
      BY <2>12 DEF y
    <3>7. Right(v) /\ v.subs = y.subs
      BY <3>5, <3>6, RefreshRight
    <3> QED BY <2>6, <3>2, <3>7 DEF v
  <2> QED BY <2>9, <2>11, <2>12
<1> QED BY <1>2, <1>3

\* The loop of update_host, an induction over the subsystems.
LEMMA update_hostRight ==
    ASSUME Reach, Right(tg), NEW h \in Hosts, NEW new \in Hosts, update_host(h, new)
    PROVE  Right(tg')
<1> DEFINE N == Len(tg.subs)
           V == {w \in Target : Right(w) /\ Len(w.subs) = N}
           g == [n \in 1..N |-> [w \in V |-> ChangeHost(w, n, h, new)]]
           changed[n \in 0..N] ==
               IF n = 0 THEN tg ELSE ChangeHost(changed[n - 1], n, h, new)
<1>1. tg' = changed[N]
  BY DEF update_host, Step
<1>2. tg \in Target
  BY DEF Right, Queued, Shape
<1>3. N \in Nat /\ tg \in V
  BY <1>2, TargetFields
<1>4. ASSUME NEW n \in 1..N, NEW w \in V PROVE ChangeHost(w, n, h, new) \in V
  <2>1. n \in DOMAIN w.subs
    BY TargetFields
  <2>2. Right(ChangeHost(w, n, h, new)) /\ Len(ChangeHost(w, n, h, new).subs) = N
    BY <2>1, ChangeHostRight
  <2>3. ChangeHost(w, n, h, new) \in Target
    BY <2>2 DEF Right, Queued, Shape
  <2> QED BY <2>2, <2>3
<1> HIDE DEF N, V
<1>5. g \in [1..N -> [V -> V]]
  BY <1>4
<1>6. PICK f : Iterates(f, N, V, tg, g)
  <2> HIDE DEF g
  <2> QED BY <1>3, <1>5, Iterate
<1>7. f \in [0..N -> V] /\ f[0] = tg /\ \A n \in 1..N : f[n] = ChangeHost(f[n - 1], n, h, new)
  <2>1. f \in [0..N -> V] /\ f[0] = tg /\ \A n \in 1..N : f[n] = g[n][f[n - 1]]
    BY <1>6 DEF Iterates
  <2>2. \A n \in 1..N : n - 1 \in 0..N
    BY <1>3
  <2> QED BY <2>1, <2>2
<1>8. f = [n \in 0..N |-> IF n = 0 THEN tg ELSE ChangeHost(f[n - 1], n, h, new)]
  <2>1. \A n \in 0..N : n = 0 \/ n \in 1..N
    BY <1>3
  <2>2. \A n \in 0..N : f[n] = IF n = 0 THEN tg ELSE ChangeHost(f[n - 1], n, h, new)
    BY <1>7, <2>1
  <2> QED BY <1>7, <2>2
<1>9. changed = [n \in 0..N |-> IF n = 0 THEN tg ELSE ChangeHost(changed[n - 1], n, h, new)]
  <2> HIDE DEF g
  <2> QED BY <1>8
<1> HIDE DEF changed, g
<1>10. changed[0] = tg /\ \A n \in 1..N : changed[n] = ChangeHost(changed[n - 1], n, h, new)
  <2>1. 0 \in 0..N /\ \A n \in 1..N : n \in 0..N /\ n # 0
    BY <1>3
  <2>2. \A n \in 0..N : changed[n] = IF n = 0 THEN tg ELSE ChangeHost(changed[n - 1], n, h, new)
    BY <1>9
  <2> QED BY <2>1, <2>2
<1> DEFINE S == {n \in Nat : n <= N => changed[n] \in V}
<1>11. 0 \in S
  BY <1>3, <1>10
<1>12. ASSUME NEW n \in Nat, n \in S PROVE n + 1 \in S
  <2> SUFFICES ASSUME n + 1 <= N PROVE changed[n + 1] \in V
    OBVIOUS
  <2>1. n + 1 \in 1..N /\ (n + 1) - 1 = n /\ changed[n] \in V
    BY <1>3, <1>12
  <2> QED BY <1>4, <1>10, <2>1
<1> HIDE DEF S
<1>13. N \in S
  BY <1>3, <1>11, <1>12, Induct
<1> QED BY <1>1, <1>3, <1>13 DEF S, V

(***************************************************************************)
(* The theorems.                                                           *)
(***************************************************************************)
\* The inductive invariant: the machine is in reach if nothing else may happen,
\* and the target is as every operation leaves it, until a subsystem goes that
\* has several queues.  They pile up when subsystems are set again (EditSubsys),
\* and del_subsys takes only the first one with it.
IInv == /\ ops \in OpSets /\ stale \in BOOLEAN /\ Reach
        /\ tg \in Target
        /\ ~stale => Right(tg)

\* The invariant holds when dem has started.
LEMMA InitIInv == Init => IInv
<1> SUFFICES ASSUME Init PROVE IInv
  OBVIOUS
<1>1. /\ ops \in OpSets /\ stale = FALSE /\ link = [p \in Ports |-> "up"]
      /\ tg = Started(InitSubs, InitPorts)
  BY DEF Init
<1>2. LinkOK /\ AllUp
  BY <1>1 DEF LinkOK, AllUp
<1>3. /\ InitSubs \in Seq(Sub) /\ InitPorts \in Seq(Ports)
      /\ \A i, j \in DOMAIN InitSubs : InitSubs[i].nqn = InitSubs[j].nqn => i = j
      /\ OpenToAll(InitSubs)
      /\ \A i, j \in DOMAIN InitPorts : InitPorts[i] = InitPorts[j] => i = j
  BY DiscoveryQueuesAssumption DEF Sub, OpenToAll
<1>4. /\ Shape(tg) /\ Points(tg) /\ Single(tg) /\ FirstPort(tg) /\ Covered(tg)
      /\ AllUp => AllPages(tg)
  BY <1>1, <1>2, <1>3, StartedRight
<1>5. Right(tg)
  BY <1>2, <1>4 DEF Right, Queued
<1> QED BY <1>1, <1>2, <1>4, <1>5 DEF IInv, Reach, Shape

\* Every step keeps it.
LEMMA NextIInv ==
    ASSUME IInv, [Next]_vars
    PROVE  IInv'
<1>1. ops \in OpSets /\ stale \in BOOLEAN /\ Reach /\ tg \in Target
  BY DEF IInv
<1>2. ASSUME UNCHANGED <<tg, link, ops, stale>> PROVE IInv'
  BY <1>2 DEF IInv, Reach, LinkOK, Calm, AllUp, Right, Queued
<1>3. CASE UNCHANGED vars
  BY <1>2, <1>3 DEF vars
<1>4. CASE stale
  BY <1>2, <1>3, <1>4 DEF Next, Undefined
<1>5. CASE ~stale /\ Defined
  <2>1. Right(tg)
    BY <1>5 DEF IInv
  <2>2. ASSUME stale' \in BOOLEAN, tg' \in Target, ~stale' => Right(tg'), UNCHANGED <<link, ops>>
        PROVE  IInv'
    <3>1. ~stale' => Right(tg)'
      BY <2>2 DEF Right, Queued, Calm
    <3> QED BY <1>1, <2>2, <3>1 DEF IInv, Reach, LinkOK, Calm, AllUp
  <2>3. ASSUME Right(tg'), UNCHANGED <<link, ops, stale>> PROVE IInv'
    BY <1>1, <2>2, <2>3 DEF Right, Queued, Shape
  <2>4. ASSUME NEW n \in Subsystems, NEW o \in BOOLEAN, AddSubsys(n, o) PROVE IInv'
    BY <1>1, <2>1, <2>3, <2>4, AddSubsysRight DEF AddSubsys, Step
  <2>5. ASSUME NEW n \in Subsystems, NEW o \in BOOLEAN, EditSubsys(n, o) PROVE IInv'
    BY <1>1, <2>1, <2>3, <2>5, EditSubsysRight DEF EditSubsys, Step
  <2>6. ASSUME NEW n \in Subsystems, del_subsys(n) PROVE IInv'
    <3>1. stale' = Several(n) /\ UNCHANGED <<link, ops>>
      BY <2>6 DEF del_subsys
    <3>2. tg' \in Target /\ (~Several(n) => Right(tg'))
      BY <1>1, <2>1, <2>6, del_subsysRight
    <3>3. Several(n) \in BOOLEAN
      BY DEF Several
    <3> QED BY <2>2, <3>1, <3>2, <3>3
  <2>7. ASSUME NEW n \in Subsystems, NEW h \in Hosts, link_host(n, h) PROVE IInv'
    BY <1>1, <2>1, <2>3, <2>7, link_hostRight DEF link_host, Step
  <2>8. ASSUME NEW n \in Subsystems, NEW h \in Hosts, unlink_host(n, h) PROVE IInv'
    BY <1>1, <2>1, <2>3, <2>8, unlink_hostRight DEF unlink_host, Step
  <2>9. ASSUME NEW h \in Hosts, NEW new \in Hosts, update_host(h, new) PROVE IInv'
    BY <1>1, <2>1, <2>3, <2>9, update_hostRight DEF update_host, Step
  <2>10. ASSUME NEW p \in Ports, set_portid(p) PROVE IInv'
    BY <1>1, <2>1, <2>3, <2>10, set_portidRight DEF set_portid, Step
  <2>11. ASSUME NEW p \in Ports, del_portid(p) PROVE IInv'
    BY <1>1, <2>1, <2>3, <2>11, del_portidRight DEF del_portid, Step
  <2>12. CASE target_refresh
    BY <1>1, <2>1, <2>3, <2>12, target_refreshRight DEF target_refresh, Step
  <2>13. CASE periodic_work
    BY <1>1, <2>1, <2>3, <2>13, periodic_workRight DEF periodic_work
  <2>14. CASE Restart
    BY <1>1, <2>1, <2>3, <2>14, RestartRight DEF Restart, Step
  <2>15. ASSUME NEW p \in Ports, NEW s \in {"up", "down", "mute"}, Outage(p, s) PROVE IInv'
    <3>1. "fail" \in ops /\ UNCHANGED <<tg, ops, stale>> /\ link' = [link EXCEPT ![p] = s]
      BY <2>15 DEF Outage
    <3>2. ~Calm /\ ~Calm'
      BY <3>1 DEF Calm
    <3>3. LinkOK'
      BY <1>1, <3>1 DEF Reach, LinkOK
    <3>4. Right(tg)'
      BY <2>1, <3>1 DEF Right, Queued, Calm
    <3> QED BY <1>1, <3>1, <3>2, <3>3, <3>4 DEF IInv, Reach
  <2> QED BY <1>5, <2>4, <2>5, <2>6, <2>7, <2>8, <2>9, <2>10, <2>11, <2>12, <2>13, <2>14, <2>15
          DEF Defined
<1> QED BY <1>3, <1>4, <1>5 DEF Next

\* So it holds always.
LEMMA Invariant == Spec => []IInv
<1>1. Init => IInv
  BY InitIInv
<1>2. IInv /\ [Next]_vars => IInv'
  BY NextIInv
<1> QED BY <1>1, <1>2, PTL DEF Spec

\* While the machine is in reach and its ports stay, every subsystem that some
\* host may use has a valid page for each port, after every operation on
\* subsystems and hosts, refresh, poll and restart (PagesComplete).
THEOREM PagesAreComplete == Spec => []PagesComplete
<1>1. IInv => PagesComplete
  <2> SUFFICES ASSUME Right(tg), Calm, NEW i \in DOMAIN tg.subs, Usable(tg.subs[i]),
                      NEW p \in Range(tg.ports)
               PROVE  \E g \in tg.pages : g.nqn = tg.subs[i].nqn /\ g.port = p /\ g.valid
    BY DEF IInv, PagesComplete, Complete, Calm
  <2>1. tg \in Target
    BY DEF Right, Queued, Shape
  <2>2. p \in Ports /\ tg.ports # <<>>
    BY <2>1, TargetFields DEF Range
  <2> QED BY <2>2 DEF Right, AllPages, HasPage
<1> QED BY <1>1, Invariant, PTL

\* The target keeps its shape, and its queues point to subsystems and ports that
\* it has, over all operations of clients, restarts and outages in any order: the
\* deletion of a subsystem that has several queues is the only way to a pointer
\* that is stale (QueuesValid).
THEOREM QueuesAreValid == Spec => []QueuesValid
<1>1. IInv => QueuesValid
  BY DEF IInv, Right, Queued, Points, QueuesValid
<1> QED BY <1>1, Invariant, PTL

================================================================================
