---------------------------- MODULE HostPagesProofs ----------------------------
(***************************************************************************)
(* The log pages of a host, for every set of keys and of data: what a      *)
(* fetch makes of them, what dem-ac (AutoConnect, for all bounds) connects *)
(* to, and what dem-dm (DiscoveryMonitor) tells its user.                  *)
(***************************************************************************)
EXTENDS AutoConnect, TLAPS

VARIABLES told, current, forgotten    \* those that only dem-dm has

Dm == INSTANCE DiscoveryMonitor WITH connected <- up

(***************************************************************************)
(* A fetch.                                                                *)
(***************************************************************************)
\* No page is marked as deleted (true of what the two daemons keep from one
\* turn of their main loops to the next).
NoneDeleted(had) == \A p \in had : p.valid # "DELETED"

OnePerKey(had) == \A p, q \in had : p.key = q.key => p = q

\* invalidate_log_pages marks the pages, and changes nothing else.
LEMMA InvalidateMarks ==
    ASSUME NEW had \in SUBSET Page
    PROVE  /\ invalidate_log_pages(had) \in SUBSET Page
           /\ KeysOf(invalidate_log_pages(had)) = KeysOf(had)
           /\ \A p \in invalidate_log_pages(had) :
                 /\ p.valid = "DELETED"
                 /\ \E q \in had : p.key = q.key /\ p = [q EXCEPT !.valid = "DELETED"]
<1> DEFINE Deleted(q) == [q EXCEPT !.valid = "DELETED"]
<1>1. \A q \in had : Deleted(q) \in Page /\ Deleted(q).key = q.key /\ Deleted(q).valid = "DELETED"
  BY DEF Page
<1>2. invalidate_log_pages(had) = {Deleted(q) : q \in had}
  BY DEF invalidate_log_pages
<1> HIDE DEF Deleted
<1>3. KeysOf({Deleted(q) : q \in had}) = KeysOf(had)
  BY <1>1 DEF KeysOf
<1>4. \A p \in {Deleted(q) : q \in had} :
          p.valid = "DELETED" /\ \E q \in had : p.key = q.key /\ p = Deleted(q)
  BY <1>1
<1> QED BY <1>1, <1>2, <1>3, <1>4 DEF Deleted

\* After a fetch the pages that are not deleted are those of the log, and the
\* deleted ones are those of the old pages that the log does not have
\* (save_log_pages).
THEOREM FetchSorts ==
    ASSUME NEW had \in SUBSET Page, NEW entries \in SUBSET Entry
    PROVE  LET ps == fetch_log_pages(had, entries, "ok")
           IN  /\ ps \in SUBSET Page
               /\ KeysOf({p \in ps : p.valid # "DELETED"}) = KeysOf(entries)
               /\ KeysOf({p \in ps : p.valid = "DELETED"}) = KeysOf(had) \ KeysOf(entries)
               /\ KeysOf({p \in ps : p.valid = "NEW"}) = KeysOf(entries) \ KeysOf(had)
<1> DEFINE inv == invalidate_log_pages(had)
           Marked(p) == [p EXCEPT !.valid = IF p.key \in KeysOf(entries) THEN "VALID" ELSE @]
           Fresh(e) == [key |-> e.key, data |-> e.data, valid |-> "NEW", connected |-> FALSE]
           old == {Marked(p) : p \in inv}
           new == {Fresh(e) : e \in {f \in entries : f.key \notin KeysOf(inv)}}
           ps  == fetch_log_pages(had, entries, "ok")
<1>1. ps = old \cup new
  BY DEF fetch_log_pages, Got, save_log_pages
<1>2. inv \in SUBSET Page /\ KeysOf(inv) = KeysOf(had) /\ \A p \in inv : p.valid = "DELETED"
  BY InvalidateMarks
<1> HIDE DEF inv
<1>a. \A p \in inv : /\ Marked(p) \in Page
                     /\ Marked(p).key = p.key
                     /\ p.key \in KeysOf(entries) => Marked(p).valid = "VALID"
                     /\ p.key \notin KeysOf(entries) => Marked(p).valid = "DELETED"
  BY <1>2 DEF Page
<1>b. \A p \in inv : p.key \in KeysOf(had)
  BY <1>2 DEF KeysOf
<1>c. \A k \in KeysOf(had) : \E p \in inv : p.key = k
  BY <1>2 DEF KeysOf
<1>d. \A e \in entries : /\ Fresh(e) \in Page /\ Fresh(e).key = e.key /\ Fresh(e).valid = "NEW"
  BY DEF Page, Entry
<1> HIDE DEF Marked, Fresh
<1>3. old \in SUBSET Page
  BY <1>a
<1>4. \A p \in old : /\ p.key \in KeysOf(had)
                     /\ p.key \in KeysOf(entries) => p.valid = "VALID"
                     /\ p.key \notin KeysOf(entries) => p.valid = "DELETED"
  BY <1>a, <1>b
<1>5. \A k \in KeysOf(had) : \E p \in old : p.key = k
  BY <1>a, <1>c
<1>6. new \in SUBSET Page
  BY <1>d
<1>7. \A p \in new : p.valid = "NEW" /\ p.key \in KeysOf(entries) \ KeysOf(had)
  BY <1>2, <1>d DEF KeysOf
<1>8. \A k \in KeysOf(entries) \ KeysOf(had) : \E p \in new : p.key = k
  BY <1>2, <1>d DEF KeysOf
<1> HIDE DEF old, new, ps
<1>9. KeysOf({p \in ps : p.valid # "DELETED"}) = KeysOf(entries)
  <2>1. \A p \in ps : p.valid # "DELETED" => p.key \in KeysOf(entries)
    BY <1>1, <1>4, <1>7
  <2>2. \A k \in KeysOf(entries) : \E p \in ps : p.key = k /\ p.valid # "DELETED"
    BY <1>1, <1>4, <1>5, <1>7, <1>8
  <2> QED BY <2>1, <2>2 DEF KeysOf
<1>10. KeysOf({p \in ps : p.valid = "DELETED"}) = KeysOf(had) \ KeysOf(entries)
  <2>1. \A p \in ps : p.valid = "DELETED" => p.key \in KeysOf(had) \ KeysOf(entries)
    BY <1>1, <1>4, <1>7
  <2>2. \A k \in KeysOf(had) \ KeysOf(entries) : \E p \in ps : p.key = k /\ p.valid = "DELETED"
    BY <1>1, <1>4, <1>5
  <2> QED BY <2>1, <2>2 DEF KeysOf
<1>11. KeysOf({p \in ps : p.valid = "NEW"}) = KeysOf(entries) \ KeysOf(had)
  <2>1. \A p \in ps : p.valid = "NEW" => p.key \in KeysOf(entries) \ KeysOf(had)
    BY <1>1, <1>4, <1>7
  <2>2. \A k \in KeysOf(entries) \ KeysOf(had) : \E p \in ps : p.key = k /\ p.valid = "NEW"
    BY <1>1, <1>7, <1>8
  <2> QED BY <2>1, <2>2 DEF KeysOf
<1> QED BY <1>1, <1>3, <1>6, <1>9, <1>10, <1>11 DEF ps

\* A fetch keeps one page for a key.
THEOREM FetchOnePerKey ==
    ASSUME NEW had \in SUBSET Page, NEW entries \in Logs, OnePerKey(had)
    PROVE  OnePerKey(fetch_log_pages(had, entries, "ok"))
<1> DEFINE inv == invalidate_log_pages(had)
           Marked(p) == [p EXCEPT !.valid = IF p.key \in KeysOf(entries) THEN "VALID" ELSE @]
           Fresh(e) == [key |-> e.key, data |-> e.data, valid |-> "NEW", connected |-> FALSE]
           old == {Marked(p) : p \in inv}
           new == {Fresh(e) : e \in {f \in entries : f.key \notin KeysOf(inv)}}
<1>1. fetch_log_pages(had, entries, "ok") = old \cup new
  BY DEF fetch_log_pages, Got, save_log_pages
<1>2. inv \in SUBSET Page /\ OnePerKey(inv)
  <2>1. \A p \in inv : \E q \in had : p.key = q.key /\ p = [q EXCEPT !.valid = "DELETED"]
    BY InvalidateMarks
  <2>2. inv \in SUBSET Page
    BY InvalidateMarks
  <2> QED BY <2>1, <2>2 DEF OnePerKey
<1> HIDE DEF inv
<1>a. \A p \in inv : Marked(p).key = p.key
  BY <1>2 DEF Page
<1>b. \A p \in inv : p.key \in KeysOf(inv)
  BY DEF KeysOf
<1>c. \A e \in entries : Fresh(e).key = e.key
  OBVIOUS
<1>d. \A e, f \in entries : e.key = f.key => e = f
  BY DEF Logs
<1> HIDE DEF Marked, Fresh
<1>3. OnePerKey(old) /\ \A p \in old : p.key \in KeysOf(inv)
  BY <1>2, <1>a, <1>b DEF OnePerKey
<1>4. OnePerKey(new) /\ \A p \in new : p.key \notin KeysOf(inv)
  BY <1>c, <1>d DEF OnePerKey
<1> HIDE DEF old, new
<1> QED BY <1>1, <1>3, <1>4 DEF OnePerKey

(***************************************************************************)
(* dem-ac.                                                                 *)
(***************************************************************************)
\* The inductive invariant.  That no page is marked as deleted between two
\* steps is what a fetch that fails needs: it cleans the pages up all the same.
IInv == /\ log \in Logs
        /\ pages \in SUBSET Page
        /\ fetched \in Logs
        /\ NoneDeleted(pages)
        /\ OnePerKey(pages)
        /\ KeysOf(pages) = KeysOf(fetched)

\* Marking and cleaning up keep the pages that are not deleted.
LEMMA TidyKeeps ==
    ASSUME NEW ps \in SUBSET Page, OnePerKey(ps)
    PROVE  LET tidy == cleanup_log_pages(mark_connected_subsystems(ps))
           IN  /\ tidy \in SUBSET Page
               /\ NoneDeleted(tidy)
               /\ OnePerKey(tidy)
               /\ KeysOf(tidy) = KeysOf({p \in ps : p.valid # "DELETED"})
<1> DEFINE Marked(p) == [p EXCEPT !.connected = p.key \in devs /\ p.valid = "VALID"]
           kept == {q \in ps : ~(q.key \in devs /\ q.valid = "DELETED")}
           marked == {Marked(p) : p \in kept}
           tidy == {p \in marked : p.valid # "DELETED"}
<1>1. cleanup_log_pages(mark_connected_subsystems(ps)) = tidy
  BY DEF cleanup_log_pages, mark_connected_subsystems
<1>2. \A p \in ps : Marked(p) \in Page /\ Marked(p).key = p.key /\ Marked(p).valid = p.valid
  BY DEF Page
<1> HIDE DEF Marked
<1>3. tidy \in SUBSET Page /\ NoneDeleted(tidy)
  BY <1>2 DEF NoneDeleted
<1>4. OnePerKey(tidy)
  BY <1>2 DEF OnePerKey
<1>5. KeysOf(tidy) = KeysOf({p \in ps : p.valid # "DELETED"})
  <2>1. \A p \in tidy : \E q \in ps : q.valid # "DELETED" /\ q.key = p.key
    BY <1>2
  <2>2. \A q \in ps : q.valid # "DELETED" => \E p \in tidy : p.key = q.key
    BY <1>2
  <2> QED BY <2>1, <2>2 DEF KeysOf
<1> QED BY <1>1, <1>3, <1>4, <1>5

\* A fetch that does not fail is one of the log that it gets.
LEMMA FetchGets ==
    ASSUME NEW had, NEW entries \in Logs, NEW res \in Results, res # "failed"
    PROVE  /\ Got(entries, res) \in Logs
           /\ fetch_log_pages(had, entries, res) = fetch_log_pages(had, Got(entries, res), "ok")
<1>1. Got(entries, res) \in Logs
  BY DEF Got, Logs
<1>2. Got(Got(entries, res), "ok") = Got(entries, res)
  BY DEF Got
<1> QED BY <1>1, <1>2 DEF fetch_log_pages

\* Blind marks keep them too.
LEMMA BlindKeeps ==
    ASSUME NEW ps \in SUBSET Page, OnePerKey(ps), NEW marks \in SUBSET Keys
    PROVE  LET tidy == cleanup_log_pages(mark_blindly(ps, marks))
           IN  /\ tidy \in SUBSET Page
               /\ NoneDeleted(tidy)
               /\ OnePerKey(tidy)
               /\ KeysOf(tidy) = KeysOf({p \in ps : p.valid # "DELETED"})
<1> DEFINE Marked(p) == [p EXCEPT !.connected = p.key \in marks]
           marked == {Marked(p) : p \in ps}
           tidy == {p \in marked : p.valid # "DELETED"}
<1>1. cleanup_log_pages(mark_blindly(ps, marks)) = tidy
  BY DEF cleanup_log_pages, mark_blindly
<1>2. \A p \in ps : Marked(p) \in Page /\ Marked(p).key = p.key /\ Marked(p).valid = p.valid
  <2> DEFINE With(p, b) == [p EXCEPT !.connected = b]
  <2>1. \A p \in ps, b \in BOOLEAN :
            With(p, b) \in Page /\ With(p, b).key = p.key /\ With(p, b).valid = p.valid
    BY DEF Page
  <2>2. \A p \in ps : (p.key \in marks) \in BOOLEAN /\ Marked(p) = With(p, p.key \in marks)
    OBVIOUS
  <2> HIDE DEF With, Marked
  <2> QED BY <2>1, <2>2
<1> HIDE DEF Marked
<1>3. tidy \in SUBSET Page /\ NoneDeleted(tidy)
  BY <1>2 DEF NoneDeleted
<1>4. OnePerKey(tidy)
  BY <1>2 DEF OnePerKey
<1>5. KeysOf(tidy) = KeysOf({p \in ps : p.valid # "DELETED"})
  <2>1. \A p \in tidy : \E q \in ps : q.valid # "DELETED" /\ q.key = p.key
    BY <1>2
  <2>2. \A q \in ps : q.valid # "DELETED" => \E p \in tidy : p.key = q.key
    BY <1>2
  <2> QED BY <2>1, <2>2 DEF KeysOf
<1> QED BY <1>1, <1>3, <1>4, <1>5

\* Looking for updates keeps the invariant, however the fetch ends.
LEMMA UpdatesKeep ==
    ASSUME IInv, NEW res \in Results, NEW dir \in BOOLEAN, process_updates(res, dir)
    PROVE  IInv'
<1> DEFINE ps == fetch_log_pages(pages, log, res)
           live == {p \in ps : p.valid # "DELETED"}
<1>1. /\ log' = log
      /\ fetched' = IF res = "failed" THEN fetched ELSE Got(log, res)
      /\ \/ pages' = cleanup_log_pages(mark_connected_subsystems(ps))
         \/ \E marks \in SUBSET Keys : pages' = cleanup_log_pages(mark_blindly(ps, marks))
  BY DEF process_updates
<1>2. ps \in SUBSET Page /\ OnePerKey(ps) /\ fetched' \in Logs /\ KeysOf(live) = KeysOf(fetched')
  <2>1. CASE res # "failed"
    <3> DEFINE got == Got(log, res)
    <3>1. got \in Logs /\ ps = fetch_log_pages(pages, got, "ok")
      BY <2>1, FetchGets DEF IInv
    <3>2. fetched' = got
      BY <1>1, <2>1
    <3> HIDE DEF got, ps
    <3>3. got \in SUBSET Entry
      BY <3>1 DEF Logs
    <3>4. ps \in SUBSET Page /\ KeysOf({p \in ps : p.valid # "DELETED"}) = KeysOf(got)
      BY <3>1, <3>3, FetchSorts DEF IInv
    <3>5. OnePerKey(ps)
      BY <3>1, FetchOnePerKey DEF IInv
    <3> QED BY <3>1, <3>2, <3>4, <3>5
  <2>2. CASE res = "failed"
    <3>1. ps = pages
      BY <2>2 DEF fetch_log_pages
    <3>2. {p \in pages : p.valid # "DELETED"} = pages
      BY DEF IInv, NoneDeleted
    <3> QED BY <1>1, <2>2, <3>1, <3>2 DEF IInv
  <2> QED BY <2>1, <2>2
<1> HIDE DEF ps
<1>3. CASE pages' = cleanup_log_pages(mark_connected_subsystems(ps))
  BY <1>1, <1>2, <1>3, TidyKeeps DEF IInv
<1>4. ASSUME NEW marks \in SUBSET Keys, pages' = cleanup_log_pages(mark_blindly(ps, marks))
      PROVE  IInv'
  BY <1>1, <1>2, <1>4, BlindKeeps DEF IInv
<1> QED BY <1>1, <1>3, <1>4

LEMMA InitIInv == Init => IInv
BY DEF Init, IInv, Logs, NoneDeleted, OnePerKey, KeysOf

LEMMA NextIInv == IInv /\ [Next]_vars => IInv'
<1> SUFFICES ASSUME IInv, [Next]_vars PROVE IInv'
  OBVIOUS
<1>1. ASSUME NEW res \in Results, NEW dir \in BOOLEAN, Connect(res, dir) \/ Event(res, dir)
      PROVE  IInv'
  BY <1>1, UpdatesKeep DEF Connect, Event
<1>2. ASSUME NEW p \in pages, NEW ok \in BOOLEAN, connect_one_subsystem(p, ok) PROVE IInv'
  <2> DEFINE q == [p EXCEPT !.connected = TRUE]
  <2>1. q \in Page /\ q.key = p.key /\ q.valid = p.valid
    BY DEF IInv, Page
  <2>2. pages' = (pages \ {p}) \cup {q} /\ UNCHANGED <<log, fetched>>
    BY <1>2 DEF connect_one_subsystem
  <2> HIDE DEF q
  <2>3. (pages \in SUBSET Page)' /\ NoneDeleted(pages)'
    BY <2>1, <2>2 DEF IInv, NoneDeleted
  <2>4. OnePerKey(pages)'
    BY <2>1, <2>2 DEF IInv, OnePerKey
  <2>5. KeysOf(pages)' = KeysOf(pages)
    <3>1. \A r \in pages' : \E s \in pages : r.key = s.key
      BY <2>1, <2>2
    <3>2. \A s \in pages : \E r \in pages' : r.key = s.key
      BY <2>1, <2>2
    <3> QED BY <3>1, <3>2 DEF KeysOf
  <2>6. KeysOf(fetched)' = KeysOf(fetched)
    BY <2>2 DEF KeysOf
  <2> QED BY <2>2, <2>3, <2>4, <2>5, <2>6 DEF IInv
<1>3. CASE LostConnection
  BY <1>3 DEF LostConnection, IInv, Logs, NoneDeleted, OnePerKey, KeysOf
<1>4. ASSUME NEW k \in Keys, DeviceLost(k) PROVE IInv'
  BY <1>4 DEF DeviceLost, IInv, NoneDeleted, OnePerKey, KeysOf
<1>5. CASE ChangeLog
  BY <1>5 DEF ChangeLog, IInv, NoneDeleted, OnePerKey, KeysOf
<1>6. CASE UNCHANGED vars
  BY <1>6 DEF vars, IInv, NoneDeleted, OnePerKey, KeysOf
<1> QED BY <1>1, <1>2, <1>3, <1>4, <1>5, <1>6 DEF Next

\* dem-ac keeps one page for each key of the log that it fetched last, over
\* failed fetches, lost devices and lost connections, for every set of keys.
THEOREM PagesAreFetched == Spec => []PagesFetched
<1>1. IInv => PagesFetched
  BY DEF IInv, PagesFetched, OnePerKey
<1> QED BY <1>1, InitIInv, NextIInv, PTL DEF Spec

\* dem-ac asks for a connection only if the log that it fetched last has the
\* subsystem, for every set of keys.
THEOREM OnlyListedConnect == Spec => ConnectsListed
<1> DEFINE A == devs' \ devs \subseteq KeysOf(fetched)
<1>1. IInv /\ [Next]_vars => [A]_vars
  <2> SUFFICES ASSUME IInv, Next PROVE A
    OBVIOUS
  <2>1. ASSUME NEW p \in pages, NEW ok \in BOOLEAN, connect_one_subsystem(p, ok) PROVE A
    <3>1. p.key \in KeysOf(fetched)
      BY DEF IInv, KeysOf
    <3>2. devs' \subseteq devs \cup {p.key}
      BY <2>1 DEF connect_one_subsystem
    <3> QED BY <3>1, <3>2
  <2>2. CASE \E res \in Results, dir \in BOOLEAN : Connect(res, dir) \/ Event(res, dir)
    BY <2>2 DEF Connect, Event, process_updates
  <2>3. CASE LostConnection \/ (\E k \in Keys : DeviceLost(k)) \/ ChangeLog
    BY <2>3 DEF LostConnection, DeviceLost, ChangeLog
  <2> QED BY <2>1, <2>2, <2>3 DEF Next
<1> QED BY <1>1, InitIInv, NextIInv, PTL DEF Spec, ConnectsListed

(***************************************************************************)
(* dem-dm.                                                                 *)
(***************************************************************************)
\* dem-dm has the operators on pages in common with dem-ac.
LEMMA SamePages ==
    /\ Dm!Logs = Logs
    /\ \A s : Dm!KeysOf(s) = KeysOf(s)
    /\ Dm!Results = Results
    /\ \A ps, l, res : Dm!fetch_log_pages(ps, l, res) = fetch_log_pages(ps, l, res)
<1>1. \A s : Dm!KeysOf(s) = KeysOf(s)
  BY DEF Dm!KeysOf, KeysOf
<1>2. \A ps : Dm!invalidate_log_pages(ps) = invalidate_log_pages(ps)
  BY DEF Dm!invalidate_log_pages, invalidate_log_pages
<1>3. \A ps, l : Dm!save_log_pages(ps, l) = save_log_pages(ps, l)
  BY DEF Dm!save_log_pages, save_log_pages, Dm!KeysOf, KeysOf
<1>4. \A ps, l, res : Dm!fetch_log_pages(ps, l, res) = fetch_log_pages(ps, l, res)
  BY <1>2, <1>3 DEF Dm!fetch_log_pages, fetch_log_pages, Dm!Got, Got
<1>5. Dm!Logs = Logs
  BY DEF Dm!Logs, Logs, Dm!Entry, Entry
<1> QED BY <1>1, <1>4, <1>5 DEF Dm!Results, Results

\* The inductive invariant.  What was told is kept or forgotten, never both.
DmInv == /\ log \in Logs
         /\ pages \in SUBSET Page
         /\ NoneDeleted(pages)
         /\ KeysOf(told) = KeysOf(pages) \cup forgotten
         /\ KeysOf(pages) \cap forgotten = {}
         /\ current \in BOOLEAN
         /\ current => /\ KeysOf(pages) \subseteq KeysOf(log)
                       /\ KeysOf(log) \subseteq KeysOf(told)

\* Looking for updates keeps the invariant, however the fetch ends.
LEMMA DmUpdatesKeep ==
    ASSUME DmInv, NEW res \in Results, Dm!report_updates(res)
    PROVE  DmInv'
<1> DEFINE ps    == fetch_log_pages(pages, log, res)
           live  == {p \in ps : p.valid # "DELETED"}
           gone  == KeysOf({p \in ps : p.valid = "DELETED"})
           shown == KeysOf({p \in ps : p.valid = "NEW"})
<1>1. /\ log' = log
      /\ current' = IF res = "ok" THEN TRUE ELSE IF res = "empty" THEN FALSE ELSE current
      /\ pages' = live
      /\ told' = {e \in told : e.key \notin gone \cup shown}
                 \cup {[key |-> p.key, data |-> p.data] : p \in {q \in ps : q.valid = "NEW"}}
      /\ forgotten' = forgotten \ shown
  BY SamePages DEF Dm!report_updates, Dm!print_log_pages, Results
<1>2. KeysOf(told') = (KeysOf(told) \ (gone \cup shown)) \cup shown
  <2> DEFINE Told(p) == [key |-> p.key, data |-> p.data]
             kept == {e \in told : e.key \notin gone \cup shown}
             new  == {Told(p) : p \in {q \in ps : q.valid = "NEW"}}
  <2>1. \A p \in ps : Told(p).key = p.key
    OBVIOUS
  <2>2. told' = kept \cup new
    BY <1>1
  <2> HIDE DEF Told, ps
  <2>3. KeysOf(new) = shown
    BY <2>1 DEF KeysOf
  <2>4. KeysOf(kept) = KeysOf(told) \ (gone \cup shown)
    BY DEF KeysOf
  <2>5. KeysOf(kept \cup new) = KeysOf(kept) \cup KeysOf(new)
    BY DEF KeysOf
  <2> QED BY <2>2, <2>3, <2>4, <2>5
<1>3. CASE res # "failed"
  <2> DEFINE got == Got(log, res)
  <2>1. got \in Logs /\ ps = fetch_log_pages(pages, got, "ok")
    BY <1>3, FetchGets DEF DmInv
  <2> HIDE DEF got
  <2>2. /\ ps \in SUBSET Page
        /\ KeysOf(live) = KeysOf(got)
        /\ gone = KeysOf(pages) \ KeysOf(got)
        /\ shown = KeysOf(got) \ KeysOf(pages)
    <3> HIDE DEF ps
    <3>1. got \in SUBSET Entry
      BY <2>1 DEF Logs
    <3> QED BY <2>1, <3>1, FetchSorts, ZenonT(40) DEF DmInv
  <2>3. (pages \in SUBSET Page)' /\ NoneDeleted(pages)'
    BY <1>1, <2>2 DEF NoneDeleted
  <2> HIDE DEF ps, live, gone, shown
  <2>4. KeysOf(told') = KeysOf(got) \cup forgotten'
    BY <1>1, <1>2, <2>2 DEF DmInv
  <2>5. KeysOf(got) \cap forgotten' = {}
    BY <1>1, <2>2 DEF DmInv
  <2>6. KeysOf(pages)' = KeysOf(got) /\ KeysOf(log)' = KeysOf(log)
    BY <1>1, <2>2
  <2>7. current' \in BOOLEAN /\ (current' => got = log)
    BY <1>1, <1>3 DEF got, Got, Results
  <2> QED BY <1>1, <2>3, <2>4, <2>5, <2>6, <2>7 DEF DmInv
<1>4. CASE res = "failed"
  <2>1. ps = pages
    BY <1>4 DEF fetch_log_pages
  <2>2. live = pages /\ gone = {}
    BY <2>1 DEF DmInv, NoneDeleted, KeysOf
  <2>3. shown \subseteq KeysOf(pages)
    BY <2>1 DEF KeysOf
  <2> HIDE DEF ps, live, gone, shown
  <2>4. KeysOf(told') = KeysOf(told)
    BY <1>2, <2>2, <2>3 DEF DmInv
  <2>5. pages' = pages /\ log' = log /\ current' = current /\ forgotten' = forgotten
    BY <1>1, <1>4, <2>2, <2>3 DEF DmInv
  <2> QED BY <2>4, <2>5 DEF DmInv, NoneDeleted, KeysOf
<1> QED BY <1>3, <1>4

LEMMA DmInit == Dm!Init => DmInv
BY SamePages DEF Dm!Init, DmInv, NoneDeleted, KeysOf

LEMMA DmNext == DmInv /\ [Dm!Next]_Dm!vars => DmInv'
<1> SUFFICES ASSUME DmInv, [Dm!Next]_Dm!vars PROVE DmInv'
  OBVIOUS
<1>1. ASSUME NEW res \in Results, Dm!Connect(res) \/ Dm!Event(res) PROVE DmInv'
  BY <1>1, DmUpdatesKeep DEF Dm!Connect, Dm!Event
<1>2. CASE Dm!LostConnection
  BY <1>2, SamePages DEF Dm!LostConnection, DmInv, NoneDeleted, KeysOf
<1>3. CASE Dm!ChangeLog
  BY <1>3, SamePages DEF Dm!ChangeLog, DmInv, NoneDeleted, KeysOf
<1>4. CASE UNCHANGED Dm!vars
  BY <1>4 DEF Dm!vars, DmInv, NoneDeleted, KeysOf
<1> QED BY <1>1, <1>2, <1>3, <1>4, SamePages DEF Dm!Next

\* Once dem-dm has fetched the log its user knows of every subsystem in it, and
\* of no other but those that went while the connection was lost, over fetches
\* that fail or get something else, for every set of keys.
THEOREM ToldIsLog == Dm!Spec => []Dm!ToldAgrees
<1>1. DmInv => Dm!ToldAgrees
  BY SamePages DEF DmInv, Dm!ToldAgrees
<1> QED BY <1>1, DmInit, DmNext, PTL DEF Dm!Spec
================================================================================
