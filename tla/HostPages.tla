------------------------------- MODULE HostPages -------------------------------
(***************************************************************************)
(* The log pages that a host keeps, the same in dem-dm (monitor/daemon.c)  *)
(* and in dem-ac (auto_connect/daemon.c): what a fetch makes of them.      *)
(*                                                                         *)
(* An entry of the log names a subsystem and a way to it (transport,       *)
(* address, service), its key, and says more about it, its data.  The two  *)
(* programs keep pages in a list for each subsystem, which goes with its   *)
(* last page; here they are one set.  A new page is not marked as          *)
(* connected; its memory is not cleared, but dem-ac, which alone reads the *)
(* mark, writes it first (AutoConnect says what happens if it cannot).     *)
(***************************************************************************)
CONSTANTS Keys, Data

Entry == [key : Keys, data : Data]
Page  == [key : Keys, data : Data,
          valid : {"DELETED", "NEW", "VALID"}, connected : BOOLEAN]

\* A log has one entry for a key.
Logs == {l \in SUBSET Entry : \A e, f \in l : e.key = f.key => e = f}

KeysOf(s) == {e.key : e \in s}

\* Mutated: pages stay what they were.
InvalidateNone(pages) == pages

invalidate_log_pages(pages) == {[p EXCEPT !.valid = "DELETED"] : p \in pages}

\* A page that is there already is kept as it is.
save_log_pages(pages, log) ==
    {[p EXCEPT !.valid = IF p.key \in KeysOf(log) THEN "VALID" ELSE @] : p \in pages}
    \cup {[key |-> e.key, data |-> e.data, valid |-> "NEW", connected |-> FALSE] :
              e \in {f \in log : f.key \notin KeysOf(pages)}}

\* How get_logpages ends.  It takes a message that is no answer for one, and
\* reads that the log has no entries from a buffer that nobody wrote ("empty").
Results == {"ok", "failed", "empty"}

\* The log that a fetch gets.
Got(log, res) == IF res = "ok" THEN log ELSE {}

\* If get_logpages fails nothing changes.
fetch_log_pages(pages, log, res) ==
    IF res = "failed" THEN pages
    ELSE save_log_pages(invalidate_log_pages(pages), Got(log, res))
================================================================================
