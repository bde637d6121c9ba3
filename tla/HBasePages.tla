----------------------------- MODULE HBasePages -----------------------------
(***************************************************************************)
(* The HBase plugins that scrape the status pages of the master (regions   *)
(* in transition and stuck in it, how long the longest is, the balance of  *)
(* regions, compactions of a table), read the JMX of a RegionServer, and   *)
(* read the report that cron has hbck write.                               *)
(*                                                                         *)
(* transitions are the times of the regions in transition, of which those  *)
(* above Stuck count as stuck; the page has the section only when there    *)
(* are any.  report is the file: absent, cut off, or the result in it.     *)
(***************************************************************************)
EXTENDS PluginStep

PagePlugins == {"hb_longest", "hb_transition", "hb_stuck", "hb_pagebalance", "hb_compaction", "hb_queue", "hb_hbck"}
Stuck == 2
Page == [http |-> "up", transitions |-> <<>>, servers |-> <<1, 1>>, compaction |-> "NONE", queue |-> 0,
         report |-> "absent", mtime |-> 0]
Compactions == {"NONE", "MINOR", "MAJOR", "absent", "notable"}
PageWorlds(p) ==
    CASE p \in {"hb_longest", "hb_transition", "hb_stuck"} ->
           {[Page EXCEPT !.http = h, !.transitions = t] : h \in HttpStates, t \in UpTo({1, 3, 5}, 2)}
      [] p = "hb_pagebalance" -> {[Page EXCEPT !.http = h, !.servers = s] : h \in HttpStates, s \in UpTo(0..3, 2)}
      [] p = "hb_compaction" -> {[Page EXCEPT !.http = h, !.compaction = c] : h \in HttpStates, c \in Compactions}
      [] p = "hb_queue" -> {[Page EXCEPT !.http = h, !.queue = n] : h \in HttpStates, n \in 0..2}
      [] p = "hb_hbck" -> {[Page EXCEPT !.report = r, !.mtime = a] :
                             r \in {"absent", "partial", "clean", "inconsistent", "failed"}, a \in {-1, 0, 3}}

\* cron runs hbck again: the report is cut off, then whole and new.
PageChanges(p, w) ==
    IF p = "hb_hbck" THEN {[w EXCEPT !.report = r, !.mtime = 0] : r \in {"partial", "clean", "inconsistent"}} ELSE {}

PageOptions(p) ==
    CASE p \in {"hb_longest", "hb_transition"} -> [warn : {2}, crit : {4}]
      [] p = "hb_pagebalance" -> [warn : {40}, crit : {60}]
      [] p = "hb_hbck" -> [file : BOOLEAN, age : {0, 2}]
      [] OTHER -> [table : {"t"}]

PageAnswer(p, o, w, request) ==
    CASE request = "page" -> Http(w.http, [page |-> w])
      [] request = "read" -> IF w.report = "absent" THEN Fatal("UNKNOWN") ELSE [report |-> w.report]
      [] request = "stat" -> IF w.report = "absent" THEN Fatal("UNKNOWN") ELSE [age |-> w.mtime]

\* The test of the third column's heading is the wrong way round: the heading
\* the page has is the one that is refused.
LongestMigration(page) == If(page.transitions # <<>>, "UNKNOWN")

\* The number of the page is text and so never the number zero.
NumInTransition(o, page) ==
    Both(If(page.transitions # <<>>, "CRITICAL"), CheckUpper(Len(page.transitions), o.warn, o.crit))
StuckInTransition(page) == If(page.transitions # <<>>, "CRITICAL")

PageBalance(o, page) ==
    IF page.servers = <<>> THEN Trapped
    ELSE LET most == Max(Range(page.servers))
             least == Min(Range(page.servers))
         IN  CheckUpper((100 * (most - least)) \div Max({most, 1}), o.warn, o.crit)

\* A minor compaction passes as none.
TableCompaction(page) ==
    CASE page.compaction \in {"NONE", "MINOR"} -> "OK"
      [] page.compaction = "MAJOR" -> "WARNING"
      [] page.compaction \in {"absent", "notable"} -> "CRITICAL"
CompactionQueue(page) == If(page.queue > 0, "WARNING")

CheckFileAge(o, age) ==
    CASE o.age = 0 -> "OK" [] o.age # 0 /\ age < 0 -> "UNKNOWN" [] OTHER -> If(age > o.age, "WARNING")

\* The result is read from the file and its age asked for afterwards.
HbckStep(o, seen) ==
    CASE ~o.file -> Exit("UNKNOWN")
      [] seen = <<>> -> Ask("read")
      [] Broken(seen) -> Exit(Last(seen).fatal)
      [] Len(seen) = 1 -> IF seen[1].report = "partial" THEN Exit("UNKNOWN") ELSE Ask("stat")
      [] OTHER -> Exit(Both(If(seen[1].report # "clean", "CRITICAL"), CheckFileAge(o, seen[2].age)))

PageVerdict(p, o, page) ==
    CASE p = "hb_longest" -> LongestMigration(page)
      [] p = "hb_transition" -> NumInTransition(o, page)
      [] p = "hb_stuck" -> StuckInTransition(page)
      [] p = "hb_pagebalance" -> PageBalance(o, page)
      [] p = "hb_compaction" -> TableCompaction(page)
      [] p = "hb_queue" -> CompactionQueue(page)
PageStep(p, o, seen) ==
    IF p = "hb_hbck" THEN HbckStep(o, seen) ELSE AskOnce("page", seen, PageVerdict(p, o, seen[1].page))

\* What OK tells of; a report is clean at one moment and recent at another.
PageClaims(p) == IF p = "hb_hbck" THEN {"clean", "recent"} ELSE {"page"}
PageHolds(p, c, o, w) ==
    CASE p = "hb_longest" -> \A i \in DOMAIN w.transitions : w.transitions[i] <= o.warn
      [] p = "hb_transition" -> w.transitions = <<>>
      [] p = "hb_stuck" -> \A i \in DOMAIN w.transitions : w.transitions[i] <= Stuck
      [] p = "hb_pagebalance" -> w.servers # <<>> /\ \A a, b \in Range(w.servers) : 100 * (a - b) < (o.warn + 1) * Max({a, 1})
      [] p = "hb_compaction" -> w.compaction \in {"NONE", "MINOR"}
      [] p = "hb_queue" -> w.queue = 0
      [] p = "hb_hbck" -> IF c = "clean" THEN w.report = "clean" ELSE o.age = 0 \/ w.mtime \in 0..o.age

\* A region in transition is taken for stuck, whatever its time.
PageExcuses(p, w) == p = "hb_stuck" /\ w.transitions # <<>>
=============================================================================
