----------------------------- MODULE HBaseTables -----------------------------
(***************************************************************************)
(* The HBase plugins that talk to the Thrift server: whether a table is    *)
(* enabled (check_hbase_table.py, _table_enabled.py), has its regions      *)
(* assigned (_table_regions.py) and spread (_table_region_balance.py), the *)
(* value of a cell (_cell.py), and a write that is read back and deleted   *)
(* again in every column family (_write.py) and in every region of each    *)
(* (_write_spray.py).                                                      *)
(*                                                                         *)
(* regions are the servers of the table's regions ("": assigned to none);  *)
(* written are the cells of this run's unique row, by family and region;   *)
(* speed is how long an operation on a cell takes.                         *)
(***************************************************************************)
EXTENDS PluginStep

TablePlugins == {"hb_table", "hb_enabled", "hb_regions", "hb_balance", "hb_cell", "hb_write", "hb_spray"}
Tables == {"t", "u"}
HBaseTable == [exists |-> TRUE, enabled |-> TRUE, families |-> 1, regions |-> <<"s1", "s2">>, cell |-> "low"]
NoTable == [HBaseTable EXCEPT !.exists = FALSE]
TableStates ==
    {HBaseTable, NoTable, [HBaseTable EXCEPT !.enabled = FALSE], [HBaseTable EXCEPT !.families = 0],
     [HBaseTable EXCEPT !.families = 2], [HBaseTable EXCEPT !.regions = <<>>], [HBaseTable EXCEPT !.regions = <<"s1", "">>],
     [HBaseTable EXCEPT !.regions = <<"s1", "s1", "s2">>], [HBaseTable EXCEPT !.regions = <<"s1", "s1">>],
     [HBaseTable EXCEPT !.cell = "absent"], [HBaseTable EXCEPT !.cell = "text"], [HBaseTable EXCEPT !.cell = "high"]}
TableWorlds == [thrift : {"up"}, t : TableStates, u : {HBaseTable, NoTable}, written : {{}}, speed : {"OK"}]
               \cup [thrift : {"up"}, t : {HBaseTable, [HBaseTable EXCEPT !.families = 2]}, u : {NoTable}, written : {{}},
                     speed : {"WARNING", "CRITICAL"}]
               \cup [thrift : {"down"}, t : {HBaseTable}, u : {NoTable}, written : {{}}, speed : {"OK"}]
TableOf(w, name) == IF name = "t" THEN w.t ELSE w.u

\* The table is disabled, dropped, loses a region's server or is rebalanced;
\* the Thrift server goes away; operations get slow or quick again.
TableChanges(p, w) ==
    (IF p \in {"hb_write", "hb_spray"} THEN {[w EXCEPT !.speed = s] : s \in {"OK", "CRITICAL"}} ELSE {}) \cup
    {[w EXCEPT !.thrift = "down"], [w EXCEPT !.t.enabled = ~w.t.enabled], [w EXCEPT !.t.exists = FALSE],
     [w EXCEPT !.t.regions = <<"s1", "">>], [w EXCEPT !.t.regions = <<"s1", "s1", "s2">>], [w EXCEPT !.t.cell = "high"]}

TableOptions(p) ==
    CASE p \in {"hb_table", "hb_regions"} -> [table : {"t", "none"}, list : BOOLEAN, warn : {1, 3}, crit : {1, 2}]
      [] p = "hb_enabled" -> [table : {"t", "none"}, list : BOOLEAN]
      [] p = "hb_balance" -> [table : {"t", "all"}, list : BOOLEAN, warn : {40}, crit : {60}]
      [] p = "hb_cell" -> [table : {"t", "none"}, list : BOOLEAN, expected : {"none", "text"}, crit : BOOLEAN]
      [] p \in {"hb_write", "hb_spray"} -> [table : {"t", "none"}, list : BOOLEAN]

\* Only check_hbase_table_enabled.py insists on a table to list the tables.
TableValid(p, o) == o.table # "none" \/ (o.list /\ p # "hb_enabled")

Served(w, answer) == IF w.thrift = "up" THEN answer ELSE Fatal("CRITICAL")
InTable(w, answer) == Served(w, IF w.t.exists THEN answer ELSE Fatal("CRITICAL"))
Online(w, answer) == InTable(w, IF w.t.enabled THEN answer ELSE Fatal("CRITICAL"))

TableAnswer(p, o, w, request) ==
    CASE request[1] \in {"connect", "tables"} -> Served(w, [tables |-> {t \in Tables : TableOf(w, t).exists}])
      [] request[1] = "enabled" -> InTable(w, [enabled |-> w.t.enabled])
      [] request[1] = "families" -> InTable(w, [families |-> w.t.families])
      [] request[1] = "regions" ->
           Served(w, IF TableOf(w, request[2]).exists THEN [regions |-> TableOf(w, request[2]).regions] ELSE Fatal("CRITICAL"))
      [] request[1] = "cell" -> Online(w, [cell |-> w.t.cell])
      [] request[1] = "get" -> Online(w, [found |-> request[2] \in w.written, took |-> w.speed])
      [] request[1] \in {"put", "delete"} -> Online(w, [done |-> TRUE, took |-> w.speed])

\* A put that reaches a region whose server is gone never returns (Thrift
\* gives up after ten seconds): here it is served by the region's next server.
TableEffect(w, request) ==
    CASE request[1] = "put" /\ w.thrift = "up" /\ w.t.exists /\ w.t.enabled ->
           [w EXCEPT !.written = @ \cup {request[2]}]
      [] request[1] = "delete" /\ w.thrift = "up" /\ w.t.exists /\ w.t.enabled ->
           [w EXCEPT !.written = @ \ {request[2]}]
      [] OTHER -> w

CheckTable(o, seen) ==
    CASE Len(seen) = 1 -> Ask(<<"enabled">>)
      [] Len(seen) = 2 -> Ask(<<"families">>)
      [] OTHER -> Exit(IF seen[3].families = 0 THEN "CRITICAL"
                       ELSE Both(If(~seen[2].enabled, "CRITICAL"), CheckLower(seen[3].families, o.warn, o.crit)))
TableEnabled(seen) == IF Len(seen) = 1 THEN Ask(<<"enabled">>) ELSE Exit(If(~seen[2].enabled, "CRITICAL"))

TableRegions(o, seen) ==
    IF Len(seen) = 1 THEN Ask(<<"regions", "t">>)
    ELSE LET regions == seen[2].regions
         IN  Exit(IF regions = <<>> THEN "CRITICAL"
                  ELSE Both(CheckLower(Len(regions), o.warn, o.crit), If("" \in Range(regions), "WARNING")))

\* A server that hosts no region of the tables does not take part.
CalculateImbalance(regions) ==
    LET count == [s \in Range(regions) |-> Cardinality({i \in DOMAIN regions : regions[i] = s})]
        most == Max(Range(count))
    IN  (100 * (most - Min(Range(count)))) \div most
RegionBalance(o, seen) ==
    LET tables == IF o.table = "all" THEN SetToSeq(seen[2].tables) ELSE <<o.table>>
        asked == Len(seen) - 2
        regions == FlattenSeq([i \in 1..asked |-> seen[i + 2].regions])
    IN  CASE Len(seen) = 1 -> Ask(<<"tables">>)
          [] Len(seen) > 1 /\ (seen[2].tables = {} \/ ~(Range(tables) \subseteq seen[2].tables)) -> Exit("CRITICAL")
          [] Len(seen) > 2 /\ Last(seen).regions = <<>> -> Exit("UNKNOWN")
          [] Len(seen) > 1 /\ asked < Len(tables) -> Ask(<<"regions", tables[asked + 1]>>)
          [] OTHER -> Exit(CheckUpper(CalculateImbalance(regions), o.warn, o.crit))

CheckCell(o, seen) ==
    CASE Len(seen) = 1 -> Ask(<<"enabled">>)
      [] Len(seen) = 2 /\ ~seen[2].enabled -> Exit("CRITICAL")
      [] Len(seen) = 2 -> Ask(<<"cell">>)
      [] OTHER -> Exit(If(\/ seen[3].cell = "absent"
                          \/ o.expected # "none" /\ seen[3].cell # o.expected
                          \/ o.crit /\ seen[3].cell = "high", "CRITICAL"))

\* How long the operations on cells took; connecting is timed and reported but
\* compared with nothing.
Timings(seen, first) == {seen[i].took : i \in (first + 1)..Len(seen)}

\* (mutant: leaves after the last cell was read back)
CheckCellsShort(cells, seen, first) ==
    LET n == Len(seen) - first
        operation == <<"put", "get", "delete">>
    IN  CASE n > 0 /\ (n % 3) = 2 /\ ~Last(seen).found -> Exit("CRITICAL")
          [] n >= 3 * Len(cells) - 1 -> Exit(CheckTimings(Timings(seen, first)))
          [] OTHER -> Ask(<<operation[1 + (n % 3)], cells[1 + (n \div 3)]>>)
\* (mutant: prints the timings and compares them with nothing)
CheckCellsUntimed(cells, seen, first) ==
    LET n == Len(seen) - first
        operation == <<"put", "get", "delete">>
    IN  CASE n > 0 /\ (n % 3) = 2 /\ ~Last(seen).found -> Exit("CRITICAL")
          [] n = 3 * Len(cells) -> Exit("OK")
          [] OTHER -> Ask(<<operation[1 + (n % 3)], cells[1 + (n \div 3)]>>)

\* One cell after the other is put, read back, compared and deleted.
CheckCells(cells, seen, first) ==
    LET n == Len(seen) - first
        operation == <<"put", "get", "delete">>
    IN  CASE n > 0 /\ (n % 3) = 2 /\ ~Last(seen).found -> Exit("CRITICAL")
          [] n = 3 * Len(cells) -> Exit(CheckTimings(Timings(seen, first)))
          [] OTHER -> Ask(<<operation[1 + (n % 3)], cells[1 + (n \div 3)]>>)
CheckWrite(seen) ==
    CASE Len(seen) = 1 -> Ask(<<"enabled">>)
      [] Len(seen) = 2 -> IF ~seen[2].enabled THEN Exit("CRITICAL") ELSE Ask(<<"families">>)
      [] OTHER -> CheckCells([f \in 1..seen[3].families |-> <<f, 1>>], seen, 3)
CheckSpray(seen) ==
    CASE Len(seen) = 1 -> Ask(<<"enabled">>)
      [] Len(seen) = 2 -> IF ~seen[2].enabled THEN Exit("CRITICAL") ELSE Ask(<<"families">>)
      [] Len(seen) = 3 -> Ask(<<"regions", "t">>)
      [] OTHER -> LET n == Len(seen[4].regions)
                  IN  CheckCells([i \in 1..(seen[3].families * n) |-> <<1 + ((i - 1) \div n), 1 + ((i - 1) % n)>>], seen, 4)

TableStep(p, o, seen) ==
    IF ~TableValid(p, o) THEN Exit("UNKNOWN")
    ELSE IF seen = <<>> THEN Ask(<<"connect">>)
    ELSE IF Broken(seen) THEN Exit(Last(seen).fatal)
    ELSE IF o.list THEN IF Len(seen) = 1 THEN Ask(<<"tables">>) ELSE Exit("UNKNOWN")
    ELSE CASE p = "hb_table" -> CheckTable(o, seen)
           [] p = "hb_enabled" -> TableEnabled(seen)
           [] p = "hb_regions" -> TableRegions(o, seen)
           [] p = "hb_balance" -> RegionBalance(o, seen)
           [] p = "hb_cell" -> CheckCell(o, seen)
           [] p = "hb_write" -> CheckWrite(seen)
           [] p = "hb_spray" -> CheckSpray(seen)

\* What OK tells of: each part at the moment it was asked for, and each region
\* that the table has throughout the run.  A balance over all tables is put
\* together from several moments and tells of none of them.
TableClaims(p, o, w) ==
    CASE p = "hb_table" -> {<<"enabled">>, <<"families">>}
      [] p = "hb_enabled" -> {<<"enabled">>}
      [] p = "hb_regions" -> {<<"assigned">>, <<"regions">>}
      [] p = "hb_balance" -> IF o.table = "all" THEN {} ELSE {<<"balanced">>}
      [] p = "hb_cell" -> {<<"enabled">>, <<"cell">>}
      [] p \in {"hb_write", "hb_spray"} -> {<<"enabled">>, <<"quick">>}
\* What a run that ends OK wrote: a cell of every family, and of every region.
TableDeeds(p, o, w) ==
    IF p \in {"hb_write", "hb_spray"}
    THEN {<<"written", f, r>> : f \in 1..w.t.families, r \in IF p = "hb_write" THEN {1} ELSE 1..3} ELSE {}
TableHolds(p, c, o, w) ==
    CASE c[1] = "enabled" -> w.t.exists /\ w.t.enabled
      [] c[1] = "families" -> w.t.families >= Max({1, o.warn, o.crit})
      [] c[1] = "assigned" -> w.t.exists /\ w.t.regions # <<>> /\ "" \notin Range(w.t.regions)
      [] c[1] = "regions" -> Len(w.t.regions) >= Max({1, o.warn, o.crit})
      [] c[1] = "balanced" -> w.t.exists /\ w.t.regions # <<>> /\ CalculateImbalance(w.t.regions) <= o.warn
      [] c[1] = "cell" -> /\ w.t.cell \notin {"absent"} \cup IF o.crit THEN {"high", "text"} ELSE {}
                          /\ o.expected \in {"none", w.t.cell}
      [] c[1] = "quick" -> w.speed = "OK"
      [] c[1] = "written" -> <<c[2], c[3]>> \in w.written \/ (p = "hb_spray" /\ c[3] \notin DOMAIN w.t.regions)
\* Words in a cell are compared with no thresholds, though the help has them be
\* critical; and with no cell to write there is nothing that takes time.
TableOverlooks(p, c, o, w) ==
    CASE c[1] = "cell" -> o.crit /\ w.t.cell = "text" /\ o.expected \in {"none", "text"}
      [] c[1] = "quick" -> w.t.families = 0 \/ (p = "hb_spray" /\ w.t.regions = <<>>)
      [] OTHER -> FALSE
TableExcuses(p, o, w) == w.thrift # "up" \/ (p = "hb_balance" /\ o.table = "all")

\* A write that was read back is deleted again before the run is OK.
NothingLeft(w) == w.written = {}
=============================================================================
