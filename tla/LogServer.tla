------------------------------ MODULE LogServer ------------------------------
(***************************************************************************)
(* check_logserver.py: sends a syslog line with a time stamp of its own    *)
(* and, after --delay seconds, counts the rows of the log server's MySQL   *)
(* table with its text.  The server inserts rows when it gets to it.       *)
(***************************************************************************)
EXTENDS PluginStep

LogPlugins == {"logserver"}
\* bound: rows with the text of the line
MaxRows == 2
\* queued: the line has reached the server and no row was made of it yet; twin:
\* another run, perhaps of another host, sent the same text in the same instant
\* (the host's name is not looked for).  empty: MySQL answers with no row.
LogWorlds == [syslog : {"up", "down"}, mysql : {"up", "down", "broken", "empty"}, queued : {FALSE}, rows : {0}, twin : BOOLEAN]

\* Rows are inserted, one or twice, or lost with the server; MySQL goes.
LogChanges(w) ==
    {[w EXCEPT !.queued = FALSE, !.rows = n] : n \in {k \in {w.rows + 1, w.rows + 2} : w.queued /\ k <= MaxRows}}
    \cup {[w EXCEPT !.rows = n] : n \in {k \in {w.rows + 1} : w.twin /\ k <= MaxRows}}
    \cup {[w EXCEPT !.syslog = "down", !.queued = FALSE], [w EXCEPT !.mysql = "down"]}

\* The delay is shorter than the timeout of the alarm, or it is not.
LogOptions == [server : {"host", "none", "bad name"}, credentials : BOOLEAN, ports : {"good", "bad"}, names : {"good", "bad"},
               delay : {"none", "short", "beyond the timeout", "bad"}, timeout : {"good", "bad"}, udp : BOOLEAN]

ValidLogserver(o) == o.server = "host"
ValidPorts(o) == o.ports = "good"
ValidNames(o) == o.names = "good"
ValidDelay(o) == o.delay # "bad"
ValidTimes(o) == o.timeout = "good"
LogValid(o) == ValidLogserver(o) /\ ValidPorts(o) /\ o.credentials /\ ValidNames(o) /\ ValidDelay(o) /\ ValidTimes(o)
LogTimeout == "CRITICAL"

\* Nothing tells that a datagram was lost.
SendLog(o, w) == IF w.syslog = "up" \/ o.udp THEN [sent |-> TRUE] ELSE Fatal("CRITICAL")
\* The sleep ends before the alarm or not at all.
Sleep(o) == IF o.delay = "beyond the timeout" THEN NotYet ELSE [slept |-> TRUE]
CountRows(w) == IF w.mysql = "up" THEN [rows |-> w.rows] ELSE Fatal("CRITICAL")
LogAnswer(o, w, request) ==
    CASE request = "send" -> SendLog(o, w) [] request = "sleep" -> Sleep(o) [] request = "count" -> CountRows(w)
LogEffect(w, request) == IF request = "send" /\ w.syslog = "up" THEN [w EXCEPT !.queued = TRUE] ELSE w

TestMysqlServer(a) == Exit(CASE a.rows = 1 -> "OK" [] a.rows > 1 -> "WARNING" [] a.rows = 0 -> "CRITICAL")
TestLogserver(o, seen) ==
    CASE ~LogValid(o) -> Exit("UNKNOWN")
      [] seen = <<>> -> Ask("send")
      [] Broken(seen) -> Exit(Last(seen).fatal)
      [] Len(seen) = 1 \/ IsNotYet(seen) -> Ask("sleep")
      [] Len(seen) = 2 /\ ~IsNotYet(seen) -> Ask("count")
      [] OTHER -> TestMysqlServer(Last(seen))

\* OK tells that there was one row of the text; an alarm, that at some moment of
\* the run it was not so.  Before the line is sent it never is: that a run with
\* too short a delay is CRITICAL is what --delay is for.
LogHolds(w) == w.mysql = "up" /\ w.rows = 1
=============================================================================
