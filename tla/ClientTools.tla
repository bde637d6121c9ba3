----------------------------- MODULE ClientTools ----------------------------
(***************************************************************************)
(* Plugins that drive a client and believe what it leaves behind:          *)
(* check_tftp.pl, check_redis_publish_subscribe.pl, more/check_nsca.pl and *)
(* older/nsca_wrapper.sh.                                                  *)
(***************************************************************************)
EXTENDS PluginStep

ToolPlugins == {"tftp", "pubsub", "nsca", "nsca_wrap"}

-----------------------------------------------------------------------------
(* check_tftp.pl: what the server has of the file, and what is in /tmp     *)
(* under its name.  An eager client creates the file before it asks.       *)

TftpServers == {"content", "empty", "missing", "denied", "silent", "unknown"}
TftpWorlds == [tool : {TRUE}, server : TftpServers, file : {"absent", "empty", "content"}, eager : BOOLEAN]
              \cup [tool : {FALSE}, server : {"content"}, file : {"absent"}, eager : {FALSE}]

\* Other transfers of the same name, /tmp that is cleared, a file that goes.
TftpChanges(w) == {[w EXCEPT !.file = f] : f \in {"absent", "empty", "content"}} \cup {[w EXCEPT !.server = "missing"]}

TftpGet(w) ==
    CASE ~w.tool -> Fatal("UNKNOWN")
      [] w.tool /\ w.server \in {"denied", "silent", "unknown"} -> Fatal("CRITICAL")
      [] OTHER -> [received |-> w.server = "content"]
TftpFile(w) ==
    CASE w.server \in {"content", "empty"} -> w.server
      [] w.server \notin {"content", "empty"} /\ w.eager -> "empty"
      [] OTHER -> w.file

TftpAnswer(w, request) == IF request = "get" THEN TftpGet(w) ELSE [empty |-> w.file = "empty"]
TftpEffect(w, request) == IF request = "get" /\ w.tool THEN [w EXCEPT !.file = TftpFile(w)] ELSE w

\* Nothing received is a success if an empty file is there.
TftpStep(seen) ==
    CASE seen = <<>> -> Ask("get")
      [] Broken(seen) -> Exit(Last(seen).fatal)
      [] Len(seen) = 1 /\ ~Broken(seen) -> IF seen[1].received THEN Exit("OK") ELSE Ask("file")
      [] Len(seen) = 2 -> Exit(If(~seen[2].empty, "CRITICAL"))

\* An OK tells that the server answered and had the file; an empty one that was
\* there before is taken for what came.
TftpHolds(c, w) ==
    CASE c = "answered" -> w.tool /\ w.server \in {"content", "empty", "missing"}
      [] c = "fetched" -> w.server \in {"content", "empty"}
TftpOverlooks(c, w) == c = "fetched" /\ w.server = "missing" /\ w.file = "empty"
\* An empty file that was fetched can be taken away or filled before the test.
TftpExcuses(w) == w.server \in {"missing", "empty"}

-----------------------------------------------------------------------------
(* check_redis_publish_subscribe.pl: a message that is there at once, or   *)
(* within --subscriber-wait, or not at all                                 *)

PubSubWorlds == [up : BOOLEAN, delivery : {"at once", "in time", "never"}, speed : {"OK", "WARNING", "CRITICAL"}]
PubSubChanges(w) == {[w EXCEPT !.up = FALSE], [w EXCEPT !.delivery = "never"], [w EXCEPT !.speed = "CRITICAL"]}
PubSubPlan == <<"connect publisher", "connect subscriber", "subscribe", "publish", "poll">>

PubSubAnswer(w, request) ==
    CASE ~w.up -> Fatal("CRITICAL")
      [] w.up /\ request = "poll" -> [took |-> w.speed, message |-> w.delivery = "at once"]
      [] OTHER -> [took |-> w.speed]

\* The three times are judged, not those of the connections.
PubSubVerdict(seen) == IF seen[5].message THEN Worst({seen[i].took : i \in 3..5}) ELSE "CRITICAL"

\* One poll: the condition of the loop that follows it is always true.
PubSubStep(seen) ==
    CASE Broken(seen) -> Exit(Last(seen).fatal)
      [] ~Broken(seen) /\ Len(seen) < Len(PubSubPlan) -> Ask(PubSubPlan[Len(seen) + 1])
      [] OTHER -> Exit(PubSubVerdict(seen))

PubSubHolds(c, w) ==
    CASE c = "up" -> w.up [] c = "delivered" -> w.delivery # "never" [] c = "fast" -> w.speed = "OK"
PubSubExcuses(w) == w.delivery = "in time"

-----------------------------------------------------------------------------
(* more/check_nsca.pl: sends a result to the NSCA daemon and looks it up   *)
(* in the log of Nagios after a sleep of 60 seconds.  The line is named by *)
(* host and second: another run of that second has the same.               *)

NscaSleep == 60
NscaOptions == [remote : BOOLEAN, timeout : {1, 60, 61, 70, 300, 301}]
NscaWorlds == [files : {TRUE}, daemon : BOOLEAN, fed : {"within", "later", "twice"}, others : {0}]
              \cup [files : {FALSE}, daemon : {TRUE}, fed : {"within"}, others : {0}]
NscaChanges(w) == {[w EXCEPT !.others = 1], [w EXCEPT !.daemon = FALSE]}
NscaLines(w) == w.others + CASE w.fed = "within" -> 1 [] w.fed = "later" -> 0 [] w.fed = "twice" -> 2

NscaAnswer(o, w, request) ==
    CASE request = "files" -> IF w.files THEN [fine |-> TRUE] ELSE Fatal("UNKNOWN")
      [] request = "send" -> IF w.daemon THEN [fine |-> TRUE] ELSE Fatal("CRITICAL")
      [] request = "grep" -> [lines |-> NscaLines(w)]

\* The alarm was set before the result was sent, so it rings within a sleep that
\* is as long.  die is an exit code that Nagios does not know.
NscaStep(o, seen) ==
    CASE Broken(seen) -> Exit(Last(seen).fatal)
      [] seen = <<>> -> Ask("files")
      [] ~Broken(seen) /\ Len(seen) = 1 -> IF o.timeout \in 1..300 THEN Ask("send") ELSE Exit("UNKNOWN")
      [] ~Broken(seen) /\ Len(seen) = 2 ->
            IF o.remote THEN Exit("OK") ELSE IF o.timeout <= NscaSleep THEN Exit("UNKNOWN") ELSE Ask("grep")
      [] Len(seen) = 3 -> Exit(CASE seen[3].lines = 0 -> "CRITICAL" [] seen[3].lines = 1 -> "OK" [] OTHER -> "WARNING")

NscaClaims(o) == {"files", "daemon"} \cup IF o.remote THEN {} ELSE {"fed"}
NscaHolds(c, w) == CASE c = "files" -> w.files [] c = "daemon" -> w.daemon [] c = "fed" -> NscaLines(w) = 1
NscaExcuses(w) == w.others = 1

-----------------------------------------------------------------------------
(* older/nsca_wrapper.sh: runs a plugin and sends its result on            *)

WrapOptions ==
    [given : {TRUE}, local : BOOLEAN, server : BOOLEAN, e : BOOLEAN, words : 1..2, dangerous : BOOLEAN]
    \cup [given : {FALSE}, local : {FALSE}, server : {TRUE}, e : {FALSE}, words : {1}, dangerous : {FALSE}]
WrapWorlds == [pipe : BOOLEAN, sender : BOOLEAN, command : {TRUE}, state : Statuses, nsca : {"OK", "CRITICAL"}]
              \cup [pipe : {TRUE}, sender : {TRUE}, command : {FALSE}, state : {"OK"}, nsca : {"OK"}]
WrapChanges(w) == {[w EXCEPT !.state = s] : s \in {"OK", "CRITICAL"}} \cup {[w EXCEPT !.nsca = "CRITICAL"]}

\* A command line of several words is looked up as one name: 127.
WrapResult(o, w) == IF o.words = 1 THEN w.state ELSE "UNKNOWN"

WrapAnswer(o, w, request) ==
    CASE request = "setup" -> IF (IF o.local THEN w.pipe ELSE w.sender) THEN [state |-> "OK"] ELSE Fatal("UNKNOWN")
      [] request = "which" -> IF w.command THEN [state |-> "OK"] ELSE Fatal("UNKNOWN")
      [] request = "plugin" -> [state |-> WrapResult(o, w)]
      [] request = "send" -> [state |-> IF o.local THEN "OK" ELSE w.nsca]

\* -e is not looked at: the variable is never empty.
WrapExit(o, seen) == seen[3].state

WrapPlan == <<"setup", "which", "plugin", "send">>
WrapStep(o, seen) ==
    CASE ~o.given \/ (o.local /\ o.server) -> Exit("UNKNOWN")
      [] Broken(seen) -> Exit(Last(seen).fatal)
      [] ~Broken(seen) /\ Len(seen) = 1 /\ o.dangerous -> Exit("UNKNOWN")
      [] ~Broken(seen) /\ Len(seen) < Len(WrapPlan) -> Ask(WrapPlan[Len(seen) + 1])
      [] OTHER -> Exit(WrapExit(o, seen))

WrapHolds(c, o, w) ==
    CASE c = "setup" -> (IF o.local THEN w.pipe ELSE w.sender) [] c = "which" -> w.command
      [] c = "plugin" -> w.state = "OK"

-----------------------------------------------------------------------------
(* The four of them *)

ToolOptions(p) == CASE p = "nsca" -> NscaOptions [] p = "nsca_wrap" -> WrapOptions [] OTHER -> {"none"}
ToolWorlds(p) ==
    CASE p = "tftp" -> TftpWorlds [] p = "pubsub" -> PubSubWorlds [] p = "nsca" -> NscaWorlds
      [] p = "nsca_wrap" -> WrapWorlds
ToolChanges(p, w) ==
    CASE p = "tftp" -> TftpChanges(w) [] p = "pubsub" -> PubSubChanges(w) [] p = "nsca" -> NscaChanges(w)
      [] p = "nsca_wrap" -> WrapChanges(w)
ToolAnswer(p, o, w, request) ==
    CASE p = "tftp" -> TftpAnswer(w, request) [] p = "pubsub" -> PubSubAnswer(w, request)
      [] p = "nsca" -> NscaAnswer(o, w, request) [] p = "nsca_wrap" -> WrapAnswer(o, w, request)
ToolEffect(p, w, request) == IF p = "tftp" THEN TftpEffect(w, request) ELSE w
ToolStep(p, o, seen) ==
    CASE p = "tftp" -> TftpStep(seen) [] p = "pubsub" -> PubSubStep(seen) [] p = "nsca" -> NscaStep(o, seen)
      [] p = "nsca_wrap" -> WrapStep(o, seen)
ToolClaims(p, o) ==
    CASE p = "tftp" -> {"answered", "fetched"} [] p = "pubsub" -> {"up", "delivered", "fast"}
      [] p = "nsca" -> NscaClaims(o) [] p = "nsca_wrap" -> {"setup", "which", "plugin"}
ToolHolds(p, c, o, w) ==
    CASE p = "tftp" -> TftpHolds(c, w) [] p = "pubsub" -> PubSubHolds(c, w) [] p = "nsca" -> NscaHolds(c, w)
      [] p = "nsca_wrap" -> WrapHolds(c, o, w)
ToolOverlooks(p, c, w) == p = "tftp" /\ TftpOverlooks(c, w)
ToolExcuses(p, w) ==
    CASE p = "tftp" -> TftpExcuses(w) [] p = "pubsub" -> PubSubExcuses(w) [] p = "nsca" -> NscaExcuses(w)
      [] p = "nsca_wrap" -> FALSE
ToolTimeout(p) == IF p = "nsca_wrap" THEN "none" ELSE "UNKNOWN"
=============================================================================
