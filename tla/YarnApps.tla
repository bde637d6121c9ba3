------------------------------ MODULE YarnApps ------------------------------
(***************************************************************************)
(* The plugins that read the applications of the Yarn Resource Manager:    *)
(* check_hadoop_yarn_app_running.py, _app_last_run.py,                     *)
(* _long_running_apps.py and _queue_apps.py.  One request returns the      *)
(* newest applications first, at most limit of them.                       *)
(***************************************************************************)
EXTENDS PluginStep

YarnPlugins == {"yarn_running", "yarn_last_run", "yarn_long_running", "yarn_queue"}
YarnApp == [name |-> "etl", user |-> "hdfs", queue |-> "default", state |-> "RUNNING", final |-> "UNDEFINED",
            elapsed |-> 1, containers |-> 2]
YarnEnded(state, final) == [YarnApp EXCEPT !.state = state, !.final = final]
YarnAppKinds ==
    {YarnApp, YarnEnded("FINISHED", "SUCCEEDED"), YarnEnded("FINISHED", "FAILED"), YarnEnded("KILLED", "KILLED"),
     [YarnApp EXCEPT !.state = "ACCEPTED"], [YarnApp EXCEPT !.name = "myetl"], [YarnApp EXCEPT !.name = "llap0"],
     [YarnApp EXCEPT !.name = "shell", !.elapsed = 3], [YarnApp EXCEPT !.queue = "llap", !.elapsed = 3],
     [YarnApp EXCEPT !.elapsed = 5], [YarnApp EXCEPT !.containers = 0], [YarnApp EXCEPT !.user = "root"]}
YarnWorlds == [http : {"up"}, apps : UpTo(YarnAppKinds, 2)] \cup [http : {"down", "garbled"}, apps : {<<>>}]

\* An expression is searched for anywhere in a name.
Searched(pattern, name) == name = pattern \/ (pattern = "etl" /\ name = "myetl")

RunningOptions ==
    [list : BOOLEAN, app : {"etl", "none"}, user : {"none", "hdfs"}, queue : {"none", "default"}, containers : {0, 1},
     warn : {2}, crit : {4}, limit : {1, 2}]
LastRunOptions ==
    [list : BOOLEAN, app : {"etl", "none"}, user : {"none", "hdfs"}, queue : {"none", "default"}, warn : {2}, crit : {4},
     limit : {1, 2}]
LongRunningOptions ==
    [list : BOOLEAN, include : {"none", "shell"}, exclude : {"none", "shell"}, queue : {"none", "default"},
     excludeQueue : {"none", "llap"}, warn : {NoLimit, 2}, crit : {4}, limit : {2}]
QueueOptions ==
    [list : BOOLEAN, allow : {"none", "etl"}, disallow : {"none", "shell"}, queue : {"default"}, limit : {1, 2}]
YarnOptions(p) ==
    CASE p = "yarn_running" -> RunningOptions
      [] p = "yarn_last_run" -> LastRunOptions
      [] p = "yarn_long_running" -> LongRunningOptions
      [] p = "yarn_queue" -> QueueOptions
YarnValid(p, o) == p \in {"yarn_running", "yarn_last_run"} => o.list \/ o.app # "none"

\* Only app_last_run asks for the applications of every state.
AppsOf(p, o, w) ==
    First(SelectSeq(w.apps, LAMBDA a : p = "yarn_last_run" \/ a.state = "RUNNING"), o.limit)
YarnAnswer(p, o, w, request) == Http(w.http, [apps |-> AppsOf(p, o, w)])

AsExpected(o, a) == (o.user = "none" \/ a.user = o.user) /\ (o.queue = "none" \/ a.queue = o.queue)

\* The first application with the name is the one that is checked; a second
\* one is told of in the message, with no change of the state.
AppRunning(o, apps) ==
    LET found == SelectSeq(apps, LAMBDA a : Searched(o.app, a.name))
    IN  CASE apps = <<>> -> "CRITICAL"
          [] apps # <<>> /\ o.list -> "UNKNOWN"
          [] apps # <<>> /\ ~o.list /\ found = <<>> -> "CRITICAL"
          [] OTHER -> Both(If(~AsExpected(o, found[1]) \/ found[1].containers < o.containers, "CRITICAL"),
                           CheckUpper(found[1].elapsed, o.warn, o.crit))

AppLastRun(o, apps) ==
    LET found == SelectSeq(apps, LAMBDA a : a.state \notin {"RUNNING", "ACCEPTED"} /\ Searched(o.app, a.name))
    IN  CASE apps = <<>> -> "CRITICAL"
          [] apps # <<>> /\ o.list -> "UNKNOWN"
          [] apps # <<>> /\ ~o.list /\ found = <<>> -> "CRITICAL"
          [] OTHER -> Both(If(~AsExpected(o, found[1]) \/ found[1].final # "SUCCEEDED", "CRITICAL"),
                           CheckUpper(found[1].elapsed, o.warn, o.crit))

AppSelector(o, a) ==
    /\ o.include # "none" => Searched(o.include, a.name)
    /\ o.exclude # "none" => ~Searched(o.exclude, a.name)
    /\ a.name # "llap0"
    /\ o.queue # "none" => a.queue = o.queue
    /\ o.excludeQueue # "none" => a.queue # o.excludeQueue
LongRunning(o, apps) ==
    IF o.list THEN "UNKNOWN"
    ELSE Worst({CheckUpper(apps[i].elapsed, o.warn, o.crit) : i \in {j \in DOMAIN apps : AppSelector(o, apps[j])}})

QueueApps(o, apps) ==
    IF o.list THEN "UNKNOWN"
    ELSE Worst({If((o.disallow # "none" /\ Searched(o.disallow, a.name))
                     \/ (o.allow # "none" /\ ~Searched(o.allow, a.name)), "WARNING") :
                a \in {apps[i] : i \in {j \in DOMAIN apps : apps[j].queue = o.queue}}})

YarnVerdict(p, o, apps) ==
    CASE p = "yarn_running" -> AppRunning(o, apps)
      [] p = "yarn_last_run" -> AppLastRun(o, apps)
      [] p = "yarn_long_running" -> LongRunning(o, apps)
      [] p = "yarn_queue" -> QueueApps(o, apps)
YarnStep(p, o, seen) ==
    IF ~YarnValid(p, o) THEN Exit("UNKNOWN") ELSE AskOnce("apps", seen, YarnVerdict(p, o, seen[1].apps))

\* What OK tells of the applications that were asked for.
Within(o, a) == ~Above(a.elapsed, o.warn) /\ ~Above(a.elapsed, o.crit)
YarnHolds(p, o, w) ==
    LET apps == Range(AppsOf(p, o, w))
    IN  CASE p = "yarn_running" ->
               \E a \in apps : a.state = "RUNNING" /\ Searched(o.app, a.name) /\ AsExpected(o, a) /\ Within(o, a)
                               /\ a.containers >= o.containers
          [] p = "yarn_last_run" ->
               \E a \in apps : a.final = "SUCCEEDED" /\ Searched(o.app, a.name) /\ AsExpected(o, a) /\ Within(o, a)
          [] p = "yarn_long_running" ->
               \A a \in apps : Within(o, a) \/ a.name = "llap0" \/ a.queue = o.excludeQueue
                               \/ (o.queue # "none" /\ a.queue # o.queue)
                               \/ (o.include # "none" /\ ~Searched(o.include, a.name))
                               \/ (o.exclude # "none" /\ Searched(o.exclude, a.name))
          [] p = "yarn_queue" ->
               \A a \in apps : a.queue = o.queue =>
                   (o.disallow = "none" \/ ~Searched(o.disallow, a.name)) /\ (o.allow = "none" \/ Searched(o.allow, a.name))

\* With two applications of the name the one that is listed first is checked.
YarnExcuses(p, o, w) ==
    p \in {"yarn_running", "yarn_last_run"}
      /\ Cardinality({i \in DOMAIN w.apps : Searched(o.app, w.apps[i].name)}) > 1
=============================================================================
