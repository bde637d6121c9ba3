----------------------------- MODULE CiServers -----------------------------
(***************************************************************************)
(* The plugins of Jenkins, GoCD, Travis CI, DockerHub builds, Selenium     *)
(* grids and Pingdom.                                                      *)
(*                                                                         *)
(* items is what the service lists (newest first, a job's builds oldest    *)
(* first by number), number what it counts, word what it says of itself    *)
(* or of the job or node that is asked for ("absent": there is none).      *)
(***************************************************************************)
EXTENDS PluginStep

\* python-jenkins reports any failure as one exception, for them CRITICAL.
JenkinsLib == {"jk_job", "jk_exists", "jk_count", "jk_plugin", "jk_node", "jk_updates", "jk_offline", "jk_running",
               "jk_nodes", "jk_queued"}
JenkinsRest == {"jk_job2", "jk_health", "jk_color", "jk_buildable", "jk_executors", "jk_security", "jk_mode", "jk_version"}
CiPlugins == JenkinsLib \cup JenkinsRest
    \cup {"go_job", "go_stage", "go_pipeline", "go_agents", "go_agent", "go_server", "travis", "dockerhub", "sel_browser",
          "sel_nodes", "sel_queue", "sel_hub", "sel_node", "pd_status", "pd_statuses", "pd_sms"}

Build == [done |-> TRUE, result |-> "SUCCESS", duration |-> 1, age |-> 1]
Builds == {Build, [Build EXCEPT !.done = FALSE], [Build EXCEPT !.result = "FAILURE"],
           [Build EXCEPT !.duration = 5], [Build EXCEPT !.age = 3], [Build EXCEPT !.age = -1]}
CiItems(p) ==
    CASE p \in {"jk_job", "jk_job2"} -> Builds
      [] p = "jk_plugin" -> [name : {"git", "svn"}, enabled : BOOLEAN, active : {TRUE}, update : BOOLEAN]
      [] p \in {"jk_updates", "jk_offline", "jk_nodes", "jk_health"} -> {TRUE, FALSE}
      [] p \in {"go_job", "go_stage", "go_pipeline"} -> {"Building", "Passed", "Failed"}
      [] p = "go_agents" -> [state : {"Idle", "LostContact"}, enabled : BOOLEAN]
      [] p = "travis" -> [number : 1..2, finished : BOOLEAN, result : 0..1, duration : {1, 3}]
      [] p = "dockerhub" -> [status : {"Queued", "Success", "Error"}, tag : {"latest", "dev"}]
      [] p = "sel_nodes" -> [up : BOOLEAN, browser : {"chrome", "firefox"}]
      [] p = "sel_queue" -> {"chrome", "firefox"}
      [] p = "pd_statuses" -> [status : {"up", "down", "unconfirmed_down", "paused"}, time : {1, 3}]
      [] OTHER -> {}
CiWords(p) ==
    CASE p \in {"jk_job", "jk_job2", "jk_exists", "jk_count"} -> {"present", "absent"}
      [] p = "jk_node" -> {"online", "offline", "absent"}
      [] p = "jk_health" -> {"present"}
      [] p = "jk_color" -> {"blue", "green", "red", "notbuilt", "absent"}
      [] p = "jk_buildable" -> {"buildable", "disabled", "renamed", "absent"}
      [] p \in {"jk_security", "go_agent", "go_server", "sel_hub", "sel_node"} -> {"OK", "bad"}
      [] p = "jk_mode" -> {"NORMAL", "EXCLUSIVE"}
      [] p = "jk_version" -> {"2.1", "2.2", "absent"}
      [] p = "sel_browser" -> {"google", "404", "text", "fails"}
      [] p = "sel_nodes" -> {"grid4", "grid3"}
      [] p = "pd_status" -> {"up", "down", "paused"}
      [] OTHER -> {"-"}
CiWorlds(p) ==
    [http : {"up"}, items : {l \in UpTo(CiItems(p), 2) : p = "jk_plugin" /\ Len(l) = 2 => l[1].name # l[2].name}, number : {0, 1, 3}, word : CiWords(p)]
    \cup [http : {"down", "garbled"}, items : {<<>>}, number : {0}, word : CiWords(p)]

\* A build starts, ends well or badly, the job is deleted; builds of an image
\* are queued and done.
CiChanges(p, w) ==
    CASE p \in {"jk_job", "jk_job2"} ->
           {[w EXCEPT !.word = "absent"]} \cup {[w EXCEPT !.items = Append(@, b)] : b \in Builds}
           \cup {[w EXCEPT !.items[i] = b] : i \in {j \in DOMAIN w.items : ~w.items[j].done}, b \in Builds}
      [] p = "dockerhub" ->
           {[w EXCEPT !.items = <<[status |-> s, tag |-> "latest"]>> \o @] : s \in {"Queued"}}
           \cup {[w EXCEPT !.items[i].status = s] :
                   i \in {j \in DOMAIN w.items : w.items[j].status = "Queued"}, s \in {"Success", "Error"}}
      [] OTHER -> {}

Listing == [name : {"given", "none"}, list : BOOLEAN]
Limits(warn, crit) == [warn : {warn}, crit : {crit}]
Optional(warn, crit) == [warn : {NoLimit, warn}, crit : {NoLimit, crit}]
WithLimits(options, limits) == {[x \in DOMAIN a \cup DOMAIN l |-> IF x \in DOMAIN a THEN a[x] ELSE l[x]] : a \in options, l \in limits}
CiOptions(p) ==
    CASE p \in {"jk_job", "jk_job2"} -> WithLimits([name : {"given", "none"}, list : BOOLEAN, age : {NoLimit, 2}], Limits(2, 4))
      [] p \in {"jk_exists", "jk_color", "jk_buildable"} -> Listing
      [] p = "jk_count" -> WithLimits([view : BOOLEAN, list : BOOLEAN], Optional(1, 2))
      [] p = "jk_plugin" -> [name : {"git", "none"}, list : BOOLEAN, update : BOOLEAN]
      [] p = "jk_node" -> WithLimits(Listing, Limits(2, 1))
      [] p = "jk_health" -> WithLimits(Listing, Limits(80, 60))
      [] p \in {"jk_offline"} -> Limits(0, 1)
      [] p \in {"jk_nodes", "go_agents"} -> Limits(1, 1)
      [] p \in {"jk_running", "jk_queued", "jk_executors", "pd_sms"} -> Optional(2, 1)
      [] p = "jk_version" -> [expected : {"none", "2.2"}]
      [] p = "travis" -> Optional(2, 4)
      [] p = "dockerhub" -> [tag : {"none", "latest"}, pages : 1..2]
      [] p = "sel_browser" -> [browser : {"CHROME", "none", "NETSCAPE"}, url : {"google", "other"}, content : {"none", "text"},
                               regex : {"none", "text"}]
      [] p \in {"sel_nodes", "sel_queue"} -> WithLimits([browser : {"none", "chrome"}], Limits(1, 1))
      [] p = "pd_status" -> WithLimits([name : {"given", "none"}, token : BOOLEAN, list : BOOLEAN, maxAge : {2}], Optional(1, 2))
      [] p = "pd_statuses" -> WithLimits([token : BOOLEAN], Optional(2, 4))
      [] OTHER -> [all : {TRUE}]
CiValid(p, o) ==
    /\ "name" \in DOMAIN o /\ p # "pd_status" => o.name # "none" \/ o.list
    /\ p = "pd_status" => o.name # "none"
    /\ "token" \in DOMAIN o => o.token
    /\ p = "sel_browser" => o.browser # "none"

\* The number of the last build that was completed (0: not built yet).
LastCompleted(items) == Max({0} \cup {i \in DOMAIN items : items[i].done})
CiReply(p, w, request) ==
    CASE request[1] = "page" -> [page |-> w]
      [] request[1] = "exists" -> IF w.word = "absent" THEN Fatal("CRITICAL") ELSE [exists |-> TRUE]
      [] request[1] = "job" -> IF w.word = "absent" THEN Fatal("CRITICAL") ELSE [last |-> LastCompleted(w.items)]
      [] request[1] = "build" -> IF w.word = "absent" THEN Fatal("CRITICAL") ELSE [build |-> w.items[request[2]]]
      [] request[1] = "results" ->
           IF request[2] > Len(w.items) THEN Fatal("CRITICAL") ELSE [results |-> <<w.items[request[2]]>>]
CiAnswer(p, o, w, request) ==
    IF p \in JenkinsLib /\ w.http # "up" THEN Fatal("CRITICAL") ELSE Http(w.http, CiReply(p, w, request))

-----------------------------------------------------------------------------
(* Jenkins *)

ProcessBuildInfo(o, b) ==
    IF ~b.done THEN "UNKNOWN"
    ELSE Both(Both(If(b.result # "SUCCESS", "CRITICAL"), CheckUpper(b.duration, o.warn, o.crit)),
              Both(If(b.age < 0, "WARNING"), If(Above(b.age, o.age), "CRITICAL")))

\* The job is looked for, its last build asked for, and then that build.
JenkinsJob(o, seen) ==
    CASE Len(seen) = 1 -> Ask(<<"job">>)
      [] Len(seen) = 2 -> IF seen[2].last = 0 THEN Exit("WARNING") ELSE Ask(<<"build", seen[2].last>>)
      [] OTHER -> Exit(ProcessBuildInfo(o, seen[3].build))
JenkinsJob2(o, seen) ==
    CASE Len(seen) = 1 -> IF seen[1].last = 0 THEN Exit("WARNING") ELSE Ask(<<"build", seen[1].last>>)
      [] OTHER -> LET b == seen[2].build
                  IN  Exit(IF ~b.done THEN "UNKNOWN"
                           ELSE Both(Both(If(b.result # "SUCCESS", "CRITICAL"), CheckUpper(b.duration, o.warn, o.crit)),
                                     Both(If(b.age < 0, "WARNING"), If(Above(b.age, o.age), "CRITICAL"))))
JenkinsJobExists(w) == If(w.word = "absent", "CRITICAL")

\* A view is looked for first, and counted by its jobs.
JenkinsJobCount(o, seen) ==
    IF o.view /\ Len(seen) = 1 THEN Ask(<<"page">>) ELSE Exit(CheckUpper(Last(seen).page.number, o.warn, o.crit))
JenkinsPlugin(o, w) ==
    LET found == SelectSeq(w.items, LAMBDA i : i.name = o.name)
    IN  IF found = <<>> THEN "CRITICAL"
        ELSE Both(If(~found[1].enabled \/ ~found[1].active, "CRITICAL"), If(o.update /\ found[1].update, "WARNING"))
JenkinsNode(o, w) ==
    IF w.word = "absent" THEN "CRITICAL" ELSE Both(If(w.word = "offline", "CRITICAL"), CheckLower(w.number, o.warn, o.crit))
JenkinsPluginUpdates(w) == If(\E i \in DOMAIN w.items : w.items[i], "WARNING")
JenkinsOfflineNodes(o, w) == CheckUpper(Len(SelectSeq(w.items, LAMBDA offline : offline)), o.warn, o.crit)
JenkinsJobHealth(o, w) ==
    IF w.items = <<>> THEN "UNKNOWN" ELSE IF ~w.items[1] THEN "UNKNOWN" ELSE CheckLower(30 * w.number, o.warn, o.crit)
JenkinsRunningBuilds(o, w) == CheckUpper(w.number, o.warn, o.crit)
\* Nodes that are offline count as well.
JenkinsNodeCount(o, w) == CheckLower(Len(w.items), o.warn, o.crit)
JenkinsJobColor(w) ==
    CASE w.word \in {"blue", "green"} -> "OK" [] w.word = "notbuilt" -> "WARNING" [] OTHER -> "CRITICAL"
JenkinsQueuedBuilds(o, w) == CheckUpper(w.number, o.warn, o.crit)
JenkinsJobBuildable(w) ==
    CASE w.word = "buildable" -> "OK" [] w.word = "renamed" -> "UNKNOWN" [] OTHER -> "CRITICAL"
JenkinsNumExecutors(o, w) == CheckLower(w.number, o.warn, o.crit)
JenkinsSecurity(w) == If(w.word # "OK", "CRITICAL")
JenkinsMode(w) == If(w.word # "NORMAL", "CRITICAL")
JenkinsVersion(o, w) ==
    IF w.word = "absent" THEN "UNKNOWN" ELSE If(o.expected # "none" /\ w.word # o.expected, "CRITICAL")

-----------------------------------------------------------------------------
(* GoCD, Travis CI, DockerHub *)

Finished(items) == SelectSeq(items, LAMBDA i : i # "Building")
GoJob(w) == IF Finished(w.items) = <<>> THEN "UNKNOWN" ELSE If(Finished(w.items)[1] # "Passed", "CRITICAL")
GoStage(w) == IF Finished(w.items) = <<>> THEN "UNKNOWN" ELSE If(Finished(w.items)[1] # "Passed", "CRITICAL")
\* The search goes on after the first: it is the oldest one that is checked.
GoPipeline(w) == IF Finished(w.items) = <<>> THEN "UNKNOWN" ELSE If(Last(Finished(w.items)) # "Passed", "CRITICAL")
GoAgents(o, w) ==
    CheckLower(Len(SelectSeq(w.items, LAMBDA a : a.state # "LostContact" /\ a.enabled)), o.warn, o.crit)
GoAgentHealth(w) == If(w.word # "OK", "CRITICAL")
GoServerHealth(w) == If(w.word # "OK", "CRITICAL")

\* Builds come in falling order of their numbers.
TravisLatestBuild(builds) ==
    IF \E i \in 2..Len(builds) : builds[i].number >= builds[i - 1].number THEN <<>>
    ELSE SelectSeq(builds, LAMBDA b : b.finished)
TravisLastBuild(o, w) ==
    LET found == TravisLatestBuild(w.items)
    IN  IF found = <<>> THEN "UNKNOWN"
        ELSE Both(If(found[1].result # 0, "CRITICAL"), CheckUpper(found[1].duration, o.warn, o.crit))

\* One page of the history after the other; a page has one build here.
Completed(o, results) ==
    SelectSeq(results, LAMBDA r : r.status # "Queued" /\ (o.tag = "none" \/ r.tag = o.tag))
DockerHubBuild(o, seen) ==
    LET found == Completed(o, Last(seen).results)
    IN  CASE found # <<>> -> Exit(If(found[1].status # "Success", "CRITICAL"))
          [] found = <<>> /\ Len(seen) < o.pages -> Ask(<<"results", Len(seen) + 1>>)
          [] OTHER -> Exit("UNKNOWN")

-----------------------------------------------------------------------------
(* Selenium and Pingdom *)

\* On the default page the content that is asked for gives way to the default.
SeleniumExpects(o) ==
    CASE o.regex # "none" -> o.regex [] o.regex = "none" /\ o.url = "google" -> "google" [] OTHER -> o.content
SeleniumBrowser(o, w) ==
    CASE o.browser = "NETSCAPE" -> Trapped
      [] o.browser # "NETSCAPE" /\ w.word = "fails" -> "UNKNOWN"
      [] OTHER -> If(IF SeleniumExpects(o) = "none" THEN w.word = "404" ELSE w.word # SeleniumExpects(o), "WARNING")
SeleniumNodes(o, w) ==
    IF w.word = "grid3" THEN "UNKNOWN"
    ELSE CheckLower(Len(SelectSeq(w.items, LAMBDA n : n.up /\ o.browser \in {"none", n.browser})), o.warn, o.crit)
\* Without a browser nothing is counted; with one the items themselves are
\* taken for what they contain.
SeleniumQueue(o, w) == IF o.browser # "none" /\ w.items # <<>> THEN Trapped ELSE CheckUpper(0, o.warn, o.crit)
SeleniumHubReady(w) == If(w.word # "OK", "CRITICAL")
SeleniumNodeReady(w) == If(w.word # "OK", "CRITICAL")

\* A paused check is first UNKNOWN and then, as it is not up, CRITICAL.
PingdomStatus(o, w) ==
    Both(Both(If(w.word = "paused", "UNKNOWN"), If(w.word # "up", "CRITICAL")),
         Both(CheckUpper(w.number, o.warn, o.crit), If(w.number > o.maxAge, "WARNING")))
PingdomStatuses(o, w) ==
    IF w.items = <<>> THEN Trapped
    ELSE LET of(states) == \E i \in DOMAIN w.items : w.items[i].status \in states
         IN  Both(CheckUpper(Max({w.items[i].time : i \in DOMAIN w.items}), o.warn, o.crit),
                  CASE of({"down", "unconfirmed_down"}) -> "CRITICAL"
                    [] ~of({"down", "unconfirmed_down"}) /\ of({"unknown", "paused"}) -> "UNKNOWN"
                    [] OTHER -> "OK")
PingdomSms(o, w) == CheckLower(w.number, o.warn, o.crit)

-----------------------------------------------------------------------------
CiVerdict(p, o, w) ==
    CASE p = "jk_exists" -> JenkinsJobExists(w)
      [] p = "jk_plugin" -> JenkinsPlugin(o, w)
      [] p = "jk_node" -> JenkinsNode(o, w)
      [] p = "jk_updates" -> JenkinsPluginUpdates(w)
      [] p = "jk_offline" -> JenkinsOfflineNodes(o, w)
      [] p = "jk_health" -> JenkinsJobHealth(o, w)
      [] p = "jk_running" -> JenkinsRunningBuilds(o, w)
      [] p = "jk_nodes" -> JenkinsNodeCount(o, w)
      [] p = "jk_color" -> JenkinsJobColor(w)
      [] p = "jk_queued" -> JenkinsQueuedBuilds(o, w)
      [] p = "jk_buildable" -> JenkinsJobBuildable(w)
      [] p = "jk_executors" -> JenkinsNumExecutors(o, w)
      [] p = "jk_security" -> JenkinsSecurity(w)
      [] p = "jk_mode" -> JenkinsMode(w)
      [] p = "jk_version" -> JenkinsVersion(o, w)
      [] p = "go_job" -> GoJob(w)
      [] p = "go_stage" -> GoStage(w)
      [] p = "go_pipeline" -> GoPipeline(w)
      [] p = "go_agents" -> GoAgents(o, w)
      [] p = "go_agent" -> GoAgentHealth(w)
      [] p = "go_server" -> GoServerHealth(w)
      [] p = "travis" -> TravisLastBuild(o, w)
      [] p = "sel_browser" -> SeleniumBrowser(o, w)
      [] p = "sel_nodes" -> SeleniumNodes(o, w)
      [] p = "sel_queue" -> SeleniumQueue(o, w)
      [] p = "sel_hub" -> SeleniumHubReady(w)
      [] p = "sel_node" -> SeleniumNodeReady(w)
      [] p = "pd_status" -> PingdomStatus(o, w)
      [] p = "pd_statuses" -> PingdomStatuses(o, w)
      [] p = "pd_sms" -> PingdomSms(o, w)
CiFirst(p, o) ==
    CASE "list" \in DOMAIN o /\ o.list -> <<"page">>
      [] p = "jk_job" \/ (p = "jk_count" /\ o.view) -> <<"exists">>
      [] p = "jk_job2" -> <<"job">>
      [] p = "dockerhub" -> <<"results", 1>>
      [] OTHER -> <<"page">>
CiStep(p, o, seen) ==
    CASE ~CiValid(p, o) -> Exit("UNKNOWN")
      [] seen = <<>> -> Ask(CiFirst(p, o))
      [] Broken(seen) -> Exit(Last(seen).fatal)
      [] "list" \in DOMAIN o /\ o.list -> Exit("UNKNOWN")
      [] p = "jk_job" -> JenkinsJob(o, seen)
      [] p = "jk_job2" -> JenkinsJob2(o, seen)
      [] p = "jk_count" -> JenkinsJobCount(o, seen)
      [] p = "dockerhub" -> DockerHubBuild(o, seen)
      [] OTHER -> Exit(CiVerdict(p, o, seen[1].page))

\* What OK tells of, each at some moment of the run.
CiWithin(o, n) == ~Above(n, o.warn) /\ ~Above(n, o.crit)
CiEnough(o, n) == ~Below(n, o.warn) /\ ~Below(n, o.crit)
CiHolds(p, o, w) ==
    CASE p \in {"jk_job", "jk_job2"} ->
           LET n == LastCompleted(w.items)
           IN  /\ w.word = "present" /\ n > 0
               /\ w.items[n].result = "SUCCESS" /\ CiWithin(o, w.items[n].duration)
               /\ w.items[n].age >= 0 /\ ~Above(w.items[n].age, o.age)
      [] p \in {"jk_exists"} -> w.word = "present"
      [] p = "jk_count" -> (o.view => w.word = "present") /\ CiWithin(o, w.number)
      [] p = "jk_plugin" -> \E i \in DOMAIN w.items : /\ w.items[i].name = "git" /\ w.items[i].enabled
                                                      /\ o.update => ~w.items[i].update
      [] p = "jk_node" -> w.word = "online" /\ CiEnough(o, w.number)
      [] p = "jk_updates" -> TRUE \notin Range(w.items)
      [] p = "jk_offline" -> Cardinality({i \in DOMAIN w.items : w.items[i]}) <= o.warn
      [] p = "jk_health" -> w.items # <<>> /\ 30 * w.number >= o.warn
      [] p \in {"jk_running", "jk_queued"} -> CiWithin(o, w.number)
      [] p = "jk_nodes" -> w.items # <<>>
      [] p = "jk_color" -> w.word \in {"blue", "green"}
      [] p = "jk_buildable" -> w.word = "buildable"
      [] p \in {"jk_executors", "pd_sms"} -> CiEnough(o, w.number)
      [] p = "jk_mode" -> w.word = "NORMAL"
      [] p = "jk_version" -> w.word # "absent" /\ o.expected \in {"none", w.word}
      [] p \in {"jk_security", "go_agent", "go_server", "sel_hub", "sel_node"} -> w.word = "OK"
      [] p \in {"go_job", "go_stage", "go_pipeline"} -> \E i \in DOMAIN w.items : w.items[i] = "Passed" /\ \A j \in 1..i : w.items[j] # "Failed"
      [] p = "go_agents" -> \E a \in Range(w.items) : a.enabled /\ a.state = "Idle"
      [] p = "travis" -> \E i \in DOMAIN w.items :
                           /\ w.items[i].finished /\ w.items[i].result = 0 /\ CiWithin(o, w.items[i].duration)
                           /\ \A j \in 1..(i - 1) : ~w.items[j].finished
      [] p = "dockerhub" -> Completed(o, w.items) # <<>> /\ Completed(o, w.items)[1].status = "Success"
      [] p = "sel_browser" -> w.word \notin {"fails", IF SeleniumExpects(o) = "none" THEN "404" ELSE "fails"}
                             /\ SeleniumExpects(o) \in {"none", w.word}
      [] p = "sel_nodes" -> \E n \in Range(w.items) : n.up /\ (o.browser = "none" \/ n.browser = o.browser)
      [] p = "sel_queue" -> CiWithin(o, Len(SelectSeq(w.items, LAMBDA b : o.browser \in {"none", b})))
      [] p = "pd_status" -> w.word = "up" /\ CiWithin(o, w.number) /\ w.number <= o.maxAge
      [] p = "pd_statuses" -> w.items # <<>> /\ \A c \in Range(w.items) : c.status = "up" /\ CiWithin(o, c.time)

\* A run of a pipeline that passed before the last ones hides them, and a queue
\* that is not asked for a browser is empty.
CiOverlooks(p, o, w) ==
    CASE p = "go_pipeline" -> "Passed" \in Range(w.items) [] p = "sel_queue" -> o.browser = "none" [] OTHER -> FALSE

\* Of a pipeline any finished run may be the one that is checked.
CiExcuses(p, o, w) == p = "go_pipeline" /\ {"Passed", "Failed"} \subseteq Range(w.items)
=============================================================================
