---------------------------- MODULE ZaloniBedrock ----------------------------
(***************************************************************************)
(* check_zaloni_bedrock_workflow.py and check_zaloni_bedrock_ingestion.py: *)
(* histories of runs, newest first, read from the REST API a page at a     *)
(* time.  Times are in units the limits are given in; dates is whether the *)
(* start and the end are both there (a run that has not ended has none).   *)
(***************************************************************************)
EXTENDS PluginStep

ZaloniPlugins == {"workflow", "ingestion"}
Runs == {[status |-> "SUCCESS", dates |-> TRUE, runtime |-> r, age |-> a] : r \in {1, 3}, a \in {1, 3}}
        \cup {[status |-> s, dates |-> s = "FAILED", runtime |-> 1, age |-> 1] : s \in {"FAILED", "INCOMPLETE"}}
NoRun(status) == [status |-> status, dates |-> FALSE, runtime |-> 0, age |-> 0]
NeverRun == NoRun("never")
Purged == NoRun("purged")
Ingests == [status : {"SUCCESS", "INCOMPLETE", "FAILED"}, age : {1, 4}]

WorkflowWorlds == [http : {"up"}, workflows : UpTo(Runs \cup {NeverRun, Purged}, 2)]
                  \cup [http : {"down", "garbled"}, workflows : {<<>>}]
IngestWorlds == {w \in [http : {"up"}, ingests : UpTo(Ingests, 3)] :
                   \A i, j \in DOMAIN w.ingests : i < j => w.ingests[i].age <= w.ingests[j].age}
                \cup [http : {"down", "garbled"}, ingests : {<<>>}]
ZaloniWorlds(p) == IF p = "workflow" THEN WorkflowWorlds ELSE IngestWorlds

\* A workflow runs again, a workflow is removed, the server goes away.
ZaloniChanges(p, w) ==
    {[w EXCEPT !.http = "down"]}
    \cup (IF p = "workflow" THEN {[w EXCEPT !.workflows[i] = r] : i \in DOMAIN w.workflows, r \in {s \in Runs : s.runtime = 3 \/ ~s.dates}}
          ELSE {[w EXCEPT !.ingests = <<[status |-> "FAILED", age |-> 1]>> \o w.ingests]})

WorkflowOptions == [mode : {"all", "one", "list", "none", "both"}, age : {NoLimit, 2}, max : {NoLimit, 2}, min : {1, 3}]
WorkflowValid(o) == o.mode \notin {"none", "both"} /\ ~Above(o.min, o.max)

\* history, in the same units as the ages; 0 turns the time window off.
IngestOptions == [mode : {"check", "list"}, num : {NoLimit, 1}, history : {0, 3}, source : BOOLEAN, age : {NoLimit, 2}]

\* The longest page of each size that is asked for: 10 results become 2 here.
ChunkSize(o) ==
    CASE o.num # NoLimit -> o.num
      [] o.num = NoLimit /\ o.mode = "check" /\ (o.history > 0 \/ o.source) -> 2
      [] OTHER -> 3
GetIngestions(o, w) ==
    LET inTime == SelectSeq(w.ingests, LAMBDA i : o.mode = "list" \/ o.history = 0 \/ i.age <= o.history)
    IN  [results |-> First(inTime, ChunkSize(o))]

\* Each request of a workflow's history is for one page of one report.
WorkflowAnswer(w, request) ==
    CASE request[1] = "login" -> [login |-> TRUE]
      [] request[1] = "workflows" -> [num |-> Len(w.workflows)]
      [] OTHER -> [report |-> IF request[2] \in DOMAIN w.workflows THEN w.workflows[request[2]] ELSE NeverRun]
IngestAnswer(o, w, request) == IF request[1] = "login" THEN [login |-> TRUE] ELSE GetIngestions(o, w)
ZaloniAnswer(p, o, w, request) ==
    Http(w.http, IF p = "workflow" THEN WorkflowAnswer(w, request) ELSE IngestAnswer(o, w, request))

\* An unfinished run has no dates and so neither a runtime nor an age.
CheckTimes(o, r) ==
    If(r.dates /\ (Above(r.runtime, o.max) \/ r.runtime < o.min \/ Above(r.age, o.age)), "WARNING")

RunStatus(s) == CASE s = "SUCCESS" -> "OK" [] s = "INCOMPLETE" -> "WARNING" [] OTHER -> "CRITICAL"
CheckWorkflow(o, report) ==
    CASE report = NeverRun -> If(o.mode # "all", "CRITICAL")
      [] report = Purged -> "CRITICAL"
      [] OTHER -> Both(RunStatus(report.status), IF o.mode = "all" THEN "OK" ELSE CheckTimes(o, report))

\* --all asks for the workflows first and then for one history after the
\* other; an empty history ends the run at once.
CheckAllWorkflows(o, seen) ==
    CASE Len(seen) = 1 -> Ask(<<"workflows">>)
      [] Len(seen) > 1 /\ seen[2].num = 0 -> Exit("UNKNOWN")
      [] Len(seen) > 2 /\ Last(seen).report = Purged -> Exit("CRITICAL")
      [] Len(seen) > 1 /\ Len(seen) - 2 < seen[2].num -> Ask(<<"report", Len(seen) - 1>>)
      [] OTHER -> Exit(Worst({CheckWorkflow(o, seen[i].report) : i \in 3..Len(seen)}))

WorkflowStep(o, seen) ==
    CASE ~WorkflowValid(o) -> Exit("UNKNOWN")
      [] seen = <<>> -> Ask(<<"login">>)
      [] Broken(seen) -> Exit(Last(seen).fatal)
      [] o.mode = "list" -> IF Len(seen) = 1 THEN Ask(<<"workflows">>) ELSE Exit("UNKNOWN")
      [] o.mode = "all" -> CheckAllWorkflows(o, seen)
      [] OTHER -> IF Len(seen) = 1 THEN Ask(<<"report", 1>>) ELSE Exit(CheckWorkflow(o, Last(seen).report))

CheckStatuses(results) ==
    Worst({If(\A i \in DOMAIN results : results[i].status # "SUCCESS", "WARNING"),
           If(\E i \in DOMAIN results : results[i].status \notin {"SUCCESS", "INCOMPLETE"}, "CRITICAL")})

\* The longest unfinished ingest is compared with the limit through a method
\* that does not exist: any unfinished ingest ends the run in an exception.
LongestIncomplete(results) == If(\E i \in DOMAIN results : results[i].status = "INCOMPLETE", Trapped)
LastIngestAge(o, results) == If(Above(results[1].age, o.age), "WARNING")

CheckIngestion(o, results) ==
    CASE results = <<>> -> "CRITICAL"
      [] results # <<>> /\ LongestIncomplete(results) # "OK" -> LongestIncomplete(results)
      [] OTHER -> Both(CheckStatuses(results), LastIngestAge(o, results))

IngestStep(o, seen) ==
    CASE seen = <<>> -> Ask(<<"login">>)
      [] Broken(seen) -> Exit(Last(seen).fatal)
      [] Len(seen) = 1 -> Ask(<<"ingests">>)
      [] OTHER -> Exit(IF o.mode = "list" THEN "UNKNOWN" ELSE CheckIngestion(o, Last(seen).results))

ZaloniOptions(p) == IF p = "workflow" THEN WorkflowOptions ELSE IngestOptions
ZaloniStep(p, o, seen) == IF p = "workflow" THEN WorkflowStep(o, seen) ELSE IngestStep(o, seen)

\* What OK tells of: each workflow's last run succeeded (one that never ran is
\* left out by --all), in time; the last ingests succeeded and are recent.
ZaloniClaims(p, o, w) ==
    IF p = "ingestion" THEN {"succeeded", "recent"}
    ELSE IF o.mode = "all" THEN DOMAIN w.workflows ELSE {1}
Succeeded(o, r) ==
    IF r \in {NeverRun, Purged} THEN o.mode = "all" /\ r = NeverRun
    ELSE r.status = "SUCCESS" /\ (o.mode = "one" => ~Above(r.age, o.age) /\ ~Above(r.runtime, o.max) /\ r.runtime >= o.min)
ZaloniHolds(p, c, o, w) ==
    CASE p = "workflow" -> c \in DOMAIN w.workflows /\ Succeeded(o, w.workflows[c])
      [] c = "succeeded" -> GetIngestions(o, w).results # <<>> /\ \A i \in DOMAIN GetIngestions(o, w).results : w.ingests[i].status = "SUCCESS"
      [] c = "recent" -> w.ingests # <<>> /\ ~Above(w.ingests[1].age, o.age)
=============================================================================
