---------------------------- MODULE DataServices ----------------------------
(***************************************************************************)
(* The plugins of the services around the data of a cluster: policies and  *)
(* repositories of Ranger, entities of Atlas, queries and worker nodes of  *)
(* Presto, and what Blue Talon's policy server counts and deploys.         *)
(***************************************************************************)
EXTENDS PluginStep

BlueTalonCounts == {"bt_policies", "bt_masking", "bt_domains", "bt_resources", "bt_rules", "bt_users"}
DataPlugins == {"ranger_policy", "ranger_repo", "atlas", "presto_queries", "presto_worker", "bt_deployment",
                "bt_version"} \cup BlueTalonCounts

\* What each service can hold: a few ways an item differs from the one wanted.
Never == -1
Policy == [id |-> 1, name |-> "p", enabled |-> TRUE, audit |-> TRUE, recursive |-> TRUE, type |-> "hdfs", age |-> 5]
Policies == {Policy, [Policy EXCEPT !.name = "p2"], [Policy EXCEPT !.enabled = FALSE],
             [Policy EXCEPT !.audit = FALSE], [Policy EXCEPT !.recursive = FALSE], [Policy EXCEPT !.type = "hive"],
             [Policy EXCEPT !.age = 1], [Policy EXCEPT !.age = 3], [Policy EXCEPT !.age = Never]}
Entity == [id |-> 1, name |-> "e", state |-> "ACTIVE", type |-> "table", tags |-> {"pii"}]
Entities == {Entity, [Entity EXCEPT !.name = "e2"], [Entity EXCEPT !.state = "DELETED"],
             [Entity EXCEPT !.type = "view"], [Entity EXCEPT !.tags = {}]}
Queries == [state : {"RUNNING", "FAILED", "QUEUED", "FINISHED"}, query : {"show", "select"}]
Worker == [name |-> "n1", age |-> 1, requests |-> 1, failures |-> 0, ratio |-> 0]
Workers == {Worker, [Worker EXCEPT !.age = 9], [Worker EXCEPT !.age = Never],
            [Worker EXCEPT !.requests = 9], [Worker EXCEPT !.failures = 9], [Worker EXCEPT !.ratio = 9],
            [Worker EXCEPT !.ratio = -1]}
DataItems(p) ==
    CASE p \in {"ranger_policy", "ranger_repo"} -> Policies
      [] p = "atlas" -> Entities
      [] p = "presto_queries" -> Queries
      [] p = "presto_worker" -> Workers
      [] p = "bt_deployment" -> [age : {1, 3, 13}, pm : BOOLEAN]
      [] p = "bt_version" -> [company : {"Blue Talon", "other"}, version : {"2", "3"}, api : {"1.0", "1.1", "?"}]
      [] p \in BlueTalonCounts -> {1, 3}
\* Lists of at most two; a second entity or policy has an id of its own, and
\* may have the name of the first.
DataSeconds(p) ==
    CASE p \in {"ranger_policy", "ranger_repo"} -> {[Policy EXCEPT !.id = 2, !.name = n] : n \in {"p", "p2"}}
      [] p = "atlas" -> {[Entity EXCEPT !.id = 2, !.name = n] : n \in {"e", "e2"}}
      [] p = "presto_worker" -> {[Worker EXCEPT !.name = "n2"]}
      [] OTHER -> {}
DataLists(p) ==
    LET items == DataItems(p)
    IN  IF DataSeconds(p) = {} THEN UpTo(items, 2)
        ELSE UpTo(items, 1) \cup {<<a, b>> : a \in items, b \in DataSeconds(p)} \cup {<<b, a>> : a \in items, b \in DataSeconds(p)}
DataWorlds(p) == [http : {"up"}, items : DataLists(p)] \cup [http : {"down", "garbled"}, items : {<<>>}]

\* An entity that was found by its name is renamed, deleted or retyped.
DataChanges(p, w) ==
    IF p = "atlas" THEN {[w EXCEPT !.items[i].state = "DELETED"] : i \in DOMAIN w.items}
                        \cup {[w EXCEPT !.items[i].name = "e2"] : i \in DOMAIN w.items}
    ELSE {}

RangerPolicyOptions == [by : {"name", "id", "both", "none"}, list : BOOLEAN, noAudit : BOOLEAN, recursive : BOOLEAN,
                        type : {"none", "hdfs"}, warn : {NoLimit, 4}, crit : {NoLimit, 2}]
RangerRepoOptions == [by : {"name", "id", "both", "none"}, list : BOOLEAN, type : {"none", "hdfs"}, warn : {4},
                      crit : {NoLimit, 2}]
AtlasOptions == [by : {"name", "id", "both", "none"}, list : BOOLEAN, type : {"none", "table"}, tags : {{}, {"pii"}}]
PrestoStates == [running |-> {"RUNNING", "PLANNING", "STARTING", "FINISHING"}, failed |-> {"FAILED"},
                 blocked |-> {"BLOCKED"}, queued |-> {"QUEUED"}]
PrestoOptions == [states : {{}, {"running"}, {"failed"}, {"running", "queued"}}, list : BOOLEAN, include : {"none", "select"},
                  exclude : {"none", "show"}, num : {1, 2}, min : {0, 2}, warn : {0}, crit : {1}]
PrestoWorkerOptions == [node : {"none", "n1"}, list : BOOLEAN, maxAge : {5}, maxRequests : {NoLimit, 5},
                        maxFailures : {0, 5}, maxRatio : {5}]
BlueTalonOptions == [warn : {NoLimit, 1}, crit : {NoLimit, 2}]
DataOptions(p) ==
    CASE p = "ranger_policy" -> RangerPolicyOptions
      [] p = "ranger_repo" -> RangerRepoOptions
      [] p = "atlas" -> AtlasOptions
      [] p = "presto_queries" -> PrestoOptions
      [] p = "presto_worker" -> PrestoWorkerOptions
      [] p = "bt_deployment" -> [warn : {NoLimit, 4}, crit : {NoLimit, 2}]
      [] p = "bt_version" -> [expected : {"none", "3"}]
      [] p \in BlueTalonCounts -> BlueTalonOptions

\* The options a run is refused for: nothing to look for, or too much at once.
RangerValid(o) == o.list \/ o.by # "none"
AtlasValid(o) == o.list \/ o.by \in {"name", "id"}
PrestoValid(o) == o.list \/ Cardinality(o.states) = 1
WorkerValid(o) == o.list \/ o.node # "none"
DataValid(p, o) ==
    CASE p \in {"ranger_policy", "ranger_repo"} -> RangerValid(o)
      [] p = "atlas" -> AtlasValid(o)
      [] p = "presto_queries" -> PrestoValid(o)
      [] p = "presto_worker" -> WorkerValid(o)
      [] OTHER -> TRUE

\* A list of all, or what has the id that is asked for: of none there is no page.
AllItems == 0
ById(w, id) ==
    LET found == SelectSeq(w.items, LAMBDA r : r.id = id) IN IF found = <<>> THEN Fatal("CRITICAL") ELSE [items |-> found]
DataAnswer(p, o, w, request) ==
    Http(w.http, IF request = AllItems THEN [items |-> w.items] ELSE ById(w, request))
DataRequest(p, o) ==
    IF \/ p \in {"ranger_policy", "ranger_repo"} /\ o.by \in {"id", "both"} /\ ~o.list
       \/ p = "atlas" /\ o.by = "id" /\ ~o.list
    THEN 1 ELSE AllItems

\* The first policy of that name, or the one with the id; it must not have
\* been changed less than so long ago.
Named(items, name) == SelectSeq(items, LAMBDA r : r.name = name)
RangerPolicy(o, items) ==
    LET found == IF o.by = "name" THEN Named(items, "p") ELSE items
        r == found[1]
    IN  CASE items = <<>> -> "CRITICAL"
          [] items # <<>> /\ o.list -> "UNKNOWN"
          [] items # <<>> /\ ~o.list /\ found = <<>> -> "CRITICAL"
          [] OTHER -> IF r.age = Never THEN Trapped
                      ELSE Both(If(\/ (o.by = "both" /\ r.name # "p") \/ ~r.enabled
                                   \/ (~r.audit /\ ~o.noAudit) \/ (o.recursive /\ ~r.recursive)
                                   \/ (o.type # "none" /\ r.type # o.type), "CRITICAL"),
                                CheckLower(r.age, o.warn, o.crit))
RangerRepository(o, items) ==
    LET found == IF o.by = "name" THEN Named(items, "p") ELSE items
        r == found[1]
    IN  CASE items = <<>> -> "CRITICAL"
          [] items # <<>> /\ o.list -> "UNKNOWN"
          [] items # <<>> /\ ~o.list /\ found = <<>> -> "CRITICAL"
          [] OTHER -> IF r.age = Never THEN Trapped
                      ELSE Both(If(\/ (o.by = "both" /\ r.name # "p") \/ ~r.enabled
                                   \/ (o.type # "none" /\ r.type # o.type), "CRITICAL"),
                                CheckLower(r.age, o.warn, o.crit))

\* By name the list gives the id of the first match, and a second request the
\* entity that has it then, whose name is not looked at again.
AtlasStep(o, seen) ==
    LET items == Last(seen).items
        found == Named(items, "e")
    IN  CASE items = <<>> -> Exit("CRITICAL")
          [] items # <<>> /\ o.list -> Exit("UNKNOWN")
          [] items # <<>> /\ ~o.list /\ o.by = "name" /\ Len(seen) = 1 ->
               IF found = <<>> THEN Exit("CRITICAL") ELSE Ask(found[1].id)
          [] OTHER -> Exit(If(\/ Len(items) > 1 \/ items[1].state # "ACTIVE"
                              \/ o.type # "none" /\ items[1].type # o.type
                              \/ ~(o.tags \subseteq items[1].tags), "CRITICAL"))

PrestoMatching(o, items) == SelectSeq(items, LAMBDA q : q.query # o.exclude /\ o.include \in {"none", q.query})
PrestoQueries(o, items) ==
    LET matching == PrestoMatching(o, items)
        selected == SelectSeq(First(matching, o.num), LAMBDA q : \E s \in o.states : q.state \in PrestoStates[s])
    IN  IF o.list THEN "UNKNOWN"
        ELSE Both(CheckUpper(Len(selected), o.warn, o.crit), If(Len(matching) < o.min, "WARNING"))

PrestoWorker(o, items) ==
    LET found == Named(items, o.node)
        n == found[1]
    IN  CASE o.list -> "UNKNOWN"
          [] ~o.list /\ found = <<>> -> "CRITICAL"
          [] OTHER -> IF n.age = Never \/ n.ratio < 0 THEN "UNKNOWN"
                      ELSE Both(If(n.age > o.maxAge \/ n.failures > o.maxFailures \/ n.ratio > o.maxRatio, "CRITICAL"),
                                If(Above(n.requests, o.maxRequests), "WARNING"))

\* The hour is read as one of 24 and AM or PM passed over: an afternoon counts
\* as twelve hours ago.
BlueTalonDeployment(o, items) ==
    IF items = <<>> THEN "UNKNOWN"
    ELSE CheckLower(items[1].age + IF items[1].pm THEN 12 ELSE 0, o.warn, o.crit)
BlueTalonVersion(o, items) ==
    IF items = <<>> THEN Trapped
    ELSE IF items[1].company # "Blue Talon" \/ items[1].api # "1.0" THEN "UNKNOWN"
         ELSE If(o.expected # "none" /\ items[1].version # o.expected, "CRITICAL")

\* The counts; resources are counted over all of their domains.
BlueTalonPolicies(o, items) == CheckUpper(Len(items), o.warn, o.crit)
BlueTalonMaskingFunctions(o, items) == CheckUpper(Len(items), o.warn, o.crit)
BlueTalonResourceDomains(o, items) == CheckUpper(Len(items), o.warn, o.crit)
BlueTalonResources(o, items) == CheckUpper(FoldLeft(LAMBDA sum, n : sum + n, 0, items), o.warn, o.crit)
BlueTalonRules(o, items) == CheckUpper(Len(items), o.warn, o.crit)
BlueTalonUserDomains(o, items) == CheckUpper(Len(items), o.warn, o.crit)

DataVerdict(p, o, items) ==
    CASE p = "ranger_policy" -> RangerPolicy(o, items)
      [] p = "ranger_repo" -> RangerRepository(o, items)
      [] p = "presto_queries" -> PrestoQueries(o, items)
      [] p = "presto_worker" -> PrestoWorker(o, items)
      [] p = "bt_deployment" -> BlueTalonDeployment(o, items)
      [] p = "bt_version" -> BlueTalonVersion(o, items)
      [] p = "bt_policies" -> BlueTalonPolicies(o, items)
      [] p = "bt_masking" -> BlueTalonMaskingFunctions(o, items)
      [] p = "bt_domains" -> BlueTalonResourceDomains(o, items)
      [] p = "bt_resources" -> BlueTalonResources(o, items)
      [] p = "bt_rules" -> BlueTalonRules(o, items)
      [] p = "bt_users" -> BlueTalonUserDomains(o, items)
DataStep(p, o, seen) ==
    CASE ~DataValid(p, o) -> Exit("UNKNOWN")
      [] seen = <<>> -> Ask(DataRequest(p, o))
      [] Broken(seen) -> Exit(Last(seen).fatal)
      [] p = "atlas" -> AtlasStep(o, seen)
      [] OTHER -> Exit(DataVerdict(p, o, seen[1].items))

\* What OK tells of.  An entity by its name had the name when it was listed
\* and was as expected when it was asked for.
DataClaims(p, o, w) ==
    IF p = "atlas" THEN (IF o.by = "name" THEN {"named"} ELSE {}) \cup {"expected"} ELSE {"items"}
AsWanted(o, e) == e.state = "ACTIVE" /\ o.tags \subseteq e.tags /\ (o.type # "none" => e.type = o.type)
LongAgo(o, age) == age # Never /\ ~Below(age, o.warn) /\ ~Below(age, o.crit)
DataHolds(p, c, o, w) ==
    LET items == Range(w.items)
    IN  CASE p \in {"ranger_policy", "ranger_repo"} ->
               \E r \in items : /\ o.by \in {"id", "both"} => r.id = 1
                                /\ o.by \in {"name", "both"} => r.name = "p"
                                /\ r.enabled /\ LongAgo(o, r.age)
                                /\ o.type # "none" => r.type = o.type
                                /\ p = "ranger_policy" => (r.audit \/ o.noAudit) /\ (r.recursive \/ ~o.recursive)
          [] p = "atlas" /\ c = "named" -> \E e \in items : e.name = "e"
          [] p = "atlas" /\ c = "expected" ->
               \E e \in items : AsWanted(o, e) /\ (o.by = "id" => e.id = 1)
          [] p = "presto_queries" ->
               LET wanted == {i \in DOMAIN PrestoMatching(o, w.items) : i <= o.num}
               IN  /\ Len(PrestoMatching(o, w.items)) >= o.min
                   /\ Cardinality({i \in wanted : \E s \in o.states :
                                     PrestoMatching(o, w.items)[i].state \in PrestoStates[s]}) <= o.warn
          [] p = "presto_worker" -> \E n \in items : n.name = o.node /\ n.age <= o.maxAge /\ n.failures <= o.maxFailures
                                                     /\ n.ratio <= o.maxRatio /\ ~Above(n.requests, o.maxRequests)
          [] p = "bt_deployment" -> w.items # <<>> /\ (w.items[1].pm \/ LongAgo(o, w.items[1].age))
          [] p = "bt_version" -> w.items # <<>> /\ (o.expected # "none" => w.items[1].version = o.expected)
          [] p = "bt_resources" -> LET sum == FoldLeft(LAMBDA s, n : s + n, 0, w.items)
                                   IN  ~Above(sum, o.warn) /\ ~Above(sum, o.crit)
          [] OTHER -> ~Above(Len(w.items), o.warn) /\ ~Above(Len(w.items), o.crit)

\* Of two policies or entities of the name the first is the one that is checked.
DataExcuses(p, o, w) ==
    \/ p \in {"ranger_policy", "ranger_repo"} /\ Len(Named(w.items, "p")) > 1
    \/ p = "atlas" /\ o.by = "name" /\ \E e \in Range(w.items) : e.name = "e" /\ ~AsWanted(o, e)
=============================================================================
