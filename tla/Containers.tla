----------------------------- MODULE Containers -----------------------------
(***************************************************************************)
(* The plugins of Consul and of Docker and its swarms.                     *)
(***************************************************************************)
EXTENDS PluginStep

ConsulPlugins == {"cs_service", "cs_peers", "cs_key", "cs_write", "cs_leader", "cs_version"}
SwarmInfo == {"dk_manager", "dk_error", "dk_active", "dk_nodes"}
Listings == {"dk_images", "dk_volumes", "dk_networks", "dk_services"}
Versions == {"cs_version", "dk_version", "dk_swarm_version"}
ContainerPlugins == ConsulPlugins \cup SwarmInfo \cup Listings \cup Versions
    \cup {"dk_service", "dk_container", "dk_containers", "dk_enabled", "dk_ping"}

\* The thing each plugin asks about.  The leader of a service holds the lock of
\* its key with a session of one node.  away: how far the clock of the plugin's
\* host is ahead of UTC, in the hours it reads ages with.
Leadership == [key : BOOLEAN, session : {"none", "s1", "s2"}, node : {"n1", "n2"}]
Swarm == [member : BOOLEAN, controls : BOOLEAN, error : {"", "raft"}, state : {"active", "pending"}, managers : {0, 2, 4},
          nodes : {4}]
Service == [mode : {"replicated", "global", "other", "absent"}, running : 0..3, age : {1, 5}, away : {-3, 0, 3}]
Container == [status : {"running", "paused", "restarting", "exited", "absent"}, dead : BOOLEAN, exit : {0, 1},
              error : {"", "oops"}, oom : BOOLEAN, restarting : BOOLEAN, paused : BOOLEAN]
Kinds == {"running", "paused", "stopped", "total"}
ContainerItems(p) ==
    CASE p = "cs_service" -> Leadership
      [] p = "cs_peers" -> UNION {[1..n -> {"a", "b", "c"}] : n \in 0..3}
      [] p = "cs_key" -> [rows : 0..2, field : BOOLEAN, value : {"v", "w"}]
      [] p = "cs_write" -> [key : {"old"}, speed : Speeds]
      [] p = "cs_leader" -> {"1.2.3.4:8300", "", "[::1]:8300"}
      [] p \in Versions -> [rc : {0, 1}, version : {"1", "2", "?"}]
      [] p \in SwarmInfo -> Swarm
      [] p \in Listings -> {0, 2, 4}
      [] p = "dk_service" -> Service
      [] p = "dk_container" -> Container
      [] p = "dk_containers" -> [Kinds -> {0, 4}] \cup {[k \in Kinds |-> 2]}
      [] p \in {"dk_enabled", "dk_ping"} -> BOOLEAN
ContainerWorlds(p) ==
    [http : {"up"}, item : ContainerItems(p)]
    \cup [http : {"down"} \cup IF p \in ConsulPlugins THEN {"garbled"} ELSE {}, item : {CHOOSE i \in ContainerItems(p) : TRUE}]

\* The leader loses its session, another takes the lock; someone else writes
\* the key; tasks of a service start and stop, the service is updated or removed.
ContainerChanges(p, w) ==
    CASE p = "cs_service" -> {[w EXCEPT !.item.session = "none"]} \cup {[w EXCEPT !.item.session = "s2", !.item.node = n] : n \in {"n1", "n2"}}
      [] p = "cs_write" -> {[w EXCEPT !.item.key = "other"]} \cup {[w EXCEPT !.item.speed = s] : s \in {"OK", "CRITICAL"}}
      [] p = "dk_service" -> {[w EXCEPT !.item.running = n] : n \in 0..3}
                             \cup {[w EXCEPT !.item.age = 0], [w EXCEPT !.item.mode = "absent"]}
      [] OTHER -> {}

NoOptions == {[none |-> TRUE]}
ContainerOptions(p) ==
    CASE p = "cs_service" -> [key : BOOLEAN, regex : {"none", "n1"}]
      [] p = "cs_peers" -> [warn : {NoLimit, 1, 3}, crit : {NoLimit, 1, 2}]
      [] p = "cs_key" -> [regex : {"none", "v"}]
      [] p \in Versions -> [expected : {"none", "1"}]
      [] p = "dk_nodes" -> [manager : BOOLEAN, warn : {NoLimit, 5}, crit : {NoLimit, 3}]
      [] p \in Listings -> [warn : {NoLimit, 1}, crit : {NoLimit, 3}]
      [] p = "dk_service" -> [within : {NoLimit, 3}, warn : {NoLimit, 3}, crit : {NoLimit, 2}]
      [] p = "dk_containers" -> [kinds : SUBSET Kinds, warn : {NoLimit, 1}, crit : {NoLimit, 3}]
      [] OTHER -> NoOptions
ContainerValid(p, o) == (p = "cs_service" => o.key) /\ (p = "dk_containers" => Cardinality(o.kinds) <= 1)

-----------------------------------------------------------------------------
(* Consul *)

\* The key of a service and the session that locks it; of a session that is
\* gone Consul tells nothing.
ServiceAnswerOf(l, request) ==
    CASE request = "key" -> IF l.key THEN [session |-> l.session] ELSE Fatal("CRITICAL")
      [] OTHER -> IF request = l.session THEN [node |-> l.node] ELSE Fatal("UNKNOWN")
ServiceLeaderElected(o, seen) ==
    CASE seen = <<>> -> Ask("key")
      [] Len(seen) = 1 -> IF seen[1].session = "none" THEN Exit("CRITICAL")
                          ELSE IF o.regex = "none" THEN Exit("OK") ELSE Ask(seen[1].session)
      [] OTHER -> Exit(If(seen[2].node # o.regex, "CRITICAL"))

\* Peers are counted once each.
PeerCount(o, peers) == IF peers = <<>> THEN "CRITICAL" ELSE CheckLower(Cardinality(Range(peers)), o.warn, o.crit)
ExtractValue(o, kv) == IF kv.rows # 1 \/ ~kv.field THEN "UNKNOWN" ELSE If(o.regex \notin {"none", kv.value}, "CRITICAL")
\* The value written is read back, and the key deleted; the slowest of the
\* three is what the thresholds apply to.
ConsulWrite(seen) ==
    CASE seen = <<>> -> Ask("write")
      [] Len(seen) = 1 -> Ask("read")
      [] Len(seen) = 2 -> IF seen[2].item.key # "mine" THEN Exit("CRITICAL") ELSE Ask("delete")
      [] OTHER -> Exit(CheckTimings({seen[i].item.speed : i \in 1..3}))
\* An address that is not of IPv4 is no leader.
LeaderElected(address) == If(address # "1.2.3.4:8300", "CRITICAL")
ConsulVersion(o, v) ==
    CASE v.rc # 0 -> "CRITICAL" [] v.rc = 0 /\ v.version = "?" -> "UNKNOWN"
      [] OTHER -> If(o.expected \notin {"none", v.version}, "CRITICAL")

-----------------------------------------------------------------------------
(* Docker *)

\* The tasks are asked for after the service; ages are of the local clock and
\* a time that is UTC.
SwarmServiceStatus(o, seen) ==
    LET s == seen[1].item
        running == seen[2].item.running
    IN  CASE seen = <<>> -> Ask("service")
          [] Len(seen) = 1 -> IF s.mode = "other" THEN Exit("UNKNOWN") ELSE Ask("tasks")
          [] OTHER -> Exit(Both(Both(CheckLower(running, o.warn, o.crit),
                                     If(running = 0 \/ (s.mode # "replicated" /\ {o.warn, o.crit} # {NoLimit}), "CRITICAL")),
                                If(o.within # NoLimit /\ s.age + s.away < o.within, "WARNING")))

ContainerStatus(s) ==
    IF (s.status \notin {"running", "paused", "restarting"}) \/ s.dead \/ s.exit # 0 \/ s.error # "" \/ s.oom THEN "CRITICAL"
    ELSE If(s.status # "running" \/ s.paused \/ s.restarting, "WARNING")
\* The limits are read only with the kind they are of.
ContainerCounts(o, counts) ==
    IF o.kinds = {} THEN "OK" ELSE LET kind == CHOOSE k \in o.kinds : TRUE IN CheckUpper(counts[kind], o.warn, o.crit)
Images(o, n) == CheckUpper(n, o.warn, o.crit)
Volumes(o, n) == CheckUpper(n, o.warn, o.crit)
Networks(o, n) == CheckUpper(n, o.warn, o.crit)
SwarmServices(o, n) == CheckUpper(n, o.warn, o.crit)

\* Without --manager it is all nodes that are counted.
SwarmNodes(o, s) == IF ~s.member THEN "CRITICAL" ELSE CheckLower(IF o.manager THEN s.managers ELSE s.nodes, o.warn, o.crit)
SwarmIsManager(s) == If(~s.member \/ ~s.controls, "CRITICAL")
SwarmError(s) == If(~s.member \/ s.error # "", "CRITICAL")
SwarmNodeActive(s) == If(~s.member \/ s.state # "active", "CRITICAL")
SwarmEnabled(enabled) == If(~enabled, "CRITICAL")
ApiPing(answered) == If(~answered, "CRITICAL")
DockerVersion(o, v) == IF v.version = "?" THEN "UNKNOWN" ELSE If(o.expected \notin {"none", v.version}, "CRITICAL")
\* (rc of a swarm's version: whether the node is of a swarm)
SwarmVersion(o, v) ==
    CASE v.rc # 0 -> "CRITICAL" [] v.rc = 0 /\ v.version = "?" -> "UNKNOWN"
      [] OTHER -> If(o.expected \notin {"none", v.version}, "CRITICAL")

-----------------------------------------------------------------------------
(* All of them *)

ContainerAnswer(p, o, w, request) ==
    CASE p = "cs_service" -> Http(w.http, ServiceAnswerOf(w.item, request))
      [] p \in {"dk_service", "dk_container"} /\ "absent" \in {w.item[f] : f \in DOMAIN w.item \cap {"mode", "status"}} ->
           IF w.http = "up" /\ request = "tasks" THEN Fatal(Trapped) ELSE Fatal("CRITICAL")
      [] OTHER -> Http(w.http, [item |-> w.item])
ContainerEffect(p, w, request) ==
    IF p # "cs_write" \/ w.http # "up" THEN w
    ELSE CASE request = "write" -> [w EXCEPT !.item.key = "mine"] [] request = "delete" -> [w EXCEPT !.item.key = "none"]
           [] OTHER -> w

ContainerVerdict(p, o, item) ==
    CASE p = "cs_peers" -> PeerCount(o, item)
      [] p = "cs_key" -> ExtractValue(o, item)
      [] p = "cs_leader" -> LeaderElected(item)
      [] p = "cs_version" -> ConsulVersion(o, item)
      [] p = "dk_container" -> ContainerStatus(item)
      [] p = "dk_containers" -> ContainerCounts(o, item)
      [] p = "dk_images" -> Images(o, item)
      [] p = "dk_volumes" -> Volumes(o, item)
      [] p = "dk_networks" -> Networks(o, item)
      [] p = "dk_services" -> SwarmServices(o, item)
      [] p = "dk_nodes" -> SwarmNodes(o, item)
      [] p = "dk_manager" -> SwarmIsManager(item)
      [] p = "dk_error" -> SwarmError(item)
      [] p = "dk_active" -> SwarmNodeActive(item)
      [] p = "dk_enabled" -> SwarmEnabled(item)
      [] p = "dk_ping" -> ApiPing(item)
      [] p = "dk_version" -> DockerVersion(o, item)
      [] p = "dk_swarm_version" -> SwarmVersion(o, item)
ContainerStep(p, o, seen) ==
    IF ~ContainerValid(p, o) THEN Exit("UNKNOWN")
    ELSE IF Broken(seen) THEN Exit(Last(seen).fatal)
    ELSE CASE p = "cs_service" -> ServiceLeaderElected(o, seen)
           [] p = "cs_write" -> ConsulWrite(seen)
           [] p = "dk_service" -> SwarmServiceStatus(o, seen)
           [] OTHER -> IF seen = <<>> THEN Ask("it") ELSE Exit(ContainerVerdict(p, o, seen[1].item))

\* What OK tells of; a leader's host and a service's tasks are of the later
\* answer, and an update is known only by a clock that keeps UTC.
ContainerClaims(p, o, w) ==
    CASE p = "cs_service" -> {"leader"} \cup IF o.regex = "none" THEN {} ELSE {"host"}
      [] p = "cs_write" -> {"quick", "undisturbed"}
      [] p = "dk_service" -> {"tasks", "service"}
      [] OTHER -> {"it"}
ContainerDeeds(p) == IF p = "cs_write" THEN {"kept", "clean"} ELSE {}
EnoughTasks(o, s) == s.mode # "absent" /\ s.running > 0 /\ ~Below(s.running, o.warn) /\ ~Below(s.running, o.crit)
CountedBy(p, o, item) ==
    CASE p \in Listings -> {item} [] p = "dk_containers" -> {item[k] : k \in o.kinds}
ContainerHolds(p, c, o, w) ==
    CASE c = "leader" -> w.item.key /\ w.item.session # "none"
      [] c = "host" -> w.item.session # "none" /\ w.item.node = o.regex
      [] c = "quick" -> w.item.speed = "OK"
      [] c = "undisturbed" -> w.item.key # "other"
      [] c = "kept" -> w.item.key = "mine"
      [] c = "clean" -> w.item.key = "none"
      [] c = "tasks" -> EnoughTasks(o, w.item)
      [] c = "service" -> /\ w.item.mode \in {"replicated", "global"}
                          /\ w.item.mode = "global" => {o.warn, o.crit} = {NoLimit}
                          /\ o.within = NoLimit \/ w.item.age >= o.within
      [] p = "cs_peers" -> LET n == Cardinality(Range(w.item)) IN n > 0 /\ ~Below(n, o.warn) /\ ~Below(n, o.crit)
      [] p = "cs_key" -> w.item.rows = 1 /\ w.item.field /\ o.regex \in {"none", w.item.value}
      [] p = "cs_leader" -> w.item # ""
      [] p \in Versions -> w.item.version # "?" /\ o.expected \in {"none", w.item.version} /\ (p # "dk_version" => w.item.rc = 0)
      [] p \in Listings \cup {"dk_containers"} -> \A n \in CountedBy(p, o, w.item) : ~Above(n, o.warn) /\ ~Above(n, o.crit)
      [] p = "dk_nodes" -> LET n == IF o.manager THEN w.item.managers ELSE w.item.nodes
                           IN  w.item.member /\ ~Below(n, o.warn) /\ ~Below(n, o.crit)
      [] p = "dk_manager" -> w.item.member /\ w.item.controls
      [] p = "dk_error" -> w.item.member /\ w.item.error = ""
      [] p = "dk_active" -> w.item.member /\ w.item.state = "active"
      [] p = "dk_container" -> w.item = [status |-> "running", dead |-> FALSE, exit |-> 0, error |-> "", oom |-> FALSE,
                                         restarting |-> FALSE, paused |-> FALSE]
      [] p \in {"dk_enabled", "dk_ping"} -> w.item
\* An update is known only by a clock that keeps UTC.
ContainerOverlooks(p, c, o, w) ==
    p = "dk_service" /\ c = "service" /\ o.within # NoLimit /\ w.item.away # 0
    /\ w.item.mode \in {"replicated", "global"} /\ (w.item.mode = "global" => {o.warn, o.crit} = {NoLimit})
ContainerExcuses(p, o, w) == w.http # "up" \/ (p = "dk_service" /\ w.item.away # 0) \/ (p = "cs_leader" /\ w.item = "[::1]:8300")
=============================================================================
