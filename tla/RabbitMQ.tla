------------------------------- MODULE RabbitMQ -------------------------------
(***************************************************************************)
(* The plugins of RabbitMQ: the ones that read its management API, and the *)
(* one that subscribes to a queue, publishes a message of its own, sleeps  *)
(* and consumes until the message comes back.                              *)
(***************************************************************************)
EXTENDS PluginStep

RabbitRest == {"rmq_exchange", "rmq_queue", "rmq_vhost", "rmq_auth", "rmq_alive", "rmq_health", "rmq_name", "rmq_stats",
               "rmq_version"}
RabbitPlugins == RabbitRest \cup {"rmq_publish"}

\* What the API tells of the thing that is asked for, or of every vhost.
Vhost == [name : {"x", "y"}, tracing : BOOLEAN]
NoNumber == -1
RabbitItems(p) ==
    CASE p \in {"rmq_exchange", "rmq_queue"} ->
           [name : {"x", "y", "absent"}, type : {"direct", "topic"}, durable : {"true", "false"}, state : {"running", "down"}]
      [] p = "rmq_vhost" -> {s \in SUBSET Vhost : \A v, u \in s : v.name = u.name => v = u}
      [] p = "rmq_auth" -> [name : {"x", "y"}, tags : {"administrator", "management"}]
      [] p \in {"rmq_alive", "rmq_health"} -> {"ok", "failed"}
      [] p = "rmq_name" -> {"prod", "test"}
      [] p = "rmq_stats" -> {NoNumber, 0, 2, 4}
      [] p = "rmq_version" -> {"3", "4"}

\* The broker of the publish check.  ahead counts the messages of others in
\* the queue before its own; "mine" is where its own is.  rung is the timer that
\* pika runs out of, and broker also "blocked", when it is low on memory;
\* speed is how long it takes to confirm or to deliver a message.
MaxAhead == 2
Brokers == [broker : {"up", "down", "blocked"}, declared : {"no", "alike", "otherwise"}, ahead : {0, MaxAhead}, mine : {"unsent"},
            rung : {FALSE}, speed : Speeds]
RabbitWorlds(p) ==
    IF p = "rmq_publish" THEN {w \in Brokers : w.declared = "no" => w.ahead = 0}
    ELSE [http : {"up"}, item : RabbitItems(p)] \cup [http : {"down", "garbled"}, item : {CHOOSE i \in RabbitItems(p) : TRUE}]

\* The broker goes, runs short of memory or changes its speed, someone else consumes from or
\* publishes to the queue, a third of the timeout passes.
RabbitChanges(p, w) ==
    IF p # "rmq_publish" THEN {}
    ELSE {[w EXCEPT !.broker = "down", !.mine = IF @ = "queued" THEN "lost" ELSE @], [w EXCEPT !.broker = "blocked"]}
         \cup {[w EXCEPT !.ahead = n] : n \in {k \in {w.ahead + 1} : w.mine = "unsent" /\ k <= MaxAhead}}
         \cup {IF w.ahead > 0 THEN [w EXCEPT !.ahead = @ - 1] ELSE [w EXCEPT !.mine = IF @ = "queued" THEN "lost" ELSE @]}
         \cup {[w EXCEPT !.rung = TRUE]} \cup {[w EXCEPT !.speed = s] : s \in {"OK", "CRITICAL"}}

RabbitOptions(p) ==
    CASE p = "rmq_exchange" -> [list : BOOLEAN, type : {"none", "direct", "bogus"}, durable : {"none", "true", "bogus"}]
      [] p = "rmq_queue" -> [list : BOOLEAN, durable : {"none", "true", "bogus"}]
      [] p = "rmq_vhost" -> [list : BOOLEAN, noTracing : BOOLEAN]
      [] p = "rmq_auth" -> [tag : {"none", "administrator"}]
      [] p \in {"rmq_alive", "rmq_health"} -> {[none |-> TRUE]}
      [] p = "rmq_name" -> [expected : {"none", "prod"}]
      [] p = "rmq_stats" -> [warn : {NoLimit, 1}, crit : {NoLimit, 3}]
      [] p = "rmq_version" -> [expected : {"none", "3"}]
      [] p = "rmq_publish" -> [exchange : {"", "x", "bogus"}, queue : {"auto", "named"}, key : {"queue", "other"},
                               transactions : BOOLEAN]
RabbitValid(p, o) ==
    CASE p = "rmq_exchange" -> o.list \/ (o.type # "bogus" /\ o.durable # "bogus")
      [] p = "rmq_queue" -> o.list \/ o.durable # "bogus"
      [] p = "rmq_publish" -> o.exchange # "bogus"
      [] OTHER -> TRUE

-----------------------------------------------------------------------------
(* The management API. *)

\* Type and durability are compared when they are given; a queue that is not
\* running is told of in the message, and in no state.
Exchange(o, e) ==
    IF e.name # "x" THEN "CRITICAL"
    ELSE If(o.type \notin {"none", e.type} \/ o.durable \notin {"none", e.durable}, "CRITICAL")
Queue(o, q) == IF q.name # "x" THEN "CRITICAL" ELSE If(o.durable \notin {"none", q.durable}, "CRITICAL")
CheckVhost(o, vhosts) ==
    IF \E v \in vhosts : v.name = "x" THEN If(o.noTracing /\ \E v \in vhosts : v.name = "x" /\ v.tracing, "WARNING")
    ELSE "CRITICAL"
Auth(o, user) == If(user.name # "x" \/ o.tag \notin {"none", user.tags}, "CRITICAL")
Aliveness(status) == If(status # "ok", "CRITICAL")
\* (mutant: the broker's own word is the state)
HealthcheckVerbatim(status) == status
Healthcheck(status) == If(status # "ok", "CRITICAL")
ClusterName(o, name) == If(o.expected \notin {"none", name}, "CRITICAL")
StatsDbEventQueue(o, n) == IF n = NoNumber THEN "UNKNOWN" ELSE CheckUpper(n, o.warn, o.crit)
RabbitVersion(o, version) == If(o.expected \notin {"none", version}, "CRITICAL")
RestVerdict(p, o, item) ==
    CASE p \in {"rmq_exchange", "rmq_queue", "rmq_vhost"} /\ o.list -> "UNKNOWN"
      [] p = "rmq_exchange" /\ ~o.list -> Exchange(o, item)
      [] p = "rmq_queue" /\ ~o.list -> Queue(o, item)
      [] p = "rmq_vhost" /\ ~o.list -> CheckVhost(o, item)
      [] p = "rmq_auth" -> Auth(o, item)
      [] p = "rmq_alive" -> Aliveness(item)
      [] p = "rmq_health" -> Healthcheck(item)
      [] p = "rmq_name" -> ClusterName(o, item)
      [] p = "rmq_stats" -> StatsDbEventQueue(o, item)
      [] p = "rmq_version" -> RabbitVersion(o, item)

-----------------------------------------------------------------------------
(* Publish and consume. *)

\* A message reaches the queue through the nameless exchange under the queue's
\* name, and through another under the key the queue is bound with, which is
\* its name as well, whatever --routing-key says.
Routed(o) == o.key = "queue"

\* A queue or exchange that exists with other properties closes the channel.
\* An exclusive queue is new.
Subscribed(o, w) == IF w.broker = "down" \/ (o.queue = "named" /\ w.declared = "otherwise") THEN Fatal("CRITICAL") ELSE [done |-> TRUE]
\* With confirmation pika reports a message the broker sends back; a
\* transaction commits all the same.
Published(o, w) == IF w.broker # "up" \/ ~(Routed(o) \/ o.transactions) THEN Fatal("CRITICAL")
                   ELSE [done |-> TRUE, took |-> w.speed]
\* One more message of the queue, unless a timer or the connection ends it.
Consumed(w) ==
    CASE w.broker = "down" \/ w.rung -> Fatal("CRITICAL")
      [] w.broker # "down" /\ ~w.rung /\ w.ahead > 0 -> [message |-> "other", took |-> w.speed]
      [] w.broker # "down" /\ ~w.rung /\ w.ahead = 0 /\ w.mine = "queued" -> [message |-> "mine", took |-> w.speed]
      [] OTHER -> NotYet
RabbitAnswer(p, o, w, request) ==
    IF p # "rmq_publish" THEN Http(w.http, [item |-> w.item])
    ELSE CASE request = "subscribe" -> Subscribed(o, w)
           [] request = "publish" -> Published(o, w)
           [] request = "consume" -> Consumed(w)

RabbitEffect(p, o, w, request) ==
    IF p # "rmq_publish" THEN w
    ELSE CASE request = "subscribe" -> IF o.queue = "auto" THEN [w EXCEPT !.ahead = 0] ELSE w
           [] request = "publish" -> IF w.broker = "up" /\ Routed(o) THEN [w EXCEPT !.mine = "queued"] ELSE w
           [] request = "consume" ->
                CASE w.broker = "down" \/ w.rung -> w
                  [] w.broker # "down" /\ ~w.rung /\ w.ahead > 0 -> [w EXCEPT !.ahead = @ - 1]
                  [] OTHER -> [w EXCEPT !.mine = IF @ = "queued" THEN "back" ELSE @]

\* bound: the messages of others the consumer passes over (10000 in the code)
MessageLimit == 1
Others(seen) == Cardinality({i \in DOMAIN seen : "message" \in DOMAIN seen[i] /\ seen[i].message = "other"})
\* What the thresholds apply to: publishing, and consuming up to the own message.
PublishTimings(seen) == {seen[i].took : i \in {j \in 2..Len(seen) : seen[j] # NotYet}}
\* (mutant: any message will do)
ConsumerCallbackAny(seen) == Exit(CheckTimings(PublishTimings(seen)))
ConsumerCallback(seen) ==
    CASE Last(seen).message = "mine" -> Exit(CheckTimings(PublishTimings(seen)))
      [] Last(seen).message # "mine" /\ Others(seen) > MessageLimit -> Exit("CRITICAL")
      [] OTHER -> Ask("consume")
PublishStep(seen) ==
    IF seen = <<>> THEN Ask("subscribe")
    ELSE IF Len(seen) = 1 THEN Ask("publish")
    ELSE IF Len(seen) = 2 \/ IsNotYet(seen) THEN Ask("consume") ELSE ConsumerCallback(seen)

RabbitStep(p, o, seen) ==
    IF ~RabbitValid(p, o) THEN Exit("UNKNOWN")
    ELSE IF Broken(seen) THEN Exit(Last(seen).fatal)
    ELSE IF p = "rmq_publish" THEN PublishStep(seen)
    ELSE IF seen = <<>> THEN Ask("api") ELSE Exit(RestVerdict(p, o, seen[1].item))

-----------------------------------------------------------------------------
(* What OK tells of, and for the publish check what it has done: its own    *)
(* message was the one that came back.                                      *)

RabbitClaims(p) == IF p = "rmq_publish" THEN {"up", "quick"} ELSE {"it"}
RabbitDeeds(p) == IF p = "rmq_publish" THEN {"it"} ELSE {}
RestHolds(p, o, w) ==
    CASE p = "rmq_exchange" -> w.item.name = "x" /\ o.type \in {"none", w.item.type} /\ o.durable \in {"none", w.item.durable}
      [] p = "rmq_queue" -> w.item.name = "x" /\ o.durable \in {"none", w.item.durable}
      [] p = "rmq_vhost" -> \E v \in w.item : v.name = "x" /\ ~(o.noTracing /\ v.tracing)
      [] p = "rmq_auth" -> w.item.name = "x" /\ o.tag \in {"none", w.item.tags}
      [] p \in {"rmq_alive", "rmq_health"} -> w.item = "ok"
      [] p \in {"rmq_name", "rmq_version"} -> o.expected \in {"none", w.item}
      [] p = "rmq_stats" -> w.item # NoNumber /\ ~Above(w.item, o.warn) /\ ~Above(w.item, o.crit)
RabbitHolds(p, c, o, w) ==
    IF p # "rmq_publish" THEN RestHolds(p, o, w)
    ELSE CASE c = "up" -> w.broker = "up" [] c = "quick" -> w.speed = "OK" [] c = "it" -> w.mine = "back"
\* A message that --routing-key sends astray, that is behind too many others or
\* that a queue of other properties cannot take, and a timer of pika's.
RabbitExcuses(p, o, w) ==
    IF p # "rmq_publish" THEN w.http # "up"
    ELSE w.rung \/ ~Routed(o) \/ (o.queue = "named" /\ w.declared = "otherwise") \/ w.ahead > MessageLimit
=============================================================================
