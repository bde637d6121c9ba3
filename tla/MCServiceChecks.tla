--------------------------- MODULE MCServiceChecks ---------------------------
(* PluginRun for TLC, with the plugins that ask a service on the network.   *)
EXTENDS PluginRun, ZaloniBedrock, YarnApps, HBaseTables, HBasePages, DataServices, CiServers, AwsAccount, Containers, RabbitMQ,
    LogServer

ServicePlugins == ZaloniPlugins \cup YarnPlugins \cup TablePlugins \cup PagePlugins \cup DataPlugins \cup CiPlugins
    \cup AwsPlugins \cup ContainerPlugins \cup RabbitPlugins \cup LogPlugins
ServiceOptions(p) ==
    CASE p \in ZaloniPlugins -> ZaloniOptions(p) [] p \in YarnPlugins -> YarnOptions(p) [] p \in TablePlugins -> TableOptions(p)
      [] p \in PagePlugins -> PageOptions(p) [] p \in DataPlugins -> DataOptions(p) [] p \in CiPlugins -> CiOptions(p)
      [] p \in AwsPlugins -> AwsOptions(p) [] p \in ContainerPlugins -> ContainerOptions(p) [] p \in RabbitPlugins -> RabbitOptions(p)
      [] p \in LogPlugins -> LogOptions
ServiceWorlds(p) ==
    CASE p \in ZaloniPlugins -> ZaloniWorlds(p) [] p \in YarnPlugins -> YarnWorlds [] p \in TablePlugins -> TableWorlds
      [] p \in PagePlugins -> PageWorlds(p) [] p \in DataPlugins -> DataWorlds(p) [] p \in CiPlugins -> CiWorlds(p)
      [] p \in AwsPlugins -> AwsWorlds(p) [] p \in ContainerPlugins -> ContainerWorlds(p) [] p \in RabbitPlugins -> RabbitWorlds(p)
      [] p \in LogPlugins -> LogWorlds
ServiceChanges(p, w) ==
    CASE p \in ZaloniPlugins -> ZaloniChanges(p, w) [] p \in TablePlugins -> TableChanges(p, w)
      [] p \in PagePlugins -> PageChanges(p, w) [] p \in DataPlugins -> DataChanges(p, w)
      [] p \in CiPlugins -> CiChanges(p, w) [] p \in AwsPlugins -> AwsChanges(p, w)
      [] p \in ContainerPlugins -> ContainerChanges(p, w) [] p \in RabbitPlugins -> RabbitChanges(p, w)
      [] p \in LogPlugins -> LogChanges(w) [] OTHER -> {}
ServiceAnswer(p, o, w, request) ==
    CASE p \in ZaloniPlugins -> ZaloniAnswer(p, o, w, request) [] p \in YarnPlugins -> YarnAnswer(p, o, w, request)
      [] p \in TablePlugins -> TableAnswer(p, o, w, request) [] p \in PagePlugins -> PageAnswer(p, o, w, request)
      [] p \in DataPlugins -> DataAnswer(p, o, w, request) [] p \in CiPlugins -> CiAnswer(p, o, w, request)
      [] p \in AwsPlugins -> AwsAnswer(p, o, w, request) [] p \in ContainerPlugins -> ContainerAnswer(p, o, w, request)
      [] p \in RabbitPlugins -> RabbitAnswer(p, o, w, request) [] p \in LogPlugins -> LogAnswer(o, w, request)
ServiceEffect(p, o, w, request) ==
    CASE p \in TablePlugins -> TableEffect(w, request) [] p \in ContainerPlugins -> ContainerEffect(p, w, request)
      [] p \in RabbitPlugins -> RabbitEffect(p, o, w, request) [] p \in LogPlugins -> LogEffect(w, request)
      [] OTHER -> w
ServiceStep(p, o, s, w) ==
    CASE p \in ZaloniPlugins -> ZaloniStep(p, o, s) [] p \in YarnPlugins -> YarnStep(p, o, s)
      [] p \in TablePlugins -> TableStep(p, o, s) [] p \in PagePlugins -> PageStep(p, o, s)
      [] p \in DataPlugins -> DataStep(p, o, s) [] p \in CiPlugins -> CiStep(p, o, s)
      [] p \in AwsPlugins -> AwsStep(p, o, s) [] p \in ContainerPlugins -> ContainerStep(p, o, s)
      [] p \in RabbitPlugins -> RabbitStep(p, o, s) [] p \in LogPlugins -> TestLogserver(o, s)
ServiceClaims(p, o, w) ==
    CASE p \in ZaloniPlugins -> ZaloniClaims(p, o, w) [] p \in TablePlugins -> TableClaims(p, o, w)
      [] p \in PagePlugins -> PageClaims(p) [] p \in DataPlugins -> DataClaims(p, o, w) [] p \in AwsPlugins -> AwsClaims(p, o, w)
      [] p \in ContainerPlugins -> ContainerClaims(p, o, w) [] p \in RabbitPlugins -> RabbitClaims(p) [] OTHER -> {"it"}
ServiceDeeds(p, o, w) ==
    CASE p \in TablePlugins -> TableDeeds(p, o, w) [] p \in ContainerPlugins -> ContainerDeeds(p)
      [] p \in RabbitPlugins -> RabbitDeeds(p) [] OTHER -> {}
ServiceHolds(p, c, o, w) ==
    CASE p \in ZaloniPlugins -> ZaloniHolds(p, c, o, w) [] p \in YarnPlugins -> YarnHolds(p, o, w)
      [] p \in TablePlugins -> TableHolds(p, c, o, w) [] p \in PagePlugins -> PageHolds(p, c, o, w)
      [] p \in DataPlugins -> DataHolds(p, c, o, w) [] p \in CiPlugins -> CiHolds(p, o, w)
      [] p \in AwsPlugins -> AwsHolds(p, c, o, w) [] p \in ContainerPlugins -> ContainerHolds(p, c, o, w)
      [] p \in RabbitPlugins -> RabbitHolds(p, c, o, w) [] p \in LogPlugins -> LogHolds(w)
ServiceOverlooks(p, c, o, w) ==
    CASE p \in TablePlugins -> TableOverlooks(p, c, o, w) [] p \in ContainerPlugins -> ContainerOverlooks(p, c, o, w)
      [] p \in AwsPlugins -> AwsOverlooks(p, c, o, w) [] p \in CiPlugins -> CiOverlooks(p, o, w) [] OTHER -> FALSE
ServiceExcuses(p, o, w) ==
    CASE p \in TablePlugins -> TableExcuses(p, o, w) [] p \in YarnPlugins -> w.http # "up" \/ YarnExcuses(p, o, w)
      [] p \in PagePlugins -> w.http # "up" \/ PageExcuses(p, w) [] p \in CiPlugins -> w.http # "up" \/ CiExcuses(p, o, w)
      [] p \in DataPlugins -> w.http # "up" \/ DataExcuses(p, o, w)
      [] p \in AwsPlugins -> AwsExcuses(p, o, w) [] p \in ContainerPlugins -> ContainerExcuses(p, o, w)
      [] p \in RabbitPlugins -> RabbitExcuses(p, o, w) [] p \in LogPlugins -> FALSE [] OTHER -> w.http # "up"
ServiceTimeout(p) == IF p \in LogPlugins THEN LogTimeout ELSE "UNKNOWN"
=============================================================================
