---------------------------- MODULE MCPluginRun ----------------------------
(* PluginRun for TLC, with every plugin that keeps nothing from run to run. *)
EXTENDS MCHostChecks, MCServiceChecks

AllPlugins == HostPlugins \cup ServicePlugins
AllOptions(p) == IF p \in HostPlugins THEN HostOptions(p) ELSE ServiceOptions(p)
AllWorlds(p) == IF p \in HostPlugins THEN HostWorlds(p) ELSE ServiceWorlds(p)
AllChanges(p, w) == IF p \in HostPlugins THEN HostChanges(p, w) ELSE ServiceChanges(p, w)
AllAnswer(p, o, w, request) == IF p \in HostPlugins THEN HostAnswer(p, o, w, request) ELSE ServiceAnswer(p, o, w, request)
AllEffect(p, o, w, request) == IF p \in HostPlugins THEN HostEffect(p, o, w, request) ELSE ServiceEffect(p, o, w, request)
AllStep(p, o, s, w) == IF p \in HostPlugins THEN HostStep(p, o, s, w) ELSE ServiceStep(p, o, s, w)
AllClaims(p, o, w) == IF p \in HostPlugins THEN HostClaims(p, o, w) ELSE ServiceClaims(p, o, w)
AllDeeds(p, o, w) == IF p \in ServicePlugins THEN ServiceDeeds(p, o, w) ELSE {}
AllHolds(p, c, o, w) == IF p \in HostPlugins THEN HostHolds(p, c, o, w) ELSE ServiceHolds(p, c, o, w)
AllOverlooks(p, c, o, w) == IF p \in HostPlugins THEN HostOverlooks(p, c, o, w) ELSE ServiceOverlooks(p, c, o, w)
AllExcuses(p, o, w) == IF p \in HostPlugins THEN HostExcuses(p, o, w) ELSE ServiceExcuses(p, o, w)
AllTimeout(p) == IF p \in HostPlugins THEN HostTimeout(p) ELSE ServiceTimeout(p)

\* check_hbase_write.py, check_hbase_write_spray.py, check_consul_write.py: a
\* run that ends OK leaves nothing of its own behind, not a cell of any family or
\* region, nor the key; and of the two that write cells, one that is cut short, or
\* ends on a mismatch, leaves one cell at the most.
NothingIsLeft ==
    /\ status = "OK" /\ plugin \in {"hb_write", "hb_spray"} => NothingLeft(world)
    /\ status = "OK" /\ plugin = "cs_write" => world.item.key # "mine"
    /\ plugin \in {"hb_write", "hb_spray"} => Cardinality(world.written) <= 1
=============================================================================
