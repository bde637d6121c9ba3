# Verification of the Nagios plugin collection

The repository holds some 450 monitoring checks in Perl, Python, Ruby and shell. Each is a short program that
a scheduler (Nagios, NRPE, Icinga) starts, that measures something, prints one line and exits 0 (OK), 1
(WARNING), 2 (CRITICAL) or 3 (UNKNOWN). The specifications are of two sorts. Eight state machines are about the plugins that
keep state between runs or write to the system they check. The others keep nothing: each is a function from its options and the answers it has
had to its next question or its result. Sixteen modules give that function for 137 Python plugins and four others, and one machine,
`PluginRun`, runs them all against systems that change between the questions.

## 1. Inventory

| Part | Code | State it keeps | What is hard about it |
|---|---|---|---|
| Context switch rate | `check_linux_context_switches.pl` | sample in a state file, `flock` | overlapping runs, buffered write, alarm, SIGKILL, reboot, clock |
| Nginx rates | `check_nginx_stats.pl` | the same | a file that is not always truncated, restarts of nginx |
| Network interface | `check_linux_interface.pl` | fourteen counters in a state file | state saved before it is judged; counters that go back |
| syslog-ng statistics | `more/check_syslog-ng_stats.pl` | a state file per type of statistics | one handle for all files, late and repeated lines, dates |
| ZooKeeper | `check_zookeeper.pl` | three counters in a state file | as the above; closes the file before it judges |
| HDFS over WebHDFS | `check_hadoop_hdfs_webhdfs.pl` | a canary file in HDFS, the NameNodes tried | HA roles that change between requests |
| Key-value canaries | `check_redis_write.pl`, `check_memcached_write.pl`, `check_mongodb_write.pl`, `check_riak_write.pl`, `check_hbase_write*.py`, `check_hbase_cell.py` | a key in the store, its replica | replication delay, expiry, lost answers, what is left behind |
| Kafka | `check_kafka.pl`, `check_kafka.py` | a message in a partition | resends, lost leaders, other producers |
| RabbitMQ | `check_rabbitmq.py`, `check_rabbitmq_*.py` | a subscription, a message | timers and other messages against its own; transactions that lose it |
| HBase | `check_hbase_*.py` | cells in a table | one of many left behind; pages that change between two readings |
| Consul and Docker | `check_consul_*.py`, `check_docker_*.py` | a key | sessions and tasks that are gone by the second question; clocks |
| AWS | `check_aws_*.py` | none | a report that is polled for; pages of users, each with keys |
| CI servers | `check_jenkins_*.py`, `check_gocd_*.py`, `check_travis_ci_*.py`, `check_selenium_*.py`, `check_dockerhub_*.py`, `check_pingdom_*.py` | none | the second of two requests, jobs and nodes that go |
| Data services | `check_atlas_entity.py`, `check_ranger_*.py`, `check_presto_*.py`, `check_blue_talon_*.py` | none | found by name, asked for by ID |
| Zaloni, YARN | `check_zaloni_*.py`, `check_hadoop_yarn_*app*.py` | none | histories and lists that a limit cuts off |
| RAID, packages, leases, logins, Git, memory, mounts | `older/*.py`, `check_yum.py`, `check_dhcpd_leases.py`, `check_git_*.py`, `check_linux_*.py` | none | listed by one command, asked for by the next; a journal whose last word counts |
| Log server | `check_logserver.py` | a line of its own | the wait against the alarm |
| Redis publish/subscribe | `check_redis_publish_subscribe.pl` | a subscription, callbacks | a message that comes after the one poll |
| TFTP | `check_tftp.pl` | a file in `/tmp`, a child process | the child outlives the check |
| Wrappers and adapters | `older/nsca_wrapper.sh`, `more/check_nsca.pl`, `adapter_*.py` | none | which of two exit codes is returned, and what is made of one that is none of the four |
| Everything else | about 300 plugins of one query, see `components` in PROJECT.json | none | parsing, thresholds |
| Shared libraries | `lib/`, `pylib/`: git submodules, empty in this tree | `$status`, options | known only from their use |

How parts interact. Plugins do not call each other, except through the wrappers. The interactions that matter
are of two runs of the same plugin through its state file, of a run with the
alarm that `set_timeout` of the library installs (it calls `quit "UNKNOWN"`, an ordinary exit, which flushes what was printed to
open files), with a scheduler that kills what does not end, and with the system
under observation, which counts, resets, fails over or replicates while the plugin measures.

What makes a check correct: a rate that the system really had; OK only when what was to be verified was verified;
a warning only for a real problem; state that survives whatever a previous run did; nothing left behind; and a result in finite time. The `hazards` of PROJECT.json list,
line by line, what can go wrong with these, and which property covers it.

## 2. Modules

`Nagios` is the common vocabulary: exit states, escalation of `$status`, upper thresholds, `Math::Round::round`. It
is external to this tree and modelled from its callers.

### ContextSwitches, RateCheck, ContextSwitchesProof

A run is `ReadStat` (line 51), `TestFile` (67), `OpenFile` (68-72), `Lock` or `LockBusy` (73), `ReadState` (74),
`Truncate` (92), `Report` (96-130) and `Exit`; `Timeout` and `Kill` can come between any two. `pc[p]` is the line a run has
reached, `samp`, `now`, `last`, `mode` are its Perl variables, `rec` the line in the file (`Blank` when it is empty), `lock` the holders of the
flock. `print` only fills a buffer, so `rec` changes at `Exit` and not at the print. `claimed`, `past` and
`overlapped` are history. `RateCheck` is what any such plugin promises: runs behave
as if one came after the other, each result is relative to the sample of the run before, and no sample serves two
results; it knows no file, lock or buffer. `Abstract` maps its `base` to what the next result will be
relative to (`NextBase`): the file's content, or while a run is past its read what that run holds.

### ZooKeeperState, ZooKeeperProof

The second implementation of `RateCheck`. `Measure` (72-254) asks the server before the lock is taken, `Replace` (306-346) reads the old line, stamps the sample and empties the
file, `Close` (347-356) writes the line and gives the lock back, and only then `Finish` (359-440) judges. So a result is settled at `Close` and printed later: `Settled` says which it will
be, and `NextBase` is what the run between `Replace` and `Close` holds, or the line in the file. What `TestFile` finds decides between "+<" and "+>" and is used for nothing else but the message,
so `OpenFile` forgets it. The packets received and sent are one counter; the outstanding requests are a backlog that can be anything whenever the server is asked, and `WentBack` treats them as the code does, like a counter.

### NginxStats, NginxProof

The same skeleton with the differences that matter: the lock is taken before the server is asked (`Lock` 85,
`GetStatus` 129-179), the file is read only if it was there when tested (`mode`), it is truncated only when time has passed, and a sample printed
over a longer one leaves its tail (`Overlay`, `Garbled`). A sample's digits are the flag `wide`. `Restart`s of nginx reset the counters.

### LinuxInterface, KafkaInterfaceProof

`Replace` (244-311) and `Close` (312) save the sample and release the lock; `Finish` (314-478) judges it afterwards. The
four traffic counters are one, `pk`, and the ten error counters one, `err`: the code treats those of a kind alike. Both go back: `Wrap` is a traffic counter that starts again, `Reset`
a driver or a host that does, with the traffic counters or without them. `epoch` says which count of the errors `err` belongs to; the plugin cannot see it and the file does not hold it. `answered` is
history: in each count, the errors up to which a run that put its counters in place of the last ones has answered for them, by ending CRITICAL or UNKNOWN, by being cut short, or because it
had no line of the same count to compare with (`NoBase`: no file, an empty one, or one from before the count started again). `Sights` is what ethtool and the interface's flags say; the options whose values they are
compared with are constants. `--promisc` is "off" unless it is given (line 38), so it is always compared.
Its names carry a prefix since its proofs share a module with those of `KafkaCheck`, whose actions have the same names.

### SyslogNgStats, SyslogNgProof

One file per type, opened through one global handle, so `OpenFile` of the next type flushes and unlocks the file before. `base` is the
global time stamp that an empty file inherits. `Tstamp` is the date conversion of lines 166-192, month error included. The status of a type may be set by any of
its destinations, since they come in hash order (`StatusAfter`). A run tests for the file (`TestFile`, `found`) before it opens it, and the alarm can
come in the middle of the loop over the types (`TimeoutInCheck`), when the exit of the process flushes the line of the last one.
How the plugin is used decides whether messages can count twice, so `use` is one of three: `"in order"`, each run gets a later line than the one before, which has ended, maybe by a kill;
`"overlapping"`, lines come again, late and to several runs at a time, once the files are there, and none is killed; `"any"`, where only the status and the types are looked at. `Calendars` gives each
use its dates.

### WebHdfs, WebHdfsProof

The write check (`WriteFile`, `ReadFile`, `DeleteFile`) and the path check (`FileStatus`) over `hosts`, with
`check_response` split into its outcomes: `FailOver`, `Standby`, `Refused`. `NextIndex` and `attempted'` are
what the loop of 215-221 leaves. `ChangeRoles` and `Change` are HDFS.

### KeyCanary, KeyCanaryProof

One run of any of seven plugins over a primary and a replica. `Profile` collects what tells them apart: a replica
read after `--slave-delay`, the time to live of the key, the result of an empty read, whether deleting nothing
is an error, and whether an answer that never comes goes unnoticed (the Memcached client, whose loops over
the lines do not run then; a delete that follows a write without an answer passes for done as well). Replication is in order and at most `Lag` seconds behind.

### KafkaCheck, KafkaInterfaceProof

Both ports over one partition: offset (`RecordOffset`), `Send` with resends, acknowledgements that may be lost, one `Fetch` from the
noted offset, `Search`. Consumers see the replicated prefix, and the rest is lost with the leader. The port holds the time it took against its thresholds (`check_kafka.py:120`, one and two
seconds by default): how long that was is a choice at the end, and the result says `"slow"`.

### PluginStep, PluginRun, PluginRunProof

A plugin that keeps nothing is `Step(p, o, seen, w)`: with options `o` and the answers `seen` it asks on (`Ask(request)`) or ends (`Exit(status)`). `w`, the system as it is now, is only for what a
plugin finds out without asking (whether a tool is installed). `Fatal(status)` is an answer the function that
reads it exits on, `NotYet` one that makes the plugin ask again. `PluginRun` takes these functions as constants. `Request` asks and is answered by `Answer`, and the request itself may change the system
(`Effect`); `Change` is what others do between the questions; `Conclude` is `sys.exit`; `TimeOut` is the alarm of `lib_nagios.py:198`, of
the plugins' own `set_timeout` or of pylib, wherever the run is. `past` is history: the states the system had during the run.
A `CASE` in these modules is read as the code's `if`/`elif`, in order, as TLC does.

| Module | Plugins | What it keeps of the code |
|---|---|---|
| `PackageUpdates` | `check_yum.py`, `older/check_gentoo_portage.py` | both runs of yum, its lock and return codes, the two counts of a list that must agree; tree age, advisories, exclusions |
| `RaidArrays` | `older/check_3ware_raid.py`, `check_lsi_megaraid.py`, `check_md_raid.py` | list, then details; the state an exception exits with |
| `DhcpLeases` | `check_dhcpd_leases.py` | the blocks of the file in order, host and MAC lists |
| `ServerLogins` | `older/check_svn.py`, `check_vnc.py`, `check_sftp.py` | the client's exit code and output, through `lib_nagios.py` |
| `GitCheckouts` | eight `check_git_*.py` | fetch, branch, index and untracked files as separate readings |
| `LocalChecks` | RAM, mounts, Docker image; adapters | `/proc` readings; the status that the adapters make of a result (not their rows) |
| `ZaloniBedrock`, `YarnApps` | Zaloni, YARN | filters, the limit, the newest and the failed ones |
| `HBaseTables`, `HBasePages` | HBase | every cell of every family or region, and how long each operation took; the pages and the report |
| `DataServices` | Ranger, Atlas, Presto, Blue Talon | by name, then by ID |
| `CiServers` | 34 plugins of six servers | the sequence of requests of each |
| `AwsAccount` | 14 plugins | the report's polling, users and keys, policies, trails |
| `Containers` | 21 of Consul and Docker | key, then session; service, then tasks; write, read, delete and their timings |
| `RabbitMQ` | `check_rabbitmq.py` and nine of its API | subscribe, publish, consume, callbacks, timers, timings |
| `LogServer` | `check_logserver.py` | send, sleep, query |
| `ClientTools` | `check_tftp.pl`, `check_redis_publish_subscribe.pl`, `more/check_nsca.pl`, `older/nsca_wrapper.sh` | the file a client leaves; one poll; a sleep inside the alarm; two exit codes |

Each also says, from the plugin's own description and help,
* `Claims`: what an OK tells of (a disk of each controller, a lease of each address, that the store was quick enough);
* `Deeds`: what the plugin has done itself when it is OK (a cell written in each family and region, a message that came back);
* `Holds`: when one of these is so;
* `Overlooks`: the states in which it is not so and the code cannot see it. Where the code falls short of its help, `Holds` is what the help says and the gap stands here, so that
  every such gap is a definition of its own and in section 4;
* `Excuses`: the states in which an alarm has another reason: the server is down, its answer cannot be read, or the code judges it wrongly (section 4 again).

A duration is the threshold that it exceeds (`Speeds`): what `check_thresholds` makes of the time that writing, reading and deleting took is `CheckTimings`, and how fast a store is changes like the rest of it.

Runs of different plugins share nothing, so modules are composed only where code is: each plugin over `Nagios`,
`ContextSwitches` and `ZooKeeperState` over `RateCheck`, the families over `PluginRun`. The modules `MC*` only give TLC's constants their values (`KafkaCheck` and `KeyCanary` need none); `MCHostChecks` and
`MCServiceChecks` are the two halves of `MCPluginRun`.

## 3. Runs

| Run | Shows |
|---|---|
| `context_switches` | of two overlapping runs: the holder of the lock alone touches the file from its truncate on; no rate exceeds the switches between its samples; until runs overlap no switch is in two rates; overlapping runs implement `RateCheck`; once undisturbed, the file always becomes usable again |
| `interface` | no error is passed over by a run that compares like with like: what the file holds at rest has been in a run that ended CRITICAL or UNKNOWN or was cut short, or in one without a line of the same count of errors |
| `syslogng` | no message is counted twice, whatever the order of the lines and of the time stamps their dates are given; no destination at a threshold is turned back to OK |
| `zookeeper` | overlapping runs that give the lock back before they judge still implement `RateCheck`; until runs overlap no packet is in two rates |
| `zookeeper_backlog` (violated) | a backlog over the critical threshold that is shorter than the last time is UNKNOWN |
| `webhdfs` | OK means read back and deleted; the active one of two NameNodes is found; failing over ends |
| `webhdfs_three` (violated) | of three NameNodes the second is never asked |
| `canary` | OK vouches for write, read and delete in every copy; a suspicious value is never deleted; the key outlives the run and not much more; a replica inside `--slave-delay` is not reported |
| `canary_deleted` (violated) | `--slave-deleted` does not wait, and reports such a replica |
| `kafka` | OK, and an alarm for the time alone, are only told of a replicated message; any other WARNING only of duplicates; a message with all acknowledgements in a quiet topic is found |
| `nginx` | no connection is in two rates or invented, even when runs overlap; the file stays readable while they do not |
| `plugins` | of every plugin: each thing an OK tells of was so at some moment of the run, but for what `Overlooks` names; a verdict that is not OK has a thing that was not so; what the writers report as written was there, and is gone, but for one cell at most of a run that is not OK |

Each property is broken by the mutant of the code that PROJECT.json lists with it: a lock not checked, a sample not stamped, a
wait dropped, timings that are printed and compared with nothing.

### Bounds, and why they are enough

* Two runs (`Proc`): the lock admits one, so a third can only do what the second does, before or after it. The proofs of
  section 5 do away with this bound, and with those of the clocks and counters, for all five plugins with a state file.
* Clocks of two seconds (that of `LinuxInterface` says any of them at any time): with it time passes, stands still or goes back between any two steps of two runs, which are the
  cases of `Secs`. Counters of two: growth, none, and a reset that has or has not caught up; `MaxPast` and
  `MaxRestarts` allow one reset.
* `interface`: one error and one reset, so that there are a count with and without an error before the reset and after it, and an old line that says as much as the new counters, more or less; one packet, so that the traffic has
  caught up with the line or not. `--errors`, `--mtu` and one of `--speed` and `--duplex` are given.
* `syslogng`: two types, so that a handle is reused, one destination per type, two messages of it in all, two or three days. In order, the days are those around the end of January, which `Tstamp` puts
  in another order; overlapping runs get two days in March, which late and repeated lines need no more of; anything goes for the last of January and the first of February. Not every pair of these can be had without a message that counts twice, see section 5, and the code
  takes an empty file for a first run in any case, so `NothingCountedTwice` is stated for the first two uses.
* `zookeeper`: one packet, one restart, two seconds: the file without a line, with a line of this second, of the last one and of a process before the restart. The backlog is always
  empty there, as neither property looks at the status, and a backlog that shrinks is one more way to end UNKNOWN, which the restart has already; `zookeeper_backlog` has one run at a time, with a backlog of up to three
  around the thresholds 0 and 1. The proofs are for any backlog.
* `webhdfs`: one to three NameNodes, two changes of role in a run: one between each pair of its requests.
* `canary`: delays of one and three around a lag of two, so a replica is behind the delay and ahead of it; an alarm at five lets a run
  end before and after it; two faults, so that a value can change and vanish.
* `kafka`: three attempts, three messages per fetch, two of other producers, so that a fetch can end before the
  message; one lost leader.

* `plugins`: one change during a run (`MaxChanges`): of a list that is asked for and then gone through, it falls before, between or after any two questions, and
  a property speaks of one thing at a time. Lists have at most two items (three peers), so one can be right and the other wrong, and be first or last; limits are met, passed and
  not given; `MaxAhead` = 2 messages of others against `MessageLimit` = 1 (10000 in the code) are one too many; YARN's limits of one and two cut a list of two
  off and do not. The proofs of section 5 do away with the bounds for the sixteen plugins named there.
  One change is also as much as the properties hold for: with two, three plugins give a verdict that is right of none of the states they saw. `check_atlas_entity.py` finds an entity by a name that is taken from it, and asks for
  the ID when the entity is deleted; the pages of DockerHub shift by two builds between two requests, so that the newest finished one is on neither. These are limits of reading a system in several requests, which the code shares with every client of
  these servers.

`CHECK_DEADLOCK FALSE` stands in the runs of `KeyCanary`, `KafkaCheck` and `PluginRun`, which model a single run that ends.

### Fairness

* `ContextSwitches!LiveSpec`: weak fairness of `Run(p)`. The scheduler starts the check again and again, and no step of it blocks: `flock` is
  called with `LOCK_NB`. `StateRecovers` assumes that kills and alarms end (`Undisturbed`); with them the
  file can be emptied for ever.
* `WebHdfs!LiveSpec`: weak fairness of `Plugin`, i.e. requests are answered. The alarm is
  not fair, so that `Ends` shows that the recursion of `check_response` ends by itself.
* `KeyCanary!LiveSpec`: time passes, the store replicates and expires, and the alarm is delivered. Nothing is assumed of the plugin's own progress.

`interface`, `syslogng`, `zookeeper`, `kafka`, `nginx` and `plugins` check safety only. That a run of `PluginRun` ends has no property: where there is an alarm it follows from the alarm alone, whatever the plugin does, and the three
RAID checks and `check_linux_ram.py`, which set none, wait as long as what they ask.

## 4. Where the code does not do what it says

Shown by a run (the `findings`, with the lines quoted): the skipped NameNode (`check_hadoop_hdfs_webhdfs.pl:215`), the missing wait (`check_redis_write.pl:195`), the
backlog taken for a counter (`check_zookeeper.pl:370`).

In the models, since the code is so, but without a run of their own, which would only repeat the line:
* `more/check_syslog-ng_stats.pl:191`: months count from 1 here and from 0 in `strftime`, so 1 February gets an earlier time stamp than 31 January, and its line is "not updating state file".
* `check_tftp.pl:90`: nothing removes `/tmp/<file>` before the transfer, so an empty one from before, or one that the client makes before it is refused, makes a file OK that the server does not have
  (`OkVouches` allows this and no more); `:47`: the alarm's `pkill` looks for "tftp host port", the client runs as "tftp -v host port".
* `check_redis_publish_subscribe.pl:127`: the loop tests the message that was sent and polls once, so `--subscriber-wait` has no effect.
* `more/check_nsca.pl:169`: the sleep is as long as the longest timeout that the usage (line 72) allows, so such a run always ends UNKNOWN.
* `older/nsca_wrapper.sh:237`: `-n` is true of "false" too: without `-e` the exit code is the plugin's as well, and that the sending failed is not told; `:223`: a quoted
  `"$cmd"` is one word: a command line with arguments, as the usage shows it, is 127.
* `check_linux_interface.pl:345`: a first run takes any MTU; `:216`: a promiscuous interface is WARNING even with `--promisc on`.
* `more/check_syslog-ng_stats.pl:283`: a WARNING of a later destination overwrites a CRITICAL; `:264`: growth from zero
  is no growth; `:280`: the thresholds are applied to
  processed messages as well, which the usage (line 93) excludes unless `--processed` is given.
* `check_hadoop_hdfs_webhdfs.pl:214`: the NameNodes tried are remembered for the whole run, so a second change of roles
  ends it as standby. Hence `failovers = 0` in `ActiveOfTwoIsFound`.
* `check_memcached_write.pl:221`: a delete that is never answered is reported as done, and so is one sent over a connection that ended before the write was answered. Hence `linked` in `ResultVouches`.
* `check_kafka.pl:132`: `--required-acks LOG`, the default by its usage, is refused.
* `check_nginx_stats.pl:180`: only the connections are tested for a reset; the request rate may come out negative.
* `check_linux_interface.pl:312`: the sample is saved before it is judged, so errors can be consumed by a run that ends UNKNOWN for another reason, or CRITICAL for a lost link with no word of them.
* `check_linux_interface.pl:329`: only a traffic counter that went back ends UNKNOWN ("resetting stats"), and none of the error counters is looked at for it (`:415`). When the error counters start again and
  the traffic has caught up with the line, or a driver keeps its traffic counters, errors of the new count that are no more than those of the old one are consumed as OK, although `--errors` is to "go critical on
  any interface errors" (`:49`). Hence `NoBase` in `Answers`: `ErrorsAreTold` leaves out the one run that compares across the reset, and promises the rest.
* `check_nginx_stats.pl:199`: two runs that both create the state file can leave the tail of the longer line behind the
  shorter, which no later run reads; hence `AloneIsReadable` ends where runs overlap.

And of the plugins that keep nothing, where `Overlooks` or `Excuses`, or where it says so `Holds`, had to follow the code:
* `check_aws_user_last_used.py:158` returns the age of the last credential it looked at, not the youngest (`min_age`): a user active yesterday is OK if an older access key is the last column;
  `check_aws_users_unused.py:150` compares that age as well; `check_aws_password_policy.py:121` warns of passwords that expire sooner than the threshold, not later;
  `check_aws_config_recording.py:118` takes any status, FAILURE too, for a success when all recorders are checked;
  `check_aws_cloudtrails_event_selectors.py:143` compares counts over all trails with those of one.
* `check_selenium_hub_queue_size.py:94-104` tests, with a browser, the whole list for every item: it counts all of them if none is of that browser and none otherwise; without a browser it counts none.
* `check_gocd_pipeline_status.py:82-85` takes the last of a list whose first is the newest.
* `check_zaloni_bedrock_ingestion.py:262` calls a method that does not exist, and dies UNKNOWN, once `--max-runtime` and an incomplete ingest meet.
* `check_hadoop_yarn_app_running.py:156-163` words duplicates into its message and gives no WARNING for them.
* `check_hbase_table_region_balance.py:160-166` takes the minimum over the servers that host a region: a server with none at all does not lower the balance.
* `older/check_md_raid.py:147` tests `state` where `status` is meant, so an unknown state is never UNKNOWN; an array stopped after the scan is the exit code 1 of an exception.
* `check_jenkins_node_count.py:95` counts offline nodes, `check_docker_swarm_nodes.py:88` managers as workers, `check_rabbitmq_queue.py:133` a queue that is not running as OK with a remark.
* `check_docker_swarm_service_status.py:170` subtracts a time in UTC from the local clock.
* `check_docker_containers.py` ignores limits without a kind of containers; `check_consul_leader_elected.py` knows leaders by IPv4 only.
* `check_dhcpd_leases.py:226` keeps an address whose later block releases it; `:453` splits the file at closing braces, so the name of a host that follows a statement in braces is lost, and is found on no list, black or white;
  `:154` takes only the colons out of a listed MAC, though the help (`:621`, `:634`) accepts dashes, so a MAC listed with dashes is that of no lease; `:471` takes every line of a block with the word "lease" for that of its address, and
  passes over a block that has another such line (`:235`), black-listed or not.
* `check_hbase_cell.py:239` compares a cell with the thresholds only if it is a number: words are OK, though the help (`:26`) has them be critical.
* `check_hbase_write.py:202`, `check_hbase_write_spray.py:156` hold the times of writing, reading and deleting a cell against the thresholds, but not that of connecting; with no cell to write, nothing is held against them.
* `more/check_nsca.pl:143` names its line by host and second: two runs of one second report each other's as a duplicate.
* `check_logserver.py:259` looks for the words after the host name, which another host may have sent in the same moment.

## 5. Proofs

`ContextSwitchesProof` proves, for every `Proc`, every bound and every pair of thresholds that satisfy
`ConstantsAssumption`:

| Theorem | Statement |
|---|---|
| `TypeCorrect` | `Spec => []TypeOK` |
| `HolderOwns` | `Spec => []HolderOwnsFile` |
| `NoOverstatement` | `Spec => []NeverOverstates` |
| `NoDoubleClaim` | `Spec => []DisjointClaims` |
| `Refinement` | `Spec => Serialised`, i.e. `ContextSwitches` implements `RateCheck` |

The argument. `HolderOwnsFile` is not inductive: it says nothing of the lock. `Inv` adds `LockInv` (the lock is held by exactly the
runs inside, one at most), `EmptyInv` (after its truncate a run finds the file blank: the only others that write to
it open it with "+>", which blanks it too) and `PastInv` (samples come from no later boot, and a living run's own
sample from this one). `InvStep` takes the actions one by one. `NeverOverstates` follows by arithmetic: within a boot
the difference of counters is the number of switches, and across boots a positive difference is less than it.

`DisjointClaims` needs `ClaimInv`, that what the file holds, or the run inside has read, is at or beyond every
rate reported. It is preserved as long as no runs have overlapped, and fails afterwards: a run may sample before the lock and write after a later one. So the invariant is
`~overlapped => ClaimInv`, with `OverlapStays` for the step in which two first meet.

`Refinement` needs `BoundInv` besides (a run's sample is one `RateCheck` allows). `AbstractStep` maps `Report` to
`Report`, `ReadStat` to `Start`, `LockBusy` and `Timeout` to `GiveUp`, `Kill`, `Reboot` and the emptying `OpenFile` to `Lose`, and the rest to stuttering; `BaseBetween` and
`BaseKept` evaluate the `CHOOSE` in `NextBase`.

`ZooKeeperProof` does the same for the plugin that gives the lock back before it judges, for every `Proc`, backlog and bound:

| Theorem | Statement |
|---|---|
| `ZooKeeperTypeCorrect` | `Spec => []TypeOK` |
| `PacketsReportedOnce` | `Spec => []ClaimsAreDisjoint` |
| `ZooKeeperRefinement` | `Spec => Serialised` |

`LockInv` is weaker than that of `ContextSwitches`: between `Close` and `Finish` a run is alive and holds nothing. What it will print is settled all the same, so `AbstractStep` maps `Close` to `Report` and `Finish` to stuttering;
`SilentInv` (nothing is printed before the end) and `EndSettles` say that the result is then the one that was settled. `BaseIs`, `BaseWillBe` and `BaseKept` evaluate `NextBase` as above. `ApartInv` is the counterpart of
`~overlapped => ClaimInv`, with one more conjunct for a run that is past `Close`.

`NginxProof`, for any number of runs at a time and any bounds:

| Theorem | Statement |
|---|---|
| `ClaimsHold` | `Spec => []ClaimsAreDisjointAndReal` |
| `AloneHolds` | `Spec => []AloneIsReadable` |
| `NginxTypeCorrect` | `Spec => []TypeOK` |

Here the lock is taken before the server is asked, so `ClaimInv` needs no assumption about overlap: what the file holds, or the run inside has read, is at or beyond every rate reported, and a sample
taken inside the lock can only be later. `LockInv` says who is inside, `Past` that every sample is of this nginx process or an earlier one, which makes "no fewer connections" imply "no more restarts forgotten than
connections counted". `AloneIsReadable` needs `AloneInv` (a run that is alone finds the file as it read it) and `RecWide` (an empty file leaves no tail).
`TypeOK` says also that no rate is above what one nginx process can have had. It needs `BoundInv` (every sample is within the bounds, and the
restarts bound what was forgotten) and `RateIsBounded`, arithmetic of the division by the seconds.

`WebHdfsProof`, for a `--host` list of any length and any number of role changes:

| Theorem | Statement |
|---|---|
| `WebHdfsTypeCorrect` | `Spec => []TypeOK` |
| `OkIsClean` | `Spec => []OkMeansClean` |
| `FailoverFindsActive` | `Spec => []ActiveOfTwoIsFound` |

`NextIndex` is a maximum, which exists by the well-foundedness of < (`LastOf`) and is an index not tried before (`NextIndexFacts`). `Progress` orders the requests, and `TriedInVain` is what
makes `ActiveOfTwoIsFound` inductive: a NameNode that was tried and left was in standby, and still is as long as no roles changed.

`SyslogNgProof`, for any types, destinations, calendars, days and number of runs:

| Theorem | Statement |
|---|---|
| `SyslogTypeCorrect` | `Spec => []TypeOK` |
| `OkIsQuiet` | `Spec => []OkHidesNothing` |
| `NoMessageTwice` | `Spec => []NothingCountedTwice` |

The first two need `SafeInv`: `TypeInv`, `LockInv` (a file is locked by the run whose handle is on it, one at most) and `QuietInv` (a status of OK has no destination at a threshold so far). `NoMessageTwice` needs
`IInv`, i.e. `SafeInv` and, unless `use` is `"any"`, `CountInv`: there is a function `m`, the messages there were when each line was written, such that between two lines a counter grew with `m` or was reset in between (`LineInv`),
and each file, with what its holder is about to print to it, is that of some line, up to which alone messages were counted (`BackInv`). `m` is bound inside the invariant, so TLC cannot evaluate it; it checks the property.
That the counters of every destination are those of one line is what `UseInv`, `NewInv`, `PrintInv` and `DayInv` are for.

The first attempts failed, and TLC confirmed each reason. A message counts twice when late lines meet a calendar that goes back, when kills meet overlapping runs or late lines (an old line becomes the base of an emptied file), and when two overlapping
first runs both find no file. Hence the three uses of the model, and the assumption on the calendar of overlapping runs.

`KafkaInterfaceProof` is of two components (they share the file, nothing else). Of the interface plugin, for any number of runs and any options:

| Theorem | Statement |
|---|---|
| `InterfaceTypeCorrect` | `InterfaceSpec => []InterfaceTypeOK` |
| `NoErrorIsLost` | `InterfaceSpec => []ErrorsAreTold` |

`ErrorsAreTold` speaks of moments when no run is alive. The invariant behind it is `CoverInv`: the errors in the file, and those a run compares its own with, have been answered for in their own count, or will be by a run that has saved and
not judged yet, whatever becomes of it (`Teller`). Two overlapping runs can be each other's tellers.

Of `KafkaCheck`, for any number of attempts, of other producers' messages, of lost leaders, and any fetch size:

| Theorem | Statement |
|---|---|
| `KafkaTypeCorrect` | `Spec => []TypeOK` |
| `OkIsThrough` | `Spec => []OkMeansThrough` |
| `WarningIsDuplicate` | `Spec => []WarningMeansDuplicate` |
| `QuietIsFound` | `Spec => []QuietTopicIsFound` |

`FetchedIsReplicated` ties what was fetched to the prefix that a lost leader cannot take back, which gives the first two and, with an injection of the matches into the log, that two found are two sent; `SentCounted` bounds those by the attempts.
For the quiet topic `OnlyOursAfterOffset` says that the fetch begins with a message of ours, and `AckedBeforeFetch` that it is there.

`KeyCanaryProof`, for each plugin, any delay, lag and timeout and any number of faults:

| Theorem | Statement |
|---|---|
| `CanaryTypeCorrect` | `Spec => []TypeOK` |
| `ResultIsVouched` | `Spec => []ResultVouches` |
| `KeyOutlivesRun` | `Spec => []OutlivesRun` |
| `PromptIsRead` | `Spec => []PromptReplicaIsRead` |
| `SuspiciousKeyIsKept` | `Spec => SuspiciousIsKept` |

`GoneStays` and `InOrder` are about the store: a deletion goes down the stream of changes behind the write and nothing brings the value back, and no change is in the stream for longer than `Lag`. `Seen` is why a run may
delete. `OnItsWay` is the argument for `--slave-delay`: without a fault, when the wait ends the value is in the replica, or it is alone in the stream, sent a whole delay ago, which is longer than the lag. `Fresh` gives the time to live.

`PluginRunProof` proves, for any plugins, systems and number of changes (`MaxChangesIsNat` is all that is assumed):

| Theorem | Statement |
|---|---|
| `TypeCorrect` | `Spec => [](WellBehaved(plugin) => TypeOK)` |
| `AnswersAreWitnessed` | `Spec => []Witnessed`: the i-th answer is that to the question `Step` makes of the first i - 1, given by a state of the run |
| `OneQuestionVouches` | a plugin that asks once, is not OK before it has asked, and is OK only of an answer whose system is as `Holds` says, or is one that it `Overlooks`: `OkVouches` |
| `OneQuestionAlarms` | a plugin that asks once, and is WARNING or CRITICAL only of a system that is not as `Holds` says or has one of the `Excuses`: `AlarmsAreReal` |

`Witnessed` is the induction over the list of answers that every plugin's argument needs: what a verdict is put together from was
true when it was told. `AppendKeeps` and `PrefixIs` are its facts about lists. `Reached` are the systems that a plugin's changes and requests can lead to; `ClaimsStay` says that what an OK is to tell of is the same
throughout a run (its truth may change). These are predicates on one plugin, since an instance of `PluginRun` runs many; a theorem about a plugin reads `[](plugin = "yum" => OkVouches)`.

The second part is about plugins of the repository. Each assumes that `PluginRun`'s functions are, for this plugin, the ones of its module (`RunsLsi`, `RunsYum`, ...), and of the systems only their shape (`LsiSystem`, `IsYum`, `IsJournal`,
`WritersSystem`), not their size:

| Theorem | Plugins | Statement |
|---|---|---|
| `LsiTypeCorrect`, `LsiOkVouches`, `LsiAlarmsAreReal` | `older/check_lsi_megaraid.py` | any number of controllers and arrays, none plugged in or out |
| `RestOkVouches`, `RestAlarmsAreReal` | nine of RabbitMQ's API | every option and answer |
| `YumOkVouches`, `YumAlarmsAreReal` | `check_yum.py` | any number of updates, that come and go |
| `LeaseOkVouches`, `LeaseAlarmsAreReal` | `check_dhcpd_leases.py` | a journal of any length, any lists; but for lost names, MACs listed with dashes and blocks passed over (`LeaseOverlooks`) |
| `WritersOkVouches`, `WritersDeedsAreDone`, `NothingOfItsOwnIsLeft` | `check_consul_write.py`, `check_rabbitmq.py`, `check_hbase_write.py`, `check_hbase_write_spray.py` | any number of families, regions and messages; families are not added or dropped during a run |

* Of the MegaRAID check, `OkVouches` is not inductive, since it speaks only of the end. From `Witnessed` and `SameControllers`, `LsiOkIsTrue` shows that the script, if it
  ends OK, has had no fatal answer, has a last list as long as the controllers are many, and that the i-th of its later answers is of controller i - 2; `LsiTestIsStrict` that the worst state of
  them is OK only if each is.
* Of the RabbitMQ plugins, `RestIsJudged` and `RestAlarmsAreJudged` go through the verdicts; `RestSteps` is the frame they share.
* `check_yum.py` asks once or twice, and the two answers are of two moments: for security updates the list may be of a system that the notices are no longer of. `YumSecurityJudged` keeps the moments apart, so that each claim is
  witnessed by one of them.
* Of the leases, `BookOfLeases` shows that the dictionary the code fills block by block is the set of the blocks in force (`InForce`: active, and no later active block of the address), `LeaseIsJudged` judges one of them.
* Of the writers, each thing written is read back before it is deleted: `CellsAreCounted` and `Grid` number the cells by region and family, `CellsWereFound` is what has been read so far, and `EveryCellWasThere` that after the last
  read this is all. `OneCellAtMost` and `MessageComesBack` are the invariants behind what is left.

The third part closes the gap to what TLC runs. `TheInstance` says that the functions are those of `MCPluginRun`, and `InstanceRunsYum`, `InstanceWrites` and their like prove that these satisfy the hypotheses above, so that no theorem is
about nothing: `OkVouchesInTheInstance`, `AlarmsAreRealInTheInstance`, `WritersInTheInstance` (`DeedsAreDone` and `NothingIsLeft`), for any set of plugins and any number of changes.

The attempt at `LeaseAlarmsAreReal` failed at first, rightly: `check_dhcpd_leases.py` splits its file at closing braces, so a host whose name follows a statement in braces has no name, and is an alarm though it is on the white list. This
is now named in `LeaseExcuses`, and TLC's journals have such a block. `LeaseOkVouches` likewise holds only with the three cases of `LeaseOverlooks`, since `LeaseHolds` says what the help does.

Only model-checked: `StateRecovers`, `Ends` and `LeftoversGo` (liveness under fairness is out of the prover's
reach), and `OkVouches` and `AlarmsAreReal` of the plugins that the table above does not name (of the four writers, `AlarmsAreReal`). All other properties of the passing runs are theorems, `TypeOK` of `PluginRun` for `WellBehaved` plugins.

## 6. Not modelled

* 114 Python plugins of one query (`components`, status not_modelled): one request and a comparison, the frame of `AskOnce` with nothing to interleave. They differ in the
  paths into the answer, which the functional tests under `tests/` cover. The Perl plugins of one query likewise.
* The client that outlives the alarm of `check_tftp.pl` (`:47`): what it may write to `/tmp` is among the changes of that plugin, but no property says that it is gone.
* The shell libraries `older/lib_*.sh`, which only parse options, and `older/warning_to_critical.sh`, which turns one exit code into another.
* Not promised by any document, and so without a property: a traffic counter that went back by less than half a second's rounding (`check_linux_interface.pl:328`), and state files of earlier types that were advanced
  before the lock of a later one is found taken (`more/check_syslog-ng_stats.pl:229`).
* Two of the hazards in PROJECT.json: a credential report that is never ready (`check_aws_users_unused.py:96`), which only the alarm ends, so that a property would repeat the alarm; and the rows of the adapters
  (`adapter_csv.py:218`), where one loop over the text appends heading and value side by side. That text is not modelled: with `--result`, the name in a Geneos row is the first word of the text
  (`adapter_geneos.py:70`), whose comma shifts the row.
* The shared libraries, since the submodules are empty; so too the loops of `PubSubNagiosPlugin` and `KeyValueTest`, whose order of calls cannot be read here: `RabbitMQ` and `Containers`
  take the order in which the methods name each other's results.
* Text: messages, performance data, options that only change the text. Verbose output. Access rights, a full disk, a missing command, except where a plugin tests for them.
* The three separate attribute checks of a WebHDFS path and the ten error counters: each is one choice or one representative, as said above.
* Windows scripts, CI, packaging, Docker, SQL and HAProxy configurations.

## 7. Plan

Done, in this order: `ContextSwitches` with `RateCheck` and its proofs, as the pattern of every state file plugin; `LinuxInterface`, `SyslogNgStats`, `NginxStats` and `ZooKeeperState` as
its variants; `WebHdfs`, `KeyCanary`, `KafkaCheck` for what is written to other systems; `PluginRun` with sixteen families of plugins; the proofs of section 5.

Next modules, by weight: the three canaries that `KeyCanary` leaves out (`check_riak_write_local.pl`, `check_solr_write.pl`, `check_disk_write.pl`); the Perl log readers; the
client of `check_tftp.pl` as a process of its own, over two runs.

Next proofs, by weight:
1. `AlarmsAreReal` of the four writers, from `Witnessed` as their `OkVouches`.
2. The plugins that ask once (logins, Portage, YARN's and Zaloni's lists, most of the CI servers and AWS), with `OneQuestionVouches` and `OneQuestionAlarms`; each needs only its verdict.
3. The plugins that ask by name and then by ID (Atlas, Ranger, Consul, Docker), and `older/check_md_raid.py` and `check_3ware_raid.py`, along the MegaRAID check.
