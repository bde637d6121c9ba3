----------------------------- MODULE AwsAccount -----------------------------
(***************************************************************************)
(* The plugins of an AWS account: its users and their credentials, EC2     *)
(* instances, CloudTrails, Config recorders and password policy.           *)
(*                                                                         *)
(* The account answers one call at a time.  users, trails, ... are what it *)
(* has now, report whether the credentials report is made; what boto       *)
(* raises is trapped by the base class, except where a plugin handles it.  *)
(***************************************************************************)
EXTENDS PluginStep

ReportPlugins == {"aws_last", "aws_unused", "aws_mfa"}
KeyPlugins == {"aws_keys_age", "aws_keys_off"}
AwsPlugins == ReportPlugins \cup KeyPlugins
    \cup {"aws_passwords", "aws_states", "aws_count", "aws_trails", "aws_selectors", "aws_config", "aws_policy",
          "aws_ping", "aws_root"}

\* A row of the report: the ages in days of the last uses of the password and
\* of the two access keys.
NotUsed == -1
Row == [user |-> "ann", used |-> <<100, NotUsed, NotUsed>>, mfa |-> TRUE, password |-> TRUE]
Rows == {[Row EXCEPT !.used = <<a, b, c>>] : a \in {NotUsed, 3, 100}, b \in {NotUsed, 3, 100}, c \in {NotUsed, 3, 100}}
        \cup [user : {"ann"}, used : {Row.used}, mfa : BOOLEAN, password : BOOLEAN]
RootRows == {[Row EXCEPT !.user = "root", !.used = u] : u \in {<<3, NotUsed, NotUsed>>, <<100, 3, NotUsed>>, <<100, NotUsed, 100>>}}
AwsItems(p) ==
    CASE p \in KeyPlugins -> [here : {TRUE}, keys : UpTo([age : {300, 400}, active : BOOLEAN], 2)]
      [] p = "aws_passwords" -> {NotUsed, 300, 400}
      [] p \in {"aws_states", "aws_count"} -> {"running", "pending", "stopped", "stopping", "terminated"}
      [] p = "aws_trails" -> [logging : BOOLEAN, multi : BOOLEAN, valid : BOOLEAN]
      [] p = "aws_selectors" -> {s \in UpTo([management : BOOLEAN, all : BOOLEAN], 2) : Len(s) = 2 => s[1].all}
      [] p = "aws_config" -> [recording : BOOLEAN, last : {"SUCCESS", "PENDING", "FAILURE", ""}]
      [] p = "aws_policy" -> [exists : BOOLEAN, length : {8, 14}, age : {30, 90, 365}, reuse : {5, 24}, flags : BOOLEAN, change : BOOLEAN]
      [] p = "aws_root" -> [mfa : BOOLEAN, keys : 0..1]
      [] OTHER -> {"ok"}
\* Trails and recorders are named by their place.
AwsLists(p) ==
    CASE p \in ReportPlugins -> {<<>>} \cup {<<r>> : r \in Rows \cup RootRows} \cup {<<r, a>> : r \in RootRows, a \in Rows}
      [] p \in {"aws_policy", "aws_root", "aws_ping"} -> {<<i>> : i \in AwsItems(p)}
      [] OTHER -> UpTo(AwsItems(p), 2)
AwsWorlds(p) ==
    [api : {"up"}, report : IF p \in ReportPlugins THEN BOOLEAN ELSE {TRUE}, items : AwsLists(p)]
    \cup [api : {"down"}, report : {TRUE}, items : {CHOOSE l \in AwsLists(p) : TRUE}]

\* The report gets made; a user is deleted, a key made inactive; a trail stops
\* logging or loses its selectors.
AwsChanges(p, w) ==
    CASE p \in ReportPlugins -> {[w EXCEPT !.report = TRUE]}
      [] p \in KeyPlugins -> {[w EXCEPT !.items[i].here = FALSE] : i \in DOMAIN w.items}
                             \cup UNION {{[w EXCEPT !.items[i].keys[k].active = FALSE] : k \in DOMAIN w.items[i].keys} : i \in DOMAIN w.items}
      [] p = "aws_trails" -> {[w EXCEPT !.items[i].logging = FALSE] : i \in DOMAIN w.items}
      [] p = "aws_selectors" -> {[w EXCEPT !.items[i] = <<>>] : i \in DOMAIN w.items}
      [] OTHER -> {}

AwsOptions(p) ==
    CASE p = "aws_last" -> [user : {"ann", "root"}, days : {7, 200}]
      [] p = "aws_unused" -> [days : {90, 200}]
      [] p = "aws_keys_age" -> [limit : {365}, active : BOOLEAN]
      [] p = "aws_passwords" -> [limit : {365}]
      [] p = "aws_states" -> [running : {NoLimit, 1}, stopped : {0, 1}]
      [] p = "aws_count" -> [warn : {NoLimit, 0}, crit : {NoLimit, 1}]
      [] p = "aws_trails" -> [name : {0, 2}, list : BOOLEAN, anyRegion : BOOLEAN, anyFile : BOOLEAN]
      [] p \in {"aws_selectors", "aws_config"} -> [name : 0..2, list : BOOLEAN]
      [] p = "aws_policy" -> [length : {14}, age : {90}, reuse : {24}, noChange : BOOLEAN]
      [] OTHER -> [all : {TRUE}]

AwsAnswer(p, o, w, request) ==
    CASE w.api = "down" -> Fatal(IF p = "aws_ping" THEN "CRITICAL" ELSE Trapped)
      [] w.api = "up" /\ request[1] = "generate" -> IF w.report THEN [complete |-> TRUE] ELSE NotYet
      [] w.api = "up" /\ request[1] = "of" ->
           IF p \in KeyPlugins /\ ~w.items[request[2]].here THEN Fatal(Trapped) ELSE [of |-> w.items[request[2]]]
      [] w.api = "up" /\ request[1] = "list" ->
           [items |-> w.items]

-----------------------------------------------------------------------------
(* The credentials report *)

Examined(row) == SelectSeq(row.used, LAMBDA age : age # NotUsed)
\* min_age is computed, and the age of the last that was examined returned.
UserLastUsedDays(row) == Last(Examined(row))
UserLastUsed(o, rows) ==
    LET mine == SelectSeq(rows, LAMBDA r : r.user = o.user)
    IN  CASE mine = <<>> -> "UNKNOWN"
          [] mine # <<>> /\ Examined(mine[1]) = <<>> -> Trapped
          [] OTHER -> If(UserLastUsedDays(mine[1]) <= o.days, "WARNING")

\* A user who used nothing is an exception there too.
CheckUserLastUsed(o, row) == Last(Examined(row)) <= o.days
UsersUnused(o, rows) ==
    IF \E i \in DOMAIN rows : Examined(rows[i]) = <<>> THEN Trapped
    ELSE If(\E i \in DOMAIN rows : ~CheckUserLastUsed(o, rows[i]), "WARNING")

CheckUserMfa(row) == row.mfa \/ ~row.password
UsersMfa(rows) == If(\E i \in DOMAIN rows : ~CheckUserMfa(rows[i]), "WARNING")

\* The report is asked for until it is made: only the alarm ends the loop.
CredentialReport(p, o, seen) ==
    CASE seen = <<>> \/ IsNotYet(seen) -> Ask(<<"generate">>)
      [] ~IsNotYet(seen) /\ "complete" \in DOMAIN Last(seen) -> Ask(<<"list">>)
      [] OTHER -> LET rows == Last(seen).items
                  IN  Exit(CASE p = "aws_last" -> UserLastUsed(o, rows)
                             [] p = "aws_unused" -> UsersUnused(o, rows)
                             [] p = "aws_mfa" -> UsersMfa(rows))

-----------------------------------------------------------------------------
(* Access keys and passwords *)

KeyIsOld(o, key) == (~o.active \/ key.active) /\ key.age >= o.limit
ProcessKeysAge(o, answers) == If(\E a \in Range(answers) : \E k \in Range(a.of.keys) : KeyIsOld(o, k), "WARNING")
ProcessKeysDisabled(answers) == If(\E a \in Range(answers) : \E k \in Range(a.of.keys) : ~k.active, "WARNING")
PasswordsLastUsed(o, users) == If(\E i \in DOMAIN users : users[i] # NotUsed /\ users[i] >= o.limit, "WARNING")

-----------------------------------------------------------------------------
(* EC2 *)

StoppedBundle == {"stopped", "stopping", "shutting-down"}
Instances(items, states) == Len(SelectSeq(items, LAMBDA i : i \in states))
Ec2States(o, items) ==
    If(\/ o.running # NoLimit /\ Instances(items, {"running"}) > o.running
       \/ Instances(items, {"pending"}) > 0
       \/ Instances(items, {"terminated"}) > 0
       \/ Instances(items, StoppedBundle) > o.stopped, "WARNING")
Ec2Count(o, items) == CheckUpper(Instances(items, {"running"}), o.warn, o.crit)

-----------------------------------------------------------------------------
(* CloudTrails, Config, the password policy and the root account *)

CheckTrail(o, trail) ==
    If(~trail.logging \/ (~trail.multi /\ ~o.anyRegion) \/ (~trail.valid /\ ~o.anyFile), "WARNING")
\* Each kind is counted over all trails; with none there is nothing to tell.
CheckTrails(o, trails) ==
    LET all(has(_)) == \A t \in Range(trails) : has(t)
    IN  If(\/ ~all(LAMBDA t : t.logging)
           \/ ~all(LAMBDA t : t.multi) /\ ~o.anyRegion
           \/ ~all(LAMBDA t : t.valid) /\ ~o.anyFile, "WARNING")

\* The counts run on from trail to trail, and each trail's number of selectors
\* is compared with the counts so far.
ProcessEventSelectors(selectors) ==
    LET upTo(i, has(_)) == Len(SelectSeq(FlattenSeq(SubSeq(selectors, 1, i)), has))
    IN  If(\/ \E i \in DOMAIN selectors : \/ selectors[i] = <<>>
                                          \/ upTo(i, LAMBDA e : e.management) < Len(selectors[i])
                                          \/ upTo(i, LAMBDA e : e.all) < Len(selectors[i])
           \/ selectors = <<>>, "WARNING")

CheckRecorder(r) ==
    Both(If(~r.recording, "CRITICAL"),
         CASE r.last = "PENDING" -> "WARNING" [] r.last = "SUCCESS" -> "OK" [] OTHER -> "CRITICAL")
\* Any last status that is not empty counts as a success.
CheckRecorders(recorders) ==
    Both(If(recorders = <<>>, "WARNING"),
         IF \E r \in Range(recorders) : ~r.recording THEN "CRITICAL"
         ELSE If(\E r \in Range(recorders) : r.last = "", "WARNING"))
ConfigRecording(o, recorders) ==
    CASE o.name = 0 -> CheckRecorders(recorders)
      [] o.name \in DOMAIN recorders -> CheckRecorder(recorders[o.name])
      [] OTHER -> "CRITICAL"

\* Like the others, the greatest age is compared from below.
PasswordPolicy(o, policy) ==
    If(\/ ~policy.exists
       \/ policy.length < o.length \/ policy.age < o.age \/ policy.reuse < o.reuse
       \/ ~policy.flags \/ policy.change = o.noChange, "WARNING")
RootAccount(account) == If(account.keys > 0 \/ ~account.mfa, "WARNING")

-----------------------------------------------------------------------------
\* What is asked about each of: all users, or the trails that are named.
AwsNamed(o, items) == IF "name" \in DOMAIN o /\ o.name # 0 THEN {o.name} \cap DOMAIN items ELSE DOMAIN items
ItemByItem(p, o, seen) ==
    LET items == seen[1].items
        asked == Len(seen) - 1
    IN  CASE asked < Cardinality(AwsNamed(o, items)) ->
               Ask(<<"of", IF o.name = 0 THEN asked + 1 ELSE o.name>>)
          [] asked = 0 /\ o.name # 0 -> Exit("CRITICAL")
          [] OTHER -> LET answers == [i \in 1..asked |-> seen[i + 1].of]
                      IN  Exit(CASE p = "aws_selectors" -> ProcessEventSelectors(answers)
                                 [] p = "aws_trails" /\ o.name # 0 -> CheckTrail(o, [items[o.name] EXCEPT !.logging = answers[1].logging])
                                 [] p = "aws_trails" /\ o.name = 0 ->
                                      CheckTrails(o, [i \in 1..asked |-> [items[i] EXCEPT !.logging = answers[i].logging]]))
UserByUser(p, o, seen) ==
    IF Len(seen) <= Len(seen[1].items) THEN Ask(<<"of", Len(seen)>>)
    ELSE Exit(IF p = "aws_keys_age" THEN ProcessKeysAge(o, Tail(seen)) ELSE ProcessKeysDisabled(Tail(seen)))
AwsVerdict(p, o, items) ==
    CASE p = "aws_passwords" -> PasswordsLastUsed(o, items)
      [] p = "aws_states" -> Ec2States(o, items)
      [] p = "aws_count" -> Ec2Count(o, items)
      [] p = "aws_config" -> ConfigRecording(o, items)
      [] p = "aws_policy" -> PasswordPolicy(o, items[1])
      [] p = "aws_root" -> RootAccount(items[1])
      [] p = "aws_ping" -> "OK"
AwsStep(p, o, seen) ==
    CASE Broken(seen) -> Exit(Last(seen).fatal)
      [] ~Broken(seen) /\ p \in ReportPlugins -> CredentialReport(p, o, seen)
      [] p \notin ReportPlugins /\ seen = <<>> -> Ask(<<"list">>)
      \* --list-trails exits inside the loop: with no trails the check goes on.
      [] ~Broken(seen) /\ seen # <<>> /\ "list" \in DOMAIN o /\ o.list /\ seen[1].items # <<>> -> Exit("UNKNOWN")
      [] OTHER -> CASE p \in KeyPlugins -> UserByUser(p, o, seen)
                    [] p \in {"aws_trails", "aws_selectors"} -> ItemByItem(p, o, seen)
                    [] OTHER -> Exit(AwsVerdict(p, o, seen[1].items))

-----------------------------------------------------------------------------
(* What OK tells of *)

AwsMine(p, o, w) == IF p = "aws_last" THEN {i \in DOMAIN w.items : w.items[i].user = o.user} ELSE DOMAIN w.items
\* <<0>>: that there is anything at all.
AwsThings(p, o, w) ==
    CASE p \in ReportPlugins \cup KeyPlugins \cup {"aws_passwords"} -> {<<i>> : i \in AwsMine(p, o, w)}
      [] p = "aws_trails" -> {<<i>> : i \in AwsNamed(o, w.items)}
      [] p = "aws_selectors" -> {<<i, f>> : i \in AwsNamed(o, w.items), f \in {"some", "right"}}
      [] OTHER -> {<<1>>}
AwsClaims(p, o, w) == IF AwsThings(p, o, w) = {} THEN {<<0>>} ELSE AwsThings(p, o, w)
AwsHolds(p, c, o, w) ==
    LET i == c[1]
        items == w.items
    IN  CASE i = 0 -> p \notin {"aws_last", "aws_selectors"} /\ (p = "aws_trails" => o.name = 0)
          [] p = "aws_last" -> \A k \in 1..3 : items[i].used[k] = NotUsed \/ items[i].used[k] > o.days
          [] p = "aws_unused" -> \E k \in 1..3 : items[i].used[k] \in 0..o.days
          [] p = "aws_mfa" -> items[i].password => items[i].mfa
          [] p = "aws_keys_age" -> items[i].here => \A k \in Range(items[i].keys) : k.age < o.limit \/ (o.active /\ ~k.active)
          [] p = "aws_keys_off" -> items[i].here => \A k \in Range(items[i].keys) : k.active
          [] p = "aws_passwords" -> items[i] < o.limit
          [] p = "aws_states" -> /\ Range(items) \cap {"pending", "terminated"} = {}
                                 /\ Instances(items, {"stopped", "stopping"}) <= o.stopped
                                 /\ o.running # NoLimit => Instances(items, {"running"}) <= o.running
          [] p = "aws_count" -> ~Above(Instances(items, {"running"}), o.warn) /\ ~Above(Instances(items, {"running"}), o.crit)
          [] p = "aws_trails" -> /\ items[i].logging
                                 /\ items[i].multi \/ o.anyRegion
                                 /\ items[i].valid \/ o.anyFile
          [] p = "aws_selectors" /\ c[2] = "some" -> items[i] # <<>>
          [] p = "aws_selectors" /\ c[2] = "right" -> \A e \in Range(items[i]) : e.management /\ e.all
          [] p = "aws_config" /\ o.name = 0 -> items # <<>> /\ \A r \in Range(items) : r.recording /\ r.last = "SUCCESS"
          [] p = "aws_config" /\ o.name # 0 -> o.name \in DOMAIN items /\ items[o.name].recording /\ items[o.name].last = "SUCCESS"
          [] p = "aws_policy" -> LET x == items[1] IN /\ x.exists /\ x.length >= o.length /\ x.age <= o.age
                                                      /\ x.reuse >= o.reuse /\ x.flags /\ x.change # o.noChange
          [] p = "aws_root" -> items[1].mfa /\ items[1].keys = 0
          [] p = "aws_ping" -> w.api = "up"
\* Of the last uses one that is long ago hides the others; the counts of the first
\* trails hide the selectors of a later one; any word stands for a success of all
\* recorders; a password may live too long.
AwsOverlooks(p, c, o, w) ==
    CASE p = "aws_last" /\ c[1] # 0 -> \E k \in 1..3 : w.items[c[1]].used[k] > o.days
      [] p = "aws_selectors" -> c \in {<<i, "right">> : i \in 2..Len(w.items)} /\ o.name = 0
      [] p = "aws_config" /\ o.name = 0 -> w.items # <<>> /\ \A r \in Range(w.items) : r.recording /\ r.last # ""
      [] p = "aws_policy" -> w.items[1].age > o.age
      [] OTHER -> FALSE
\* A policy with an age that is too short is alarmed of, and a user whose last
\* credential is older than another.
AwsExcuses(p, o, w) ==
    CASE p = "aws_policy" -> w.items[1].age < o.age
      [] p = "aws_unused" -> \E i \in DOMAIN w.items : Len(Examined(w.items[i])) > 1
      [] OTHER -> FALSE
=============================================================================
