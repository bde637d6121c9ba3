--------------------------- MODULE PackageUpdates ---------------------------
(***************************************************************************)
(* check_yum.py and older/check_gentoo_portage.py: what is installed       *)
(* against what is published, as the package managers tell it.             *)
(***************************************************************************)
EXTENDS PluginStep

-----------------------------------------------------------------------------
(* check_yum.py                                                            *)
(*                                                                         *)
(* sec and other are the pending updates, kernel says that an installed    *)
(* kernel fixes the running one, form which of the known outputs this yum  *)
(* or DNF gives, and yum whether it works at all.                          *)

YumForms == {"summary", "dnf", "rhsm", "cloudlinux", "satellite", "architecture", "foreign"}
YumWorlds ==
    [sec : 0..2, other : 0..1, kernel : {FALSE}, form : YumForms, yum : {"works"}]
    \cup [sec : {0, 1}, other : {0}, kernel : {TRUE}, form : {"summary", "dnf"}, yum : {"works"}]
    \cup [sec : {0, 1}, other : {0, 1}, kernel : {FALSE}, form : {"summary"},
          yum : {"absent", "denied", "locked", "no plugin", "no mirror"}]

\* Others install and publish packages while the plugin runs.
YumChanges(w) ==
    {[w EXCEPT !.sec = s, !.other = n] : s \in 0..2, n \in 0..1}
    \cup {[w EXCEPT !.yum = "locked"]}

\* Of what is not a number this stands.
NotANumber == -99
YumOptions ==
    [all : BOOLEAN, cache : BOOLEAN, warnAny : BOOLEAN, noWarnOnLock : BOOLEAN, timeout : {30}]
    \cup [all : {FALSE}, cache : {FALSE}, warnAny : {FALSE}, noWarnOnLock : {FALSE},
          timeout : {0, 3601, NotANumber}]

YumValid(o) == o.timeout \in 1..3600
YumUsable(w) == w.yum # "absent"
YumTimeout == "CRITICAL"

YumReturncode(o, w) ==
    IF w.yum = "locked" /\ o.noWarnOnLock THEN "OK"
    ELSE IF w.yum = "locked" THEN "WARNING" ELSE "UNKNOWN"

\* The updates a command lists, behind the header of each form.  A blank line
\* follows the header, so updates make two sections; from the cache yum may
\* print none.  DNF and yum sum up in words of their own, some not at all.
YumList(w, n) ==
    [form |-> w.form, kernel |-> w.kernel, lines |-> n,
     summary |-> CASE w.form \in {"summary", "architecture"} -> <<w.sec, w.sec + w.other>>
                   [] w.form \in {"dnf", "rhsm"} /\ w.sec = 0 /\ w.other > 0 -> <<0, w.other>>
                   [] OTHER -> <<>>]

\* One bugfix notice for all packages that are no security updates.
YumNotices(w) == [sec |-> w.sec, bugfix |-> w.other]

\* Only the security commands need the plugin of yum.
YumFails(w, command) == w.yum \in {"locked", "no mirror"} \/ (w.yum = "no plugin" /\ command # "check-update")
YumRun(o, w, command) ==
    IF ~YumUsable(w) \/ w.yum = "denied" THEN Fatal("UNKNOWN")
    ELSE IF YumFails(w, command) THEN Fatal(YumReturncode(o, w))
    ELSE CASE command = "check-update" -> YumList(w, w.sec + w.other)
           [] command = "--security check-update" -> YumList(w, w.sec)
           [] command = "updateinfo" -> YumNotices(w)

\* The lines are counted a second time as packages of the architectures it knows.
YumPackages(a) == IF a.form = "architecture" THEN 0 ELSE a.lines
YumAllUpdates(o, a) ==
    IF a.kernel \/ (a.form = "foreign" /\ ~o.cache) THEN Exit("WARNING")
    ELSE IF YumPackages(a) # a.lines THEN Exit("UNKNOWN")
    ELSE Exit(If(a.lines # 0, "CRITICAL"))

\* Security updates and the total, from the summary or in place of one; and
\* whether more lines than that are themselves taken for the updates.
YumCounts(a, notices) ==
    IF a.summary # <<>> THEN [sec |-> a.summary[1], total |-> a.summary[2], trust |-> FALSE]
    ELSE CASE a.form = "rhsm" -> [sec |-> notices.sec, total |-> notices.bugfix, trust |-> TRUE]
           [] a.form \in {"dnf", "cloudlinux"} -> [sec |-> 0, total |-> 0, trust |-> TRUE]
           [] OTHER -> [sec |-> 0, total |-> 0, trust |-> FALSE]

YumNeedsUpdateinfo(a) == a.form = "rhsm" /\ a.summary = <<>> /\ ~a.kernel

YumTestSecurity(o, sec, other) ==
    Exit(IF sec # 0 THEN "CRITICAL" ELSE If(other # 0 /\ o.warnAny, "WARNING"))

YumSecurityUpdates(o, a, notices) ==
    LET n == YumCounts(a, notices)
        other == n.total - n.sec
    IN  IF a.kernel THEN Exit("CRITICAL")
        ELSE IF a.summary = <<>> /\ a.form = "foreign" THEN Exit("WARNING")
        ELSE IF a.lines > n.total /\ ~n.trust THEN Exit("WARNING")
        ELSE YumTestSecurity(o, IF a.lines > n.total THEN a.lines ELSE n.sec, other)

YumStep(o, seen) ==
    IF ~YumValid(o) THEN Exit("UNKNOWN")
    ELSE IF seen = <<>> THEN Ask(IF o.all THEN "check-update" ELSE "--security check-update")
    ELSE IF IsFatal(Last(seen)) THEN Exit(Last(seen).fatal)
    ELSE IF o.all THEN YumAllUpdates(o, seen[1])
    ELSE IF Len(seen) = 1 /\ YumNeedsUpdateinfo(seen[1]) THEN Ask("updateinfo")
    ELSE YumSecurityUpdates(o, seen[1], Last(seen))

\* What OK vouches for.  A list without a summary gives no number of other updates.
YumClaims(o, w) ==
    (IF o.all \/ (o.warnAny /\ w.form \notin {"cloudlinux", "satellite"})
        THEN {"security", "other"} ELSE {"security"})
    \cup {"kernel", "usable"}
YumHolds(c, o, w) ==
    \/ w.yum = "locked" /\ o.noWarnOnLock
    \/ CASE c = "security" -> w.sec = 0
         [] c = "other" -> w.other = 0
         [] c = "kernel" -> ~w.kernel
         [] c = "usable" -> w.yum = "works" \/ (o.all /\ w.yum = "no plugin")

\* Output in a form that is not known is a WARNING though nothing is pending.
YumExcuses(w) == w.form = "foreign"

-----------------------------------------------------------------------------
(* older/check_gentoo_portage.py                                           *)
(*                                                                         *)
(* stamps are the files that may tell when the tree was synchronised: when *)
(* each was written and how many hours old the tree is by its content.     *)
(* glsa says for each security announcement whether its package is         *)
(* affected ("N"), marked as applied ("A") or fixed.                       *)

Glsas == {"200401-01", "200512-07"}
Stamp(mod, age) == [mod |-> mod, age |-> age, readable |-> TRUE]
PortageStamps ==
    {<<>>, <<Stamp(1, 5)>>, <<Stamp(1, 30)>>, <<Stamp(1, -1)>>, <<Stamp(1, NotANumber)>>,
     <<[Stamp(1, 5) EXCEPT !.readable = FALSE]>>,
     <<Stamp(1, 5), Stamp(2, 30)>>, <<Stamp(2, 5), Stamp(1, 30)>>}
PortageWorlds ==
    [stamps : PortageStamps, glsa : {[g \in Glsas |-> "fixed"]}, outdated : BOOLEAN, extra : {0},
     tools : {"work"}]
    \cup [stamps : {<<Stamp(1, 5)>>}, glsa : [Glsas -> {"N", "A", "fixed"}], outdated : BOOLEAN,
          extra : {0, 1}, tools : {"work"}]
    \cup [stamps : {<<Stamp(1, 5)>>}, glsa : {[g \in Glsas |-> "N"]}, outdated : {TRUE},
          extra : {0}, tools : {"missing", "fail"}]

\* The administrator updates; a synchronisation brings announcements and packages.
PortageChanges(w) ==
    {[w EXCEPT !.glsa = g, !.outdated = n] :
        g \in {[i \in Glsas |-> s] : s \in {"N", "A", "fixed"}}, n \in BOOLEAN}

PortageOptions ==
    [hours : {24}, glsaIds : SUBSET Glsas, noWarnApplied : BOOLEAN, all : BOOLEAN,
     warnAny : BOOLEAN, timeout : {20}]
    \cup {[hours |-> h, glsaIds |-> {g}, noWarnApplied |-> FALSE, all |-> FALSE, warnAny |-> FALSE,
           timeout |-> t] : h \in {24, 745}, g \in {"200401-01", "200413-01", "200401-00", "209901-01"},
                           t \in {20, 0}}

\* A GLSA id has a month and a number, and is not of the future or before the first.
ValidExclusions(o) == o.glsaIds \cap {"200413-01", "200401-00", "209901-01"} = {}
PortageValid(o) == ValidExclusions(o) /\ o.hours <= 744 /\ o.timeout \in 1..3600
PortageAll(o) == o.all \/ o.warnAny

PortageRun(w, output) == IF w.tools = "fail" THEN Fatal("UNKNOWN") ELSE output
PortageTimeout == "CRITICAL"

\* Every file that is there must be readable; the one written last counts, the
\* first of them in the list when several were.
PortageTimestamp(stamps) ==
    IF \E i \in DOMAIN stamps : ~stamps[i].readable THEN Fatal("CRITICAL")
    ELSE FoldLeft(LAMBDA best, s : IF s.mod > best.mod THEN s ELSE best, [mod |-> 0], stamps)

PortageCurrent(o, stamp) ==
    CASE IsFatal(stamp) -> stamp
      [] stamp.mod = 0 -> Fatal("CRITICAL")
      [] stamp.age = NotANumber -> Fatal("UNKNOWN")
      [] stamp.age > o.hours -> Fatal("CRITICAL")
      [] stamp.age < 0 -> Fatal("WARNING")
      [] OTHER -> stamp

\* glsa-check lists what is affected or applied, among at most five other lines.
GlsaOutput(w) == [listed |-> {<<g, w.glsa[g]>> : g \in {i \in Glsas : w.glsa[i] # "fixed"}},
                  others |-> 5 + w.extra]
SecurityUpdates(a) == {l \in a.listed : l[2] = "N"}
AppliedUpdates(a) == {l \in a.listed : l[2] = "A"}
Excluded(o, lines) == {l \in lines : l[1] \notin o.glsaIds}

SecurityStatus(o, num, applied) ==
    IF num # 0 THEN "CRITICAL" ELSE If(applied # 0 /\ ~o.noWarnApplied, "WARNING")

ProcessSecurityUpdates(o, a) ==
    SecurityStatus(o, Cardinality(Excluded(o, SecurityUpdates(a))),
                      Cardinality(Excluded(o, AppliedUpdates(a))))

\* The answer of emerge is its number of package changes.
EmergeOutput(w) == [changes |-> IF w.outdated THEN 1 ELSE 0]

PortageAnswer(w, request) ==
    CASE request = "timestamp" -> PortageTimestamp(w.stamps)
      [] request = "glsa-check" -> PortageRun(w, GlsaOutput(w))
      [] request = "emerge" -> PortageRun(w, EmergeOutput(w))

PortageStep(o, seen, missing) ==
    CASE missing \/ ~PortageValid(o) -> Exit("UNKNOWN")
      [] seen = <<>> -> Ask("timestamp")
      [] Len(seen) = 1 /\ IsFatal(PortageCurrent(o, seen[1])) -> Exit(PortageCurrent(o, seen[1]).fatal)
      [] Len(seen) = 1 -> Ask("glsa-check")
      [] IsFatal(Last(seen)) -> Exit(Last(seen).fatal)
      [] seen[2].others > 5 -> Exit("WARNING")
      [] Len(seen) = 2 /\ PortageAll(o) -> Ask("emerge")
      [] OTHER ->
           LET status == ProcessSecurityUpdates(o, seen[2])
           IN  Exit(IF Len(seen) = 3 /\ o.warnAny /\ status = "OK"
                       THEN If(seen[3].changes >= 1, "WARNING") ELSE status)

\* What OK vouches for.
PortageClaims(o) ==
    {"current", "unaffected"} \cup (IF o.noWarnApplied THEN {} ELSE {"none only marked"})
                             \cup (IF o.warnAny THEN {"up to date"} ELSE {})
PortageHolds(c, o, w) ==
    CASE c = "current" ->
           /\ \A s \in Range(w.stamps) : s.readable
           /\ \E s \in Range(w.stamps) : s.age \in 0..o.hours /\ \A t \in Range(w.stamps) : t.mod <= s.mod
      [] c = "unaffected" -> \A g \in Glsas \ o.glsaIds : w.glsa[g] # "N"
      [] c = "none only marked" -> \A g \in Glsas \ o.glsaIds : w.glsa[g] # "A"
      [] c = "up to date" -> ~w.outdated

\* Lines that glsa-check is not known to print are a WARNING.
PortageExcuses(w) == w.extra # 0
=============================================================================
