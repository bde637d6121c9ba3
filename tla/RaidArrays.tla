----------------------------- MODULE RaidArrays -----------------------------
(***************************************************************************)
(* older/check_3ware_raid.py, older/check_lsi_megaraid.py and              *)
(* older/check_md_raid.py.  Each lists controllers or arrays with one      *)
(* command and asks for the state of each with another, so disks fail and  *)
(* arrays are rebuilt in between.                                          *)
(***************************************************************************)
EXTENDS PluginStep

-----------------------------------------------------------------------------
(* older/check_3ware_raid.py: per controller a unit and a drive *)

Transient == {"REBUILDING", "VERIFYING", "INITIALIZING"}
TwUnitStates == {"OK", "REBUILDING", "VERIFY-PAUSED", "DEGRADED"}
TwDriveStates == {"OK", "NOT-PRESENT", "VERIFYING", "SMART-FAILURE"}
TwPart == [unit : TwUnitStates, drive : TwDriveStates]
TwFine == [unit |-> "OK", drive |-> "OK"]
TwWorlds ==
    {[parts |-> <<p>>, tool |-> TRUE, root |-> TRUE] : p \in TwPart}
    \cup {[parts |-> <<p, TwFine>>, tool |-> TRUE, root |-> TRUE] : p \in TwPart}
    \cup {[parts |-> <<TwFine, p>>, tool |-> TRUE, root |-> TRUE] : p \in TwPart}
    \cup {[parts |-> ps, tool |-> t, root |-> r] :
              ps \in {<<>>, <<TwFine>>}, t \in BOOLEAN, r \in BOOLEAN}

\* One unit or drive changes its state.
TwChanges(w) ==
    {[w EXCEPT !.parts[i] = p] : i \in DOMAIN w.parts,
        p \in {q \in TwPart : q.unit = "OK" \/ q.drive = "OK"}}

TwOptions == [arraysOnly : BOOLEAN, drivesOnly : BOOLEAN, showDrives : BOOLEAN, warnTrue : BOOLEAN]
TwValid(o) == ~(o.arraysOnly /\ (o.drivesOnly \/ o.showDrives)) /\ ~(o.drivesOnly /\ o.warnTrue)
TwBinary(w) == w.root /\ w.tool

TwRun(w, request) ==
    CASE request[1] = "show" /\ w.parts = <<>> -> Fatal("UNKNOWN")
      [] request[1] = "show" -> [of |-> request, controllers |-> Len(w.parts)]
      [] request[1] = "unitstatus" -> [of |-> request, state |-> w.parts[request[2]].unit]
      [] request[1] = "drivestatus" -> [of |-> request, state |-> w.parts[request[2]].drive]

TwStates(seen, kind) == {seen[i].state : i \in {j \in DOMAIN seen : seen[j].of[1] = kind}}

TwUnit(o, state) ==
    CASE state = "OK" -> "OK"
      [] state \in Transient \cup {"VERIFY-PAUSED"} -> If(o.warnTrue, "WARNING")
      [] OTHER -> "CRITICAL"
TestArrays(o, states) == Worst({TwUnit(o, s) : s \in states})

TwDrive(o, state) ==
    CASE state \in {"OK", "NOT-PRESENT"} -> "OK"
      [] ~o.warnTrue /\ state \in Transient -> "OK"
      [] OTHER -> "CRITICAL"
TestDrives(o, states) == Worst({TwDrive(o, s) : s \in states})

\* Both tests list the controllers, and then ask one after the other.
TestAll(o, seen) ==
    Both(IF o.drivesOnly THEN "OK" ELSE TestArrays(o, TwStates(seen, "unitstatus")),
         IF o.arraysOnly THEN "OK" ELSE TestDrives(o, TwStates(seen, "drivestatus")))

TwPlan(o, n) ==
    LET part(list, each) == <<<<"show", list>>>> \o [i \in 1..n |-> <<each, i>>]
    IN  (IF o.drivesOnly THEN <<>> ELSE part("arrays", "unitstatus"))
        \o (IF o.arraysOnly THEN <<>> ELSE part("drives", "drivestatus"))

TwStep(o, seen, usable) ==
    CASE ~TwValid(o) \/ ~usable -> Exit("UNKNOWN")
      [] seen = <<>> -> Ask(TwPlan(o, 0)[1])
      [] IsFatal(Last(seen)) -> Exit("UNKNOWN")
      [] Len(seen) < Len(TwPlan(o, seen[1].controllers)) ->
             Ask(TwPlan(o, seen[1].controllers)[Len(seen) + 1])
      [] OTHER -> Exit(TestAll(o, seen))

\* What OK vouches for: each unit and each drive.
TwClaims(o, w) ==
    {<<k, i>> : k \in {"unit", "drive"} \ ((IF o.drivesOnly THEN {"unit"} ELSE {})
                                           \cup (IF o.arraysOnly THEN {"drive"} ELSE {})),
                i \in DOMAIN w.parts}
TwHolds(c, o, w) ==
    LET state == w.parts[c[2]][c[1]]
    IN  state \in {"OK", "NOT-PRESENT"}
        \/ (~o.warnTrue /\ state \in {"REBUILDING", "VERIFYING", "VERIFY-PAUSED"})

-----------------------------------------------------------------------------
(* older/check_lsi_megaraid.py: per controller the states of its arrays *)

LsiArrays == {<<>>, <<"OPTIMAL">>, <<"DEGRADED">>, <<"OPTIMAL", "DEGRADED">>}
LsiWorlds ==
    [ctl : {<<>>} \cup {<<a>> : a \in LsiArrays} \cup {<<a, b>> : a \in LsiArrays, b \in LsiArrays},
     node : {TRUE}, driver : {TRUE}, util : {"works"}]
    \cup [ctl : {<<<<"OPTIMAL">>>>}, node : BOOLEAN, driver : BOOLEAN, util : {"works", "missing", "fails"}]
LsiChanges(w) == {[w EXCEPT !.ctl[i] = a] : i \in DOMAIN w.ctl, a \in LsiArrays}

\* The device node is made if the driver is loaded, before anything is asked.
MakeMegadev(w) == IF w.node \/ w.driver THEN [made |-> TRUE] ELSE Fatal("UNKNOWN")
LsiEffect(w) == IF w.driver THEN [w EXCEPT !.node = TRUE] ELSE w

LsiRun(w, output) == IF w.util = "works" THEN output ELSE Fatal("UNKNOWN")
GetControllers(w) == IF w.ctl = <<>> THEN Fatal("WARNING") ELSE [controllers |-> Len(w.ctl)]

LsiAnswer(w, request) ==
    CASE request[1] = "megadev" -> IF w.util = "missing" THEN Fatal("UNKNOWN") ELSE MakeMegadev(w)
      [] request[1] = "-AllAdpInfo" -> LsiRun(w, GetControllers(w))
      [] OTHER -> LsiRun(w, [arrays |-> w.ctl[request[2]]])

LsiTestRaid(details) ==
    Worst({IF d.arrays = <<>> THEN "WARNING"
           ELSE If(\E i \in DOMAIN d.arrays : d.arrays[i] # "OPTIMAL", "CRITICAL") : d \in details})

LsiStep(seen) ==
    IF seen = <<>> THEN Ask(<<"megadev">>)
    ELSE IF IsFatal(Last(seen)) THEN Exit(Last(seen).fatal)
    ELSE IF Len(seen) = 1 THEN Ask(<<"-AllAdpInfo">>)
    ELSE IF Len(seen) - 2 < seen[2].controllers THEN Ask(<<"-LdInfo", Len(seen) - 1>>)
    ELSE Exit(LsiTestRaid({seen[i] : i \in 3..Len(seen)}))

\* What OK vouches for: each controller, and that there is an array at all.
AnyArray == 0
LsiClaims(w) == DOMAIN w.ctl \cup {AnyArray}
LsiHolds(c, w) ==
    IF c = AnyArray THEN \E i \in DOMAIN w.ctl : w.ctl[i] # <<>>
    ELSE w.ctl[c] # <<>> /\ \A i \in DOMAIN w.ctl[c] : w.ctl[c][i] = "OPTIMAL"

-----------------------------------------------------------------------------
(* older/check_md_raid.py: the "State :" of each array; a container has none, *)
(* and an array can be stopped between the scan and the question.             *)

MdStates == {"clean", "active", "dirty", "clean, degraded", "clean, degraded, recovering", "none", "stopped"}
MdWorlds == {[arrays |-> <<a>>, sudo |-> TRUE] : a \in MdStates}
            \cup {[arrays |-> <<a, b>>, sudo |-> s] : a \in MdStates, b \in {"clean", "none"}, s \in {TRUE}}
            \cup {[arrays |-> <<>>, sudo |-> TRUE], [arrays |-> <<"clean">>, sudo |-> FALSE]}
MdChanges(w) == {[w EXCEPT !.arrays[i] = a] : i \in DOMAIN w.arrays, a \in MdStates}

\* Those that mdadm --detail --scan lists.
FindArrays(w) ==
    LET running == {i \in DOMAIN w.arrays : w.arrays[i] # "stopped"}
    IN  IF ~w.sudo \/ running = {} THEN Fatal("UNKNOWN")
        ELSE [devices |-> SetToSortSeq(running, <)]

\* Of a stopped array there is a line of error and none to take the level from:
\* the script dies of an exception, with exit code 1.
MdDetail(w, array) ==
    IF w.arrays[array] = "stopped" THEN Fatal("WARNING") ELSE [state |-> w.arrays[array]]

\* Line 147 compares state, not status, with OK, and never sets UNKNOWN.
MdArray(state) ==
    CASE state \in {"clean", "active", "dirty", "none"} -> "OK"
      [] state = "clean, degraded, recovering" -> "WARNING"
      [] OTHER -> "CRITICAL"

MdTestRaid(seen) == Worst({MdArray(seen[i].state) : i \in 2..Len(seen)})

MdStep(seen) ==
    CASE seen = <<>> -> Ask(<<"scan">>)
      [] IsFatal(Last(seen)) -> Exit(Last(seen).fatal)
      [] Len(seen) - 1 < Len(seen[1].devices) -> Ask(<<"detail", seen[1].devices[Len(seen)]>>)
      [] OTHER -> Exit(MdTestRaid(seen))

\* What OK vouches for.
MdClaims(w) == DOMAIN w.arrays \cup {AnyArray}
MdHolds(c, w) ==
    IF c = AnyArray THEN \E i \in DOMAIN w.arrays : w.arrays[i] # "stopped"
    ELSE w.arrays[c] \in {"clean", "active", "dirty"}
\* An array that tells no state is taken for a good one, and one that is stopped
\* before the scan is not there for it.
MdOverlooks(c, w) == c # AnyArray /\ w.arrays[c] \in {"none", "stopped"}

\* An array that is stopped after the scan is the end by an exception, which
\* exits with the code of WARNING.
MdExcuses(w) == "stopped" \in Range(w.arrays)
=============================================================================
