------------------------------ MODULE WebHdfs -------------------------------
(***************************************************************************)
(* check_hadoop_hdfs_webhdfs.pl: asks the HDFS NameNodes over HTTP either  *)
(* for the status of a path or to create, read back and delete a canary    *)
(* file of its own.  A NameNode in standby refuses; the plugin then tries  *)
(* another one of its --host list, and remembers which it has tried, for   *)
(* the whole of the run.                                                   *)
(*                                                                         *)
(* The NameNodes may change roles between two requests.                    *)
(***************************************************************************)
EXTENDS Nagios, Sequences, SequencesExt

CONSTANTS HostLists,     \* the --host lists, sequences without duplicates
          MaxFailovers   \* bound: role changes during a run

ASSUME ConstantsAssumption ==
    /\ \A list \in HostLists :
          list # <<>> /\ list \in Seq(ToSet(list)) /\ IsInjective(list)
    /\ MaxFailovers \in Nat

VARIABLES hosts, write,  \* @hosts, and is this the write check?
          active,     \* the NameNodes in the active role, one at most
          failovers,  \* role changes in this run
          safemode,   \* does HDFS refuse to write?
          file,       \* the canary file: "absent", "intact" or "damaged"
          step,       \* the request that comes next, "idle" between runs
          index, attempted,  \* $namenode_index and @attempted_namenodes
          verified,   \* history: the file was read back as written
          out         \* the result, and why

options == <<hosts, write>>
hdfs == <<active, failovers, safemode, file>>
vars == <<options, active, failovers, safemode, file, step, index, attempted, verified, out>>

NameNodes == ToSet(hosts)

-----------------------------------------------------------------------------

Requests == {"write", "read", "delete", "stat"}
Steps == Requests \cup {"idle", "done"}

NoResult == [status |-> "NONE", why |-> ""]
Critical(why) == [status |-> "CRITICAL", why |-> why]

Init ==
    /\ hosts \in HostLists /\ write \in BOOLEAN
    /\ active \in {{}} \cup {{n} : n \in NameNodes} /\ failovers = 0
    /\ safemode \in BOOLEAN
    /\ file = "absent"
    /\ step = "idle" /\ index = 1 /\ attempted = {}
    /\ verified = FALSE
    /\ out = NoResult

-----------------------------------------------------------------------------
(* The plugin *)

Start ==
    /\ step = "idle"
    /\ step' = IF write THEN "write" ELSE "stat"
    /\ index' = 1
    /\ attempted' = {hosts[1]}
    /\ file' \in IF write THEN {"absent"} ELSE {"absent", "intact"}
    /\ verified' = FALSE
    /\ failovers' = 0
    /\ UNCHANGED <<options, active, safemode, out>>

Quit(result) ==
    /\ step' = "done" /\ out' = result
    /\ UNCHANGED <<options, index, attempted, verified>>

Active == hosts[index] \in active

\* check_response of a StandbyException: another NameNode is tried while one is
\* left.  The loop over @hosts does not stop at the first one: each untried host
\* becomes the next one and counts as tried, so the last of them is used.
Untried == {i \in 1..Len(hosts) : hosts[i] \notin attempted}
NextIndexBeyond == Len(hosts) + 1
NextIndex == IF Untried = {} THEN index ELSE Max(Untried)

MayFailOverAlways == TRUE
MayFailOverNever == FALSE
MayFailOver == Untried # {}

FailOver ==
    /\ step \in Requests /\ ~Active
    /\ MayFailOver
    /\ index' = NextIndex
    /\ attempted' = ToSet(hosts)
    /\ UNCHANGED <<options, hdfs, step, verified, out>>

Standby ==
    /\ step \in Requests /\ ~Active
    /\ ~MayFailOver
    /\ Quit(Critical("standby"))
    /\ UNCHANGED hdfs

\* Any other error of the request, a host that is down among them.
Refused ==
    /\ step \in Requests
    /\ Quit(Critical("error"))
    /\ UNCHANGED hdfs

WriteFile ==
    /\ step = "write" /\ Active
    /\ \/ /\ ~safemode
          /\ file' \in {"intact", "damaged"}
          /\ step' = "read"
          /\ UNCHANGED <<options, index, attempted, verified, out>>
       \/ safemode /\ Quit(Critical("safe mode")) /\ file' = file
    /\ UNCHANGED <<active, failovers, safemode>>

\* Contents that differ quit at once, and the file stays.
MatchesUnread == TRUE
Matches == file = "intact"

ReadFile ==
    /\ step = "read" /\ Active
    /\ \/ /\ Matches
          /\ step' = "delete" /\ verified' = (file = "intact")
          /\ UNCHANGED <<options, index, attempted, out>>
       \/ file = "damaged" /\ ~Matches /\ Quit(Critical("mismatch"))
       \/ file = "absent" /\ Quit(Critical("not found"))
    /\ UNCHANGED hdfs

DeleteFile ==
    /\ step = "delete" /\ Active
    /\ \/ safemode /\ Quit(Critical("safe mode")) /\ file' = file
       \/ ~safemode /\ Quit([status |-> "OK", why |-> "verified"]) /\ file' = "absent"
    /\ UNCHANGED <<active, failovers, safemode>>

\* A path that exists may still fail the checks on its attributes.
FileStatus ==
    /\ step = "stat" /\ Active
    /\ \/ file = "absent" /\ Quit(Critical("not found"))
       \/ /\ file # "absent"
          /\ \E met \in BOOLEAN :
                Quit(IF met THEN [status |-> "OK", why |-> "exists"] ELSE Critical("unexpected"))
    /\ UNCHANGED hdfs

Timeout ==
    /\ step \in Requests
    /\ Quit([status |-> "UNKNOWN", why |-> "timeout"])
    /\ UNCHANGED hdfs

NextRun ==
    /\ step = "done"
    /\ step' = "idle" /\ out' = NoResult
    /\ UNCHANGED <<options, hdfs, index, attempted, verified>>

Plugin == Start \/ FailOver \/ Standby \/ WriteFile \/ ReadFile \/ DeleteFile \/ FileStatus

-----------------------------------------------------------------------------
(* HDFS *)

\* One NameNode becomes active as the other steps down.
ChangeRoles ==
    /\ active # {} /\ failovers < MaxFailovers /\ step # "done"
    /\ active' \in {{n} : n \in NameNodes \ active}
    /\ failovers' = failovers + 1
    /\ UNCHANGED <<options, safemode, file, step, index, attempted, verified, out>>

\* Safe mode comes and goes, files are damaged and cleaned up.
Change ==
    /\ safemode' \in BOOLEAN
    /\ file' \in {file} \cup (CASE file = "intact" -> {"damaged", "absent"}
                                [] OTHER -> {})
    /\ UNCHANGED <<options, active, failovers, step, index, attempted, verified, out>>

Next == Plugin \/ Refused \/ Timeout \/ NextRun \/ ChangeRoles \/ Change

Spec == Init /\ [][Next]_vars

\* The plugin is never kept waiting by anything but a request, and requests are
\* answered.  The alarm is not needed for a run to end, so it is not fair here.
LiveSpec == Spec /\ WF_vars(Plugin)

-----------------------------------------------------------------------------
(* Properties *)

\* The request goes to one of the hosts given, one that counts as tried; the
\* canary file and the result are what they can be.
TypeOK ==
    /\ step \in Steps /\ index \in 1..Len(hosts)
    /\ attempted \subseteq NameNodes
    /\ step \in Requests => hosts[index] \in attempted
    /\ file \in {"absent", "intact", "damaged"} /\ verified \in BOOLEAN
    /\ out.status \in Statuses \cup {"NONE"}

\* OK from the write check: the file it wrote was read back as it was written,
\* and nothing of it is left in HDFS, whatever roles changed between the
\* requests (the main program, lines 295-305).
OkMeansClean ==
    write /\ step = "done" /\ out.status = "OK" => verified /\ file = "absent"

\* The description promises a failover "instead of returning errors such as
\* ... StandbyException": such an error is only for when no NameNode is active.
StandbyOnlyIfNoneActive == out.why = "standby" => active = {}

\* What that comes to: of two NameNodes that keep their roles during the run the
\* active one is found, whichever request it is that meets the standby.
ActiveOfTwoIsFound ==
    Len(hosts) <= 2 /\ failovers = 0 /\ out.why = "standby" => active = {}

\* Failing over ends: a run comes to its result although each refused request
\* calls itself again (lines 250, 263, 276, 289), without help of the alarm.
Ends == step \in Requests ~> step = "done"
=============================================================================
