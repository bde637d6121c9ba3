---------------------------- MODULE WebHdfsProof ----------------------------
(* check_hadoop_hdfs_webhdfs.pl (WebHdfs) with a --host list of any length and *)
(* any number of changes of role.                                             *)
EXTENDS WebHdfs, TLAPS, WellFoundedInduction

\* What the runs do not check as invariants: the lists, the NameNodes in HDFS,
\* and that a result is there only when the run is done.
HostsOK ==
    /\ hosts \in HostLists /\ write \in BOOLEAN
    /\ active \subseteq NameNodes
    /\ step # "done" => out = NoResult
    /\ failovers \in Nat

\* The write check goes through write, read and delete, the path check through
\* stat alone; delete is reached by what was read back and by nothing else.
Progress ==
    /\ write => step # "stat"
    /\ ~write => step \notin {"write", "read", "delete"}
    /\ step = "delete" => verified

\* A NameNode that was tried, and is not the one in use, was in standby, and
\* still is unless roles changed.
TriedInVain ==
    Len(hosts) <= 2 /\ failovers = 0 /\ step \in Requests =>
        active \cap (attempted \ {hosts[index]}) = {}

IInv == TypeOK /\ HostsOK /\ Progress /\ OkMeansClean /\ TriedInVain /\ ActiveOfTwoIsFound

-----------------------------------------------------------------------------
(* The list *)

LEMMA ListFacts ==
    ASSUME NEW list \in HostLists
    PROVE  /\ Len(list) \in Nat \ {0} /\ DOMAIN list = 1..Len(list)
           /\ \A i \in 1..Len(list) : list[i] \in ToSet(list)
           /\ \A n \in ToSet(list) : \E i \in 1..Len(list) : n = list[i]
<1>1. list # <<>> /\ list \in Seq(ToSet(list))
  BY ConstantsAssumption
<1> QED
  BY <1>1 DEF ToSet

\* A set of positions has a last one.
LEMMA LastOf ==
    ASSUME NEW n \in Nat, NEW S \in SUBSET (1..n), S # {}
    PROVE  Max(S) \in S /\ \A i \in S : Max(S) >= i
<1> DEFINE Back == {n - i : i \in S}
           Less == OpToRel(<, Nat)
<1>1. Back \subseteq Nat /\ Back # {}
  <2>1. \A i \in S : i \in Int /\ i <= n
    OBVIOUS
  <2>2. \A i \in S : n - i \in Nat
    BY <2>1
  <2>3. Back \subseteq Nat
    BY <2>2
  <2> QED
    BY <2>3
<1>2. PICK b \in Back : \A c \in Back : b <= c
  <2>1. PICK b \in Back : \A c \in Back : <<c, b>> \notin Less
    <3> HIDE DEF Back
    <3> QED
      BY <1>1, NatLessThanWellFounded, WFMin
  <2>2. \A c \in Back : ~(c < b)
    <3> HIDE DEF Back
    <3> QED
      BY <1>1, <2>1 DEF OpToRel
  <2>3. \A c \in Back : b <= c
    <3> HIDE DEF Back
    <3> QED
      BY <1>1, <2>2
  <2> QED
    BY <2>3
<1>3. PICK m \in S : b = n - m
  BY <1>2
<1>4. \A i \in S : m >= i
  <2> TAKE i \in S
  <2>1. b <= n - i
    BY <1>2
  <2>2. i \in 1..n /\ m \in 1..n
    BY <1>3
  <2> QED
    BY <1>3, <2>1, <2>2
<1> QED
  BY <1>3, <1>4 DEF Max

\* The failover uses a host of the list, one that was not tried before.
LEMMA NextIndexFacts ==
    ASSUME HostsOK, TypeOK, MayFailOver
    PROVE  NextIndex \in Untried /\ NextIndex \in 1..Len(hosts)
<1>1. Len(hosts) \in Nat
  BY ListFacts DEF HostsOK
<1>2. Untried \in SUBSET (1..Len(hosts)) /\ Untried # {}
  BY DEF Untried, MayFailOver
<1>3. Max(Untried) \in Untried
  BY <1>1, <1>2, LastOf
<1> QED
  BY <1>2, <1>3 DEF NextIndex

-----------------------------------------------------------------------------
(* The invariant *)

LEMMA InitInv == Init => IInv
<1> SUFFICES ASSUME Init PROVE IInv
  OBVIOUS
<1>1. Len(hosts) \in Nat \ {0}
  BY ListFacts DEF Init
<1>2. TypeOK
  <2>1. index \in 1..Len(hosts)
    BY <1>1 DEF Init
  <2>2. step \in Steps /\ step \notin Requests
    BY DEF Init, Steps, Requests
  <2>3. out.status \in Statuses \cup {"NONE"}
    BY DEF Init, NoResult
  <2> QED
    BY <2>1, <2>2, <2>3 DEF Init, TypeOK
<1>3. HostsOK
  BY DEF Init, HostsOK
<1> QED
  BY <1>2, <1>3 DEF Init, IInv, Progress, OkMeansClean, TriedInVain, ActiveOfTwoIsFound, Requests, NoResult

\* Whatever ends a run with a result that is neither OK nor a standby.
LEMMA QuitKeeps ==
    ASSUME IInv, step \in Requests, NEW result, Quit(result),
           result.status \in Statuses \ {"OK"}, result.why # "standby",
           UNCHANGED <<active, failovers>>, file' \in {"absent", "intact", "damaged"}
    PROVE  IInv'
BY DEF Quit, options, IInv, TypeOK, HostsOK, Progress, OkMeansClean, TriedInVain, ActiveOfTwoIsFound,
       Steps, Requests, NameNodes

\* A request of the write check that is answered, and followed by the next one.
LEMMA AnswerKeeps ==
    ASSUME IInv, write, step \in Requests, step' \in {"read", "delete"}, step' = "delete" => verified',
           UNCHANGED <<hosts, write, active, failovers, index, attempted, out>>,
           file' \in {"absent", "intact", "damaged"}, verified' \in BOOLEAN
    PROVE  IInv'
<1>1. /\ hosts' = hosts /\ write' = write /\ active' = active /\ failovers' = failovers
      /\ index' = index /\ attempted' = attempted /\ out' = out /\ out = NoResult
  BY DEF IInv, HostsOK, Requests
<1>2. step' \in Requests /\ step' \in Steps /\ step' \notin {"stat", "done"}
  BY DEF Requests, Steps
<1>3. TypeOK'
  BY <1>1, <1>2 DEF IInv, TypeOK, NameNodes
<1>4. HostsOK'
  BY <1>1, <1>2 DEF IInv, HostsOK, NameNodes
<1>5. Progress'
  BY <1>1, <1>2 DEF Progress
<1>6. TriedInVain'
  BY <1>1 DEF IInv, TriedInVain
<1>7. OkMeansClean' /\ ActiveOfTwoIsFound'
  <2>1. step' # "done"
    BY <1>2
  <2>2. ActiveOfTwoIsFound'
    BY <1>1 DEF IInv, ActiveOfTwoIsFound
  <2> QED
    BY <2>1, <2>2 DEF OkMeansClean
<1> QED
  BY <1>3, <1>4, <1>5, <1>6, <1>7 DEF IInv

LEMMA NextInv == IInv /\ [Next]_vars => IInv'
<1> SUFFICES ASSUME IInv, [Next]_vars PROVE IInv'
  OBVIOUS
<1> USE DEF options, hdfs
<1>l. /\ Len(hosts) \in Nat \ {0} /\ DOMAIN hosts = 1..Len(hosts)
      /\ \A i \in 1..Len(hosts) : hosts[i] \in NameNodes
      /\ \A n \in NameNodes : \E i \in 1..Len(hosts) : n = hosts[i]
  BY ListFacts DEF IInv, HostsOK, NameNodes
<1>1. CASE Start
  <2>0. /\ hosts' = hosts /\ write' = write /\ active' = active /\ out' = out /\ out = NoResult
        /\ step' = (IF write THEN "write" ELSE "stat") /\ index' = 1 /\ attempted' = {hosts[1]}
        /\ file' \in {"absent", "intact"} /\ verified' = FALSE /\ failovers' = 0
    BY <1>1 DEF Start, IInv, HostsOK
  <2>1. TypeOK'
    <3>1. step' \in Requests /\ step' \in Steps
      BY <2>0 DEF Requests, Steps
    <3>2. index' \in 1..Len(hosts') /\ attempted' \subseteq NameNodes' /\ hosts'[index'] \in attempted'
      BY <2>0, <1>l DEF NameNodes
    <3> QED
      BY <2>0, <3>1, <3>2 DEF TypeOK, IInv
  <2>2. HostsOK' /\ Progress' /\ OkMeansClean' /\ ActiveOfTwoIsFound'
    <3>1. step' # "done" /\ step' # "delete" /\ (write => step' # "stat")
          /\ (~write => step' \notin {"write", "read", "delete"})
      BY <2>0 DEF IInv, HostsOK
    <3>2. HostsOK'
      BY <2>0, <3>1 DEF IInv, HostsOK, NameNodes, NoResult
    <3> QED
      BY <2>0, <3>1, <3>2 DEF IInv, Progress, OkMeansClean, ActiveOfTwoIsFound, NoResult
  <2>3. TriedInVain'
    BY <2>0 DEF TriedInVain
  <2> QED
    BY <2>1, <2>2, <2>3 DEF IInv
<1>2. CASE FailOver
  <2>1. NextIndex \in Untried /\ NextIndex \in 1..Len(hosts)
    BY <1>2, NextIndexFacts DEF IInv, FailOver
  <2>2. TypeOK' /\ HostsOK' /\ Progress' /\ OkMeansClean' /\ ActiveOfTwoIsFound'
    BY <1>2, <2>1, <1>l DEF FailOver, IInv, TypeOK, HostsOK, Progress, OkMeansClean, ActiveOfTwoIsFound,
              Steps, Requests, NameNodes, NoResult
  \* Of two the other one is the one that refused.
  <2>3. TriedInVain'
    <3> SUFFICES ASSUME Len(hosts) <= 2 PROVE active \cap (NameNodes \ {hosts[NextIndex]}) = {}
      BY <1>2 DEF FailOver, TriedInVain, NameNodes
    <3>1. hosts[index] \notin active /\ hosts[index] \in attempted /\ index \in 1..Len(hosts)
      BY <1>2 DEF FailOver, Active, IInv, TypeOK
    <3>2. index # NextIndex
      BY <2>1, <3>1 DEF Untried
    <3>3. \A i \in 1..Len(hosts) : i = index \/ i = NextIndex
      BY <2>1, <3>1, <3>2, <1>l
    <3> QED
      BY <3>1, <3>3, <1>l
  <2> QED
    BY <2>2, <2>3 DEF IInv
<1>3. CASE Standby
  <2>1. TypeOK' /\ HostsOK' /\ Progress' /\ OkMeansClean' /\ TriedInVain'
    BY <1>3 DEF Standby, Quit, Critical, IInv, TypeOK, HostsOK, Progress, OkMeansClean, TriedInVain,
              Steps, Requests, Statuses, NameNodes
  \* All were tried: the ones before in vain, the one in use now.
  <2>2. ActiveOfTwoIsFound'
    <3> SUFFICES ASSUME Len(hosts) <= 2, failovers = 0 PROVE active = {}
      BY <1>3 DEF Standby, Quit, ActiveOfTwoIsFound
    <3>1. active \cap (attempted \ {hosts[index]}) = {} /\ hosts[index] \notin active
      BY <1>3 DEF Standby, Active, IInv, TriedInVain
    <3>2. NameNodes \subseteq attempted
      BY <1>3, <1>l DEF Standby, MayFailOver, Untried
    <3> QED
      BY <3>1, <3>2 DEF IInv, HostsOK
  <2> QED
    BY <2>1, <2>2 DEF IInv
<1>4. CASE Refused
  BY <1>4, QuitKeeps DEF Refused, Critical, Statuses, IInv, TypeOK
<1>5. CASE WriteFile
  <2>1. CASE safemode
    BY <1>5, <2>1, QuitKeeps DEF WriteFile, Requests, Critical, Statuses, IInv, TypeOK
  <2>2. CASE ~safemode
    <3>1. write /\ step \in Requests
      BY <1>5 DEF WriteFile, IInv, Progress, HostsOK, Requests
    <3> QED
      BY <1>5, <2>2, <3>1, AnswerKeeps DEF WriteFile, IInv, TypeOK
  <2> QED
    BY <2>1, <2>2
<1>6. CASE ReadFile
  <2>1. CASE Matches /\ step' = "delete" /\ verified' = (file = "intact") /\ UNCHANGED <<options, index, attempted, out>>
    <3>1. write /\ step \in Requests
      BY <1>6 DEF ReadFile, IInv, Progress, HostsOK, Requests
    <3> QED
      BY <1>6, <2>1, <3>1, AnswerKeeps DEF ReadFile, Matches, IInv, TypeOK
  <2>2. CASE Quit(Critical("mismatch")) \/ Quit(Critical("not found"))
    BY <1>6, <2>2, QuitKeeps DEF ReadFile, Requests, Critical, Statuses, IInv, TypeOK
  <2> QED
    BY <1>6, <2>1, <2>2 DEF ReadFile
<1>7. CASE DeleteFile
  <2>1. CASE safemode
    BY <1>7, <2>1, QuitKeeps DEF DeleteFile, Requests, Critical, Statuses, IInv, TypeOK
  \* OK: what is deleted was read back before, and the write is over.
  <2>2. CASE ~safemode
    <3>1. /\ step' = "done" /\ out' = [status |-> "OK", why |-> "verified"] /\ file' = "absent"
          /\ hosts' = hosts /\ write' = write /\ active' = active /\ failovers' = failovers
          /\ index' = index /\ attempted' = attempted /\ verified' = verified /\ verified
      BY <1>7, <2>2 DEF DeleteFile, Quit, IInv, Progress
    <3>2. "done" \in Steps /\ "done" \notin Requests
      BY DEF Steps, Requests
    <3>3. TypeOK'
      BY <3>1, <3>2 DEF IInv, TypeOK, Statuses, NameNodes
    <3>4. HostsOK' /\ Progress'
      BY <3>1 DEF IInv, HostsOK, Progress, NameNodes
    <3>5. OkMeansClean' /\ ActiveOfTwoIsFound'
      BY <3>1 DEF OkMeansClean, ActiveOfTwoIsFound
    <3>6. TriedInVain'
      BY <3>1, <3>2 DEF TriedInVain
    <3> QED
      BY <3>3, <3>4, <3>5, <3>6 DEF IInv
  <2> QED
    BY <2>1, <2>2
<1>8. CASE FileStatus
  \* The write check has no such request.
  <2>1. ~write
    BY <1>8 DEF FileStatus, IInv, Progress
  <2>2. CASE Quit([status |-> "OK", why |-> "exists"])
    BY <1>8, <2>1, <2>2 DEF FileStatus, Quit, IInv, TypeOK, HostsOK, Progress, OkMeansClean, TriedInVain,
              ActiveOfTwoIsFound, Steps, Requests, Statuses, NameNodes
  <2>3. CASE Quit(Critical("not found")) \/ Quit(Critical("unexpected"))
    BY <1>8, <2>3, QuitKeeps DEF FileStatus, Requests, Critical, Statuses, IInv, TypeOK
  <2> QED
    BY <1>8, <2>2, <2>3 DEF FileStatus
<1>9. CASE Timeout
  BY <1>9, QuitKeeps DEF Timeout, Statuses, IInv, TypeOK
<1>10. CASE NextRun
  BY <1>10 DEF NextRun, IInv, TypeOK, HostsOK, Progress, OkMeansClean, TriedInVain, ActiveOfTwoIsFound,
              Steps, Requests, NameNodes, NoResult
<1>11. CASE ChangeRoles
  <2>1. /\ hosts' = hosts /\ write' = write /\ file' = file /\ step' = step /\ out' = out
        /\ index' = index /\ attempted' = attempted /\ verified' = verified
        /\ active' \subseteq NameNodes /\ failovers' \in Nat /\ failovers' # 0
        /\ step # "done" /\ out = NoResult
    BY <1>11 DEF ChangeRoles, IInv, HostsOK
  <2>2. TypeOK'
    BY <2>1 DEF IInv, TypeOK, NameNodes
  <2>3. HostsOK' /\ Progress'
    BY <2>1 DEF IInv, HostsOK, Progress, NameNodes
  <2>4. OkMeansClean' /\ TriedInVain' /\ ActiveOfTwoIsFound'
    BY <2>1 DEF OkMeansClean, TriedInVain, ActiveOfTwoIsFound
  <2> QED
    BY <2>2, <2>3, <2>4 DEF IInv
<1>12. CASE Change
  BY <1>12 DEF Change, IInv, TypeOK, HostsOK, Progress, OkMeansClean, TriedInVain, ActiveOfTwoIsFound,
              NameNodes
<1>13. CASE UNCHANGED vars
  BY <1>13 DEF vars, IInv, TypeOK, HostsOK, Progress, OkMeansClean, TriedInVain, ActiveOfTwoIsFound,
              NameNodes
<1> QED
  BY <1>1, <1>2, <1>3, <1>4, <1>5, <1>6, <1>7, <1>8, <1>9, <1>10, <1>11, <1>12, <1>13 DEF Next, Plugin

-----------------------------------------------------------------------------

\* The index that check_response computes stays within the --host list, and the
\* host it stands for is one that counts as tried.
THEOREM WebHdfsTypeCorrect == Spec => []TypeOK
<1>1. IInv => TypeOK
  BY DEF IInv
<1> QED
  BY InitInv, NextInv, <1>1, PTL DEF Spec

\* An OK of the write check says that the canary file was read back as written
\* and is gone, whichever NameNodes answered its three requests.
THEOREM OkIsClean == Spec => []OkMeansClean
<1>1. IInv => OkMeansClean
  BY DEF IInv
<1> QED
  BY InitInv, NextInv, <1>1, PTL DEF Spec

\* Of one or two NameNodes that keep their roles the active one is found by the
\* loop of check_response, whichever request meets the one in standby.
THEOREM FailoverFindsActive == Spec => []ActiveOfTwoIsFound
<1>1. IInv => ActiveOfTwoIsFound
  BY DEF IInv
<1> QED
  BY InitInv, NextInv, <1>1, PTL DEF Spec
=============================================================================
