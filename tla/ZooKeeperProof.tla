--------------------------- MODULE ZooKeeperProof ---------------------------
(* check_zookeeper.pl (ZooKeeperState) for any number of runs at a time, and  *)
(* any bounds on the clock, the packets, the backlog and the restarts.        *)
EXTENDS ZooKeeperState, TLAPS

Results == [status : Statuses \cup {"NONE"}, rate : Int]
Inside == {"locked", "truncated"}

\* The types, with those of the results in full.
NumbersOK ==
    /\ time \in 1..MaxTime /\ packets \in 0..MaxPackets
    /\ restarts \in 0..MaxRestarts /\ past \in Nat
    /\ claimed \in Nat /\ overlapped \in BOOLEAN
FileOK == exists \in BOOLEAN /\ rec \in SampleOf(Nat) /\ lock \in SUBSET Proc
RunsOK ==
    /\ pc \in [Proc -> PCs] /\ found \in [Proc -> BOOLEAN]
    /\ samp \in [Proc -> SampleOf(Nat)] /\ last \in [Proc -> SampleOf(Nat)]
OutOK == out \in [Proc -> Results] /\ \A p \in Proc : out[p].rate >= -2
TypeInv == NumbersOK /\ FileOK /\ RunsOK /\ OutOK

\* The lock is held by the runs that are inside, and by one at most, who finds
\* the file empty once it has truncated it.
LockInv ==
    /\ lock = {p \in Proc : pc[p] \in Inside}
    /\ \A p, q \in lock : p = q
    /\ \A p \in Proc : pc[p] = "truncated" => rec = Blank

\* A run is silent until it ends.
SilentInv == \A p \in Proc : pc[p] # "idle" => out[p] = NoResult

\* The packets before the restarts are as many as the restarts allow, and a run
\* stamps its sample with the clock.
BoundInv ==
    /\ past <= MaxPackets * restarts
    /\ \A p \in Proc : /\ samp[p].past <= past
                       /\ pc[p] \in {"truncated", "saved"} => samp[p].ts \in 1..MaxTime

Inv == TypeInv /\ LockInv /\ SilentInv /\ BoundInv

\* While no two runs have overlapped, every sample that can still serve as a
\* base was taken no earlier than the last packet reported so far.
ClaimInv ==
    /\ \A p, q \in Proc : pc[p] # "idle" /\ pc[q] # "idle" => p = q
    /\ claimed <= past + packets
    /\ rec.ts # 0 => claimed <= Total(rec)
    /\ \A p \in Proc : pc[p] # "idle" =>
          /\ Total(samp[p]) <= past + packets
          /\ claimed <= Total(samp[p])
          /\ pc[p] \in {"truncated", "saved"} /\ last[p].ts # 0 => claimed <= Total(last[p])
          /\ pc[p] = "saved" /\ rec.ts # 0 => Total(samp[p]) <= Total(rec)
ApartInv == ~overlapped => ClaimInv

-----------------------------------------------------------------------------

LEMMA BlankIsSample == Blank \in SampleOf(Nat) /\ NoResult \in Results /\ NoResult.rate = -2
BY ConstantsAssumption DEF Blank, SampleOf, NoResult, Results

\* What an alarm, a busy lock or a server that does not answer leaves.
LEMMA EndsIsResult == \A status \in Statuses : Ends(status) \in Results /\ Ends(status).rate = Unrated /\ Unrated >= -2
BY DEF Ends, Unrated, Results

\* Thresholds and the escalation of a state give a state.
LEMMA StatesGiveStates ==
    /\ \A s, t \in Statuses : Escalate(s, t) \in Statuses
    /\ \A v : UpperThreshold(v, Warn, Crit) \in Statuses
BY DEF Escalate, UpperThreshold, Statuses

\* A rate is an integer, and one that is told is none of the two marks.
LEMMA JudgeType ==
    ASSUME NEW b \in SampleOf(Nat), NEW s \in SampleOf(Nat)
    PROVE  Judge(b, s) \in Int /\ Judge(b, s) >= Unrated
<1>1. Secs(b, s) \in Int /\ s.packets - b.packets \in Int
  BY ConstantsAssumption DEF Secs, SampleOf
<1>2. CASE Rated(b, s)
  <2>1. Secs(b, s) > 0
    BY <1>1, <1>2 DEF Rated
  <2>2. \A n \in Int, d \in Int : d > 0 => Round(n, d) \in Int
    BY DEF Round
  <2>3. Rate(b, s) \in Int
    BY <1>1, <2>1, <2>2 DEF Rate
  <2>4. ~(Rate(b, s) < 0)
    BY <1>2 DEF Rated, WentBack
  <2> QED
    BY <1>2, <2>3, <2>4 DEF Judge, Unrated
<1>3. CASE ~Rated(b, s)
  BY <1>3 DEF Judge, Unrated
<1> QED
  BY <1>2, <1>3

\* What a run ends with is a result.
LEMMA ResultType ==
    ASSUME TypeInv, NEW p \in Proc, NEW health \in Health
    PROVE  Result(p, health) \in Results /\ Result(p, health).rate >= -2
<1>1. health \in Statuses
  BY ConstantsAssumption DEF Statuses
<1>2. Judge(last[p], samp[p]) \in Int /\ Judge(last[p], samp[p]) >= Unrated
  BY JudgeType DEF TypeInv, RunsOK
<1>3. Escalate(health, UpperThreshold(samp[p].backlog, Warn, Crit)) \in Statuses
  BY <1>1, StatesGiveStates
<1>4. "UNKNOWN" \in Statuses
  BY DEF Statuses
<1> QED
  BY <1>2, <1>3, <1>4 DEF Result, Results, Unrated

\* A process that ends keeps the types and the bookkeeping of the lock.
LEMMA DieInv ==
    ASSUME Inv, NEW p \in Proc, NEW r \in Results, r.rate >= -2, pc[p] # "idle", Die(p, r)
    PROVE  /\ RunsOK' /\ OutOK' /\ SilentInv'
           /\ lock' \in SUBSET Proc
           /\ lock' = {q \in Proc : pc'[q] \in Inside}
           /\ \A q1, q2 \in lock' : q1 = q2
<1> USE BlankIsSample DEF Inv, TypeInv, Die
<1>1. RunsOK'
  BY DEF RunsOK, PCs
<1>2. OutOK'
  BY DEF OutOK
<1>3. SilentInv'
  BY DEF SilentInv, RunsOK, OutOK
<1>4. lock' \in SUBSET Proc
  BY DEF FileOK
<1>5. lock' = {q \in Proc : pc'[q] \in Inside}
  BY DEF LockInv, Inside, RunsOK
<1>6. \A q1, q2 \in lock' : q1 = q2
  BY DEF LockInv
<1> QED
  BY <1>1, <1>2, <1>3, <1>4, <1>5, <1>6

\* What a run leaves in the file is what is there, or the line it has stamped.
LEMMA EndInv ==
    ASSUME Inv, NEW p \in Proc, NEW r \in Results, r.rate >= -2, pc[p] # "idle", Die(p, r),
           UNCHANGED <<time, server, exists, overlapped>>, claimed' \in Nat,
           rec' = rec \/ (pc[p] = "truncated" /\ rec' = Line(p))
    PROVE  Inv'
<1>1. /\ RunsOK' /\ OutOK' /\ SilentInv' /\ lock' \in SUBSET Proc
      /\ lock' = {q \in Proc : pc'[q] \in Inside} /\ \A q1, q2 \in lock' : q1 = q2
  BY DieInv
<1>2. TypeInv'
  <2>1. NumbersOK'
    BY DEF Inv, TypeInv, NumbersOK, server
  <2>2. FileOK'
    BY <1>1 DEF Inv, TypeInv, FileOK, RunsOK, Line
  <2> QED
    BY <1>1, <2>1, <2>2 DEF TypeInv
<1>3. LockInv'
  <2>1. ASSUME NEW q \in Proc, pc'[q] = "truncated" PROVE rec' = Blank
    <3>1. q # p /\ pc[q] = "truncated"
      BY <2>1 DEF Inv, TypeInv, RunsOK, Die
    <3>2. pc[p] # "truncated"
      BY <3>1 DEF Inv, LockInv, Inside
    <3> QED
      BY <3>1, <3>2 DEF Inv, LockInv
  <2> QED
    BY <1>1, <2>1 DEF LockInv
<1>4. BoundInv'
  BY DEF Inv, TypeInv, NumbersOK, RunsOK, BoundInv, Die, server, Blank, SampleOf
<1> QED
  BY <1>1, <1>2, <1>3, <1>4 DEF Inv


\* The inductive step of the invariant, one case per action.
LEMMA InvStep == Inv /\ [Next]_vars => Inv'
<1> SUFFICES ASSUME Inv, [Next]_vars
             PROVE  Inv'
  OBVIOUS
<1> USE ConstantsAssumption
<1>0. TypeInv /\ LockInv /\ SilentInv /\ BoundInv
  BY DEF Inv
<1>1. CASE UNCHANGED vars
  BY <1>0, <1>1 DEF vars, server, store, local, Inv, TypeInv, NumbersOK, FileOK, RunsOK, OutOK, LockInv,
                    SilentInv, BoundInv
<1>2. CASE Clock \/ Packet \/ Restart
  <2>1. UNCHANGED <<store, pc, local, out, claimed, overlapped>>
    BY <1>2 DEF Clock, Packet, Restart
  <2>2. NumbersOK'
    BY <1>0, <1>2, <2>1 DEF Clock, Packet, Restart, server, TypeInv, NumbersOK
  <2>3. FileOK' /\ RunsOK' /\ OutOK' /\ LockInv' /\ SilentInv'
    BY <1>0, <2>1 DEF store, local, TypeInv, FileOK, RunsOK, OutOK, LockInv, SilentInv
  <2>4. past' <= MaxPackets * restarts' /\ past <= past'
    <3>1. CASE Restart
      <4>1. past' = past + packets /\ restarts' = restarts + 1
        BY <3>1 DEF Restart
      <4>2. MaxPackets * (restarts + 1) = MaxPackets * restarts + MaxPackets
        BY <1>0 DEF TypeInv, NumbersOK
      <4>3. MaxPackets * restarts \in Int
        BY <1>0 DEF TypeInv, NumbersOK
      <4> QED
        BY <1>0, <4>1, <4>2, <4>3 DEF TypeInv, NumbersOK, BoundInv
    <3>2. CASE Clock \/ Packet
      BY <1>0, <3>2 DEF Clock, Packet, server, TypeInv, NumbersOK, BoundInv
    <3> QED
      BY <1>2, <3>1, <3>2
  <2>5. BoundInv'
    <3>1. \A p \in Proc : samp[p].past \in Int
      BY <1>0 DEF TypeInv, RunsOK, SampleOf
    <3>2. past \in Int /\ past' \in Int
      BY <1>0, <2>2 DEF TypeInv, NumbersOK
    <3> QED
      BY <1>0, <2>1, <2>4, <3>1, <3>2 DEF local, BoundInv
  <2> QED
    BY <2>2, <2>3, <2>5 DEF Inv, TypeInv
<1>3. ASSUME NEW p \in Proc, Measure(p)
      PROVE  Inv'
  <2> DEFINE s == samp'[p]
  <2>1. s \in SampleOf(Nat) /\ s.past = past /\ samp' = [samp EXCEPT ![p] = s]
    BY <1>0, <1>3 DEF Measure, TypeInv, NumbersOK, RunsOK, SampleOf
  <2>2. pc' = [pc EXCEPT ![p] = "sampled"] /\ pc[p] = "idle"
    BY <1>3 DEF Measure, Goto
  <2> HIDE DEF s
  <2>3. NumbersOK' /\ FileOK'
    BY <1>0, <1>3 DEF Measure, server, store, TypeInv, NumbersOK, FileOK
  <2>4. RunsOK'
    BY <1>0, <1>3, <2>1, <2>2 DEF Measure, TypeInv, RunsOK, PCs
  <2>5. OutOK' /\ SilentInv'
    BY <1>0, <1>3, <2>2, BlankIsSample DEF Measure, TypeInv, RunsOK, OutOK, SilentInv
  <2>6. LockInv'
    BY <1>0, <1>3, <2>2 DEF Measure, store, TypeInv, RunsOK, LockInv, Inside
  <2>7. BoundInv'
    BY <1>0, <1>3, <2>1, <2>2 DEF Measure, server, TypeInv, NumbersOK, RunsOK, BoundInv
  <2> QED
    BY <2>3, <2>4, <2>5, <2>6, <2>7 DEF Inv, TypeInv
<1>4. ASSUME NEW p \in Proc, TestFile(p) \/ Lock(p)
      PROVE  Inv'
  <2>1. NumbersOK' /\ FileOK'
    BY <1>0, <1>4 DEF TestFile, Lock, server, store, local, TypeInv, NumbersOK, FileOK
  <2>2. RunsOK'
    BY <1>0, <1>4 DEF TestFile, Lock, Goto, local, TypeInv, FileOK, RunsOK, PCs
  <2>3. OutOK' /\ SilentInv'
    BY <1>0, <1>4 DEF TestFile, Lock, Goto, TypeInv, RunsOK, OutOK, SilentInv
  <2>4. LockInv'
    BY <1>0, <1>4 DEF TestFile, Lock, LockFree, Goto, store, TypeInv, RunsOK, LockInv, Inside
  <2>5. BoundInv'
    BY <1>0, <1>4 DEF TestFile, Lock, Goto, server, local, TypeInv, RunsOK, BoundInv
  <2> QED
    BY <2>1, <2>2, <2>3, <2>4, <2>5 DEF Inv, TypeInv
<1>5. ASSUME NEW p \in Proc, OpenFile(p)
      PROVE  Inv'
  <2>1. rec' \in {rec, Blank} /\ exists' = TRUE /\ pc' = [pc EXCEPT ![p] = "opened"] /\ pc[p] = "tested"
    BY <1>5 DEF OpenFile, Goto
  <2>2. NumbersOK' /\ FileOK'
    BY <1>0, <1>5, <2>1, BlankIsSample DEF OpenFile, server, TypeInv, NumbersOK, FileOK
  <2>3. RunsOK'
    BY <1>0, <1>5, <2>1 DEF OpenFile, TypeInv, RunsOK, PCs
  <2>4. OutOK' /\ SilentInv'
    BY <1>0, <1>5, <2>1 DEF OpenFile, TypeInv, RunsOK, OutOK, SilentInv
  <2>5. LockInv'
    BY <1>0, <1>5, <2>1 DEF OpenFile, TypeInv, RunsOK, LockInv, Inside
  <2>6. BoundInv'
    BY <1>0, <1>5, <2>1 DEF OpenFile, server, TypeInv, RunsOK, BoundInv
  <2> QED
    BY <2>2, <2>3, <2>4, <2>5, <2>6 DEF Inv, TypeInv
<1>6. ASSUME NEW p \in Proc, Replace(p)
      PROVE  Inv'
  <2>1. /\ pc' = [pc EXCEPT ![p] = "truncated"] /\ pc[p] = "locked"
        /\ rec' = Blank /\ samp' = [samp EXCEPT ![p].ts = time] /\ last' = [last EXCEPT ![p] = rec]
    BY <1>6 DEF Replace, Goto
  <2>2. NumbersOK' /\ FileOK'
    BY <1>0, <1>6, <2>1, BlankIsSample DEF Replace, server, TypeInv, NumbersOK, FileOK
  <2>3. RunsOK'
    BY <1>0, <1>6, <2>1 DEF Replace, TypeInv, NumbersOK, FileOK, RunsOK, PCs, SampleOf
  <2>4. OutOK' /\ SilentInv'
    BY <1>0, <1>6, <2>1 DEF Replace, TypeInv, RunsOK, OutOK, SilentInv
  <2>5. LockInv'
    BY <1>0, <1>6, <2>1 DEF Replace, TypeInv, RunsOK, LockInv, Inside
  <2>6. BoundInv'
    BY <1>0, <1>6, <2>1 DEF Replace, server, TypeInv, NumbersOK, RunsOK, BoundInv, SampleOf
  <2> QED
    BY <2>2, <2>3, <2>4, <2>5, <2>6 DEF Inv, TypeInv
<1>7. ASSUME NEW p \in Proc, Close(p)
      PROVE  Inv'
  <2>1. /\ pc' = [pc EXCEPT ![p] = "saved"] /\ pc[p] = "truncated"
        /\ rec' = samp[p] /\ lock' = lock \ {p} /\ UNCHANGED <<found, samp, last>>
    BY <1>7 DEF Close, Goto, Line, local
  <2>2. NumbersOK' /\ FileOK'
    BY <1>0, <1>7, <2>1 DEF Close, server, TypeInv, NumbersOK, FileOK, RunsOK
  <2>3. RunsOK'
    BY <1>0, <2>1 DEF TypeInv, RunsOK, PCs
  <2>4. OutOK' /\ SilentInv'
    BY <1>0, <1>7, <2>1 DEF Close, TypeInv, RunsOK, OutOK, SilentInv
  <2>5. LockInv'
    BY <1>0, <2>1 DEF TypeInv, RunsOK, LockInv, Inside
  <2>6. BoundInv'
    BY <1>0, <1>7, <2>1 DEF Close, server, TypeInv, RunsOK, BoundInv
  <2> QED
    BY <2>2, <2>3, <2>4, <2>5, <2>6 DEF Inv, TypeInv
<1>8. ASSUME NEW p \in Proc, Unanswered(p) \/ LockBusy(p) \/ Timeout(p) \/ Kill(p)
      PROVE  Inv'
  <2>1. PICK r \in Results : r.rate >= -2 /\ Die(p, r)
    <3>1. {"CRITICAL", "UNKNOWN"} \subseteq Statuses
      BY DEF Statuses
    <3> QED
      BY <1>8, <3>1, EndsIsResult, BlankIsSample DEF Unanswered, LockBusy, Timeout, Kill, Unrated
  <2>2. pc[p] # "idle" /\ claimed' = claimed
    BY <1>8 DEF Unanswered, LockBusy, Timeout, Kill
  <2>3. claimed' \in Nat
    BY <1>0, <2>2 DEF TypeInv, NumbersOK
  <2>4. UNCHANGED <<time, server, exists, overlapped>>
    BY <1>8 DEF Unanswered, LockBusy, Timeout, Kill
  <2>5. rec' = rec \/ (pc[p] = "truncated" /\ rec' = Line(p))
    BY <1>8 DEF Unanswered, LockBusy, Timeout, Kill
  <2> QED
    BY <2>1, <2>2, <2>3, <2>4, <2>5, EndInv
<1>9. ASSUME NEW p \in Proc, Finish(p)
      PROVE  Inv'
  <2>1. PICK health \in Health : Die(p, Result(p, health))
    BY <1>9 DEF Finish
  <2>2. Result(p, health) \in Results /\ Result(p, health).rate >= -2
    BY <1>0, ResultType
  <2>3. claimed' \in Nat
    BY <1>0, <1>9 DEF Finish, TypeInv, NumbersOK, RunsOK, SampleOf, Total
  <2>4. pc[p] # "idle" /\ UNCHANGED <<time, server, exists, overlapped>> /\ rec' = rec
    BY <1>9 DEF Finish
  <2>5. PICK r \in Results : r.rate >= -2 /\ Die(p, r)
    BY <2>1, <2>2
  <2> QED
    BY <2>3, <2>4, <2>5, EndInv
<1> QED
  BY <1>1, <1>2, <1>3, <1>4, <1>5, <1>6, <1>7, <1>8, <1>9 DEF Next, Run

\* Inv holds in every reachable state.
LEMMA Invariance == Spec => []Inv
<1>1. Init => Inv
  <2> SUFFICES ASSUME Init PROVE Inv
    OBVIOUS
  <2> USE ConstantsAssumption, BlankIsSample DEF Init
  <2>1. NumbersOK /\ FileOK
    <3>1. exists \in BOOLEAN /\ overlapped \in BOOLEAN
      OBVIOUS
    <3> QED
      BY <3>1 DEF NumbersOK, FileOK
  <2>2. RunsOK
    BY DEF RunsOK, PCs
  <2>3. OutOK /\ SilentInv
    BY DEF OutOK, SilentInv
  <2>4. LockInv
    BY DEF LockInv, Inside
  <2>5. BoundInv
    BY DEF BoundInv, Blank
  <2> QED
    BY <2>1, <2>2, <2>3, <2>4, <2>5 DEF Inv, TypeInv
<1> QED
  BY <1>1, InvStep, PTL DEF Spec

\* Every variable keeps its type (ZooKeeperState), for every set of runs and
\* every bound; the result of a run is one of the four states, with a rate that
\* is never negative.
THEOREM ZooKeeperTypeCorrect == Spec => []TypeOK
<1>1. Inv => TypeOK
  BY DEF Inv, TypeInv, NumbersOK, FileOK, RunsOK, OutOK, Results, TypeOK
<1> QED
  BY <1>1, Invariance, PTL

-----------------------------------------------------------------------------
(* Runs that do not overlap report no packet twice *)

\* A rate is relative to a line that could be parsed.
LEMMA RatedBase == ASSUME NEW b, NEW s, Rated(b, s) PROVE b.ts # 0
BY DEF Rated, Secs

\* Once two runs have overlapped, they have.
LEMMA OverlapStays == [Next]_vars /\ overlapped => overlapped'
BY DEF Next, Run, vars, Clock, Packet, Restart, Measure, Unanswered, TestFile, OpenFile, Lock, LockBusy,
       Replace, Close, Finish, Timeout, Kill

\* The inductive step of ClaimInv, on top of Inv.
LEMMA ClaimStep == ~overlapped' /\ Inv /\ ClaimInv /\ [Next]_vars => ClaimInv'
<1> SUFFICES ASSUME ~overlapped', Inv, ClaimInv, [Next]_vars
             PROVE  ClaimInv'
  OBVIOUS
<1> USE DEF Total
<1>0. /\ packets \in Nat /\ past \in Nat /\ claimed \in Nat /\ rec \in SampleOf(Nat) /\ RunsOK
      /\ Blank \in SampleOf(Nat) /\ Blank.ts = 0
  BY BlankIsSample, ConstantsAssumption DEF Inv, TypeInv, NumbersOK, FileOK, Blank
<1>s. \A s \in SampleOf(Nat) : s.ts \in Nat /\ s.packets \in Nat /\ s.past \in Nat
  BY ConstantsAssumption DEF SampleOf
<1>r. \A p \in Proc : samp[p] \in SampleOf(Nat) /\ last[p] \in SampleOf(Nat)
  BY <1>0 DEF RunsOK
<1>1. CASE UNCHANGED vars
  BY <1>1 DEF vars, server, store, local, ClaimInv
<1>2. CASE Clock \/ Packet \/ Restart
  <2>1. past' + packets' \in Nat /\ past + packets <= past' + packets' /\ UNCHANGED <<store, pc, local, claimed>>
    BY <1>0, <1>2 DEF Clock, Packet, Restart, server
  <2>2. /\ claimed' <= past' + packets'
        /\ \A p \in Proc : pc[p] # "idle" => Total(samp[p]) <= past' + packets'
    BY <1>0, <1>s, <1>r, <2>1 DEF ClaimInv
  <2> QED
    BY <2>1, <2>2 DEF store, local, ClaimInv
<1>3. ASSUME NEW p \in Proc, Measure(p)
      PROVE  ClaimInv'
  <2>1. pc' = [pc EXCEPT ![p] = "sampled"] /\ \A q \in Proc : pc[q] = "idle"
    BY <1>3 DEF Measure, Goto
  <2>2. \A q \in Proc : pc'[q] # "idle" => q = p /\ pc'[q] = "sampled"
    BY <1>0, <2>1 DEF RunsOK
  <2>3. Total(samp'[p]) = past + packets
    BY <1>0, <1>3 DEF Measure, RunsOK
  <2> QED
    BY <1>0, <1>3, <2>2, <2>3 DEF Measure, server, store, ClaimInv
<1>4. ASSUME NEW p \in Proc, TestFile(p) \/ OpenFile(p) \/ Lock(p)
      PROVE  ClaimInv'
  <2>1. /\ \A q \in Proc : pc'[q] # "idle" => q = p
        /\ pc[p] # "idle" /\ pc'[p] \notin {"idle", "truncated", "saved"}
    BY <1>0, <1>4 DEF TestFile, OpenFile, Lock, Goto, RunsOK, ClaimInv
  <2>2. rec' \in {rec, Blank} /\ UNCHANGED <<past, packets, claimed, samp>>
    BY <1>4 DEF TestFile, OpenFile, Lock, server, store, local
  <2> QED
    BY <1>0, <2>1, <2>2 DEF ClaimInv
<1>5. ASSUME NEW p \in Proc, Replace(p)
      PROVE  ClaimInv'
  <2>1. /\ \A q \in Proc : pc'[q] # "idle" => q = p
        /\ pc[p] # "idle" /\ pc'[p] = "truncated" /\ rec' = Blank /\ last'[p] = rec
        /\ Total(samp'[p]) = Total(samp[p])
    BY <1>0, <1>r, <1>5 DEF Replace, Goto, RunsOK, ClaimInv, SampleOf
  <2>2. UNCHANGED <<past, packets, claimed>>
    BY <1>5 DEF Replace, server
  <2> QED
    BY <1>0, <2>1, <2>2 DEF ClaimInv
<1>6. ASSUME NEW p \in Proc, Close(p)
      PROVE  ClaimInv'
  <2>1. /\ \A q \in Proc : pc'[q] # "idle" => q = p
        /\ pc[p] = "truncated" /\ pc'[p] = "saved" /\ rec' = samp[p]
    BY <1>0, <1>6 DEF Close, Goto, Line, RunsOK, ClaimInv
  <2>2. UNCHANGED <<past, packets, claimed, samp, last>>
    BY <1>6 DEF Close, server, local
  <2> QED
    BY <1>0, <1>s, <1>r, <2>1, <2>2 DEF ClaimInv
<1>7. ASSUME NEW p \in Proc, Unanswered(p) \/ LockBusy(p) \/ Timeout(p) \/ Kill(p)
      PROVE  ClaimInv'
  <2>1. UNCHANGED <<past, packets, claimed>> /\ pc[p] # "idle" /\ rec' \in {rec, samp[p]}
    BY <1>7 DEF Unanswered, LockBusy, Timeout, Kill, server, Line
  <2>2. \A q \in Proc : pc'[q] = "idle"
    BY <1>0, <1>7, <2>1 DEF Unanswered, LockBusy, Timeout, Kill, Die, RunsOK, ClaimInv
  <2> QED
    BY <1>0, <2>1, <2>2 DEF ClaimInv
<1>8. ASSUME NEW p \in Proc, Finish(p)
      PROVE  ClaimInv'
  <2>1. UNCHANGED <<past, packets, rec>> /\ pc[p] = "saved" /\ claimed' \in {claimed, Total(samp[p])}
    BY <1>8 DEF Finish, server
  <2>2. \A q \in Proc : pc'[q] = "idle"
    BY <1>0, <1>8, <2>1 DEF Finish, Die, RunsOK, ClaimInv
  <2> QED
    BY <1>0, <2>1, <2>2 DEF ClaimInv
<1> QED
  BY <1>1, <1>2, <1>3, <1>4, <1>5, <1>6, <1>7, <1>8 DEF Next, Run

\* As long as no two runs of check_zookeeper.pl have overlapped no packet is in
\* two reported rates, for any number of kills, timeouts, clock steps and
\* restarts of the server.
THEOREM PacketsReportedOnce == Spec => []ClaimsAreDisjoint
<1>1. Init => ApartInv
  <2>1. Init => Blank.ts = 0 /\ rec = Blank
    BY DEF Init, Blank
  <2> QED
    BY <2>1 DEF Init, ApartInv, ClaimInv
<1>2. Inv /\ ApartInv /\ [Next]_vars => ApartInv'
  BY ClaimStep, OverlapStays DEF ApartInv
<1>3. ApartInv => ClaimsAreDisjoint
  BY RatedBase DEF ApartInv, ClaimInv, ClaimsAreDisjoint
<1> QED
  BY <1>1, <1>2, <1>3, Invariance, PTL DEF Spec

-----------------------------------------------------------------------------
(* The state file implements RateCheck *)

ASamples == [ts : 1..MaxTime, packets : 0..MaxPackets, backlog : 0..MaxBacklog,
             past : 0..(MaxPackets * MaxRestarts)]

\* A stamped sample is one of those of the abstract check.
LEMMA StampedIsSample ==
    ASSUME Inv, NEW p \in Proc, pc[p] \in {"truncated", "saved"}
    PROVE  samp[p] \in ASamples
<1> USE ConstantsAssumption
<1>1. /\ samp[p] \in SampleOf(Nat) /\ samp[p].ts \in 1..MaxTime /\ samp[p].past <= past
      /\ past <= MaxPackets * restarts /\ restarts \in 0..MaxRestarts /\ past \in Nat
  BY DEF Inv, TypeInv, NumbersOK, RunsOK, BoundInv
<1>2. \A m, r, s \in Nat : r <= s => m * r <= m * s
  <2> SUFFICES ASSUME NEW m \in Nat, NEW r \in Nat, NEW s \in Nat, r <= s
               PROVE  m * r <= m * s
    OBVIOUS
  <2>1. PICK d \in Nat : s = r + d
    <3>1. s - r \in Nat /\ s = r + (s - r)
      OBVIOUS
    <3> QED
      BY <3>1
  <2>2. m * s = m * r + m * d /\ m * d >= 0 /\ m * r \in Int /\ m * d \in Int
    BY <2>1
  <2> QED
    BY <2>2
<1>3. MaxPackets * restarts <= MaxPackets * MaxRestarts
  BY <1>1, <1>2
<1>4. MaxPackets * restarts \in Int /\ MaxPackets * MaxRestarts \in Int
  BY <1>1
<1>5. samp[p].past \in 0..(MaxPackets * MaxRestarts)
  <2>1. samp[p].past \in Nat
    BY <1>1 DEF SampleOf
  <2> QED
    BY <1>1, <1>3, <1>4, <2>1
<1> QED
  BY <1>1, <1>5 DEF SampleOf, ASamples

\* The next base is what the run that has truncated the file has read.
LEMMA BaseIs ==
    ASSUME LockInv
    PROVE  /\ \A p \in Proc : pc[p] = "truncated" => NextBase = last[p]
           /\ (\A p \in Proc : pc[p] # "truncated") => NextBase = rec
<1>1. ASSUME NEW p \in Proc, pc[p] = "truncated"
      PROVE  NextBase = last[p]
  <2>1. \A q \in Proc : pc[q] = "truncated" => q = p
    BY <1>1 DEF LockInv, Inside
  <2>2. (CHOOSE q \in Proc : pc[q] = "truncated") = p
    BY <1>1, <2>1
  <2> QED
    BY <1>1, <2>2 DEF NextBase
<1> QED
  BY <1>1 DEF NextBase

\* The same in the next state.
LEMMA BaseWillBe ==
    ASSUME LockInv'
    PROVE  /\ \A p \in Proc : pc'[p] = "truncated" => NextBase' = last'[p]
           /\ (\A p \in Proc : pc'[p] # "truncated") => NextBase' = rec'
<1>1. ASSUME NEW p \in Proc, pc'[p] = "truncated"
      PROVE  NextBase' = last'[p]
  <2>1. \A q \in Proc : pc'[q] = "truncated" => q = p
    BY <1>1 DEF LockInv, Inside
  <2>2. (CHOOSE q \in Proc : pc'[q] = "truncated") = p
    BY <1>1, <2>1
  <2> QED
    BY <1>1, <2>2 DEF NextBase
<1> QED
  BY <1>1 DEF NextBase

\* A step that moves no run to or from its truncated file, and leaves the file
\* as it is unless it is that run's, keeps the next base.
LEMMA BaseKept ==
    ASSUME LockInv, LockInv',
           \A q \in Proc : pc[q] = "truncated" \/ pc'[q] = "truncated" =>
               pc'[q] = pc[q] /\ last'[q] = last[q],
           rec' = rec \/ \E q \in Proc : pc[q] = "truncated"
    PROVE  NextBase' = NextBase
<1>1. CASE \E q \in Proc : pc[q] = "truncated"
  BY <1>1, BaseIs, BaseWillBe
<1>2. CASE \A q \in Proc : pc[q] # "truncated"
  BY <1>2, BaseIs, BaseWillBe
<1> QED
  BY <1>1, <1>2

\* What is in the file is the next base, or nothing.
LEMMA FileIsBase == ASSUME LockInv PROVE rec \in {NextBase, Blank}
<1>1. CASE \E q \in Proc : pc[q] = "truncated"
  BY <1>1 DEF LockInv
<1>2. CASE \A q \in Proc : pc[q] # "truncated"
  BY <1>2, BaseIs
<1> QED
  BY <1>1, <1>2

\* A run that ends settles on what it prints, and leaves the base alone unless
\* it had truncated the file.
LEMMA EndSettles ==
    ASSUME Inv, Inv', NEW p \in Proc, NEW r \in Results, Die(p, r),
           pc[p] # "truncated" => rec' = rec
    PROVE  /\ Settled' = [Settled EXCEPT ![p] = r.rate]
           /\ pc[p] # "truncated" => NextBase' = NextBase
           /\ pc[p] = "truncated" => NextBase' = rec'
<1>0. RunsOK /\ OutOK /\ LockInv /\ LockInv'
  BY DEF Inv, TypeInv
<1>1. Settled' = [Settled EXCEPT ![p] = r.rate]
  <2>1. \A q \in Proc : Settled'[q] = IF q = p THEN r.rate ELSE Settled[q]
    BY <1>0 DEF Settled, Die, RunsOK, OutOK
  <2>2. /\ DOMAIN Settled = Proc /\ Settled = [q \in Proc |-> Settled[q]]
        /\ DOMAIN Settled' = Proc /\ Settled' = [q \in Proc |-> Settled'[q]]
    BY DEF Settled
  <2> QED
    BY <2>1, <2>2
<1>2. /\ \A q \in Proc \ {p} : pc'[q] = pc[q] /\ last'[q] = last[q]
      /\ pc'[p] = "idle"
  BY <1>0 DEF Die, RunsOK
<1>3. ASSUME pc[p] # "truncated" PROVE NextBase' = NextBase
  BY <1>0, <1>2, <1>3, BaseKept
<1>4. ASSUME pc[p] = "truncated" PROVE NextBase' = rec'
  <2>1. \A q \in Proc : pc'[q] # "truncated"
    BY <1>0, <1>2, <1>4 DEF LockInv, Inside
  <2> QED
    BY <1>0, <2>1, BaseWillBe
<1> QED
  BY <1>1, <1>3, <1>4

\* Every step of the program is a step of the abstract check, or a stutter: a run
\* reports when it closes the file, not when it prints.
LEMMA AbstractStep == Inv /\ Inv' /\ [Next]_vars => [Abstract!Next]_(Abstract!avars)
<1> SUFFICES ASSUME Inv, Inv', [Next]_vars
             PROVE  Abstract!Next \/ (NextBase' = NextBase /\ Settled' = Settled)
  BY DEF Abstract!avars
<1>0. RunsOK /\ OutOK /\ LockInv /\ LockInv' /\ SilentInv /\ NoResult.rate = -2
  BY BlankIsSample DEF Inv, TypeInv
<1>1. CASE UNCHANGED vars
  BY <1>1 DEF vars, store, local, NextBase, Settled
<1>2. CASE Clock \/ Packet \/ Restart
  BY <1>2 DEF Clock, Packet, Restart, store, local, NextBase, Settled
<1>3. ASSUME NEW p \in Proc, Measure(p)
      PROVE  Abstract!Next
  <2>1. /\ pc' = [pc EXCEPT ![p] = "sampled"] /\ pc[p] = "idle" /\ out' = [out EXCEPT ![p] = NoResult]
        /\ rec' = rec /\ last' = last /\ \A q \in Proc \ {p} : samp'[q] = samp[q]
    BY <1>0, <1>3 DEF Measure, Goto, store, RunsOK
  <2>2. NextBase' = NextBase
    BY <1>0, <2>1, BaseKept DEF RunsOK
  <2>3. \A q \in Proc : Settled'[q] = IF q = p THEN NoResult.rate ELSE Settled[q]
    BY <1>0, <2>1 DEF Settled, RunsOK, OutOK
  <2>4. Settled' = [Settled EXCEPT ![p] = NoResult.rate]
    BY <2>3 DEF Settled
  <2> QED
    BY <2>2, <2>4 DEF Abstract!Next, Abstract!Start
<1>4. ASSUME NEW p \in Proc, TestFile(p) \/ Lock(p)
      PROVE  NextBase' = NextBase /\ Settled' = Settled
  <2>1. /\ pc[p] \in {"sampled", "opened"} /\ \E to \in {"tested", "locked"} : pc' = [pc EXCEPT ![p] = to]
        /\ rec' = rec /\ last' = last /\ samp' = samp /\ out' = out
    BY <1>4 DEF TestFile, Lock, Goto, store, local
  <2>2. NextBase' = NextBase
    BY <1>0, <2>1, BaseKept DEF RunsOK
  <2> QED
    BY <1>0, <2>1, <2>2 DEF Settled, RunsOK
<1>5. ASSUME NEW p \in Proc, OpenFile(p)
      PROVE  Abstract!Next \/ (NextBase' = NextBase /\ Settled' = Settled)
  <2>1. /\ pc[p] = "tested" /\ pc' = [pc EXCEPT ![p] = "opened"] /\ rec' \in {rec, Blank}
        /\ last' = last /\ samp' = samp /\ out' = out
    BY <1>5 DEF OpenFile, Goto
  <2>2. Settled' = Settled
    BY <1>0, <2>1 DEF Settled, RunsOK
  <2>3. CASE rec' = rec \/ \E q \in Proc : pc[q] = "truncated"
    BY <1>0, <2>1, <2>2, <2>3, BaseKept DEF RunsOK
  <2>4. CASE rec' = Blank /\ \A q \in Proc : pc[q] # "truncated"
    <3>1. NextBase' = Blank
      BY <1>0, <2>1, <2>4, BaseWillBe DEF RunsOK
    <3> QED
      BY <2>2, <3>1 DEF Abstract!Next, Abstract!Lose
  <2> QED
    BY <2>1, <2>3, <2>4
<1>6. ASSUME NEW p \in Proc, Replace(p)
      PROVE  NextBase' = NextBase /\ Settled' = Settled
  <2>1. /\ pc[p] = "locked" /\ pc' = [pc EXCEPT ![p] = "truncated"]
        /\ last' = [last EXCEPT ![p] = rec] /\ out' = out
        /\ \A q \in Proc \ {p} : samp'[q] = samp[q]
    BY <1>0, <1>6 DEF Replace, Goto, RunsOK
  <2>2. NextBase = rec
    BY <1>0, <2>1, BaseIs DEF LockInv, Inside
  <2>3. NextBase' = rec
    BY <1>0, <2>1, BaseWillBe DEF RunsOK
  <2>4. \A q \in Proc : Settled'[q] = Settled[q]
    BY <1>0, <2>1 DEF Settled, RunsOK
  <2> QED
    BY <2>2, <2>3, <2>4 DEF Settled
<1>7. ASSUME NEW p \in Proc, Close(p)
      PROVE  Abstract!Next
  <2>1. /\ pc[p] = "truncated" /\ pc' = [pc EXCEPT ![p] = "saved"] /\ rec' = samp[p]
        /\ last' = last /\ samp' = samp /\ out' = out
    BY <1>7 DEF Close, Goto, Line, local
  <2>2. NextBase = last[p]
    BY <1>0, <2>1, BaseIs
  <2>3. NextBase' = samp[p]
    <3>1. \A q \in Proc : pc'[q] # "truncated"
      BY <1>0, <2>1 DEF LockInv, Inside, RunsOK
    <3> QED
      BY <1>0, <2>1, <3>1, BaseWillBe
  <2>4. \A q \in Proc : Settled'[q] = IF q = p THEN Judge(NextBase, samp[p]) ELSE Settled[q]
    BY <1>0, <2>1, <2>2 DEF Settled, RunsOK
  <2>5. Settled' = [Settled EXCEPT ![p] = Judge(NextBase, samp[p])]
    BY <2>4 DEF Settled
  <2>6. samp[p] \in ASamples
    BY <2>1, StampedIsSample
  <2> QED
    BY <2>3, <2>5, <2>6 DEF Abstract!Next, Abstract!Report, ASamples
<1>8. ASSUME NEW p \in Proc, Unanswered(p) \/ LockBusy(p)
      PROVE  Abstract!Next
  <2>1. pc[p] # "truncated" /\ rec' = rec
    BY <1>8 DEF Unanswered, LockBusy
  <2>2. PICK r \in Results : r.rate = Unrated /\ Die(p, r)
    <3>1. {"CRITICAL", "UNKNOWN"} \subseteq Statuses
      BY DEF Statuses
    <3> QED
      BY <1>8, <3>1, EndsIsResult DEF Unanswered, LockBusy
  <2>3. NextBase' = NextBase /\ Settled' = [Settled EXCEPT ![p] = Unrated]
    BY <2>1, <2>2, EndSettles
  <2> QED
    BY <2>3 DEF Abstract!Next, Abstract!GiveUp
<1>9. ASSUME NEW p \in Proc, Finish(p)
      PROVE  NextBase' = NextBase /\ Settled' = Settled
  <2>1. PICK health \in Health : Die(p, Result(p, health))
    BY <1>9 DEF Finish
  <2>2. pc[p] = "saved" /\ rec' = rec
    BY <1>9 DEF Finish
  <2>3. Result(p, health) \in Results /\ Result(p, health).rate = Judge(last[p], samp[p])
    BY ResultType DEF Inv, Result
  <2>4. PICK r \in Results : r.rate = Judge(last[p], samp[p]) /\ Die(p, r)
    BY <2>1, <2>3
  <2>5. NextBase' = NextBase /\ Settled' = [Settled EXCEPT ![p] = r.rate]
    BY <2>2, <2>4, EndSettles
  <2>6. Settled[p] = r.rate
    BY <2>2, <2>4 DEF Settled
  <2> QED
    BY <2>5, <2>6 DEF Settled
<1>10. ASSUME NEW p \in Proc, Timeout(p)
       PROVE  Abstract!Next
  <2>1. PICK r \in Results : r.rate = Unrated /\ Die(p, r)
    <3>1. "UNKNOWN" \in Statuses
      BY DEF Statuses
    <3> QED
      BY <1>10, <3>1, EndsIsResult DEF Timeout
  <2>2. rec' = rec \/ (pc[p] = "truncated" /\ rec' = samp[p])
    BY <1>10 DEF Timeout, Line
  <2>3. Settled' = [Settled EXCEPT ![p] = Unrated]
    BY <2>1, <2>2, EndSettles
  <2>4. NextBase' \in {NextBase, Blank} \cup ASamples
    BY <1>0, <2>1, <2>2, EndSettles, FileIsBase, StampedIsSample
  <2> QED
    BY <2>3, <2>4 DEF Abstract!Next, Abstract!GiveUp, ASamples
<1>11. ASSUME NEW p \in Proc, Kill(p)
       PROVE  Abstract!Next \/ (NextBase' = NextBase /\ Settled' = Settled)
  <2>1. PICK r \in Results : r.rate = NoResult.rate /\ Die(p, r)
    BY <1>11, BlankIsSample DEF Kill
  <2>2. rec' = rec /\ pc[p] # "idle"
    BY <1>11 DEF Kill
  <2>3. Settled' = [Settled EXCEPT ![p] = NoResult.rate]
    BY <2>1, <2>2, EndSettles
  <2>4. CASE pc[p] # "truncated"
    <3>1. NextBase' = NextBase
      BY <2>1, <2>2, <2>4, EndSettles
    <3> QED
      BY <2>3, <3>1 DEF Abstract!Next, Abstract!Start
  <2>5. CASE pc[p] = "truncated"
    <3>1. NextBase' = Blank
      BY <1>0, <2>1, <2>2, <2>5, EndSettles DEF LockInv
    <3>2. Settled[p] = NoResult.rate
      BY <1>0, <2>5 DEF Settled, SilentInv
    <3>3. Settled' = Settled
      BY <2>3, <3>2 DEF Settled
    <3> QED
      BY <3>1, <3>3 DEF Abstract!Next, Abstract!Lose
  <2> QED
    BY <2>4, <2>5
<1> QED
  BY <1>1, <1>2, <1>3, <1>4, <1>5, <1>6, <1>7, <1>8, <1>9, <1>10, <1>11 DEF Next, Run

\* Overlapping runs of check_zookeeper.pl are serialised, for every set of runs
\* and every bound, although the file is free again before a run has judged.
THEOREM ZooKeeperRefinement == Spec => Serialised
<1>1. Init => Abstract!Init
  <2> SUFFICES ASSUME Init PROVE Abstract!Init
    OBVIOUS
  <2>1. NextBase = Blank /\ Settled = [p \in Proc |-> NoResult.rate]
    BY DEF Init, NextBase, Settled
  <2> QED
    BY <2>1 DEF Abstract!Init
<1> QED
  BY <1>1, AbstractStep, Invariance, PTL DEF Spec, Serialised, Abstract!Spec
=============================================================================
