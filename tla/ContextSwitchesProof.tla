------------------------ MODULE ContextSwitchesProof ------------------------
(* Proofs about ContextSwitches, for any number of runs and any bounds. *)
EXTENDS ContextSwitches, TLAPS

\* The lock is held by the runs that are inside, and by one at most.
LockInv ==
    /\ lock = {p \in Proc : pc[p] \in Inside}
    /\ \A p, q \in lock : p = q

\* A run that has truncated the state file finds it empty until it exits.
EmptyInv == \A p \in Proc : pc[p] \in {"truncated", "reported"} => rec = Blank

\* Samples are never from a later boot than the present one, and a living run's
\* own sample is from this very boot.
PastInv ==
    /\ rec.past <= past
    /\ \A p \in Proc : /\ last[p].past <= past
                       /\ pc[p] # "idle" => samp[p].past = past

Inv == TypeOK /\ LockInv /\ EmptyInv /\ PastInv

-----------------------------------------------------------------------------

\* A judged result is one of the plugin's statuses and an integer.
LEMMA JudgeType ==
    ASSUME NEW b \in Sample, NEW s \in Sample
    PROVE  Judge(b, s) \in [status : Statuses \cup {"NONE"}, rate : Int]
<1>1. \A n \in Int, d \in Int : d > 0 => Round(n, d) \in Int
  BY DEF Round
<1>2. \A v \in Int : UpperThreshold(v, Warn, Crit) \in Statuses
  BY ConstantsAssumption DEF UpperThreshold, Statuses
<1>3. Base(b, s) \in Sample
  BY DEF Base
<1>4. Switches(b, s) \in Int /\ Secs(b, s) \in Int
  BY <1>3 DEF Switches, Secs, Sample
<1>5. CASE Rated(b, s)
  <2> DEFINE r == Round(Switches(b, s), Secs(b, s))
  <2>1. r \in Int
    BY <1>1, <1>4, <1>5 DEF Rated
  <2>2. UpperThreshold(r, Warn, Crit) \in Statuses
    BY <1>2, <2>1
  <2>3. Judge(b, s) = [status |-> UpperThreshold(r, Warn, Crit), rate |-> r]
    BY <1>5 DEF Judge
  <2> QED
    BY <2>1, <2>2, <2>3
<1>6. CASE ~Rated(b, s)
  BY <1>6 DEF Judge, Unknown, Statuses
<1> QED
  BY <1>5, <1>6

\* A process that ends keeps the types and the bookkeeping of the lock.
LEMMA DieInv ==
    ASSUME Inv, NEW p \in Proc, pc[p] # "idle", Die(p)
    PROVE  /\ pc' \in [Proc -> PCs]
           /\ mode' \in [Proc -> {"+<", "+>"}]
           /\ samp' \in [Proc -> Sample]
           /\ now' \in [Proc -> Nat]
           /\ last' \in [Proc -> Sample]
           /\ lock' \subseteq Proc
           /\ LockInv'
BY DEF Inv, TypeOK, LockInv, Die, Blank, Sample, PCs, Inside

\* The inductive step of the invariant, one case per action.
LEMMA InvStep == Inv /\ [Next]_vars => Inv'
<1> SUFFICES ASSUME Inv, [Next]_vars
             PROVE  Inv'
  OBVIOUS
<1> USE ConstantsAssumption DEF Inv
<1>1. CASE UNCHANGED vars
  BY <1>1 DEF vars, TypeOK, LockInv, EmptyInv, PastInv
<1>2. CASE Tick \/ StepBack \/ Switch
  <2>1. TypeOK'
    BY <1>2 DEF Tick, StepBack, Switch, store, local, TypeOK
  <2> QED
    BY <1>2, <2>1 DEF Tick, StepBack, Switch, store, local, LockInv, EmptyInv, PastInv
<1>3. CASE Reboot
  <2>1. TypeOK'
    <3>1. Blank \in Sample
      BY DEF Blank, Sample
    <3>2. past' \in Nat /\ ctxt' \in Nat \ {0} /\ time' \in Nat
      BY <1>3 DEF Reboot, TypeOK
    <3>3. exists' \in BOOLEAN /\ rec' \in Sample
      BY <1>3, <3>1 DEF Reboot, TypeOK
    <3>4. /\ pc' \in [Proc -> PCs] /\ mode' \in [Proc -> {"+<", "+>"}]
          /\ samp' \in [Proc -> Sample] /\ now' \in [Proc -> Nat]
          /\ last' \in [Proc -> Sample] /\ lock' \subseteq Proc
      BY <1>3, <3>1 DEF Reboot, PCs
    <3> QED
      BY <1>3, <3>2, <3>3, <3>4 DEF Reboot, TypeOK
  <2>2. LockInv' /\ EmptyInv'
    BY <1>3 DEF Reboot, LockInv, EmptyInv, Inside, TypeOK
  <2>3. PastInv'
    BY <1>3 DEF Reboot, PastInv, Blank, TypeOK, Sample
  <2> QED
    BY <2>1, <2>2, <2>3
<1>4. ASSUME NEW p \in Proc, ReadStat(p)
      PROVE  Inv'
  <2>1. TypeOK'
    BY <1>4 DEF ReadStat, Goto, env, store, TypeOK, Sample, PCs, NoResult
  <2>2. LockInv'
    BY <1>4 DEF ReadStat, Goto, store, LockInv, Inside, TypeOK
  <2>3. EmptyInv' /\ PastInv'
    BY <1>4 DEF ReadStat, Goto, env, store, EmptyInv, PastInv, TypeOK
  <2> QED
    BY <2>1, <2>2, <2>3
<1>5. ASSUME NEW p \in Proc, TestFile(p)
      PROVE  Inv'
  <2>1. TypeOK'
    BY <1>5 DEF TestFile, Goto, env, store, TypeOK, PCs
  <2>2. LockInv'
    BY <1>5 DEF TestFile, Goto, store, LockInv, Inside, TypeOK
  <2>3. EmptyInv' /\ PastInv'
    BY <1>5 DEF TestFile, Goto, env, store, EmptyInv, PastInv, TypeOK
  <2> QED
    BY <2>1, <2>2, <2>3
<1>6. ASSUME NEW p \in Proc, OpenFile(p)
      PROVE  Inv'
  <2>1. TypeOK'
    BY <1>6 DEF OpenFile, Goto, env, local, TypeOK, PCs, Blank, Sample
  <2>2. LockInv'
    BY <1>6 DEF OpenFile, Goto, LockInv, Inside, TypeOK
  <2>3. EmptyInv' /\ PastInv'
    BY <1>6 DEF OpenFile, Goto, env, local, EmptyInv, PastInv, TypeOK, Blank
  <2> QED
    BY <2>1, <2>2, <2>3
<1>7. ASSUME NEW p \in Proc, Lock(p)
      PROVE  Inv'
  <2>1. TypeOK'
    BY <1>7 DEF Lock, Goto, env, local, TypeOK, PCs
  <2>2. LockInv'
    BY <1>7 DEF Lock, LockFree, Goto, LockInv, Inside, TypeOK
  <2>3. EmptyInv' /\ PastInv'
    BY <1>7 DEF Lock, Goto, env, local, EmptyInv, PastInv, TypeOK
  <2> QED
    BY <2>1, <2>2, <2>3
<1>8. ASSUME NEW p \in Proc, LockBusy(p)
      PROVE  Inv'
  <2>1. pc[p] # "idle" /\ Die(p)
    BY <1>8 DEF LockBusy
  <2>2. LockInv'
    BY <2>1, DieInv
  <2>3. TypeOK'
    BY <1>8, <2>1, DieInv DEF LockBusy, env, TypeOK, Unknown, Statuses
  <2>4. EmptyInv' /\ PastInv'
    BY <1>8 DEF LockBusy, Die, env, EmptyInv, PastInv, TypeOK, Blank
  <2> QED
    BY <2>2, <2>3, <2>4
<1>9. ASSUME NEW p \in Proc, ReadState(p)
      PROVE  Inv'
  <2>1. TypeOK'
    BY <1>9 DEF ReadState, Goto, env, store, TypeOK, PCs
  <2>2. LockInv'
    BY <1>9 DEF ReadState, Goto, store, LockInv, Inside, TypeOK
  <2>3. EmptyInv' /\ PastInv'
    BY <1>9 DEF ReadState, Goto, env, store, EmptyInv, PastInv, TypeOK
  <2> QED
    BY <2>1, <2>2, <2>3
<1>10. ASSUME NEW p \in Proc, Truncate(p)
       PROVE  Inv'
  <2>1. TypeOK'
    BY <1>10 DEF Truncate, Goto, env, local, TypeOK, PCs, Blank, Sample
  <2>2. LockInv'
    BY <1>10 DEF Truncate, Goto, LockInv, Inside, TypeOK
  <2>3. EmptyInv' /\ PastInv'
    BY <1>10 DEF Truncate, Goto, env, local, EmptyInv, PastInv, TypeOK, Blank
  <2> QED
    BY <2>1, <2>2, <2>3
<1>11. ASSUME NEW p \in Proc, Report(p)
       PROVE  Inv'
  <2>1. Pending(p) \in Sample
    BY DEF Pending, TypeOK, Sample
  <2>2. Judge(last[p], Pending(p)) \in [status : Statuses \cup {"NONE"}, rate : Int]
    BY <2>1, JudgeType DEF TypeOK
  <2>3. claimed' \in Nat
    BY <1>11 DEF Report, TypeOK, Total, Sample
  <2>4. TypeOK'
    BY <1>11, <2>2, <2>3 DEF Report, Goto, env, store, local, TypeOK, PCs
  <2>5. LockInv'
    BY <1>11 DEF Report, Goto, store, LockInv, Inside, TypeOK
  <2>6. EmptyInv' /\ PastInv'
    BY <1>11 DEF Report, Goto, env, store, local, EmptyInv, PastInv, TypeOK
  <2> QED
    BY <2>4, <2>5, <2>6
<1>12. ASSUME NEW p \in Proc, Exit(p) \/ Timeout(p) \/ Kill(p)
       PROVE  Inv'
  <2>1. pc[p] # "idle" /\ Die(p)
    BY <1>12 DEF Exit, Timeout, Kill
  <2>2. LockInv'
    BY <2>1, DieInv
  <2>3. Pending(p) \in Sample /\ Pending(p).past = past
    BY <2>1 DEF Pending, TypeOK, Sample, PastInv
  <2>4. TypeOK'
    <3>1. rec' \in Sample /\ exists' \in BOOLEAN
      BY <1>12, <2>3 DEF Exit, Timeout, Kill, TypeOK
    <3>2. out' \in [Proc -> [status : Statuses \cup {"NONE"}, rate : Int]]
      BY <1>12 DEF Exit, Timeout, Kill, TypeOK, Unknown, Statuses
    <3> QED
      BY <1>12, <2>1, <3>1, <3>2, DieInv DEF Exit, Timeout, Kill, env, TypeOK
  \* Only the run that is inside may have printed, so no other finds its line.
  <2>5. EmptyInv'
    <3>1. SUFFICES ASSUME NEW q \in Proc, pc'[q] \in {"truncated", "reported"}
                   PROVE  rec' = Blank
      BY DEF EmptyInv
    <3>2. q # p /\ pc[q] \in {"truncated", "reported"}
      BY <2>1, <3>1 DEF Die, TypeOK
    <3>3. pc[p] \notin Inside
      BY <3>2 DEF LockInv, Inside
    <3>4. rec' = rec
      BY <1>12, <3>3 DEF Exit, Timeout, Kill, Inside
    <3> QED
      BY <3>2, <3>4 DEF EmptyInv
  <2>6. PastInv'
    <3>1. rec'.past <= past
      BY <1>12, <2>3 DEF Exit, Timeout, Kill, PastInv, TypeOK
    <3> QED
      BY <1>12, <2>1, <3>1 DEF Exit, Timeout, Kill, Die, env, PastInv, TypeOK, Blank
  <2> QED
    BY <2>2, <2>4, <2>5, <2>6
<1> QED
  BY <1>1, <1>2, <1>3, <1>4, <1>5, <1>6, <1>7, <1>8, <1>9, <1>10, <1>11, <1>12
     DEF Next, Run

\* Inv holds in every reachable state.
THEOREM Invariance == Spec => []Inv
<1>1. Init => Inv
  <2> SUFFICES ASSUME Init PROVE Inv
    OBVIOUS
  <2>1. Blank \in Sample
    BY DEF Blank, Sample
  <2>2. TypeOK
    <3>1. exists \in BOOLEAN /\ overlapped \in BOOLEAN
      BY DEF Init
    <3>2. NoResult \in [status : Statuses \cup {"NONE"}, rate : Int]
      BY DEF NoResult
    <3>3. /\ out \in [Proc -> [status : Statuses \cup {"NONE"}, rate : Int]]
          /\ samp \in [Proc -> Sample] /\ last \in [Proc -> Sample]
          /\ now \in [Proc -> Nat] /\ pc \in [Proc -> PCs]
          /\ mode \in [Proc -> {"+<", "+>"}]
      BY <2>1, <3>2 DEF Init, PCs
    <3>4. /\ time \in Nat /\ ctxt \in Nat \ {0} /\ past \in Nat
          /\ rec \in Sample /\ lock \subseteq Proc /\ claimed \in Nat
      BY <2>1 DEF Init
    <3> QED
      BY <3>1, <3>3, <3>4 DEF TypeOK
  <2>3. LockInv /\ EmptyInv /\ PastInv
    BY DEF Init, LockInv, EmptyInv, PastInv, Inside, Blank
  <2> QED
    BY <2>2, <2>3 DEF Inv
<1> QED
  BY <1>1, InvStep, PTL DEF Spec

-----------------------------------------------------------------------------

\* Type correctness, for every set of runs and every bound.
THEOREM TypeCorrect == Spec => []TypeOK
BY Invariance, PTL DEF Inv

\* The state file is the holder's between its truncate and its exit.
THEOREM HolderOwns == Spec => []HolderOwnsFile
<1>1. Inv => HolderOwnsFile
  BY DEF Inv, HolderOwnsFile, LockInv, EmptyInv, Inside
<1> QED
  BY <1>1, Invariance, PTL

\* A rated run counts at most the switches made between its two samples.
THEOREM NoOverstatement == Spec => []NeverOverstates
<1>1. Inv => NeverOverstates
  <2> SUFFICES ASSUME Inv, NEW p \in Proc, pc[p] # "idle", RatedRun(p)
               PROVE  Switches(last[p], samp[p]) \in
                          0..(Total(samp[p]) - Total(last[p]))
    BY DEF NeverOverstates
  <2>1. last[p] \in Sample /\ samp[p] \in Sample /\ now[p] \in Nat /\ past \in Nat
    BY DEF Inv, TypeOK
  <2>2. Usable(last[p])
    BY <2>1 DEF RatedRun, Rated, Secs, Base, Pending, Sample
  <2>3. samp[p].count - last[p].count >= 0
    BY <2>1, <2>2 DEF RatedRun, Rated, Switches, Base, Pending, Sample
  <2>4. last[p].past <= samp[p].past
    BY DEF Inv, PastInv
  <2> QED
    BY <2>1, <2>2, <2>3, <2>4 DEF Switches, Base, Total, Sample
<1> QED
  BY <1>1, Invariance, PTL
-----------------------------------------------------------------------------
(* Runs that do not overlap count no switch twice *)

\* While no two runs have overlapped, every sample that can still serve as a base was taken
\* no earlier than the last switch reported so far.
ClaimInv ==
    /\ \A p, q \in Proc : pc[p] # "idle" /\ pc[q] # "idle" => p = q
    /\ claimed <= past + ctxt
    /\ Usable(rec) => claimed <= Total(rec)
    /\ \A p \in Proc : pc[p] # "idle" =>
           /\ Total(samp[p]) <= past + ctxt
           /\ claimed <= Total(samp[p])
           /\ pc[p] \in {"read", "truncated"} /\ Usable(last[p]) =>
                  claimed <= Total(last[p])

\* The inductive step of ClaimInv, on top of Inv.
LEMMA ClaimStep == ~overlapped' /\ Inv /\ ClaimInv /\ [Next]_vars => ClaimInv'
<1> SUFFICES ASSUME ~overlapped', Inv, ClaimInv, [Next]_vars
             PROVE  ClaimInv'
  OBVIOUS
<1> USE DEF Total, Usable
<1>0. TypeOK /\ ~Usable(Blank)
  BY DEF Inv, Blank
<1>1. CASE UNCHANGED vars
  BY <1>1 DEF vars, ClaimInv
<1>2. CASE Tick \/ StepBack \/ Switch
  BY <1>0, <1>2 DEF Tick, StepBack, Switch, store, local, ClaimInv, TypeOK, Sample
<1>3. CASE Reboot
  BY <1>0, <1>3 DEF Reboot, ClaimInv, TypeOK, Sample
<1>4. ASSUME NEW p \in Proc, ReadStat(p)
      PROVE  ClaimInv'
  <2>1. \A q \in Proc : pc'[q] # "idle" => q = p
    BY <1>0, <1>4 DEF ReadStat, Goto, TypeOK
  <2>2. samp'[p].past + samp'[p].count = past + ctxt
    BY <1>0, <1>4 DEF ReadStat, TypeOK
  <2>3. pc'[p] = "sampled"
    BY <1>0, <1>4 DEF ReadStat, Goto, TypeOK
  <2> QED
    BY <1>0, <1>4, <2>1, <2>2, <2>3 DEF ReadStat, env, store, ClaimInv, TypeOK
<1>5. ASSUME NEW p \in Proc, TestFile(p) \/ OpenFile(p) \/ Lock(p)
      PROVE  ClaimInv'
  BY <1>0, <1>5 DEF TestFile, OpenFile, Lock, Goto, env, store, local, ClaimInv, TypeOK
<1>6. ASSUME NEW p \in Proc, LockBusy(p)
      PROVE  ClaimInv'
  BY <1>0, <1>6 DEF LockBusy, Die, env, ClaimInv, TypeOK
<1>7. ASSUME NEW p \in Proc, ReadState(p)
      PROVE  ClaimInv'
  BY <1>0, <1>7 DEF ReadState, Goto, env, store, ClaimInv, TypeOK
<1>8. ASSUME NEW p \in Proc, Truncate(p)
      PROVE  ClaimInv'
  BY <1>0, <1>8 DEF Truncate, Goto, env, local, ClaimInv, TypeOK
<1>9. ASSUME NEW p \in Proc, Report(p)
      PROVE  ClaimInv'
  <2>1. /\ pc[p] = "truncated" /\ pc'[p] = "reported"
        /\ \A q \in Proc : pc'[q] # "idle" => q = p
    BY <1>0, <1>9 DEF Report, Goto, ClaimInv, TypeOK
  <2>2. rec' = Blank
    BY <1>9, <2>1 DEF Inv, EmptyInv, Report, store
  <2>3. claimed' \in Int /\ claimed' <= Total(samp[p]) /\ Total(samp[p]) <= past + ctxt
    BY <1>0, <1>9, <2>1 DEF Report, ClaimInv, TypeOK, Sample
  <2> QED
    BY <1>0, <1>9, <2>1, <2>2, <2>3 DEF Report, env, local, ClaimInv, TypeOK, Sample
<1>10. ASSUME NEW p \in Proc, Exit(p) \/ Timeout(p) \/ Kill(p)
       PROVE  ClaimInv'
  <2>1. /\ pc[p] # "idle" /\ Die(p) /\ UNCHANGED <<env, claimed>>
        /\ rec' \in {rec, Pending(p)}
    BY <1>10 DEF Exit, Timeout, Kill
  <2>2. Total(Pending(p)) = Total(samp[p])
    BY <1>0 DEF Pending, TypeOK, Sample
  <2>3. Usable(rec') => claimed <= Total(rec')
    BY <2>1, <2>2 DEF ClaimInv
  <2>4. \A q \in Proc : pc'[q] = "idle"
    BY <1>0, <2>1 DEF Die, ClaimInv, TypeOK
  <2> QED
    BY <1>0, <2>1, <2>3, <2>4 DEF env, ClaimInv
<1> QED
  BY <1>1, <1>2, <1>3, <1>4, <1>5, <1>6, <1>7, <1>8, <1>9, <1>10 DEF Next, Run

\* A rated run's base was usable.
LEMMA RatedBase ==
    ASSUME TypeOK, NEW p \in Proc, RatedRun(p)
    PROVE  Usable(last[p])
BY DEF RatedRun, Rated, Secs, Base, Pending, TypeOK, Sample

\* Once two runs have overlapped, they have.
LEMMA OverlapStays == [Next]_vars /\ overlapped => overlapped'
BY DEF Next, Run, vars, Tick, StepBack, Switch, Reboot, ReadStat, TestFile, OpenFile,
       Lock, LockBusy, ReadState, Truncate, Report, Exit, Timeout, Kill

\* As long as no two runs have overlapped, no switch is counted in two rates.
THEOREM NoDoubleClaim == Spec => []DisjointClaims
<1> DEFINE ApartInv == ~overlapped => ClaimInv
<1>1. Init => ApartInv
  BY DEF Init, ClaimInv, Blank, Usable
<1>2. Inv /\ ApartInv /\ [Next]_vars => ApartInv'
  BY ClaimStep, OverlapStays
<1>3. Inv /\ ApartInv => DisjointClaims
  BY RatedBase DEF ClaimInv, DisjointClaims, Inv
<1> HIDE DEF ApartInv
<1> QED
  BY <1>1, <1>2, <1>3, Invariance, PTL DEF Spec
-----------------------------------------------------------------------------
(* The state file implements RateCheck *)

\* Samples stay within the bounds of the abstract check, and what a run has read
\* is still in the file until it truncates it, unless another run emptied it.
BoundInv ==
    /\ time \in 1..MaxTime /\ ctxt \in 1..MaxCount /\ past \in 0..MaxPast
    /\ \A p \in Proc :
           /\ pc[p] # "idle" => samp[p].count \in 1..MaxCount
           /\ pc[p] \in Between => now[p] \in 1..MaxTime
           /\ pc[p] = "read" => rec \in {last[p], Blank}

\* The inductive step of BoundInv.
LEMMA BoundStep == Inv /\ BoundInv /\ [Next]_vars => BoundInv'
<1> SUFFICES ASSUME Inv, BoundInv, [Next]_vars
             PROVE  BoundInv'
  OBVIOUS
<1> USE ConstantsAssumption DEF Between
<1>0. TypeOK /\ LockInv
  BY DEF Inv
<1>1. CASE UNCHANGED vars
  BY <1>1 DEF vars, BoundInv
<1>2. CASE Tick \/ StepBack \/ Switch
  BY <1>0, <1>2 DEF Tick, StepBack, Switch, store, local, BoundInv, TypeOK
<1>3. CASE Reboot
  BY <1>0, <1>3 DEF Reboot, BoundInv, TypeOK
<1>4. ASSUME NEW p \in Proc,
             ReadStat(p) \/ TestFile(p) \/ OpenFile(p) \/ Lock(p)
      PROVE  BoundInv'
  BY <1>0, <1>4 DEF ReadStat, TestFile, OpenFile, Lock, Goto, env, store, local,
                    BoundInv, TypeOK
<1>5. ASSUME NEW p \in Proc, ReadState(p)
      PROVE  BoundInv'
  BY <1>0, <1>5 DEF ReadState, Goto, env, store, BoundInv, TypeOK
<1>6. ASSUME NEW p \in Proc, Truncate(p) \/ Report(p)
      PROVE  BoundInv'
  BY <1>0, <1>6 DEF Truncate, Report, Goto, env, store, local, BoundInv, TypeOK
<1>7. ASSUME NEW p \in Proc,
             LockBusy(p) \/ Exit(p) \/ Timeout(p) \/ Kill(p)
      PROVE  BoundInv'
  <2>1. Die(p) /\ UNCHANGED env
    BY <1>7 DEF LockBusy, Exit, Timeout, Kill
  <2>2. ASSUME NEW q \in Proc, pc'[q] = "read"
        PROVE  rec' \in {last'[q], Blank}
    <3>1. q # p /\ pc[q] = "read" /\ last'[q] = last[q]
      BY <1>0, <2>1, <2>2 DEF Die, TypeOK
    <3>2. pc[p] \notin Inside
      BY <1>0, <3>1 DEF LockInv, Inside
    <3>3. rec' = rec
      BY <1>7, <3>2 DEF LockBusy, Exit, Timeout, Kill, Inside
    <3> QED
      BY <3>1, <3>3 DEF BoundInv
  <2> QED
    BY <1>0, <2>1, <2>2 DEF Die, env, BoundInv, TypeOK
<1> QED
  BY <1>1, <1>2, <1>3, <1>4, <1>5, <1>6, <1>7 DEF Next, Run

\* With a run between its read and its exit, the next base is that run's.
LEMMA BaseBetween ==
    ASSUME LockInv, NEW p \in Proc, pc[p] \in Between
    PROVE  NextBase = IF pc[p] = "reported" THEN Pending(p) ELSE last[p]
<1>1. \A q \in Proc : pc[q] \in Between => q = p
  BY DEF LockInv, Between, Inside
<1>2. (CHOOSE q \in Proc : pc[q] \in Between) = p
  BY <1>1
<1> QED
  BY <1>2 DEF NextBase

\* The same in the next state.
LEMMA BaseBetweenNext ==
    ASSUME LockInv', NEW p \in Proc, pc'[p] \in Between
    PROVE  NextBase' = IF pc'[p] = "reported" THEN Pending(p)' ELSE last'[p]
<1>1. \A q \in Proc : pc'[q] \in Between => q = p
  BY DEF LockInv, Between, Inside
<1>2. (CHOOSE q \in Proc : pc'[q] \in Between) = p
  BY <1>1
<1> QED
  BY <1>2 DEF NextBase

\* A step that touches neither what is between nor the file keeps the next base.
LEMMA BaseKept ==
    ASSUME LockInv, LockInv',
           \A q \in Proc : pc[q] \in Between \/ pc'[q] \in Between =>
               /\ pc'[q] = pc[q] /\ last'[q] = last[q]
               /\ samp'[q] = samp[q] /\ now'[q] = now[q],
           rec' = rec \/ \E q \in Proc : pc[q] \in Between
    PROVE  NextBase' = NextBase
<1>1. CASE \E q \in Proc : pc[q] \in Between
  <2>1. PICK q \in Proc : pc[q] \in Between
    BY <1>1
  <2>2. NextBase = IF pc[q] = "reported" THEN Pending(q) ELSE last[q]
    BY <2>1, BaseBetween
  <2>3. NextBase' = IF pc'[q] = "reported" THEN Pending(q)' ELSE last'[q]
    BY <2>1, BaseBetweenNext
  <2> QED
    BY <2>1, <2>2, <2>3 DEF Pending
<1>2. CASE \A q \in Proc : pc[q] \notin Between
  BY <1>2 DEF NextBase
<1> QED
  BY <1>1, <1>2

\* Every step of the program is a step of the abstract check, or a stutter.
LEMMA AbstractStep ==
    Inv /\ Inv' /\ BoundInv /\ [Next]_vars => [Abstract!Next]_(Abstract!avars)
<1> SUFFICES ASSUME Inv, Inv', BoundInv, [Next]_vars
             PROVE  Abstract!Next \/ (NextBase' = NextBase /\ out' = out)
  BY DEF Abstract!avars
<1>0. TypeOK /\ LockInv /\ LockInv'
  BY DEF Inv
<1>1. CASE UNCHANGED vars
  BY <1>1 DEF vars, NextBase, Pending
<1>2. CASE Tick \/ StepBack \/ Switch
  BY <1>2 DEF Tick, StepBack, Switch, store, local, NextBase, Pending
<1>3. CASE Reboot
  <2>1. NextBase' = rec' /\ out' = out
    BY <1>3 DEF Reboot, NextBase, Between
  <2>2. rec' \in {rec, Blank}
    BY <1>3 DEF Reboot
  <2>3. rec \in {NextBase, Blank}
    <3>1. CASE \E q \in Proc : pc[q] \in Between
      <4>1. PICK q \in Proc : pc[q] \in Between
        BY <3>1
      <4>2. rec = Blank \/ (pc[q] = "read" /\ rec = last[q])
        BY <4>1 DEF Inv, EmptyInv, BoundInv, Between
      <4> QED
        BY <1>0, <4>1, <4>2, BaseBetween
    <3> QED
      BY <3>1 DEF NextBase
  <2> QED
    BY <2>1, <2>2, <2>3 DEF Abstract!Next, Abstract!Lose
<1>4. ASSUME NEW p \in Proc, ReadStat(p)
      PROVE  Abstract!Next
  <2>1. NextBase' = NextBase
    BY <1>0, <1>4, BaseKept DEF ReadStat, Goto, store, TypeOK, Between
  <2> QED
    BY <1>4, <2>1 DEF ReadStat, Abstract!Next, Abstract!Start
<1>5. ASSUME NEW p \in Proc, TestFile(p) \/ Lock(p)
      PROVE  NextBase' = NextBase /\ out' = out
  BY <1>0, <1>5, BaseKept DEF TestFile, Lock, Goto, store, local, TypeOK, Between
<1>6. ASSUME NEW p \in Proc, OpenFile(p)
      PROVE  Abstract!Next \/ (NextBase' = NextBase /\ out' = out)
  <2>1. CASE rec' = rec \/ \E q \in Proc : pc[q] \in Between
    <3>1. NextBase' = NextBase
      BY <1>0, <1>6, <2>1, BaseKept DEF OpenFile, Goto, local, TypeOK, Between
    <3> QED
      BY <1>6, <3>1 DEF OpenFile
  <2>2. CASE rec' # rec /\ \A q \in Proc : pc[q] \notin Between
    <3>1. NextBase' = Blank
      BY <1>0, <1>6, <2>2 DEF OpenFile, Goto, NextBase, TypeOK, Between
    <3> QED
      BY <1>6, <3>1 DEF OpenFile, Abstract!Next, Abstract!Lose
  <2> QED
    BY <2>1, <2>2
<1>7. ASSUME NEW p \in Proc, LockBusy(p)
      PROVE  Abstract!Next
  <2>1. NextBase' = NextBase
    BY <1>0, <1>7, BaseKept DEF LockBusy, Die, TypeOK, Between
  <2> QED
    BY <1>7, <2>1 DEF LockBusy, Abstract!Next, Abstract!GiveUp
<1>8. ASSUME NEW p \in Proc, ReadState(p)
      PROVE  NextBase' = NextBase /\ out' = out
  <2>1. pc[p] = "locked" /\ pc'[p] = "read" /\ last'[p] = rec
    BY <1>0, <1>8 DEF ReadState, Goto, TypeOK
  <2>2. NextBase = rec
    BY <1>0, <2>1 DEF NextBase, LockInv, Between, Inside
  <2>3. NextBase' = last'[p]
    BY <1>0, <2>1, BaseBetweenNext DEF Between
  <2> QED
    BY <1>8, <2>1, <2>2, <2>3 DEF ReadState
<1>9. ASSUME NEW p \in Proc, Truncate(p)
      PROVE  NextBase' = NextBase /\ out' = out
  <2>1. pc[p] = "read" /\ pc'[p] = "truncated" /\ last' = last /\ out' = out
    BY <1>0, <1>9 DEF Truncate, Goto, local, TypeOK
  <2> QED
    BY <1>0, <2>1, BaseBetween, BaseBetweenNext DEF Between
\* The stamped sample of a run between its read and its exit.
<1>s. ASSUME NEW p \in Proc, pc[p] \in Between
      PROVE  Pending(p) \in StampedSamples
  <2>1. /\ samp[p] \in Sample /\ samp[p].count \in 1..MaxCount
        /\ samp[p].past \in 0..MaxPast /\ now[p] \in 1..MaxTime
    BY <1>0, <1>s DEF Inv, PastInv, BoundInv, TypeOK, Between
  <2> QED
    BY <2>1 DEF Pending, StampedSamples, Sample
<1>10. ASSUME NEW p \in Proc, Report(p)
       PROVE  Abstract!Next
  <2>1. /\ pc[p] = "truncated" /\ pc'[p] = "reported"
        /\ UNCHANGED <<samp, now>>
    BY <1>0, <1>10 DEF Report, Goto, local, TypeOK
  <2>2. NextBase = last[p]
    BY <1>0, <2>1, BaseBetween DEF Between
  <2>3. NextBase' = Pending(p)
    BY <1>0, <2>1, BaseBetweenNext DEF Between, Pending
  <2>4. Pending(p) \in StampedSamples
    BY <1>s, <2>1 DEF Between
  <2>5. out' = [out EXCEPT ![p] = Judge(NextBase, Pending(p))]
    BY <1>10, <2>2 DEF Report
  <2> QED
    BY <2>3, <2>4, <2>5 DEF Abstract!Next, Abstract!Report
\* A run that ends outside leaves the base alone, and one that ends inside leaves
\* what is then in the file.
<1>d. ASSUME NEW p \in Proc, Exit(p) \/ Timeout(p) \/ Kill(p)
      PROVE  /\ pc[p] \notin Between => NextBase' = NextBase
             /\ pc[p] \in Between => NextBase' = rec'
  <2>1. Die(p) /\ (pc[p] \notin Between => rec' = rec)
    BY <1>d DEF Exit, Timeout, Kill, Between
  <2>2. ASSUME pc[p] \notin Between
        PROVE  NextBase' = NextBase
    BY <1>0, <2>1, <2>2, BaseKept DEF Die, TypeOK, Between
  <2>3. ASSUME pc[p] \in Between
        PROVE  NextBase' = rec'
    <3>1. \A q \in Proc : pc'[q] \notin Between
      BY <1>0, <2>1, <2>3 DEF Die, TypeOK, LockInv, Between, Inside
    <3> QED
      BY <3>1 DEF NextBase
  <2> QED
    BY <2>2, <2>3
<1>11. ASSUME NEW p \in Proc, Exit(p)
       PROVE  NextBase' = NextBase /\ out' = out
  <2>1. pc[p] = "reported" /\ rec' = Pending(p) /\ out' = out
    BY <1>11 DEF Exit
  <2>2. NextBase = Pending(p)
    BY <1>0, <2>1, BaseBetween DEF Between
  <2> QED
    BY <1>11, <1>d, <2>1, <2>2 DEF Between
\* What is in the file under a run between its read and its report.
<1>f. ASSUME NEW p \in Proc, pc[p] \in Between
      PROVE  rec = Blank \/ rec = NextBase
  <2>1. rec = Blank \/ (pc[p] = "read" /\ rec = last[p])
    BY <1>f DEF Inv, EmptyInv, BoundInv, Between
  <2> QED
    BY <1>0, <1>f, <2>1, BaseBetween
<1>12. ASSUME NEW p \in Proc, Timeout(p)
       PROVE  Abstract!Next
  <2>1. NextBase' \in {NextBase, Blank} \cup StampedSamples
    <3>1. CASE pc[p] = "truncated"
      BY <1>12, <1>d, <1>s, <3>1 DEF Timeout, Between
    <3>2. CASE pc[p] = "read"
      BY <1>12, <1>d, <1>f, <3>2 DEF Timeout, Between
    <3>3. CASE pc[p] \notin Between
      BY <1>12, <1>d, <3>3
    <3> QED
      BY <1>12, <3>1, <3>2, <3>3 DEF Timeout, Between
  <2> QED
    BY <1>12, <2>1 DEF Timeout, Abstract!Next, Abstract!GiveUp
<1>13. ASSUME NEW p \in Proc, Kill(p)
       PROVE  Abstract!Next \/ (NextBase' = NextBase /\ out' = out)
  <2>1. NextBase' \in {NextBase, Blank}
    BY <1>13, <1>d, <1>f DEF Kill
  <2> QED
    BY <1>13, <2>1 DEF Kill, Abstract!Next, Abstract!Lose
<1> QED
  BY <1>1, <1>2, <1>3, <1>4, <1>5, <1>6, <1>7, <1>8, <1>9, <1>10, <1>11, <1>12,
     <1>13 DEF Next, Run

\* Overlapping runs are serialised, for every set of runs and every bound.
THEOREM Refinement == Spec => Serialised
<1>1. Init => Abstract!Init
  <2> SUFFICES ASSUME Init
               PROVE  Abstract!Init
    OBVIOUS
  <2>1. NextBase = Blank
    BY DEF Init, NextBase, Between
  <2> QED
    BY <2>1 DEF Init, Abstract!Init
<1>2. Init => BoundInv
  BY ConstantsAssumption DEF Init, BoundInv, Between
<1>3. Spec => []BoundInv
  BY <1>2, BoundStep, Invariance, PTL DEF Spec
<1> QED
  BY <1>1, <1>3, AbstractStep, Invariance, PTL DEF Spec, Serialised, Abstract!Spec

=============================================================================
