----------------------------- MODULE NginxProof -----------------------------
(* check_nginx_stats.pl (NginxStats) for any number of runs at a time, and any *)
(* bounds on the clock, the counters and the restarts of nginx.               *)
EXTENDS NginxStats, TLAPS

Samples == [ts : Nat, accepted : Nat, requests : Nat, total : Nat, wide : BOOLEAN]

\* A sample is of this nginx process or an earlier one.
Past(s, before, here) == s.total <= before + here /\ s.total - s.accepted <= before

NumbersOK ==
    /\ time \in Nat \ {0} /\ accepted \in Nat /\ requests \in Nat /\ past \in Nat /\ claimed \in Nat
    /\ overlapped \in BOOLEAN
FileOK == rec \in Samples /\ Past(rec, past, accepted)
RunsOK ==
    /\ pc \in [Proc -> PCs]
    /\ mode \in [Proc -> {"+<", "+>"}]
    /\ now \in [Proc -> Nat]
    /\ last \in [Proc -> Samples] /\ \A p \in Proc : Past(last[p], past, accepted)
    /\ samp \in [Proc -> Samples] /\ \A p \in Proc : Past(samp[p], past, accepted)
    /\ \A p \in Proc : pc[p] \in {"read", "sampled", "reported"} => now[p] > 0
    /\ \A p \in Proc : pc[p] \in {"sampled", "reported"} => samp[p].ts > 0
ValuesOK == NumbersOK /\ FileOK /\ RunsOK

\* The run inside is the one that holds the lock, one at most.
LockInv ==
    /\ \A p \in Proc : pc[p] \in Inside <=> p \in lock
    /\ \A p, q \in Proc : p \in lock /\ q \in lock => p = q

\* What the file holds, or the run inside has read, is at or beyond all that
\* rates were reported for.
ClaimInv ==
    /\ claimed <= past + accepted
    /\ rec.ts > 0 => rec.total >= claimed
    /\ \A p \in Proc :
          /\ pc[p] \in {"read", "sampled"} /\ last[p].ts > 0 => last[p].total >= claimed
          /\ pc[p] \in {"sampled", "reported"} => samp[p].total >= claimed
          /\ pc[p] = "sampled" =>
                samp[p].total - samp[p].accepted >= last[p].total - last[p].accepted

CInv == ValuesOK /\ LockInv /\ ClaimInv

\* A file without a sample is empty.
RecWide == rec.ts = 0 /\ rec # Garbled => ~rec.wide

\* A run that is alone finds the file as it read it, and prints onto an empty one.
AloneInv ==
    ~overlapped =>
        /\ rec # Garbled
        /\ \A p, q \in Proc : pc[p] # "idle" /\ pc[q] # "idle" => p = q
        /\ \A p \in Proc :
              /\ mode[p] = "+>" /\ pc[p] \notin {"idle", "tested"} => ~rec.wide
              /\ mode[p] = "+<" /\ pc[p] \in {"read", "sampled"} => last[p] = rec
              /\ pc[p] = "reported" /\ Prints(p) => ~rec.wide

IInv == CInv /\ RecWide /\ AloneInv

-----------------------------------------------------------------------------

LEMMA BlankIsSample == Blank \in Samples /\ Garbled \in Samples
BY DEF Blank, Garbled, Samples

\* What a sample is of stays in the past.
LEMMA PastStays ==
    ASSUME NEW s \in Samples, NEW b \in Nat, NEW h \in Nat, NEW bb \in Nat, NEW hh \in Nat,
           Past(s, b, h), b <= bb, b + h <= bb + hh
    PROVE  Past(s, bb, hh)
<1>1. s.total \in Nat /\ s.accepted \in Nat
  BY DEF Samples
<1> QED
  BY <1>1 DEF Past

LEMMA InitInv == Init => IInv
<1> SUFFICES ASSUME Init PROVE IInv
  OBVIOUS
<1>1. Past(Blank, past, accepted)
  BY DEF Past, Blank, Init
<1>2. "idle" \in PCs /\ "idle" \notin Inside
  BY DEF PCs, Inside
<1>3. ValuesOK
  <2>1. /\ time = 1 /\ accepted = 1 /\ requests = 1 /\ past = 0 /\ claimed = 0 /\ overlapped = FALSE
        /\ rec = Blank
    BY DEF Init
  <2>2. /\ pc \in [Proc -> PCs] /\ mode \in [Proc -> {"+<", "+>"}] /\ now \in [Proc -> Nat]
        /\ \A p \in Proc : pc[p] = "idle" /\ last[p] = Blank /\ samp[p] = Blank
    BY <1>2 DEF Init
  <2>3. last \in [Proc -> Samples] /\ samp \in [Proc -> Samples]
    BY BlankIsSample DEF Init
  <2> QED
    <3>1. NumbersOK
      <4>1. time \in Nat \ {0} /\ accepted \in Nat /\ requests \in Nat /\ past \in Nat /\ claimed \in Nat
        BY DEF Init
      <4>2. overlapped \in BOOLEAN
        BY DEF Init
      <4> QED
        BY <4>1, <4>2 DEF NumbersOK
    <3>2. FileOK
      BY <1>1, <2>1, BlankIsSample DEF FileOK
    <3>3. RunsOK
      BY <1>1, <2>2, <2>3 DEF RunsOK
    <3> QED
      BY <3>1, <3>2, <3>3 DEF ValuesOK
<1>4. LockInv
  BY <1>2 DEF Init, LockInv
<1>5. ClaimInv
  BY DEF Init, ClaimInv, Blank
<1>6. RecWide /\ AloneInv
  BY DEF Init, RecWide, AloneInv, Blank, Garbled
<1> QED
  BY <1>3, <1>4, <1>5, <1>6 DEF IInv, CInv

\* A run ends, before or after it has printed: what the file holds is good.
LEMMA DieKeeps ==
    ASSUME CInv, NEW p \in Proc, Die(p),
           time' = time, accepted' = accepted, requests' = requests, past' = past, claimed' = claimed,
           rec' \in Samples, Past(rec', past, accepted), rec'.ts > 0 => rec'.total >= claimed, overlapped' \in BOOLEAN
    PROVE  CInv'
<1>1. /\ pc' = [pc EXCEPT ![p] = "idle"] /\ mode' = [mode EXCEPT ![p] = "+<"]
      /\ now' = [now EXCEPT ![p] = 0] /\ last' = [last EXCEPT ![p] = Blank]
      /\ samp' = [samp EXCEPT ![p] = Blank] /\ lock' = lock \ {p}
      /\ time' = time /\ accepted' = accepted /\ requests' = requests /\ past' = past /\ claimed' = claimed
  BY DEF Die
<1>2. Past(Blank, past, accepted)
  BY DEF Past, Blank, CInv, ValuesOK, NumbersOK, FileOK, RunsOK
<1>3. "idle" \in PCs /\ "idle" \notin Inside
  BY DEF PCs, Inside
<1>4. ValuesOK'
  <2>1. pc' \in [Proc -> PCs] /\ mode' \in [Proc -> {"+<", "+>"}] /\ now' \in [Proc -> Nat]
    BY <1>1, <1>3 DEF CInv, ValuesOK, NumbersOK, FileOK, RunsOK
  <2>2. last' \in [Proc -> Samples] /\ samp' \in [Proc -> Samples]
    BY <1>1, BlankIsSample DEF CInv, ValuesOK, NumbersOK, FileOK, RunsOK
  <2>3. \A q \in Proc : Past(last'[q], past, accepted) /\ Past(samp'[q], past, accepted)
    BY <1>1, <1>2 DEF CInv, ValuesOK, NumbersOK, FileOK, RunsOK
  <2> QED
    BY <1>1, <2>1, <2>2, <2>3 DEF CInv, ValuesOK, NumbersOK, FileOK, RunsOK
<1>5. LockInv'
  BY <1>1, <1>3 DEF CInv, ValuesOK, NumbersOK, FileOK, RunsOK, LockInv
<1>6. ClaimInv'
  BY <1>1 DEF CInv, ValuesOK, NumbersOK, FileOK, RunsOK, ClaimInv, Blank
<1> QED
  BY <1>4, <1>5, <1>6 DEF CInv

LEMMA ClaimNextInv == CInv /\ [Next]_vars => CInv'
<1> SUFFICES ASSUME CInv, [Next]_vars PROVE CInv'
  OBVIOUS
<1> USE DEF server, store, local, vars
<1>t. ValuesOK /\ LockInv /\ ClaimInv
  BY DEF CInv
<1>b. /\ Past(Blank, past, accepted) /\ Blank \in Samples /\ Garbled \in Samples /\ Past(Garbled, past, accepted)
      /\ Blank.ts = 0 /\ Garbled.ts = 0
  BY <1>t, BlankIsSample DEF Past, Blank, Garbled, ValuesOK, NumbersOK, FileOK, RunsOK
<1>1. ASSUME NEW p \in Proc, TestFile(p) \/ OpenFile(p) \/ Lock(p)
      PROVE  CInv'
  <2>1. /\ time' = time /\ accepted' = accepted /\ requests' = requests /\ past' = past /\ claimed' = claimed
        /\ now' = now /\ last' = last /\ samp' = samp
        /\ rec' \in Samples /\ Past(rec', past, accepted) /\ (rec'.ts > 0 => rec'.total >= claimed)
    BY <1>1, <1>t, <1>b DEF TestFile, OpenFile, Lock, ValuesOK, NumbersOK, FileOK, RunsOK, ClaimInv
  <2>2. /\ pc[p] \in {"idle", "tested", "opened"} /\ pc' \in [Proc -> PCs]
        /\ pc'[p] \in {"tested", "opened", "locked"} /\ \A q \in Proc : q # p => pc'[q] = pc[q]
    BY <1>1, <1>t DEF TestFile, OpenFile, Lock, Goto, ValuesOK, NumbersOK, FileOK, RunsOK, PCs, Inside
  <2>3. mode' \in [Proc -> {"+<", "+>"}] /\ overlapped' \in BOOLEAN
    BY <1>1, <1>t DEF TestFile, OpenFile, Lock, ValuesOK, NumbersOK, FileOK, RunsOK
  <2>4. ValuesOK'
    <3>1. NumbersOK'
      BY <1>t, <2>1, <2>3 DEF ValuesOK, NumbersOK
    <3>2. FileOK'
      BY <2>1 DEF FileOK
    <3>3. RunsOK'
      BY <1>t, <2>1, <2>2, <2>3 DEF ValuesOK, RunsOK
    <3> QED
      BY <3>1, <3>2, <3>3 DEF ValuesOK
  <2>5. LockInv'
    <3>1. CASE Lock(p)
      <4>1. lock = {} /\ lock' = {p} /\ pc'[p] = "locked"
        BY <1>t, <3>1 DEF Lock, LockFree, Goto, ValuesOK, NumbersOK, FileOK, RunsOK
      <4> QED
        BY <1>t, <2>2, <4>1 DEF LockInv, Inside
    <3>2. CASE TestFile(p) \/ OpenFile(p)
      <4>1. lock' = lock /\ pc'[p] \in {"tested", "opened"} /\ pc[p] \in {"idle", "tested"}
        BY <1>t, <3>2 DEF TestFile, OpenFile, Goto, ValuesOK, NumbersOK, FileOK, RunsOK
      <4> QED
        BY <1>t, <2>2, <4>1 DEF LockInv, Inside
    <3> QED
      BY <1>1, <3>1, <3>2
  <2>6. ClaimInv'
    BY <1>t, <2>1, <2>2 DEF ClaimInv
  <2> QED
    BY <2>4, <2>5, <2>6 DEF CInv
\* It reads what the file holds.
<1>2. ASSUME NEW p \in Proc, ReadState(p)
      PROVE  CInv'
  <2>1. /\ time' = time /\ accepted' = accepted /\ requests' = requests /\ past' = past /\ claimed' = claimed
        /\ rec' = rec /\ samp' = samp /\ mode' = mode /\ lock' = lock /\ overlapped' = overlapped
        /\ pc[p] = "locked" /\ pc' \in [Proc -> PCs] /\ pc'[p] = "read"
        /\ \A q \in Proc : q # p => pc'[q] = pc[q] /\ last'[q] = last[q] /\ now'[q] = now[q]
    BY <1>2, <1>t DEF ReadState, Goto, ValuesOK, NumbersOK, FileOK, RunsOK, PCs, Inside
  <2>2. /\ last' \in [Proc -> Samples] /\ Past(last'[p], past, accepted) /\ now' \in [Proc -> Nat] /\ now'[p] > 0
        /\ last'[p].ts > 0 => last'[p].total >= claimed
    <3>1. last'[p] \in {rec, Blank} /\ now'[p] = time
      BY <1>2, <1>t DEF ReadState, ValuesOK, NumbersOK, FileOK, RunsOK
    <3>2. last' \in [Proc -> Samples] /\ now' \in [Proc -> Nat]
      BY <1>2, <1>t, <1>b DEF ReadState, ValuesOK, NumbersOK, FileOK, RunsOK
    <3> QED
      BY <1>t, <1>b, <3>1, <3>2 DEF ValuesOK, NumbersOK, FileOK, RunsOK, ClaimInv
  <2>3. ValuesOK'
    BY <1>t, <2>1, <2>2 DEF ValuesOK, NumbersOK, FileOK, RunsOK
  <2>4. LockInv'
    BY <1>t, <2>1 DEF LockInv, Inside
  <2>5. ClaimInv'
    BY <1>t, <2>1, <2>2 DEF ClaimInv
  <2> QED
    BY <2>3, <2>4, <2>5 DEF CInv
\* It samples the server after that, and so at or beyond it.
<1>3. ASSUME NEW p \in Proc, GetStatus(p)
      PROVE  CInv'
  <2>1. /\ time' = time /\ accepted' = accepted /\ requests' = requests /\ past' = past /\ claimed' = claimed
        /\ rec' = rec /\ mode' = mode /\ lock' = lock /\ overlapped' = overlapped
        /\ now' = now /\ last' = last
        /\ pc[p] = "read" /\ pc' \in [Proc -> PCs] /\ pc'[p] = "sampled"
        /\ \A q \in Proc : q # p => pc'[q] = pc[q] /\ samp'[q] = samp[q]
    BY <1>3, <1>t DEF GetStatus, Goto, ValuesOK, NumbersOK, FileOK, RunsOK, PCs, Inside
  <2>2. PICK w \in BOOLEAN : samp' = [samp EXCEPT ![p] =
            [ts |-> now[p], accepted |-> accepted, requests |-> requests, total |-> past + accepted, wide |-> w]]
    BY <1>3 DEF GetStatus
  <2>3. samp'[p] = [ts |-> now[p], accepted |-> accepted, requests |-> requests, total |-> past + accepted, wide |-> w]
    BY <1>t, <2>2 DEF ValuesOK, NumbersOK, FileOK, RunsOK
  <2>4. /\ accepted \in Nat /\ past \in Nat /\ requests \in Nat /\ now[p] \in Nat /\ now[p] > 0 /\ claimed \in Nat
        /\ last[p] \in Samples /\ Past(last[p], past, accepted) /\ claimed <= past + accepted
    BY <1>t, <2>1 DEF ValuesOK, NumbersOK, FileOK, RunsOK, ClaimInv
  <2>5. /\ samp'[p] \in Samples /\ samp'[p].ts > 0
        /\ samp'[p].total = past + accepted /\ samp'[p].accepted = accepted
    BY <2>3, <2>4 DEF Samples
  <2>6. /\ Past(samp'[p], past, accepted) /\ samp'[p].total >= claimed
        /\ samp'[p].total - samp'[p].accepted >= last[p].total - last[p].accepted
    <3>1. last[p].total \in Nat /\ last[p].accepted \in Nat
      BY <2>4 DEF Samples
    <3> QED
      BY <2>4, <2>5, <3>1 DEF Past
  <2>7. samp' \in [Proc -> Samples]
    BY <1>t, <2>1, <2>2, <2>3, <2>5 DEF ValuesOK, NumbersOK, FileOK, RunsOK
  <2>8. ValuesOK'
    BY <1>t, <2>1, <2>5, <2>6, <2>7 DEF ValuesOK, NumbersOK, FileOK, RunsOK
  <2>9. LockInv'
    BY <1>t, <2>1 DEF LockInv, Inside
  <2>10. ClaimInv'
    BY <1>t, <2>1, <2>6 DEF ClaimInv
  <2> QED
    BY <2>8, <2>9, <2>10 DEF CInv
\* A rate takes the claims up to its sample, and the file has been emptied.
<1>4. ASSUME NEW p \in Proc, Report(p)
      PROVE  CInv'
  <2>1. /\ time' = time /\ accepted' = accepted /\ requests' = requests /\ past' = past
        /\ mode' = mode /\ lock' = lock /\ overlapped' = overlapped
        /\ now' = now /\ last' = last /\ samp' = samp
        /\ pc[p] = "sampled" /\ pc' \in [Proc -> PCs] /\ pc'[p] = "reported"
        /\ \A q \in Proc : q # p => pc'[q] = pc[q]
    BY <1>4, <1>t DEF Report, Goto, ValuesOK, NumbersOK, FileOK, RunsOK, PCs, Inside
  <2>2. /\ samp[p] \in Samples /\ samp[p].total \in Nat /\ Past(samp[p], past, accepted)
        /\ samp[p].total >= claimed /\ claimed \in Nat
    BY <1>t, <2>1 DEF ValuesOK, NumbersOK, FileOK, RunsOK, ClaimInv, Samples
  <2>3. claimed' \in Nat /\ claimed' <= past + accepted /\ claimed' <= samp[p].total
    <3>1. claimed' \in {samp[p].total, claimed}
      BY <1>4 DEF Report
    <3> QED
      BY <1>t, <2>2, <3>1 DEF ClaimInv, Past
  <2>4. rec' \in Samples /\ Past(rec', past, accepted) /\ (rec'.ts > 0 => rec'.total >= claimed')
    <3>1. CASE Truncates(p)
      <4>1. rec' = Blank
        BY <1>4, <3>1 DEF Report
      <4> QED
        BY <1>b, <4>1
    <3>2. CASE ~Truncates(p)
      <4>1. rec' = rec /\ claimed' = claimed
        BY <1>4, <3>2 DEF Report, Rated, Truncates
      <4> QED
        BY <1>t, <4>1 DEF ValuesOK, NumbersOK, FileOK, RunsOK, ClaimInv
    <3> QED
      BY <3>1, <3>2
  <2>5. ValuesOK'
    <3>1. NumbersOK'
      BY <1>t, <2>1, <2>3 DEF ValuesOK, NumbersOK
    <3>2. FileOK'
      BY <2>1, <2>4 DEF FileOK
    <3>3. RunsOK'
      BY <1>t, <2>1 DEF ValuesOK, RunsOK
    <3> QED
      BY <3>1, <3>2, <3>3 DEF ValuesOK
  <2>6. LockInv'
    BY <1>t, <2>1 DEF LockInv, Inside
  \* No other run is inside.
  <2>7. \A q \in Proc : q # p => pc'[q] \notin {"read", "sampled", "reported"}
    BY <1>t, <2>1 DEF LockInv, Inside
  <2>8. ClaimInv'
    BY <2>1, <2>3, <2>4, <2>7 DEF ClaimInv
  <2> QED
    BY <2>5, <2>6, <2>8 DEF CInv
\* It prints its sample onto the file, or is ended before it could.
<1>5. ASSUME NEW p \in Proc, Exit(p)
      PROVE  CInv'
  <2>1. rec' \in {rec, Garbled, samp[p]}
    BY <1>5 DEF Exit, Overlay
  <2>2. /\ Die(p) /\ overlapped' = overlapped /\ pc[p] = "reported"
        /\ time' = time /\ accepted' = accepted /\ requests' = requests /\ past' = past /\ claimed' = claimed
    BY <1>5 DEF Exit
  <2>3. rec' \in Samples /\ Past(rec', past, accepted) /\ (rec'.ts > 0 => rec'.total >= claimed)
    BY <1>t, <1>b, <2>1, <2>2 DEF ValuesOK, NumbersOK, FileOK, RunsOK, ClaimInv
  <2>4. overlapped' \in BOOLEAN
    BY <1>t, <2>2 DEF ValuesOK, NumbersOK, FileOK, RunsOK
  <2> QED
    BY <2>2, <2>3, <2>4, DieKeeps
<1>6. ASSUME NEW p \in Proc, LockBusy(p) \/ Unreadable(p) \/ BadStatus(p) \/ Timeout(p) \/ Kill(p)
      PROVE  CInv'
  <2>1. /\ Die(p) /\ rec' = rec /\ overlapped' = overlapped
        /\ time' = time /\ accepted' = accepted /\ requests' = requests /\ past' = past /\ claimed' = claimed
    BY <1>6 DEF LockBusy, Unreadable, BadStatus, Timeout, Kill, Fails
  <2>2. rec \in Samples /\ Past(rec, past, accepted) /\ (rec.ts > 0 => rec.total >= claimed)
    BY <1>t DEF ValuesOK, NumbersOK, FileOK, RunsOK, ClaimInv
  <2>3. overlapped' \in BOOLEAN
    BY <1>t, <2>1 DEF ValuesOK, NumbersOK, FileOK, RunsOK
  <2> QED
    BY <2>1, <2>2, <2>3, DieKeeps
\* The server goes on counting, or starts again: no connection is undone.
<1>7. CASE Clock \/ Connection \/ Request \/ RestartNginx \/ UNCHANGED vars
  <2>1. /\ pc' = pc /\ mode' = mode /\ lock' = lock /\ overlapped' = overlapped
        /\ now' = now /\ last' = last /\ samp' = samp /\ rec' = rec /\ claimed' = claimed
    BY <1>7 DEF Clock, Connection, Request, RestartNginx
  <2>2. /\ time' \in Nat \ {0} /\ accepted' \in Nat /\ requests' \in Nat /\ past' \in Nat
        /\ past <= past' /\ past + accepted <= past' + accepted'
    <3>0. /\ time \in Nat \ {0} /\ accepted \in Nat /\ requests \in Nat /\ past \in Nat
      BY <1>t DEF ValuesOK, NumbersOK, FileOK, RunsOK
    <3>1. CASE Clock
      BY <3>0, <3>1, ConstantsAssumption DEF Clock
    <3>2. CASE Connection
      BY <3>0, <3>2 DEF Connection
    <3>3. CASE Request
      BY <3>0, <3>3 DEF Request
    <3>4. CASE RestartNginx
      BY <3>0, <3>4 DEF RestartNginx
    <3>5. CASE UNCHANGED vars
      BY <3>0, <3>5
    <3> QED
      BY <1>7, <3>1, <3>2, <3>3, <3>4, <3>5
  <2>3. \A s \in Samples : Past(s, past, accepted) => Past(s, past', accepted')
    BY <1>t, <2>2, PastStays DEF ValuesOK, NumbersOK, FileOK, RunsOK
  <2>4. ValuesOK'
    BY <1>t, <2>1, <2>2, <2>3 DEF ValuesOK, NumbersOK, FileOK, RunsOK
  <2>5. LockInv'
    BY <1>t, <2>1 DEF LockInv
  <2>6. ClaimInv'
    <3>1. claimed <= past' + accepted'
      <4>1. claimed <= past + accepted /\ claimed \in Nat /\ past \in Nat /\ accepted \in Nat
        BY <1>t DEF ClaimInv, ValuesOK, NumbersOK
      <4>2. past + accepted <= past' + accepted' /\ past' \in Nat /\ accepted' \in Nat
        BY <2>2
      <4>3. claimed \in Int /\ past + accepted \in Int /\ past' + accepted' \in Int
        BY <4>1, <4>2
      <4>4. \A a, b, c \in Int : a <= b /\ b <= c => a <= c
        OBVIOUS
      <4> QED
        BY <4>1, <4>2, <4>3, <4>4, Zenon
    <3> QED
      BY <1>t, <2>1, <3>1 DEF ClaimInv
  <2> QED
    BY <2>4, <2>5, <2>6 DEF CInv
<1> QED
  BY <1>1, <1>2, <1>3, <1>4, <1>5, <1>6, <1>7 DEF Next, Run

-----------------------------------------------------------------------------

\* Once runs have met they have met; a run that starts alone is the only one.
LEMMA AloneNextInv == IInv /\ [Next]_vars => RecWide' /\ AloneInv'
<1> SUFFICES ASSUME IInv, [Next]_vars PROVE RecWide' /\ AloneInv'
  OBVIOUS
<1> USE DEF server, store, local, vars
<1>t. ValuesOK /\ RunsOK /\ RecWide /\ AloneInv
  BY DEF IInv, CInv, ValuesOK
<1>b. /\ Blank.ts = 0 /\ ~Blank.wide /\ Blank # Garbled /\ Garbled.ts = 0
  BY DEF Blank, Garbled
<1>1. ASSUME NEW p \in Proc, TestFile(p)
      PROVE  RecWide' /\ AloneInv'
  <2>1. /\ rec' = rec /\ last' = last /\ now' = now /\ samp' = samp
        /\ pc[p] = "idle" /\ pc'[p] = "tested" /\ overlapped' = (overlapped \/ \E q \in Proc : pc[q] # "idle")
        /\ \A q \in Proc : q # p => pc'[q] = pc[q] /\ mode'[q] = mode[q]
    BY <1>1, <1>t DEF TestFile, Goto, RunsOK
  <2>2. ~overlapped' => ~overlapped /\ \A q \in Proc : pc[q] = "idle"
    BY <2>1
  <2> QED
    BY <1>t, <2>1, <2>2 DEF RecWide, AloneInv
<1>2. ASSUME NEW p \in Proc, OpenFile(p)
      PROVE  RecWide' /\ AloneInv'
  <2>1. /\ rec' = (IF mode[p] = "+>" THEN Blank ELSE rec)
        /\ last' = last /\ now' = now /\ samp' = samp /\ mode' = mode
        /\ pc[p] = "tested" /\ pc'[p] = "opened" /\ overlapped' = overlapped
        /\ \A q \in Proc : q # p => pc'[q] = pc[q]
    BY <1>2, <1>t DEF OpenFile, Goto, RunsOK
  <2>2. RecWide'
    BY <1>t, <1>b, <2>1 DEF RecWide
  <2>3. AloneInv'
    <3> SUFFICES ASSUME ~overlapped PROVE AloneInv'
      BY <2>1 DEF AloneInv
    <3>1. \A q \in Proc : q # p => pc[q] = "idle"
      BY <1>t, <2>1 DEF AloneInv
    <3> QED
      BY <1>t, <1>b, <2>1, <3>1 DEF AloneInv
  <2> QED
    BY <2>2, <2>3
<1>3. ASSUME NEW p \in Proc, Lock(p)
      PROVE  RecWide' /\ AloneInv'
  <2>1. /\ rec' = rec /\ last' = last /\ now' = now /\ samp' = samp /\ mode' = mode
        /\ pc[p] = "opened" /\ pc'[p] = "locked" /\ overlapped' = overlapped
        /\ \A q \in Proc : q # p => pc'[q] = pc[q]
    BY <1>3, <1>t DEF Lock, Goto, RunsOK
  <2>2. \A q \in Proc : Prints(q)' <=> Prints(q)
    BY <2>1 DEF Prints, Secs
  <2> QED
    BY <1>t, <2>1, <2>2 DEF RecWide, AloneInv
<1>4. ASSUME NEW p \in Proc, ReadState(p)
      PROVE  RecWide' /\ AloneInv'
  <2>1. /\ rec' = rec /\ mode' = mode /\ overlapped' = overlapped
        /\ last'[p] = (IF mode[p] = "+<" THEN rec ELSE Blank)
        /\ pc[p] = "locked" /\ pc'[p] = "read"
        /\ \A q \in Proc : q # p => pc'[q] = pc[q] /\ last'[q] = last[q] /\ now'[q] = now[q]
    BY <1>4, <1>t DEF ReadState, Goto, RunsOK
  <2>2. \A q \in Proc : q # p => (Prints(q)' <=> Prints(q))
    BY <2>1 DEF Prints, Secs
  <2> QED
    BY <1>t, <2>1, <2>2 DEF RecWide, AloneInv
<1>5. ASSUME NEW p \in Proc, GetStatus(p)
      PROVE  RecWide' /\ AloneInv'
  <2>1. /\ rec' = rec /\ mode' = mode /\ overlapped' = overlapped /\ last' = last /\ now' = now
        /\ pc[p] = "read" /\ pc'[p] = "sampled"
        /\ \A q \in Proc : q # p => pc'[q] = pc[q]
    BY <1>5, <1>t DEF GetStatus, Goto, RunsOK
  <2>2. \A q \in Proc : Prints(q)' <=> Prints(q)
    BY <2>1 DEF Prints, Secs
  <2> QED
    BY <1>t, <2>1, <2>2 DEF RecWide, AloneInv
\* If time has passed the file was emptied; if there was no sample it was empty.
<1>6. ASSUME NEW p \in Proc, Report(p)
      PROVE  RecWide' /\ AloneInv'
  <2>1. /\ rec' = (IF Truncates(p) THEN Blank ELSE rec)
        /\ mode' = mode /\ overlapped' = overlapped /\ last' = last /\ now' = now
        /\ pc[p] = "sampled" /\ pc'[p] = "reported"
        /\ \A q \in Proc : q # p => pc'[q] = pc[q]
    BY <1>6, <1>t DEF Report, Goto, RunsOK
  <2>2. RecWide'
    BY <1>t, <1>b, <2>1 DEF RecWide
  <2>3. AloneInv'
    <3> SUFFICES ASSUME ~overlapped PROVE AloneInv'
      BY <2>1 DEF AloneInv
    <3>1. \A q \in Proc : q # p => pc[q] = "idle"
      BY <1>t, <2>1 DEF AloneInv
    <3>2. Prints(p)' <=> Prints(p)
      BY <2>1 DEF Prints, Secs
    <3>3. Prints(p) => ~rec'.wide
      <4>1. CASE Truncates(p)
        BY <1>b, <2>1, <4>1
      <4>2. CASE ~Truncates(p)
        <5>1. Prints(p) => last[p].ts = 0
          BY <4>2 DEF Prints, Truncates
        <5>2. CASE mode[p] = "+<"
          <6>1. last[p] = rec /\ rec # Garbled
            BY <1>t, <2>1, <5>2 DEF AloneInv
          <6> QED
            BY <1>t, <2>1, <4>2, <5>1, <6>1 DEF RecWide
        <5>3. CASE mode[p] = "+>"
          BY <1>t, <2>1, <4>2, <5>3 DEF AloneInv
        <5>4. mode[p] \in {"+<", "+>"}
          BY <1>t DEF RunsOK
        <5> QED
          BY <5>2, <5>3, <5>4
      <4> QED
        BY <4>1, <4>2
    <3>4. rec' # Garbled
      BY <1>t, <1>b, <2>1 DEF AloneInv
    <3>5. mode[p] = "+>" => ~rec'.wide
      BY <1>t, <1>b, <2>1 DEF AloneInv
    <3> QED
      BY <2>1, <3>1, <3>2, <3>3, <3>4, <3>5 DEF AloneInv
  <2> QED
    BY <2>2, <2>3
\* What is printed is a sample, onto a file that is empty unless runs have met.
<1>7. ASSUME NEW p \in Proc, Exit(p)
      PROVE  RecWide' /\ AloneInv'
  <2>1. /\ rec' = (IF Prints(p) THEN Overlay(rec, samp[p]) ELSE rec)
        /\ overlapped' = overlapped /\ pc[p] = "reported" /\ pc'[p] = "idle"
        /\ \A q \in Proc : q # p => /\ pc'[q] = pc[q] /\ last'[q] = last[q]
                                    /\ now'[q] = now[q] /\ mode'[q] = mode[q]
    BY <1>7, <1>t DEF Exit, Die, RunsOK
  <2>2. samp[p].ts > 0 /\ samp[p].ts \in Nat
    BY <1>t, <2>1 DEF RunsOK, Samples
  <2>3. samp[p] # Garbled /\ ~(samp[p].ts = 0)
    BY <1>b, <2>2
  <2>4. RecWide'
    BY <1>t, <2>1, <2>3 DEF RecWide, Overlay
  <2>5. AloneInv'
    <3> SUFFICES ASSUME ~overlapped PROVE AloneInv'
      BY <2>1 DEF AloneInv
    <3>1. \A q \in Proc : pc'[q] = "idle"
      BY <1>t, <2>1 DEF AloneInv
    <3>2. rec' # Garbled
      BY <1>t, <2>1, <2>3 DEF AloneInv, Overlay
    <3> QED
      BY <3>1, <3>2 DEF AloneInv
  <2> QED
    BY <2>4, <2>5
<1>8. ASSUME NEW p \in Proc, LockBusy(p) \/ Unreadable(p) \/ BadStatus(p) \/ Timeout(p) \/ Kill(p)
      PROVE  RecWide' /\ AloneInv'
  <2>1. Die(p) /\ rec' = rec /\ overlapped' = overlapped
    BY <1>8 DEF LockBusy, Unreadable, BadStatus, Timeout, Kill, Fails
  <2>2. /\ pc'[p] = "idle"
        /\ \A q \in Proc : q # p => /\ pc'[q] = pc[q] /\ last'[q] = last[q]
                                    /\ now'[q] = now[q] /\ mode'[q] = mode[q]
    BY <1>t, <2>1 DEF Die, RunsOK
  <2>3. \A q \in Proc : q # p => (Prints(q)' <=> Prints(q))
    BY <2>2 DEF Prints, Secs
  <2> QED
    BY <1>t, <2>1, <2>2, <2>3 DEF RecWide, AloneInv
<1>9. CASE Clock \/ Connection \/ Request \/ RestartNginx \/ UNCHANGED vars
  <2>1. pc' = pc /\ mode' = mode /\ overlapped' = overlapped /\ now' = now /\ last' = last /\ rec' = rec
    BY <1>9 DEF Clock, Connection, Request, RestartNginx
  <2>2. \A q \in Proc : Prints(q)' <=> Prints(q)
    BY <2>1 DEF Prints, Secs
  <2> QED
    BY <1>t, <2>1, <2>2 DEF RecWide, AloneInv
<1> QED
  BY <1>1, <1>2, <1>3, <1>4, <1>5, <1>6, <1>7, <1>8, <1>9 DEF Next, Run

LEMMA NextInv == IInv /\ [Next]_vars => IInv'
BY ClaimNextInv, AloneNextInv DEF IInv

\* A reset is seen by the connections alone, and what is left is no more than
\* nginx took: the past only grows.
LEMMA ClaimsAreReal == CInv => ClaimsAreDisjointAndReal
<1> SUFFICES ASSUME CInv, NEW p \in Proc, pc[p] = "sampled", Rated(p)
             PROVE  /\ last[p].total >= claimed
                    /\ samp[p].accepted - last[p].accepted \in 0..(samp[p].total - last[p].total)
  BY DEF ClaimsAreDisjointAndReal
<1>1. /\ last[p] \in Samples /\ samp[p] \in Samples /\ now[p] \in Nat
  BY DEF CInv, ValuesOK, RunsOK
<1>2. /\ last[p].total \in Nat /\ last[p].accepted \in Nat /\ last[p].ts \in Nat
      /\ samp[p].total \in Nat /\ samp[p].accepted \in Nat
  BY <1>1 DEF Samples
<1>3. last[p].ts > 0
  BY <1>1, <1>2 DEF Rated, Secs
<1>4. samp[p].accepted >= last[p].accepted
  BY DEF Rated, NotReset
<1>5. /\ last[p].total >= claimed
      /\ samp[p].total - samp[p].accepted >= last[p].total - last[p].accepted
  BY <1>3 DEF CInv, ClaimInv
<1> QED
  BY <1>2, <1>4, <1>5

-----------------------------------------------------------------------------

\* No connection is in two rates, and none in a rate was not there, for any
\* number of runs at a time, kills, alarms, steps of the clock and restarts.
THEOREM ClaimsHold == Spec => []ClaimsAreDisjointAndReal
<1>1. IInv => ClaimsAreDisjointAndReal
  BY ClaimsAreReal DEF IInv
<1> QED
  BY InitInv, NextInv, <1>1, PTL DEF Spec

\* Runs that do not overlap leave no tail of a longer line behind a shorter one.
THEOREM AloneHolds == Spec => []AloneIsReadable
<1>1. IInv => AloneIsReadable
  BY DEF IInv, AloneInv, AloneIsReadable
<1> QED
  BY InitInv, NextInv, <1>1, PTL DEF Spec

-----------------------------------------------------------------------------
(* Type correctness: every counter within its bound, every rate within the     *)
(* connections of one nginx process.                                          *)

Outcomes == [status : Statuses \cup {"NONE"}, conns : 0..MaxCount, reqs : Int]

BoundInv ==
    /\ time \in 1..MaxTime /\ accepted \in 0..MaxCount /\ requests \in 0..MaxCount
    /\ restarts \in 0..MaxRestarts /\ past <= MaxCount * restarts
    /\ SampleOK(rec) /\ lock \subseteq Proc
    /\ \A p \in Proc : SampleOK(last[p]) /\ SampleOK(samp[p]) /\ now[p] \in 0..MaxTime
    /\ out \in [Proc -> Outcomes]

\* A whole number of connections, over a time, is no more of them.
LEMMA RateIsBounded ==
    ASSUME NEW n \in 0..MaxCount, NEW secs \in Nat \ {0}
    PROVE  Per(n, secs) \in 0..MaxCount
<1>1. /\ n \in Nat /\ n \div secs \in Int
      /\ n = secs * (n \div secs) + (n % secs) /\ n % secs \in 0..(secs - 1)
  BY ConstantsAssumption
<1>2. n \div secs \in 0..n
  BY <1>1, SMTT(30)
<1> QED
  BY <1>1, <1>2, ConstantsAssumption DEF Per

\* Any number over a time is an integer.
LEMMA RateIsInteger ==
    ASSUME NEW n \in Int, NEW secs \in Nat \ {0}
    PROVE  Per(n, secs) \in Int
BY DEF Per

\* The connections of all processes so far fit in a sample.
LEMMA TotalFits ==
    ASSUME BoundInv, past \in Nat
    PROVE  past + accepted \in 0..(MaxCount * (MaxRestarts + 1))
<1> USE ConstantsAssumption
<1>1. restarts \in Nat /\ restarts <= MaxRestarts /\ accepted \in Nat /\ accepted <= MaxCount
  BY DEF BoundInv
<1>2. PICK d \in Nat : MaxRestarts = restarts + d
  <2>1. MaxRestarts - restarts \in Nat /\ MaxRestarts = restarts + (MaxRestarts - restarts)
    BY <1>1
  <2> QED
    BY <2>1
<1>3. /\ MaxCount * (MaxRestarts + 1) = MaxCount * restarts + MaxCount * d + MaxCount
      /\ MaxCount * restarts \in Int /\ MaxCount * d \in Nat
  BY <1>1, <1>2
<1> QED
  BY <1>1, <1>3 DEF BoundInv

LEMMA BlankFits == SampleOK(Blank) /\ SampleOK(Garbled)
<1>1. MaxTime \in Nat /\ MaxCount \in Nat /\ MaxCount * (MaxRestarts + 1) \in Nat
  BY ConstantsAssumption
<1> QED
  BY <1>1 DEF SampleOK, Blank, Garbled

LEMMA BoundInit == Init => BoundInv
<1> SUFFICES ASSUME Init PROVE BoundInv
  OBVIOUS
<1>1. /\ time \in 1..MaxTime /\ accepted \in 0..MaxCount /\ requests \in 0..MaxCount
      /\ restarts \in 0..MaxRestarts /\ past <= MaxCount * restarts
  BY ConstantsAssumption DEF Init
<1>2. SampleOK(rec) /\ lock \subseteq Proc
  BY BlankFits DEF Init
<1>3. \A p \in Proc : SampleOK(last[p]) /\ SampleOK(samp[p]) /\ now[p] \in 0..MaxTime
  BY BlankFits, ConstantsAssumption DEF Init
<1>4. NoResult \in Outcomes
  BY ConstantsAssumption DEF NoResult, Result, Outcomes
<1>5. out \in [Proc -> Outcomes]
  BY <1>4 DEF Init
<1> QED
  BY <1>1, <1>2, <1>3, <1>5 DEF BoundInv

\* A run ends as it began, with a result or without.
LEMMA DieFits ==
    ASSUME BoundInv, RunsOK, NEW p \in Proc, Die(p),
           UNCHANGED <<time, server>>, SampleOK(rec'),
           \/ out' = out
           \/ \E status \in Statuses : out' = [out EXCEPT ![p] = Result(status, 0, 0)]
    PROVE  BoundInv'
<1>1. /\ time' = time /\ accepted' = accepted /\ requests' = requests
      /\ restarts' = restarts /\ past' = past
  BY DEF server
<1>2. lock' \subseteq Proc
  BY DEF Die, BoundInv
<1>3. \A q \in Proc : /\ last'[q] \in {last[q], Blank} /\ samp'[q] \in {samp[q], Blank}
                      /\ now'[q] \in {now[q], 0}
  BY DEF Die, RunsOK
<1>4. \A q \in Proc : SampleOK(last'[q]) /\ SampleOK(samp'[q]) /\ now'[q] \in 0..MaxTime
  BY <1>3, BlankFits, ConstantsAssumption DEF BoundInv
<1>5. out' \in [Proc -> Outcomes]
  <2>1. \A status \in Statuses : Result(status, 0, 0) \in Outcomes
    BY ConstantsAssumption DEF Result, Outcomes
  <2> QED
    BY <2>1 DEF BoundInv
<1> QED
  BY <1>1, <1>2, <1>4, <1>5 DEF BoundInv, SampleOK

LEMMA BoundNext == CInv /\ BoundInv /\ [Next]_vars => BoundInv'
<1> SUFFICES ASSUME CInv, BoundInv, [Next]_vars PROVE BoundInv'
  OBVIOUS
<1> USE DEF server, store, local, vars
<1>t. NumbersOK /\ RunsOK
  BY DEF CInv, ValuesOK
<1>1. ASSUME NEW p \in Proc, TestFile(p) \/ OpenFile(p) \/ Lock(p)
      PROVE  BoundInv'
  <2>1. /\ time' = time /\ accepted' = accepted /\ requests' = requests /\ restarts' = restarts
        /\ past' = past /\ now' = now /\ last' = last /\ samp' = samp
    BY <1>1 DEF TestFile, OpenFile, Lock
  <2>2. rec' \in {rec, Blank} /\ lock' \subseteq Proc
    BY <1>1 DEF TestFile, OpenFile, Lock, BoundInv
  <2>3. SampleOK(rec')
    BY <2>2, BlankFits DEF BoundInv
  <2>4. out' \in [Proc -> Outcomes]
    <3>1. NoResult \in Outcomes
      BY ConstantsAssumption DEF NoResult, Result, Outcomes
    <3> QED
      BY <1>1, <3>1 DEF TestFile, OpenFile, Lock, BoundInv
  <2> QED
    BY <2>1, <2>2, <2>3, <2>4 DEF BoundInv, SampleOK
<1>2. ASSUME NEW p \in Proc, ReadState(p)
      PROVE  BoundInv'
  <2>1. /\ time' = time /\ accepted' = accepted /\ requests' = requests /\ restarts' = restarts
        /\ past' = past /\ rec' = rec /\ lock' = lock /\ samp' = samp /\ out' = out
    BY <1>2 DEF ReadState
  <2>2. \A q \in Proc : last'[q] \in {last[q], rec, Blank} /\ now'[q] \in {now[q], time}
    BY <1>2, <1>t DEF ReadState, RunsOK
  <2>3. \A q \in Proc : SampleOK(last'[q]) /\ now'[q] \in 0..MaxTime
    BY <2>2, BlankFits, ConstantsAssumption DEF BoundInv
  <2> QED
    BY <2>1, <2>3 DEF BoundInv, SampleOK
<1>3. ASSUME NEW p \in Proc, GetStatus(p)
      PROVE  BoundInv'
  <2>1. /\ time' = time /\ accepted' = accepted /\ requests' = requests /\ restarts' = restarts
        /\ past' = past /\ rec' = rec /\ lock' = lock /\ last' = last /\ now' = now /\ out' = out
    BY <1>3 DEF GetStatus
  <2>2. PICK w \in BOOLEAN : samp' = [samp EXCEPT ![p] =
            [ts |-> now[p], accepted |-> accepted, requests |-> requests, total |-> past + accepted, wide |-> w]]
    BY <1>3 DEF GetStatus
  <2> DEFINE new == [ts |-> now[p], accepted |-> accepted, requests |-> requests,
                     total |-> past + accepted, wide |-> w]
  <2>3. SampleOK(new)
    <3>1. /\ now[p] \in 0..MaxTime /\ accepted \in 0..MaxCount /\ requests \in 0..MaxCount
          /\ past + accepted \in 0..(MaxCount * (MaxRestarts + 1))
      BY <1>t, TotalFits DEF BoundInv, NumbersOK
    <3>2. /\ new.ts = now[p] /\ new.accepted = accepted /\ new.requests = requests
          /\ new.total = past + accepted /\ new.wide = w
      OBVIOUS
    <3> HIDE DEF new
    <3> QED
      BY <3>1, <3>2 DEF SampleOK
  <2>4. \A q \in Proc : samp'[q] = (IF q = p THEN new ELSE samp[q])
    BY <1>t, <2>2 DEF RunsOK
  <2>5. \A q \in Proc : SampleOK(samp'[q])
    <3> HIDE DEF new
    <3> QED
      BY <2>3, <2>4 DEF BoundInv
  <2> QED
    BY <2>1, <2>5 DEF BoundInv, SampleOK
\* A rate is of connections taken since the last state, by a process that has
\* not been started again: the counter it subtracts is no larger.
<1>4. ASSUME NEW p \in Proc, Report(p)
      PROVE  BoundInv'
  <2>1. /\ time' = time /\ accepted' = accepted /\ requests' = requests /\ restarts' = restarts
        /\ past' = past /\ lock' = lock /\ last' = last /\ now' = now /\ samp' = samp
        /\ rec' \in {rec, Blank}
    BY <1>4 DEF Report
  <2>2. PICK status \in {"OK", "WARNING", "CRITICAL"} :
          out' = [out EXCEPT ![p] =
                    IF Rated(p)
                    THEN Result(status, Per(samp[p].accepted - last[p].accepted, Secs(p)),
                                        Per(samp[p].requests - last[p].requests, Secs(p)))
                    ELSE Result(status, 0, 0)]
    BY <1>4 DEF Report
  <2>3. status \in Statuses \cup {"NONE"}
    BY DEF Statuses
  <2>4. CASE Rated(p)
    <3> DEFINE conns == Per(samp[p].accepted - last[p].accepted, Secs(p))
               reqs == Per(samp[p].requests - last[p].requests, Secs(p))
    <3>1. /\ samp[p].accepted \in 0..MaxCount /\ last[p].accepted \in 0..MaxCount
          /\ samp[p].requests \in 0..MaxCount /\ last[p].requests \in 0..MaxCount
          /\ last[p].ts \in 0..MaxTime /\ now[p] \in 0..MaxTime
      BY DEF BoundInv, SampleOK
    <3>2. /\ samp[p].accepted - last[p].accepted \in 0..MaxCount
          /\ samp[p].requests - last[p].requests \in Int
      BY <2>4, <3>1, ConstantsAssumption DEF Rated, NotReset
    <3>3. Secs(p) \in Nat \ {0}
      BY <2>4, <3>1, ConstantsAssumption DEF Rated, Secs
    <3>4. conns \in 0..MaxCount
      BY <3>2, <3>3, RateIsBounded
    <3>5. reqs \in Int
      BY <3>2, <3>3, RateIsInteger
    <3>6. Result(status, conns, reqs) \in Outcomes
      <4> HIDE DEF conns, reqs
      <4> QED
        BY <2>3, <3>4, <3>5 DEF Result, Outcomes
    <3>7. out' = [out EXCEPT ![p] = Result(status, conns, reqs)]
      BY <2>2, <2>4
    <3>8. out' \in [Proc -> Outcomes]
      <4> HIDE DEF conns, reqs
      <4> QED
        BY <3>6, <3>7 DEF BoundInv
    <3> QED
      BY <2>1, <3>8, BlankFits DEF BoundInv, SampleOK
  <2>5. CASE ~Rated(p)
    <3>1. Result(status, 0, 0) \in Outcomes
      BY <2>3, ConstantsAssumption DEF Result, Outcomes
    <3>2. out' \in [Proc -> Outcomes]
      BY <2>2, <2>5, <3>1 DEF BoundInv
    <3> QED
      BY <2>1, <3>2, BlankFits DEF BoundInv, SampleOK
  <2> QED
    BY <2>4, <2>5
<1>5. ASSUME NEW p \in Proc, Exit(p) \/ Kill(p)
      PROVE  BoundInv'
  <2>1. Die(p) /\ UNCHANGED <<time, server>> /\ out' = out
    BY <1>5 DEF Exit, Kill
  <2>2. rec' \in {rec, Garbled, samp[p]}
    BY <1>5 DEF Exit, Kill, Overlay
  <2>3. SampleOK(rec')
    BY <2>2, BlankFits DEF BoundInv
  <2> QED
    BY <1>t, <2>1, <2>3, DieFits
<1>6. ASSUME NEW p \in Proc, LockBusy(p) \/ Unreadable(p) \/ BadStatus(p) \/ Timeout(p)
      PROVE  BoundInv'
  <2>1. \E status \in Statuses : Fails(p, status)
    BY <1>6 DEF LockBusy, Unreadable, BadStatus, Timeout, Statuses
  <2>2. /\ Die(p) /\ UNCHANGED <<time, server>> /\ rec' = rec
        /\ \E status \in Statuses : out' = [out EXCEPT ![p] = Result(status, 0, 0)]
    BY <2>1 DEF Fails
  <2>3. SampleOK(rec')
    BY <2>2 DEF BoundInv
  <2> QED
    BY <1>t, <2>2, <2>3, DieFits
<1>7. CASE Clock \/ Connection \/ Request \/ RestartNginx \/ UNCHANGED vars
  <2>1. /\ now' = now /\ last' = last /\ samp' = samp /\ rec' = rec /\ lock' = lock /\ out' = out
    BY <1>7 DEF Clock, Connection, Request, RestartNginx
  <2>2. /\ time' \in 1..MaxTime /\ accepted' \in 0..MaxCount /\ requests' \in 0..MaxCount
        /\ restarts' \in 0..MaxRestarts /\ past' <= MaxCount * restarts'
    <3>0. /\ time \in 1..MaxTime /\ accepted \in 0..MaxCount /\ requests \in 0..MaxCount
          /\ restarts \in 0..MaxRestarts /\ past <= MaxCount * restarts /\ past \in Nat
      BY <1>t DEF BoundInv, NumbersOK
    <3>1. CASE Clock
      BY <3>0, <3>1 DEF Clock
    <3>2. CASE Connection
      BY <3>0, <3>2, ConstantsAssumption DEF Connection
    <3>3. CASE Request
      BY <3>0, <3>3, ConstantsAssumption DEF Request
    <3>4. CASE RestartNginx
      <4>1. MaxCount * (restarts + 1) = MaxCount * restarts + MaxCount /\ MaxCount * restarts \in Int
        BY <3>0, ConstantsAssumption
      <4>2. past + accepted <= MaxCount * restarts + MaxCount
        BY <3>0, <4>1, ConstantsAssumption
      <4>3. past' <= MaxCount * restarts'
        BY <3>4, <4>1, <4>2 DEF RestartNginx
      <4> QED
        BY <3>0, <3>4, <4>3, ConstantsAssumption DEF RestartNginx
    <3>5. CASE UNCHANGED vars
      BY <3>0, <3>5
    <3> QED
      BY <1>7, <3>1, <3>2, <3>3, <3>4, <3>5
  <2> QED
    BY <2>1, <2>2 DEF BoundInv, SampleOK
<1> QED
  BY <1>1, <1>2, <1>3, <1>4, <1>5, <1>6, <1>7 DEF Next, Run

\* The clock, the counters and the samples of the runs and of the file stay
\* within their bounds, no rate is negative or above the connections of one
\* nginx process, and the runs inside are the holders of the lock.
THEOREM NginxTypeCorrect == Spec => []TypeOK
<1>1. Init => CInv /\ BoundInv
  BY InitInv, BoundInit DEF IInv
<1>2. CInv /\ BoundInv /\ [Next]_vars => (CInv /\ BoundInv)'
  BY ClaimNextInv, BoundNext
<1>3. CInv /\ BoundInv => TypeOK
  BY DEF CInv, ValuesOK, RunsOK, LockInv, BoundInv, Outcomes, TypeOK
<1> QED
  BY <1>1, <1>2, <1>3, PTL DEF Spec
=============================================================================
