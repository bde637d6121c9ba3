--------------------------- MODULE ContextSwitches ---------------------------
(***************************************************************************)
(* check_linux_context_switches.pl: a rate computed from the kernel's      *)
(* context switch counter and the sample that an earlier run left in the   *)
(* state file /tmp/<progname>.tmp.                                         *)
(*                                                                         *)
(* Several runs may overlap.  A run samples the counter BEFORE it opens    *)
(* and locks the state file, opens it with a truncating mode when it did   *)
(* not see the file, gives up when the lock is taken, truncates the file   *)
(* and prints its own sample into a buffer that reaches the file only when *)
(* the process exits, after the result has been printed.  The environment  *)
(* steps the clock, reboots the host and kills runs.                       *)
(***************************************************************************)
EXTENDS Nagios

CONSTANTS Proc,       \* the runs of the plugin that can be alive at a time
          MaxTime,    \* bound: last second of the clock
          MaxCount,   \* bound: context switches in one boot
          MaxPast,    \* bound: context switches of the boots before the last
          Warn, Crit  \* --warning and --critical, upper thresholds

ASSUME ConstantsAssumption ==
    /\ MaxTime \in Nat \ {0} /\ MaxCount \in Nat \ {0} /\ MaxPast \in Nat
    /\ Warn \in Nat /\ Crit \in Nat

VARIABLES time,     \* the wall clock, in seconds
          ctxt,     \* the counter of /proc/stat
          past,     \* history: the switches of all earlier boots
          exists,   \* does the state file exist?
          rec,      \* the sample in the state file, Blank when it is empty
          lock,     \* the set of runs that hold the lock on the state file
          pc,       \* where each run is
          mode,     \* the mode each run opens the state file with
          samp,     \* the counter as each run sampled it
          now,      \* the time each run stamps its sample with
          last,     \* the sample each run read from the state file
          out,      \* the result each run printed
          claimed,  \* history: the switches up to which rates were reported
          overlapped  \* history: has a run started while another was alive?

env   == <<time, ctxt, past>>
store == <<exists, rec, lock>>
local == <<mode, samp, now, last>>
vars  == <<time, ctxt, past, exists, rec, lock,
           pc, mode, samp, now, last, out, claimed, overlapped>>

-----------------------------------------------------------------------------

\* A sample: its time stamp, the counter, and (history) the switches of the
\* boots before the one it was taken in.
Sample == [ts : Nat, count : Nat, past : Nat]
Blank  == [ts |-> 0, count |-> 0, past |-> 0]

\* All the context switches the host had made when a sample was taken.
Total(s) == s.past + s.count

PCs == {"idle", "sampled", "tested", "opened", "locked", "read", "truncated",
        "reported"}

\* Where a run is the one that reads and writes the state file.
Inside == {"locked", "read", "truncated", "reported"}

NoResult == [status |-> "NONE", rate |-> 0]

Init ==
    /\ time = 1 /\ ctxt = 1 /\ past = 0
    /\ exists = FALSE /\ rec = Blank /\ lock = {}
    /\ pc = [p \in Proc |-> "idle"]
    /\ mode = [p \in Proc |-> "+<"]
    /\ samp = [p \in Proc |-> Blank]
    /\ now = [p \in Proc |-> 0]
    /\ last = [p \in Proc |-> Blank]
    /\ out = [p \in Proc |-> NoResult]
    /\ claimed = 0 /\ overlapped = FALSE

-----------------------------------------------------------------------------
(* A run of the plugin *)

\* The process ends: its variables go with it, only its output remains.
Die(p) ==
    /\ pc' = [pc EXCEPT ![p] = "idle"]
    /\ mode' = [mode EXCEPT ![p] = "+<"]
    /\ samp' = [samp EXCEPT ![p] = Blank]
    /\ now' = [now EXCEPT ![p] = 0]
    /\ last' = [last EXCEPT ![p] = Blank]
    /\ lock' = lock \ {p}

Unknown == [status |-> "UNKNOWN", rate |-> 0]

Goto(p, from, to) == pc[p] = from /\ pc' = [pc EXCEPT ![p] = to]

\* A new process: it scans /proc/stat.
ReadStat(p) ==
    /\ Goto(p, "idle", "sampled")
    /\ samp' = [samp EXCEPT ![p] = [ts |-> 0, count |-> ctxt, past |-> past]]
    /\ out' = [out EXCEPT ![p] = NoResult]
    /\ overlapped' = (overlapped \/ \E q \in Proc : pc[q] # "idle")
    /\ UNCHANGED <<env, store, mode, now, last, claimed>>

\* if(-f $statefile): read and write what is there, or create it.
TestFile(p) ==
    /\ Goto(p, "sampled", "tested")
    /\ mode' = [mode EXCEPT ![p] = IF exists THEN "+<" ELSE "+>"]
    /\ UNCHANGED <<env, store, samp, now, last, out, claimed, overlapped>>

\* "+>" empties the file, whatever another run did to it since the test.
OpenFile(p) ==
    /\ Goto(p, "tested", "opened")
    /\ exists' = TRUE
    /\ rec' = IF mode[p] = "+>" THEN Blank ELSE rec
    /\ UNCHANGED <<env, lock, local, out, claimed, overlapped>>

\* flock LOCK_EX | LOCK_NB.
LockFreeUnchecked == TRUE
LockFree == lock = {}

Lock(p) ==
    /\ LockFree
    /\ Goto(p, "opened", "locked")
    /\ lock' = lock \cup {p}
    /\ UNCHANGED <<env, exists, rec, local, out, claimed, overlapped>>

LockBusy(p) ==
    /\ ~LockFree
    /\ pc[p] = "opened"
    /\ Die(p)
    /\ out' = [out EXCEPT ![p] = Unknown]
    /\ UNCHANGED <<env, exists, rec, claimed, overlapped>>

\* The last line of the state file, and the time.
ReadState(p) ==
    /\ Goto(p, "locked", "read")
    /\ now' = [now EXCEPT ![p] = time]
    /\ last' = [last EXCEPT ![p] = rec]
    /\ UNCHANGED <<env, store, mode, samp, out, claimed, overlapped>>

\* truncate takes effect at once, the print that follows stays in the buffer.
Truncate(p) ==
    /\ Goto(p, "read", "truncated")
    /\ rec' = Blank
    /\ UNCHANGED <<env, exists, lock, local, out, claimed, overlapped>>

\* A missing, unparsable or zero counter or time stamp is replaced by the
\* current values, so that no second has passed since.
Usable(r) == r.ts # 0 /\ r.count # 0

Base(b, s) == IF Usable(b) THEN b ELSE s

\* The sample a run leaves, once it has stamped it.
PendingOldCount(p) == [Base(last[p], samp[p]) EXCEPT !.ts = now[p]]
PendingUnstamped(p) == samp[p]
PendingDelta(p) == [samp[p] EXCEPT !.ts = now[p], !.count = @ - last[p].count]
Pending(p) == [samp[p] EXCEPT !.ts = now[p]]

Switches(b, s) == s.count - Base(b, s).count
Secs(b, s)     == s.ts - Base(b, s).ts

RatedAnySign(b, s) == Secs(b, s) > 0
Rated(b, s) == Secs(b, s) > 0 /\ Switches(b, s) >= 0

\* The result of sample s when the state file held b.
Judge(b, s) ==
    IF Rated(b, s)
    THEN LET rate == Round(Switches(b, s), Secs(b, s))
         IN  [status |-> UpperThreshold(rate, Warn, Crit), rate |-> rate]
    ELSE Unknown

RatedRun(p) == Rated(last[p], Pending(p))

\* quit: the result is on stdout, the buffer is not in the file yet.
Report(p) ==
    /\ Goto(p, "truncated", "reported")
    /\ out' = [out EXCEPT ![p] = Judge(last[p], Pending(p))]
    /\ claimed' = IF RatedRun(p) /\ Total(samp[p]) > claimed THEN Total(samp[p])
                                                         ELSE claimed
    /\ UNCHANGED <<env, store, local, overlapped>>

\* The buffer reaches the state file, the lock goes with the process.
Exit(p) ==
    /\ pc[p] = "reported"
    /\ Die(p)
    /\ rec' = Pending(p)
    /\ UNCHANGED <<env, exists, out, claimed, overlapped>>

\* The alarm of set_timeout: quit UNKNOWN, which flushes the buffer as any exit.
Timeout(p) ==
    /\ pc[p] \notin {"idle", "reported"}
    /\ Die(p)
    /\ out' = [out EXCEPT ![p] = Unknown]
    /\ rec' = IF pc[p] = "truncated" THEN Pending(p) ELSE rec
    /\ UNCHANGED <<env, exists, claimed, overlapped>>

\* SIGKILL: the buffer is lost, the kernel drops the lock.
Kill(p) ==
    /\ pc[p] # "idle"
    /\ Die(p)
    /\ UNCHANGED <<env, exists, rec, out, claimed, overlapped>>

Run(p) == \/ ReadStat(p) \/ TestFile(p) \/ OpenFile(p) \/ Lock(p)
          \/ LockBusy(p) \/ ReadState(p) \/ Truncate(p) \/ Report(p)
          \/ Exit(p)

-----------------------------------------------------------------------------
(* The host *)

Tick ==
    /\ time < MaxTime
    /\ time' = time + 1
    /\ UNCHANGED <<ctxt, past, store, pc, local, out, claimed, overlapped>>

\* The clock is set back (ntpdate, a guest that resumes).
StepBack ==
    /\ time' \in 1..(time - 1)
    /\ UNCHANGED <<ctxt, past, store, pc, local, out, claimed, overlapped>>

Switch ==
    /\ ctxt < MaxCount
    /\ ctxt' = ctxt + 1
    /\ UNCHANGED <<time, past, store, pc, local, out, claimed, overlapped>>

\* Every process dies, the counter starts again, /tmp may be emptied.
Reboot ==
    /\ past + ctxt <= MaxPast
    /\ past' = past + ctxt
    /\ ctxt' = 1
    /\ pc' = [p \in Proc |-> "idle"]
    /\ mode' = [p \in Proc |-> "+<"]
    /\ samp' = [p \in Proc |-> Blank]
    /\ now' = [p \in Proc |-> 0]
    /\ last' = [p \in Proc |-> Blank]
    /\ lock' = {}
    /\ \/ UNCHANGED <<exists, rec>>
       \/ exists' = FALSE /\ rec' = Blank
    /\ UNCHANGED <<time, out, claimed, overlapped>>

Next ==
    \/ Tick \/ StepBack \/ Switch \/ Reboot
    \/ \E p \in Proc : Run(p) \/ Timeout(p) \/ Kill(p)

Spec == Init /\ [][Next]_vars

\* A run is never stuck, and the scheduler starts the next one.
LiveSpec == Spec /\ \A p \in Proc : WF_vars(Run(p))

-----------------------------------------------------------------------------
(* The abstract check *)

Between == {"read", "truncated", "reported"}

\* The sample the next result will be relative to: what the run inside has read
\* until it reports, its own sample from then on.
NextBase ==
    IF \E p \in Proc : pc[p] \in Between
    THEN LET p == CHOOSE q \in Proc : pc[q] \in Between
         IN  IF pc[p] = "reported" THEN Pending(p) ELSE last[p]
    ELSE rec

StampedSamples == [ts : 1..MaxTime, count : 1..MaxCount,
                   past : 0..MaxPast]

Abstract == INSTANCE RateCheck WITH Samples <- StampedSamples, base <- NextBase

-----------------------------------------------------------------------------
(* Properties *)

\* Every variable ranges over its type.
TypeOK ==
    /\ time \in Nat /\ ctxt \in Nat \ {0} /\ past \in Nat
    /\ exists \in BOOLEAN /\ rec \in Sample /\ lock \subseteq Proc
    /\ pc \in [Proc -> PCs]
    /\ mode \in [Proc -> {"+<", "+>"}]
    /\ samp \in [Proc -> Sample]
    /\ now \in [Proc -> Nat]
    /\ last \in [Proc -> Sample]
    /\ out \in [Proc -> [status : Statuses \cup {"NONE"}, rate : Int]]
    /\ claimed \in Nat /\ overlapped \in BOOLEAN

\* Between its truncate and its exit a run has the state file to itself: no other
\* run reads, truncates or writes it, and what is in it stays empty, although
\* any run may empty it without the lock by opening it with "+>".
HolderOwnsFile ==
    \A p \in Proc : pc[p] \in {"truncated", "reported"} =>
        /\ rec = Blank
        /\ \A q \in Proc : pc[q] \in Inside => q = p

\* A rate is never computed from more switches than the host made between the
\* two samples, whatever the order in which overlapping runs sample, lock and
\* write, and whether or not the counter was reset in between.
NeverOverstates ==
    \A p \in Proc : pc[p] \in {"truncated", "reported"} /\ RatedRun(p) =>
        Switches(last[p], samp[p]) \in 0..(Total(samp[p]) - Total(last[p]))

\* As long as no two runs have overlapped no switch is counted in two reported
\* rates, through kills, timeouts, clock steps and reboots.
DisjointClaims ==
    ~overlapped => \A p \in Proc : pc[p] = "truncated" /\ RatedRun(p) =>
                    Total(last[p]) >= claimed

\* Overlapping runs are serialised: each result is relative to the sample of the
\* run before it, and no sample serves two results.
Serialised == Abstract!Spec

\* A killed or interrupted run may leave an empty state file, but once runs are
\* left alone the file always gets a usable sample again.  (A run that faces a
\* busy lock ends UNKNOWN either way.)
Disturbance(p) == (Kill(p) \/ Timeout(p)) /\ (pc[p] = "opened" => LockFree)
Undisturbed == <>[][\A p \in Proc : ~Disturbance(p)]_vars
StateRecovers == Undisturbed => []<>Usable(rec)

=============================================================================
