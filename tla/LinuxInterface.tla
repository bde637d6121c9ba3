--------------------------- MODULE LinuxInterface ---------------------------
(***************************************************************************)
(* check_linux_interface.pl: traffic rates and new errors of a network     *)
(* interface, from its counters and the counters that the last run left in *)
(* /tmp/<progname>.<interface>.state.                                      *)
(*                                                                         *)
(* The run saves its own counters and closes the state file BEFORE it      *)
(* judges them, so the counters of a run that then quits are consumed.     *)
(* The four traffic counters are one counter pk, the ten error counters    *)
(* one counter err; Speed and Duplex are one setting beside the MTU.  Each *)
(* of them may go back: a traffic counter wraps, and a reset of the driver *)
(* or a reboot starts the count of the errors anew.                        *)
(***************************************************************************)
EXTENDS Nagios

CONSTANTS Proc,        \* the runs that can be alive at a time
          Errors,      \* is --errors given?
          Expects,     \* "mtu" when --mtu is given, "mode" for --speed or --duplex
          Expected,    \* --promisc, "off" when it is not given
          Exempt,      \* is it an lo, ip, sit or bond interface?
          MaxTime, MaxPk, MaxErr, MaxResets  \* bounds: the clock, the counters,
                       \* and how often the count of the errors starts anew

ASSUME InterfaceAssumption ==
    /\ {Errors, Exempt} \subseteq BOOLEAN
    /\ Expects \subseteq {"mtu", "mode"} /\ Expected \in {"on", "off"}
    /\ MaxTime \in Nat \ {0}
    /\ MaxPk \in Nat /\ MaxErr \in Nat /\ MaxResets \in Nat

VARIABLES nic,         \* the counters of the interface
          exists, rec, lock,    \* the state file, its line, who has it locked
          pc, found, samp, last,  \* each run: its place, the test -f, the
                       \* counters, the line it read
          answered     \* history: in each count of the errors, those up to which
                       \* a run has answered for its counters (Answers below)

store == <<exists, rec, lock>>
local == <<found, samp, last>>
interfaceVars == <<nic, exists, rec, lock, pc, found, samp, last, answered>>

-----------------------------------------------------------------------------

\* epoch is not in the file: it says which count err belongs to.
Epochs   == 0..MaxResets
Counters == [ts : Nat, pk : Nat, err : Nat, epoch : Epochs]
Blank    == [ts |-> 0, pk |-> 0, err |-> 0, epoch |-> 0]
PCs == {"idle", "sampled", "tested", "opened", "locked", "truncated", "saved"}

InterfaceInit ==
    /\ nic = Blank
    /\ exists = FALSE /\ rec = Blank /\ lock = {}
    /\ pc = [p \in Proc |-> "idle"]
    /\ found = [p \in Proc |-> FALSE]
    /\ samp = [p \in Proc |-> Blank]
    /\ last = [p \in Proc |-> Blank]
    /\ answered = [e \in Epochs |-> 0]

-----------------------------------------------------------------------------
(* A run *)

Goto(p, from, to) == pc[p] = from /\ pc' = [pc EXCEPT ![p] = to]

Die(p) ==
    /\ pc' = [pc EXCEPT ![p] = "idle"]
    /\ found' = [found EXCEPT ![p] = FALSE]
    /\ samp' = [samp EXCEPT ![p] = Blank]
    /\ last' = [last EXCEPT ![p] = Blank]
    /\ lock' = lock \ {p}

\* ifconfig, and /sys/class/net/<interface>/flags; nothing but the result looks
\* at what the flags say, so Finish chooses it.  A run that misses the interface,
\* its MTU, flags or a counter there ends UNKNOWN, having touched nothing.
Measure(p) ==
    /\ Goto(p, "idle", "sampled")
    /\ samp' = [samp EXCEPT ![p] = nic]
    /\ UNCHANGED <<nic, store, found, last, answered>>

TestFile(p) ==
    /\ Goto(p, "sampled", "tested")
    /\ found' = [found EXCEPT ![p] = exists]
    /\ UNCHANGED <<nic, store, samp, last, answered>>

\* "+>" empties the file when the test had not found it.
OpenFile(p) ==
    /\ Goto(p, "tested", "opened")
    /\ exists' = TRUE
    /\ rec' = IF found[p] THEN rec ELSE Blank
    /\ UNCHANGED <<nic, lock, local, answered>>

Lock(p) ==
    /\ lock = {}
    /\ Goto(p, "opened", "locked")
    /\ lock' = {p}
    /\ UNCHANGED <<nic, exists, rec, local, answered>>

LockBusy(p) ==
    /\ lock # {} /\ pc[p] = "opened"
    /\ Die(p)
    /\ UNCHANGED <<nic, exists, rec, answered>>

\* The last line is read and the file truncated; the new line is in the buffer.  The
\* clock may be set back between two runs, or stand still: it says any time.
Replace(p) ==
    /\ Goto(p, "locked", "truncated")
    /\ last' = [last EXCEPT ![p] = rec]
    /\ \E now \in 1..MaxTime : samp' = [samp EXCEPT ![p].ts = now]
    /\ rec' = Blank
    /\ UNCHANGED <<nic, exists, lock, found, answered>>

LineDelta(p) == [samp[p] EXCEPT !.pk = @ - last[p].pk]
Line(p) == samp[p]

\* close: the line is written and the lock released.
Close(p) ==
    /\ Goto(p, "truncated", "saved")
    /\ rec' = Line(p)
    /\ lock' = lock \ {p}
    /\ UNCHANGED <<nic, exists, local, answered>>

\* $statefile_found and not $stats_missing.
Comparable(p) == found[p] /\ last[p].ts # 0

Secs(p) == samp[p].ts - last[p].ts

\* The clock did not advance, or a traffic counter went back by enough to show.
NotSane(p) ==
    Comparable(p) /\ (Secs(p) <= 0 \/ Round(samp[p].pk - last[p].pk, Secs(p)) < 0)

\* --errors compares with the last run's counters.
NewErrorsSlack(p) == Errors /\ Comparable(p) /\ samp[p].err > last[p].err + 1
NewErrors(p) == Errors /\ Comparable(p) /\ samp[p].err > last[p].err

\* What ethtool and the flags say, and how the settings compare with the expected
\* ones; "no data" is ethtool's answer for an interface without a link to detect.
Sights == [link : {"yes", "no", "no data", "missing"}, mtu : {"same", "differs"},
           mode : {"same", "differs", "missing"}, promisc : {"on", "off"}]

NotDetected(see) ==
    \/ see.link = "missing" \/ (see.link = "no data" /\ ~Exempt)
    \/ "mode" \in Expects /\ see.mode = "missing" /\ ~Exempt

\* The MTU is compared only in the branch that computes the rates, so a first run
\* takes any MTU whatever --mtu expects.
Mismatch(p, see) ==
    \/ "mode" \in Expects /\ see.mode = "differs"
    \/ "mtu" \in Expects /\ see.mtu = "differs" /\ Comparable(p)

Result(p, see) ==
    IF NotSane(p) THEN "UNKNOWN"
    ELSE IF see.link = "no" THEN "CRITICAL"
    ELSE IF NotDetected(see) THEN "UNKNOWN"
    ELSE IF NewErrors(p) \/ Mismatch(p, see) \/ see.promisc # Expected THEN "CRITICAL"
    ELSE IF see.promisc = "on" THEN "WARNING" ELSE "OK"

\* No line to compare with, or one of another count of the errors.
NoBase(p) == ~Comparable(p) \/ last[p].epoch # samp[p].epoch

\* A run that has put its counters in place of the last ones answers for their
\* errors by ending CRITICAL or UNKNOWN, or by being cut short.  One without a line
\* of the same count cannot tell new errors from old: it takes what it finds, be it
\* in silence, as where the comparison begins.
Answers(p, status) ==
    pc[p] \in {"truncated", "saved"} /\ (status \in {"CRITICAL", "UNKNOWN"} \/ NoBase(p))

Tell(p, status) ==
    answered' = IF Answers(p, status) /\ samp[p].err > answered[samp[p].epoch]
                THEN [answered EXCEPT ![samp[p].epoch] = samp[p].err] ELSE answered

\* The checks on the saved counters, ethtool, and quit.
Finish(p) ==
    /\ pc[p] = "saved"
    /\ Die(p)
    /\ \E status \in {Result(p, see) : see \in Sights} : Tell(p, status)
    /\ UNCHANGED <<nic, exists, rec>>

\* The alarm quits UNKNOWN; what has been printed to the file is flushed.
Timeout(p) ==
    /\ pc[p] # "idle"
    /\ Die(p)
    /\ Tell(p, "UNKNOWN")
    /\ rec' = IF pc[p] = "truncated" THEN Line(p) ELSE rec
    /\ UNCHANGED <<nic, exists>>

\* The scheduler kills a run that overran and records that itself.
Kill(p) ==
    /\ pc[p] # "idle"
    /\ Die(p)
    /\ Tell(p, "UNKNOWN")
    /\ UNCHANGED <<nic, exists, rec>>

InterfaceRun(p) ==
    \/ Measure(p) \/ TestFile(p) \/ OpenFile(p) \/ Lock(p)
    \/ LockBusy(p) \/ Replace(p) \/ Close(p) \/ Finish(p)

-----------------------------------------------------------------------------
(* The host *)

Quiet == UNCHANGED <<store, pc, local, answered>>

Traffic ==
    /\ nic.pk < MaxPk
    /\ nic' = [nic EXCEPT !.pk = @ + 1]
    /\ Quiet

Error ==
    /\ nic.err < MaxErr
    /\ nic' = [nic EXCEPT !.err = @ + 1]
    /\ Quiet

\* A traffic counter of 32 or 64 bits starts again at 0.
Wrap ==
    /\ nic' = [nic EXCEPT !.pk = 0]
    /\ Quiet

\* The driver is loaded anew or the host boots: the error counters start again,
\* those of the traffic with them or, in some drivers, not.
Reset ==
    /\ nic.epoch < MaxResets
    /\ \E pk \in {0, nic.pk} :
           nic' = [nic EXCEPT !.err = 0, !.pk = pk, !.epoch = @ + 1]
    /\ Quiet

InterfaceNext ==
    \/ Traffic \/ Error \/ Wrap \/ Reset
    \/ \E p \in Proc : InterfaceRun(p) \/ Timeout(p) \/ Kill(p)

InterfaceSpec == InterfaceInit /\ [][InterfaceNext]_interfaceVars

-----------------------------------------------------------------------------
(* Properties *)

\* Every variable ranges over its type.
InterfaceTypeOK ==
    /\ exists \in BOOLEAN
    /\ nic \in Counters /\ rec \in Counters
    /\ lock \in SUBSET Proc
    /\ pc \in [Proc -> PCs]
    /\ found \in [Proc -> BOOLEAN]
    /\ samp \in [Proc -> Counters] /\ last \in [Proc -> Counters]
    /\ answered \in [Epochs -> 0..MaxErr]

\* With --errors, once no run is alive, the errors that the state file counts have
\* been in a run that ended CRITICAL or UNKNOWN or was cut short after it took the
\* old line away, or in one that had no line of the same count of errors to compare
\* with: a run that compares like with like passes no error over as OK or WARNING.
ErrorsAreTold ==
    Errors /\ (\A p \in Proc : pc[p] = "idle")
        => rec.err <= answered[rec.epoch]
=============================================================================
