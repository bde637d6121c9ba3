--------------------------- MODULE ZooKeeperState ---------------------------
(***************************************************************************)
(* check_zookeeper.pl: health, backlog and packet rates of a ZooKeeper     *)
(* server, the rates relative to the sample that the last run left in      *)
(* /tmp/<progname>.<host>.<port>.state.                                    *)
(*                                                                         *)
(* The server is asked before the lock is taken, the sample is stamped     *)
(* under it, and the file is written and closed before anything is judged. *)
(* The packets received and sent are one counter.  The outstanding         *)
(* requests, a backlog that grows and shrinks, are treated as another.     *)
(***************************************************************************)
EXTENDS Nagios

CONSTANTS Proc,               \* the runs that can be alive at a time
          MaxTime, MaxPackets, MaxBacklog, MaxRestarts,  \* bounds
          Warn, Crit,         \* --outstanding-requests
          Health              \* what ruok, isro, the mode and the latency can come to

ASSUME ConstantsAssumption ==
    /\ {MaxTime, MaxPackets} \subseteq Nat \ {0} /\ {MaxBacklog, MaxRestarts} \subseteq Nat
    /\ Warn \in Nat /\ Crit \in Nat /\ Warn <= Crit
    /\ Health \subseteq {"OK", "WARNING", "CRITICAL"}

VARIABLES time, packets,    \* the clock, and the packets the server has counted
          restarts, past,   \* restarts, and (history) the packets before them
          exists, rec, lock,   \* the state file, its line, who has it locked
          pc, found, samp, last, \* each run: its place, the test -f, its sample, the line it read
          out,              \* the result of each run
          claimed,          \* history: the packets that rates were reported for
          overlapped        \* history: has a run started while another was alive?

server == <<packets, restarts, past>>
store  == <<exists, rec, lock>>
local  == <<found, samp, last>>
vars   == <<time, server, store, pc, local, out, claimed, overlapped>>

-----------------------------------------------------------------------------

SampleOf(times) == [ts : times, packets : 0..MaxPackets, backlog : 0..MaxBacklog, past : Nat]
Blank == [ts |-> 0, packets |-> 0, backlog |-> 0, past |-> 0]
Total(s) == s.past + s.packets
PCs == {"idle", "sampled", "tested", "opened", "locked", "truncated", "saved"}

\* A result without a rate, and none at all.
Unrated == -1
NoResult == [status |-> "NONE", rate |-> -2]
Ends(status) == [status |-> status, rate |-> Unrated]

Init ==
    /\ time = 1 /\ packets = 0 /\ restarts = 0 /\ past = 0
    /\ exists = FALSE /\ rec = Blank /\ lock = {}
    /\ pc = [p \in Proc |-> "idle"]
    /\ found = [p \in Proc |-> FALSE]
    /\ samp = [p \in Proc |-> Blank]
    /\ last = [p \in Proc |-> Blank]
    /\ out = [p \in Proc |-> NoResult]
    /\ claimed = 0 /\ overlapped = FALSE

-----------------------------------------------------------------------------
(* A run *)

Goto(p, from, to) == pc[p] = from /\ pc' = [pc EXCEPT ![p] = to]

Die(p, result) ==
    /\ pc' = [pc EXCEPT ![p] = "idle"]
    /\ found' = [found EXCEPT ![p] = FALSE]
    /\ samp' = [samp EXCEPT ![p] = Blank]
    /\ last' = [last EXCEPT ![p] = Blank]
    /\ lock' = lock \ {p}
    /\ out' = [out EXCEPT ![p] = result]

\* ruok, isro, wchs and mntr, each over a connection of its own.  The backlog can
\* be anything at any moment.
Measure(p) ==
    /\ Goto(p, "idle", "sampled")
    /\ \E backlog \in 0..MaxBacklog :
          samp' = [samp EXCEPT ![p] = [ts |-> 0, packets |-> packets, backlog |-> backlog, past |-> past]]
    /\ out' = [out EXCEPT ![p] = NoResult]
    /\ overlapped' = (overlapped \/ \E q \in Proc : pc[q] # "idle")
    /\ UNCHANGED <<time, server, store, found, last, claimed>>

\* No connection, or numbers that are missing.
Unanswered(p) ==
    /\ pc[p] = "sampled"
    /\ \E status \in {"CRITICAL", "UNKNOWN"} : Die(p, Ends(status))
    /\ UNCHANGED <<time, server, exists, rec, claimed, overlapped>>

TestFile(p) ==
    /\ Goto(p, "sampled", "tested")
    /\ found' = [found EXCEPT ![p] = exists]
    /\ UNCHANGED <<time, server, store, samp, last, out, claimed, overlapped>>

\* "+>" empties the file, whatever another run did to it since the test.  What the
\* test found is of no use after that but for the message.
OpenFile(p) ==
    /\ Goto(p, "tested", "opened")
    /\ exists' = TRUE
    /\ rec' = IF found[p] THEN rec ELSE Blank
    /\ found' = [found EXCEPT ![p] = FALSE]
    /\ UNCHANGED <<time, server, lock, samp, last, out, claimed, overlapped>>

LockFreeUnchecked == TRUE
LockFree == lock = {}

Lock(p) ==
    /\ LockFree
    /\ Goto(p, "opened", "locked")
    /\ lock' = lock \cup {p}
    /\ UNCHANGED <<time, server, exists, rec, local, out, claimed, overlapped>>

LockBusy(p) ==
    /\ ~LockFree
    /\ pc[p] = "opened"
    /\ Die(p, Ends("UNKNOWN"))
    /\ UNCHANGED <<time, server, exists, rec, claimed, overlapped>>

\* The line is read and the file truncated; the new line is in the buffer.
Replace(p) ==
    /\ Goto(p, "locked", "truncated")
    /\ last' = [last EXCEPT ![p] = rec]
    /\ samp' = [samp EXCEPT ![p].ts = time]
    /\ rec' = Blank
    /\ UNCHANGED <<time, server, exists, lock, found, out, claimed, overlapped>>

LineDelta(p) == [samp[p] EXCEPT !.packets = @ - last[p].packets]
LineOldCount(p) == IF last[p].ts = 0 THEN samp[p]
                   ELSE [samp[p] EXCEPT !.packets = last[p].packets, !.past = last[p].past]
Line(p) == samp[p]

\* close: the line is written and the lock released.
Close(p) ==
    /\ Goto(p, "truncated", "saved")
    /\ rec' = Line(p)
    /\ lock' = lock \ {p}
    /\ UNCHANGED <<time, server, exists, local, out, claimed, overlapped>>

\* A missing or unparsable line takes its time from this run: no second has passed.
Secs(b, s) == IF b.ts = 0 THEN 0 ELSE s.ts - b.ts

Rate(b, s) == Round(s.packets - b.packets, Secs(b, s))

\* The time or a number that is lower than before ends the run.
WentBack(b, s) ==
    \/ Secs(b, s) < 0
    \/ Secs(b, s) >= 1 /\ (Rate(b, s) < 0 \/ Round(s.backlog - b.backlog, Secs(b, s)) < 0)

Rated(b, s) == Secs(b, s) >= 1 /\ ~WentBack(b, s)

Judge(b, s) == IF Rated(b, s) THEN Rate(b, s) ELSE Unrated

Result(p, health) ==
    [status |-> IF WentBack(last[p], samp[p]) THEN "UNKNOWN"
                ELSE Escalate(health, UpperThreshold(samp[p].backlog, Warn, Crit)),
     rate |-> Judge(last[p], samp[p])]

Finish(p) ==
    /\ pc[p] = "saved"
    /\ \E health \in Health : Die(p, Result(p, health))
    /\ claimed' = IF Rated(last[p], samp[p]) /\ Total(samp[p]) > claimed THEN Total(samp[p]) ELSE claimed
    /\ UNCHANGED <<time, server, exists, rec, overlapped>>

\* The alarm quits, which flushes what has been printed: all of the line, or so
\* little that no run can parse it.
Timeout(p) ==
    /\ pc[p] # "idle"
    /\ Die(p, Ends("UNKNOWN"))
    /\ \/ rec' = rec
       \/ pc[p] = "truncated" /\ rec' = Line(p)
    /\ UNCHANGED <<time, server, exists, claimed, overlapped>>

\* SIGKILL: the buffer is lost, the kernel drops the lock.
Kill(p) ==
    /\ pc[p] # "idle"
    /\ Die(p, NoResult)
    /\ UNCHANGED <<time, server, exists, rec, claimed, overlapped>>

Run(p) == \/ Measure(p) \/ Unanswered(p) \/ TestFile(p) \/ OpenFile(p) \/ Lock(p) \/ LockBusy(p)
          \/ Replace(p) \/ Close(p) \/ Finish(p)

-----------------------------------------------------------------------------
(* The clock and the server *)

Clock ==
    /\ time' \in 1..MaxTime /\ time' <= time + 1
    /\ UNCHANGED <<server, store, pc, local, out, claimed, overlapped>>

Packet ==
    /\ packets < MaxPackets
    /\ packets' = packets + 1
    /\ UNCHANGED <<time, restarts, past, store, pc, local, out, claimed, overlapped>>

Restart ==
    /\ restarts < MaxRestarts
    /\ restarts' = restarts + 1 /\ past' = past + packets
    /\ packets' = 0
    /\ UNCHANGED <<time, store, pc, local, out, claimed, overlapped>>

Next == \/ Clock \/ Packet \/ Restart
        \/ \E p \in Proc : Run(p) \/ Timeout(p) \/ Kill(p)

Spec == Init /\ [][Next]_vars

-----------------------------------------------------------------------------
(* The abstract check *)

\* A run has its base from its read on, and leaves its own sample when it closes
\* the file: that is when its result is settled, although it is printed later.
NextBase ==
    IF \E p \in Proc : pc[p] = "truncated"
    THEN last[CHOOSE p \in Proc : pc[p] = "truncated"]
    ELSE rec

Settled == [p \in Proc |-> IF pc[p] = "saved" THEN Judge(last[p], samp[p]) ELSE out[p].rate]

Abstract == INSTANCE RateCheck WITH
    Samples <- [ts : 1..MaxTime, packets : 0..MaxPackets, backlog : 0..MaxBacklog,
                past : 0..(MaxPackets * MaxRestarts)],
    NoResult <- NoResult.rate, Unknown <- Unrated, base <- NextBase, out <- Settled

-----------------------------------------------------------------------------
(* Properties *)

\* Every variable ranges over its type.
TypeOK ==
    /\ time \in 1..MaxTime /\ packets \in 0..MaxPackets
    /\ restarts \in 0..MaxRestarts /\ past \in Nat
    /\ exists \in BOOLEAN /\ rec \in SampleOf(Nat) /\ lock \in SUBSET Proc
    /\ pc \in [Proc -> PCs] /\ found \in [Proc -> BOOLEAN]
    /\ samp \in [Proc -> SampleOf(Nat)] /\ last \in [Proc -> SampleOf(Nat)]
    /\ \A p \in Proc : out[p].status \in Statuses \cup {"NONE"} /\ out[p].rate >= -2
    /\ claimed \in Nat /\ overlapped \in BOOLEAN

\* As long as no two runs have overlapped no packet is in two reported rates,
\* through kills, timeouts, clock steps and restarts of the server.
ClaimsAreDisjoint ==
    ~overlapped => \A p \in Proc : pc[p] = "saved" /\ Rated(last[p], samp[p]) => Total(last[p]) >= claimed

\* Overlapping runs are serialised, although the file is free again before a run
\* has judged: each rate is relative to the sample of the run before it, and a
\* run that is killed between emptying and writing the file loses the sample but
\* never leaves an older one to be used again.
Serialised == Abstract!Spec

\* "defaults to 0,10 => warning if greater than zero, critical if greater than 10"
\* (check_zookeeper.pl:52): also when the backlog was longer still the last time.
BacklogIsCritical ==
    \A p \in Proc, health \in Health :
        pc[p] = "saved" /\ samp[p].backlog > Crit /\ Secs(last[p], samp[p]) >= 0 /\ samp[p].packets >= last[p].packets
            => Result(p, health).status = "CRITICAL"
=============================================================================
