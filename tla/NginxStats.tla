----------------------------- MODULE NginxStats -----------------------------
(***************************************************************************)
(* check_nginx_stats.pl: rates of connections and requests, from the       *)
(* counters of the nginx status page and the sample of an earlier run in   *)
(* the state file /tmp/<progname>.<host>.tmp.                              *)
(*                                                                         *)
(* Unlike check_linux_context_switches.pl a run takes the lock first and   *)
(* samples the server under it, and it rewrites the file only when time    *)
(* has passed.  A run that created the file, or found it empty, prints its *)
(* sample without truncating; when the file has got a longer one meanwhile *)
(* the tail of that stays behind it.                                       *)
(***************************************************************************)
EXTENDS Nagios

CONSTANTS Proc,        \* the runs that can be alive at a time
          MaxTime,     \* bound: last second of the clock
          MaxCount,    \* bound: connections and requests of one nginx process
          MaxRestarts  \* bound: restarts of nginx

ASSUME ConstantsAssumption ==
    /\ MaxTime \in Nat \ {0}
    /\ MaxCount \in Nat \ {0} /\ MaxRestarts \in Nat

VARIABLES time,      \* the wall clock, in seconds
          accepted, requests,  \* the counters of the nginx process
          restarts, past,  \* restarts, and (history) connections before them
          exists, rec,  \* the state file: is there one, and its contents
          lock,      \* the runs that hold the lock on it
          pc,        \* where each run is
          mode,      \* the mode each run opens the file with
          now,       \* the time each run compares and stamps with
          last,      \* the sample each run read, Blank if none
          samp,      \* the sample each run took
          out,       \* the result of each run, with its two rates
          claimed,   \* history: the connections rates were reported for
          overlapped \* history: has a run started while another was alive?

server == <<accepted, requests, restarts, past>>
store == <<exists, rec, lock>>
local == <<mode, now, last, samp>>
vars == <<time, server, store, pc, local, out, claimed, overlapped>>

-----------------------------------------------------------------------------

\* wide: does the text of the sample take more characters than others?
Blank == [ts |-> 0, accepted |-> 0, requests |-> 0, total |-> 0, wide |-> FALSE]
Garbled == [ts |-> 0, accepted |-> 0, requests |-> 0, total |-> 0, wide |-> TRUE]

Inside == {"locked", "read", "sampled", "reported"}
PCs == Inside \cup {"idle", "tested", "opened"}

Result(status, conns, reqs) == [status |-> status, conns |-> conns, reqs |-> reqs]
NoResult == Result("NONE", 0, 0)

Init ==
    /\ time = 1 /\ accepted = 1 /\ requests = 1 /\ restarts = 0 /\ past = 0
    /\ exists = FALSE /\ rec = Blank /\ lock = {}
    /\ pc = [p \in Proc |-> "idle"]
    /\ mode = [p \in Proc |-> "+<"]
    /\ now = [p \in Proc |-> 0]
    /\ last = [p \in Proc |-> Blank]
    /\ samp = [p \in Proc |-> Blank]
    /\ out = [p \in Proc |-> NoResult]
    /\ claimed = 0 /\ overlapped = FALSE

-----------------------------------------------------------------------------
(* A run of the plugin *)

Goto(p, from, to) == pc[p] = from /\ pc' = [pc EXCEPT ![p] = to]

Die(p) ==
    /\ pc' = [pc EXCEPT ![p] = "idle"]
    /\ mode' = [mode EXCEPT ![p] = "+<"]
    /\ now' = [now EXCEPT ![p] = 0]
    /\ last' = [last EXCEPT ![p] = Blank]
    /\ samp' = [samp EXCEPT ![p] = Blank]
    /\ lock' = lock \ {p}

Fails(p, status) ==
    /\ Die(p)
    /\ out' = [out EXCEPT ![p] = Result(status, 0, 0)]
    /\ UNCHANGED <<time, server, exists, rec, claimed, overlapped>>

TestFile(p) ==
    /\ Goto(p, "idle", "tested")
    /\ mode' = [mode EXCEPT ![p] = IF exists THEN "+<" ELSE "+>"]
    /\ out' = [out EXCEPT ![p] = NoResult]
    /\ overlapped' = (overlapped \/ \E q \in Proc : pc[q] # "idle")
    /\ UNCHANGED <<time, server, store, now, last, samp, claimed>>

OpenFile(p) ==
    /\ Goto(p, "tested", "opened")
    /\ exists' = TRUE
    /\ rec' = IF mode[p] = "+>" THEN Blank ELSE rec
    /\ UNCHANGED <<time, server, lock, local, out, claimed, overlapped>>

LockFreeUnchecked == TRUE
LockFree == lock = {}

Lock(p) ==
    /\ LockFree
    /\ Goto(p, "opened", "locked")
    /\ lock' = lock \cup {p}
    /\ UNCHANGED <<time, server, exists, rec, local, out, claimed, overlapped>>

LockBusy(p) == pc[p] = "opened" /\ ~LockFree /\ Fails(p, "UNKNOWN")

\* Only a file that existed when it was tested is read.
ReadState(p) ==
    /\ mode[p] = "+<" => rec # Garbled
    /\ Goto(p, "locked", "read")
    /\ last' = [last EXCEPT ![p] = IF mode[p] = "+<" THEN rec ELSE Blank]
    /\ now' = [now EXCEPT ![p] = time]
    /\ UNCHANGED <<time, server, store, mode, samp, out, claimed, overlapped>>

Unreadable(p) == pc[p] = "locked" /\ mode[p] = "+<" /\ rec = Garbled /\ Fails(p, "UNKNOWN")

GetStatus(p) ==
    /\ Goto(p, "read", "sampled")
    /\ \E wide \in BOOLEAN :
          samp' = [samp EXCEPT ![p] =
                      [ts |-> now[p], accepted |-> accepted, requests |-> requests,
                       total |-> past + accepted, wide |-> wide]]
    /\ UNCHANGED <<time, server, store, mode, now, last, out, claimed, overlapped>>

\* No answer, or one that makes no sense.
BadStatus(p) == pc[p] = "read" /\ Fails(p, "CRITICAL")

\* diff_secs: 0 without a last state, and 0 if that is from now or the future.
Secs(p) == IF last[p].ts > 0 /\ last[p].ts < now[p] THEN now[p] - last[p].ts ELSE 0
NotResetUnchecked(p) == TRUE
NotReset(p) == samp[p].accepted >= last[p].accepted
Rated(p) == mode[p] = "+<" /\ NotReset(p) /\ Secs(p) > 0

\* int() of a quotient cuts towards zero.
Per(n, secs) == IF n >= 0 THEN n \div secs ELSE -((-n) \div secs)

TruncatesNever(p) == FALSE
Truncates(p) == Secs(p) > 0

\* The rates, or N/A.  The status is that of the active connections.  The file is
\* truncated if time has passed; the sample stays in the buffer.
Report(p) ==
    /\ Goto(p, "sampled", "reported")
    /\ \E status \in {"OK", "WARNING", "CRITICAL"} :
          out' = [out EXCEPT ![p] =
                    IF Rated(p)
                    THEN Result(status, Per(samp[p].accepted - last[p].accepted, Secs(p)),
                                        Per(samp[p].requests - last[p].requests, Secs(p)))
                    ELSE Result(status, 0, 0)]
    /\ claimed' = IF Rated(p) THEN samp[p].total ELSE claimed
    /\ rec' = IF Truncates(p) THEN Blank ELSE rec
    /\ UNCHANGED <<time, server, exists, lock, local, overlapped>>

Prints(p) == Secs(p) > 0 \/ last[p].ts = 0

\* The buffer goes over what the file holds, from its start.
Overlay(old, new) == IF old.wide /\ ~new.wide THEN Garbled ELSE new

Exit(p) ==
    /\ pc[p] = "reported"
    /\ Die(p)
    /\ rec' = IF Prints(p) THEN Overlay(rec, samp[p]) ELSE rec
    /\ UNCHANGED <<time, server, exists, out, claimed, overlapped>>

Timeout(p) == pc[p] \notin {"idle", "reported"} /\ Fails(p, "UNKNOWN")

Kill(p) ==
    /\ pc[p] # "idle"
    /\ Die(p)
    /\ UNCHANGED <<time, server, exists, rec, out, claimed, overlapped>>

Run(p) == \/ TestFile(p) \/ OpenFile(p) \/ Lock(p) \/ LockBusy(p) \/ ReadState(p)
          \/ Unreadable(p) \/ GetStatus(p) \/ BadStatus(p) \/ Report(p) \/ Exit(p)

-----------------------------------------------------------------------------
(* The server and the clock *)

Clock ==
    /\ time' \in 1..MaxTime \ {time}
    /\ time' <= time + 1
    /\ UNCHANGED <<server, store, pc, local, out, claimed, overlapped>>

\* A connection carries one request or several, or none.
Connection ==
    /\ accepted < MaxCount
    /\ accepted' = accepted + 1
    /\ requests' \in requests..(accepted + 1)
    /\ UNCHANGED <<time, restarts, past, store, pc, local, out, claimed, overlapped>>

Request ==
    /\ requests < MaxCount
    /\ requests' = requests + 1
    /\ UNCHANGED <<time, accepted, restarts, past, store, pc, local, out, claimed, overlapped>>

RestartNginx ==
    /\ restarts < MaxRestarts
    /\ restarts' = restarts + 1
    /\ past' = past + accepted
    /\ accepted' = 1 /\ requests' = 1
    /\ UNCHANGED <<time, store, pc, local, out, claimed, overlapped>>

Next == \/ Clock \/ Connection \/ Request \/ RestartNginx
        \/ \E p \in Proc : Run(p) \/ Timeout(p) \/ Kill(p)

Spec == Init /\ [][Next]_vars

-----------------------------------------------------------------------------
(* Properties *)

SampleOK(s) ==
    /\ s.ts \in 0..MaxTime /\ s.accepted \in 0..MaxCount /\ s.requests \in 0..MaxCount
    /\ s.total \in 0..(MaxCount * (MaxRestarts + 1)) /\ s.wide \in BOOLEAN

TypeOK ==
    /\ time \in 1..MaxTime /\ SampleOK(rec) /\ lock \subseteq Proc
    /\ \A p \in Proc : /\ pc[p] \in PCs /\ SampleOK(last[p]) /\ SampleOK(samp[p])
                       /\ pc[p] \in Inside <=> p \in lock
                       /\ out[p].status \in Statuses \cup {"NONE"}
                       /\ out[p].conns \in 0..MaxCount

\* No connection is counted in two reported rates, and no rate is computed from
\* more connections than nginx took since the earlier sample: the lock is taken
\* before the server is asked, so this holds for overlapping runs as well.
ClaimsAreDisjointAndReal ==
    \A p \in Proc : pc[p] = "sampled" /\ Rated(p) =>
        /\ last[p].total >= claimed
        /\ samp[p].accepted - last[p].accepted \in 0..(samp[p].total - last[p].total)

\* The state file holds what the plugin expects of it, $state_regex of line 87,
\* or nothing, as long as no two runs have overlapped, whichever of them are killed
\* or interrupted: the sample is then never printed over a longer one.  If not,
\* this and every later run ends UNKNOWN.
AloneIsReadable == ~overlapped => rec # Garbled
=============================================================================
