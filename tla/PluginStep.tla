----------------------------- MODULE PluginStep -----------------------------
(***************************************************************************)
(* What a plugin does next.  A plugin that takes no state from run to run  *)
(* is a function of its options and of the answers it has had so far: it   *)
(* either asks for something (runs a command, sends a request, reads a     *)
(* file) or exits.  The modules of plugins define such functions; the      *)
(* machine PluginRun runs them against a system that changes meanwhile.    *)
(***************************************************************************)
EXTENDS Nagios, Sequences, SequencesExt, FiniteSets, FiniteSetsExt

Ask(request) == [ask |-> request]
Exit(status) == [exit |-> status]
Exits(s) == "exit" \in DOMAIN s

\* An answer that the function which reads it already exits on.
Fatal(status) == [fatal |-> status]
IsFatal(a) == "fatal" \in DOMAIN a

\* An answer that only says to ask again.
NotYet == [wait |-> TRUE]
IsNotYet(seen) == seen # <<>> /\ "wait" \in DOMAIN Last(seen)

\* What RestNagiosPlugin makes of one HTTP request: CRITICAL when it fails,
\* UNKNOWN when the body is not the JSON that is expected.
HttpStates == {"up", "down", "garbled"}
Http(http, body) ==
    IF http = "up" THEN body ELSE IF http = "down" THEN Fatal("CRITICAL") ELSE Fatal("UNKNOWN")

\* How the base class ends a run on an exception that no plugin code handles.
Trapped == "UNKNOWN"

\* A check of one answer, and the first question of a longer one.
AskOnce(request, seen, verdict) == IF seen = <<>> THEN Ask(request)
                                   ELSE IF IsFatal(seen[1]) THEN Exit(seen[1].fatal) ELSE Exit(verdict)
Broken(seen) == seen # <<>> /\ IsFatal(Last(seen))

\* Lists of up to n items.
UpTo(items, n) == UNION {[1..k -> items] : k \in 0..n}
First(list, n) == SubSeq(list, 1, IF Len(list) < n THEN Len(list) ELSE n)

\* The worst of the states of some examined items.
Worst(states) ==
    IF states = {} THEN "OK"
    ELSE CHOOSE s \in states : \A t \in states : Severity[t] <= Severity[s]

\* self.critical(), self.warning() on a condition, over a status so far.
If(cond, status) == IF cond THEN status ELSE "OK"
Both(s, t) == Escalate(s, t)

\* pylib's check_thresholds: WARNING and CRITICAL ranges with an upper bound
\* (NoLimit: not given), and with a lower bound.
NoLimit == -1
Above(value, limit) == limit # NoLimit /\ value > limit
Below(value, limit) == limit # NoLimit /\ value < limit
CheckUpper(value, warn, crit) ==
    IF Above(value, crit) THEN "CRITICAL" ELSE If(Above(value, warn), "WARNING")
CheckLower(value, warn, crit) ==
    IF Below(value, crit) THEN "CRITICAL" ELSE If(Below(value, warn), "WARNING")

\* The thresholds on how long the operations of a run took.  A duration is the
\* threshold that it is above, "OK" if it is above none.
Speeds == {"OK", "WARNING", "CRITICAL"}
CheckTimings(took) == IF "CRITICAL" \in took THEN "CRITICAL" ELSE If("WARNING" \in took, "WARNING")
=============================================================================
