----------------------------- MODULE KafkaCheck ----------------------------
(***************************************************************************)
(* check_kafka.pl and its port check_kafka.py: note the latest offset of a *)
(* partition, produce a unique message, sleep, fetch once from that offset *)
(* and look for the message in what came back.                             *)
(*                                                                         *)
(* A partition is a log of messages of which the leader has replicated a   *)
(* prefix; consumers are shown no more than that prefix, and what is not   *)
(* in it is lost with the leader.  Others produce to the topic meanwhile.  *)
(***************************************************************************)
EXTENDS Nagios, Sequences, SequencesExt, FiniteSets

CONSTANTS MaxAttempts,   \* bound: --send-max-attempts
          Batch,         \* a fetch returns so many messages at most
          MaxOthers, MaxLosses  \* bounds: messages of others, leaders lost

ASSUME ConstantsAssumption ==
    /\ MaxAttempts \in Nat \ {0} /\ Batch \in Nat \ {0}
    /\ MaxOthers \in Nat /\ MaxLosses \in Nat

VARIABLES python,      \* check_kafka.py, or else check_kafka.pl
          acks,        \* --required-acks as given, "none" if not
          sendAttempts,   \* --send-max-attempts, 1 for the port
          ignoreInvalid,  \* --ignore-invalid-messages
          log,         \* the partition: "ours", "other" or "invalid" messages
          replicated,  \* the prefix that all in-sync replicas have
          others, losses,
          step,        \* where the plugin is
          offset,      \* $$offsets[0], start_offset
          attempts,    \* sends that were tried
          fetched,     \* the messages the fetch returned
          out          \* the result, and why

options == <<python, acks, sendAttempts, ignoreInvalid>>
partition == <<log, replicated, others, losses>>
plugin == <<options, step, offset, attempts, fetched, out>>
vars == <<partition, plugin>>

Messages == {"ours", "other", "invalid"}

Init ==
    /\ python \in BOOLEAN
    /\ acks \in IF python THEN {"none", "ISR"} ELSE {"none", "LOG", "LOCAL_LOG", "ISR"}
    /\ sendAttempts \in IF python THEN {1} ELSE 1..MaxAttempts
    /\ ignoreInvalid \in IF python THEN {FALSE} ELSE BOOLEAN
    /\ log \in {<<>>, <<"other">>} /\ replicated = Len(log)
    /\ others = 0 /\ losses = 0
    /\ step = "options" /\ offset = 0 /\ attempts = 0 /\ fetched = <<>>
    /\ out = [status |-> "NONE", why |-> ""]

-----------------------------------------------------------------------------
(* The partition *)

Produce ==
    /\ others < MaxOthers /\ step # "done"
    /\ others' = others + 1
    /\ \E m \in {"other", "invalid"} : log' = Append(log, m)
    /\ UNCHANGED <<replicated, losses, plugin>>

ReplicaCatchesUp ==
    /\ replicated < Len(log)
    /\ replicated' = replicated + 1
    /\ UNCHANGED <<log, others, losses, plugin>>

LoseLeader ==
    /\ losses < MaxLosses /\ step # "done"
    /\ losses' = losses + 1
    /\ log' = SubSeq(log, 1, replicated)
    /\ UNCHANGED <<replicated, others, plugin>>

-----------------------------------------------------------------------------
(* The plugin *)

Quit(status, why) == step' = "done" /\ out' = [status |-> status, why |-> why]
GoOn(s) == step' = s /\ UNCHANGED out

\* Of --required-acks the Perl plugin takes "ISR", "LOCAL_LOG" and numbers, and not
\* the "LOG" that its usage calls the default (check_kafka.pl:80).
Accepted == acks \in {"none", "ISR", "LOCAL_LOG"}

Options ==
    /\ step = "options"
    /\ IF Accepted THEN GoOn("offset") ELSE Quit("UNKNOWN", "usage")
    /\ UNCHANGED <<options, partition, offset, attempts, fetched>>

\* Any request can fail.
Refused ==
    /\ step \in {"offset", "send", "fetch"}
    /\ Quit("CRITICAL", "error")
    /\ UNCHANGED <<options, partition, offset, attempts, fetched>>

EndOfLog == Len(log)
LatestOffset == replicated

RecordOffset ==
    /\ step = "offset"
    /\ offset' = LatestOffset
    /\ GoOn("send")
    /\ UNCHANGED <<options, partition, attempts, fetched>>

\* The message is written or lost on its way; only the acknowledgement tells.
Send ==
    /\ step = "send" /\ attempts < sendAttempts
    /\ attempts' = attempts + 1
    /\ log' \in {log, Append(log, "ours")}
    /\ GoOn("ack")
    /\ UNCHANGED <<options, replicated, others, losses, offset, fetched>>

OursWritten == Contains(log, "ours")
OursReplicated == \E i \in 1..replicated : log[i] = "ours"
Acked == IF acks = "ISR" THEN OursReplicated ELSE OursWritten

Acknowledged ==
    /\ step = "ack" /\ Acked
    /\ GoOn("fetch")
    /\ UNCHANGED <<options, partition, offset, attempts, fetched>>

\* The acknowledgement does not come: the library sends again, or gives up.  The
\* port's send() returns a future that nobody looks at.
Resend == attempts < sendAttempts

Unacknowledged ==
    /\ step = "ack"
    /\ \/ Resend /\ GoOn("send")
       \/ ~Resend /\ ~python /\ Quit("CRITICAL", "unsent")
       \/ ~Resend /\ python /\ GoOn("fetch")
    /\ UNCHANGED <<options, partition, offset, attempts, fetched>>

FromTheNext == offset + 2
From == offset + 1
Visible == SubSeq(log, From, IF replicated < offset + Batch THEN replicated ELSE offset + Batch)

\* The port's poll() returns as soon as there is anything at all.
Fetch ==
    /\ step = "fetch"
    /\ fetched' = Visible
    /\ IF Visible = <<>> THEN Quit(IF python THEN "UNKNOWN" ELSE "CRITICAL", "nothing")
                         ELSE GoOn("search")
    /\ UNCHANGED <<options, partition, offset, attempts>>

Ours(messages) == {i \in DOMAIN messages : messages[i] = "ours"}

FoundInAll == Len(fetched)
Found == Cardinality(Ours(fetched))

SearchPerl ==
    IF Contains(fetched, "invalid") /\ ~ignoreInvalid THEN Quit("CRITICAL", "invalid")
    ELSE CASE Found = 1 -> Quit("OK", "returned")
           [] Found > 1 -> Quit("WARNING", "returned several times")
           [] Found = 0 -> Quit("CRITICAL", "not returned")

\* The port stops at the first message with its key, and then holds the time that
\* producing and consuming took against its thresholds, which it has by default.
SearchPython ==
    IF Found > 0 THEN \/ Quit("OK", "returned")
                      \/ \E status \in {"WARNING", "CRITICAL"} : Quit(status, "slow")
                 ELSE Quit("UNKNOWN", "not returned")

Search ==
    /\ step = "search"
    /\ IF python THEN SearchPython ELSE SearchPerl
    /\ UNCHANGED <<options, partition, offset, attempts, fetched>>

Run == \/ Options \/ RecordOffset \/ Send \/ Acknowledged \/ Unacknowledged
       \/ Fetch \/ Search \/ Refused

Next == Run \/ Produce \/ ReplicaCatchesUp \/ LoseLeader

Spec == Init /\ [][Next]_vars

-----------------------------------------------------------------------------
(* Properties *)

TypeOK ==
    /\ log \in Seq(Messages) /\ replicated \in 0..Len(log)
    /\ offset \in 0..replicated /\ attempts \in 0..sendAttempts
    /\ fetched \in Seq(Messages) /\ Len(fetched) <= Batch
    /\ step \in {"options", "offset", "send", "ack", "fetch", "search", "done"}
    /\ out.status \in Statuses \cup {"NONE"}

\* OK means that the message came through the brokers: every in-sync replica
\* holds it and no lost leader can take it back, with whatever acknowledgements.
\* So does an alarm for nothing but the time it took.
OkMeansThrough == out.status = "OK" \/ out.why = "slow" => OursReplicated

\* "message returned $found times": a WARNING that is not for the time is about
\* messages that are there several times, and a plugin that sends once never gives it.
WarningMeansDuplicate ==
    out.status = "WARNING" /\ out.why # "slow" =>
        sendAttempts > 1 /\ Cardinality(Ours(log)) > 1

\* A message that all replicas acknowledged is found, in a topic nobody else
\* writes to, whatever leaders are lost: the offset is taken before the send and
\* the fetch starts right at it.
QuietTopicIsFound ==
    acks = "ISR" /\ ~python /\ others = 0 => out.why \notin {"nothing", "not returned"}
=============================================================================
