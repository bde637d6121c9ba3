----------------------------- MODULE KeyCanary -----------------------------
(***************************************************************************)
(* The read/write plugins for key-value stores: check_redis_write.pl (also *)
(* as check_redis_write_replication.pl), check_memcached_write.pl (also as *)
(* check_couchbase_write_replication.pl), check_mongodb_write.pl,          *)
(* check_riak_write.pl and check_hbase_write.py.  Each writes a unique key *)
(* with a random value, reads it back, compares it and deletes it; the     *)
(* replication plugins read it from a replica after a delay.               *)
(*                                                                         *)
(* One run is modelled: a key belongs to one run, so runs do not meet.     *)
(* Time is counted from its set_timeout().  The store may lose or change   *)
(* the key at any moment and replicates in order, Lag at most behind.      *)
(***************************************************************************)
EXTENDS Nagios, Sequences

CONSTANTS Delays,    \* the values of --slave-delay
          Lag,       \* the replica is never further behind than this
          Alarm,     \* --timeout
          MaxFaults  \* bound: losses and changes of the key by the store

Plugins == {"redis", "redis_replication", "memcached", "couchbase_replication",
            "mongodb", "riak", "hbase"}

ASSUME ConstantsAssumption ==
    /\ Delays \subseteq Nat /\ Lag \in Nat /\ Alarm \in Nat \ {0} /\ MaxFaults \in Nat

VARIABLES kind,      \* which plugin runs
          delay,     \* --slave-delay, of the replication plugins
          deleted,   \* --slave-deleted, of the Redis replication plugin
          now,       \* time since set_timeout()
          primary, replica,  \* the key's value in each copy
          stream,   \* changes of the primary on their way: [value, sent]
          expiry,   \* when the store drops the key by itself, 0 for never
          faults,   \* losses and changes so far
          held,     \* history: the replica has held the value
          linked,   \* has the plugin had an answer to all it asked the primary?
          step,     \* the operation that comes next
          wake,     \* when the sleep before the read ends
          read,     \* history: the value read back, "unread" before that
          status,   \* the global $status
          out       \* the result, and why

options == <<kind, delay, deleted>>
plugin  == <<options, linked, step, wake, read, status, out>>
store   == <<primary, replica, stream, expiry, faults, held>>
vars    == <<now, plugin, store>>

\* What tells the plugins apart: do they read from a replica, how long does the
\* store keep the key (0: for ever), the result of finding nothing to read, whether
\* they take deleting nothing for a failure, and whether they go on when the
\* connection ends without an answer (the loop over the lines has none to look at).
Redis     == [replica |-> kind = "redis_replication", ttl |-> 0,
              unread |-> "CRITICAL", strict |-> TRUE, deaf |-> FALSE]
Couchbase(ttl) == [replica |-> kind = "couchbase_replication", ttl |-> ttl,
                   unread |-> "CRITICAL", strict |-> TRUE, deaf |-> TRUE]
MemcachedEarly == Couchbase(Alarm \div 2)
MemcachedMillis == Couchbase(1000 * Alarm)
MemcachedForever == Couchbase(0)
Memcached == Couchbase(Alarm)
MongoDB   == [replica |-> FALSE, ttl |-> 0, unread |-> "WARNING", strict |-> FALSE, deaf |-> FALSE]
Riak      == [replica |-> FALSE, ttl |-> 0, unread |-> "CRITICAL", strict |-> TRUE, deaf |-> FALSE]
HBase     == [replica |-> FALSE, ttl |-> 0, unread |-> "CRITICAL", strict |-> FALSE, deaf |-> FALSE]

Profile == CASE kind \in {"redis", "redis_replication"} -> Redis
             [] kind \in {"memcached", "couchbase_replication"} -> Memcached
             [] kind = "mongodb" -> MongoDB
             [] kind = "riak" -> Riak
             [] kind = "hbase" -> HBase

Values == {"absent", "ours", "other"}
Active == {"connect", "write", "wait", "read", "delete", "recheck"}
Horizon == 2 * Alarm + Lag + 1

Init ==
    /\ kind \in Plugins
    /\ delay \in IF Profile.replica THEN Delays ELSE {0}
    /\ deleted \in IF kind = "redis_replication" THEN BOOLEAN ELSE {FALSE}
    /\ now = 0
    /\ primary = "absent" /\ replica = "absent" /\ stream = <<>>
    /\ expiry = 0 /\ faults = 0 /\ held = FALSE
    /\ linked = TRUE
    /\ step = "connect" /\ wake = 0 /\ read = "unread" /\ status = "OK"
    /\ out = [status |-> "NONE", why |-> ""]

-----------------------------------------------------------------------------
(* The store *)

Becomes(value) ==
    /\ primary' = value
    /\ stream' = IF Profile.replica THEN Append(stream, [value |-> value, sent |-> now])
                                    ELSE stream

Replicate ==
    /\ stream # <<>>
    /\ replica' = Head(stream).value /\ stream' = Tail(stream)
    /\ held' = (held \/ Head(stream).value = "ours")
    /\ UNCHANGED <<now, plugin, primary, expiry, faults>>

Fault ==
    /\ primary = "ours" /\ faults < MaxFaults
    /\ faults' = faults + 1
    /\ \E value \in {"absent", "other"} : Becomes(value)
    /\ UNCHANGED <<now, plugin, replica, expiry, held>>

Due == expiry # 0 /\ expiry <= now /\ primary # "absent"

Expire ==
    /\ Due
    /\ Becomes("absent")
    /\ UNCHANGED <<now, plugin, replica, expiry, faults, held>>

Late == stream # <<>> /\ Head(stream).sent + Lag <= now

Tick ==
    /\ now < Horizon /\ ~Late /\ ~Due
    /\ step \in Active => now < Alarm
    /\ now' = now + 1
    /\ UNCHANGED <<plugin, store>>

-----------------------------------------------------------------------------
(* The plugin *)

\* The alarm comes before anything else that happens at its second.
InTime == now < Alarm

Quit(s, why) ==
    /\ step' = "done" /\ out' = [status |-> s, why |-> why]
    /\ UNCHANGED <<options, status>>

GoOn(s) == step' = s /\ UNCHANGED <<options, status, out>>

\* Every operation can fail: refused, connection lost, not acknowledged.
Refused ==
    /\ step \in Active \ {"wait"} /\ InTime
    /\ Quit("CRITICAL", "error")
    /\ UNCHANGED <<now, store, linked, wake, read>>

Connect ==
    /\ step = "connect" /\ InTime
    /\ GoOn("write")
    /\ UNCHANGED <<now, store, linked, wake, read>>

Expiry == IF Profile.ttl = 0 THEN 0 ELSE now + Profile.ttl

Write ==
    /\ step = "write" /\ InTime
    /\ Becomes("ours")
    /\ expiry' = Expiry
    /\ GoOn(IF Profile.replica THEN "wait" ELSE "read")
    /\ wake' = now + delay
    /\ UNCHANGED <<now, replica, faults, held, linked, read>>

SleptNone == TRUE
SleptEnough == now >= wake

Wait ==
    /\ step = "wait" /\ InTime /\ SleptEnough
    /\ GoOn("read")
    /\ UNCHANGED <<now, store, linked, wake, read>>

CopyOfPrimary == primary
Copy == IF Profile.replica THEN replica ELSE primary

ReadBackAnything ==
    /\ step = "read" /\ InTime
    /\ read' = Copy
    /\ GoOn("delete")
    /\ UNCHANGED <<now, store, linked, wake>>

\* A value that differs ends the run, and the key is left as it is.
ReadBack ==
    /\ step = "read" /\ InTime /\ (Profile.replica \/ linked)
    /\ read' = Copy
    /\ \/ Copy = "ours" /\ GoOn("delete")
       \/ Copy = "other" /\ Quit("CRITICAL", "mismatch")
       \/ Copy = "absent" /\ Profile.unread = "CRITICAL" /\ Quit("CRITICAL", "unread")
       \/ /\ Copy = "absent" /\ Profile.unread = "WARNING"
          /\ status' = Escalate(status, "WARNING")
          /\ step' = "delete" /\ UNCHANGED <<options, out>>
    /\ UNCHANGED <<now, store, linked, wake>>

\* The thresholds on the three timings may raise the status.
Finish == \E level \in {"OK", "WARNING", "CRITICAL"} : Quit(Escalate(status, level), "timings")

MissingIsFailure == Profile.strict

Delete ==
    /\ step = "delete" /\ InTime /\ linked
    /\ IF primary = "absent" THEN UNCHANGED <<primary, stream>> ELSE Becomes("absent")
    /\ \/ primary = "absent" /\ MissingIsFailure /\ Quit("CRITICAL", "undeleted")
       \/ /\ primary # "absent" \/ ~MissingIsFailure
          /\ IF deleted THEN GoOn("recheck") ELSE Finish
    /\ UNCHANGED <<now, replica, expiry, faults, held, linked, wake, read>>

\* The primary closes the connection before it answers the write or the delete,
\* done or not.  It does nothing that is asked of it later, and a delete can still be
\* sent to it: the end of the connection passes for its answer as well.
Unanswered ==
    /\ step \in {"write", "delete"} /\ InTime /\ Profile.deaf
    /\ linked' = FALSE
    /\ \/ UNCHANGED <<primary, stream, expiry>>
       \/ step = "write" /\ Becomes("ours") /\ expiry' = Expiry
       \/ step = "delete" /\ linked /\ Becomes("absent") /\ UNCHANGED expiry
    /\ IF step = "write" THEN GoOn(IF Profile.replica THEN "wait" ELSE "read") ELSE Finish
    /\ wake' = now + delay
    /\ UNCHANGED <<now, replica, faults, held, read>>

\* The message of this step promises a wait, and there is none.
CheckGone ==
    /\ step = "recheck" /\ InTime
    /\ IF replica # "absent" THEN Quit("CRITICAL", "unreplicated") ELSE Finish
    /\ UNCHANGED <<now, store, linked, wake, read>>

Timeout ==
    /\ step \in Active /\ ~InTime
    /\ Quit("UNKNOWN", "timeout")
    /\ UNCHANGED <<now, store, linked, wake, read>>

Run == Connect \/ Write \/ Wait \/ ReadBack \/ Delete \/ Unanswered \/ CheckGone
       \/ Refused \/ Timeout

Next == Run \/ Replicate \/ Fault \/ Expire \/ Tick

Spec == Init /\ [][Next]_vars

\* Time passes, the store does what is due, and the alarm is delivered.
LiveSpec == Spec /\ WF_vars(Tick) /\ WF_vars(Replicate) /\ WF_vars(Expire)
                 /\ WF_vars(Timeout)

-----------------------------------------------------------------------------
(* Properties *)

TypeOK ==
    /\ now \in 0..Horizon /\ faults \in 0..MaxFaults
    /\ primary \in Values /\ replica \in Values /\ read \in Values \cup {"unread"}
    /\ held \in BOOLEAN /\ linked \in BOOLEAN
    /\ \A i \in 1..Len(stream) : stream[i] \in [value : Values, sent : 0..now]
    /\ expiry \in 0..(2 * Alarm) /\ wake \in 0..(Alarm + delay)
    /\ step \in Active \cup {"done"} /\ status \in {"OK", "WARNING"}
    /\ out.status \in Statuses \cup {"NONE"}

\* A result other than a failure vouches for the whole cycle: the value was read
\* back (from the replica where there is one) and the primary has given up the
\* key.  With --slave-deleted the replica has given it up too, or never got it.
\* MongoDB's plugin warns when it found no document.  Of a delete that memcached did
\* not answer nothing is known, although its plugin "checks deleted occurred
\* successfully" (check_memcached_write.pl:19).
ResultVouches ==
    out.status \in {"OK", "WARNING"} =>
        /\ linked => primary = "absent"
        /\ read = "ours" \/ (kind = "mongodb" /\ out.status = "WARNING" /\ read = "absent")
        /\ Profile.replica => held
        /\ deleted => replica = "absent"

\* "testing key content here to make sure that if there is anything suspicious we
\* don't delete the key" (check_redis_write.pl:161): a key is deleted only by a
\* run that read its own value from it, or that saw none.
SuspiciousIsKept == [][Delete => read \in {"ours", "absent"}]_vars

\* The key of the memcached and Couchbase plugins lives for --timeout seconds from
\* the write and the alarm rings --timeout seconds from before it: the key never
\* runs out under a run that still needs it.
OutlivesRun == step \in {"wait", "read", "delete"} /\ InTime => ~Due

\* A run of these plugins leaves nothing behind for ever, however it ends.
LeftoversGo ==
    step = "done" /\ kind \in {"memcached", "couchbase_replication"}
        ~> primary = "absent" /\ replica = "absent"

\* A replica that is always less than --slave-delay behind is not reported: a
\* write that was answered is read back after the delay.
PromptReplicaIsRead ==
    Lag < delay /\ faults = 0 /\ linked => out.why \notin {"unread", "mismatch"}

\* The same for the delete: --slave-deleted "waits --slave-delay secs after
\* delete" (check_redis_write.pl:67).
PromptReplicaDeletes == Lag < delay /\ faults = 0 => out.why # "unreplicated"
=============================================================================
