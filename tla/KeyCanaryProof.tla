--------------------------- MODULE KeyCanaryProof ---------------------------
(* The write canaries of the key-value stores (KeyCanary) for any delays, lag  *)
(* and timeout, and any number of losses and changes of the key.              *)
EXTENDS KeyCanary, TLAPS

Changes == [value : Values, sent : Nat]

OptionsOK ==
    /\ kind \in Plugins /\ delay \in Nat /\ deleted \in BOOLEAN
    /\ deleted => kind = "redis_replication"
    /\ Profile.replica \/ delay = 0
    /\ status = "WARNING" => kind = "mongodb"
    /\ step # "done" => out.status = "NONE" /\ out.why = ""
Typed == TypeOK /\ OptionsOK /\ stream \in Seq(Changes)

\* A key that is gone stays so: on the primary, behind that in the stream, and
\* then in the replica.
GoneStays ==
    /\ \A i \in 1..Len(stream) : stream[i].value = "absent" =>
          primary = "absent" /\ \A j \in i..Len(stream) : stream[j].value = "absent"
    /\ held /\ replica = "absent" =>
          primary = "absent" /\ \A i \in 1..Len(stream) : stream[i].value = "absent"
    /\ replica = "ours" => held

\* The stream is in order, and none of it is further behind than Lag.
InOrder ==
    /\ \A i, j \in 1..Len(stream) : i <= j => stream[i].sent <= stream[j].sent
    /\ \A i \in 1..Len(stream) : stream[i].sent + Lag >= now

StoreInv == GoneStays /\ InOrder

\* Nothing is there before the write, and what is written lives long enough.
Fresh ==
    /\ step \in {"connect", "write"} =>
          stream = <<>> /\ primary = "absent" /\ replica = "absent" /\ ~held /\ linked
    /\ expiry = 0 \/ expiry >= Alarm

\* What lets the run delete the key, and what it has done after that.
Seen ==
    /\ step \in {"delete", "recheck"} =>
          /\ read = "ours" \/ (kind = "mongodb" /\ status = "WARNING" /\ read = "absent")
          /\ Profile.replica => held
    /\ step = "recheck" => linked /\ primary = "absent" /\ deleted

\* The value between the write and the read: on its way, or in the replica.
OnItsWay ==
    /\ step = "read" /\ Profile.replica => now >= wake
    /\ step \in {"wait", "read"} /\ Profile.replica /\ faults = 0 /\ linked /\ now < Alarm =>
          /\ primary = "ours"
          /\ \/ Len(stream) = 1 /\ stream[1].value = "ours" /\ stream[1].sent + delay = wake
             \/ stream = <<>> /\ replica = "ours"

RunInv == Fresh /\ Seen /\ OnItsWay /\ ResultVouches /\ PromptReplicaIsRead

IInv == Typed /\ StoreInv /\ RunInv

-----------------------------------------------------------------------------

LEMMA ProfileFacts ==
    ASSUME kind \in Plugins
    PROVE  /\ Profile.replica \in BOOLEAN /\ Profile.deaf \in BOOLEAN
           /\ Profile.ttl \in {0, Alarm}
           /\ Profile.unread \in {"CRITICAL", "WARNING"}
           /\ Profile.unread = "WARNING" <=> kind = "mongodb"
           /\ kind = "redis_replication" => Profile.replica /\ ~Profile.deaf
           /\ kind = "mongodb" => ~Profile.replica
           /\ Profile.strict \in BOOLEAN
BY DEF Plugins, Profile, Redis, Memcached, Couchbase, MongoDB, Riak, HBase

LEMMA ProfileStays == kind' = kind => Profile' = Profile
BY DEF Profile, Redis, Memcached, Couchbase, MongoDB, Riak, HBase

LEMMA EscalateFacts ==
    ASSUME NEW s \in {"OK", "WARNING"}, NEW level \in {"OK", "WARNING", "CRITICAL"}
    PROVE  /\ Escalate(s, level) \in {"OK", "WARNING", "CRITICAL"}
           /\ s = "WARNING" => Escalate(s, level) # "OK"
           /\ Escalate(s, "WARNING") = "WARNING"
BY DEF Escalate, Severity

LEMMA InitInv == Init => IInv
<1> SUFFICES ASSUME Init PROVE IInv
  OBVIOUS
<1>0. /\ now = 0 /\ primary = "absent" /\ replica = "absent" /\ expiry = 0 /\ faults = 0 /\ wake = 0
      /\ step = "connect" /\ read = "unread" /\ status = "OK" /\ out.status = "NONE" /\ out.why = ""
  BY DEF Init
<1>n. now = 0 /\ expiry = 0 /\ faults = 0 /\ wake = 0
  BY DEF Init
<1>1. held = FALSE /\ linked = TRUE /\ kind \in Plugins
  BY DEF Init
<1>2. stream = <<>> /\ stream \in Seq(Changes) /\ Len(stream) = 0
  <2>1. stream = <<>>
    BY DEF Init
  <2> QED
    BY <2>1
<1>e. \A i \in 1..Len(stream) : FALSE
  BY <1>2
<1>3. Alarm \in Nat \ {0} /\ Lag \in Nat /\ MaxFaults \in Nat /\ Delays \subseteq Nat
  BY ConstantsAssumption
<1>4. delay \in Nat /\ (Profile.replica \/ delay = 0)
  <2>1. delay \in IF Profile.replica THEN Delays ELSE {0}
    BY DEF Init
  <2>2. CASE Profile.replica
    BY <1>3, <2>1, <2>2
  <2>3. CASE ~Profile.replica
    BY <2>1, <2>3
  <2> QED
    BY <2>2, <2>3
<1>5. deleted \in BOOLEAN /\ (deleted => kind = "redis_replication")
  BY DEF Init
<1>6. OptionsOK
  BY <1>0, <1>1, <1>4, <1>5 DEF OptionsOK
<1>7. TypeOK
  <2>c. Alarm \in Nat /\ Lag \in Nat /\ MaxFaults \in Nat /\ delay \in Nat
    BY <1>3, <1>4
  <2>1. now \in 0..Horizon
    BY <1>n, <2>c DEF Horizon
  <2>2. faults \in 0..MaxFaults /\ expiry \in 0..(2 * Alarm)
    BY <1>n, <2>c
  <2>6. wake \in 0..(Alarm + delay)
    BY <1>n, <2>c
  <2>3. step \in Active
    BY <1>0 DEF Active
  <2>4. primary \in Values /\ replica \in Values
    BY <1>0 DEF Values
  <2> QED
    BY <1>0, <1>1, <1>e, <2>1, <2>2, <2>3, <2>4, <2>6 DEF TypeOK
<1>8. StoreInv
  BY <1>0, <1>1, <1>e DEF StoreInv, GoneStays, InOrder
<1>9. RunInv
  BY <1>0, <1>1, <1>2 DEF RunInv, Fresh, Seen, OnItsWay, ResultVouches, PromptReplicaIsRead
<1> QED
  BY <1>2, <1>6, <1>7, <1>8, <1>9 DEF IInv, Typed

-----------------------------------------------------------------------------
(* The store *)

\* A value that is not "absent" is for a key that is there, or for a new one.
LEMMA BecomesKeeps ==
    ASSUME Typed, StoreInv, NEW v \in Values, Becomes(v),
           v # "absent" => primary = "ours" \/ (stream = <<>> /\ ~held),
           kind' = kind, replica' = replica, held' = held, now' = now
    PROVE  /\ StoreInv' /\ stream' \in Seq(Changes) /\ primary' = v
           /\ \A i \in 1..Len(stream') : stream'[i] \in [value : Values, sent : 0..now]
           /\ Len(stream) = 0 /\ Profile.replica =>
                 Len(stream') = 1 /\ stream'[1].value = v /\ stream'[1].sent = now
           /\ ~Profile.replica => stream' = stream
<1>1. /\ now \in Nat /\ Lag \in Nat /\ stream \in Seq(Changes) /\ Len(stream) \in Nat
      /\ \A i \in 1..Len(stream) : stream[i] \in [value : Values, sent : 0..now]
  <2>1. TypeOK /\ stream \in Seq(Changes)
    BY DEF Typed
  <2>2. now \in Nat
    BY <2>1 DEF TypeOK
  <2> QED
    BY <2>1, <2>2, ConstantsAssumption DEF TypeOK
<1>2. primary' = v
  BY DEF Becomes
<1>3. CASE ~Profile.replica
  <2>1. stream' = stream
    BY <1>3 DEF Becomes
  <2>2. \A i \in 1..Len(stream) : stream[i].value = "absent" => v = "absent"
    <3>1. stream = <<>> => Len(stream) = 0
      OBVIOUS
    <3> QED
      BY <1>1, <3>1 DEF StoreInv, GoneStays
  <2>3. GoneStays'
    BY <1>2, <2>1, <2>2 DEF StoreInv, GoneStays
  <2>4. InOrder'
    BY <2>1 DEF StoreInv, InOrder
  <2> QED
    BY <1>1, <1>2, <1>3, <2>1, <2>3, <2>4 DEF StoreInv
<1>4. CASE Profile.replica
  <2> DEFINE c == [value |-> v, sent |-> now]
  <2>1. stream' = Append(stream, c)
    BY <1>4 DEF Becomes
  <2>2. c \in Changes /\ c \in [value : Values, sent : 0..now] /\ c.value = v /\ c.sent = now
    BY <1>1 DEF Changes
  <2> HIDE DEF c
  <2>3. /\ stream' \in Seq(Changes) /\ Len(stream') = Len(stream) + 1
        /\ \A i \in 1..Len(stream) : stream'[i] = stream[i]
        /\ stream'[Len(stream) + 1] = c
    BY <1>1, <2>1, <2>2
  <2>4. \A i \in 1..Len(stream') : i \in 1..Len(stream) \/ i = Len(stream) + 1
    BY <1>1, <2>3
  <2>5. \A i \in 1..Len(stream') : stream'[i] \in [value : Values, sent : 0..now]
    BY <1>1, <2>2, <2>3, <2>4
  <2>6. v # "absent" => \A i \in 1..Len(stream) : stream[i].value # "absent"
    <3>1. stream = <<>> => Len(stream) = 0
      OBVIOUS
    <3> QED
      BY <1>1, <3>1 DEF StoreInv, GoneStays
  <2>7. GoneStays'
    <3>1. ASSUME NEW i \in 1..Len(stream'), stream'[i].value = "absent"
          PROVE  v = "absent" /\ \A j \in i..Len(stream') : stream'[j].value = "absent"
      <4>1. v = "absent"
        BY <2>2, <2>3, <2>4, <2>6, <3>1
      <4>2. ASSUME NEW j \in i..Len(stream') PROVE stream'[j].value = "absent"
        <5>1. CASE j = Len(stream) + 1
          BY <2>2, <2>3, <4>1, <5>1
        <5>2. CASE j # Len(stream) + 1
          <6>1. i \in 1..Len(stream) /\ j \in i..Len(stream) /\ j \in 1..Len(stream)
            BY <1>1, <2>3, <5>2
          <6>2. stream[i].value = "absent"
            BY <2>3, <3>1, <6>1
          <6>3. stream[j].value = "absent"
            BY <6>1, <6>2 DEF StoreInv, GoneStays
          <6> QED
            BY <2>3, <6>1, <6>3
        <5> QED
          BY <5>1, <5>2
      <4> QED
        BY <4>1, <4>2
    <3>2. held /\ replica = "absent" => v = "absent" /\ \A i \in 1..Len(stream') : stream'[i].value = "absent"
      <4> SUFFICES ASSUME held, replica = "absent"
                   PROVE  v = "absent" /\ \A i \in 1..Len(stream') : stream'[i].value = "absent"
        OBVIOUS
      <4>1. primary = "absent" /\ \A i \in 1..Len(stream) : stream[i].value = "absent"
        BY DEF StoreInv, GoneStays
      <4>2. v = "absent"
        BY <4>1
      <4> QED
        BY <2>2, <2>3, <2>4, <4>1, <4>2
    <3> QED
      BY <1>2, <3>1, <3>2 DEF StoreInv, GoneStays
  <2>8. InOrder'
    <3>1. ASSUME NEW i \in 1..Len(stream'), NEW j \in 1..Len(stream'), i <= j
          PROVE  stream'[i].sent <= stream'[j].sent
      <4>1. CASE j = Len(stream) + 1
        <5>1. stream'[i].sent \in 0..now
          BY <2>5
        <5> QED
          BY <1>1, <2>2, <2>3, <4>1, <5>1
      <4>2. CASE j # Len(stream) + 1
        <5>1. i \in 1..Len(stream) /\ j \in 1..Len(stream)
          BY <1>1, <2>3, <3>1, <4>2
        <5> QED
          BY <2>3, <3>1, <5>1 DEF StoreInv, InOrder
      <4> QED
        BY <4>1, <4>2
    <3>2. ASSUME NEW i \in 1..Len(stream')
          PROVE  stream'[i].sent + Lag >= now
      BY <1>1, <2>2, <2>3, <2>4 DEF StoreInv, InOrder
    <3> QED
      BY <3>1, <3>2 DEF InOrder
  <2>9. Len(stream) = 0 => Len(stream') = 1 /\ stream'[1].value = v /\ stream'[1].sent = now
    BY <2>2, <2>3
  <2> QED
    BY <1>2, <1>4, <2>3, <2>5, <2>7, <2>8, <2>9 DEF StoreInv
<1> QED
  BY <1>3, <1>4

LEMMA StoreKeeps ==
    ASSUME StoreInv, UNCHANGED <<primary, replica, stream, held, now>>
    PROVE  StoreInv'
BY DEF StoreInv, GoneStays, InOrder

\* What the replica takes is the oldest change; if that is "absent" so is the rest.
LEMMA ReplicateKeeps ==
    ASSUME Typed, StoreInv, stream # <<>>, replica' = Head(stream).value, stream' = Tail(stream),
           held' = (held \/ Head(stream).value = "ours"), primary' = primary, now' = now
    PROVE  /\ StoreInv' /\ stream' \in Seq(Changes) /\ replica' \in Values
           /\ \A i \in 1..Len(stream') : stream'[i] \in [value : Values, sent : 0..now]
           /\ held /\ replica = "absent" => replica' = "absent"
           /\ Len(stream) = 1 => stream' = <<>> /\ replica' = stream[1].value
           /\ held => held'
<1>1. /\ stream \in Seq(Changes) /\ Len(stream) \in Nat /\ Len(stream) >= 1
      /\ \A i \in 1..Len(stream) : stream[i] \in [value : Values, sent : 0..now]
  <2>1. TypeOK /\ stream \in Seq(Changes)
    BY DEF Typed
  <2> QED
    BY <2>1 DEF TypeOK
<1>2. /\ Tail(stream) \in Seq(Changes) /\ Len(Tail(stream)) = Len(stream) - 1
      /\ \A i \in 1..(Len(stream) - 1) : Tail(stream)[i] = stream[i + 1]
      /\ Head(stream) = stream[1]
  BY <1>1
<1>3. \A i \in 1..Len(stream') : stream'[i] = stream[i + 1] /\ i + 1 \in 1..Len(stream)
  BY <1>1, <1>2
<1>4. stream[1] \in [value : Values, sent : 0..now]
  BY <1>1
<1>5. replica' = stream[1].value /\ replica' \in Values
  BY <1>2, <1>4
<1>6. replica' = "absent" => primary = "absent" /\ \A i \in 1..Len(stream) : stream[i].value = "absent"
  BY <1>1, <1>5 DEF StoreInv, GoneStays
<1>7. held /\ replica = "absent" => replica' = "absent"
  BY <1>1, <1>5 DEF StoreInv, GoneStays
<1>8. GoneStays'
  <2>1. ASSUME NEW i \in 1..Len(stream'), stream'[i].value = "absent"
        PROVE  primary = "absent" /\ \A j \in i..Len(stream') : stream'[j].value = "absent"
    <3>1. stream[i + 1].value = "absent" /\ i + 1 \in 1..Len(stream)
      BY <1>3, <2>1
    <3>2. primary = "absent" /\ \A j \in (i + 1)..Len(stream) : stream[j].value = "absent"
      BY <3>1 DEF StoreInv, GoneStays
    <3>3. \A j \in i..Len(stream') : j \in 1..Len(stream') /\ j + 1 \in (i + 1)..Len(stream)
      BY <1>1, <1>2
    <3> QED
      BY <1>3, <3>2, <3>3
  <2>2. replica' = "absent" => primary = "absent" /\ \A i \in 1..Len(stream') : stream'[i].value = "absent"
    BY <1>3, <1>6
  <2>3. replica' = "ours" => held'
    BY <1>2, <1>5
  <2> QED
    BY <2>1, <2>2, <2>3 DEF GoneStays
<1>9. InOrder'
  <2>1. \A i, j \in 1..Len(stream') : i <= j => i + 1 <= j + 1
    BY <1>1, <1>2
  <2>2. \A i, j \in 1..Len(stream') : i <= j => stream'[i].sent <= stream'[j].sent
    BY <1>3, <2>1 DEF StoreInv, InOrder
  <2>3. \A i \in 1..Len(stream') : stream'[i].sent + Lag >= now
    BY <1>3 DEF StoreInv, InOrder
  <2> QED
    BY <2>2, <2>3 DEF InOrder
<1>10. Len(stream) = 1 => stream' = <<>>
  BY <1>1, <1>2
<1> QED
  BY <1>1, <1>2, <1>3, <1>5, <1>7, <1>8, <1>9, <1>10 DEF StoreInv

\* Time passes only if the oldest change may still be on its way.
LEMMA TickKeeps ==
    ASSUME Typed, StoreInv, ~Late, now' = now + 1, UNCHANGED <<primary, replica, stream, held>>
    PROVE  StoreInv'
<1>1. /\ now \in Nat /\ Lag \in Nat /\ stream \in Seq(Changes) /\ Len(stream) \in Nat
      /\ \A i \in 1..Len(stream) : stream[i].sent \in Nat
  <2>1. TypeOK /\ stream \in Seq(Changes)
    BY DEF Typed
  <2>2. now \in Nat
    BY <2>1 DEF TypeOK
  <2>3. Lag \in Nat
    BY ConstantsAssumption
  <2>4. \A i \in 1..Len(stream) : stream[i] \in Changes
    BY <2>1
  <2>5. \A i \in 1..Len(stream) : stream[i].sent \in Nat
    BY <2>4 DEF Changes
  <2> QED
    BY <2>1, <2>2, <2>3, <2>5
<1>2. GoneStays'
  BY DEF StoreInv, GoneStays
<1>3. ASSUME NEW i \in 1..Len(stream)
      PROVE  stream[i].sent + Lag >= now + 1
  <2>1. stream # <<>> /\ Head(stream) = stream[1] /\ 1 \in 1..Len(stream) /\ 1 <= i
    BY <1>1
  <2>2. ~(stream[1].sent + Lag <= now)
    BY <2>1 DEF Late
  <2>3. stream[1].sent <= stream[i].sent
    BY <2>1 DEF StoreInv, InOrder
  <2> QED
    BY <1>1, <2>1, <2>2, <2>3
<1>4. InOrder'
  BY <1>3 DEF StoreInv, InOrder
<1> QED
  BY <1>2, <1>4 DEF StoreInv

-----------------------------------------------------------------------------
(* The plugin *)

\* The facts of a state that the steps below share.
LEMMA Facts ==
    ASSUME IInv
    PROVE  /\ now \in 0..Horizon /\ now \in Nat /\ Alarm \in Nat /\ Lag \in Nat /\ MaxFaults \in Nat
           /\ Horizon \in Nat /\ delay \in Nat /\ faults \in 0..MaxFaults /\ faults \in Nat
           /\ wake \in 0..(Alarm + delay) /\ wake \in Nat /\ expiry \in 0..(2 * Alarm) /\ expiry \in Nat
           /\ stream \in Seq(Changes)
           /\ \A i \in 1..Len(stream) : stream[i] \in [value : Values, sent : 0..now]
<1>1. TypeOK /\ OptionsOK /\ stream \in Seq(Changes)
  BY DEF IInv, Typed
<1>2. Alarm \in Nat /\ Lag \in Nat /\ MaxFaults \in Nat
  BY ConstantsAssumption
<1>3. delay \in Nat
  BY <1>1 DEF OptionsOK
<1>4. now \in 0..Horizon /\ Horizon \in Nat
  BY <1>1, <1>2 DEF TypeOK, Horizon
<1>5. faults \in 0..MaxFaults /\ wake \in 0..(Alarm + delay) /\ expiry \in 0..(2 * Alarm)
  BY <1>1 DEF TypeOK
<1>6. faults \in Nat /\ wake \in Nat /\ expiry \in Nat /\ now \in Nat
  BY <1>2, <1>3, <1>4, <1>5
<1> QED
  BY <1>1, <1>2, <1>3, <1>4, <1>5, <1>6 DEF TypeOK

\* A run that fails says nothing of the store, and leaves it as it is.
LEMMA QuitKeeps ==
    ASSUME IInv, NEW s \in {"CRITICAL", "UNKNOWN"}, NEW why, Quit(s, why),
           UNCHANGED <<now, store, linked, wake>>, read' \in Values \cup {"unread"},
           why \notin {"unread", "mismatch"} \/ ~(Lag < delay /\ faults = 0 /\ linked)
    PROVE  IInv'
<1>1. /\ kind' = kind /\ delay' = delay /\ deleted' = deleted /\ status' = status
      /\ primary' = primary /\ replica' = replica /\ stream' = stream /\ expiry' = expiry
      /\ faults' = faults /\ held' = held /\ now' = now /\ linked' = linked /\ wake' = wake
      /\ step' = "done" /\ out' = [status |-> s, why |-> why]
  BY DEF Quit, options, store
<1>2. Profile' = Profile
  BY <1>1, ProfileStays
<1>3. TypeOK'
  BY <1>1 DEF IInv, Typed, TypeOK, Statuses
<1>4. OptionsOK'
  BY <1>1, <1>2 DEF IInv, Typed, OptionsOK
<1>5. stream' \in Seq(Changes) /\ StoreInv'
  BY <1>1, StoreKeeps DEF IInv, Typed
<1>6. Fresh' /\ Seen' /\ OnItsWay'
  BY <1>1 DEF IInv, RunInv, Fresh, Seen, OnItsWay
<1>7. ResultVouches' /\ PromptReplicaIsRead'
  BY <1>1 DEF ResultVouches, PromptReplicaIsRead
<1> QED
  BY <1>3, <1>4, <1>5, <1>6, <1>7 DEF IInv, Typed, RunInv

\* What a run that ends well leaves behind.
GivenUp ==
    /\ linked \in BOOLEAN
    /\ linked => primary = "absent"
    /\ deleted => replica = "absent"

\* The end of a cycle: the value was seen, and the primary has given it up.
LEMMA FinishKeeps ==
    ASSUME IInv, step \in {"delete", "recheck"}, Finish, StoreInv', stream' \in Seq(Changes),
           \A i \in 1..Len(stream') : stream'[i] \in [value : Values, sent : 0..now],
           primary' \in Values, GivenUp', wake' \in 0..(Alarm + delay),
           now' = now, replica' = replica, expiry' = expiry, faults' = faults, held' = held, read' = read
    PROVE  IInv'
<1>1. PICK level \in {"OK", "WARNING", "CRITICAL"} : Quit(Escalate(status, level), "timings")
  BY DEF Finish
<1>2. /\ kind' = kind /\ delay' = delay /\ deleted' = deleted /\ status' = status
      /\ replica' = replica /\ expiry' = expiry /\ faults' = faults /\ held' = held /\ now' = now
      /\ read' = read /\ step' = "done"
      /\ out'.status = Escalate(status, level) /\ out'.why = "timings"
  BY <1>1 DEF Quit, options
<1>3. Profile' = Profile
  BY <1>2, ProfileStays
<1>4. status \in {"OK", "WARNING"}
  BY DEF IInv, Typed, TypeOK
<1>5. out'.status \in {"OK", "WARNING", "CRITICAL"} /\ (status = "WARNING" => out'.status # "OK")
  BY <1>2, <1>4, EscalateFacts
<1>6. TypeOK'
  BY <1>2, <1>5 DEF IInv, Typed, TypeOK, Statuses, GivenUp
<1>7. OptionsOK'
  BY <1>2, <1>3 DEF IInv, Typed, OptionsOK
<1>8. Fresh' /\ Seen' /\ OnItsWay'
  BY <1>2 DEF IInv, RunInv, Fresh, Seen, OnItsWay
<1>9. PromptReplicaIsRead'
  BY <1>2 DEF PromptReplicaIsRead
<1>10. ResultVouches'
  <2>1. read = "ours" \/ (kind = "mongodb" /\ status = "WARNING" /\ read = "absent")
    BY DEF IInv, RunInv, Seen
  <2>2. Profile.replica => held
    BY DEF IInv, RunInv, Seen
  <2>3. (linked' => primary' = "absent") /\ (deleted' => replica' = "absent")
    BY DEF GivenUp
  <2>5. Profile'.replica => held'
    BY <1>2, <1>3, <2>2
  <2>6. CASE read = "ours"
    <3>1. read' = "ours"
      BY <1>2, <2>6
    <3> QED
      BY <2>3, <2>5, <3>1 DEF ResultVouches
  <2>7. CASE kind = "mongodb" /\ status = "WARNING" /\ read = "absent"
    <3>1. kind' = "mongodb" /\ read' = "absent"
      BY <1>2, <2>7
    <3>2. out'.status # "OK"
      BY <1>5, <2>7
    <3> QED
      BY <2>3, <2>5, <3>1, <3>2 DEF ResultVouches
  <2> QED
    BY <2>1, <2>6, <2>7
<1> QED
  BY <1>6, <1>7, <1>8, <1>9, <1>10 DEF IInv, Typed, RunInv

\* A step of the run that is followed by another and leaves the store alone.
LEMMA GoOnKeeps ==
    ASSUME IInv, NEW s \in Active, step \in Active, step' = s, UNCHANGED <<options, out, now, store, linked, wake>>,
           read' \in Values \cup {"unread"}, status' \in {"OK", "WARNING"}, status' = "WARNING" => kind = "mongodb",
           s = "write" => step = "connect",
           s \notin {"connect", "recheck"},
           s = "wait" => step = "wait",
           s = "read" => step = "wait" /\ now >= wake,
           Seen'
    PROVE  IInv'
<1>1. /\ kind' = kind /\ delay' = delay /\ deleted' = deleted /\ out' = out
      /\ primary' = primary /\ replica' = replica /\ stream' = stream /\ expiry' = expiry
      /\ faults' = faults /\ held' = held /\ now' = now /\ linked' = linked /\ wake' = wake
      /\ step # "done" /\ step' = s
  BY DEF options, store, Active
<1>2. Profile' = Profile
  BY <1>1, ProfileStays
<1>3. TypeOK'
  BY <1>1 DEF IInv, Typed, TypeOK
<1>4. OptionsOK'
  BY <1>1, <1>2 DEF IInv, Typed, OptionsOK
<1>5. stream' \in Seq(Changes) /\ StoreInv'
  BY <1>1, StoreKeeps DEF IInv, Typed
<1>6. Fresh'
  <2>1. expiry' = 0 \/ expiry' >= Alarm
    BY <1>1 DEF IInv, RunInv, Fresh
  <2>2. s = "write" => stream = <<>> /\ primary = "absent" /\ replica = "absent" /\ ~held /\ linked
    BY DEF IInv, RunInv, Fresh
  <2>3. step' \in {"connect", "write"} => s = "write"
    BY <1>1
  <2>4. step' \in {"connect", "write"} =>
          stream' = <<>> /\ primary' = "absent" /\ replica' = "absent" /\ ~held' /\ linked'
    <3>1. stream' = stream /\ primary' = primary /\ replica' = replica /\ held' = held /\ linked' = linked
      BY <1>1
    <3> QED
      BY <2>2, <2>3, <3>1
  <2> QED
    BY <2>1, <2>4 DEF Fresh
<1>8. OnItsWay'
  <2>1. step' = "read" => now' >= wake'
    BY <1>1
  <2>2. step' \in {"wait", "read"} => step = "wait"
    BY <1>1
  <2>3. step = "wait" /\ Profile.replica /\ faults = 0 /\ linked /\ now < Alarm =>
          /\ primary = "ours"
          /\ \/ Len(stream) = 1 /\ stream[1].value = "ours" /\ stream[1].sent + delay = wake
             \/ stream = <<>> /\ replica = "ours"
    BY DEF IInv, RunInv, OnItsWay
  <2> QED
    BY <1>1, <1>2, <2>1, <2>2, <2>3 DEF OnItsWay
<1>9. ResultVouches' /\ PromptReplicaIsRead'
  BY <1>1 DEF IInv, Typed, OptionsOK, ResultVouches, PromptReplicaIsRead
<1> QED
  BY <1>3, <1>4, <1>5, <1>6, <1>8, <1>9 DEF IInv, Typed, RunInv

\* The write, answered or not: the value is in the primary, and on its way.
LEMMA WriteKeeps ==
    ASSUME IInv, step = "write", now < Alarm, Becomes("ours"), expiry' = Expiry,
           step' = (IF Profile.replica THEN "wait" ELSE "read"), wake' = now + delay,
           linked' \in BOOLEAN, UNCHANGED <<options, status, out, now, replica, faults, held, read>>
    PROVE  IInv'
<1>1. /\ kind' = kind /\ delay' = delay /\ deleted' = deleted /\ out' = out /\ status' = status
      /\ replica' = replica /\ faults' = faults /\ held' = held /\ now' = now /\ read' = read
      /\ out.status = "NONE" /\ out.why = ""
  BY DEF options, IInv, Typed, OptionsOK
<1>2. Profile' = Profile /\ kind \in Plugins
  BY <1>1, ProfileStays DEF IInv, Typed, OptionsOK
<1>3. stream = <<>> /\ ~held /\ Len(stream) = 0
  <2>1. stream = <<>> /\ ~held
    BY DEF IInv, RunInv, Fresh
  <2> QED
    BY <2>1
<1>4. /\ StoreInv' /\ stream' \in Seq(Changes) /\ primary' = "ours"
      /\ \A i \in 1..Len(stream') : stream'[i] \in [value : Values, sent : 0..now]
      /\ Profile.replica => Len(stream') = 1 /\ stream'[1].value = "ours" /\ stream'[1].sent = now
  <2>1. "ours" \in Values
    BY DEF Values
  <2> QED
    BY <1>1, <1>3, <2>1, BecomesKeeps DEF IInv
<1>5. expiry' \in 0..(2 * Alarm) /\ (expiry' = 0 \/ expiry' >= Alarm) /\ wake' \in 0..(Alarm + delay)
  <2>1. Profile.ttl = 0 \/ Profile.ttl = Alarm
    BY <1>2, ProfileFacts
  <2>2. Profile.ttl = 0 => expiry' = 0
    BY DEF Expiry
  <2>3. Profile.ttl # 0 => expiry' = now + Alarm
    BY <2>1 DEF Expiry
  <2>4. now \in Nat /\ Alarm \in Nat /\ delay \in Nat
    BY Facts
  <2> QED
    BY <2>1, <2>2, <2>3, <2>4
<1>6. step' \in {"wait", "read"} /\ (step' = "read" => ~Profile.replica)
  OBVIOUS
<1>7. TypeOK'
  BY <1>1, <1>4, <1>5, <1>6 DEF IInv, Typed, TypeOK, Active, Values
<1>8. OptionsOK'
  BY <1>1, <1>2 DEF IInv, Typed, OptionsOK
<1>9. Fresh' /\ Seen'
  BY <1>5, <1>6 DEF Fresh, Seen
<1>10. OnItsWay'
  BY <1>1, <1>2, <1>4, <1>6 DEF OnItsWay
<1>11. ResultVouches' /\ PromptReplicaIsRead'
  BY <1>1 DEF ResultVouches, PromptReplicaIsRead
<1> QED
  BY <1>4, <1>7, <1>8, <1>9, <1>10, <1>11 DEF IInv, Typed, RunInv

\* A replica that is less than the delay behind has the value when it is read.
LEMMA PromptRead ==
    ASSUME IInv, step = "read", now < Alarm, Lag < delay, faults = 0, linked
    PROVE  Copy = "ours"
<1>1. now \in Nat /\ Lag \in Nat /\ delay \in Nat /\ wake \in Nat
  BY Facts
<1>2. Profile.replica
  <2>1. Profile.replica \/ delay = 0
    BY DEF IInv, Typed, OptionsOK
  <2>2. delay # 0
    BY <1>1
  <2> QED
    BY <2>1, <2>2
<1>3. now >= wake /\ stream \in Seq(Changes)
  BY <1>2 DEF IInv, RunInv, Typed, OnItsWay
<1>4. \/ Len(stream) = 1 /\ stream[1].value = "ours" /\ stream[1].sent + delay = wake
      \/ stream = <<>> /\ replica = "ours"
  BY <1>2 DEF IInv, RunInv, OnItsWay
<1>5. CASE Len(stream) = 1 /\ stream[1].sent + delay = wake
  <2>1. 1 \in 1..Len(stream) /\ stream[1] \in Changes
    <3>1. stream \in Seq(Changes) /\ Len(stream) = 1
      BY <1>3, <1>5
    <3>2. 1 \in 1..Len(stream)
      BY <3>1
    <3> QED
      BY <3>1, <3>2
  <2>2. stream[1].sent \in Nat
    BY <2>1 DEF Changes
  <2>3. stream[1].sent + Lag >= now
    BY <2>1 DEF IInv, StoreInv, InOrder
  <2> QED
    BY <1>1, <1>3, <1>5, <2>2, <2>3
<1> QED
  BY <1>2, <1>4, <1>5 DEF Copy

LEMMA CopyType == IInv => Copy \in Values
BY DEF IInv, Typed, TypeOK, Copy

\* The run's steps.
LEMMA ConnectKeeps == IInv /\ Connect => IInv'
<1> SUFFICES ASSUME IInv, Connect PROVE IInv'
  OBVIOUS
<1>1. /\ step = "connect" /\ step' = "write" /\ read' = read /\ status' = status
      /\ UNCHANGED <<options, out, now, store, linked, wake>>
  BY DEF Connect, GoOn
<1>2. read \in Values \cup {"unread"} /\ status \in {"OK", "WARNING"} /\ (status = "WARNING" => kind = "mongodb")
  BY DEF IInv, Typed, TypeOK, OptionsOK
<1>3. Seen'
  BY <1>1 DEF Seen
<1> QED
  BY <1>1, <1>2, <1>3, GoOnKeeps DEF Active

LEMMA WaitKeeps == IInv /\ Wait => IInv'
<1> SUFFICES ASSUME IInv, Wait PROVE IInv'
  OBVIOUS
<1>1. /\ step = "wait" /\ step' = "read" /\ read' = read /\ status' = status /\ now >= wake
      /\ UNCHANGED <<options, out, now, store, linked, wake>>
  BY DEF Wait, GoOn, SleptEnough
<1>2. read \in Values \cup {"unread"} /\ status \in {"OK", "WARNING"} /\ (status = "WARNING" => kind = "mongodb")
  BY DEF IInv, Typed, TypeOK, OptionsOK
<1>3. Seen'
  BY <1>1 DEF Seen
<1> QED
  BY <1>1, <1>2, <1>3, GoOnKeeps DEF Active

LEMMA FailKeeps == IInv /\ (Refused \/ Timeout) => IInv'
<1> SUFFICES ASSUME IInv, Refused \/ Timeout PROVE IInv'
  OBVIOUS
<1>1. read \in Values \cup {"unread"}
  BY DEF IInv, Typed, TypeOK
<1>2. CASE Refused
  BY <1>1, <1>2, QuitKeeps DEF Refused
<1>3. CASE Timeout
  BY <1>1, <1>3, QuitKeeps DEF Timeout
<1> QED
  BY <1>2, <1>3

LEMMA ReadBackKeeps == IInv /\ ReadBack => IInv'
<1> SUFFICES ASSUME IInv, ReadBack PROVE IInv'
  OBVIOUS
<1>1. /\ step = "read" /\ now < Alarm /\ read' = Copy /\ Copy \in Values
      /\ UNCHANGED <<now, store, linked, wake>>
  BY CopyType DEF ReadBack, InTime
<1>2. kind \in Plugins /\ status \in {"OK", "WARNING"} /\ (status = "WARNING" => kind = "mongodb")
  BY DEF IInv, Typed, TypeOK, OptionsOK
<1>3. Lag < delay /\ faults = 0 /\ linked => Copy = "ours"
  BY <1>1, PromptRead
<1>4. CASE Copy = "ours" /\ GoOn("delete")
  <2>1. /\ step' = "delete" /\ status' = status /\ UNCHANGED <<options, out>>
        /\ kind' = kind /\ held' = held /\ replica' = replica
    BY <1>1, <1>4 DEF GoOn, options, store
  <2>2. Profile.replica => held
    <3>1. Profile.replica => replica = "ours"
      BY <1>4 DEF Copy
    <3> QED
      BY <3>1 DEF IInv, StoreInv, GoneStays
  <2>3. Seen'
    <3>1. Profile' = Profile
      BY <2>1, ProfileStays
    <3> QED
      BY <1>1, <1>4, <2>1, <2>2, <3>1 DEF Seen
  <2> QED
    BY <1>1, <1>2, <2>1, <2>3, GoOnKeeps DEF Active
<1>5. CASE Copy = "other" /\ Quit("CRITICAL", "mismatch")
  BY <1>1, <1>3, <1>5, QuitKeeps
<1>6. CASE Copy = "absent" /\ Quit("CRITICAL", "unread")
  BY <1>1, <1>3, <1>6, QuitKeeps
<1>7. CASE /\ Copy = "absent" /\ Profile.unread = "WARNING" /\ status' = Escalate(status, "WARNING")
           /\ step' = "delete" /\ UNCHANGED <<options, out>>
  <2>1. kind = "mongodb" /\ ~Profile.replica /\ status' = "WARNING"
    BY <1>2, <1>7, ProfileFacts, EscalateFacts
  <2>2. kind' = kind /\ Profile' = Profile
    BY <1>7, ProfileStays DEF options
  <2>3. Seen'
    BY <1>1, <1>7, <2>1, <2>2 DEF Seen
  <2> QED
    BY <1>1, <1>7, <2>1, <2>3, GoOnKeeps DEF Active
<1> QED
  BY <1>4, <1>5, <1>6, <1>7 DEF ReadBack

LEMMA WritingKeeps == IInv /\ Write => IInv'
<1> SUFFICES ASSUME IInv, Write PROVE IInv'
  OBVIOUS
<1>1. linked \in BOOLEAN
  BY DEF IInv, Typed, TypeOK
<1> QED
  BY <1>1, WriteKeeps DEF Write, InTime, GoOn

\* The key is deleted, or was not there.
LEMMA DeleteFacts ==
    ASSUME IInv, IF primary = "absent" THEN UNCHANGED <<primary, stream>> ELSE Becomes("absent"),
           kind' = kind, replica' = replica, held' = held, now' = now
    PROVE  /\ StoreInv' /\ stream' \in Seq(Changes) /\ primary' = "absent"
           /\ \A i \in 1..Len(stream') : stream'[i] \in [value : Values, sent : 0..now]
<1>1. CASE primary = "absent"
  <2>1. primary' = primary /\ stream' = stream
    BY <1>1
  <2>2. StoreInv'
    BY <2>1, StoreKeeps DEF IInv
  <2> QED
    BY <1>1, <2>1, <2>2, Facts
<1>2. CASE primary # "absent"
  <2>1. Becomes("absent") /\ "absent" \in Values
    BY <1>2 DEF Values
  <2> QED
    BY <2>1, BecomesKeeps DEF IInv
<1> QED
  BY <1>1, <1>2

LEMMA RecheckKeeps ==
    ASSUME IInv, step = "delete", linked, deleted, GoOn("recheck"),
           StoreInv', stream' \in Seq(Changes), primary' = "absent",
           \A i \in 1..Len(stream') : stream'[i] \in [value : Values, sent : 0..now],
           UNCHANGED <<now, replica, expiry, faults, held, linked, wake, read>>
    PROVE  IInv'
<1>1. /\ kind' = kind /\ delay' = delay /\ deleted' = deleted /\ out' = out /\ status' = status
      /\ replica' = replica /\ expiry' = expiry /\ faults' = faults /\ held' = held /\ now' = now
      /\ linked' = linked /\ wake' = wake /\ read' = read /\ step' = "recheck"
  BY DEF GoOn, options
<1>2. Profile' = Profile /\ out.status = "NONE" /\ out.why = ""
  BY <1>1, ProfileStays DEF IInv, Typed, OptionsOK
<1>3. TypeOK'
  BY <1>1 DEF IInv, Typed, TypeOK, Active, Values
<1>4. OptionsOK'
  BY <1>1, <1>2 DEF IInv, Typed, OptionsOK
<1>5. Fresh'
  BY <1>1 DEF IInv, RunInv, Fresh
<1>6. Seen'
  <2>1. /\ read = "ours" \/ (kind = "mongodb" /\ status = "WARNING" /\ read = "absent")
        /\ Profile.replica => held
    BY DEF IInv, RunInv, Seen
  <2>2. read' = "ours" \/ (kind' = "mongodb" /\ status' = "WARNING" /\ read' = "absent")
    BY <1>1, <2>1
  <2>3. Profile'.replica => held'
    <3>1. Profile' = Profile
      BY <1>2
    <3>2. held' = held
      OBVIOUS
    <3>3. Profile.replica => held
      BY <2>1
    <3> QED
      BY <3>1, <3>2, <3>3
  <2>4. linked' /\ primary' = "absent" /\ deleted'
    BY <1>1
  <2> QED
    BY <2>2, <2>3, <2>4 DEF Seen
<1>7. OnItsWay'
  BY <1>1 DEF OnItsWay
<1>8. ResultVouches' /\ PromptReplicaIsRead'
  BY <1>1, <1>2 DEF ResultVouches, PromptReplicaIsRead
<1> QED
  BY <1>3, <1>4, <1>5, <1>6, <1>7, <1>8 DEF IInv, Typed, RunInv

LEMMA DeleteKeeps == IInv /\ Delete => IInv'
<1> SUFFICES ASSUME IInv, Delete PROVE IInv'
  OBVIOUS
<1>1. /\ step = "delete" /\ linked
      /\ IF primary = "absent" THEN UNCHANGED <<primary, stream>> ELSE Becomes("absent")
      /\ now' = now /\ replica' = replica /\ expiry' = expiry /\ faults' = faults /\ held' = held
      /\ linked' = linked /\ wake' = wake /\ read' = read
  BY DEF Delete
<1>2. \/ primary = "absent" /\ Quit("CRITICAL", "undeleted")
      \/ IF deleted THEN GoOn("recheck") ELSE Finish
  BY DEF Delete
<1>3. kind' = kind /\ deleted' = deleted
  BY <1>2 DEF Quit, GoOn, Finish, options
<1>4. /\ StoreInv' /\ stream' \in Seq(Changes) /\ primary' = "absent"
      /\ \A i \in 1..Len(stream') : stream'[i] \in [value : Values, sent : 0..now]
  BY <1>1, <1>3, DeleteFacts
<1>5. CASE primary = "absent" /\ Quit("CRITICAL", "undeleted")
  <2>1. UNCHANGED store
    BY <1>1, <1>5 DEF store
  <2>2. read' \in Values \cup {"unread"}
    BY <1>1 DEF IInv, Typed, TypeOK
  <2> QED
    BY <1>1, <1>5, <2>1, <2>2, QuitKeeps
<1>6. CASE deleted /\ GoOn("recheck")
  BY <1>1, <1>4, <1>6, RecheckKeeps
<1>7. CASE ~deleted /\ Finish
  <2>1. GivenUp' /\ wake' \in 0..(Alarm + delay)
    BY <1>1, <1>3, <1>4, <1>7 DEF IInv, Typed, TypeOK, GivenUp
  <2>2. primary' \in Values
    BY <1>4 DEF Values
  <2> QED
    BY <1>1, <1>4, <1>7, <2>1, <2>2, FinishKeeps
<1> QED
  BY <1>2, <1>5, <1>6, <1>7

\* A write that was not answered and not done.
LEMMA LostWriteKeeps ==
    ASSUME IInv, step = "write", now < Alarm, UNCHANGED <<primary, stream, expiry>>,
           step' = (IF Profile.replica THEN "wait" ELSE "read"), wake' = now + delay,
           linked' = FALSE, UNCHANGED <<options, status, out, now, replica, faults, held, read>>
    PROVE  IInv'
<1>1. /\ kind' = kind /\ delay' = delay /\ deleted' = deleted /\ out' = out /\ status' = status
      /\ replica' = replica /\ faults' = faults /\ held' = held /\ now' = now /\ read' = read
      /\ primary' = primary /\ stream' = stream /\ expiry' = expiry
      /\ out.status = "NONE" /\ out.why = ""
  BY DEF options, IInv, Typed, OptionsOK
<1>2. Profile' = Profile
  BY <1>1, ProfileStays
<1>3. step' \in {"wait", "read"} /\ (step' = "read" => ~Profile.replica)
  OBVIOUS
<1>4. wake' \in 0..(Alarm + delay)
  BY Facts
<1>5. TypeOK'
  BY <1>1, <1>3, <1>4 DEF IInv, Typed, TypeOK, Active
<1>6. OptionsOK'
  BY <1>1, <1>2 DEF IInv, Typed, OptionsOK
<1>7. Fresh' /\ Seen'
  BY <1>1, <1>3 DEF IInv, RunInv, Fresh, Seen
<1>8. OnItsWay'
  BY <1>2, <1>3 DEF OnItsWay
<1>9. ResultVouches' /\ PromptReplicaIsRead'
  BY <1>1 DEF ResultVouches, PromptReplicaIsRead
<1>10. stream' \in Seq(Changes) /\ StoreInv'
  BY <1>1, StoreKeeps DEF IInv, Typed
<1> QED
  BY <1>5, <1>6, <1>7, <1>8, <1>9, <1>10 DEF IInv, Typed, RunInv

LEMMA UnansweredKeeps == IInv /\ Unanswered => IInv'
<1> SUFFICES ASSUME IInv, Unanswered PROVE IInv'
  OBVIOUS
<1>1. /\ linked' = FALSE /\ now < Alarm /\ Profile.deaf /\ wake' = now + delay
      /\ now' = now /\ replica' = replica /\ faults' = faults /\ held' = held /\ read' = read
  BY DEF Unanswered, InTime
<1>2. step \in {"write", "delete"}
  BY DEF Unanswered
<1>3. CASE step = "write"
  <2>1. /\ step' = (IF Profile.replica THEN "wait" ELSE "read")
        /\ UNCHANGED <<options, status, out>>
    BY <1>3 DEF Unanswered, GoOn
  <2>2. CASE UNCHANGED <<primary, stream, expiry>>
    BY <1>1, <1>3, <2>1, <2>2, LostWriteKeeps
  <2>3. CASE Becomes("ours") /\ expiry' = Expiry
    BY <1>1, <1>3, <2>1, <2>3, WriteKeeps
  <2> QED
    BY <1>3, <2>2, <2>3 DEF Unanswered
<1>4. CASE step = "delete"
  <2>1. Finish
    BY <1>4 DEF Unanswered
  <2>2. kind' = kind /\ deleted' = deleted
    BY <2>1 DEF Finish, Quit, options
  <2>3. ~deleted
    BY <1>1, ProfileFacts DEF IInv, Typed, OptionsOK
  <2>4. GivenUp'
    BY <1>1, <2>2, <2>3 DEF GivenUp
  <2>5. wake' \in 0..(Alarm + delay)
    BY <1>1, Facts
  <2>6. expiry' = expiry
    BY <1>4 DEF Unanswered
  <2>7. CASE UNCHANGED <<primary, stream>>
    <3>1. StoreInv'
      BY <1>1, <2>7, StoreKeeps DEF IInv
    <3>2. stream' = stream /\ primary' \in Values
      BY <2>7 DEF IInv, Typed, TypeOK
    <3> QED
      BY <1>1, <1>4, <2>1, <2>4, <2>5, <2>6, <3>1, <3>2, Facts, FinishKeeps
  <2>8. CASE Becomes("absent")
    <3>1. "absent" \in Values
      BY DEF Values
    <3>2. /\ StoreInv' /\ stream' \in Seq(Changes) /\ primary' = "absent"
          /\ \A i \in 1..Len(stream') : stream'[i] \in [value : Values, sent : 0..now]
      BY <1>1, <2>2, <2>8, <3>1, BecomesKeeps DEF IInv
    <3> QED
      BY <1>1, <1>4, <2>1, <2>4, <2>5, <2>6, <3>1, <3>2, FinishKeeps
  <2> QED
    BY <1>4, <2>7, <2>8 DEF Unanswered
<1> QED
  BY <1>2, <1>3, <1>4

LEMMA CheckGoneKeeps == IInv /\ CheckGone => IInv'
<1> SUFFICES ASSUME IInv, CheckGone PROVE IInv'
  OBVIOUS
<1>1. /\ step = "recheck" /\ UNCHANGED store /\ UNCHANGED <<now, store, linked, wake>>
      /\ now' = now /\ linked' = linked /\ wake' = wake /\ read' = read
  BY DEF CheckGone
<1>2. primary' = primary /\ stream' = stream /\ replica' = replica /\ expiry' = expiry /\ faults' = faults /\ held' = held
  BY <1>1 DEF store
<1>3. CASE replica # "absent"
  <2>1. Quit("CRITICAL", "unreplicated") /\ read' \in Values \cup {"unread"}
    BY <1>1, <1>3 DEF CheckGone, IInv, Typed, TypeOK
  <2> QED
    BY <1>1, <2>1, QuitKeeps
<1>4. CASE replica = "absent"
  <2>1. Finish
    BY <1>4 DEF CheckGone
  <2>2. primary = "absent"
    BY <1>1 DEF IInv, RunInv, Seen
  <2>3. deleted' = deleted /\ linked \in BOOLEAN /\ wake \in 0..(Alarm + delay) /\ primary' \in Values
    BY <1>2, <2>1 DEF Finish, Quit, options, IInv, Typed, TypeOK
  <2>4. GivenUp'
    BY <1>1, <1>2, <1>4, <2>2, <2>3 DEF GivenUp
  <2>5. StoreInv'
    BY <1>1, <1>2, StoreKeeps DEF IInv
  <2> QED
    BY <1>1, <1>2, <1>4, <2>1, <2>3, <2>4, <2>5, Facts, FinishKeeps
<1> QED
  BY <1>3, <1>4

-----------------------------------------------------------------------------
(* The store's steps, and the clock's *)

LEMMA ReplicationKeeps == IInv /\ Replicate => IInv'
<1> SUFFICES ASSUME IInv, Replicate PROVE IInv'
  OBVIOUS
<1>1. /\ kind' = kind /\ delay' = delay /\ deleted' = deleted /\ linked' = linked /\ step' = step
      /\ wake' = wake /\ read' = read /\ status' = status /\ out' = out
      /\ now' = now /\ primary' = primary /\ expiry' = expiry /\ faults' = faults
      /\ stream # <<>>
  BY DEF Replicate, plugin, options
<1>2. Profile' = Profile /\ kind \in Plugins
  BY <1>1, ProfileStays DEF IInv, Typed, OptionsOK
<1>3. /\ StoreInv' /\ stream' \in Seq(Changes) /\ replica' \in Values
      /\ \A i \in 1..Len(stream') : stream'[i] \in [value : Values, sent : 0..now]
      /\ held /\ replica = "absent" => replica' = "absent"
      /\ Len(stream) = 1 => stream' = <<>> /\ replica' = stream[1].value
      /\ held => held'
  BY <1>1, ReplicateKeeps DEF Replicate, IInv
<1>4. held' \in BOOLEAN
  BY DEF Replicate
<1>5. TypeOK'
  BY <1>1, <1>3, <1>4 DEF IInv, Typed, TypeOK
<1>6. OptionsOK'
  BY <1>1, <1>2 DEF IInv, Typed, OptionsOK
<1>7. Fresh'
  BY <1>1 DEF IInv, RunInv, Fresh
<1>8. Seen'
  BY <1>1, <1>2, <1>3 DEF IInv, RunInv, Seen
<1>9. OnItsWay'
  <2>1. step = "read" /\ Profile.replica => now >= wake
    BY DEF IInv, RunInv, OnItsWay
  <2>2. step \in {"wait", "read"} /\ Profile.replica /\ faults = 0 /\ linked /\ now < Alarm =>
          primary = "ours" /\ stream' = <<>> /\ replica' = "ours"
    BY <1>1, <1>3 DEF IInv, RunInv, OnItsWay
  <2> QED
    BY <1>1, <1>2, <2>1, <2>2 DEF OnItsWay
<1>10. ResultVouches'
  <2>1. CASE out.status \in {"OK", "WARNING"}
    <3>1. /\ linked => primary = "absent"
          /\ read = "ours" \/ (kind = "mongodb" /\ out.status = "WARNING" /\ read = "absent")
          /\ Profile.replica => held
          /\ deleted => replica = "absent"
      BY <2>1 DEF IInv, RunInv, ResultVouches
    <3>2. deleted => Profile.replica
      BY <1>2, ProfileFacts DEF IInv, Typed, OptionsOK
    <3>3. deleted => replica' = "absent"
      BY <1>3, <3>1, <3>2
    <3>4. Profile'.replica => held'
      BY <1>2, <1>3, <3>1
    <3> QED
      BY <1>1, <3>1, <3>3, <3>4 DEF ResultVouches
  <2>2. CASE out.status \notin {"OK", "WARNING"}
    BY <1>1, <2>2 DEF ResultVouches
  <2> QED
    BY <2>1, <2>2
<1>11. PromptReplicaIsRead'
  BY <1>1 DEF IInv, RunInv, PromptReplicaIsRead
<1> QED
  BY <1>3, <1>5, <1>6, <1>7, <1>8, <1>9, <1>10, <1>11 DEF IInv, Typed, RunInv

\* The store loses or changes a key that is there, by fault or because it is due.
LEMMA ChangeKeeps ==
    ASSUME IInv, NEW v \in {"absent", "other"}, Becomes(v), primary # "absent",
           v = "other" => primary = "ours", UNCHANGED <<now, plugin, replica, expiry, held>>,
           faults' \in 0..MaxFaults, faults' = 0 => faults = 0 /\ now >= Alarm
    PROVE  IInv'
<1>1. /\ kind' = kind /\ delay' = delay /\ deleted' = deleted /\ linked' = linked /\ step' = step
      /\ wake' = wake /\ read' = read /\ status' = status /\ out' = out
      /\ now' = now /\ replica' = replica /\ expiry' = expiry /\ held' = held
  BY DEF plugin, options
<1>2. Profile' = Profile
  BY <1>1, ProfileStays
<1>3. /\ StoreInv' /\ stream' \in Seq(Changes) /\ primary' = v
      /\ \A i \in 1..Len(stream') : stream'[i] \in [value : Values, sent : 0..now]
  <2>1. v \in Values /\ (v # "absent" => primary = "ours")
    BY DEF Values
  <2> QED
    BY <1>1, <2>1, BecomesKeeps DEF IInv
<1>4. TypeOK'
  BY <1>1, <1>3 DEF IInv, Typed, TypeOK, Values
<1>5. OptionsOK'
  BY <1>1, <1>2 DEF IInv, Typed, OptionsOK
<1>6. Fresh'
  BY <1>1 DEF IInv, RunInv, Fresh
<1>7. Seen'
  BY <1>1, <1>2 DEF IInv, RunInv, Seen
<1>8. OnItsWay'
  <2>1. now \in Nat /\ Alarm \in Nat
    BY Facts
  <2>2. ~(faults' = 0 /\ now < Alarm)
    BY <2>1
  <2>3. step = "read" /\ Profile.replica => now >= wake
    BY DEF IInv, RunInv, OnItsWay
  <2> QED
    BY <1>1, <1>2, <2>2, <2>3 DEF OnItsWay
<1>9. ResultVouches'
  <2>1. CASE out.status \in {"OK", "WARNING"}
    <3>1. /\ ~linked
          /\ read = "ours" \/ (kind = "mongodb" /\ out.status = "WARNING" /\ read = "absent")
          /\ Profile.replica => held
          /\ deleted => replica = "absent"
      BY <2>1 DEF IInv, RunInv, ResultVouches
    <3> QED
      BY <1>1, <1>2, <3>1 DEF ResultVouches
  <2>2. CASE out.status \notin {"OK", "WARNING"}
    BY <1>1, <2>2 DEF ResultVouches
  <2> QED
    BY <2>1, <2>2
<1>10. PromptReplicaIsRead'
  BY <1>1 DEF IInv, RunInv, PromptReplicaIsRead
<1> QED
  BY <1>3, <1>4, <1>5, <1>6, <1>7, <1>8, <1>9, <1>10 DEF IInv, Typed, RunInv

LEMMA FaultKeeps == IInv /\ Fault => IInv'
<1> SUFFICES ASSUME IInv, Fault PROVE IInv'
  OBVIOUS
<1>1. primary = "ours" /\ faults < MaxFaults /\ faults' = faults + 1
  BY DEF Fault
<1>2. PICK v \in {"absent", "other"} : Becomes(v)
  BY DEF Fault
<1>3. UNCHANGED <<now, plugin, replica, expiry, held>>
  BY DEF Fault
<1>4. faults \in Nat /\ MaxFaults \in Nat
  BY Facts
<1>5. faults' \in 0..MaxFaults /\ faults' # 0
  BY <1>1, <1>4
<1>6. primary # "absent" /\ (v = "other" => primary = "ours")
  BY <1>1
<1> QED
  BY <1>2, <1>3, <1>5, <1>6, ChangeKeeps

LEMMA ExpireKeeps == IInv /\ Expire => IInv'
<1> SUFFICES ASSUME IInv, Expire PROVE IInv'
  OBVIOUS
<1>1. expiry # 0 /\ expiry <= now /\ primary # "absent" /\ faults' = faults
  BY DEF Expire, Due
<1>2. Becomes("absent") /\ UNCHANGED <<now, plugin, replica, expiry, held>>
  BY DEF Expire
<1>3. expiry \in Nat /\ now \in Nat /\ Alarm \in Nat /\ faults \in 0..MaxFaults
  BY Facts
<1>4. expiry >= Alarm
  BY <1>1 DEF IInv, RunInv, Fresh
<1>5. now >= Alarm
  BY <1>1, <1>3, <1>4
<1>6. faults' \in 0..MaxFaults /\ (faults' = 0 => faults = 0 /\ now >= Alarm)
  BY <1>1, <1>3, <1>5
<1>7. primary # "absent" /\ ("absent" = "other" => primary = "ours")
  BY <1>1
<1> QED
  BY <1>2, <1>6, <1>7, ChangeKeeps

LEMMA ClockKeeps == IInv /\ Tick => IInv'
<1> SUFFICES ASSUME IInv, Tick PROVE IInv'
  OBVIOUS
<1>1. now < Horizon /\ ~Late /\ now' = now + 1 /\ UNCHANGED <<plugin, store>>
  BY DEF Tick
<1>2. /\ kind' = kind /\ delay' = delay /\ deleted' = deleted /\ linked' = linked /\ step' = step
      /\ wake' = wake /\ read' = read /\ status' = status /\ out' = out
      /\ primary' = primary /\ replica' = replica /\ stream' = stream
      /\ expiry' = expiry /\ faults' = faults /\ held' = held
  BY <1>1 DEF plugin, store, options
<1>3. Profile' = Profile
  BY <1>2, ProfileStays
<1>4. now \in Nat /\ Horizon \in Nat /\ Alarm \in Nat /\ wake \in Nat
  BY Facts
<1>5. now' \in 0..Horizon
  BY <1>1, <1>4
<1>6. \A i \in 1..Len(stream) : stream[i] \in [value : Values, sent : 0..(now + 1)]
  <2>1. \A i \in 1..Len(stream) : stream[i] \in [value : Values, sent : 0..now]
    BY Facts
  <2>2. \A n \in 0..now : n \in 0..(now + 1)
    BY <1>4
  <2> QED
    BY <2>1, <2>2
<1>7. TypeOK'
  <2>1. \A i \in 1..Len(stream') : stream'[i] \in [value : Values, sent : 0..now']
    BY <1>1, <1>2, <1>6
  <2> QED
    BY <1>2, <1>5, <2>1 DEF IInv, Typed, TypeOK
<1>8. OptionsOK'
  BY <1>2, <1>3 DEF IInv, Typed, OptionsOK
<1>9. stream' \in Seq(Changes) /\ StoreInv'
  BY <1>1, <1>2, TickKeeps DEF IInv, Typed
<1>10. Fresh' /\ Seen'
  BY <1>2, <1>3 DEF IInv, RunInv, Fresh, Seen
<1>11. OnItsWay'
  <2>1. now >= wake => now' >= wake
    BY <1>1, <1>4
  <2>2. now' < Alarm => now < Alarm
    BY <1>1, <1>4
  <2>3. step = "read" /\ Profile.replica => now' >= wake
    BY <2>1 DEF IInv, RunInv, OnItsWay
  <2>4. step \in {"wait", "read"} /\ Profile.replica /\ faults = 0 /\ linked /\ now' < Alarm =>
          /\ primary = "ours"
          /\ \/ Len(stream) = 1 /\ stream[1].value = "ours" /\ stream[1].sent + delay = wake
             \/ stream = <<>> /\ replica = "ours"
    BY <2>2 DEF IInv, RunInv, OnItsWay
  <2> QED
    BY <1>2, <1>3, <2>3, <2>4 DEF OnItsWay
<1>12. ResultVouches' /\ PromptReplicaIsRead'
  BY <1>2, <1>3 DEF IInv, RunInv, ResultVouches, PromptReplicaIsRead
<1> QED
  BY <1>7, <1>8, <1>9, <1>10, <1>11, <1>12 DEF IInv, Typed, RunInv

LEMMA StutterKeeps == IInv /\ UNCHANGED vars => IInv'
<1> SUFFICES ASSUME IInv, UNCHANGED vars PROVE IInv'
  OBVIOUS
<1>1. /\ kind' = kind /\ delay' = delay /\ deleted' = deleted /\ linked' = linked /\ step' = step
      /\ wake' = wake /\ read' = read /\ status' = status /\ out' = out /\ now' = now
      /\ primary' = primary /\ replica' = replica /\ stream' = stream
      /\ expiry' = expiry /\ faults' = faults /\ held' = held
  BY DEF vars, plugin, store, options
<1>2. Profile' = Profile
  BY <1>1, ProfileStays
<1>3. Typed'
  BY <1>1, <1>2 DEF IInv, Typed, TypeOK, OptionsOK
<1>4. StoreInv'
  BY <1>1, StoreKeeps DEF IInv
<1>5. RunInv'
  BY <1>1, <1>2 DEF IInv, RunInv, Fresh, Seen, OnItsWay, ResultVouches, PromptReplicaIsRead
<1> QED
  BY <1>3, <1>4, <1>5 DEF IInv

LEMMA NextInv == IInv /\ [Next]_vars => IInv'
<1> SUFFICES ASSUME IInv, [Next]_vars PROVE IInv'
  OBVIOUS
<1>1. CASE Run
  BY <1>1, ConnectKeeps, WritingKeeps, WaitKeeps, ReadBackKeeps, DeleteKeeps, UnansweredKeeps,
     CheckGoneKeeps, FailKeeps DEF Run
<1>2. CASE Replicate \/ Fault \/ Expire \/ Tick
  BY <1>2, ReplicationKeeps, FaultKeeps, ExpireKeeps, ClockKeeps
<1>3. CASE UNCHANGED vars
  BY <1>3, StutterKeeps
<1> QED
  BY <1>1, <1>2, <1>3 DEF Next

LEMMA Invariant == Spec => []IInv
<1>1. Init => IInv
  BY InitInv
<1>2. IInv /\ [Next]_vars => IInv'
  BY NextInv
<1> QED
  BY <1>1, <1>2, PTL DEF Spec

-----------------------------------------------------------------------------
(* What is proved *)

\* Every variable keeps its type, for any plugin and any moment of the alarm.
THEOREM CanaryTypeCorrect == Spec => []TypeOK
<1>1. IInv => TypeOK
  BY DEF IInv, Typed
<1> QED
  BY <1>1, Invariant, PTL

\* A result other than a failure vouches for the whole cycle of write, read and
\* delete, whatever the store loses, changes or delays meanwhile.
THEOREM ResultIsVouched == Spec => []ResultVouches
<1>1. IInv => ResultVouches
  BY DEF IInv, RunInv
<1> QED
  BY <1>1, Invariant, PTL

\* The key of the memcached and Couchbase plugins does not run out under a run that
\* still needs it: it lives for --timeout from the write (check_memcached_write.pl).
THEOREM KeyOutlivesRun == Spec => []OutlivesRun
<1>1. IInv => OutlivesRun
  <2> SUFFICES ASSUME IInv, now < Alarm PROVE ~Due
    BY DEF OutlivesRun, InTime
  <2>1. expiry \in Nat /\ now \in Nat /\ Alarm \in Nat
    BY Facts
  <2>2. expiry = 0 \/ expiry >= Alarm
    BY DEF IInv, RunInv, Fresh
  <2> QED
    BY <2>1, <2>2 DEF Due
<1> QED
  BY <1>1, Invariant, PTL

\* A replica that is always less than --slave-delay behind is never reported.
THEOREM PromptIsRead == Spec => []PromptReplicaIsRead
<1>1. IInv => PromptReplicaIsRead
  BY DEF IInv, RunInv
<1> QED
  BY <1>1, Invariant, PTL

\* A key is deleted only by a run that read its own value from it, or saw none.
THEOREM SuspiciousKeyIsKept == Spec => SuspiciousIsKept
<1>1. IInv /\ [Next]_vars => [Delete => read \in {"ours", "absent"}]_vars
  <2> SUFFICES ASSUME IInv, Delete PROVE read \in {"ours", "absent"}
    OBVIOUS
  <2>1. step = "delete"
    BY DEF Delete
  <2> QED
    BY <2>1 DEF IInv, RunInv, Seen
<1> QED
  BY <1>1, Invariant, PTL DEF Spec, SuspiciousIsKept
=============================================================================
