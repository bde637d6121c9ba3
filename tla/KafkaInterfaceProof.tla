------------------------ MODULE KafkaInterfaceProof ------------------------
(* Two plugins that have nothing in common but the host.                       *)
(* check_kafka.pl and check_kafka.py (KafkaCheck) with any number of attempts, *)
(* of messages of others and of lost leaders, and fetches of any size.         *)
(* check_linux_interface.pl (LinuxInterface) for any number of runs at a time, *)
(* any options and any bounds on the clock and the counters.                   *)
EXTENDS KafkaCheck, LinuxInterface, TLAPS, FiniteSetTheorems

-----------------------------------------------------------------------------
(* KafkaCheck *)

Sending == {"send", "ack", "fetch", "search"}

OptionsOK ==
    /\ python \in BOOLEAN /\ ignoreInvalid \in BOOLEAN
    /\ sendAttempts \in Nat \ {0}
    /\ others \in Nat
    /\ step # "done" => out.status = "NONE" /\ out.why = ""

\* What the fetch returned is what the replicas have from the offset on, and is
\* not lost with a leader.
FetchedIsReplicated ==
    /\ step \notin {"search", "done"} => fetched = <<>>
    /\ step = "search" => fetched # <<>>
    /\ \A i \in 1..Len(fetched) : offset + i <= replicated /\ fetched[i] = log[offset + i]

\* A message of ours costs an attempt.
SentCounted == Cardinality(Ours(log)) <= attempts

\* Nothing of ours is before the offset.
OursAfterOffset ==
    /\ step \in {"options", "offset"} => Ours(log) = {}
    /\ step \in Sending => \A i \in Ours(log) : i > offset

\* In a topic nobody else writes to there is nothing but ours after the offset.
OnlyOursAfterOffset ==
    others = 0 =>
        /\ step \in {"options", "offset"} => replicated = Len(log)
        /\ step \in Sending => \A i \in 1..Len(log) : i > offset => log[i] = "ours"

\* The fetch follows the acknowledgement that was asked for.
AckedBeforeFetch == step \in {"fetch", "search"} /\ acks = "ISR" /\ ~python => OursReplicated

IInv == /\ TypeOK /\ OptionsOK /\ FetchedIsReplicated /\ SentCounted
        /\ OursAfterOffset /\ OnlyOursAfterOffset /\ AckedBeforeFetch
        /\ OkMeansThrough /\ WarningMeansDuplicate /\ QuietTopicIsFound

-----------------------------------------------------------------------------
(* Our messages in a log *)

LEMMA OursFinite ==
    ASSUME NEW s \in Seq(Messages)
    PROVE  IsFiniteSet(Ours(s)) /\ Cardinality(Ours(s)) \in Nat
<1>1. IsFiniteSet(1..Len(s)) /\ Ours(s) \in SUBSET (1..Len(s))
  BY FS_Interval DEF Ours
<1>2. IsFiniteSet(Ours(s))
  BY <1>1, FS_Subset
<1> QED
  BY <1>2, FS_CardinalityType

LEMMA OursAppended ==
    ASSUME NEW s \in Seq(Messages), NEW m \in Messages
    PROVE  /\ Append(s, m) \in Seq(Messages) /\ Len(Append(s, m)) = Len(s) + 1
           /\ \A i \in 1..Len(s) : Append(s, m)[i] = s[i]
           /\ Append(s, m)[Len(s) + 1] = m
           /\ m # "ours" => Ours(Append(s, m)) = Ours(s)
           /\ m = "ours" => /\ Ours(Append(s, m)) = Ours(s) \cup {Len(s) + 1}
                            /\ Cardinality(Ours(Append(s, m))) = Cardinality(Ours(s)) + 1
<1>1. /\ Append(s, m) \in Seq(Messages) /\ Len(Append(s, m)) = Len(s) + 1
      /\ \A i \in 1..Len(s) : Append(s, m)[i] = s[i]
      /\ Append(s, m)[Len(s) + 1] = m
  OBVIOUS
<1>2. m # "ours" => Ours(Append(s, m)) = Ours(s)
  BY <1>1 DEF Ours
<1>3. m = "ours" => Ours(Append(s, m)) = Ours(s) \cup {Len(s) + 1}
  BY <1>1 DEF Ours
<1>4. Len(s) + 1 \notin Ours(s)
  BY DEF Ours
<1>5. m = "ours" => Cardinality(Ours(Append(s, m))) = Cardinality(Ours(s)) + 1
  BY <1>3, <1>4, OursFinite, FS_AddElement
<1> QED
  BY <1>1, <1>2, <1>3, <1>5

LEMMA OursCut ==
    ASSUME NEW s \in Seq(Messages), NEW n \in 0..Len(s)
    PROVE  /\ SubSeq(s, 1, n) \in Seq(Messages) /\ Len(SubSeq(s, 1, n)) = n
           /\ \A i \in 1..n : SubSeq(s, 1, n)[i] = s[i]
           /\ Ours(SubSeq(s, 1, n)) \subseteq Ours(s)
           /\ Cardinality(Ours(SubSeq(s, 1, n))) <= Cardinality(Ours(s))
<1>1. /\ SubSeq(s, 1, n) \in Seq(Messages) /\ Len(SubSeq(s, 1, n)) = n
      /\ \A i \in 1..n : SubSeq(s, 1, n)[i] = s[i]
  OBVIOUS
<1>2. Ours(SubSeq(s, 1, n)) \subseteq Ours(s)
  BY <1>1 DEF Ours
<1> QED
  BY <1>1, <1>2, OursFinite, FS_Subset

\* What a fetch shows of the log.
LEMMA VisibleFacts ==
    ASSUME TypeOK
    PROVE  /\ Visible \in Seq(Messages) /\ Len(Visible) <= Batch
           /\ \A i \in 1..Len(Visible) : offset + i <= replicated /\ Visible[i] = log[offset + i]
           /\ replicated > offset => Visible # <<>>
<1> DEFINE end == IF replicated < offset + Batch THEN replicated ELSE offset + Batch
<1>1. /\ log \in Seq(Messages) /\ Len(log) \in Nat /\ replicated \in 0..Len(log) /\ offset \in 0..replicated
      /\ Batch \in Nat \ {0}
  BY ConstantsAssumption DEF TypeOK
<1>2. /\ end \in Nat /\ end <= replicated /\ end >= offset /\ end - offset <= Batch
      /\ replicated > offset => end > offset
  BY <1>1
<1>3. Visible = SubSeq(log, offset + 1, end)
  BY DEF Visible, From
<1> HIDE DEF end
<1>4. /\ Visible \in Seq(Messages) /\ Len(Visible) = end - offset
      /\ \A i \in 1..(end - offset) : Visible[i] = log[offset + i]
  BY <1>1, <1>2, <1>3
<1> QED
  BY <1>1, <1>2, <1>4

\* More than one of ours in what was fetched is more than one of ours in the log.
LEMMA FoundIsInLog ==
    ASSUME TypeOK, FetchedIsReplicated
    PROVE  /\ Found \in Nat /\ Found <= Cardinality(Ours(log))
           /\ Found > 0 <=> \E i \in 1..Len(fetched) : fetched[i] = "ours"
           /\ Found > 0 => OursReplicated
<1> DEFINE shift == [i \in Ours(fetched) |-> offset + i]
<1>1. /\ log \in Seq(Messages) /\ fetched \in Seq(Messages) /\ Len(log) \in Nat
      /\ replicated \in 0..Len(log) /\ offset \in 0..replicated
      /\ Len(fetched) \in Nat /\ DOMAIN fetched = 1..Len(fetched) /\ DOMAIN log = 1..Len(log)
  BY DEF TypeOK
<1>2. \A i \in Ours(fetched) : /\ i \in 1..Len(fetched) /\ fetched[i] = "ours"
                               /\ offset + i \in 1..replicated /\ offset + i \in Ours(log)
  <2> TAKE i \in Ours(fetched)
  <2>1. i \in 1..Len(fetched) /\ fetched[i] = "ours"
    BY <1>1 DEF Ours
  <2>2. offset + i <= replicated /\ log[offset + i] = "ours"
    BY <2>1 DEF FetchedIsReplicated
  <2>3. offset + i \in 1..replicated /\ offset + i \in 1..Len(log)
    BY <1>1, <2>1, <2>2
  <2> QED
    BY <1>1, <2>1, <2>2, <2>3 DEF Ours
<1>3. shift \in Injection(Ours(fetched), Ours(log))
  <2>1. shift \in [Ours(fetched) -> Ours(log)]
    BY <1>2
  <2>2. \A a, b \in Ours(fetched) : shift[a] = shift[b] => a = b
    BY <1>1, <1>2
  <2> QED
    BY <2>1, <2>2 DEF Injection, IsInjective
<1>4. Found \in Nat /\ Found <= Cardinality(Ours(log))
  BY <1>1, <1>3, OursFinite, FS_Injection DEF Found
<1>5. Found = 0 <=> Ours(fetched) = {}
  BY <1>1, OursFinite, FS_EmptySet DEF Found
<1>6. Found > 0 <=> \E i \in 1..Len(fetched) : fetched[i] = "ours"
  BY <1>1, <1>4, <1>5 DEF Ours
<1>7. Found > 0 => OursReplicated
  <2>1. Found > 0 => \E i \in Ours(fetched) : TRUE
    BY <1>4, <1>5
  <2>2. \A i \in Ours(fetched) : log[offset + i] = "ours" /\ offset + i \in 1..replicated
    BY <1>2 DEF Ours
  <2> QED
    BY <2>1, <2>2 DEF OursReplicated
<1> QED
  BY <1>4, <1>6, <1>7

-----------------------------------------------------------------------------
(* The invariant *)

LEMMA InitInv == Init => IInv
<1> SUFFICES ASSUME Init PROVE IInv
  OBVIOUS
<1>0. replicated = Len(log) /\ others = 0 /\ step = "options" /\ offset = 0 /\ attempts = 0
  BY DEF Init
<1>o. out.status = "NONE" /\ out.why = ""
  BY DEF Init
<1>e. fetched = <<>> /\ fetched \in Seq(Messages) /\ Len(fetched) = 0
  <2>1. fetched = <<>>
    BY DEF Init
  <2> QED
    BY <2>1
<1>1. /\ log \in Seq(Messages) /\ Len(log) \in Nat
      /\ \A i \in 1..Len(log) : log[i] = "other"
  <2>1. CASE log = <<>>
    BY <2>1
  <2>2. CASE log = <<"other">>
    BY <2>2 DEF Messages
  <2>3. log = <<>> \/ log = <<"other">>
    BY DEF Init
  <2> QED
    BY <2>1, <2>2, <2>3
<1>2. sendAttempts \in Nat \ {0} /\ python \in BOOLEAN /\ ignoreInvalid \in BOOLEAN
  <2>1. sendAttempts \in {1} \/ sendAttempts \in 1..MaxAttempts
    BY DEF Init
  <2>2. ignoreInvalid \in {FALSE} \/ ignoreInvalid \in BOOLEAN
    BY DEF Init
  <2>3. python \in BOOLEAN
    BY DEF Init
  <2>4. sendAttempts \in Nat \ {0}
    BY <2>1, ConstantsAssumption
  <2> QED
    BY <2>2, <2>3, <2>4
<1>3. TypeOK
  <2>1. Batch \in Nat
    BY ConstantsAssumption
  <2>2. replicated \in 0..Len(log) /\ offset \in 0..replicated /\ attempts \in 0..sendAttempts
    BY <1>0, <1>1, <1>2
  <2>3. Len(fetched) <= Batch
    BY <1>e, <2>1
  <2>4. step \in {"options", "offset", "send", "ack", "fetch", "search", "done"}
    BY <1>0
  <2>5. out.status \in Statuses \cup {"NONE"}
    BY <1>o
  <2> QED
    BY <1>e, <1>1, <2>2, <2>3, <2>4, <2>5 DEF TypeOK
<1>4. Ours(log) = {}
  BY <1>1 DEF Ours
<1>5. SentCounted
  <2>1. Cardinality(Ours(log)) = 0
    BY <1>4, FS_EmptySet
  <2> QED
    BY <1>0, <2>1 DEF SentCounted
<1>6. OptionsOK
  BY <1>0, <1>o, <1>2 DEF OptionsOK
<1>7. FetchedIsReplicated
  BY <1>0, <1>e DEF FetchedIsReplicated
<1>8. OursAfterOffset /\ OnlyOursAfterOffset /\ AckedBeforeFetch
  BY <1>0, <1>4 DEF OursAfterOffset, OnlyOursAfterOffset, AckedBeforeFetch, Sending
<1>9. OkMeansThrough /\ WarningMeansDuplicate /\ QuietTopicIsFound
  BY <1>o DEF OkMeansThrough, WarningMeansDuplicate, QuietTopicIsFound
<1> QED
  BY <1>3, <1>5, <1>6, <1>7, <1>8, <1>9 DEF IInv

\* The partition changes while the plugin is where it is: what is replicated
\* stays, and no message of ours is added.
LEMMA PartitionKeeps ==
    ASSUME IInv, UNCHANGED plugin,
           log' \in Seq(Messages), replicated' \in 0..Len(log'), replicated <= replicated',
           \A i \in 1..replicated : log'[i] = log[i],
           Ours(log') \subseteq Ours(log), Cardinality(Ours(log')) <= Cardinality(Ours(log)),
           step = "done" => log' = log /\ others' = others,
           others' \in Nat,
           others' = 0 => /\ others = 0 /\ (replicated = Len(log) => replicated' = Len(log'))
                          /\ Len(log') <= Len(log) /\ \A i \in 1..Len(log') : log'[i] = log[i]
    PROVE  IInv'
<1>1. /\ python' = python /\ acks' = acks /\ sendAttempts' = sendAttempts /\ ignoreInvalid' = ignoreInvalid
      /\ step' = step /\ offset' = offset /\ attempts' = attempts /\ fetched' = fetched /\ out' = out
  BY DEF plugin, options
<1>2. /\ Len(log) \in Nat /\ Len(log') \in Nat /\ replicated \in 0..Len(log) /\ offset \in 0..replicated
      /\ Len(fetched) \in Nat /\ log \in Seq(Messages) /\ attempts \in 0..sendAttempts
      /\ sendAttempts \in Nat
  <2>1. TypeOK /\ sendAttempts \in Nat
    BY DEF IInv, OptionsOK
  <2> QED
    BY <2>1 DEF TypeOK
<1>3. TypeOK'
  BY <1>1, <1>2 DEF IInv, TypeOK
<1>4. OptionsOK'
  BY <1>1 DEF IInv, OptionsOK
<1>5. FetchedIsReplicated'
  <2>1. \A i \in 1..Len(fetched) : offset + i \in 1..replicated /\ fetched[i] = log[offset + i]
    BY <1>2 DEF IInv, FetchedIsReplicated
  <2>2. \A i \in 1..Len(fetched) : offset + i <= replicated' /\ fetched[i] = log'[offset + i]
    BY <1>2, <2>1
  <2> QED
    BY <1>1, <2>2 DEF IInv, FetchedIsReplicated
<1>6. SentCounted'
  <2>1. Cardinality(Ours(log)) \in Nat /\ Cardinality(Ours(log')) \in Nat
    BY <1>2, OursFinite
  <2> QED
    BY <1>1, <1>2, <2>1 DEF IInv, SentCounted
<1>7. OursAfterOffset'
  BY <1>1 DEF IInv, OursAfterOffset
<1>8. OnlyOursAfterOffset'
  BY <1>1, <1>2 DEF IInv, OnlyOursAfterOffset
<1>9. OursReplicated => OursReplicated'
  BY <1>2 DEF OursReplicated
<1>10. AckedBeforeFetch' /\ OkMeansThrough'
  BY <1>1, <1>9 DEF IInv, AckedBeforeFetch, OkMeansThrough
<1>11. WarningMeansDuplicate'
  BY <1>1 DEF IInv, WarningMeansDuplicate, OptionsOK
<1>12. QuietTopicIsFound'
  BY <1>1 DEF IInv, QuietTopicIsFound, OptionsOK
<1> QED
  BY <1>3, <1>4, <1>5, <1>6, <1>7, <1>8, <1>10, <1>11, <1>12 DEF IInv

\* The plugin ends with an error that is neither OK nor a verdict on what the
\* fetch returned.
LEMMA QuitKeeps ==
    ASSUME IInv, NEW status \in {"CRITICAL", "UNKNOWN"}, NEW why, why \notin {"nothing", "not returned", "slow"},
           Quit(status, why), UNCHANGED <<options, partition, offset, attempts, fetched>>
    PROVE  IInv'
<1>1. /\ python' = python /\ acks' = acks /\ sendAttempts' = sendAttempts /\ ignoreInvalid' = ignoreInvalid
      /\ log' = log /\ replicated' = replicated /\ others' = others
      /\ offset' = offset /\ attempts' = attempts /\ fetched' = fetched
      /\ step' = "done" /\ out' = [status |-> status, why |-> why]
  BY DEF options, partition, Quit
<1>2. TypeOK' /\ OptionsOK'
  BY <1>1 DEF IInv, TypeOK, OptionsOK, Statuses
<1>3. FetchedIsReplicated' /\ SentCounted'
  BY <1>1 DEF IInv, FetchedIsReplicated, SentCounted
<1>4. OursAfterOffset' /\ OnlyOursAfterOffset' /\ AckedBeforeFetch'
  BY <1>1 DEF OursAfterOffset, OnlyOursAfterOffset, AckedBeforeFetch, Sending
<1>5. OkMeansThrough' /\ WarningMeansDuplicate' /\ QuietTopicIsFound'
  BY <1>1 DEF OkMeansThrough, WarningMeansDuplicate, QuietTopicIsFound
<1> QED
  BY <1>2, <1>3, <1>4, <1>5 DEF IInv

\* The plugin goes from one step to the next and has noted nothing.
LEMMA GoOnKeeps ==
    ASSUME IInv, NEW s \in {"offset", "send", "fetch"}, GoOn(s),
           UNCHANGED <<options, partition, offset, attempts, fetched>>,
           step \in {"options", "ack"}, step = "options" <=> s = "offset",
           s = "fetch" /\ acks = "ISR" /\ ~python => OursReplicated
    PROVE  IInv'
<1>1. /\ python' = python /\ acks' = acks /\ sendAttempts' = sendAttempts /\ ignoreInvalid' = ignoreInvalid
      /\ log' = log /\ replicated' = replicated /\ others' = others
      /\ offset' = offset /\ attempts' = attempts /\ fetched' = fetched
      /\ step' = s /\ out' = out /\ step # "done"
  BY DEF options, partition, GoOn
<1>2. TypeOK' /\ OptionsOK'
  BY <1>1 DEF IInv, TypeOK, OptionsOK
<1>3. FetchedIsReplicated' /\ SentCounted'
  BY <1>1 DEF IInv, FetchedIsReplicated, SentCounted
<1>4. OursAfterOffset' /\ OnlyOursAfterOffset'
  BY <1>1 DEF IInv, OursAfterOffset, OnlyOursAfterOffset, Sending
<1>5. AckedBeforeFetch'
  BY <1>1 DEF AckedBeforeFetch, OursReplicated
<1>6. OkMeansThrough' /\ WarningMeansDuplicate' /\ QuietTopicIsFound'
  BY <1>1 DEF IInv, OptionsOK, OkMeansThrough, WarningMeansDuplicate, QuietTopicIsFound
<1> QED
  BY <1>2, <1>3, <1>4, <1>5, <1>6 DEF IInv

\* The offset is taken where the replicas end, before anything of ours is sent.
LEMMA RecordOffsetKeeps == IInv /\ RecordOffset => IInv'
<1> SUFFICES ASSUME IInv, RecordOffset PROVE IInv'
  OBVIOUS
<1>1. /\ python' = python /\ acks' = acks /\ sendAttempts' = sendAttempts /\ ignoreInvalid' = ignoreInvalid
      /\ log' = log /\ replicated' = replicated /\ others' = others /\ attempts' = attempts
      /\ fetched' = fetched /\ fetched = <<>> /\ out' = out
      /\ step = "offset" /\ step' = "send" /\ offset' = replicated
  BY DEF RecordOffset, LatestOffset, GoOn, options, partition, IInv, FetchedIsReplicated
<1>2. Len(log) \in Nat /\ replicated \in 0..Len(log)
  BY DEF IInv, TypeOK
<1>3. TypeOK'
  <2>1. offset' \in 0..replicated'
    BY <1>1, <1>2
  <2> QED
    BY <1>1, <2>1 DEF IInv, TypeOK
<1>4. OptionsOK' /\ SentCounted'
  BY <1>1 DEF IInv, OptionsOK, SentCounted
<1>5. FetchedIsReplicated'
  <2>1. Len(fetched) = 0
    BY <1>1
  <2> QED
    BY <1>1, <2>1 DEF FetchedIsReplicated
<1>6. OursAfterOffset'
  BY <1>1 DEF IInv, OursAfterOffset, Sending
<1>7. OnlyOursAfterOffset'
  <2>1. others = 0 => \A i \in 1..Len(log) : ~(i > replicated)
    BY <1>1, <1>2 DEF IInv, OnlyOursAfterOffset
  <2> QED
    BY <1>1, <2>1 DEF OnlyOursAfterOffset
<1>8. AckedBeforeFetch' /\ OkMeansThrough' /\ WarningMeansDuplicate' /\ QuietTopicIsFound'
  BY <1>1 DEF IInv, OptionsOK, AckedBeforeFetch, OkMeansThrough, WarningMeansDuplicate, QuietTopicIsFound
<1> QED
  BY <1>3, <1>4, <1>5, <1>6, <1>7, <1>8 DEF IInv

\* A message of ours is added at the end of the log, after what is replicated.
LEMMA SendKeeps == IInv /\ Send => IInv'
<1> SUFFICES ASSUME IInv, Send PROVE IInv'
  OBVIOUS
<1>1. /\ python' = python /\ acks' = acks /\ sendAttempts' = sendAttempts /\ ignoreInvalid' = ignoreInvalid
      /\ replicated' = replicated /\ others' = others /\ offset' = offset /\ attempts' = attempts + 1
      /\ fetched' = fetched /\ fetched = <<>> /\ out' = out
      /\ step = "send" /\ step' = "ack" /\ attempts < sendAttempts
  BY DEF Send, GoOn, options, IInv, FetchedIsReplicated
<1>2. /\ log \in Seq(Messages) /\ Len(log) \in Nat /\ replicated \in 0..Len(log) /\ offset \in 0..replicated
      /\ attempts \in 0..sendAttempts /\ sendAttempts \in Nat
      /\ Cardinality(Ours(log)) \in Nat /\ Cardinality(Ours(log)) <= attempts
  <2>1. TypeOK /\ sendAttempts \in Nat /\ SentCounted
    BY DEF IInv, OptionsOK
  <2>2. log \in Seq(Messages)
    BY <2>1 DEF TypeOK
  <2> QED
    BY <2>1, <2>2, OursFinite DEF TypeOK, SentCounted
\* Whether it is lost on its way or not.
<1>3. /\ log' \in Seq(Messages) /\ Len(log') \in Nat /\ Len(log) <= Len(log')
      /\ \A i \in 1..Len(log) : log'[i] = log[i]
      /\ \A i \in 1..Len(log') : i > Len(log) => log'[i] = "ours"
      /\ \A i \in Ours(log') : i \in Ours(log) \/ i > Len(log)
      /\ Cardinality(Ours(log')) <= attempts'
  <2>1. CASE log' = log
    BY <1>1, <1>2, <2>1
  <2>2. CASE log' = Append(log, "ours")
    <3>1. "ours" \in Messages
      BY DEF Messages
    <3>2. /\ log' \in Seq(Messages) /\ Len(log') = Len(log) + 1
          /\ \A i \in 1..Len(log) : log'[i] = log[i]
          /\ log'[Len(log) + 1] = "ours"
          /\ Ours(log') = Ours(log) \cup {Len(log) + 1}
          /\ Cardinality(Ours(log')) = Cardinality(Ours(log)) + 1
      BY <1>2, <2>2, <3>1, OursAppended
    <3> QED
      BY <1>1, <1>2, <3>2
  <2> QED
    BY <2>1, <2>2 DEF Send
<1>4. TypeOK'
  <2>1. replicated' \in 0..Len(log') /\ offset' \in 0..replicated' /\ attempts' \in 0..sendAttempts'
    BY <1>1, <1>2, <1>3
  <2> QED
    BY <1>1, <1>3, <2>1 DEF IInv, TypeOK
<1>5. OptionsOK'
  BY <1>1 DEF IInv, OptionsOK
<1>6. SentCounted'
  BY <1>3 DEF SentCounted
<1>7. FetchedIsReplicated'
  <2>1. Len(fetched) = 0
    BY <1>1
  <2> QED
    BY <1>1, <2>1 DEF FetchedIsReplicated
<1>8. OursAfterOffset'
  <2>1. \A i \in Ours(log) : i > offset
    BY <1>1 DEF IInv, OursAfterOffset, Sending
  <2>2. \A i \in Ours(log') : i > offset
    <3> TAKE i \in Ours(log')
    <3>1. i \in Nat
      BY <1>3 DEF Ours
    <3> QED
      BY <1>2, <1>3, <2>1, <3>1
  <2> QED
    BY <1>1, <2>2 DEF OursAfterOffset
<1>9. OnlyOursAfterOffset'
  <2>1. others = 0 => \A i \in 1..Len(log) : i > offset => log[i] = "ours"
    BY <1>1 DEF IInv, OnlyOursAfterOffset, Sending
  <2>2. others = 0 => \A i \in 1..Len(log') : i > offset => log'[i] = "ours"
    BY <1>2, <1>3, <2>1
  <2> QED
    BY <1>1, <2>2 DEF OnlyOursAfterOffset
<1>10. AckedBeforeFetch' /\ OkMeansThrough' /\ WarningMeansDuplicate' /\ QuietTopicIsFound'
  BY <1>1 DEF IInv, OptionsOK, AckedBeforeFetch, OkMeansThrough, WarningMeansDuplicate, QuietTopicIsFound
<1> QED
  BY <1>4, <1>5, <1>6, <1>7, <1>8, <1>9, <1>10 DEF IInv

\* A quiet topic shows something of what was acknowledged, and ours comes first.
LEMMA FetchKeeps == IInv /\ Fetch => IInv'
<1> SUFFICES ASSUME IInv, Fetch PROVE IInv'
  OBVIOUS
<1>1. /\ python' = python /\ acks' = acks /\ sendAttempts' = sendAttempts /\ ignoreInvalid' = ignoreInvalid
      /\ log' = log /\ replicated' = replicated /\ others' = others
      /\ offset' = offset /\ attempts' = attempts /\ fetched' = Visible
      /\ step = "fetch" /\ out.status = "NONE" /\ out.why = ""
  BY DEF Fetch, options, partition, IInv, OptionsOK
<1>2. \/ /\ Visible = <<>> /\ step' = "done"
         /\ out'.status \in {"CRITICAL", "UNKNOWN"} /\ out'.why = "nothing"
      \/ Visible # <<>> /\ step' = "search" /\ out' = out
  BY DEF Fetch, Quit, GoOn
<1>3. /\ Visible \in Seq(Messages) /\ Len(Visible) <= Batch
      /\ \A i \in 1..Len(Visible) : offset + i <= replicated /\ Visible[i] = log[offset + i]
      /\ replicated > offset => Visible # <<>>
  BY VisibleFacts DEF IInv
<1>4. TypeOK'
  <2>1. out'.status \in Statuses \cup {"NONE"}
    BY <1>1, <1>2 DEF Statuses
  <2>2. step' \in {"options", "offset", "send", "ack", "fetch", "search", "done"}
    BY <1>2
  <2> QED
    BY <1>1, <1>3, <2>1, <2>2 DEF IInv, TypeOK
<1>5. OptionsOK' /\ SentCounted'
  BY <1>1, <1>2 DEF IInv, OptionsOK, SentCounted
<1>6. FetchedIsReplicated'
  BY <1>1, <1>2, <1>3 DEF FetchedIsReplicated
<1>7. OursAfterOffset' /\ OnlyOursAfterOffset'
  BY <1>1, <1>2 DEF IInv, OursAfterOffset, OnlyOursAfterOffset, Sending
<1>8. AckedBeforeFetch'
  BY <1>1, <1>2 DEF IInv, AckedBeforeFetch, OursReplicated
<1>9. OkMeansThrough' /\ WarningMeansDuplicate'
  BY <1>1, <1>2 DEF OkMeansThrough, WarningMeansDuplicate
<1>10. QuietTopicIsFound'
  <2> SUFFICES ASSUME acks = "ISR", ~python PROVE out'.why \notin {"nothing", "not returned"}
    BY <1>1 DEF QuietTopicIsFound
  <2>1. PICK i \in 1..replicated : log[i] = "ours"
    BY <1>1 DEF IInv, AckedBeforeFetch, OursReplicated
  <2>2. Len(log) \in Nat /\ replicated \in 0..Len(log) /\ offset \in 0..replicated /\ DOMAIN log = 1..Len(log)
    BY DEF IInv, TypeOK
  <2>3. i \in Ours(log)
    BY <2>1, <2>2 DEF Ours
  <2>4. i > offset
    BY <1>1, <2>3 DEF IInv, OursAfterOffset, Sending
  <2>5. replicated > offset
    BY <2>2, <2>4
  <2>6. Visible # <<>>
    BY <1>3, <2>5
  <2>7. out' = out
    BY <1>2, <2>6
  <2> QED
    BY <1>1, <2>7
<1> QED
  BY <1>4, <1>5, <1>6, <1>7, <1>8, <1>9, <1>10 DEF IInv

\* The verdict: one of ours is OK or slow, several are a warning, and none of ours
\* is not what a quiet topic shows.
LEMMA SearchKeeps == IInv /\ Search => IInv'
<1> SUFFICES ASSUME IInv, Search PROVE IInv'
  OBVIOUS
<1>1. /\ python' = python /\ acks' = acks /\ sendAttempts' = sendAttempts /\ ignoreInvalid' = ignoreInvalid
      /\ log' = log /\ replicated' = replicated /\ others' = others
      /\ offset' = offset /\ attempts' = attempts /\ fetched' = fetched
      /\ step = "search"
  BY DEF Search, options, partition
<1>2. /\ Found \in Nat /\ Found <= Cardinality(Ours(log))
      /\ Found > 0 <=> \E i \in 1..Len(fetched) : fetched[i] = "ours"
      /\ Found > 0 => OursReplicated
  BY FoundIsInLog DEF IInv
<1>3. /\ step' = "done"
      /\ \/ out'.status = "CRITICAL" /\ out'.why = "invalid"
         \/ Found > 0 /\ out'.status = "OK" /\ out'.why = "returned"
         \/ Found > 0 /\ out'.status \in {"WARNING", "CRITICAL"} /\ out'.why = "slow"
         \/ Found > 1 /\ out'.status = "WARNING" /\ out'.why = "returned several times"
         \/ Found = 0 /\ out'.status \in {"CRITICAL", "UNKNOWN"} /\ out'.why = "not returned"
  <2>1. CASE python
    <3>1. SearchPython
      BY <2>1 DEF Search
    <3>2. CASE Found > 0
      <4>1. Quit("OK", "returned") \/ \E status \in {"WARNING", "CRITICAL"} : Quit(status, "slow")
        BY <3>1, <3>2 DEF SearchPython
      <4>2. CASE Quit("OK", "returned")
        BY <3>2, <4>2 DEF Quit
      <4>3. CASE \E status \in {"WARNING", "CRITICAL"} : Quit(status, "slow")
        BY <3>2, <4>3 DEF Quit
      <4> QED
        BY <4>1, <4>2, <4>3
    <3>3. CASE ~(Found > 0)
      <4>1. Found = 0
        BY <1>2, <3>3
      <4>2. Quit("UNKNOWN", "not returned")
        BY <3>1, <3>3 DEF SearchPython
      <4> QED
        BY <4>1, <4>2 DEF Quit
    <3> QED
      BY <3>2, <3>3
  <2>2. CASE ~python
    <3>1. SearchPerl
      BY <2>2 DEF Search
    <3>2. CASE Contains(fetched, "invalid") /\ ~ignoreInvalid
      <4>1. Quit("CRITICAL", "invalid")
        BY <3>1, <3>2 DEF SearchPerl
      <4> QED
        BY <4>1 DEF Quit
    <3>3. CASE ~(Contains(fetched, "invalid") /\ ~ignoreInvalid)
      <4>1. Found = 0 \/ Found = 1 \/ Found > 1
        BY <1>2
      <4>2. CASE Found = 1
        <5>1. Quit("OK", "returned") /\ Found > 0
          BY <3>1, <3>3, <4>2 DEF SearchPerl
        <5> QED
          BY <5>1 DEF Quit
      <4>3. CASE Found > 1
        <5>1. Found # 1 /\ Found # 0
          BY <1>2, <4>3
        <5>2. Quit("WARNING", "returned several times")
          BY <3>1, <3>3, <4>3, <5>1 DEF SearchPerl
        <5> QED
          BY <4>3, <5>2 DEF Quit
      <4>4. CASE Found = 0
        <5>1. Found # 1 /\ ~(Found > 1)
          BY <4>4
        <5>2. Quit("CRITICAL", "not returned")
          BY <3>1, <3>3, <4>4, <5>1 DEF SearchPerl
        <5> QED
          BY <4>4, <5>2 DEF Quit
      <4> QED
        BY <4>1, <4>2, <4>3, <4>4
    <3> QED
      BY <3>2, <3>3
  <2> QED
    BY <2>1, <2>2
<1>4. step' = "done" /\ out'.status \in {"OK", "WARNING", "CRITICAL", "UNKNOWN"}
  BY <1>3
<1>5. TypeOK' /\ OptionsOK'
  BY <1>1, <1>4 DEF IInv, TypeOK, OptionsOK, Statuses
<1>6. FetchedIsReplicated' /\ SentCounted'
  BY <1>1, <1>4 DEF IInv, FetchedIsReplicated, SentCounted
<1>7. OursAfterOffset' /\ OnlyOursAfterOffset' /\ AckedBeforeFetch'
  BY <1>4 DEF OursAfterOffset, OnlyOursAfterOffset, AckedBeforeFetch, Sending
<1>8. OkMeansThrough'
  <2>1. out'.status = "OK" \/ out'.why = "slow" => Found > 0
    BY <1>3
  <2>2. OursReplicated => OursReplicated'
    BY <1>1 DEF OursReplicated
  <2> QED
    BY <1>2, <2>1, <2>2 DEF OkMeansThrough
<1>9. WarningMeansDuplicate'
  <2>1. out'.status = "WARNING" /\ out'.why # "slow" => Found > 1
    BY <1>3
  <2>2. attempts \in Nat /\ attempts <= sendAttempts /\ sendAttempts \in Nat
    <3>1. attempts \in 0..sendAttempts
      BY DEF IInv, TypeOK
    <3>2. sendAttempts \in Nat
      BY DEF IInv, OptionsOK
    <3> QED
      BY <3>1, <3>2
  <2>3. Cardinality(Ours(log)) \in Nat /\ Cardinality(Ours(log)) <= attempts
    <3>1. log \in Seq(Messages)
      BY DEF IInv, TypeOK
    <3> QED
      BY <3>1, OursFinite DEF IInv, SentCounted
  <2> QED
    BY <1>1, <1>2, <2>1, <2>2, <2>3 DEF WarningMeansDuplicate
<1>10. QuietTopicIsFound'
  <2> SUFFICES ASSUME acks = "ISR", ~python, others = 0 PROVE out'.why \notin {"nothing", "not returned"}
    BY <1>1 DEF QuietTopicIsFound
  <2>1. /\ fetched \in Seq(Messages) /\ Len(fetched) \in Nat /\ fetched # <<>>
        /\ replicated \in 0..Len(log) /\ offset \in 0..replicated /\ Len(log) \in Nat
    BY <1>1 DEF IInv, TypeOK, FetchedIsReplicated
  <2>2. Len(fetched) >= 1
    BY <2>1
  <2>3. offset + 1 <= replicated /\ fetched[1] = log[offset + 1]
    BY <2>1, <2>2 DEF IInv, FetchedIsReplicated
  <2>4. log[offset + 1] = "ours"
    BY <1>1, <2>1, <2>3 DEF IInv, OnlyOursAfterOffset, Sending
  <2>5. Found > 0
    BY <1>2, <2>1, <2>2, <2>3, <2>4
  <2>6. ~(Found = 0)
    BY <1>2, <2>5
  <2> QED
    BY <1>3, <2>6
<1> QED
  BY <1>5, <1>6, <1>7, <1>8, <1>9, <1>10 DEF IInv

LEMMA NextInv == IInv /\ [Next]_vars => IInv'
<1> SUFFICES ASSUME IInv, [Next]_vars PROVE IInv'
  OBVIOUS
<1>l. /\ TypeOK /\ log \in Seq(Messages) /\ Len(log) \in Nat /\ replicated \in 0..Len(log)
      /\ others \in Nat /\ Cardinality(Ours(log)) \in Nat
  <2>1. TypeOK /\ others \in Nat
    BY DEF IInv, OptionsOK
  <2>2. log \in Seq(Messages)
    BY <2>1 DEF TypeOK
  <2> QED
    BY <2>1, <2>2, OursFinite DEF TypeOK
<1>1. CASE Options
  <2>1. CASE Accepted
    BY <1>1, <2>1, GoOnKeeps DEF Options
  <2>2. CASE ~Accepted
    BY <1>1, <2>2, QuitKeeps DEF Options
  <2> QED
    BY <2>1, <2>2
<1>2. CASE Refused
  BY <1>2, QuitKeeps DEF Refused
<1>3. CASE RecordOffset
  BY <1>3, RecordOffsetKeeps
<1>4. CASE Send
  BY <1>4, SendKeeps
<1>5. CASE Acknowledged
  BY <1>5, GoOnKeeps DEF Acknowledged, Acked
<1>6. CASE Unacknowledged
  <2>1. CASE Resend /\ GoOn("send")
    BY <1>6, <2>1, GoOnKeeps DEF Unacknowledged
  <2>2. CASE ~Resend /\ ~python /\ Quit("CRITICAL", "unsent")
    BY <1>6, <2>2, QuitKeeps DEF Unacknowledged
  <2>3. CASE ~Resend /\ python /\ GoOn("fetch")
    BY <1>6, <2>3, GoOnKeeps DEF Unacknowledged
  <2> QED
    BY <1>6, <2>1, <2>2, <2>3 DEF Unacknowledged
<1>7. CASE Fetch
  BY <1>7, FetchKeeps
<1>8. CASE Search
  BY <1>8, SearchKeeps
\* A message of others: the topic is no longer a quiet one.
<1>9. CASE Produce
  <2>1. PICK m \in {"other", "invalid"} : log' = Append(log, m)
    BY <1>9 DEF Produce
  <2>2. m \in Messages /\ m # "ours"
    BY DEF Messages
  <2>3. /\ log' \in Seq(Messages) /\ Len(log') = Len(log) + 1
        /\ \A i \in 1..Len(log) : log'[i] = log[i]
        /\ Ours(log') = Ours(log)
    BY <1>l, <2>1, <2>2, OursAppended
  <2>4. UNCHANGED plugin /\ replicated' = replicated /\ others' = others + 1 /\ step # "done"
    BY <1>9 DEF Produce
  <2>5. replicated' \in 0..Len(log') /\ replicated <= replicated' /\ others' \in Nat /\ others' # 0
    BY <1>l, <2>3, <2>4
  <2>6. \A i \in 1..replicated : log'[i] = log[i]
    BY <1>l, <2>3
  <2> QED
    BY <1>l, <2>3, <2>4, <2>5, <2>6, PartitionKeeps
<1>10. CASE ReplicaCatchesUp
  <2>1. UNCHANGED plugin /\ log' = log /\ replicated' = replicated + 1 /\ replicated < Len(log) /\ others' = others
    BY <1>10 DEF ReplicaCatchesUp
  <2>2. replicated' \in 0..Len(log') /\ replicated <= replicated' /\ replicated # Len(log)
    BY <1>l, <2>1
  <2> QED
    BY <1>l, <2>1, <2>2, PartitionKeeps
\* What is cut off is behind what the replicas have.
<1>11. CASE LoseLeader
  <2>1. UNCHANGED plugin /\ log' = SubSeq(log, 1, replicated) /\ replicated' = replicated
        /\ others' = others /\ step # "done"
    BY <1>11 DEF LoseLeader
  <2>2. /\ log' \in Seq(Messages) /\ Len(log') = replicated
        /\ \A i \in 1..replicated : log'[i] = log[i]
        /\ Ours(log') \subseteq Ours(log) /\ Cardinality(Ours(log')) <= Cardinality(Ours(log))
    BY <1>l, <2>1, OursCut
  <2>3. replicated' \in 0..Len(log') /\ replicated <= replicated' /\ Len(log') <= Len(log)
    BY <1>l, <2>1, <2>2
  <2> QED
    BY <1>l, <2>1, <2>2, <2>3, PartitionKeeps
<1>12. CASE UNCHANGED vars
  <2>1. UNCHANGED plugin /\ log' = log /\ replicated' = replicated /\ others' = others
    BY <1>12 DEF vars, partition
  <2> QED
    BY <1>l, <2>1, PartitionKeeps
<1> QED
  BY <1>1, <1>2, <1>3, <1>4, <1>5, <1>6, <1>7, <1>8, <1>9, <1>10, <1>11, <1>12 DEF Next, Run

-----------------------------------------------------------------------------

\* The offset stays within what the replicas have, and the sends within
\* --send-max-attempts, whatever the partition does meanwhile.
THEOREM KafkaTypeCorrect == Spec => []TypeOK
<1>1. IInv => TypeOK
  BY DEF IInv
<1> QED
  BY InitInv, NextInv, <1>1, PTL DEF Spec

\* OK of either port, and the alarm for a slow message, are told only of a message
\* that no lost leader takes back.
THEOREM OkIsThrough == Spec => []OkMeansThrough
<1>1. IInv => OkMeansThrough
  BY DEF IInv
<1> QED
  BY InitInv, NextInv, <1>1, PTL DEF Spec

\* A WARNING that is not for the time it took is for what the library's sending
\* again did, and no message of others is taken for ours.
THEOREM WarningIsDuplicate == Spec => []WarningMeansDuplicate
<1>1. IInv => WarningMeansDuplicate
  BY DEF IInv
<1> QED
  BY InitInv, NextInv, <1>1, PTL DEF Spec

\* With all acknowledgements the one fetch of check_kafka.pl from the offset it
\* took before the send finds the message in a quiet topic, of any fetch size.
THEOREM QuietIsFound == Spec => []QuietTopicIsFound
<1>1. IInv => QuietTopicIsFound
  BY DEF IInv
<1> QED
  BY InitInv, NextInv, <1>1, PTL DEF Spec

-----------------------------------------------------------------------------
(* LinuxInterface *)

\* The counters of the interface never count beyond their bounds, nor does what
\* a run has sampled of them.
ErrInv == nic.err <= MaxErr /\ \A p \in Proc : samp[p].err <= MaxErr

\* A run that will answer for its errors, whatever becomes of it: its base is of
\* another count or has fewer of them.
Teller(p) == pc[p] = "saved" /\ (NoBase(p) \/ samp[p].err > last[p].err)

\* The errors of counters c have been answered for, or a run that is yet to print
\* will answer for as many of the same count.
Covered(c) ==
    \/ c.err <= answered[c.epoch]
    \/ \E p \in Proc : Teller(p) /\ samp[p].epoch = c.epoch /\ c.err <= samp[p].err

\* The errors in the file, and those that a run compares its own with, are
\* covered: a run that is silent about its errors has read as many before.
CoverInv ==
    /\ Covered(rec)
    /\ \A p \in Proc : pc[p] \in {"truncated", "saved"} => Covered(last[p])

InterfaceInv == InterfaceTypeOK /\ ErrInv /\ (Errors => CoverInv)

-----------------------------------------------------------------------------

LEMMA BlankIsCounters == Blank \in Counters /\ Blank.err = 0 /\ Blank.epoch = 0 /\ 0 \in Epochs
<1>1. 0 \in Epochs
  BY InterfaceAssumption DEF Epochs
<1>2. Blank \in Counters
  BY <1>1 DEF Blank, Counters
<1> QED
  BY <1>1, <1>2 DEF Blank

\* The fields of counters, and the counters with one of them set.
LEMMA CountersFields ==
    ASSUME NEW c \in Counters
    PROVE  /\ c.ts \in Nat /\ c.pk \in Nat /\ c.err \in Nat /\ c.epoch \in Epochs
           /\ \A t \in Nat : [c EXCEPT !.ts = t] \in Counters /\ [c EXCEPT !.ts = t].err = c.err
           /\ \A n \in Nat : [c EXCEPT !.pk = n] \in Counters /\ [c EXCEPT !.pk = n].err = c.err
           /\ \A n \in Nat : [c EXCEPT !.err = n] \in Counters /\ [c EXCEPT !.err = n].err = n
BY DEF Counters

\* A process that ends keeps the types.
LEMMA DieType ==
    ASSUME InterfaceTypeOK, NEW p \in Proc, Die(p)
    PROVE  /\ pc' \in [Proc -> PCs] /\ found' \in [Proc -> BOOLEAN]
           /\ samp' \in [Proc -> Counters] /\ last' \in [Proc -> Counters] /\ lock' \in SUBSET Proc
BY BlankIsCounters DEF InterfaceTypeOK, Die, PCs

\* What has been answered for never shrinks, and a run that answers adds its own.
LEMMA TellType ==
    ASSUME InterfaceTypeOK, ErrInv, NEW p \in Proc, NEW status, Tell(p, status)
    PROVE  /\ answered' \in [Epochs -> 0..MaxErr]
           /\ \A e \in Epochs : answered[e] <= answered'[e]
           /\ Answers(p, status) => samp[p].err <= answered'[samp[p].epoch]
<1>1. samp[p].err \in 0..MaxErr /\ samp[p].epoch \in Epochs
  <2>1. samp[p] \in Counters
    BY DEF InterfaceTypeOK
  <2>2. samp[p].err \in Nat /\ samp[p].epoch \in Epochs /\ samp[p].err <= MaxErr
    BY <2>1, CountersFields DEF ErrInv
  <2> QED
    BY <2>2, InterfaceAssumption
<1>2. \A e \in Epochs : answered[e] \in 0..MaxErr
  BY DEF InterfaceTypeOK
<1>3. CASE Answers(p, status) /\ samp[p].err > answered[samp[p].epoch]
  <2>1. answered' = [answered EXCEPT ![samp[p].epoch] = samp[p].err]
    BY <1>3 DEF Tell
  <2> QED
    BY <1>1, <1>2, <1>3, <2>1, InterfaceAssumption DEF InterfaceTypeOK
<1>4. CASE ~(Answers(p, status) /\ samp[p].err > answered[samp[p].epoch])
  <2>1. answered' = answered
    BY <1>4 DEF Tell
  <2> QED
    BY <1>1, <1>2, <1>4, <2>1, InterfaceAssumption DEF InterfaceTypeOK
<1> QED
  BY <1>3, <1>4

\* The inductive step of the types and of the bound on the errors.
LEMMA TypeStep == InterfaceTypeOK /\ ErrInv /\ [InterfaceNext]_interfaceVars => InterfaceTypeOK' /\ ErrInv'
<1> SUFFICES ASSUME InterfaceTypeOK, ErrInv, [InterfaceNext]_interfaceVars
             PROVE  InterfaceTypeOK' /\ ErrInv'
  OBVIOUS
<1> USE InterfaceAssumption, BlankIsCounters
<1>1. CASE UNCHANGED interfaceVars
  BY <1>1 DEF interfaceVars, InterfaceTypeOK, ErrInv
<1>2. CASE Traffic \/ Error \/ Wrap \/ Reset
  <2>1. nic' \in Counters /\ nic'.err <= MaxErr
    <3>2. CASE Traffic
      <4>1. nic \in Counters /\ nic.pk + 1 \in Nat /\ nic' = [nic EXCEPT !.pk = nic.pk + 1]
        BY <3>2, CountersFields DEF Traffic, InterfaceTypeOK
      <4>2. nic' \in Counters /\ nic'.err = nic.err
        BY <4>1, CountersFields
      <4> QED
        BY <4>1, <4>2 DEF InterfaceTypeOK, ErrInv
    <3>3. CASE Error
      <4>1. /\ nic \in Counters /\ nic.err \in Nat /\ nic.err + 1 \in Nat /\ nic.err < MaxErr
            /\ nic' = [nic EXCEPT !.err = nic.err + 1]
        BY <3>3, CountersFields DEF Error, InterfaceTypeOK
      <4>2. nic' \in Counters /\ nic'.err = nic.err + 1
        BY <4>1, CountersFields
      <4> QED
        BY <4>1, <4>2 DEF InterfaceTypeOK
    <3>4. CASE Wrap
      BY <3>4, CountersFields DEF Wrap, InterfaceTypeOK, ErrInv
    <3>5. CASE Reset
      <4>1. PICK pk \in {0, nic.pk} : nic' = [nic EXCEPT !.err = 0, !.pk = pk, !.epoch = @ + 1]
        BY <3>5 DEF Reset
      <4>2. nic.pk \in Nat /\ nic.epoch \in Epochs /\ nic.epoch < MaxResets
        BY <3>5, CountersFields DEF Reset, InterfaceTypeOK
      <4>3. pk \in Nat /\ nic.epoch + 1 \in Epochs
        BY <4>1, <4>2 DEF Epochs
      <4>4. nic' \in Counters /\ nic'.err = 0
        BY <4>1, <4>3 DEF InterfaceTypeOK, Counters
      <4> QED
        BY <4>2, <4>4 DEF InterfaceTypeOK
    <3> QED
      BY <1>2, <3>2, <3>3, <3>4, <3>5
  <2> QED
    BY <1>2, <2>1 DEF Traffic, Error, Wrap, Reset, Quiet, store, local, InterfaceTypeOK, ErrInv
<1>3. ASSUME NEW p \in Proc, Measure(p)
      PROVE  InterfaceTypeOK' /\ ErrInv'
  BY <1>3 DEF Measure, Goto, store, InterfaceTypeOK, ErrInv, PCs
<1>4. ASSUME NEW p \in Proc, TestFile(p) \/ Lock(p)
      PROVE  InterfaceTypeOK' /\ ErrInv'
  BY <1>4 DEF TestFile, Lock, Goto, store, local, InterfaceTypeOK, ErrInv, PCs
<1>5. ASSUME NEW p \in Proc, OpenFile(p)
      PROVE  InterfaceTypeOK' /\ ErrInv'
  BY <1>5 DEF OpenFile, Goto, local, InterfaceTypeOK, ErrInv, PCs
<1>6. ASSUME NEW p \in Proc, Replace(p)
      PROVE  InterfaceTypeOK' /\ ErrInv'
  <2>1. pc[p] = "locked" /\ samp[p] \in Counters /\ rec \in Counters
    BY <1>6 DEF Replace, Goto, InterfaceTypeOK
  <2>0. PICK now \in 1..MaxTime : samp' = [samp EXCEPT ![p] = [samp[p] EXCEPT !.ts = now]]
    BY <1>6 DEF Replace
  <2>2. [samp[p] EXCEPT !.ts = now] \in Counters /\ [samp[p] EXCEPT !.ts = now].err = samp[p].err
    BY <2>0, <2>1, CountersFields
  <2>3. samp' \in [Proc -> Counters] /\ last' \in [Proc -> Counters] /\ pc' \in [Proc -> PCs]
    BY <1>6, <2>0, <2>1, <2>2 DEF Replace, Goto, InterfaceTypeOK, PCs
  <2>4. \A q \in Proc : samp'[q].err = samp[q].err
    BY <2>0, <2>2 DEF InterfaceTypeOK
  <2> QED
    BY <1>6, <2>3, <2>4 DEF Replace, InterfaceTypeOK, ErrInv
<1>7. ASSUME NEW p \in Proc, Close(p)
      PROVE  InterfaceTypeOK' /\ ErrInv'
  BY <1>7 DEF Close, Goto, Line, local, InterfaceTypeOK, ErrInv, PCs
<1>8. ASSUME NEW p \in Proc, LockBusy(p)
      PROVE  InterfaceTypeOK' /\ ErrInv'
  <2>1. ErrInv'
    BY <1>8 DEF LockBusy, Die, InterfaceTypeOK, ErrInv
  <2> QED
    BY <1>8, <2>1, DieType DEF LockBusy, InterfaceTypeOK
<1>9. ASSUME NEW p \in Proc, Finish(p) \/ Timeout(p) \/ Kill(p)
      PROVE  InterfaceTypeOK' /\ ErrInv'
  <2>1. PICK status : Tell(p, status)
    BY <1>9 DEF Finish, Timeout, Kill
  <2>2. Die(p) /\ UNCHANGED nic /\ UNCHANGED exists /\ rec' \in {rec, samp[p]}
    BY <1>9 DEF Finish, Timeout, Kill, Line
  <2>3. answered' \in [Epochs -> 0..MaxErr]
    BY <2>1, TellType
  <2>4. ErrInv'
    BY <2>2 DEF Die, InterfaceTypeOK, ErrInv
  <2>5. rec' \in Counters
    BY <2>2 DEF InterfaceTypeOK
  <2> QED
    BY <2>2, <2>3, <2>4, <2>5, DieType DEF InterfaceTypeOK
<1> QED
  BY <1>1, <1>2, <1>3, <1>4, <1>5, <1>6, <1>7, <1>8, <1>9 DEF InterfaceNext, InterfaceRun

-----------------------------------------------------------------------------

\* What was covered stays covered as long as nothing answered for is forgotten and
\* the runs that will answer keep what they have.
LEMMA CoverStays ==
    ASSUME InterfaceTypeOK, InterfaceTypeOK', \A e \in Epochs : answered[e] <= answered'[e],
           \A q \in Proc : Teller(q) =>
               samp[q].err <= answered'[samp[q].epoch] \/ (Teller(q)' /\ samp'[q] = samp[q]),
           NEW c \in Counters, Covered(c)
    PROVE  Covered(c)'
<1>1. /\ c.err \in Nat /\ c.epoch \in Epochs /\ answered[c.epoch] \in Nat /\ answered'[c.epoch] \in Nat
      /\ \A q \in Proc : samp[q].err \in Nat
  BY CountersFields DEF InterfaceTypeOK
<1>2. CASE c.err <= answered[c.epoch]
  BY <1>1, <1>2 DEF Covered
<1>3. ASSUME NEW q \in Proc, Teller(q), samp[q].epoch = c.epoch, c.err <= samp[q].err
      PROVE  Covered(c)'
  <2>1. c.err <= answered'[c.epoch] \/ (Teller(q)' /\ samp'[q].epoch = c.epoch /\ c.err <= samp'[q].err)
    BY <1>1, <1>3
  <2> QED
    BY <2>1 DEF Covered
<1> QED
  BY <1>2, <1>3 DEF Covered

\* A run that is yet to tell is one whose place and data do not change.
LEMMA TellerKept ==
    ASSUME NEW q \in Proc, Teller(q), pc'[q] = pc[q], found'[q] = found[q], samp'[q] = samp[q], last'[q] = last[q]
    PROVE  Teller(q)' /\ samp'[q] = samp[q]
BY DEF Teller, NoBase, Comparable

\* A run whose base has fewer errors or is of another count answers when it ends.
LEMMA TellerTells ==
    ASSUME InterfaceTypeOK, ErrInv, Errors, NEW p \in Proc, Finish(p), Teller(p)
    PROVE  samp[p].err <= answered'[samp[p].epoch]
<1>1. PICK see \in Sights : Tell(p, Result(p, see))
  BY DEF Finish
<1>2. CASE NoBase(p)
  BY <1>1, <1>2, TellType DEF Answers, Teller
<1>3. CASE ~NoBase(p)
  <2>1. NewErrors(p)
    BY <1>3 DEF Teller, NewErrors, NoBase
  <2>2. Result(p, see) \in {"CRITICAL", "UNKNOWN"}
    BY <2>1 DEF Result
  <2> QED
    BY <1>1, <2>2, TellType DEF Answers, Teller
<1> QED
  BY <1>2, <1>3

\* The inductive step of CoverInv, on top of the types.
LEMMA CoverStep == InterfaceTypeOK /\ InterfaceTypeOK' /\ ErrInv /\ Errors /\ CoverInv /\ [InterfaceNext]_interfaceVars => CoverInv'
<1> SUFFICES ASSUME InterfaceTypeOK, InterfaceTypeOK', ErrInv, Errors, CoverInv, [InterfaceNext]_interfaceVars
             PROVE  CoverInv'
  OBVIOUS
<1> USE BlankIsCounters
<1>0. /\ \A e \in Epochs : answered[e] \in Nat /\ answered'[e] \in Nat
      /\ \A q \in Proc : samp[q] \in Counters /\ last[q] \in Counters
      /\ rec \in Counters
      /\ \A c \in Counters : c.err \in Nat /\ c.epoch \in Epochs
  BY CountersFields DEF InterfaceTypeOK
<1>b. Covered(Blank)'
  <2>1. Blank.err <= answered'[Blank.epoch]
    BY <1>0
  <2> QED
    BY <2>1 DEF Covered, Blank
<1>1. CASE UNCHANGED interfaceVars
  BY <1>1 DEF interfaceVars, CoverInv, Covered, Teller, NoBase, Comparable
<1>2. CASE Traffic \/ Error \/ Wrap \/ Reset
  <2>1. UNCHANGED <<store, pc, local, answered>>
    BY <1>2 DEF Traffic, Error, Wrap, Reset, Quiet
  <2> QED
    BY <2>1 DEF store, local, CoverInv, Covered, Teller, NoBase, Comparable
<1>3. ASSUME NEW p \in Proc, Measure(p) \/ TestFile(p) \/ Lock(p) \/ OpenFile(p)
      PROVE  CoverInv'
  <2>1. /\ answered' = answered /\ last' = last /\ rec' \in {rec, Blank}
        /\ \A q \in Proc \ {p} : pc'[q] = pc[q] /\ samp'[q] = samp[q] /\ found'[q] = found[q]
        /\ pc[p] \notin {"truncated", "saved"} /\ pc'[p] \notin {"truncated", "saved"}
    BY <1>3 DEF Measure, TestFile, Lock, OpenFile, Goto, store, local, InterfaceTypeOK
  <2>2. ASSUME NEW q \in Proc, Teller(q) PROVE Teller(q)' /\ samp'[q] = samp[q]
    <3>1. q # p
      BY <2>1, <2>2 DEF Teller
    <3> QED
      BY <2>1, <2>2, <3>1, TellerKept
  <2>3. \A c \in Counters : Covered(c) => Covered(c)'
    BY <1>0, <2>1, <2>2, CoverStays
  <2>4. Covered(rec)' /\ \A q \in Proc : pc'[q] \in {"truncated", "saved"} => Covered(last[q])'
    BY <1>0, <1>b, <2>1, <2>3 DEF CoverInv, Covered
  <2> QED
    BY <2>4 DEF CoverInv
<1>4. ASSUME NEW p \in Proc, Replace(p)
      PROVE  CoverInv'
  <2>1. /\ answered' = answered /\ rec' = Blank /\ last'[p] = rec
        /\ \A q \in Proc \ {p} : pc'[q] = pc[q] /\ samp'[q] = samp[q] /\ last'[q] = last[q]
        /\ found' = found /\ pc[p] = "locked"
    BY <1>4 DEF Replace, Goto, InterfaceTypeOK
  <2>2. ASSUME NEW q \in Proc, Teller(q) PROVE Teller(q)' /\ samp'[q] = samp[q]
    <3>1. q # p
      BY <2>1, <2>2 DEF Teller
    <3> QED
      BY <2>1, <2>2, <3>1, TellerKept
  <2>3. \A c \in Counters : Covered(c) => Covered(c)'
    BY <1>0, <2>1, <2>2, CoverStays
  <2>5. Covered(rec)'
    BY <1>b, <2>1 DEF Covered
  <2>6. ASSUME NEW q \in Proc, pc'[q] \in {"truncated", "saved"} PROVE Covered(last[q])'
    <3>1. CASE q = p
      BY <1>0, <2>1, <2>3, <3>1 DEF CoverInv, Covered
    <3>2. CASE q # p
      BY <1>0, <2>1, <2>3, <2>6, <3>2 DEF CoverInv, Covered
    <3> QED
      BY <3>1, <3>2
  <2> QED
    BY <2>5, <2>6 DEF CoverInv
<1>5. ASSUME NEW p \in Proc, Close(p)
      PROVE  CoverInv'
  <2>1. /\ answered' = answered /\ rec' = samp[p] /\ last' = last /\ samp' = samp /\ found' = found
        /\ pc[p] = "truncated" /\ pc'[p] = "saved" /\ \A q \in Proc \ {p} : pc'[q] = pc[q]
    BY <1>5 DEF Close, Goto, Line, local, InterfaceTypeOK
  <2>2. ASSUME NEW q \in Proc, Teller(q) PROVE Teller(q)' /\ samp'[q] = samp[q]
    <3>1. q # p
      BY <2>1, <2>2 DEF Teller
    <3> QED
      BY <2>1, <2>2, <3>1, TellerKept
  <2>3. \A c \in Counters : Covered(c) => Covered(c)'
    BY <1>0, <2>1, <2>2, CoverStays
  <2>4. \A q \in Proc : pc'[q] \in {"truncated", "saved"} => Covered(last[q])'
    BY <1>0, <2>1, <2>3 DEF CoverInv, Covered
  <2>5. Covered(rec)'
    <3>1. CASE Teller(p)'
      BY <1>0, <2>1, <3>1 DEF Covered
    <3>2. CASE ~Teller(p)'
      <4>1. samp[p].err <= last[p].err /\ samp[p].epoch = last[p].epoch
        BY <1>0, <2>1, <3>2 DEF Teller, NoBase, Comparable
      <4>2. Covered(last[p])'
        BY <2>1, <2>4
      <4>3. /\ samp[p].epoch \in Epochs /\ samp[p].err \in Int /\ last[p].err \in Int
            /\ answered'[samp[p].epoch] \in Int /\ \A q \in Proc : samp'[q].err \in Int
        BY <1>0, <2>1
      <4> QED
        BY <2>1, <4>1, <4>2, <4>3 DEF Covered
    <3> QED
      BY <3>1, <3>2
  <2> QED
    BY <2>4, <2>5 DEF CoverInv
<1>6. ASSUME NEW p \in Proc, LockBusy(p) \/ Finish(p) \/ Timeout(p) \/ Kill(p)
      PROVE  CoverInv'
  <2>1. /\ pc'[p] = "idle"
        /\ \A q \in Proc \ {p} : pc'[q] = pc[q] /\ samp'[q] = samp[q] /\ last'[q] = last[q] /\ found'[q] = found[q]
    BY <1>6 DEF LockBusy, Finish, Timeout, Kill, Die, InterfaceTypeOK
  <2>2. /\ \A e \in Epochs : answered[e] <= answered'[e]
        /\ Teller(p) => samp[p].err <= answered'[samp[p].epoch]
    <3>1. CASE LockBusy(p)
      BY <1>0, <3>1 DEF LockBusy, Teller, InterfaceTypeOK
    <3>2. CASE Finish(p)
      <4>1. \E status : Tell(p, status)
        BY <3>2 DEF Finish
      <4> QED
        BY <3>2, <4>1, TellType, TellerTells
    <3>3. CASE Timeout(p) \/ Kill(p)
      BY <3>3, TellType DEF Timeout, Kill, Answers, Teller
    <3> QED
      BY <1>6, <3>1, <3>2, <3>3
  <2>3. rec' = rec \/ (rec' = samp[p] /\ samp[p].err <= answered'[samp[p].epoch])
    <3>1. CASE Timeout(p)
      BY <3>1, TellType DEF Timeout, Line, Answers
    <3>2. CASE LockBusy(p) \/ Finish(p) \/ Kill(p)
      BY <3>2 DEF LockBusy, Finish, Kill
    <3> QED
      BY <1>6, <3>1, <3>2
  <2>4. ASSUME NEW q \in Proc, Teller(q)
        PROVE  samp[q].err <= answered'[samp[q].epoch] \/ (Teller(q)' /\ samp'[q] = samp[q])
    <3>1. CASE q = p
      BY <2>2, <2>4, <3>1
    <3>2. CASE q # p
      BY <2>1, <2>4, <3>2, TellerKept
    <3> QED
      BY <3>1, <3>2
  <2>5. \A c \in Counters : Covered(c) => Covered(c)'
    BY <2>2, <2>4, CoverStays
  <2>6. Covered(rec)'
    <3>2. CASE rec' = rec
      BY <1>0, <2>5, <3>2 DEF CoverInv, Covered
    <3>3. CASE rec' = samp[p] /\ samp[p].err <= answered'[samp[p].epoch]
      BY <3>3 DEF Covered
    <3> QED
      BY <2>3, <3>2, <3>3
  <2>7. ASSUME NEW q \in Proc, pc'[q] \in {"truncated", "saved"} PROVE Covered(last[q])'
    <3>1. q # p /\ pc[q] \in {"truncated", "saved"} /\ last'[q] = last[q]
      BY <2>1, <2>7
    <3> QED
      BY <1>0, <2>5, <3>1 DEF CoverInv, Covered
  <2> QED
    BY <2>6, <2>7 DEF CoverInv
<1> QED
  BY <1>1, <1>2, <1>3, <1>4, <1>5, <1>6 DEF InterfaceNext, InterfaceRun

-----------------------------------------------------------------------------

\* InterfaceInv holds in every reachable state.
LEMMA InterfaceInvariance == InterfaceSpec => []InterfaceInv
<1>1. InterfaceInit => InterfaceInv
  <2> SUFFICES ASSUME InterfaceInit PROVE InterfaceInv
    OBVIOUS
  <2> USE InterfaceAssumption, BlankIsCounters DEF InterfaceInit
  <2>1. exists \in BOOLEAN /\ FALSE \in BOOLEAN
    OBVIOUS
  <2>2. InterfaceTypeOK
    BY <2>1 DEF InterfaceTypeOK, PCs
  <2>3. ErrInv
    BY DEF ErrInv
  <2>4. CoverInv
    BY DEF CoverInv, Covered, Blank
  <2> QED
    BY <2>2, <2>3, <2>4 DEF InterfaceInv
<1>2. InterfaceInv /\ [InterfaceNext]_interfaceVars => InterfaceInv'
  BY TypeStep, CoverStep DEF InterfaceInv
<1> QED
  BY <1>1, <1>2, PTL DEF InterfaceSpec

\* Every variable keeps its type (LinuxInterface), for every set of runs, every
\* option and every bound.
THEOREM InterfaceTypeCorrect == InterfaceSpec => []InterfaceTypeOK
BY InterfaceInvariance, PTL DEF InterfaceInv

\* With --errors, for any number of runs that overlap in any way and although each
\* saves its counters before it judges them: what is in the state file once no run
\* is alive has been in a run that ended CRITICAL or UNKNOWN or was cut short, or in
\* one that had no line of the same count of errors.  Wherever the counters go back
\* (check_linux_interface.pl:329), only the errors of the run that still compares
\* the new count with the old one can pass as OK.
THEOREM NoErrorIsLost == InterfaceSpec => []ErrorsAreTold
<1>1. InterfaceInv => ErrorsAreTold
  <2> SUFFICES ASSUME InterfaceInv, Errors, \A p \in Proc : pc[p] = "idle" PROVE rec.err <= answered[rec.epoch]
    BY DEF ErrorsAreTold
  <2> QED
    BY DEF InterfaceInv, CoverInv, Covered, Teller
<1> QED
  BY <1>1, InterfaceInvariance, PTL
=============================================================================
