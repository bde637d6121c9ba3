--------------------------- MODULE PluginRunProof ---------------------------
(* Proofs about PluginRun.  First for any plugins, any systems and any number *)
(* of changes: what is needed of the plugins is the hypothesis of a theorem.  *)
(* Then for plugins of the repository, which discharge it.                    *)
EXTENDS MCPluginRun, TLAPS, SequenceTheorems, FiniteSetTheorems

-----------------------------------------------------------------------------
(* The states of a system.                                                    *)

\* A set of states that the system of a plugin does not leave: others change it,
\* and so does the plugin.
Closed(p, S) ==
    /\ Worlds(p) \subseteq S
    /\ \A w \in S : Changes(p, w) \subseteq S /\ \A o, r : Effect(p, o, w, r) \in S

\* The states that the system of a plugin can come to.
Reached(p, w) == \A S : Closed(p, S) => w \in S

LEMMA ReachedStep ==
    ASSUME NEW p
    PROVE  /\ \A w \in Worlds(p) : Reached(p, w)
           /\ \A w : Reached(p, w) =>
                 /\ \A v \in Changes(p, w) : Reached(p, v)
                 /\ \A o, r : Reached(p, Effect(p, o, w, r))
BY DEF Reached, Closed

\* The state of the system and those before it are ones it can come to.
PastInv ==
    /\ plugin \in Plugins /\ options \in Options(plugin)
    /\ world \in past
    /\ \A u \in past : Reached(plugin, u)

LEMMA PastIsReached == Spec => []PastInv
<1>1. Init => PastInv
  BY ReachedStep DEF Init, PastInv
<1>2. PastInv /\ [Next]_vars => PastInv'
  <2> SUFFICES ASSUME PastInv, [Next]_vars PROVE PastInv'
    OBVIOUS
  <2>1. CASE Request
    <3>1. Reached(plugin, world')
      BY <2>1, ReachedStep DEF Request, PastInv
    <3> QED
      BY <2>1, <3>1 DEF Request, PastInv
  <2>2. CASE Change
    <3>1. Reached(plugin, world')
      BY <2>2, ReachedStep DEF Change, PastInv
    <3> QED
      BY <2>2, <3>1 DEF Change, PastInv
  <2>3. CASE Conclude \/ TimeOut \/ UNCHANGED vars
    BY <2>3 DEF Conclude, TimeOut, vars, PastInv
  <2> QED
    BY <2>1, <2>2, <2>3 DEF Next
<1> QED
  BY <1>1, <1>2, PTL DEF Spec

\* A run is of one plugin, with one set of options.
LEMMA OnePlugin == [Next]_vars => plugin' = plugin /\ options' = options
BY DEF Next, Request, Change, Conclude, TimeOut, vars

\* What an OK of a plugin tells of is there throughout a run: only its state
\* changes.
ClaimsStay(p) ==
    \A o, w : Reached(p, w) =>
        /\ \A v \in Changes(p, w) : Claims(p, o, v) = Claims(p, o, w)
        /\ \A r : Claims(p, o, Effect(p, o, w, r)) = Claims(p, o, w)

SameClaims == \A u \in past : Claims(plugin, options, u) = Claims(plugin, options, world)

LEMMA ClaimsAreTheSame ==
    Spec => [](ClaimsStay(plugin) => SameClaims)
<1>1. Init => SameClaims
  BY DEF Init, SameClaims
<1>2. PastInv /\ (ClaimsStay(plugin) => SameClaims) /\ [Next]_vars => (ClaimsStay(plugin) => SameClaims)'
  <2> SUFFICES ASSUME PastInv, SameClaims, [Next]_vars, ClaimsStay(plugin) PROVE SameClaims'
    BY OnePlugin
  <2>1. Reached(plugin, world)
    BY DEF PastInv
  <2>2. CASE Request
    <3>1. Claims(plugin, options, world') = Claims(plugin, options, world)
      BY <2>1, <2>2 DEF Request, ClaimsStay
    <3> QED
      BY <2>2, <3>1 DEF Request, SameClaims
  <2>3. CASE Change
    <3>1. Claims(plugin, options, world') = Claims(plugin, options, world)
      BY <2>1, <2>3 DEF Change, ClaimsStay
    <3> QED
      BY <2>3, <3>1 DEF Change, SameClaims
  <2>4. CASE Conclude \/ TimeOut \/ UNCHANGED vars
    BY <2>4 DEF Conclude, TimeOut, vars, SameClaims
  <2> QED
    BY <2>2, <2>3, <2>4 DEF Next
<1> QED
  BY <1>1, <1>2, PastIsReached, PTL DEF Spec

-----------------------------------------------------------------------------
(* Plugins that ask one thing.                                                *)

\* Such a plugin exits on the first answer, and without one not OK.
OneQuestion(p) ==
    \A o \in Options(p) : \A s, w : ~Exits(Step(p, o, s, w)) => s = <<>>
NotUnasked(p) ==
    \A o \in Options(p) : \A w :
        Exits(Step(p, o, <<>>, w)) => Step(p, o, <<>>, w).exit # "OK"

\* The thing is as OK tells, or the plugin is known to overlook that it is not.
NotMissed(p, c, o, u) == Holds(p, c, o, u) \/ Overlooks(p, c, o, u)

\* It is OK only if the system that gave the answer was as OK tells.
JudgesTheAnswer(p) ==
    \A o \in Options(p) : \A u, v, w :
        LET answer == Answer(p, o, u, Step(p, o, <<>>, w).ask)
        IN  /\ Reached(p, u) /\ Reached(p, v) /\ Reached(p, w)
            /\ ~Exits(Step(p, o, <<>>, w))
            /\ Exits(Step(p, o, <<answer>>, v))
            /\ Step(p, o, <<answer>>, v).exit = "OK"
            => \A c \in Claims(p, o, u) : NotMissed(p, c, o, u)

\* The system was not as OK would tell, or there is an excuse.
Amiss(p, o, u) == Excuses(p, o, u) \/ \E c \in Claims(p, o, u) : ~Holds(p, c, o, u)

\* It is WARNING or CRITICAL only if the system that gave the answer was amiss,
\* or the one it found without asking.
AlarmsByTheAnswer(p) ==
    \A o \in Options(p) : \A u, v, w :
        LET answer == Answer(p, o, u, Step(p, o, <<>>, w).ask)
        IN  /\ Reached(p, u) /\ Reached(p, v) /\ Reached(p, w)
            /\ ~Exits(Step(p, o, <<>>, w))
            /\ Exits(Step(p, o, <<answer>>, v))
            /\ Step(p, o, <<answer>>, v).exit \in {"WARNING", "CRITICAL"}
            => Amiss(p, o, u)
AlarmsUnasked(p) ==
    \A o \in Options(p) : \A w :
        Reached(p, w) /\ Exits(Step(p, o, <<>>, w)) /\ Step(p, o, <<>>, w).exit \in {"WARNING", "CRITICAL"}
        => Amiss(p, o, w)

\* All that is needed of such a plugin for its OK, and for its alarms.
JudgesOneAnswer(p) ==
    OneQuestion(p) /\ NotUnasked(p) /\ ClaimsStay(p) /\ JudgesTheAnswer(p) /\ Timeout(p) # "OK"
AlarmsByOneAnswer(p) ==
    OneQuestion(p) /\ ClaimsStay(p) /\ AlarmsByTheAnswer(p) /\ AlarmsUnasked(p)

\* There is one answer at most, of a state of the run.
OneAnswer ==
    \/ seen = <<>>
    \/ \E u, w \in past :
          /\ ~Exits(Step(plugin, options, <<>>, w))
          /\ seen = <<Answer(plugin, options, u, Step(plugin, options, <<>>, w).ask)>>

LEMMA AnswersAreOne ==
    Spec => [](OneQuestion(plugin) => OneAnswer)
<1>1. Init => OneAnswer
  BY DEF Init, OneAnswer
<1>2. PastInv /\ (OneQuestion(plugin) => OneAnswer) /\ [Next]_vars => (OneQuestion(plugin) => OneAnswer)'
  <2> SUFFICES ASSUME PastInv, OneAnswer, [Next]_vars, OneQuestion(plugin) PROVE OneAnswer'
    BY OnePlugin
  <2>1. CASE Request
    <3>1. seen = <<>>
      BY <2>1 DEF Request, Now, OneQuestion, PastInv
    <3> DEFINE a == Answer(plugin, options, world, Now.ask)
    <3>2. ~IsNotYet(seen)
      BY <3>1 DEF IsNotYet
    <3>3. Heard(a) = Append(seen, a)
      BY <3>2 DEF Heard
    <3>4. Append(<<>>, a) = <<a>>
      OBVIOUS
    <3>5. seen' = <<a>>
      BY <2>1, <3>1, <3>3, <3>4 DEF Request
    <3>6. world \in past' /\ plugin' = plugin /\ options' = options
      BY <2>1 DEF Request, PastInv
    <3>7. /\ ~Exits(Step(plugin, options, <<>>, world))
          /\ a = Answer(plugin, options, world, Step(plugin, options, <<>>, world).ask)
      BY <2>1, <3>1 DEF Request, Now
    <3> HIDE DEF a
    <3> QED
      BY <3>5, <3>6, <3>7 DEF OneAnswer
  <2>2. CASE Change
    <3>1. past \subseteq past' /\ plugin' = plugin /\ options' = options /\ seen' = seen
      BY <2>2 DEF Change
    <3> QED
      BY <3>1 DEF OneAnswer
  <2>3. CASE Conclude \/ TimeOut \/ UNCHANGED vars
    BY <2>3 DEF Conclude, TimeOut, vars, OneAnswer
  <2> QED
    BY <2>1, <2>2, <2>3 DEF Next
<1> QED
  BY <1>1, <1>2, PastIsReached, PTL DEF Spec

\* A run that concludes does so on its answer, or has none.
LEMMA ConcludesOnAnswer ==
    ASSUME PastInv, OneAnswer, Conclude
    PROVE  /\ status' = Now.exit /\ Exits(Now) /\ alarm' = alarm
           /\ past' = past /\ world' = world /\ plugin' = plugin /\ options' = options
           /\ \/ /\ seen = <<>> /\ Now = Step(plugin, options, <<>>, world)
              \/ \E u, w \in past :
                    LET answer == Answer(plugin, options, u, Step(plugin, options, <<>>, w).ask)
                    IN  ~Exits(Step(plugin, options, <<>>, w)) /\ Now = Step(plugin, options, <<answer>>, world)
BY DEF Conclude, OneAnswer, Now

\* OK of a plugin that asks one thing tells how the system was at one moment of
\* the run (PluginRun), however it changed before and after.
THEOREM OneQuestionVouches ==
    Spec => [](JudgesOneAnswer(plugin) => OkVouches)
<1>1. Init => OkVouches
  BY DEF Init, OkVouches
<1>2. PastInv /\ (ClaimsStay(plugin) => SameClaims) /\ (OneQuestion(plugin) => OneAnswer)
        /\ (JudgesOneAnswer(plugin) => OkVouches) /\ [Next]_vars
        => (JudgesOneAnswer(plugin) => OkVouches)'
  <2> SUFFICES ASSUME PastInv, SameClaims, OneAnswer, OkVouches, [Next]_vars, JudgesOneAnswer(plugin) PROVE OkVouches'
    BY OnePlugin DEF JudgesOneAnswer
  <2> USE DEF JudgesOneAnswer
  <2>1. CASE Request \/ Change
    BY <2>1 DEF Request, Change, Running, OkVouches
  <2>2. CASE Conclude
    <3>1. /\ status' = Now.exit /\ Exits(Now)
          /\ past' = past /\ world' = world /\ plugin' = plugin /\ options' = options
      BY <2>2, ConcludesOnAnswer
    <3>2. ASSUME Now.exit = "OK"
          PROVE  \E u \in past : \A c \in Claims(plugin, options, u) : NotMissed(plugin, c, options, u)
      <4>1. PICK u, w \in past :
                    LET answer == Answer(plugin, options, u, Step(plugin, options, <<>>, w).ask)
                    IN  ~Exits(Step(plugin, options, <<>>, w)) /\ Now = Step(plugin, options, <<answer>>, world)
        BY <2>2, <3>1, <3>2, ConcludesOnAnswer DEF NotUnasked, PastInv
      <4>2. Reached(plugin, u) /\ Reached(plugin, w) /\ Reached(plugin, world)
        BY DEF PastInv
      <4>3. \A c \in Claims(plugin, options, u) : NotMissed(plugin, c, options, u)
        BY <3>1, <3>2, <4>1, <4>2 DEF JudgesTheAnswer, PastInv
      <4> QED
        BY <4>3
    <3> QED
      BY <3>1, <3>2 DEF OkVouches, SameClaims, NotMissed
  <2>3. CASE TimeOut
    BY <2>3 DEF TimeOut, OkVouches, PastInv
  <2>4. CASE UNCHANGED vars
    BY <2>4 DEF vars, OkVouches
  <2> QED
    BY <2>1, <2>2, <2>3, <2>4 DEF Next
<1> QED
  BY <1>1, <1>2, PastIsReached, ClaimsAreTheSame, AnswersAreOne, PTL DEF Spec

\* WARNING and CRITICAL of a plugin that asks one thing, if not of its alarm,
\* have a reason in the system as it was at one moment of the run (PluginRun).
THEOREM OneQuestionAlarms ==
    Spec => [](AlarmsByOneAnswer(plugin) => AlarmsAreReal)
<1>1. Init => AlarmsAreReal
  BY DEF Init, AlarmsAreReal
<1>2. PastInv /\ (ClaimsStay(plugin) => SameClaims) /\ (OneQuestion(plugin) => OneAnswer)
        /\ (AlarmsByOneAnswer(plugin) => AlarmsAreReal) /\ [Next]_vars
        => (AlarmsByOneAnswer(plugin) => AlarmsAreReal)'
  <2> SUFFICES ASSUME PastInv, SameClaims, OneAnswer, AlarmsAreReal, [Next]_vars, AlarmsByOneAnswer(plugin)
               PROVE  AlarmsAreReal'
    BY OnePlugin DEF AlarmsByOneAnswer
  <2> USE DEF AlarmsByOneAnswer
  <2>1. CASE Request \/ Change
    BY <2>1 DEF Request, Change, Running, AlarmsAreReal
  <2>2. CASE Conclude
    <3>1. /\ status' = Now.exit /\ Exits(Now)
          /\ past' = past /\ world' = world /\ plugin' = plugin /\ options' = options
      BY <2>2, ConcludesOnAnswer
    <3>2. ASSUME Now.exit \in {"WARNING", "CRITICAL"}
          PROVE  \E u \in past : Amiss(plugin, options, u)
      <4>1. CASE Now = Step(plugin, options, <<>>, world)
        BY <3>1, <3>2, <4>1 DEF AlarmsUnasked, PastInv
      <4>2. ASSUME NEW u \in past, NEW w \in past,
                    LET answer == Answer(plugin, options, u, Step(plugin, options, <<>>, w).ask)
                    IN  ~Exits(Step(plugin, options, <<>>, w)) /\ Now = Step(plugin, options, <<answer>>, world)
            PROVE  Amiss(plugin, options, u)
        <5>1. Reached(plugin, u) /\ Reached(plugin, w) /\ Reached(plugin, world)
          BY DEF PastInv
        <5> QED
          BY <3>1, <3>2, <4>2, <5>1 DEF AlarmsByTheAnswer, PastInv
      <4> QED
        BY <2>2, <4>1, <4>2, ConcludesOnAnswer
    <3> QED
      BY <3>1, <3>2 DEF AlarmsAreReal, Amiss, SameClaims
  <2>3. CASE TimeOut
    BY <2>3 DEF TimeOut, AlarmsAreReal
  <2>4. CASE UNCHANGED vars
    BY <2>4 DEF vars, AlarmsAreReal
  <2> QED
    BY <2>1, <2>2, <2>3, <2>4 DEF Next
<1> QED
  BY <1>1, <1>2, PastIsReached, ClaimsAreTheSame, AnswersAreOne, PTL DEF Spec

-----------------------------------------------------------------------------

\* The answers are a list, and each is what the plugin asked for next then, told
\* by the system as it was at some moment of the run.
Witnessed ==
    /\ \E S : seen \in Seq(S)
    /\ \A i \in 1..Len(seen) :
          \E u \in past : \E w :
              /\ ~Exits(Step(plugin, options, SubSeq(seen, 1, i - 1), w))
              /\ seen[i] = Answer(plugin, options, u, Step(plugin, options, SubSeq(seen, 1, i - 1), w).ask)

\* A list that grows keeps its items and its beginnings.
LEMMA AppendKeeps ==
    ASSUME NEW S, NEW s \in Seq(S), NEW a
    PROVE  /\ \E T : Append(s, a) \in Seq(T)
           /\ Len(s) \in Nat
           /\ Len(Append(s, a)) = Len(s) + 1
           /\ Append(s, a)[Len(s) + 1] = a
           /\ \A i \in 1..Len(s) : Append(s, a)[i] = s[i]
           /\ \A i \in 1..(Len(s) + 1) : SubSeq(Append(s, a), 1, i - 1) = SubSeq(s, 1, i - 1)
           /\ SubSeq(s, 1, Len(s)) = s
<1> DEFINE T == S \cup {a}
<1> DEFINE t == Append(s, a)
<1>1. s \in Seq(T)
  BY SeqMonotonic
<1>2. /\ t \in Seq(T) /\ Len(t) = Len(s) + 1 /\ t[Len(s) + 1] = a /\ Len(s) \in Nat
      /\ \A i \in 1..Len(s) : t[i] = s[i]
  BY <1>1
<1>3. ASSUME NEW i \in 1..(Len(s) + 1) PROVE SubSeq(t, 1, i - 1) = SubSeq(s, 1, i - 1)
  <2> DEFINE n == i - 1
  <2>1. n \in Int /\ n \in 0..Len(s)
    BY <1>2
  <2>2. \A k \in 1..n : t[k] = s[k] /\ s[k] \in T
    BY <1>1, <1>2, <2>1, ElementOfSeq
  <2>3. /\ SubSeq(t, 1, n) \in Seq(T) /\ SubSeq(s, 1, n) \in Seq(T)
        /\ Len(SubSeq(t, 1, n)) = Len(SubSeq(s, 1, n))
        /\ Len(SubSeq(t, 1, n)) = n
        /\ \A k \in 1..n : SubSeq(t, 1, n)[k] = t[1 + k - 1] /\ SubSeq(s, 1, n)[k] = s[1 + k - 1]
    <3> HIDE DEF n, T, t
    <3>1. \A k \in 1..n : t[k] \in T
      BY <2>2
    <3>2. /\ SubSeq(t, 1, n) \in Seq(T)
          /\ Len(SubSeq(t, 1, n)) = IF 1 <= n THEN n - 1 + 1 ELSE 0
          /\ \A k \in 1..(n - 1 + 1) : SubSeq(t, 1, n)[k] = t[1 + k - 1]
      BY <2>1, <3>1, SubSeqProperties
    <3>3. /\ SubSeq(s, 1, n) \in Seq(T)
          /\ Len(SubSeq(s, 1, n)) = IF 1 <= n THEN n - 1 + 1 ELSE 0
          /\ \A k \in 1..(n - 1 + 1) : SubSeq(s, 1, n)[k] = s[1 + k - 1]
      BY <2>1, <2>2, SubSeqProperties
    <3> QED
      BY <1>2, <2>1, <3>2, <3>3
  <2>4. \A k \in 1..Len(SubSeq(t, 1, n)) : SubSeq(t, 1, n)[k] = SubSeq(s, 1, n)[k]
    <3> HIDE DEF n, T, t
    <3> QED
      BY <2>1, <2>2, <2>3
  <2> QED
    BY <2>3, <2>4, SeqEqual
<1>4. SubSeq(s, 1, Len(s)) = s
  BY SubSeqFull
<1> HIDE DEF T, t
<1>5. /\ \E U : t \in Seq(U)
      /\ \A i \in 1..(Len(s) + 1) : SubSeq(t, 1, i - 1) = SubSeq(s, 1, i - 1)
  BY <1>2, <1>3
<1> QED
  BY <1>2, <1>4, <1>5 DEF t

\* The beginning of a list, and its end.
LEMMA PrefixIs ==
    ASSUME NEW S, NEW s \in Seq(S), NEW n \in 1..Len(s)
    PROVE  /\ Len(SubSeq(s, 1, n)) = n /\ SubSeq(s, 1, n) # <<>>
           /\ \A k \in 1..n : SubSeq(s, 1, n)[k] = s[k]
           /\ Last(SubSeq(s, 1, n)) = s[n]
<1>1. n \in Int /\ \A k \in 1..n : s[k] \in S
  BY ElementOfSeq
<1>2. /\ SubSeq(s, 1, n) \in Seq(S)
      /\ Len(SubSeq(s, 1, n)) = IF 1 <= n THEN n - 1 + 1 ELSE 0
      /\ \A k \in 1..(n - 1 + 1) : SubSeq(s, 1, n)[k] = s[1 + k - 1]
  BY <1>1, SubSeqProperties
<1> QED
  BY <1>2 DEF Last

\* A verdict is put together from answers that were each true when they were
\* given: no plugin goes on from an answer it did not have, or from one to a
\* question it would not have asked by then.
THEOREM AnswersAreWitnessed == Spec => []Witnessed
<1> DEFINE Inv == world \in past /\ Witnessed
<1>1. Init => Inv
  BY DEF Init, Witnessed
<1>2. Inv /\ [Next]_vars => Inv'
  <2> SUFFICES ASSUME Inv, [Next]_vars PROVE Inv'
    OBVIOUS
  <2>1. CASE Request
    <3> DEFINE a == Answer(plugin, options, world, Now.ask)
    <3>1. /\ plugin' = plugin /\ options' = options /\ past \subseteq past'
          /\ world \in past' /\ world' \in past' /\ ~Exits(Now) /\ seen' = Heard(a)
      BY <2>1 DEF Request
    <3>2. CASE Heard(a) = seen
      BY <3>1, <3>2 DEF Witnessed
    <3>3. CASE Heard(a) = Append(seen, a)
      <4>1. PICK S : seen \in Seq(S)
        BY DEF Witnessed
      <4>2. /\ \E T : seen' \in Seq(T)
            /\ Len(seen) \in Nat /\ Len(seen') = Len(seen) + 1 /\ seen'[Len(seen) + 1] = a
            /\ \A i \in 1..Len(seen) : seen'[i] = seen[i]
            /\ \A i \in 1..(Len(seen) + 1) : SubSeq(seen', 1, i - 1) = SubSeq(seen, 1, i - 1)
            /\ SubSeq(seen, 1, Len(seen)) = seen
        <5> HIDE DEF a
        <5> QED
          BY <3>1, <3>3, <4>1, AppendKeeps
      <4>3. ASSUME NEW i \in 1..Len(seen')
            PROVE  \E u \in past' : \E w :
                      /\ ~Exits(Step(plugin, options, SubSeq(seen', 1, i - 1), w))
                      /\ seen'[i] = Answer(plugin, options, u, Step(plugin, options, SubSeq(seen', 1, i - 1), w).ask)
        <5>1. CASE i \in 1..Len(seen)
          <6>1. PICK u \in past : \E w :
                      /\ ~Exits(Step(plugin, options, SubSeq(seen, 1, i - 1), w))
                      /\ seen[i] = Answer(plugin, options, u, Step(plugin, options, SubSeq(seen, 1, i - 1), w).ask)
            BY <5>1 DEF Witnessed
          <6>2. seen'[i] = seen[i] /\ SubSeq(seen', 1, i - 1) = SubSeq(seen, 1, i - 1)
            BY <4>2, <5>1
          <6> QED
            BY <3>1, <6>1, <6>2
        <5>2. CASE i = Len(seen) + 1
          <6>1. seen'[i] = a /\ SubSeq(seen', 1, i - 1) = seen
            BY <4>2, <5>2
          <6> QED
            BY <3>1, <6>1 DEF Now
        <5> QED
          BY <4>2, <5>1, <5>2
      <4> QED
        BY <3>1, <4>2, <4>3 DEF Witnessed
    <3> QED
      BY <3>2, <3>3 DEF Heard
  <2>2. CASE Change
    <3>1. past \subseteq past' /\ world' \in past' /\ plugin' = plugin /\ options' = options /\ seen' = seen
      BY <2>2 DEF Change
    <3> QED
      BY <3>1 DEF Witnessed
  <2>3. CASE Conclude
    BY <2>3 DEF Conclude, Witnessed
  <2>4. CASE TimeOut
    BY <2>4 DEF TimeOut, Witnessed
  <2>5. CASE UNCHANGED vars
    BY <2>5 DEF vars, Witnessed
  <2> QED
    BY <2>1, <2>2, <2>3, <2>4, <2>5 DEF Next
<1> QED
  BY <1>1, <1>2, PTL DEF Spec

-----------------------------------------------------------------------------

\* Every step of a plugin is a question or an exit with a state, if the answer
\* it may have to exit on has one; and so is its alarm, if it has one.
WellBehaved(p) ==
    /\ Timeout(p) \in Statuses \cup {"none"}
    /\ \A o, w, r : IsFatal(Answer(p, o, w, r)) => Answer(p, o, w, r).fatal \in Statuses
    /\ \A o, s, w : /\ s # <<>> /\ IsFatal(Last(s)) => Last(s).fatal \in Statuses
                    /\ Exits(Step(p, o, s, w))
                    => Step(p, o, s, w).exit \in Statuses

\* The state of a run, its counters and its memory are of their types
\* (PluginRun): whatever is asked and answered, a run that ends has one of the
\* four Nagios states.
THEOREM TypeCorrect ==
    Spec => [](WellBehaved(plugin) => TypeOK)
<1>1. Init => TypeOK
  <2>1. 0 \in 0..MaxChanges /\ FALSE \in BOOLEAN
    BY MaxChangesIsNat
  <2> QED
    BY <2>1, Zenon DEF Init, TypeOK
<1>2. (WellBehaved(plugin) => TypeOK) /\ Witnessed /\ [Next]_vars => (WellBehaved(plugin) => TypeOK)'
  <2> SUFFICES ASSUME TypeOK, Witnessed, [Next]_vars, WellBehaved(plugin) PROVE TypeOK'
    BY OnePlugin
  <2> USE MaxChangesIsNat DEF TypeOK, Running
  <2>1. CASE Request
    BY <2>1 DEF Request
  <2>2. CASE Change
    BY <2>2 DEF Change
  <2>3. CASE Conclude
    <3>1. ASSUME seen # <<>>, IsFatal(Last(seen)) PROVE Last(seen).fatal \in Statuses
      <4>1. PICK S : seen \in Seq(S)
        BY DEF Witnessed
      <4>2. Len(seen) \in 1..Len(seen) /\ Last(seen) = seen[Len(seen)]
        BY <3>1, <4>1 DEF Last
      <4>3. PICK u, r : Last(seen) = Answer(plugin, options, u, r)
        BY <4>2 DEF Witnessed
      <4> QED
        BY <3>1, <4>3 DEF WellBehaved
    <3>2. Now.exit \in Statuses
      BY <2>3, <3>1 DEF Conclude, Now, WellBehaved
    <3> QED
      BY <2>3, <3>2 DEF Conclude
  <2>4. CASE TimeOut
    <3>1. Timeout(plugin) \in Statuses
      BY <2>4 DEF TimeOut, WellBehaved
    <3> QED
      BY <2>4, <3>1 DEF TimeOut
  <2>5. CASE UNCHANGED vars
    BY <2>5 DEF vars
  <2> QED
    BY <2>1, <2>2, <2>3, <2>4, <2>5 DEF Next
<1> QED
  BY <1>1, <1>2, AnswersAreWitnessed, PTL DEF Spec

-----------------------------------------------------------------------------
(* older/check_lsi_megaraid.py (RaidArrays, its Lsi operators) for any number *)
(* of controllers and of arrays, that change any number of times while the    *)
(* plugin asks one controller after the other.                                *)

\* An instance of PluginRun in which this plugin runs, among others.
RunsLsi ==
    /\ Timeout("lsi") = "none"
    /\ \A o, s, w : Step("lsi", o, s, w) = LsiStep(s)
    /\ \A o, w, r : Answer("lsi", o, w, r) = LsiAnswer(w, r) /\ Effect("lsi", o, w, r) = LsiEffect(w)
    /\ \A o, w : Claims("lsi", o, w) = LsiClaims(w)
    /\ \A c, o, w : Holds("lsi", c, o, w) = LsiHolds(c, w)

\* A world is a list of controllers, each with its arrays; none is plugged in
\* or taken out during a run.
IsLsiWorld(w) ==
    \E States : w \in [ctl : Seq(Seq(States)), node : BOOLEAN, driver : BOOLEAN, util : {"works", "missing", "fails"}]
LsiSystem ==
    /\ \A w \in Worlds("lsi") : IsLsiWorld(w)
    /\ \A v : IsLsiWorld(v) =>
          \A w \in Changes("lsi", v) : IsLsiWorld(w) /\ Len(w.ctl) = Len(v.ctl)

-----------------------------------------------------------------------------

\* The script: what comes first, what ends it, what comes next.
LEMMA LsiSteps ==
    ASSUME NEW s
    PROVE  /\ s = <<>> => LsiStep(s) = Ask(<<"megadev">>)
           /\ s # <<>> /\ IsFatal(Last(s)) => LsiStep(s) = Exit(Last(s).fatal)
           /\ s # <<>> /\ ~IsFatal(Last(s)) /\ Len(s) = 1 => LsiStep(s) = Ask(<<"-AllAdpInfo">>)
           /\ s # <<>> /\ ~IsFatal(Last(s)) /\ Len(s) # 1 /\ Len(s) - 2 < s[2].controllers
              => LsiStep(s) = Ask(<<"-LdInfo", Len(s) - 1>>)
           /\ s # <<>> /\ ~IsFatal(Last(s)) /\ Len(s) # 1 /\ ~(Len(s) - 2 < s[2].controllers)
              => LsiStep(s) = Exit(LsiTestRaid({s[i] : i \in 3..Len(s)}))
BY DEF LsiStep

\* A step that asks has no answer that ends the run, and asks for what comes
\* next; a step that exits OK after no such answer has asked every controller.
LEMMA LsiAsks ==
    ASSUME NEW s
    PROVE  /\ s = <<>> => ~Exits(LsiStep(s)) /\ LsiStep(s).ask = <<"megadev">>
           /\ s # <<>> /\ IsFatal(Last(s)) => Exits(LsiStep(s)) /\ LsiStep(s).exit = Last(s).fatal
           /\ s # <<>> /\ ~IsFatal(Last(s)) /\ Len(s) = 1
              => ~Exits(LsiStep(s)) /\ LsiStep(s).ask = <<"-AllAdpInfo">>
           /\ s # <<>> /\ ~IsFatal(Last(s)) /\ Len(s) # 1 /\ Len(s) - 2 < s[2].controllers
              => ~Exits(LsiStep(s)) /\ LsiStep(s).ask = <<"-LdInfo", Len(s) - 1>>
           /\ s # <<>> /\ ~IsFatal(Last(s)) /\ Len(s) # 1 /\ ~(Len(s) - 2 < s[2].controllers)
              => Exits(LsiStep(s)) /\ LsiStep(s).exit = LsiTestRaid({s[i] : i \in 3..Len(s)})
<1>1. \A x : ~Exits(Ask(x)) /\ Ask(x).ask = x /\ Exits(Exit(x)) /\ Exit(x).exit = x
  BY DEF Ask, Exit, Exits
<1> HIDE DEF Ask, Exit, Exits
<1> QED
  BY <1>1, LsiSteps

\* The worst of some states is one of them, and none is worse.
LEMMA WorstIsWorst ==
    ASSUME NEW states, states \subseteq {"OK", "WARNING", "CRITICAL"}, states # {}
    PROVE  Worst(states) \in states /\ \A t \in states : Severity[t] <= Severity[Worst(states)]
<1>1. Severity["OK"] = 0 /\ Severity["WARNING"] = 1 /\ Severity["CRITICAL"] = 3
  BY DEF Severity
<1>2. \E s \in states : \A t \in states : Severity[t] <= Severity[s]
  <2>1. CASE "CRITICAL" \in states
    BY <1>1, <2>1
  <2>2. CASE "CRITICAL" \notin states /\ "WARNING" \in states
    BY <1>1, <2>2
  <2>3. CASE states = {"OK"}
    BY <1>1, <2>3
  <2> QED
    BY <2>1, <2>2, <2>3
<1> QED
  BY <1>2 DEF Worst

\* A verdict about controllers is a state.
LEMMA LsiTestIsAState ==
    ASSUME NEW details
    PROVE  LsiTestRaid(details) \in Statuses
<1> DEFINE states == {IF d.arrays = <<>> THEN "WARNING"
                      ELSE If(\E i \in DOMAIN d.arrays : d.arrays[i] # "OPTIMAL", "CRITICAL") : d \in details}
<1>1. states \subseteq {"OK", "WARNING", "CRITICAL"}
  BY DEF If
<1>2. LsiTestRaid(details) = Worst(states)
  BY DEF LsiTestRaid
<1> HIDE DEF states
<1>3. CASE states = {}
  BY <1>2, <1>3 DEF Worst, Statuses
<1>4. CASE states # {}
  BY <1>1, <1>2, <1>4, WorstIsWorst DEF Statuses
<1> QED
  BY <1>3, <1>4

\* OK is given of controllers only if each of them has arrays, all optimal.
LEMMA LsiTestIsStrict ==
    ASSUME NEW details, LsiTestRaid(details) = "OK", NEW d \in details
    PROVE  d.arrays # <<>> /\ \A i \in DOMAIN d.arrays : d.arrays[i] = "OPTIMAL"
<1> DEFINE state(e) == IF e.arrays = <<>> THEN "WARNING"
                       ELSE If(\E i \in DOMAIN e.arrays : e.arrays[i] # "OPTIMAL", "CRITICAL")
<1> DEFINE states == {state(e) : e \in details}
<1> DEFINE mine == state(d)
<1>1. states \subseteq {"OK", "WARNING", "CRITICAL"} /\ mine \in states
  BY DEF If
<1>2. Worst(states) = "OK"
  BY DEF LsiTestRaid
<1> HIDE DEF states, mine
<1>3. Severity[mine] <= Severity["OK"]
  BY <1>1, <1>2, WorstIsWorst
<1>4. mine \in {"OK", "WARNING", "CRITICAL"} /\ Severity["OK"] = 0 /\ Severity["WARNING"] = 1 /\ Severity["CRITICAL"] = 3
  BY <1>1 DEF Severity
<1>5. mine = "OK"
  BY <1>3, <1>4
<1> QED
  BY <1>5 DEF mine, If

\* WARNING or CRITICAL is given of controllers only if one of them has no array
\* or one that is not optimal.
LEMMA LsiTestFinds ==
    ASSUME NEW details, LsiTestRaid(details) \in {"WARNING", "CRITICAL"}
    PROVE  \E d \in details : d.arrays = <<>> \/ \E i \in DOMAIN d.arrays : d.arrays[i] # "OPTIMAL"
<1> DEFINE states == {IF d.arrays = <<>> THEN "WARNING"
                      ELSE If(\E i \in DOMAIN d.arrays : d.arrays[i] # "OPTIMAL", "CRITICAL") : d \in details}
<1>1. states \subseteq {"OK", "WARNING", "CRITICAL"}
  BY DEF If
<1>2. LsiTestRaid(details) = Worst(states)
  BY DEF LsiTestRaid
<1> HIDE DEF states
<1>3. states # {}
  BY <1>2 DEF Worst
<1>4. LsiTestRaid(details) \in states
  BY <1>1, <1>2, <1>3, WorstIsWorst
<1> QED
  BY <1>4 DEF states, If

\* What an answer is, by the question.
LEMMA LsiAnswers ==
    ASSUME NEW w, NEW r
    PROVE  /\ IsFatal(LsiAnswer(w, r)) => LsiAnswer(w, r).fatal \in Statuses \ {"OK"}
           /\ IsFatal(LsiAnswer(w, r)) /\ LsiAnswer(w, r).fatal \in {"WARNING", "CRITICAL"} => w.ctl = <<>>
           /\ r[1] = "-AllAdpInfo" /\ ~IsFatal(LsiAnswer(w, r))
              => w.ctl # <<>> /\ LsiAnswer(w, r).controllers = Len(w.ctl)
           /\ r[1] = "-LdInfo" /\ ~IsFatal(LsiAnswer(w, r)) => LsiAnswer(w, r).arrays = w.ctl[r[2]]
<1> USE DEF Fatal, IsFatal, Statuses
<1>1. CASE r[1] = "megadev"
  <2>1. LsiAnswer(w, r) = IF w.util = "missing" THEN Fatal("UNKNOWN") ELSE MakeMegadev(w)
    BY <1>1, Zenon DEF LsiAnswer
  <2> QED
    BY <1>1, <2>1 DEF MakeMegadev
<1>2. CASE r[1] = "-AllAdpInfo"
  <2>1. LsiAnswer(w, r) = LsiRun(w, GetControllers(w))
    BY <1>2, Zenon DEF LsiAnswer
  <2> QED
    BY <1>2, <2>1 DEF LsiRun, GetControllers
<1>3. CASE r[1] # "megadev" /\ r[1] # "-AllAdpInfo"
  <2>1. LsiAnswer(w, r) = LsiRun(w, [arrays |-> w.ctl[r[2]]])
    BY <1>3, Zenon DEF LsiAnswer
  <2> QED
    BY <1>3, <2>1 DEF LsiRun
<1> QED
  BY <1>1, <1>2, <1>3

-----------------------------------------------------------------------------

\* The controllers of every state of the run are those of the first.
SameControllers ==
    /\ world \in past
    /\ \A u \in past : IsLsiWorld(u) /\ Len(u.ctl) = Len(world.ctl)

\* What the answers are that were given as Witnessed has it: none but the last
\* ends the run; the second counts the controllers of every state of the run,
\* and each after it is of the controller whose turn it was.
LEMMA LsiAnswered ==
    ASSUME RunsLsi, plugin = "lsi", SameControllers, Witnessed
    PROVE  /\ Len(seen) \in Nat
           /\ seen # <<>> => Len(seen) > 0 /\ Last(seen) = seen[Len(seen)]
           /\ \A i \in 1..Len(seen) : \E u \in past : \E r : seen[i] = LsiAnswer(u, r)
           /\ \A i \in 1..Len(seen) : i # Len(seen) => ~IsFatal(seen[i])
           /\ Len(seen) >= 2 /\ ~IsFatal(seen[2])
              => seen[2].controllers = Len(world.ctl) /\ world.ctl # <<>>
           /\ \A i \in 3..Len(seen) :
                 /\ ~IsFatal(seen[2])
                 /\ i - 2 \in 1..Len(world.ctl)
                 /\ ~IsFatal(seen[i]) => \E u \in past : seen[i].arrays = u.ctl[i - 2]
<1> DEFINE p(i) == SubSeq(seen, 1, i - 1)
<1>1. PICK S : seen \in Seq(S)
  BY DEF Witnessed
<1>2. ASSUME NEW i \in 1..Len(seen)
      PROVE  ~Exits(LsiStep(p(i))) /\ \E u \in past : seen[i] = LsiAnswer(u, LsiStep(p(i)).ask)
  BY DEF Witnessed, RunsLsi, SameControllers
<1>3. Len(seen) \in Nat /\ (seen # <<>> => Len(seen) > 0 /\ Last(seen) = seen[Len(seen)])
  BY <1>1 DEF Last
<1>4. ASSUME NEW i \in 2..Len(seen)
      PROVE  /\ Len(p(i)) = i - 1 /\ p(i) # <<>> /\ Last(p(i)) = seen[i - 1] /\ ~IsFatal(seen[i - 1])
             /\ i > 2 => p(i)[2] = seen[2]
  <2>1. i - 1 \in 1..Len(seen)
    BY <1>3
  <2>2. Len(p(i)) = i - 1 /\ p(i) # <<>> /\ Last(p(i)) = seen[i - 1] /\ \A k \in 1..(i - 1) : p(i)[k] = seen[k]
    BY <1>1, <2>1, PrefixIs
  <2>3. ~Exits(LsiStep(p(i)))
    BY <1>2, <1>3
  <2>4. ~IsFatal(Last(p(i)))
    BY <2>2, <2>3, LsiAsks
  <2>5. i > 2 => 2 \in 1..(i - 1)
    OBVIOUS
  <2> HIDE DEF p
  <2> QED
    BY <2>2, <2>4, <2>5
<1>5. ASSUME Len(seen) >= 2, ~IsFatal(seen[2])
      PROVE  seen[2].controllers = Len(world.ctl) /\ world.ctl # <<>>
  <2>1. 2 \in 2..Len(seen) /\ 2 \in 1..Len(seen) /\ 2 - 1 = 1
    BY <1>3, <1>5
  <2>2. LsiStep(p(2)).ask = <<"-AllAdpInfo">>
    BY <1>4, <2>1, LsiAsks
  <2>3. PICK u \in past : seen[2] = LsiAnswer(u, <<"-AllAdpInfo">>)
    BY <1>2, <2>1, <2>2
  <2>4. u.ctl # <<>> /\ seen[2].controllers = Len(u.ctl)
    BY <1>5, <2>3, LsiAnswers
  <2> QED
    BY <2>4 DEF SameControllers, IsLsiWorld
<1>6. ASSUME NEW i \in 3..Len(seen)
      PROVE  /\ ~IsFatal(seen[2])
             /\ i - 2 \in 1..Len(world.ctl)
             /\ ~IsFatal(seen[i]) => \E u \in past : seen[i].arrays = u.ctl[i - 2]
  <2>1. i \in 2..Len(seen) /\ i \in 1..Len(seen) /\ i > 2 /\ 3 \in 2..Len(seen) /\ 3 - 1 = 2 /\ Len(seen) >= 2
    BY <1>3
  <2>2. ~IsFatal(seen[2])
    BY <1>4, <2>1
  <2>3. p(i) # <<>> /\ ~IsFatal(Last(p(i))) /\ Len(p(i)) # 1 /\ p(i)[2] = seen[2] /\ Len(p(i)) = i - 1
    <3> HIDE DEF p
    <3>1. p(i) # <<>> /\ p(i)[2] = seen[2] /\ Len(p(i)) = i - 1 /\ Last(p(i)) = seen[i - 1] /\ ~IsFatal(seen[i - 1])
      BY <1>4, <2>1
    <3> QED
      BY <2>1, <3>1
  <2>4. ~Exits(LsiStep(p(i)))
    BY <1>2, <2>1
  <2>5. LsiStep(p(i)).ask = <<"-LdInfo", Len(p(i)) - 1>> /\ Len(p(i)) - 2 < seen[2].controllers
    BY <2>3, <2>4, LsiAsks
  <2>6. Len(world.ctl) \in Nat
    BY DEF SameControllers, IsLsiWorld
  <2>7. i - 2 \in 1..Len(world.ctl)
    <3> HIDE DEF p
    <3> QED
      BY <1>5, <2>1, <2>2, <2>3, <2>5, <2>6
  <2>8. Len(p(i)) - 1 = i - 2
    <3> HIDE DEF p
    <3> QED
      BY <2>1, <2>3
  <2>9. PICK u \in past : seen[i] = LsiAnswer(u, <<"-LdInfo", i - 2>>)
    BY <1>2, <2>1, <2>5, <2>8
  <2>10. ~IsFatal(seen[i]) => seen[i].arrays = u.ctl[i - 2]
    BY <2>9, LsiAnswers
  <2> QED
    BY <2>2, <2>7, <2>10
<1>7. ASSUME NEW i \in 1..Len(seen), i # Len(seen) PROVE ~IsFatal(seen[i])
  <2>1. i + 1 \in 2..Len(seen) /\ (i + 1) - 1 = i
    BY <1>3, <1>7
  <2> QED
    BY <1>4, <2>1
<1> QED
  BY <1>2, <1>3, <1>5, <1>6, <1>7

\* If the script makes OK of the answers, each controller was asked and had
\* arrays, all of them optimal, then.
LEMMA LsiOkIsTrue ==
    ASSUME RunsLsi, plugin = "lsi", SameControllers, Witnessed, Exits(LsiStep(seen)), LsiStep(seen).exit = "OK"
    PROVE  \A c \in LsiClaims(world) : \E u \in past : LsiHolds(c, u)
<1>1. /\ Len(seen) \in Nat /\ seen # <<>> /\ ~IsFatal(seen[Len(seen)])
      /\ Len(seen) # 1 /\ ~(Len(seen) - 2 < seen[2].controllers)
      /\ LsiTestRaid({seen[i] : i \in 3..Len(seen)}) = "OK"
  <2>1. seen # <<>>
    BY LsiAsks
  <2>2. Len(seen) \in Nat /\ Len(seen) \in 1..Len(seen) /\ Last(seen) = seen[Len(seen)]
    BY <2>1, LsiAnswered
  <2>3. ~IsFatal(Last(seen))
    <3> SUFFICES ASSUME IsFatal(Last(seen)) PROVE FALSE
      OBVIOUS
    <3>1. LsiStep(seen).exit = Last(seen).fatal
      BY <2>1, LsiAsks
    <3>2. PICK u, r : Last(seen) = LsiAnswer(u, r)
      BY <2>2, LsiAnswered
    <3> QED
      BY <3>1, <3>2, LsiAnswers
  <2>4. Len(seen) # 1 /\ ~(Len(seen) - 2 < seen[2].controllers)
    BY <2>1, <2>3, LsiAsks
  <2>5. LsiTestRaid({seen[i] : i \in 3..Len(seen)}) = "OK"
    BY <2>1, <2>3, <2>4, LsiAsks
  <2> QED
    BY <2>1, <2>2, <2>3, <2>4, <2>5, Zenon
<1>2. Len(seen) >= 2 /\ ~IsFatal(seen[2])
  <2>1. Len(seen) >= 2 /\ (Len(seen) = 2 \/ 3 \in 3..Len(seen))
    <3>1. \A n \in Nat : n > 0 /\ n # 1 => n >= 2 /\ (n = 2 \/ 3 \in 3..n)
      OBVIOUS
    <3>2. Len(seen) \in Nat /\ Len(seen) > 0 /\ Len(seen) # 1
      BY <1>1, LsiAnswered, Zenon
    <3> QED
      BY <3>1, <3>2, Zenon
  <2>2. ~IsFatal(seen[2])
    BY <1>1, <2>1, LsiAnswered, Zenon
  <2> QED
    BY <2>1, <2>2
<1>3. seen[2].controllers = Len(world.ctl) /\ world.ctl # <<>>
  BY <1>2, LsiAnswered
<1>4. ASSUME NEW c \in 1..Len(world.ctl)
      PROVE  \E u \in past : u.ctl[c] # <<>> /\ \A i \in DOMAIN u.ctl[c] : u.ctl[c][i] = "OPTIMAL"
  <2> DEFINE n == Len(world.ctl)
  <2>1. n \in Nat
    BY DEF SameControllers, IsLsiWorld
  <2>2. c + 2 \in 3..Len(seen) /\ (c + 2) - 2 = c
    <3> HIDE DEF n
    <3>1. c \in 1..n /\ ~(Len(seen) - 2 < n)
      BY <1>1, <1>3 DEF n
    <3> QED
      BY <1>1, <2>1, <3>1
  <2>3. ~IsFatal(seen[c + 2])
    <3>1. c + 2 \in 1..Len(seen)
      BY <1>1, <2>2
    <3> QED
      BY <1>1, <3>1, LsiAnswered
  <2>4. PICK u \in past : seen[c + 2].arrays = u.ctl[c]
    BY <2>2, <2>3, LsiAnswered
  <2>5. seen[c + 2] \in {seen[i] : i \in 3..Len(seen)}
    BY <2>2
  <2>6. seen[c + 2].arrays # <<>> /\ \A i \in DOMAIN seen[c + 2].arrays : seen[c + 2].arrays[i] = "OPTIMAL"
    BY <1>1, <2>5, LsiTestIsStrict
  <2> QED
    BY <2>4, <2>6
<1>5. DOMAIN world.ctl = 1..Len(world.ctl) /\ Len(world.ctl) \in Nat /\ 1 \in 1..Len(world.ctl)
  BY <1>3 DEF SameControllers, IsLsiWorld
<1>6. \E u \in past : LsiHolds(AnyArray, u)
  <2>1. PICK u \in past : u.ctl[1] # <<>>
    BY <1>4, <1>5
  <2>2. 1 \in DOMAIN u.ctl
    BY <1>5 DEF SameControllers, IsLsiWorld
  <2> QED
    BY <2>1, <2>2 DEF LsiHolds
<1>7. ASSUME NEW c \in DOMAIN world.ctl PROVE \E u \in past : LsiHolds(c, u)
  <2>1. c \in 1..Len(world.ctl) /\ c # AnyArray
    BY <1>5 DEF AnyArray
  <2> QED
    BY <1>4, <2>1 DEF LsiHolds
<1> QED
  BY <1>6, <1>7 DEF LsiClaims

\* If it makes WARNING or CRITICAL of them, there was no controller, or one had
\* no array or one that was not optimal when it was asked.
LEMMA LsiAlarmIsTrue ==
    ASSUME RunsLsi, plugin = "lsi", SameControllers, Witnessed, Exits(LsiStep(seen)), LsiStep(seen).exit \in {"WARNING", "CRITICAL"}
    PROVE  \E c \in LsiClaims(world), u \in past : ~LsiHolds(c, u)
<1>1. seen # <<>>
  BY LsiAsks
<1>2. Len(seen) \in Nat /\ Len(seen) \in 1..Len(seen) /\ Last(seen) = seen[Len(seen)]
  BY <1>1, LsiAnswered
<1>3. CASE IsFatal(Last(seen))
  <2>1. Last(seen).fatal \in {"WARNING", "CRITICAL"}
    BY <1>1, <1>3, LsiAsks
  <2>2. PICK u \in past : \E r : Last(seen) = LsiAnswer(u, r)
    BY <1>2, LsiAnswered
  <2>3. u.ctl = <<>>
    BY <1>3, <2>1, <2>2, LsiAnswers
  <2>4. ~LsiHolds(AnyArray, u)
    BY <2>3 DEF LsiHolds
  <2> QED
    BY <2>4 DEF LsiClaims
<1>4. CASE ~IsFatal(Last(seen))
  <2>1. /\ Len(seen) # 1
        /\ LsiTestRaid({seen[i] : i \in 3..Len(seen)}) \in {"WARNING", "CRITICAL"}
    BY <1>1, <1>4, LsiAsks
  <2>2. PICK i \in 3..Len(seen) :
            seen[i].arrays = <<>> \/ \E k \in DOMAIN seen[i].arrays : seen[i].arrays[k] # "OPTIMAL"
    BY <2>1, LsiTestFinds
  <2>3. ~IsFatal(seen[i])
    <3>1. i \in 1..Len(seen)
      BY <1>2
    <3> QED
      BY <1>2, <1>4, <3>1, LsiAnswered
  <2>4. i - 2 \in 1..Len(world.ctl)
    BY LsiAnswered
  <2>5. PICK u \in past : seen[i].arrays = u.ctl[i - 2]
    BY <2>3, LsiAnswered
  <2>6. DOMAIN world.ctl = 1..Len(world.ctl) /\ i - 2 # AnyArray
    BY <2>4 DEF SameControllers, IsLsiWorld, AnyArray
  <2>7. ~LsiHolds(i - 2, u)
    BY <2>2, <2>5, <2>6 DEF LsiHolds
  <2> QED
    BY <2>4, <2>6, <2>7 DEF LsiClaims
<1> QED
  BY <1>3, <1>4

LEMMA LsiStaysSame ==
    ASSUME RunsLsi, LsiSystem PROVE Spec => [](plugin = "lsi" => SameControllers)
<1>1. Init => (plugin = "lsi" => SameControllers)
  BY DEF Init, RunsLsi, LsiSystem, SameControllers
<1>2. (plugin = "lsi" => SameControllers) /\ [Next]_vars => (plugin = "lsi" => SameControllers)'
  <2> SUFFICES ASSUME SameControllers, [Next]_vars, plugin = "lsi" PROVE SameControllers'
    BY OnePlugin
  <2>1. CASE Request
    <3>1. world' = LsiEffect(world) /\ past' = past \cup {world'} /\ plugin' = plugin
      BY <2>1 DEF Request, RunsLsi, SameControllers
    <3>2. IsLsiWorld(world') /\ Len(world'.ctl) = Len(world.ctl)
      BY <3>1 DEF SameControllers, IsLsiWorld, LsiEffect
    <3> QED
      BY <3>1, <3>2 DEF SameControllers
  <2>2. CASE Change
    <3>1. world' \in Changes("lsi", world) /\ past' = past \cup {world'} /\ plugin' = plugin
      BY <2>2 DEF Change, SameControllers
    <3>2. IsLsiWorld(world') /\ Len(world'.ctl) = Len(world.ctl)
      BY <3>1 DEF SameControllers, LsiSystem
    <3> QED
      BY <3>1, <3>2 DEF SameControllers
  <2>3. CASE Conclude \/ TimeOut \/ UNCHANGED vars
    BY <2>3 DEF Conclude, TimeOut, vars, SameControllers
  <2> QED
    BY <2>1, <2>2, <2>3 DEF Next
<1> QED
  BY <1>1, <1>2, PTL DEF Spec

\* OK of the MegaRAID check means that each controller had arrays and that all
\* of them were optimal when it was asked: no controller is passed over, however
\* many there are and whatever the others do meanwhile (RaidArrays).
THEOREM LsiOkVouches ==
    ASSUME RunsLsi, LsiSystem PROVE Spec => [](plugin = "lsi" => OkVouches)
<1>1. Init => OkVouches
  BY DEF Init, OkVouches
<1>2. (plugin = "lsi" => SameControllers) /\ (plugin = "lsi" => OkVouches) /\ Witnessed /\ [Next]_vars
        => (plugin = "lsi" => OkVouches)'
  <2> SUFFICES ASSUME SameControllers, OkVouches, Witnessed, [Next]_vars, plugin = "lsi" PROVE OkVouches'
    BY OnePlugin
  <2>1. CASE Request \/ Change
    BY <2>1 DEF Request, Change, Running, OkVouches
  <2>2. CASE Conclude
    <3>1. /\ Exits(LsiStep(seen)) /\ status' = LsiStep(seen).exit
          /\ past' = past /\ world' = world /\ plugin' = plugin /\ options' = options
      BY <2>2 DEF Conclude, Now, RunsLsi, SameControllers
    <3> SUFFICES ASSUME status' = "OK"
                 PROVE  \A c \in Claims("lsi", options, world) : \E u \in past : Holds("lsi", c, options, u)
      BY <3>1 DEF OkVouches, SameControllers
    <3>2. \A c \in LsiClaims(world) : \E u \in past : LsiHolds(c, u)
      BY <3>1, LsiOkIsTrue
    <3> QED
      BY <3>2 DEF RunsLsi
  <2>3. CASE TimeOut
    BY <2>3 DEF TimeOut, RunsLsi, SameControllers
  <2>4. CASE UNCHANGED vars
    BY <2>4 DEF vars, OkVouches
  <2> QED
    BY <2>1, <2>2, <2>3, <2>4 DEF Next
<1> QED
  BY <1>1, <1>2, LsiStaysSame, AnswersAreWitnessed, PTL DEF Spec

\* WARNING and CRITICAL of the MegaRAID check mean that there was no controller,
\* or that one had no array or one that was not optimal when it was asked
\* (PluginRun, RaidArrays): no answer is taken for that of another question.
THEOREM LsiAlarmsAreReal ==
    ASSUME RunsLsi, LsiSystem PROVE Spec => [](plugin = "lsi" => AlarmsAreReal)
<1>1. Init => AlarmsAreReal
  BY DEF Init, AlarmsAreReal
<1>2. (plugin = "lsi" => SameControllers) /\ (plugin = "lsi" => AlarmsAreReal) /\ Witnessed /\ [Next]_vars
        => (plugin = "lsi" => AlarmsAreReal)'
  <2> SUFFICES ASSUME SameControllers, AlarmsAreReal, Witnessed, [Next]_vars, plugin = "lsi" PROVE AlarmsAreReal'
    BY OnePlugin
  <2>1. CASE Request \/ Change
    BY <2>1 DEF Request, Change, Running, AlarmsAreReal
  <2>2. CASE Conclude
    <3>1. /\ Exits(LsiStep(seen)) /\ status' = LsiStep(seen).exit
          /\ past' = past /\ world' = world /\ plugin' = plugin /\ options' = options
      BY <2>2 DEF Conclude, Now, RunsLsi, SameControllers
    <3> SUFFICES ASSUME status' \in {"WARNING", "CRITICAL"}
                 PROVE  \E c \in Claims("lsi", options, world), u \in past : ~Holds("lsi", c, options, u)
      BY <3>1 DEF AlarmsAreReal, SameControllers
    <3>2. \E c \in LsiClaims(world), u \in past : ~LsiHolds(c, u)
      BY <3>1, LsiAlarmIsTrue
    <3> QED
      BY <3>2 DEF RunsLsi
  <2>3. CASE TimeOut
    BY <2>3 DEF TimeOut, RunsLsi, SameControllers
  <2>4. CASE UNCHANGED vars
    BY <2>4 DEF vars, AlarmsAreReal
  <2> QED
    BY <2>1, <2>2, <2>3, <2>4 DEF Next
<1> QED
  BY <1>1, <1>2, LsiStaysSame, AnswersAreWitnessed, PTL DEF Spec

\* The MegaRAID check ends with one of the four states, whatever is answered
\* (PluginRun).
THEOREM LsiTypeCorrect ==
    ASSUME RunsLsi PROVE Spec => [](plugin = "lsi" => TypeOK)
<1>1. \A w, r : IsFatal(LsiAnswer(w, r)) => LsiAnswer(w, r).fatal \in Statuses
  BY LsiAnswers
<1>2. \A details : LsiTestRaid(details) \in Statuses
  BY LsiTestIsAState
<1>3. ASSUME NEW s, s # <<>> /\ IsFatal(Last(s)) => Last(s).fatal \in Statuses, Exits(LsiStep(s))
      PROVE  LsiStep(s).exit \in Statuses
  <2>1. CASE s # <<>> /\ IsFatal(Last(s))
    BY <1>3, <2>1, LsiAsks
  <2>2. CASE s # <<>> /\ ~IsFatal(Last(s)) /\ Len(s) # 1 /\ ~(Len(s) - 2 < s[2].controllers)
    BY <1>2, <2>2, LsiAsks
  <2> QED
    BY <1>3, <2>1, <2>2, LsiAsks
<1>4. WellBehaved("lsi")
  BY <1>1, <1>3 DEF WellBehaved, RunsLsi
<1>5. (WellBehaved(plugin) => TypeOK) => (plugin = "lsi" => TypeOK)
  BY <1>4
<1> QED
  BY <1>5, TypeCorrect, PTL

-----------------------------------------------------------------------------
(* The plugins that read RabbitMQ's management API (RabbitMQ), for every      *)
(* option and every answer, and for a broker that changes at any time.        *)

\* An instance of PluginRun in which these plugins run, among others.
RunsRest ==
    /\ \A p \in RabbitRest : Timeout(p) # "OK"
    /\ \A p \in RabbitRest : \A o, s, w : Step(p, o, s, w) = RabbitStep(p, o, s)
    /\ \A p \in RabbitRest : \A o, w, r : Answer(p, o, w, r) = Http(w.http, [item |-> w.item])
    /\ \A p \in RabbitRest : \A o, w : Claims(p, o, w) = {"it"}
    /\ \A p \in RabbitRest : \A c, o, w : Holds(p, c, o, w) = RestHolds(p, o, w)
    /\ \A p \in RabbitRest : \A o, w : Excuses(p, o, w) = RabbitExcuses(p, o, w)

\* The broker may change in any way, but has one vhost of a name at any time.
OneOfAName(vhosts) == \A u, v \in vhosts : u.name = v.name => u = v
RestSystem == \E S : Closed("rmq_vhost", S) /\ \A w \in S : OneOfAName(w.item)

-----------------------------------------------------------------------------

\* A verdict of OK has looked at all that was asked for.
LEMMA RestIsJudged ==
    ASSUME NEW p \in RabbitRest, NEW o, NEW w, RestVerdict(p, o, w.item) = "OK"
    PROVE  RestHolds(p, o, w)
<1>1. CASE p = "rmq_exchange"
  <2>1. RestVerdict(p, o, w.item) \in {"UNKNOWN", Exchange(o, w.item)}
    BY <1>1, Zenon DEF RestVerdict
  <2>2. RestHolds(p, o, w) = (w.item.name = "x" /\ o.type \in {"none", w.item.type} /\ o.durable \in {"none", w.item.durable})
    BY <1>1, Zenon DEF RestHolds
  <2> QED
    BY <2>1, <2>2 DEF Exchange, If
<1>2. CASE p = "rmq_queue"
  <2>1. RestVerdict(p, o, w.item) \in {"UNKNOWN", Queue(o, w.item)}
    BY <1>2, Zenon DEF RestVerdict
  <2>2. RestHolds(p, o, w) = (w.item.name = "x" /\ o.durable \in {"none", w.item.durable})
    BY <1>2, Zenon DEF RestHolds
  <2> QED
    BY <2>1, <2>2 DEF Queue, If
<1>3. CASE p = "rmq_vhost"
  <2>1. RestVerdict(p, o, w.item) \in {"UNKNOWN", CheckVhost(o, w.item)}
    BY <1>3, Zenon DEF RestVerdict
  <2>2. RestHolds(p, o, w) = (\E v \in w.item : v.name = "x" /\ ~(o.noTracing /\ v.tracing))
    BY <1>3, Zenon DEF RestHolds
  <2> QED
    BY <2>1, <2>2 DEF CheckVhost, If
<1>4. CASE p = "rmq_auth"
  <2>1. RestVerdict(p, o, w.item) = Auth(o, w.item)
    BY <1>4, Zenon DEF RestVerdict
  <2>2. RestHolds(p, o, w) = (w.item.name = "x" /\ o.tag \in {"none", w.item.tags})
    BY <1>4, Zenon DEF RestHolds
  <2> QED
    BY <2>1, <2>2 DEF Auth, If
<1>5. CASE p = "rmq_alive"
  <2>1. RestVerdict(p, o, w.item) = Aliveness(w.item)
    BY <1>5, Zenon DEF RestVerdict
  <2>2. RestHolds(p, o, w) = (w.item = "ok")
    BY <1>5, Zenon DEF RestHolds
  <2> QED
    BY <2>1, <2>2 DEF Aliveness, If
<1>6. CASE p = "rmq_health"
  <2>1. RestVerdict(p, o, w.item) = Healthcheck(w.item)
    BY <1>6, Zenon DEF RestVerdict
  <2>2. RestHolds(p, o, w) = (w.item = "ok")
    BY <1>6, Zenon DEF RestHolds
  <2> QED
    BY <2>1, <2>2 DEF Healthcheck, If
<1>7. CASE p = "rmq_name"
  <2>1. RestVerdict(p, o, w.item) = ClusterName(o, w.item)
    BY <1>7, Zenon DEF RestVerdict
  <2>2. RestHolds(p, o, w) = (o.expected \in {"none", w.item})
    BY <1>7, Zenon DEF RestHolds
  <2> QED
    BY <2>1, <2>2 DEF ClusterName, If
<1>8. CASE p = "rmq_stats"
  <2>1. RestVerdict(p, o, w.item) = StatsDbEventQueue(o, w.item)
    BY <1>8, Zenon DEF RestVerdict
  <2>2. RestHolds(p, o, w) = (w.item # NoNumber /\ ~Above(w.item, o.warn) /\ ~Above(w.item, o.crit))
    BY <1>8, Zenon DEF RestHolds
  <2> QED
    BY <2>1, <2>2 DEF StatsDbEventQueue, CheckUpper, If
<1>9. CASE p = "rmq_version"
  <2>1. RestVerdict(p, o, w.item) = RabbitVersion(o, w.item)
    BY <1>9, Zenon DEF RestVerdict
  <2>2. RestHolds(p, o, w) = (o.expected \in {"none", w.item})
    BY <1>9, Zenon DEF RestHolds
  <2> QED
    BY <2>1, <2>2 DEF RabbitVersion, If
<1> QED
  BY <1>1, <1>2, <1>3, <1>4, <1>5, <1>6, <1>7, <1>8, <1>9 DEF RabbitRest

\* A verdict of WARNING or CRITICAL has found something not as asked for.
LEMMA RestAlarmsAreJudged ==
    ASSUME NEW p \in RabbitRest, NEW o, NEW w, RestVerdict(p, o, w.item) \in {"WARNING", "CRITICAL"},
           p = "rmq_vhost" => OneOfAName(w.item)
    PROVE  ~RestHolds(p, o, w)
<1>1. CASE p = "rmq_exchange"
  <2>1. RestVerdict(p, o, w.item) \in {"UNKNOWN", Exchange(o, w.item)}
    BY <1>1, Zenon DEF RestVerdict
  <2>2. RestHolds(p, o, w) = (w.item.name = "x" /\ o.type \in {"none", w.item.type} /\ o.durable \in {"none", w.item.durable})
    BY <1>1, Zenon DEF RestHolds
  <2> QED
    BY <2>1, <2>2 DEF Exchange, If
<1>2. CASE p = "rmq_queue"
  <2>1. RestVerdict(p, o, w.item) \in {"UNKNOWN", Queue(o, w.item)}
    BY <1>2, Zenon DEF RestVerdict
  <2>2. RestHolds(p, o, w) = (w.item.name = "x" /\ o.durable \in {"none", w.item.durable})
    BY <1>2, Zenon DEF RestHolds
  <2> QED
    BY <2>1, <2>2 DEF Queue, If
<1>3. CASE p = "rmq_vhost"
  <2>1. RestVerdict(p, o, w.item) \in {"UNKNOWN", CheckVhost(o, w.item)}
    BY <1>3, Zenon DEF RestVerdict
  <2>2. RestHolds(p, o, w) = (\E v \in w.item : v.name = "x" /\ ~(o.noTracing /\ v.tracing))
    BY <1>3, Zenon DEF RestHolds
  <2> QED
    BY <1>3, <2>1, <2>2 DEF CheckVhost, If, OneOfAName
<1>4. CASE p = "rmq_auth"
  <2>1. RestVerdict(p, o, w.item) = Auth(o, w.item)
    BY <1>4, Zenon DEF RestVerdict
  <2>2. RestHolds(p, o, w) = (w.item.name = "x" /\ o.tag \in {"none", w.item.tags})
    BY <1>4, Zenon DEF RestHolds
  <2> QED
    BY <2>1, <2>2 DEF Auth, If
<1>5. CASE p = "rmq_alive"
  <2>1. RestVerdict(p, o, w.item) = Aliveness(w.item)
    BY <1>5, Zenon DEF RestVerdict
  <2>2. RestHolds(p, o, w) = (w.item = "ok")
    BY <1>5, Zenon DEF RestHolds
  <2> QED
    BY <2>1, <2>2 DEF Aliveness, If
<1>6. CASE p = "rmq_health"
  <2>1. RestVerdict(p, o, w.item) = Healthcheck(w.item)
    BY <1>6, Zenon DEF RestVerdict
  <2>2. RestHolds(p, o, w) = (w.item = "ok")
    BY <1>6, Zenon DEF RestHolds
  <2> QED
    BY <2>1, <2>2 DEF Healthcheck, If
<1>7. CASE p = "rmq_name"
  <2>1. RestVerdict(p, o, w.item) = ClusterName(o, w.item)
    BY <1>7, Zenon DEF RestVerdict
  <2>2. RestHolds(p, o, w) = (o.expected \in {"none", w.item})
    BY <1>7, Zenon DEF RestHolds
  <2> QED
    BY <2>1, <2>2 DEF ClusterName, If
<1>8. CASE p = "rmq_stats"
  <2>1. RestVerdict(p, o, w.item) = StatsDbEventQueue(o, w.item)
    BY <1>8, Zenon DEF RestVerdict
  <2>2. RestHolds(p, o, w) = (w.item # NoNumber /\ ~Above(w.item, o.warn) /\ ~Above(w.item, o.crit))
    BY <1>8, Zenon DEF RestHolds
  <2> QED
    BY <2>1, <2>2 DEF StatsDbEventQueue, CheckUpper, If
<1>9. CASE p = "rmq_version"
  <2>1. RestVerdict(p, o, w.item) = RabbitVersion(o, w.item)
    BY <1>9, Zenon DEF RestVerdict
  <2>2. RestHolds(p, o, w) = (o.expected \in {"none", w.item})
    BY <1>9, Zenon DEF RestHolds
  <2> QED
    BY <2>1, <2>2 DEF RabbitVersion, If
<1> QED
  BY <1>1, <1>2, <1>3, <1>4, <1>5, <1>6, <1>7, <1>8, <1>9 DEF RabbitRest

\* One request is sent; an answer that is not OK's is never told as OK.
LEMMA RestSteps ==
    ASSUME NEW p \in RabbitRest, NEW o, NEW s
    PROVE  /\ ~Exits(RabbitStep(p, o, s)) => s = <<>>
           /\ s = <<>> /\ Exits(RabbitStep(p, o, s)) => RabbitStep(p, o, s).exit # "OK"
           /\ \A a : s = <<a>> /\ RabbitStep(p, o, s).exit = "OK"
                     => IF IsFatal(a) THEN a.fatal = "OK" ELSE RestVerdict(p, o, a.item) = "OK"
           /\ s = <<>> /\ Exits(RabbitStep(p, o, s)) => RabbitStep(p, o, s).exit = "UNKNOWN"
           /\ \A a : s = <<a>> /\ RabbitStep(p, o, s).exit \in {"WARNING", "CRITICAL"} /\ ~IsFatal(a)
                     => RestVerdict(p, o, a.item) \in {"WARNING", "CRITICAL"}
<1>1. \A x : ~Exits(Ask(x)) /\ Exits(Exit(x)) /\ Exit(x).exit = x
  BY DEF Ask, Exit, Exits
<1>2. p # "rmq_publish"
  BY DEF RabbitRest
<1>3. \A a : <<a>> # <<>> /\ Last(<<a>>) = a /\ <<a>>[1] = a
  BY DEF Last
<1>4. ~Broken(<<>>)
  BY DEF Broken
<1> HIDE DEF Ask, Exit, Exits
<1>5. ~Exits(RabbitStep(p, o, s)) => s = <<>>
  BY <1>1, <1>2 DEF RabbitStep
<1>6. s = <<>> /\ Exits(RabbitStep(p, o, s)) => RabbitStep(p, o, s).exit = "UNKNOWN"
  BY <1>1, <1>2, <1>4 DEF RabbitStep
<1>7. ASSUME NEW a, s = <<a>>, RabbitStep(p, o, s).exit = "OK"
      PROVE  IF IsFatal(a) THEN a.fatal = "OK" ELSE RestVerdict(p, o, a.item) = "OK"
  BY <1>1, <1>2, <1>3, <1>7 DEF RabbitStep, Broken
<1>8. ASSUME NEW a, s = <<a>>, RabbitStep(p, o, s).exit \in {"WARNING", "CRITICAL"}, ~IsFatal(a)
      PROVE  RestVerdict(p, o, a.item) \in {"WARNING", "CRITICAL"}
  BY <1>1, <1>2, <1>3, <1>8 DEF RabbitStep, Broken
<1> QED
  BY <1>5, <1>6, <1>7, <1>8

\* OK of a plugin of the management API tells how the broker was when it was
\* asked: name, type, durability, tags, the words of its own tests, the length
\* of its event queue within the limits that were given.
THEOREM RestOkVouches ==
    ASSUME RunsRest PROVE Spec => [](plugin \in RabbitRest => OkVouches)
<1>1. \A p \in RabbitRest : OneQuestion(p)
  BY RestSteps DEF OneQuestion, RunsRest
<1>2. \A p \in RabbitRest : NotUnasked(p)
  BY RestSteps DEF NotUnasked, RunsRest
<1>3. \A p \in RabbitRest : JudgesTheAnswer(p)
  <2> SUFFICES ASSUME NEW p \in RabbitRest, NEW o \in Options(p), NEW u, NEW v, NEW w,
                      Step(p, o, <<Answer(p, o, u, Step(p, o, <<>>, w).ask)>>, v).exit = "OK",
                      NEW c \in Claims(p, o, u)
               PROVE  Holds(p, c, o, u)
    BY DEF JudgesTheAnswer, NotMissed
  <2> DEFINE a == Http(u.http, [item |-> u.item])
  <2>0. /\ p \in RabbitRest /\ RabbitStep(p, o, <<a>>).exit = "OK"
        /\ Holds(p, c, o, u) = RestHolds(p, o, u)
    BY DEF RunsRest
  <2>1. IF IsFatal(a) THEN a.fatal # "OK" ELSE a.item = u.item
    BY DEF Http, IsFatal, Fatal
  <2> HIDE DEF a
  <2>2. IF IsFatal(a) THEN a.fatal = "OK" ELSE RestVerdict(p, o, a.item) = "OK"
    BY <2>0, RestSteps
  <2>3. RestVerdict(p, o, u.item) = "OK"
    BY <2>1, <2>2
  <2> QED
    BY <2>0, <2>3, RestIsJudged
<1>4. \A p \in RabbitRest : Timeout(p) # "OK"
  BY DEF RunsRest
<1>5. \A p \in RabbitRest : ClaimsStay(p)
  BY DEF RunsRest, ClaimsStay
<1>6. (JudgesOneAnswer(plugin) => OkVouches) => (plugin \in RabbitRest => OkVouches)
  BY <1>1, <1>2, <1>3, <1>4, <1>5 DEF JudgesOneAnswer
<1> QED
  BY <1>6, OneQuestionVouches, PTL

\* WARNING and CRITICAL of these plugins tell of a broker that could not be
\* asked, or was not as it should be when it was asked (PluginRun).
THEOREM RestAlarmsAreReal ==
    ASSUME RunsRest, RestSystem PROVE Spec => [](plugin \in RabbitRest => AlarmsAreReal)
<1>1. \A p \in RabbitRest : OneQuestion(p)
  BY RestSteps DEF OneQuestion, RunsRest
<1>2. \A p \in RabbitRest : AlarmsUnasked(p)
  BY RestSteps DEF AlarmsUnasked, RunsRest
<1>3. \A p \in RabbitRest : AlarmsByTheAnswer(p)
  <2> SUFFICES ASSUME NEW p \in RabbitRest, NEW o \in Options(p), NEW u, NEW v, NEW w, Reached(p, u),
                      Step(p, o, <<Answer(p, o, u, Step(p, o, <<>>, w).ask)>>, v).exit \in {"WARNING", "CRITICAL"},
                      ~Excuses(p, o, u)
               PROVE  \E c \in Claims(p, o, u) : ~Holds(p, c, o, u)
    BY DEF AlarmsByTheAnswer, Amiss
  <2> DEFINE a == Http(u.http, [item |-> u.item])
  <2>1. /\ p \in RabbitRest /\ RabbitStep(p, o, <<a>>).exit \in {"WARNING", "CRITICAL"}
        /\ Claims(p, o, u) = {"it"} /\ Holds(p, "it", o, u) = RestHolds(p, o, u)
        /\ ~RabbitExcuses(p, o, u)
    BY DEF RunsRest
  <2>2. ~IsFatal(a) /\ a.item = u.item
    BY <2>1 DEF Http, IsFatal, RabbitExcuses, RabbitRest
  <2>3. p = "rmq_vhost" => OneOfAName(u.item)
    BY DEF RestSystem, Reached
  <2> HIDE DEF a
  <2>4. RestVerdict(p, o, u.item) \in {"WARNING", "CRITICAL"}
    BY <2>1, <2>2, RestSteps
  <2>5. ~RestHolds(p, o, u)
    BY <2>1, <2>3, <2>4, RestAlarmsAreJudged
  <2> QED
    BY <2>1, <2>5
<1>4. \A p \in RabbitRest : ClaimsStay(p)
  BY DEF RunsRest, ClaimsStay
<1>5. (AlarmsByOneAnswer(plugin) => AlarmsAreReal) => (plugin \in RabbitRest => AlarmsAreReal)
  BY <1>1, <1>2, <1>3, <1>4 DEF AlarmsByOneAnswer
<1> QED
  BY <1>5, OneQuestionAlarms, PTL

-----------------------------------------------------------------------------
(* The plugins that write something of their own and take it away again       *)
(* (Containers, RabbitMQ, HBaseTables), among other plugins.                  *)

HBaseWriters == {"hb_write", "hb_spray"}

RunsWriters ==
    /\ \A p \in HBaseWriters \cup {"cs_write", "rmq_publish"} : Timeout(p) # "OK"
    /\ \A o, s, w : Step("cs_write", o, s, w) = ContainerStep("cs_write", o, s)
    /\ \A o, w, r : /\ Answer("cs_write", o, w, r) = ContainerAnswer("cs_write", o, w, r)
                    /\ Effect("cs_write", o, w, r) = ContainerEffect("cs_write", w, r)
    /\ \A o, s, w : Step("rmq_publish", o, s, w) = RabbitStep("rmq_publish", o, s)
    /\ \A o, w, r : /\ Answer("rmq_publish", o, w, r) = RabbitAnswer("rmq_publish", o, w, r)
                    /\ Effect("rmq_publish", o, w, r) = RabbitEffect("rmq_publish", o, w, r)
    /\ \A p \in HBaseWriters :
          /\ \A o, s, w : Step(p, o, s, w) = TableStep(p, o, s)
          /\ \A o, w, r : Answer(p, o, w, r) = TableAnswer(p, o, w, r) /\ Effect(p, o, w, r) = TableEffect(w, r)

\* What they write has a unique name: others may do what they like with their
\* own, and with Consul's key, but never write this.  A message that came back
\* was acknowledged, and is nobody's any more.
IsKey(w) == \E http, key : \E speed \in Speeds : w = [http |-> http, item |-> [key |-> key, speed |-> speed]]
IsBroker(w) ==
    \E b, d, m, r : \E s \in Speeds : \E n \in Nat :
        w = [broker |-> b, declared |-> d, ahead |-> n, mine |-> m, rung |-> r, speed |-> s]
IsTable(t) ==
    \E Servers, Cells :
        t \in [exists : BOOLEAN, enabled : BOOLEAN, families : Nat, regions : Seq(Servers), cell : Cells]
IsHBase(w) == \E thrift, t, u, written : \E speed \in Speeds :
                  IsTable(t) /\ w = [thrift |-> thrift, t |-> t, u |-> u, written |-> written, speed |-> speed]
WritersSystem ==
    /\ \A w \in Worlds("cs_write") : IsKey(w)
    /\ \A w : IsKey(w) => \A v \in Changes("cs_write", w) : IsKey(v) /\ (w.item.key # "mine" => v.item.key # "mine")
    /\ \A w \in Worlds("rmq_publish") : IsBroker(w)
    /\ \A w : IsBroker(w) =>
          \A v \in Changes("rmq_publish", w) : IsBroker(v) /\ (w.mine = "back" => v.mine = "back")
    /\ \A p \in HBaseWriters :
          /\ \A w \in Worlds(p) : IsHBase(w) /\ w.written = {}
          /\ \A w : IsHBase(w) => \A v \in Changes(p, w) : IsHBase(v) /\ v.written = w.written

\* The end of a list that grows is what was put there.
LEMMA AppendEnds ==
    ASSUME NEW S, NEW s \in Seq(S), NEW a
    PROVE  /\ Append(s, a) # <<>> /\ Len(s) \in Nat /\ Len(Append(s, a)) = Len(s) + 1
           /\ Last(Append(s, a)) = a
<1> DEFINE T == S \cup {a}
<1>1. s \in Seq(T)
  BY SeqMonotonic
<1>2. Append(s, a) \in Seq(T) /\ Len(Append(s, a)) = Len(s) + 1 /\ Append(s, a)[Len(s) + 1] = a /\ Len(s) \in Nat
  BY <1>1
<1> HIDE DEF T
<1> QED
  BY <1>2 DEF Last

-----------------------------------------------------------------------------

\* check_consul_write.py: the key is deleted by the last of three requests, and
\* nobody else writes it.
KeyIsGone ==
    plugin = "cs_write" =>
        /\ IsKey(world)
        /\ ~Broken(seen) /\ Len(seen) >= 3 => world.item.key # "mine"
        /\ status = "OK" => world.item.key # "mine"

\* How long writing, reading and deleting took.
ConsulTimings(s) == {s[i].item.speed : i \in 1..3}

LEMMA ConsulSteps ==
    ASSUME NEW s, NEW o
    PROVE  LET step == ContainerStep("cs_write", o, s)
           IN  /\ Broken(s) => Exits(step) /\ step.exit = Last(s).fatal
               /\ ~Broken(s) /\ s # <<>> /\ Len(s) \notin {1, 2}
                  => Exits(step) /\ step.exit = CheckTimings(ConsulTimings(s))
               /\ s = <<>> \/ (~Broken(s) /\ Len(s) \in {1, 2})
                  => IF Exits(step) THEN step.exit # "OK"
                     ELSE step.ask = IF s = <<>> THEN "write" ELSE IF Len(s) = 1 THEN "read" ELSE "delete"
<1>1. \A x : ~Exits(Ask(x)) /\ Ask(x).ask = x /\ Exits(Exit(x)) /\ Exit(x).exit = x
  BY DEF Ask, Exit, Exits
<1>2. ContainerValid("cs_write", o) /\ ~Broken(<<>>) /\ Len(<<>>) = 0
  BY DEF ContainerValid, Broken
<1>3. ContainerStep("cs_write", o, s) = IF Broken(s) THEN Exit(Last(s).fatal) ELSE ConsulWrite(s)
  BY <1>2, Zenon DEF ContainerStep
<1>4. s = <<>> => ConsulWrite(s) = Ask("write")
  BY <1>2 DEF ConsulWrite
<1>5. s # <<>> /\ Len(s) = 1 => ConsulWrite(s) = Ask("read")
  BY DEF ConsulWrite
<1>6. s # <<>> /\ Len(s) = 2 => ConsulWrite(s) \in {Exit("CRITICAL"), Ask("delete")}
  BY DEF ConsulWrite
<1>7. s # <<>> /\ Len(s) \notin {1, 2} => ConsulWrite(s) = Exit(CheckTimings(ConsulTimings(s)))
  BY DEF ConsulWrite, ConsulTimings
<1> HIDE DEF Ask, Exit, Exits
<1> QED
  BY <1>1, <1>2, <1>3, <1>4, <1>5, <1>6, <1>7

LEMMA ConsulAnswers ==
    ASSUME NEW o, NEW w, NEW r, IsKey(w)
    PROVE  LET a == ContainerAnswer("cs_write", o, w, r)
               v == ContainerEffect("cs_write", w, r)
           IN  /\ a # NotYet /\ IsKey(v)
               /\ IsFatal(a) => a.fatal # "OK"
               /\ r = "delete" /\ ~IsFatal(a) => v.item.key = "none"
<1>1. ContainerAnswer("cs_write", o, w, r) = Http(w.http, [item |-> w.item])
  BY DEF ContainerAnswer
<1>2. ContainerEffect("cs_write", w, r) = IF w.http # "up" THEN w
         ELSE CASE r = "write" -> [w EXCEPT !.item.key = "mine"] [] r = "delete" -> [w EXCEPT !.item.key = "none"]
                [] OTHER -> w
  BY DEF ContainerEffect
<1>3. \/ ContainerEffect("cs_write", w, r) = w
      \/ \E i \in {"mine", "none"} : ContainerEffect("cs_write", w, r) = [w EXCEPT !.item.key = i]
  BY <1>2
<1>4. w.http = "up" /\ r = "delete" => ContainerEffect("cs_write", w, r) = [w EXCEPT !.item.key = "none"]
  BY <1>2
<1>5. IsKey(ContainerEffect("cs_write", w, r))
  <2>1. ASSUME NEW i PROVE IsKey([w EXCEPT !.item.key = i])
    <3>1. PICK h, j : \E s \in Speeds : w = [http |-> h, item |-> [key |-> j, speed |-> s]]
      BY DEF IsKey
    <3>2. PICK s \in Speeds : w = [http |-> h, item |-> [key |-> j, speed |-> s]]
      BY <3>1
    <3> DEFINE v == [http |-> h, item |-> [key |-> i, speed |-> s]]
    <3>3. [w EXCEPT !.item.key = i] = v
      BY <3>2
    <3>4. IsKey(v)
      BY DEF IsKey
    <3> HIDE DEF v
    <3> QED
      BY <3>3, <3>4
  <2> QED
    BY <1>3, <2>1, Zenon
<1>6. w.http = "up" /\ r = "delete" => ContainerEffect("cs_write", w, r).item.key = "none"
  BY <1>4 DEF IsKey
<1>7. Http(w.http, [item |-> w.item]) \in {[item |-> w.item], Fatal("CRITICAL"), Fatal("UNKNOWN")}
      /\ (w.http # "up" => IsFatal(Http(w.http, [item |-> w.item])))
  BY DEF Http, IsFatal, Fatal
<1>8. \A x : /\ [item |-> x] # NotYet /\ Fatal(x) # NotYet /\ ~IsFatal([item |-> x]) /\ Fatal(x).fatal = x
  <2> SUFFICES ASSUME NEW x PROVE [item |-> x] # NotYet /\ Fatal(x) # NotYet /\ ~IsFatal([item |-> x]) /\ Fatal(x).fatal = x
    OBVIOUS
  <2>1. DOMAIN [item |-> x] = {"item"} /\ DOMAIN Fatal(x) = {"fatal"} /\ DOMAIN NotYet = {"wait"}
    BY DEF Fatal, NotYet
  <2>2. {"item"} # {"wait"} /\ {"fatal"} # {"wait"}
    OBVIOUS
  <2>3. [item |-> x] # NotYet /\ Fatal(x) # NotYet
    BY <2>1, <2>2
  <2> QED
    BY <2>1, <2>3 DEF IsFatal, Fatal
<1> HIDE DEF Http, Fatal, NotYet, IsFatal
<1> QED
  BY <1>1, <1>5, <1>6, <1>7, <1>8

LEMMA ConsulCleans ==
    ASSUME RunsWriters, WritersSystem PROVE Spec => []KeyIsGone
<1> DEFINE NoFatalOk == plugin = "cs_write" /\ Broken(seen) => Last(seen).fatal # "OK"
<1> DEFINE Inv == KeyIsGone /\ NoFatalOk
<1>1. Init => Inv
  <2>1. Len(<<>>) = 0 /\ ~Broken(<<>>)
    BY DEF Broken
  <2> QED
    BY <2>1 DEF Init, KeyIsGone, WritersSystem
<1>2. Inv /\ Witnessed /\ [Next]_vars => Inv'
  <2> SUFFICES ASSUME KeyIsGone, NoFatalOk, Witnessed, [Next]_vars, plugin = "cs_write", plugin' = plugin PROVE Inv'
    BY DEF Next, Request, Change, Conclude, TimeOut, vars, KeyIsGone
  <2>1. CASE Request
    <3> DEFINE a == ContainerAnswer("cs_write", options, world, Now.ask)
    <3>1. /\ Now = ContainerStep("cs_write", options, seen) /\ ~Exits(Now)
          /\ seen' = Heard(a) /\ world' = ContainerEffect("cs_write", world, Now.ask) /\ status' = "running"
      BY <2>1 DEF Request, Running, Now, RunsWriters
    <3>2. a # NotYet /\ IsKey(world') /\ (IsFatal(a) => a.fatal # "OK")
          /\ (Now.ask = "delete" /\ ~IsFatal(a) => world'.item.key = "none")
      BY <3>1, ConsulAnswers DEF KeyIsGone
    <3>3. PICK S : seen \in Seq(S)
      BY DEF Witnessed
    <3>4. /\ seen' = Append(seen, a) /\ seen' # <<>> /\ Len(seen) \in Nat /\ Len(seen') = Len(seen) + 1 /\ Last(seen') = a
      <4> HIDE DEF a
      <4> QED
        BY <3>1, <3>2, <3>3, AppendEnds DEF Heard
    <3>5. Len(seen) = 2 /\ seen # <<>> => Now.ask = "delete"
      BY <3>1, ConsulSteps
    <3>6. Len(seen) \in {0, 1, 2} /\ (Len(seen) = 2 => seen # <<>>)
      <4>1. seen = <<>> => Len(seen) = 0
        OBVIOUS
      <4> QED
        BY <3>1, <4>1, ConsulSteps
    <3> HIDE DEF a
    <3>7. NoFatalOk'
      BY <3>2, <3>4 DEF Broken
    <3>8. ~Broken(seen') /\ Len(seen') >= 3 => world'.item.key = "none"
      <4>1. Len(seen') >= 3 => Len(seen) = 2
        BY <3>4, <3>6
      <4> QED
        BY <3>2, <3>4, <3>5, <3>6, <4>1 DEF Broken
    <3> QED
      BY <3>1, <3>2, <3>7, <3>8 DEF KeyIsGone
  <2>2. CASE Change
    BY <2>2 DEF Change, Running, KeyIsGone, WritersSystem
  <2>3. CASE Conclude
    <3>1. /\ Now = ContainerStep("cs_write", options, seen) /\ Exits(Now) /\ status' = Now.exit
          /\ seen' = seen /\ world' = world
      BY <2>3 DEF Conclude, Now, RunsWriters
    <3>2. Now.exit = "OK" => ~Broken(seen) /\ seen # <<>> /\ Len(seen) \notin {1, 2}
      BY <3>1, ConsulSteps
    <3>3. seen # <<>> /\ Len(seen) \notin {1, 2} => Len(seen) >= 3
      <4>1. PICK S : seen \in Seq(S)
        BY DEF Witnessed
      <4>2. Len(seen) \in Nat /\ (seen # <<>> => Len(seen) # 0)
        BY <4>1
      <4>3. \A n \in Nat : n # 0 /\ n \notin {1, 2} => n >= 3
        OBVIOUS
      <4> QED
        BY <4>2, <4>3, Zenon
    <3> QED
      BY <3>1, <3>2, <3>3 DEF KeyIsGone
  <2>4. CASE TimeOut
    BY <2>4 DEF TimeOut, KeyIsGone, RunsWriters
  <2>5. CASE UNCHANGED vars
    BY <2>5 DEF vars, KeyIsGone
  <2> QED
    BY <2>1, <2>2, <2>3, <2>4, <2>5 DEF Next
<1> QED
  BY <1>1, <1>2, AnswersAreWitnessed, PTL DEF Spec

-----------------------------------------------------------------------------

\* check_rabbitmq.py: the last answer is the message of the run only if it has
\* come back.
MessageIsBack ==
    plugin = "rmq_publish" =>
        /\ \A u \in past \cup {world} : IsBroker(u)
        /\ Broken(seen) => Last(seen).fatal # "OK"
        /\ /\ seen # <<>> /\ Len(seen) \notin {1, 2} /\ ~Broken(seen) /\ ~IsNotYet(seen) /\ Last(seen).message = "mine"
           => world.mine = "back"
        /\ status = "OK" => world.mine = "back"

LEMMA PublishSteps ==
    ASSUME NEW s, NEW o
    PROVE  LET step == RabbitStep("rmq_publish", o, s)
           IN  /\ Exits(step) /\ step.exit = "OK"
                  => \/ Broken(s) /\ Last(s).fatal = "OK"
                     \/ /\ s # <<>> /\ Len(s) \notin {1, 2} /\ ~Broken(s) /\ ~IsNotYet(s)
                        /\ Last(s).message = "mine" /\ CheckTimings(PublishTimings(s)) = "OK"
               /\ ~Exits(step) => /\ ~Broken(s)
                                  /\ s # <<>> /\ Len(s) # 1 => step.ask = "consume"
                                  /\ s = <<>> => step.ask = "subscribe"
                                  /\ s # <<>> /\ Len(s) = 1 => step.ask = "publish"
<1>1. \A x : ~Exits(Ask(x)) /\ Ask(x).ask = x /\ Exits(Exit(x)) /\ Exit(x).exit = x
  BY DEF Ask, Exit, Exits
<1>2. ~Broken(<<>>) /\ ~IsNotYet(<<>>) /\ Len(<<>>) = 0
  BY DEF Broken, IsNotYet
<1>3. RabbitStep("rmq_publish", o, s) \in {Exit("UNKNOWN"), IF Broken(s) THEN Exit(Last(s).fatal) ELSE PublishStep(s)}
  BY DEF RabbitStep
<1>4. s = <<>> => PublishStep(s) = Ask("subscribe")
  BY <1>2 DEF PublishStep
<1>5. s # <<>> /\ Len(s) = 1 => PublishStep(s) = Ask("publish")
  BY DEF PublishStep
<1>6. s # <<>> /\ Len(s) # 1 /\ (Len(s) = 2 \/ IsNotYet(s)) => PublishStep(s) = Ask("consume")
  BY DEF PublishStep
<1>7. s # <<>> /\ Len(s) \notin {1, 2} /\ ~IsNotYet(s) => PublishStep(s) = ConsumerCallback(s)
  BY DEF PublishStep
<1>8. /\ Last(s).message = "mine" => ConsumerCallback(s) = Exit(CheckTimings(PublishTimings(s)))
      /\ Last(s).message # "mine" => ConsumerCallback(s) \in {Exit("CRITICAL"), Ask("consume")}
  BY DEF ConsumerCallback
<1> HIDE DEF Ask, Exit, Exits
<1>10. CASE s = <<>>
  BY <1>1, <1>2, <1>3, <1>4, <1>10
<1>11. CASE s # <<>> /\ Len(s) = 1
  BY <1>1, <1>3, <1>5, <1>11
<1>12. CASE s # <<>> /\ Len(s) # 1 /\ (Len(s) = 2 \/ IsNotYet(s))
  BY <1>1, <1>3, <1>6, <1>12
<1>13. CASE s # <<>> /\ Len(s) \notin {1, 2} /\ ~IsNotYet(s)
  BY <1>1, <1>3, <1>7, <1>8, <1>13
<1> QED
  BY <1>10, <1>11, <1>12, <1>13

LEMMA PublishAnswers ==
    ASSUME NEW o, NEW w, NEW r \in {"subscribe", "publish", "consume"}, IsBroker(w)
    PROVE  LET a == RabbitAnswer("rmq_publish", o, w, r)
               v == RabbitEffect("rmq_publish", o, w, r)
           IN  /\ IsBroker(v)
               /\ IsFatal(a) => a.fatal # "OK"
               /\ a = NotYet => r = "consume"
               /\ r = "consume" /\ ~IsFatal(a) /\ a # NotYet /\ a.message = "mine" => v.mine = "back"
<1>1. PICK b, d, m, g : \E s \in Speeds : \E n \in Nat :
                            w = [broker |-> b, declared |-> d, ahead |-> n, mine |-> m, rung |-> g, speed |-> s]
  BY DEF IsBroker
<1>2. PICK s \in Speeds, n \in Nat : w = [broker |-> b, declared |-> d, ahead |-> n, mine |-> m, rung |-> g, speed |-> s]
  BY <1>1
<1> DEFINE a == RabbitAnswer("rmq_publish", o, w, r)
<1> DEFINE v == RabbitEffect("rmq_publish", o, w, r)
<1> SUFFICES /\ IsBroker(v)
             /\ IsFatal(a) => a.fatal # "OK"
             /\ a = NotYet => r = "consume"
             /\ r = "consume" /\ ~IsFatal(a) /\ a # NotYet /\ a.message = "mine" => v.mine = "back"
  OBVIOUS
<1> DEFINE With(k, x) == [broker |-> b, declared |-> d, ahead |-> k, mine |-> x, rung |-> g, speed |-> s]
<1>3. \A x : \A k \in Nat : [w EXCEPT !.mine = x] = With(n, x) /\ [w EXCEPT !.ahead = k] = With(k, m)
  BY <1>2
<1>4. w.broker = b /\ w.ahead = n /\ w.mine = m /\ w.rung = g /\ w.speed = s
  BY <1>2
<1>5. \A k \in Nat : \A x : IsBroker(With(k, x)) /\ With(k, x).mine = x
  BY DEF IsBroker
<1>6. \A x, k : /\ ~IsFatal([done |-> x]) /\ ~IsFatal([done |-> x, took |-> k]) /\ ~IsFatal([message |-> x, took |-> k])
                /\ IsFatal(Fatal(x)) /\ Fatal(x).fatal = x
  BY DEF IsFatal, Fatal
<1>7. \A x, k : [done |-> x] # NotYet /\ [done |-> x, took |-> k] # NotYet /\ Fatal(x) # NotYet
                /\ [message |-> x, took |-> k].message = x
  <2> SUFFICES ASSUME NEW x, NEW k PROVE [done |-> x] # NotYet /\ [done |-> x, took |-> k] # NotYet /\ Fatal(x) # NotYet
    OBVIOUS
  <2>1. /\ DOMAIN [done |-> x] = {"done"} /\ DOMAIN [done |-> x, took |-> k] = {"done", "took"}
        /\ DOMAIN Fatal(x) = {"fatal"} /\ DOMAIN NotYet = {"wait"}
    BY DEF NotYet, Fatal
  <2> QED
    BY <2>1
<1>8. CASE r = "subscribe"
  <2>1. a \in {Fatal("CRITICAL"), [done |-> TRUE]} /\ v \in {w, With(0, m)}
    BY <1>3, <1>8 DEF RabbitAnswer, RabbitEffect, Subscribed
  <2> HIDE DEF a, v, With
  <2>2. 0 \in Nat /\ IsBroker(w)
    OBVIOUS
  <2>3. IsBroker(v)
    BY <1>5, <2>1, <2>2, Zenon
  <2> QED
    BY <1>6, <1>7, <1>8, <2>1, <2>3
<1>9. CASE r = "publish"
  <2>1. a \in {Fatal("CRITICAL"), [done |-> TRUE, took |-> s]} /\ v \in {w, With(n, "queued")}
    BY <1>3, <1>4, <1>9 DEF RabbitAnswer, RabbitEffect, Published
  <2> HIDE DEF a, v, With
  <2>2. 0 \in Nat /\ IsBroker(w)
    OBVIOUS
  <2>3. IsBroker(v)
    BY <1>5, <2>1, <2>2, Zenon
  <2> QED
    BY <1>6, <1>7, <1>9, <2>1, <2>3
<1>10. CASE r = "consume"
  <2>1. a = Consumed(w)
    BY <1>10, Zenon DEF RabbitAnswer
  <2>2. v = CASE w.broker = "down" \/ w.rung -> w
              [] w.broker # "down" /\ ~w.rung /\ w.ahead > 0 -> [w EXCEPT !.ahead = @ - 1]
              [] OTHER -> [w EXCEPT !.mine = IF @ = "queued" THEN "back" ELSE @]
    BY <1>10, Zenon DEF RabbitEffect
  <2>3. CASE b = "down" \/ g
    <3>1. a = Fatal("CRITICAL") /\ v = w
      BY <1>4, <2>1, <2>2, <2>3 DEF Consumed
    <3> HIDE DEF a, v
    <3> QED
      BY <1>6, <1>10, <3>1, Zenon
  <2>4. CASE ~(b = "down" \/ g) /\ n > 0
    <3>1. a = [message |-> "other", took |-> s] /\ v = [w EXCEPT !.ahead = n - 1]
      BY <1>4, <2>1, <2>2, <2>4 DEF Consumed
    <3>2. n - 1 \in Nat
      BY <2>4
    <3> HIDE DEF a, v, With
    <3>3. IsBroker(v)
      BY <1>3, <1>5, <3>1, <3>2, Zenon
    <3> QED
      BY <1>6, <1>7, <1>10, <3>1, <3>3
  <2>5. CASE ~(b = "down" \/ g) /\ ~(n > 0)
    <3>1. n = 0
      BY <2>5
    <3>2. v = With(n, IF m = "queued" THEN "back" ELSE m)
      BY <1>3, <1>4, <2>2, <2>5
    <3>3. a = IF m = "queued" THEN [message |-> "mine", took |-> s] ELSE NotYet
      BY <1>4, <2>1, <2>5, <3>1 DEF Consumed
    <3> HIDE DEF a, v, With
    <3>4. ~IsFatal(NotYet)
      BY DEF IsFatal, NotYet
    <3> QED
      BY <1>5, <1>6, <1>10, <3>2, <3>3, <3>4
  <2> QED
    BY <2>3, <2>4, <2>5
<1> QED
  BY <1>8, <1>9, <1>10

LEMMA MessageComesBack ==
    ASSUME RunsWriters, WritersSystem PROVE Spec => []MessageIsBack
<1>1. Init => MessageIsBack
  <2>1. ~Broken(<<>>)
    BY DEF Broken
  <2> QED
    BY <2>1 DEF Init, MessageIsBack, WritersSystem
<1>2. MessageIsBack /\ Witnessed /\ [Next]_vars => MessageIsBack'
  <2> SUFFICES ASSUME MessageIsBack, Witnessed, [Next]_vars, plugin = "rmq_publish", plugin' = plugin PROVE MessageIsBack'
    BY DEF Next, Request, Change, Conclude, TimeOut, vars, MessageIsBack
  <2>1. CASE Request
    <3> DEFINE a == RabbitAnswer("rmq_publish", options, world, Now.ask)
    <3>1. /\ Now = RabbitStep("rmq_publish", options, seen) /\ ~Exits(Now)
          /\ seen' = Heard(a) /\ world' = RabbitEffect("rmq_publish", options, world, Now.ask) /\ status' = "running"
          /\ past' = past \cup {world'}
      BY <2>1 DEF Request, Running, Now, RunsWriters
    <3>2. Now.ask \in {"subscribe", "publish", "consume"} /\ ~Broken(seen)
          /\ (seen # <<>> /\ Len(seen) # 1 => Now.ask = "consume")
      BY <3>1, PublishSteps
    <3>3. /\ IsBroker(world') /\ (IsFatal(a) => a.fatal # "OK")
          /\ (Now.ask = "consume" /\ ~IsFatal(a) /\ a # NotYet /\ a.message = "mine" => world'.mine = "back")
      BY <3>1, <3>2, PublishAnswers DEF MessageIsBack
    <3>4. PICK S : seen \in Seq(S)
      BY DEF Witnessed
    <3> HIDE DEF a
    <3>5. CASE seen' = seen /\ IsNotYet(seen)
      BY <3>1, <3>2, <3>3, <3>5 DEF MessageIsBack
    <3>6. CASE seen' = Append(seen, a)
      <4>1. seen' # <<>> /\ Len(seen) \in Nat /\ Len(seen') = Len(seen) + 1 /\ Last(seen') = a
        BY <3>4, <3>6, AppendEnds
      <4>2. Broken(seen') <=> IsFatal(a)
        BY <4>1, Zenon DEF Broken
      <4>4. a = NotYet => IsNotYet(seen')
        BY <4>1 DEF IsNotYet, NotYet
      <4>3. Len(seen') \notin {1, 2} => seen # <<>> /\ Len(seen) # 1
        <5>1. seen = <<>> => Len(seen) = 0
          OBVIOUS
        <5>2. \A n \in Nat : n + 1 \notin {1, 2} => n # 0 /\ n # 1
          OBVIOUS
        <5> QED
          BY <4>1, <5>1, <5>2, Zenon
      <4> QED
        BY <3>1, <3>2, <3>3, <4>1, <4>2, <4>3, <4>4 DEF MessageIsBack
    <3> QED
      BY <3>1, <3>5, <3>6 DEF Heard
  <2>2. CASE Change
    BY <2>2 DEF Change, Running, MessageIsBack, WritersSystem
  <2>3. CASE Conclude
    <3>1. /\ Now = RabbitStep("rmq_publish", options, seen) /\ Exits(Now) /\ status' = Now.exit
          /\ seen' = seen /\ world' = world /\ past' = past
      BY <2>3 DEF Conclude, Now, RunsWriters
    <3>2. Now.exit = "OK" => world.mine = "back"
      BY <3>1, PublishSteps DEF MessageIsBack
    <3> QED
      BY <3>1, <3>2 DEF MessageIsBack
  <2>4. CASE TimeOut
    BY <2>4 DEF TimeOut, MessageIsBack, RunsWriters
  <2>5. CASE UNCHANGED vars
    BY <2>5 DEF vars, MessageIsBack
  <2> QED
    BY <2>1, <2>2, <2>3, <2>4, <2>5 DEF Next
<1> QED
  BY <1>1, <1>2, AnswersAreWitnessed, PTL DEF Spec

-----------------------------------------------------------------------------

\* check_hbase_write.py and check_hbase_write_spray.py: the cells to write, and
\* the number of answers before the first is asked for.
CellsOf(p, s) ==
    IF p = "hb_write" THEN [f \in 1..s[3].families |-> <<f, 1>>]
    ELSE LET n == Len(s[4].regions)
         IN  [i \in 1..(s[3].families * n) |-> <<1 + ((i - 1) \div n), 1 + ((i - 1) % n)>>]
FirstCell(p) == IF p = "hb_write" THEN 3 ELSE 4

\* There is at most the one cell that is being put, read or deleted.
OneCellAtMost ==
    plugin \in HBaseWriters =>
        /\ IsHBase(world)
        /\ \E c : world.written \subseteq {c}
        /\ Broken(seen) => Last(seen).fatal # "OK"
        /\ ~Broken(seen) /\ Len(seen) >= 3 => seen[3].families \in Nat
        /\ ~Broken(seen) /\ plugin = "hb_spray" /\ Len(seen) >= 4 => Len(seen[4].regions) \in Nat
        /\ ~Broken(seen) => LET n == Len(seen) - FirstCell(plugin)
                            IN  IF n <= 0 \/ n % 3 = 0 THEN world.written = {}
                                ELSE world.written \subseteq {CellsOf(plugin, seen)[1 + (n \div 3)]}
        /\ status = "OK" => world.written = {}

Operations == <<"put", "get", "delete">>

LEMMA CellSteps ==
    ASSUME NEW cells, NEW s, NEW first
    PROVE  LET n == Len(s) - first
           IN  /\ Exits(CheckCells(cells, s, first)) /\ CheckCells(cells, s, first).exit = "OK"
                  => n = 3 * Len(cells) /\ CheckTimings(Timings(s, first)) = "OK"
               /\ ~Exits(CheckCells(cells, s, first))
                  => CheckCells(cells, s, first).ask = <<Operations[1 + (n % 3)], cells[1 + (n \div 3)]>>
<1>1. \A x : ~Exits(Ask(x)) /\ Ask(x).ask = x /\ Exits(Exit(x)) /\ Exit(x).exit = x
  BY DEF Ask, Exit, Exits
<1> DEFINE n == Len(s) - first
<1> DEFINE asked == Ask(<<Operations[1 + (n % 3)], cells[1 + (n \div 3)]>>)
<1> DEFINE timed == Exit(CheckTimings(Timings(s, first)))
<1>2. CheckCells(cells, s, first) =
          CASE n > 0 /\ (n % 3) = 2 /\ ~Last(s).found -> Exit("CRITICAL")
            [] n = 3 * Len(cells) -> timed
            [] OTHER -> asked
  BY Zenon DEF CheckCells, Operations
<1> SUFFICES /\ Exits(CheckCells(cells, s, first)) /\ CheckCells(cells, s, first).exit = "OK"
                => n = 3 * Len(cells) /\ CheckTimings(Timings(s, first)) = "OK"
             /\ ~Exits(CheckCells(cells, s, first))
                => CheckCells(cells, s, first).ask = <<Operations[1 + (n % 3)], cells[1 + (n \div 3)]>>
  OBVIOUS
<1>3. ~Exits(asked) /\ asked.ask = <<Operations[1 + (n % 3)], cells[1 + (n \div 3)]>>
  BY <1>1
<1>5. Exits(timed) /\ timed.exit = CheckTimings(Timings(s, first))
  BY <1>1
<1> HIDE DEF n, asked, timed, Exit, Exits
<1>4. CheckCells(cells, s, first) \in {Exit("CRITICAL"), asked} \/ (n = 3 * Len(cells) /\ CheckCells(cells, s, first) = timed)
  BY <1>2
<1> QED
  BY <1>1, <1>3, <1>4, <1>5

LEMMA HBaseSteps ==
    ASSUME NEW p \in HBaseWriters, NEW o, NEW s
    PROVE  LET step == TableStep(p, o, s)
               n == Len(s) - FirstCell(p)
               early == s = <<>> \/ Len(s) \in {1, 2} \/ (p = "hb_spray" /\ Len(s) = 3)
           IN  /\ ~Exits(step) => ~Broken(s)
               /\ ~Exits(step) /\ early => step.ask[1] \in {"connect", "tables", "enabled", "families", "regions"}
               /\ ~Exits(step) /\ s # <<>> /\ Len(s) = 2 => step.ask = <<"families">>
               /\ ~Exits(step) /\ s # <<>> /\ p = "hb_spray" /\ Len(s) = 3 => step.ask = <<"regions", "t">>
               /\ ~Exits(step) /\ ~early => step.ask = <<Operations[1 + (n % 3)], CellsOf(p, s)[1 + (n \div 3)]>>
               /\ Exits(step) /\ step.exit = "OK" => (Broken(s) /\ Last(s).fatal = "OK") \/ (~Broken(s) /\ ~early /\ n = 3 * Len(CellsOf(p, s)) /\ CheckTimings(Timings(s, FirstCell(p))) = "OK")
<1> DEFINE step == TableStep(p, o, s)
<1> DEFINE n == Len(s) - FirstCell(p)
<1> DEFINE early == s = <<>> \/ Len(s) \in {1, 2} \/ (p = "hb_spray" /\ Len(s) = 3)
<1> DEFINE cells == CellsOf(p, s)
<1> DEFINE quick == CheckTimings(Timings(s, FirstCell(p))) = "OK"
<1> SUFFICES /\ ~Exits(step) => ~Broken(s)
             /\ ~Exits(step) /\ early => step.ask[1] \in {"connect", "tables", "enabled", "families", "regions"}
             /\ ~Exits(step) /\ s # <<>> /\ Len(s) = 2 => step.ask = <<"families">>
             /\ ~Exits(step) /\ s # <<>> /\ p = "hb_spray" /\ Len(s) = 3 => step.ask = <<"regions", "t">>
             /\ ~Exits(step) /\ ~early => step.ask = <<Operations[1 + (n % 3)], cells[1 + (n \div 3)]>>
             /\ Exits(step) /\ step.exit = "OK" => (Broken(s) /\ Last(s).fatal = "OK") \/ (~Broken(s) /\ ~early /\ n = 3 * Len(cells) /\ quick)
  OBVIOUS
<1>1. \A x : ~Exits(Ask(x)) /\ Ask(x).ask = x /\ Exits(Exit(x)) /\ Exit(x).exit = x
  BY DEF Ask, Exit, Exits
<1>2. ~Broken(<<>>) /\ Len(<<>>) = 0
  BY DEF Broken
<1> DEFINE check == IF p = "hb_write" THEN CheckWrite(s) ELSE CheckSpray(s)
<1> HIDE DEF Exit, Ask, Exits
<1>3. \/ step = Exit("UNKNOWN")
      \/ s = <<>> /\ step = Ask(<<"connect">>)
      \/ s # <<>> /\ Broken(s) /\ step = Exit(Last(s).fatal)
      \/ s # <<>> /\ ~Broken(s) /\ Len(s) = 1 /\ step = Ask(<<"tables">>)
      \/ s # <<>> /\ ~Broken(s) /\ step = check
  <2>1. TableStep(p, o, s) =
            IF ~TableValid(p, o) THEN Exit("UNKNOWN")
            ELSE IF s = <<>> THEN Ask(<<"connect">>)
            ELSE IF Broken(s) THEN Exit(Last(s).fatal)
            ELSE IF o.list THEN IF Len(s) = 1 THEN Ask(<<"tables">>) ELSE Exit("UNKNOWN")
            ELSE check
    <3>1. CASE p = "hb_write"
      BY <3>1, Zenon DEF TableStep
    <3>2. CASE p = "hb_spray"
      BY <3>2, Zenon DEF TableStep
    <3> QED
      BY <3>1, <3>2 DEF HBaseWriters
  <2> HIDE DEF check
  <2> QED
    BY <2>1
<1>4. s # <<>> /\ Len(s) = 1 => check = Ask(<<"enabled">>)
  BY DEF CheckWrite, CheckSpray
<1>5. s # <<>> /\ Len(s) = 2 => check \in {Exit("CRITICAL"), Ask(<<"families">>)}
  BY DEF CheckWrite, CheckSpray
<1>6. s # <<>> /\ Len(s) = 3 /\ p = "hb_spray" => check = Ask(<<"regions", "t">>)
  BY DEF CheckSpray
<1>7. ~early => check = CheckCells(cells, s, FirstCell(p))
  <2>1. CASE p = "hb_write"
    BY <2>1 DEF CheckWrite, CellsOf, FirstCell
  <2>2. CASE p = "hb_spray"
    BY <2>2 DEF CheckSpray, CellsOf, FirstCell
  <2> QED
    BY <2>1, <2>2 DEF HBaseWriters
<1>8. /\ Exits(CheckCells(cells, s, FirstCell(p))) /\ CheckCells(cells, s, FirstCell(p)).exit = "OK" => n = 3 * Len(cells) /\ quick
      /\ ~Exits(CheckCells(cells, s, FirstCell(p)))
         => CheckCells(cells, s, FirstCell(p)).ask = <<Operations[1 + (n % 3)], cells[1 + (n \div 3)]>>
  BY CellSteps
<1> DEFINE q == <<Operations[1 + (n % 3)], cells[1 + (n \div 3)]>>
<1> DEFINE last == n = 3 * Len(cells) /\ quick
<1>9. /\ ~early => /\ Exits(check) /\ check.exit = "OK" => last
                   /\ ~Exits(check) => check.ask = q
  BY <1>7, <1>8
<1>10. <<"connect">>[1] = "connect" /\ <<"tables">>[1] = "tables" /\ <<"enabled">>[1] = "enabled"
       /\ <<"families">>[1] = "families" /\ <<"regions", "t">>[1] = "regions"
  OBVIOUS
<1> HIDE DEF check, n, cells, quick, q, last, step
<1>11. CASE s = <<>>
  BY <1>1, <1>2, <1>3, <1>10, <1>11
<1>12. CASE s # <<>> /\ early
  BY <1>1, <1>3, <1>4, <1>5, <1>6, <1>10, <1>12 DEF HBaseWriters
<1>13. CASE ~early
  BY <1>1, <1>3, <1>9, <1>13 DEF q, last
<1> QED
  BY <1>11, <1>12, <1>13

HBaseRequests == {"connect", "tables", "enabled", "families", "regions", "put", "get", "delete"}

LEMMA HBaseAnswers ==
    ASSUME NEW p, NEW o, NEW w, IsHBase(w), NEW r, r[1] \in HBaseRequests
    PROVE  LET a == TableAnswer(p, o, w, r)
               v == TableEffect(w, r)
           IN  /\ a # NotYet /\ IsHBase(v)
               /\ IsFatal(a) => a.fatal # "OK"
               /\ r = <<"families">> /\ ~IsFatal(a) => a.families \in Nat
               /\ r = <<"regions", "t">> /\ ~IsFatal(a) => Len(a.regions) \in Nat
               /\ r[1] \notin {"put", "delete"} => v = w
               /\ r[1] \in {"put", "delete"} => v.written \subseteq w.written \cup {r[2]}
               /\ r[1] = "delete" /\ ~IsFatal(a) => v.written = w.written \ {r[2]}
<1> DEFINE a == TableAnswer(p, o, w, r)
<1> DEFINE v == TableEffect(w, r)
<1> SUFFICES /\ a # NotYet /\ IsHBase(v)
             /\ IsFatal(a) => a.fatal # "OK"
             /\ r = <<"families">> /\ ~IsFatal(a) => a.families \in Nat
             /\ r = <<"regions", "t">> /\ ~IsFatal(a) => Len(a.regions) \in Nat
             /\ r[1] \notin {"put", "delete"} => v = w
             /\ r[1] \in {"put", "delete"} => v.written \subseteq w.written \cup {r[2]}
             /\ r[1] = "delete" /\ ~IsFatal(a) => v.written = w.written \ {r[2]}
  OBVIOUS
<1>1. PICK th, t, u, wr : \E s \in Speeds :
                              IsTable(t) /\ w = [thrift |-> th, t |-> t, u |-> u, written |-> wr, speed |-> s]
  BY DEF IsHBase
<1>0. PICK s \in Speeds : IsTable(t) /\ w = [thrift |-> th, t |-> t, u |-> u, written |-> wr, speed |-> s]
  BY <1>1
<1>2. w.thrift = th /\ w.t = t /\ w.written = wr /\ t.families \in Nat /\ Len(t.regions) \in Nat
      /\ t.exists \in BOOLEAN /\ t.enabled \in BOOLEAN /\ w.speed = s
  BY <1>0 DEF IsTable
<1> DEFINE With(x) == [thrift |-> th, t |-> t, u |-> u, written |-> x, speed |-> s]
<1>3. \A x : [w EXCEPT !.written = x] = With(x) /\ With(x).written = x
  BY <1>0
<1>4. \A x : IsHBase(With(x))
  BY <1>0 DEF IsHBase
<1> DEFINE online == th = "up" /\ t.exists /\ t.enabled
<1>5. r[1] \notin {"put", "delete"} => v = w
  BY DEF TableEffect
<1>6. r[1] = "put" => v = w \/ v = With(wr \cup {r[2]})
  BY <1>2, <1>3 DEF TableEffect
<1>7. r[1] = "delete" => v = IF online THEN With(wr \ {r[2]}) ELSE w
  BY <1>2, <1>3 DEF TableEffect
<1>8. \A x, k :
             /\ IsFatal(Fatal(x)) /\ Fatal(x).fatal = x /\ Fatal(x) # NotYet
             /\ ~IsFatal([tables |-> x]) /\ [tables |-> x] # NotYet
             /\ ~IsFatal([enabled |-> x]) /\ [enabled |-> x] # NotYet
             /\ ~IsFatal([families |-> x]) /\ [families |-> x] # NotYet
             /\ ~IsFatal([regions |-> x]) /\ [regions |-> x] # NotYet
             /\ ~IsFatal([found |-> x, took |-> k]) /\ [found |-> x, took |-> k] # NotYet
             /\ ~IsFatal([done |-> x, took |-> k]) /\ [done |-> x, took |-> k] # NotYet
  <2>1. "wait" \in DOMAIN NotYet
    BY DEF NotYet
  <2> SUFFICES ASSUME NEW x, NEW k
               PROVE  /\ IsFatal(Fatal(x)) /\ Fatal(x).fatal = x /\ "wait" \notin DOMAIN Fatal(x)
                      /\ ~IsFatal([tables |-> x]) /\ "wait" \notin DOMAIN [tables |-> x]
                      /\ ~IsFatal([enabled |-> x]) /\ "wait" \notin DOMAIN [enabled |-> x]
                      /\ ~IsFatal([families |-> x]) /\ "wait" \notin DOMAIN [families |-> x]
                      /\ ~IsFatal([regions |-> x]) /\ "wait" \notin DOMAIN [regions |-> x]
                      /\ ~IsFatal([found |-> x, took |-> k]) /\ "wait" \notin DOMAIN [found |-> x, took |-> k]
                      /\ ~IsFatal([done |-> x, took |-> k]) /\ "wait" \notin DOMAIN [done |-> x, took |-> k]
    BY <2>1
  <2> QED
    BY DEF IsFatal, Fatal
<1>15. (r = <<"families">> => r[1] = "families") /\ (r = <<"regions", "t">> => r[1] = "regions")
  OBVIOUS
<1> HIDE DEF NotYet, Fatal, IsFatal
<1>9. CASE r[1] \in {"connect", "tables"}
  <2>1. a \in {Fatal("CRITICAL"), [tables |-> {x \in Tables : TableOf(w, x).exists}]}
    BY <1>9 DEF TableAnswer, Served
  <2> HIDE DEF a, v
  <2> QED
    BY <1>5, <1>8, <1>9, <1>15, <2>1
<1>10. CASE r[1] = "enabled"
  <2>1. a \in {Fatal("CRITICAL"), [enabled |-> t.enabled]}
    BY <1>2, <1>10 DEF TableAnswer, InTable, Served
  <2> HIDE DEF a, v
  <2> QED
    BY <1>5, <1>8, <1>10, <1>15, <2>1
<1>11. CASE r[1] = "families"
  <2>1. a \in {Fatal("CRITICAL"), [families |-> t.families]}
    BY <1>2, <1>11 DEF TableAnswer, InTable, Served
  <2>2. IsFatal(a) \/ a.families = t.families
    <3>1. a = Fatal("CRITICAL") \/ a = [families |-> t.families]
      BY <2>1, Zenon
    <3>2. CASE a = Fatal("CRITICAL")
      BY <1>8, <3>2, Zenon
    <3>3. CASE a = [families |-> t.families]
      <4> HIDE DEF a
      <4> QED
        BY <3>3
    <3> QED
      BY <3>1, <3>2, <3>3
  <2>3. a # NotYet /\ (IsFatal(a) => a.fatal # "OK")
    <3> HIDE DEF a
    <3> QED
      BY <1>8, <2>1
  <2> HIDE DEF a, v
  <2> QED
    BY <1>2, <1>5, <1>11, <1>15, <2>2, <2>3
<1>12. CASE r[1] = "regions"
  <2>1. a \in {Fatal("CRITICAL"), [regions |-> TableOf(w, r[2]).regions]}
    BY <1>12 DEF TableAnswer, Served
  <2>2. r = <<"regions", "t">> => TableOf(w, r[2]).regions = t.regions
    BY <1>2 DEF TableOf
  <2>3. IsFatal(a) \/ a.regions = TableOf(w, r[2]).regions
    <3>1. a = Fatal("CRITICAL") \/ a = [regions |-> TableOf(w, r[2]).regions]
      BY <2>1, Zenon
    <3>2. CASE a = Fatal("CRITICAL")
      BY <1>8, <3>2, Zenon
    <3>3. CASE a = [regions |-> TableOf(w, r[2]).regions]
      <4> HIDE DEF a
      <4> QED
        BY <3>3
    <3> QED
      BY <3>1, <3>2, <3>3
  <2>4. a # NotYet /\ (IsFatal(a) => a.fatal # "OK")
    <3> HIDE DEF a
    <3> QED
      BY <1>8, <2>1
  <2> HIDE DEF a, v
  <2> QED
    BY <1>2, <1>5, <1>12, <1>15, <2>2, <2>3, <2>4
<1>13. CASE r[1] = "get"
  <2> DEFINE found == r[2] \in wr
  <2>1. a \in {Fatal("CRITICAL"), [found |-> found, took |-> s]}
    BY <1>2, <1>13 DEF TableAnswer, Online, InTable, Served
  <2> HIDE DEF a, v, found
  <2> QED
    BY <1>5, <1>8, <1>13, <1>15, <2>1
<1>14. CASE r[1] \in {"put", "delete"}
  <2>1. a = IF online THEN [done |-> TRUE, took |-> s] ELSE Fatal("CRITICAL")
    BY <1>2, <1>14 DEF TableAnswer, Online, InTable, Served
  <2> HIDE DEF a, v, With, online
  <2>2. /\ a # NotYet /\ (IsFatal(a) => a.fatal # "OK" /\ ~online)
        /\ r # <<"families">> /\ r # <<"regions", "t">>
    BY <1>8, <1>14, <1>15, <2>1
  <2>3. IsHBase(v)
    BY <1>4, <1>6, <1>7, <1>14
  <2>4. v.written \subseteq w.written \cup {r[2]}
    <3>1. v = w \/ v = With(wr \cup {r[2]}) \/ v = With(wr \ {r[2]})
      BY <1>6, <1>7, <1>14
    <3> QED
      BY <1>2, <1>3, <3>1
  <2>5. r[1] = "delete" /\ ~IsFatal(a) => v.written = w.written \ {r[2]}
    BY <1>2, <1>3, <1>7, <1>8, <2>1
  <2> QED
    BY <1>14, <2>2, <2>3, <2>4, <2>5
<1> QED
  BY <1>9, <1>10, <1>11, <1>12, <1>13, <1>14, Zenon DEF HBaseRequests

\* There is a number of cells, and more answers do not change which they are.
LEMMA CellsAreCounted ==
    ASSUME NEW p \in HBaseWriters, NEW s, s[3].families \in Nat, p = "hb_spray" => Len(s[4].regions) \in Nat
    PROVE  /\ Len(CellsOf(p, s)) \in Nat
           /\ \A t : t[3] = s[3] /\ (p = "hb_spray" => t[4] = s[4]) => CellsOf(p, t) = CellsOf(p, s)
<1>1. CASE p = "hb_write"
  BY <1>1 DEF CellsOf
<1>2. CASE p = "hb_spray"
  <2> DEFINE k == s[3].families * Len(s[4].regions)
  <2>1. k \in Nat
    BY <1>2
  <2>2. CellsOf(p, s) = [i \in 1..k |-> <<1 + ((i - 1) \div Len(s[4].regions)), 1 + ((i - 1) % Len(s[4].regions))>>]
    BY <1>2 DEF CellsOf
  <2> HIDE DEF k
  <2>3. Len(CellsOf(p, s)) = k
    BY <2>1, <2>2
  <2>4. \A t : t[3] = s[3] /\ (p = "hb_spray" => t[4] = s[4]) => CellsOf(p, t) = CellsOf(p, s)
    BY <1>2 DEF CellsOf
  <2> QED
    BY <2>1, <2>3, <2>4
<1> QED
  BY <1>1, <1>2 DEF HBaseWriters

LEMMA HBaseKeepsOne ==
    ASSUME RunsWriters, WritersSystem PROVE Spec => []OneCellAtMost
<1>1. Init => OneCellAtMost
  <2>1. ~Broken(<<>>) /\ Len(<<>>) = 0 /\ ~(0 >= 3) /\ ~(0 >= 4) /\ 0 - 3 <= 0 /\ 0 - 4 <= 0
    BY DEF Broken
  <2> QED
    BY <2>1 DEF Init, OneCellAtMost, WritersSystem, FirstCell, HBaseWriters
<1>2. OneCellAtMost /\ Witnessed /\ [Next]_vars => OneCellAtMost'
  <2> SUFFICES ASSUME OneCellAtMost, Witnessed, [Next]_vars, plugin \in HBaseWriters, plugin' = plugin
               PROVE  OneCellAtMost'
    BY DEF Next, Request, Change, Conclude, TimeOut, vars, OneCellAtMost
  <2> DEFINE n == Len(seen) - FirstCell(plugin)
  <2> DEFINE early == seen = <<>> \/ Len(seen) \in {1, 2} \/ (plugin = "hb_spray" /\ Len(seen) = 3)
  <2>0. PICK S : seen \in Seq(S)
    BY DEF Witnessed
  <2>00. Len(seen) \in Nat /\ (seen = <<>> <=> Len(seen) = 0)
    BY <2>0
  <2>01. /\ n \in Int /\ (early => n < 0) /\ (~early => n >= 0)
         /\ ~early => Len(seen) >= 3 /\ (plugin = "hb_spray" => Len(seen) >= 4)
    <3> DEFINE k == Len(seen)
    <3>1. k \in Nat
      BY <2>00
    <3>2. CASE plugin = "hb_write"
      <4>1. n = k - 3 /\ (early <=> k \in {0, 1, 2})
        BY <2>00, <3>2, Zenon DEF FirstCell
      <4>2. \A j \in Nat : /\ j - 3 \in Int /\ (j \in {0, 1, 2} => j - 3 < 0)
                          /\ j \notin {0, 1, 2} => j >= 3 /\ j - 3 >= 0
        OBVIOUS
      <4>3. plugin # "hb_spray"
        BY <3>2
      <4> HIDE DEF k, n, early
      <4>4. k - 3 \in Int /\ (k \in {0, 1, 2} => k - 3 < 0) /\ (k \notin {0, 1, 2} => k >= 3 /\ k - 3 >= 0)
        BY <3>1, <4>2
      <4> QED
        BY <4>1, <4>3, <4>4, Zenon DEF k
    <3>3. CASE plugin = "hb_spray"
      <4>1. n = k - 4 /\ (early <=> k \in {0, 1, 2, 3})
        BY <2>00, <3>3, Zenon DEF FirstCell
      <4>2. \A j \in Nat : /\ j - 4 \in Int /\ (j \in {0, 1, 2, 3} => j - 4 < 0)
                          /\ j \notin {0, 1, 2, 3} => j >= 3 /\ j >= 4 /\ j - 4 >= 0
        OBVIOUS
      <4> HIDE DEF k, n, early
      <4>3. k - 4 \in Int /\ (k \in {0, 1, 2, 3} => k - 4 < 0)
            /\ (k \notin {0, 1, 2, 3} => k >= 3 /\ k >= 4 /\ k - 4 >= 0)
        BY <3>1, <4>2
      <4> QED
        BY <4>1, <4>3, Zenon DEF k
    <3> QED
      BY <3>2, <3>3 DEF HBaseWriters
  <2>1. CASE Request
    <3> DEFINE a == TableAnswer(plugin, options, world, Now.ask)
    <3>1. /\ Now = TableStep(plugin, options, seen) /\ ~Exits(Now) /\ ~Broken(seen)
          /\ seen' = Heard(a) /\ world' = TableEffect(world, Now.ask) /\ status' = "running"
      BY <2>1, HBaseSteps DEF Request, Running, Now, RunsWriters
    <3> DEFINE cell == CellsOf(plugin, seen)[1 + (n \div 3)]
    <3>2. /\ early => Now.ask[1] \in {"connect", "tables", "enabled", "families", "regions"}
          /\ seen # <<>> /\ Len(seen) = 2 => Now.ask = <<"families">>
          /\ seen # <<>> /\ plugin = "hb_spray" /\ Len(seen) = 3 => Now.ask = <<"regions", "t">>
          /\ ~early => Now.ask = <<Operations[1 + (n % 3)], cell>>
      BY <3>1, HBaseSteps
    <3>3. /\ n \in Int /\ (early => n < 0) /\ (~early => n >= 0)
          /\ ~early => n % 3 \in 0..2
      <4> HIDE DEF n, early
      <4> QED
        BY <2>01
    <3>4. ~early => Now.ask[1] = Operations[1 + (n % 3)] /\ Now.ask[2] = cell
      <4> HIDE DEF n, cell, early
      <4> QED
        BY <3>2
    <3>5. /\ n % 3 = 0 => Operations[1 + (n % 3)] = "put"
          /\ n % 3 = 1 => Operations[1 + (n % 3)] = "get"
          /\ n % 3 = 2 => Operations[1 + (n % 3)] = "delete"
      <4> HIDE DEF n
      <4> QED
        BY DEF Operations
    <3>6. Now.ask[1] \in {"connect", "tables", "enabled", "families", "regions", "put", "get", "delete"}
      <4> HIDE DEF n, cell, early
      <4>1. n % 3 = 0 \/ n % 3 = 1 \/ n % 3 = 2 \/ early
        BY <3>3
      <4> QED
        BY <3>2, <3>4, <3>5, <4>1
    <3>7. /\ a # NotYet /\ IsHBase(world')
          /\ IsFatal(a) => a.fatal # "OK"
          /\ Now.ask = <<"families">> /\ ~IsFatal(a) => a.families \in Nat
          /\ Now.ask = <<"regions", "t">> /\ ~IsFatal(a) => Len(a.regions) \in Nat
          /\ Now.ask[1] \notin {"put", "delete"} => world' = world
          /\ Now.ask[1] \in {"put", "delete"} => world'.written \subseteq world.written \cup {Now.ask[2]}
          /\ Now.ask[1] = "delete" /\ ~IsFatal(a) => world'.written = world.written \ {Now.ask[2]}
      <4>1. IsHBase(world)
        BY DEF OneCellAtMost
      <4> DEFINE r == Now.ask
      <4> DEFINE v == TableEffect(world, r)
      <4> DEFINE b == TableAnswer(plugin, options, world, r)
      <4>2. r[1] \in HBaseRequests
        BY <3>6 DEF HBaseRequests
      <4> HIDE DEF r, n, cell, early
      <4>3. /\ b # NotYet /\ IsHBase(v)
            /\ IsFatal(b) => b.fatal # "OK"
            /\ r = <<"families">> /\ ~IsFatal(b) => b.families \in Nat
            /\ r = <<"regions", "t">> /\ ~IsFatal(b) => Len(b.regions) \in Nat
            /\ r[1] \notin {"put", "delete"} => v = world
            /\ r[1] \in {"put", "delete"} => v.written \subseteq world.written \cup {r[2]}
            /\ r[1] = "delete" /\ ~IsFatal(b) => v.written = world.written \ {r[2]}
        BY <4>1, <4>2, HBaseAnswers, ZenonT(60)
      <4>4. world' = v
        BY <3>1 DEF r
      <4>5. a = b
        BY DEF r
      <4> HIDE DEF v, a, b
      <4> QED
        BY <4>3, <4>4, <4>5 DEF r
    <3> HIDE DEF a
    <3>8. /\ seen' # <<>> /\ Len(seen) \in Nat /\ Len(seen') = Len(seen) + 1 /\ Last(seen') = a
          /\ \A i \in 1..Len(seen) : seen'[i] = seen[i]
          /\ seen'[Len(seen) + 1] = a
      <4>1. seen' = Append(seen, a)
        BY <3>1, <3>7 DEF Heard
      <4> QED
        BY <2>0, <4>1, AppendEnds, AppendKeeps
    <3>9. Broken(seen') <=> IsFatal(a)
      BY <3>8, Zenon DEF Broken
    <3>10. ~Broken(seen') /\ Len(seen') >= 3 => seen'[3].families \in Nat
      <4>1. CASE Len(seen) >= 3
        BY <3>1, <3>8, <4>1 DEF OneCellAtMost
      <4>2. CASE Len(seen) = 2
        BY <2>00, <3>2, <3>7, <3>8, <3>9, <4>2
      <4>3. Len(seen') >= 3 => Len(seen) >= 3 \/ Len(seen) = 2
        <5>1. \A j \in Nat : j + 1 >= 3 => j >= 3 \/ j = 2
          OBVIOUS
        <5> QED
          BY <3>8, <5>1, Zenon
      <4> QED
        BY <4>1, <4>2, <4>3
    <3>11. ~Broken(seen') /\ plugin = "hb_spray" /\ Len(seen') >= 4 => Len(seen'[4].regions) \in Nat
      <4>1. CASE Len(seen) >= 4
        BY <3>1, <3>8, <4>1 DEF OneCellAtMost
      <4>2. CASE Len(seen) = 3
        BY <2>00, <3>2, <3>7, <3>8, <3>9, <4>2
      <4>3. Len(seen') >= 4 => Len(seen) >= 4 \/ Len(seen) = 3
        <5>1. \A j \in Nat : j + 1 >= 4 => j >= 4 \/ j = 3
          OBVIOUS
        <5> QED
          BY <3>8, <5>1, Zenon
      <4> QED
        BY <4>1, <4>2, <4>3
    <3>12. Len(seen') - FirstCell(plugin) = n + 1
      BY <3>8 DEF FirstCell
    <3>13. ~Broken(seen') => IF n + 1 <= 0 \/ (n + 1) % 3 = 0 THEN world'.written = {}
                             ELSE world'.written \subseteq {CellsOf(plugin, seen')[1 + ((n + 1) \div 3)]}
      <4> SUFFICES ASSUME ~Broken(seen')
                   PROVE  IF n + 1 <= 0 \/ (n + 1) % 3 = 0 THEN world'.written = {}
                          ELSE world'.written \subseteq {CellsOf(plugin, seen')[1 + ((n + 1) \div 3)]}
        OBVIOUS
      <4>1. IF n <= 0 \/ n % 3 = 0 THEN world.written = {} ELSE world.written \subseteq {cell}
        BY <3>1 DEF OneCellAtMost
      <4>2. CASE early
        <5>1. world' = world
          BY <3>2, <3>7, <4>2
        <5> HIDE DEF early, n, cell
        <5> QED
          BY <3>3, <4>1, <4>2, <5>1
      <4>3. CASE ~early
        <5>1. CellsOf(plugin, seen') = CellsOf(plugin, seen)
          <6>1. Len(seen) >= 3 /\ (plugin = "hb_spray" => Len(seen) >= 4)
            BY <2>01, <4>3, Zenon
          <6>2. seen[3].families \in Nat /\ (plugin = "hb_spray" => Len(seen[4].regions) \in Nat)
            BY <3>1, <6>1 DEF OneCellAtMost
          <6>3. seen'[3] = seen[3] /\ (plugin = "hb_spray" => seen'[4] = seen[4])
            BY <3>8, <6>1
          <6> QED
            BY <6>2, <6>3, CellsAreCounted
        <5> DEFINE next == CellsOf(plugin, seen')[1 + ((n + 1) \div 3)]
        <5> HIDE DEF early, n, cell
        <5>2. CASE n % 3 = 0
          <6>1. ~(n + 1 <= 0) /\ (n + 1) % 3 = 1 /\ (n + 1) \div 3 = n \div 3
            BY <3>3, <4>3, <5>2
          <6>2. next = cell
            BY <5>1, <6>1 DEF cell
          <6>3. world'.written \subseteq {cell}
            BY <3>4, <3>5, <3>7, <4>1, <4>3, <5>2
          <6> QED
            BY <6>1, <6>2, <6>3
        <5>3. CASE n % 3 = 1
          <6>1. ~(n + 1 <= 0) /\ (n + 1) % 3 = 2 /\ (n + 1) \div 3 = n \div 3 /\ ~(n <= 0)
            BY <3>3, <4>3, <5>3
          <6>2. next = cell
            BY <5>1, <6>1 DEF cell
          <6>3. world'.written \subseteq {cell}
            BY <3>4, <3>5, <3>7, <4>1, <4>3, <5>3, <6>1
          <6> QED
            BY <6>1, <6>2, <6>3
        <5>4. CASE n % 3 = 2
          <6>1. (n + 1) % 3 = 0 /\ ~(n <= 0)
            BY <3>3, <4>3, <5>4
          <6>2. world'.written = {}
            BY <3>4, <3>5, <3>7, <3>9, <4>1, <4>3, <5>4, <6>1
          <6> QED
            BY <6>1, <6>2
        <5> QED
          BY <3>3, <4>3, <5>2, <5>3, <5>4
      <4> QED
        BY <4>2, <4>3
    <3>14. \E c : world'.written \subseteq {c}
      <4>1. IF n <= 0 \/ n % 3 = 0 THEN world.written = {} ELSE world.written \subseteq {cell}
        BY <3>1 DEF OneCellAtMost
      <4>2. world.written \subseteq {cell}
        <5> HIDE DEF n, cell
        <5> QED
          BY <4>1
      <4>3. CASE early
        <5>1. world' = world
          BY <3>2, <3>7, <4>3
        <5> HIDE DEF cell
        <5> QED
          BY <4>2, <5>1
      <4>4. CASE ~early
        <5>1. world' = world \/ world'.written \subseteq world.written \cup {cell}
          <6> HIDE DEF n, cell, early
          <6> QED
            BY <3>4, <3>7, <4>4
        <5> HIDE DEF cell
        <5> QED
          BY <4>2, <5>1
      <4> QED
        BY <4>3, <4>4
    <3> HIDE DEF n
    <3> QED
      BY <3>1, <3>7, <3>8, <3>9, <3>10, <3>11, <3>12, <3>13, <3>14 DEF OneCellAtMost
  <2>2. CASE Change
    BY <2>2 DEF Change, Running, OneCellAtMost, WritersSystem
  <2>3. CASE Conclude
    <3>1. /\ Now = TableStep(plugin, options, seen) /\ Exits(Now) /\ status' = Now.exit
          /\ seen' = seen /\ world' = world
      BY <2>3 DEF Conclude, Now, RunsWriters
    <3>2. Now.exit = "OK" => world.written = {}
      <4> SUFFICES ASSUME Now.exit = "OK" PROVE world.written = {}
        OBVIOUS
      <4>1. ~Broken(seen) /\ ~early /\ n = 3 * Len(CellsOf(plugin, seen))
        BY <3>1, HBaseSteps DEF OneCellAtMost
      <4>2. Len(seen) >= 3 /\ (plugin = "hb_spray" => Len(seen) >= 4)
        BY <2>01, <4>1, Zenon
      <4>3. Len(CellsOf(plugin, seen)) \in Nat
        BY <4>1, <4>2, CellsAreCounted DEF OneCellAtMost
      <4>4. n % 3 = 0
        <5>1. \A k \in Nat : (3 * k) % 3 = 0
          OBVIOUS
        <5> QED
          BY <4>1, <4>3, <5>1
      <4> QED
        BY <4>1, <4>4 DEF OneCellAtMost
    <3> QED
      BY <3>1, <3>2 DEF OneCellAtMost
  <2>4. CASE TimeOut
    BY <2>4 DEF TimeOut, OneCellAtMost, RunsWriters
  <2>5. CASE UNCHANGED vars
    BY <2>5 DEF vars, OneCellAtMost
  <2> QED
    BY <2>1, <2>2, <2>3, <2>4, <2>5 DEF Next
<1> QED
  BY <1>1, <1>2, AnswersAreWitnessed, PTL DEF Spec

\* A run of one of these plugins that ends OK leaves nothing of its own behind,
\* and one that writes cells never more than one, however it ends or is ended
\* (MCPluginRun), however many families and regions there are and whatever
\* others do meanwhile.
THEOREM NothingOfItsOwnIsLeft ==
    ASSUME RunsWriters, WritersSystem PROVE Spec => []NothingIsLeft
<1>1. ASSUME NEW S, \E c : S \subseteq {c} PROVE Cardinality(S) <= 1
  <2>1. PICK c : S \subseteq {c}
    BY <1>1
  <2>2. IsFiniteSet({c}) /\ Cardinality({c}) = 1
    BY FS_Singleton
  <2>3. Cardinality(S) <= Cardinality({c})
    BY <2>1, <2>2, FS_Subset
  <2> QED
    BY <2>2, <2>3
<1>2. KeyIsGone /\ OneCellAtMost => NothingIsLeft
  BY <1>1 DEF KeyIsGone, OneCellAtMost, NothingIsLeft, NothingLeft, HBaseWriters
<1> QED
  BY <1>2, ConsulCleans, HBaseKeepsOne, PTL

-----------------------------------------------------------------------------
(* OK of the plugins that write: what they wrote could be read.               *)

\* What an OK of these plugins tells of, and what they have done by then.
WritersClaim ==
    /\ \A o, w : /\ Claims("cs_write", o, w) = ContainerClaims("cs_write", o, w)
                 /\ Claims("rmq_publish", o, w) = RabbitClaims("rmq_publish")
                 /\ \A p \in HBaseWriters : Claims(p, o, w) = TableClaims(p, o, w)
    /\ \A o, w : /\ Deeds("cs_write", o, w) = ContainerDeeds("cs_write")
                 /\ Deeds("rmq_publish", o, w) = RabbitDeeds("rmq_publish")
                 /\ \A p \in HBaseWriters : Deeds(p, o, w) = TableDeeds(p, o, w)
    /\ \A c, o, w : /\ Holds("cs_write", c, o, w) = ContainerHolds("cs_write", c, o, w)
                    /\ Holds("rmq_publish", c, o, w) = RabbitHolds("rmq_publish", c, o, w)
                    /\ \A p \in HBaseWriters : /\ Holds(p, c, o, w) = TableHolds(p, c, o, w)
                                                /\ Overlooks(p, c, o, w) = TableOverlooks(p, c, o, w)

\* No family is added to the table, nor dropped, while a run writes to each.
FamiliesStay ==
    \A p \in HBaseWriters : \A w : IsHBase(w) =>
        \A v \in Changes(p, w) : v.t.families = w.t.families

-----------------------------------------------------------------------------

\* check_consul_write.py: its own value was read from the key, quickly, and the
\* key was deleted.
KeptAndDeleted ==
    plugin = "cs_write" =>
        /\ ~Broken(seen) /\ Len(seen) >= 2 => \E u \in past : IsKey(u) /\ seen[2].item = u.item
        /\ ~Broken(seen) /\ Len(seen) >= 3 => seen[2].item.key = "mine" /\ \E u \in past : u.item.key = "none"
        /\ status = "OK" => /\ \E u \in past : u.item.key = "mine" /\ u.item.speed = "OK"
                            /\ \E u \in past : u.item.key = "none"

\* Thresholds that are not exceeded are not exceeded by any of the timings.
LEMMA CheckTimingsIsStrict ==
    ASSUME NEW took, CheckTimings(took) = "OK", NEW t \in took, t \in Speeds PROVE t = "OK"
BY DEF CheckTimings, If, Speeds

LEMMA ConsulReads ==
    ASSUME NEW s, NEW o
    PROVE  ~Exits(ContainerStep("cs_write", o, s)) /\ s # <<>> /\ Len(s) = 2 => s[2].item.key = "mine"
<1>1. Exits(Exit("CRITICAL")) /\ Exits(Exit("UNKNOWN")) /\ Exits(Exit(Last(s).fatal))
  BY DEF Exit, Exits
<1>2. s # <<>> /\ Len(s) = 2 /\ s[2].item.key # "mine" => ConsulWrite(s) = Exit("CRITICAL")
  BY DEF ConsulWrite
<1>3. ContainerStep("cs_write", o, s) \in {Exit("UNKNOWN"), Exit(Last(s).fatal), ConsulWrite(s)}
  BY DEF ContainerStep
<1> QED
  BY <1>1, <1>2, <1>3

LEMMA ConsulOpens ==
    ASSUME NEW o, NEW w, NEW r
    PROVE  LET a == ContainerAnswer("cs_write", o, w, r)
           IN  ~IsFatal(a) => a.item = w.item
<1>1. ContainerAnswer("cs_write", o, w, r) = Http(w.http, [item |-> w.item])
  BY DEF ContainerAnswer
<1> QED
  BY <1>1 DEF Http, IsFatal, Fatal

LEMMA ConsulVouches ==
    ASSUME RunsWriters, WritersSystem PROVE Spec => []KeptAndDeleted
<1>1. Init => KeptAndDeleted
  <2>1. Len(<<>>) = 0 /\ ~(0 >= 2) /\ ~(0 >= 3)
    OBVIOUS
  <2> QED
    BY <2>1 DEF Init, KeptAndDeleted
<1>2. PastInv /\ KeptAndDeleted /\ KeyIsGone /\ Witnessed /\ [Next]_vars => KeptAndDeleted'
  <2> SUFFICES ASSUME PastInv, KeptAndDeleted, KeyIsGone, Witnessed, [Next]_vars, plugin = "cs_write", plugin' = plugin
               PROVE  KeptAndDeleted'
    BY DEF Next, Request, Change, Conclude, TimeOut, vars, KeptAndDeleted
  <2>0. PICK S : seen \in Seq(S)
    BY DEF Witnessed
  <2>1. CASE Request
    <3> DEFINE a == ContainerAnswer("cs_write", options, world, Now.ask)
    <3>1. /\ Now = ContainerStep("cs_write", options, seen) /\ ~Exits(Now)
          /\ seen' = Heard(a) /\ world' = ContainerEffect("cs_write", world, Now.ask) /\ status' = "running"
          /\ past' = past \cup {world'}
      BY <2>1 DEF Request, Running, Now, RunsWriters
    <3>2. /\ a # NotYet /\ (~IsFatal(a) => a.item = world.item)
          /\ Now.ask = "delete" /\ ~IsFatal(a) => world'.item.key = "none"
      BY <3>1, ConsulAnswers, ConsulOpens DEF KeyIsGone
    <3>3. /\ seen' # <<>> /\ Len(seen) \in Nat /\ Len(seen') = Len(seen) + 1 /\ Last(seen') = a
          /\ \A i \in 1..Len(seen) : seen'[i] = seen[i]
          /\ seen'[Len(seen) + 1] = a
      <4> HIDE DEF a
      <4>1. seen' = Append(seen, a)
        BY <3>1, <3>2 DEF Heard
      <4> QED
        BY <2>0, <4>1, AppendEnds, AppendKeeps
    <3>4. Len(seen) \in {0, 1, 2} /\ ~Broken(seen) /\ (Len(seen) # 0 => seen # <<>>)
      <4>1. seen = <<>> => Len(seen) = 0
        OBVIOUS
      <4> QED
        BY <3>1, <4>1, ConsulSteps
    <3>5. Broken(seen') <=> IsFatal(a)
      BY <3>3 DEF Broken
    <3> HIDE DEF a
    <3>6. CASE Len(seen) = 0
      <4>1. ~(Len(seen') >= 2) /\ ~(Len(seen') >= 3)
        BY <3>3, <3>6
      <4> QED
        BY <3>1, <4>1 DEF KeptAndDeleted
    <3>7. CASE Len(seen) = 1
      <4>1. Len(seen') = 2 /\ ~(Len(seen') >= 3) /\ seen'[2] = a
        BY <3>3, <3>7
      <4>2. world \in past /\ IsKey(world)
        BY DEF PastInv, KeyIsGone
      <4> QED
        BY <3>1, <3>2, <3>5, <4>1, <4>2 DEF KeptAndDeleted
    <3>8. CASE Len(seen) = 2
      <4>1. seen'[2] = seen[2] /\ seen[2].item.key = "mine" /\ Now.ask = "delete"
        BY <3>1, <3>3, <3>4, <3>8, ConsulReads, ConsulSteps
      <4>2. ~Broken(seen) /\ Len(seen) >= 2
        BY <3>4, <3>8
      <4> QED
        BY <3>1, <3>2, <3>5, <4>1, <4>2 DEF KeptAndDeleted
    <3> QED
      BY <3>4, <3>6, <3>7, <3>8
  <2>2. CASE Change
    <3>1. past \subseteq past' /\ seen' = seen /\ status' = status
      BY <2>2 DEF Change
    <3> QED
      BY <3>1 DEF KeptAndDeleted
  <2>3. CASE Conclude
    <3>1. /\ Now = ContainerStep("cs_write", options, seen) /\ Exits(Now) /\ status' = Now.exit
          /\ seen' = seen /\ past' = past
      BY <2>3 DEF Conclude, Now, RunsWriters
    <3>2. Now.exit = "OK" => /\ ~Broken(seen) /\ seen # <<>> /\ Len(seen) \notin {1, 2}
                             /\ CheckTimings(ConsulTimings(seen)) = "OK"
      <4>1. Broken(seen) => Last(seen).fatal # "OK"
        <5> SUFFICES ASSUME Broken(seen) PROVE Last(seen).fatal # "OK"
          OBVIOUS
        <5>1. seen # <<>> /\ Last(seen) = seen[Len(seen)] /\ Len(seen) \in 1..Len(seen)
          BY <2>0 DEF Broken, Last
        <5>2. PICK u \in past : \E r : seen[Len(seen)] = ContainerAnswer("cs_write", options, u, r)
          BY <5>1 DEF Witnessed, RunsWriters
        <5>3. \A r : ContainerAnswer("cs_write", options, u, r) = Http(u.http, [item |-> u.item])
          BY DEF ContainerAnswer
        <5> QED
          BY <5>1, <5>2, <5>3 DEF Broken, IsFatal, Http, Fatal
      <4> QED
        BY <3>1, <4>1, ConsulSteps
    <3>3. seen # <<>> /\ Len(seen) \notin {1, 2} => Len(seen) >= 3 /\ Len(seen) >= 2
      <4>2. Len(seen) \in Nat /\ (seen # <<>> => Len(seen) # 0)
        BY <2>0
      <4>3. \A n \in Nat : n # 0 /\ n \notin {1, 2} => n >= 3 /\ n >= 2
        OBVIOUS
      <4> QED
        BY <4>2, <4>3, Zenon
    <3>4. Now.exit = "OK" => /\ \E u \in past : u.item.key = "mine" /\ u.item.speed = "OK"
                             /\ \E u \in past : u.item.key = "none"
      <4> SUFFICES ASSUME Now.exit = "OK"
                   PROVE  /\ \E u \in past : u.item.key = "mine" /\ u.item.speed = "OK"
                          /\ \E u \in past : u.item.key = "none"
        OBVIOUS
      <4>1. PICK u \in past : IsKey(u) /\ seen[2].item = u.item
        BY <3>2, <3>3 DEF KeptAndDeleted
      <4>2. seen[2].item.key = "mine" /\ \E v \in past : v.item.key = "none"
        BY <3>2, <3>3 DEF KeptAndDeleted
      <4>3. u.item.speed \in Speeds
        BY <4>1 DEF IsKey
      <4>4. u.item.speed \in ConsulTimings(seen)
        BY <4>1 DEF ConsulTimings
      <4>5. u.item.speed = "OK"
        BY <3>2, <4>3, <4>4, CheckTimingsIsStrict
      <4> QED
        BY <4>1, <4>2, <4>5
    <3> QED
      BY <3>1, <3>4 DEF KeptAndDeleted
  <2>4. CASE TimeOut
    BY <2>4 DEF TimeOut, KeptAndDeleted, RunsWriters
  <2>5. CASE UNCHANGED vars
    BY <2>5 DEF vars, KeptAndDeleted
  <2> QED
    BY <2>1, <2>2, <2>3, <2>4, <2>5 DEF Next
<1> QED
  BY <1>1, <1>2, PastIsReached, ConsulCleans, AnswersAreWitnessed, PTL DEF Spec

\* What a run of one of these plugins that goes on has seen, and what one that
\* ends OK was not asked for.
LEMMA HBaseChecks ==
    ASSUME NEW p \in HBaseWriters, NEW o, NEW s
    PROVE  LET step == TableStep(p, o, s)
               n == Len(s) - FirstCell(p)
               early == s = <<>> \/ Len(s) \in {1, 2} \/ (p = "hb_spray" /\ Len(s) = 3)
           IN  /\ s # <<>> /\ Len(s) = 1 /\ ~Exits(step) /\ ~o.list => step.ask = <<"enabled">>
               /\ s # <<>> /\ Len(s) = 2 /\ ~Exits(step) => s[2].enabled
               /\ ~early /\ ~Exits(step) /\ n > 0 /\ n % 3 = 2 => Last(s).found
               /\ Exits(step) /\ step.exit = "OK" /\ ~Broken(s) => ~o.list
<1> DEFINE step == TableStep(p, o, s)
<1> DEFINE n == Len(s) - FirstCell(p)
<1> DEFINE early == s = <<>> \/ Len(s) \in {1, 2} \/ (p = "hb_spray" /\ Len(s) = 3)
<1> DEFINE cells == CellsOf(p, s)
<1> SUFFICES /\ s # <<>> /\ Len(s) = 1 /\ ~Exits(step) /\ ~o.list => step.ask = <<"enabled">>
             /\ s # <<>> /\ Len(s) = 2 /\ ~Exits(step) => s[2].enabled
             /\ ~early /\ ~Exits(step) /\ n > 0 /\ n % 3 = 2 => Last(s).found
             /\ Exits(step) /\ step.exit = "OK" /\ ~Broken(s) => ~o.list
  OBVIOUS
<1>1. \A x : ~Exits(Ask(x)) /\ Ask(x).ask = x /\ Exits(Exit(x)) /\ Exit(x).exit = x
  BY DEF Ask, Exit, Exits
<1> DEFINE check == IF p = "hb_write" THEN CheckWrite(s) ELSE CheckSpray(s)
<1>2. step = IF ~TableValid(p, o) THEN Exit("UNKNOWN")
             ELSE IF s = <<>> THEN Ask(<<"connect">>)
             ELSE IF Broken(s) THEN Exit(Last(s).fatal)
             ELSE IF o.list THEN IF Len(s) = 1 THEN Ask(<<"tables">>) ELSE Exit("UNKNOWN")
             ELSE check
  <2>1. CASE p = "hb_write"
    BY <2>1, Zenon DEF TableStep
  <2>2. CASE p = "hb_spray"
    BY <2>2, Zenon DEF TableStep
  <2> QED
    BY <2>1, <2>2 DEF HBaseWriters
<1>3. Len(s) = 1 => check = Ask(<<"enabled">>)
  BY DEF CheckWrite, CheckSpray
<1>4. Len(s) = 2 /\ ~s[2].enabled => check = Exit("CRITICAL")
  BY DEF CheckWrite, CheckSpray
<1>5. ~early => check = CheckCells(cells, s, FirstCell(p))
  <2>1. CASE p = "hb_write"
    BY <2>1 DEF CheckWrite, CellsOf, FirstCell
  <2>2. CASE p = "hb_spray"
    BY <2>2 DEF CheckSpray, CellsOf, FirstCell
  <2> QED
    BY <2>1, <2>2 DEF HBaseWriters
<1>6. n > 0 /\ n % 3 = 2 /\ ~Last(s).found => Exits(CheckCells(cells, s, FirstCell(p)))
  <2> DEFINE asked == Ask(<<Operations[1 + (n % 3)], cells[1 + (n \div 3)]>>)
  <2> DEFINE timing == CheckTimings(Timings(s, FirstCell(p)))
  <2>1. CheckCells(cells, s, FirstCell(p)) =
          CASE n > 0 /\ (n % 3) = 2 /\ ~Last(s).found -> Exit("CRITICAL")
            [] n = 3 * Len(cells) -> Exit(timing)
            [] OTHER -> asked
    BY Zenon DEF CheckCells, Operations
  <2> HIDE DEF n, cells, asked, timing, Exit, Exits
  <2>2. n > 0 /\ n % 3 = 2 /\ ~Last(s).found => CheckCells(cells, s, FirstCell(p)) \in {Exit("CRITICAL"), Exit(timing)}
    BY <2>1
  <2> QED
    BY <1>1, <2>2
<1> HIDE DEF step, check, Exit, Ask, Exits, n, cells
<1>7. s # <<>> /\ Len(s) = 1 /\ ~Exits(step) /\ ~o.list => step.ask = <<"enabled">>
  BY <1>1, <1>2, <1>3
<1>8. s # <<>> /\ Len(s) = 2 /\ ~Exits(step) => s[2].enabled
  BY <1>1, <1>2, <1>4
<1>9. ~early /\ ~Exits(step) /\ n > 0 /\ n % 3 = 2 => Last(s).found
  <2> SUFFICES ASSUME ~early, ~Exits(step) PROVE step = check
    BY <1>5, <1>6
  <2> QED
    BY <1>1, <1>2
<1>10. Exits(step) /\ step.exit = "OK" /\ ~Broken(s) => ~o.list
  BY <1>1, <1>2
<1> QED
  BY <1>7, <1>8, <1>9, <1>10

\* The families of every state of the run are those of the last.
SameFamilies ==
    plugin \in HBaseWriters => \A u \in past : IsHBase(u) /\ u.t.families = world.t.families

LEMMA FamiliesAreTheSame ==
    ASSUME RunsWriters, WritersSystem, FamiliesStay PROVE Spec => []SameFamilies
<1>1. Init => SameFamilies
  BY DEF Init, SameFamilies, WritersSystem
<1>2. PastInv /\ SameFamilies /\ [Next]_vars => SameFamilies'
  <2> SUFFICES ASSUME PastInv, SameFamilies, [Next]_vars, plugin \in HBaseWriters, plugin' = plugin PROVE SameFamilies'
    BY DEF Next, Request, Change, Conclude, TimeOut, vars, SameFamilies
  <2>0. IsHBase(world)
    BY DEF PastInv, SameFamilies
  <2>1. CASE Request
    <3>1. world' = TableEffect(world, Now.ask) /\ past' = past \cup {world'}
      BY <2>1 DEF Request, RunsWriters
    <3>2. \/ world' = world
          \/ world' = [world EXCEPT !.written = @ \cup {Now.ask[2]}]
          \/ world' = [world EXCEPT !.written = @ \ {Now.ask[2]}]
      BY <3>1 DEF TableEffect
    <3>3. PICK th, t, u, wr : \E s \in Speeds :
                  IsTable(t) /\ world = [thrift |-> th, t |-> t, u |-> u, written |-> wr, speed |-> s]
      BY <2>0 DEF IsHBase
    <3>4. ASSUME NEW x, world' = [world EXCEPT !.written = x] PROVE IsHBase(world') /\ world'.t = world.t
      <4>0. PICK s \in Speeds : IsTable(t) /\ world = [thrift |-> th, t |-> t, u |-> u, written |-> wr, speed |-> s]
        BY <3>3
      <4>1. world' = [thrift |-> th, t |-> t, u |-> u, written |-> x, speed |-> s]
        BY <3>4, <4>0
      <4>2. IsHBase(world')
        BY <4>0, <4>1, Zenon DEF IsHBase
      <4> QED
        BY <4>0, <4>1, <4>2
    <3>5. IsHBase(world') /\ world'.t.families = world.t.families
      BY <2>0, <3>2, <3>4
    <3> QED
      BY <3>1, <3>5 DEF SameFamilies
  <2>2. CASE Change
    <3>1. IsHBase(world') /\ world'.t.families = world.t.families /\ past' = past \cup {world'}
      BY <2>0, <2>2 DEF Change, WritersSystem, FamiliesStay
    <3> QED
      BY <3>1 DEF SameFamilies
  <2>3. CASE Conclude \/ TimeOut \/ UNCHANGED vars
    BY <2>3 DEF Conclude, TimeOut, vars, SameFamilies
  <2> QED
    BY <2>1, <2>2, <2>3 DEF Next
<1> QED
  BY <1>1, <1>2, PastIsReached, PTL DEF Spec

\* An answer that a run went on from is no failure, and was told by the system
\* as it was at some moment of the run, when asked what the answers before it
\* lead to.
LEMMA HBaseHeard ==
    ASSUME RunsWriters, Witnessed, plugin \in HBaseWriters, ~Broken(seen), NEW i \in 2..Len(seen)
    PROVE  LET s == SubSeq(seen, 1, i - 1)
           IN  /\ ~Exits(TableStep(plugin, options, s)) /\ ~IsFatal(seen[i])
               /\ \E u \in past : seen[i] = TableAnswer(plugin, options, u, TableStep(plugin, options, s).ask)
               /\ Len(s) = i - 1 /\ s # <<>> /\ \A k \in 1..(i - 1) : s[k] = seen[k]
               /\ Last(s) = seen[i - 1]
<1> DEFINE Before(k) == SubSeq(seen, 1, k - 1)
<1>0. PICK S : seen \in Seq(S)
  BY DEF Witnessed
<1>1. Len(seen) \in Nat /\ i \in 1..Len(seen) /\ i - 1 \in 1..Len(seen)
  BY <1>0
<1>2. \A k \in 1..Len(seen) : /\ ~Exits(TableStep(plugin, options, Before(k)))
                              /\ \E u \in past : seen[k] = TableAnswer(plugin, options, u, TableStep(plugin, options, Before(k)).ask)
  BY DEF Witnessed, RunsWriters
<1>3. ~IsFatal(seen[i])
  <2>1. CASE i = Len(seen)
    <3>1. seen # <<>> /\ Last(seen) = seen[i]
      BY <1>0, <1>1, <2>1 DEF Last
    <3> QED
      BY <3>1 DEF Broken
  <2>2. CASE i < Len(seen)
    <3>1. i + 1 \in 1..Len(seen) /\ Before(i + 1) = SubSeq(seen, 1, i)
      BY <1>1, <2>2
    <3>2. ~Broken(SubSeq(seen, 1, i))
      BY <1>2, <3>1, HBaseSteps
    <3>3. SubSeq(seen, 1, i) # <<>> /\ Last(SubSeq(seen, 1, i)) = seen[i]
      BY <1>0, <1>1, PrefixIs
    <3> QED
      BY <3>2, <3>3 DEF Broken
  <2> QED
    BY <1>1, <2>1, <2>2
<1>4. /\ Len(Before(i)) = i - 1 /\ Before(i) # <<>> /\ \A k \in 1..(i - 1) : Before(i)[k] = seen[k]
      /\ Last(Before(i)) = seen[i - 1]
  BY <1>0, <1>1, PrefixIs
<1> HIDE DEF Before
<1>5. /\ ~Exits(TableStep(plugin, options, Before(i)))
      /\ \E u \in past : seen[i] = TableAnswer(plugin, options, u, TableStep(plugin, options, Before(i)).ask)
  BY <1>1, <1>2
<1> QED
  BY <1>3, <1>4, <1>5 DEF Before

\* What an answer that is no failure tells of the system.
LEMMA HBaseTells ==
    ASSUME NEW p, NEW o, NEW u, IsHBase(u)
    PROVE  /\ ~IsFatal(TableAnswer(p, o, u, <<"enabled">>)) => u.t.exists /\ TableAnswer(p, o, u, <<"enabled">>).enabled = u.t.enabled
           /\ ~IsFatal(TableAnswer(p, o, u, <<"families">>)) => TableAnswer(p, o, u, <<"families">>).families = u.t.families
           /\ ~IsFatal(TableAnswer(p, o, u, <<"regions", "t">>)) => TableAnswer(p, o, u, <<"regions", "t">>).regions = u.t.regions
           /\ \A c : ~IsFatal(TableAnswer(p, o, u, <<"get", c>>))
                    => /\ TableAnswer(p, o, u, <<"get", c>>).found => c \in u.written
                       /\ TableAnswer(p, o, u, <<"get", c>>).took = u.speed
<1>1. \A x : IsFatal(Fatal(x))
  BY DEF IsFatal, Fatal
<1> DEFINE e == TableAnswer(p, o, u, <<"enabled">>)
<1> DEFINE f == TableAnswer(p, o, u, <<"families">>)
<1> DEFINE r == TableAnswer(p, o, u, <<"regions", "t">>)
<1> DEFINE g(c) == TableAnswer(p, o, u, <<"get", c>>)
<1>2. e = Fatal("CRITICAL") \/ (u.t.exists /\ e = [enabled |-> u.t.enabled])
  BY DEF TableAnswer, InTable, Served
<1>3. f \in {Fatal("CRITICAL"), [families |-> u.t.families]}
  BY DEF TableAnswer, InTable, Served
<1>4. r \in {Fatal("CRITICAL"), [regions |-> u.t.regions]}
  BY DEF TableAnswer, Served, TableOf
<1>5. \A c : g(c) \in {Fatal("CRITICAL"), [found |-> c \in u.written, took |-> u.speed]}
  <2> SUFFICES ASSUME NEW c PROVE g(c) \in {Fatal("CRITICAL"), [found |-> c \in u.written, took |-> u.speed]}
    OBVIOUS
  <2> DEFINE q == <<"get", c>>
  <2>1. q[1] = "get" /\ q[2] = c
    OBVIOUS
  <2> HIDE DEF q
  <2>2. TableAnswer(p, o, u, q) \in {Fatal("CRITICAL"), [found |-> q[2] \in u.written, took |-> u.speed]}
    BY <2>1 DEF TableAnswer, Online, InTable, Served
  <2> QED
    BY <2>1, <2>2 DEF q
<1> HIDE DEF e, f, r, g, Fatal, IsFatal
<1>6. ~IsFatal(e) => u.t.exists /\ e.enabled = u.t.enabled
  BY <1>1, <1>2
<1>7. ~IsFatal(f) => f.families = u.t.families
  BY <1>1, <1>3
<1>8. ~IsFatal(r) => r.regions = u.t.regions
  BY <1>1, <1>4
<1>9. \A c : ~IsFatal(g(c)) => (g(c).found => c \in u.written) /\ g(c).took = u.speed
  <2> SUFFICES ASSUME NEW c, ~IsFatal(g(c)) PROVE (g(c).found => c \in u.written) /\ g(c).took = u.speed
    OBVIOUS
  <2>1. g(c) = [found |-> c \in u.written, took |-> u.speed]
    BY <1>1, <1>5
  <2>2. \A x, k : [found |-> x, took |-> k].found = x /\ [found |-> x, took |-> k].took = k
    OBVIOUS
  <2>3. g(c).found = (c \in u.written)
    BY <2>1, <2>2
  <2>4. g(c).took = u.speed
    BY <2>1, <2>2
  <2> QED
    BY <2>3, <2>4, Zenon
<1> QED
  BY <1>6, <1>7, <1>8, <1>9 DEF e, f, r, g

\* Place and number of a cell of a table are the same thing.
LEMMA Grid ==
    ASSUME NEW n \in Nat \ {0}, NEW q \in Nat, NEW x \in 0..(n - 1)
    PROVE  (q * n + x) \div n = q /\ (q * n + x) % n = x
OBVIOUS

LEMMA GridBound ==
    ASSUME NEW n \in Nat \ {0}, NEW m \in Nat, NEW f \in 1..m, NEW r \in 1..n
    PROVE  (f - 1) * n + r \in 1..(m * n)
<1> DEFINE a == (f - 1) * n
<1> DEFINE b == m * n
<1>1. a \in Nat
  OBVIOUS
<1>2. (f - 1) * n <= (m - 1) * n /\ (m - 1) * n = m * n - n
  OBVIOUS
<1>3. b \in Nat /\ a <= b - n
  BY <1>2
<1> HIDE DEF a, b
<1>4. a + r \in 1..b
  BY <1>1, <1>3
<1> QED
  BY <1>4 DEF a, b

\* Every family has a cell, in every region that is written to.
Placed(p, s, f, r) ==
    /\ s[3].families \in Nat /\ f \in 1..s[3].families
    /\ p = "hb_write" => r = 1
    /\ p = "hb_spray" => Len(s[4].regions) \in Nat /\ r \in 1..Len(s[4].regions)
IsCell(p, s, f, r) == \E k \in 1..Len(CellsOf(p, s)) : CellsOf(p, s)[k] = <<f, r>>

LEMMA CellOfEach ==
    ASSUME NEW p \in HBaseWriters, NEW s, NEW f, NEW r, Placed(p, s, f, r) PROVE IsCell(p, s, f, r)
<1> SUFFICES ASSUME NEW m \in Nat, s[3].families = m, f \in 1..m, p = "hb_write" => r = 1,
                    p = "hb_spray" => Len(s[4].regions) \in Nat /\ r \in 1..Len(s[4].regions)
             PROVE  \E k \in 1..Len(CellsOf(p, s)) : CellsOf(p, s)[k] = <<f, r>>
  BY DEF Placed, IsCell
<1>1. CASE p = "hb_write"
  <2>1. CellsOf(p, s) = [g \in 1..m |-> <<g, 1>>]
    BY <1>1 DEF CellsOf
  <2>2. Len(CellsOf(p, s)) = m /\ CellsOf(p, s)[f] = <<f, 1>>
    BY <2>1
  <2> QED
    BY <1>1, <2>2
<1>2. CASE p = "hb_spray"
  <2> DEFINE n == Len(s[4].regions)
  <2> DEFINE k == (f - 1) * n + r
  <2>1. n \in Nat \ {0} /\ r \in 1..n
    BY <1>2
  <2>2. CellsOf(p, s) = [i \in 1..(m * n) |-> <<1 + ((i - 1) \div n), 1 + ((i - 1) % n)>>]
    BY <1>2 DEF CellsOf
  <2> HIDE DEF n
  <2>3. k \in 1..(m * n)
    BY <2>1, GridBound
  <2>4. m * n \in Nat
    BY <2>1
  <2>5. k - 1 = (f - 1) * n + (r - 1) /\ f - 1 \in Nat /\ r - 1 \in 0..(n - 1)
    BY <2>1
  <2>6. (k - 1) \div n = f - 1 /\ (k - 1) % n = r - 1
    BY <2>1, <2>5, Grid
  <2>7. 1 + (f - 1) = f /\ 1 + (r - 1) = r
    BY <2>1
  <2> HIDE DEF k
  <2>8. Len(CellsOf(p, s)) = m * n
    <3> DEFINE z == m * n
    <3> HIDE DEF z
    <3>1. CellsOf(p, s) = [i \in 1..z |-> <<1 + ((i - 1) \div n), 1 + ((i - 1) % n)>>]
      BY <2>2 DEF z
    <3>2. z \in Nat
      BY <2>4 DEF z
    <3>3. Len(CellsOf(p, s)) = z
      BY <3>1, <3>2
    <3> QED
      BY <3>3 DEF z
  <2>9. CellsOf(p, s)[k] = <<1 + ((k - 1) \div n), 1 + ((k - 1) % n)>>
    BY <2>2, <2>3, Zenon
  <2> QED
    BY <2>3, <2>6, <2>7, <2>8, <2>9
<1> QED
  BY <1>1, <1>2 DEF HBaseWriters

\* What a run of one of these plugins knows that was not told to stop: the
\* table was enabled, and what its families and its regions are.
LEMMA TableIsKnown ==
    ASSUME RunsWriters, Witnessed, OneCellAtMost, SameFamilies, plugin \in HBaseWriters, ~Broken(seen), ~options.list,
           Len(seen) >= FirstCell(plugin)
    PROVE  /\ \E u \in past : u.t.exists /\ u.t.enabled
           /\ seen[3].families = world.t.families /\ seen[3].families \in Nat
           /\ plugin = "hb_spray" => /\ Len(seen[4].regions) \in Nat
                                     /\ \E u \in past : IsHBase(u) /\ seen[4].regions = u.t.regions
<1>0. Len(seen) \in Nat /\ Len(seen) >= 3 /\ (plugin = "hb_spray" => Len(seen) >= 4)
  <2>1. PICK S : seen \in Seq(S)
    BY DEF Witnessed
  <2>2. Len(seen) \in Nat
    BY <2>1
  <2>3. FirstCell(plugin) \in {3, 4} /\ (plugin = "hb_spray" => FirstCell(plugin) = 4)
    BY DEF FirstCell, HBaseWriters
  <2> DEFINE l == Len(seen)
  <2> HIDE DEF l
  <2>4. l \in Nat /\ l >= FirstCell(plugin)
    BY <2>2 DEF l
  <2>5. l \in Nat /\ l >= 3 /\ (plugin = "hb_spray" => l >= 4)
    BY <2>3, <2>4
  <2> QED
    BY <2>5 DEF l
<1>1. 2 \in 2..Len(seen) /\ 3 \in 2..Len(seen) /\ (plugin = "hb_spray" => 4 \in 2..Len(seen))
  BY <1>0
<1> DEFINE Before(i) == SubSeq(seen, 1, i - 1)
<1> DEFINE Asked(i) == TableStep(plugin, options, Before(i)).ask
<1>2. ASSUME NEW i \in 2..Len(seen)
      PROVE  /\ ~Exits(TableStep(plugin, options, Before(i))) /\ ~IsFatal(seen[i])
             /\ \E u \in past : seen[i] = TableAnswer(plugin, options, u, Asked(i))
             /\ Len(Before(i)) = i - 1 /\ Before(i) # <<>> /\ \A k \in 1..(i - 1) : Before(i)[k] = seen[k]
  BY <1>2, HBaseHeard
<1> HIDE DEF Before
<1>3. \A u \in past : IsHBase(u)
  BY DEF SameFamilies
<1>4. \E u \in past : u.t.exists /\ u.t.enabled
  <2>1. Asked(2) = <<"enabled">>
    <3>1. Len(Before(2)) = 2 - 1 
      BY <1>1, <1>2, Zenon
    <3>2. Len(Before(2)) = 1
      BY <3>1
    <3> QED
      BY <1>1, <1>2, <3>2, HBaseChecks
  <2>2. PICK u \in past : seen[2] = TableAnswer(plugin, options, u, <<"enabled">>)
    BY <1>1, <1>2, <2>1
  <2>3. u.t.exists /\ seen[2].enabled = u.t.enabled
    BY <1>1, <1>2, <1>3, <2>2, HBaseTells
  <2>4. Len(Before(3)) = 2 /\ Before(3)[2] = seen[2]
    <3>1. 2 \in 1..(3 - 1) /\ 3 - 1 = 2
      OBVIOUS
    <3> QED
      BY <1>1, <1>2, <3>1
  <2>5. seen[2].enabled
    BY <1>1, <1>2, <2>4, HBaseChecks
  <2> QED
    BY <2>3, <2>5
<1>5. seen[3].families = world.t.families
  <2>1. Asked(3) = <<"families">>
    <3>1. Len(Before(3)) = 3 - 1 
      BY <1>1, <1>2, Zenon
    <3>2. Len(Before(3)) = 2
      BY <3>1
    <3> QED
      BY <1>1, <1>2, <3>2, HBaseSteps
  <2>2. PICK u \in past : seen[3] = TableAnswer(plugin, options, u, <<"families">>)
    BY <1>1, <1>2, <2>1
  <2>3. seen[3].families = u.t.families
    BY <1>1, <1>2, <1>3, <2>2, HBaseTells
  <2> QED
    BY <2>3 DEF SameFamilies
<1>6. plugin = "hb_spray" => \E u \in past : IsHBase(u) /\ seen[4].regions = u.t.regions
  <2> SUFFICES ASSUME plugin = "hb_spray" PROVE \E u \in past : IsHBase(u) /\ seen[4].regions = u.t.regions
    OBVIOUS
  <2>1. Asked(4) = <<"regions", "t">>
    <3>1. Len(Before(4)) = 4 - 1 
      BY <1>1, <1>2, Zenon
    <3>2. Len(Before(4)) = 3
      BY <3>1
    <3> QED
      BY <1>1, <1>2, <3>2, HBaseSteps
  <2>2. PICK u \in past : seen[4] = TableAnswer(plugin, options, u, <<"regions", "t">>)
    BY <1>1, <1>2, <2>1
  <2>3. seen[4].regions = u.t.regions
    BY <1>1, <1>2, <1>3, <2>2, HBaseTells
  <2> QED
    BY <1>3, <2>3
<1>7. seen[3].families \in Nat /\ (plugin = "hb_spray" => Len(seen[4].regions) \in Nat)
  BY <1>0 DEF OneCellAtMost
<1> QED
  BY <1>4, <1>5, <1>6, <1>7

\* A run that has put, read and deleted cells found the cell each time it read,
\* and has the time that this took.
LEMMA CellsWereFound ==
    ASSUME RunsWriters, Witnessed, OneCellAtMost, SameFamilies, plugin \in HBaseWriters, ~Broken(seen),
           Len(seen) >= FirstCell(plugin), Len(seen) - FirstCell(plugin) = 3 * Len(CellsOf(plugin, seen)),
           NEW k \in 1..Len(CellsOf(plugin, seen))
    PROVE  \E u \in past : CellsOf(plugin, seen)[k] \in u.written /\ u.speed \in Timings(seen, FirstCell(plugin))
<1> DEFINE first == FirstCell(plugin)
<1> DEFINE m == Len(CellsOf(plugin, seen))
<1> DEFINE l == Len(seen)
<1> DEFINE i == first + 3 * (k - 1) + 2
<1>0. first \in {3, 4} /\ (plugin = "hb_spray" <=> first = 4)
  BY DEF FirstCell, HBaseWriters
<1>1. l \in Nat /\ l >= first
  <2>1. PICK S : seen \in Seq(S)
    BY DEF Witnessed
  <2> QED
    BY <2>1
<1>2. seen[3].families \in Nat /\ (plugin = "hb_spray" => Len(seen[4].regions) \in Nat)
  <2>1. l >= 3 /\ (plugin = "hb_spray" => l >= 4)
    <3> HIDE DEF l, first
    <3> QED
      BY <1>0, <1>1
  <2> QED
    BY <2>1 DEF OneCellAtMost
<1>3. m \in Nat /\ l = first + 3 * m /\ k \in 1..m
  <2>1. m \in Nat
    BY <1>2, CellsAreCounted
  <2>2. l - first = 3 * m
    OBVIOUS
  <2> HIDE DEF l, m, first
  <2>3. l = first + 3 * m
    BY <1>0, <1>1, <2>1, <2>2
  <2> QED
    BY <2>1, <2>3 DEF m
<1> DEFINE s == SubSeq(seen, 1, i - 1)
<1> DEFINE t == SubSeq(seen, 1, (i + 1) - 1)
<1>14. i \in (first + 1)..l
  <2> HIDE DEF l, m, first
  <2> QED
    BY <1>0, <1>1, <1>3
<1>4. i \in 2..l /\ i + 1 \in 2..l /\ i - 1 \in Nat /\ i - 1 >= first + 1 /\ i - 1 - first = 3 * (k - 1) + 1
  <2> HIDE DEF l, m, first
  <2> QED
    BY <1>0, <1>1, <1>3
<1>5. /\ ~Exits(TableStep(plugin, options, s)) /\ ~IsFatal(seen[i])
      /\ \E u \in past : seen[i] = TableAnswer(plugin, options, u, TableStep(plugin, options, s).ask)
      /\ Len(s) = i - 1 /\ s # <<>> /\ \A j \in 1..(i - 1) : s[j] = seen[j]
  <2> HIDE DEF i
  <2> QED
    BY <1>4, HBaseHeard
<1>6. /\ ~Exits(TableStep(plugin, options, t))
      /\ Len(t) = i /\ t # <<>> /\ Last(t) = seen[i]
  <2> HIDE DEF i
  <2>1. (i + 1) - 1 = i /\ i + 1 \in 2..Len(seen)
    BY <1>4
  <2>2. /\ ~Exits(TableStep(plugin, options, SubSeq(seen, 1, (i + 1) - 1)))
        /\ Len(SubSeq(seen, 1, (i + 1) - 1)) = (i + 1) - 1 /\ SubSeq(seen, 1, (i + 1) - 1) # <<>>
        /\ Last(SubSeq(seen, 1, (i + 1) - 1)) = seen[(i + 1) - 1]
    BY <2>1, HBaseHeard
  <2> QED
    BY <2>1, <2>2
<1> DEFINE n == i - 1 - first
<1>7. n % 3 = 1 /\ n \div 3 = k - 1 /\ (n + 1) % 3 = 2 /\ n + 1 > 0 /\ 1 + (k - 1) = k
  <2>1. n = 3 * (k - 1) + 1 /\ k - 1 \in Nat
    BY <1>3, <1>4
  <2> HIDE DEF n
  <2>2. \A j \in Nat : (3 * j + 1) % 3 = 1 /\ (3 * j + 1) \div 3 = j /\ (3 * j + 1 + 1) % 3 = 2 /\ 3 * j + 1 + 1 > 0
    OBVIOUS
  <2> QED
    BY <1>3, <2>1, <2>2
<1>8. i - 1 \notin {0, 1, 2} /\ i \notin {0, 1, 2} /\ (plugin = "hb_spray" => i - 1 # 3 /\ i # 3) /\ i - first = n + 1
      /\ 3 \in 1..(i - 1) /\ (plugin = "hb_spray" => 4 \in 1..(i - 1))
  <2> HIDE DEF i, first
  <2> QED
    BY <1>0, <1>4
<1> HIDE DEF i, n, m, l, s, t, first
<1>9. TableStep(plugin, options, s).ask = <<"get", CellsOf(plugin, seen)[k]>>
  <2>1. Len(s) - FirstCell(plugin) = n
    BY <1>5 DEF n, first
  <2>2. TableStep(plugin, options, s).ask
            = <<Operations[1 + ((Len(s) - FirstCell(plugin)) % 3)], CellsOf(plugin, s)[1 + ((Len(s) - FirstCell(plugin)) \div 3)]>>
    <3>1. ~(s = <<>> \/ Len(s) \in {1, 2} \/ (plugin = "hb_spray" /\ Len(s) = 3))
      BY <1>5, <1>8
    <3> QED
      BY <1>5, <3>1, HBaseSteps
  <2>3. TableStep(plugin, options, s).ask = <<Operations[1 + 1], CellsOf(plugin, s)[k]>>
    BY <1>7, <2>1, <2>2
  <2>4. CellsOf(plugin, s) = CellsOf(plugin, seen)
    <3>1. s[3] = seen[3] /\ (plugin = "hb_spray" => s[4] = seen[4])
      BY <1>5, <1>8
    <3> QED
      BY <1>2, <3>1, CellsAreCounted
  <2> QED
    BY <2>3, <2>4 DEF Operations
<1>10. seen[i].found
  <2>1. Len(t) - FirstCell(plugin) = n + 1
    BY <1>6, <1>8 DEF first
  <2> QED
    BY <1>6, <1>7, <1>8, <2>1, HBaseChecks
<1>11. PICK u \in past : seen[i] = TableAnswer(plugin, options, u, <<"get", CellsOf(plugin, seen)[k]>>)
  BY <1>5, <1>9
<1>12. IsHBase(u)
  BY DEF SameFamilies
<1>15. seen[i].took \in Timings(seen, FirstCell(plugin))
  BY <1>14 DEF Timings, first, l
<1>13. (seen[i].found => CellsOf(plugin, seen)[k] \in u.written) /\ seen[i].took = u.speed
  <2> DEFINE c == CellsOf(plugin, seen)[k]
  <2> DEFINE a == TableAnswer(plugin, options, u, <<"get", c>>)
  <2>1. seen[i] = a /\ ~IsFatal(seen[i])
    BY <1>5, <1>11
  <2> HIDE DEF c
  <2>2. ~IsFatal(a) => (a.found => c \in u.written) /\ a.took = u.speed
    BY <1>12, HBaseTells
  <2> HIDE DEF a
  <2>3. (seen[i].found => c \in u.written) /\ seen[i].took = u.speed
    BY <2>1, <2>2
  <2> QED
    BY <2>3 DEF c
<1> QED
  BY <1>10, <1>13, <1>15

\* What the write in every family, and in every region of each, tells of was
\* so: at the end of the run each cell has been seen in the table, or the
\* table had no such region when it was asked.
LEMMA EveryCellWasThere ==
    ASSUME RunsWriters, PastInv, Witnessed, OneCellAtMost, SameFamilies, plugin \in HBaseWriters,
           Exits(TableStep(plugin, options, seen)), TableStep(plugin, options, seen).exit = "OK"
    PROVE  /\ \A c \in TableDeeds(plugin, options, world) : \E u \in past : TableHolds(plugin, c, options, u)
           /\ \A c \in TableClaims(plugin, options, world) :
                 \E u \in past : TableHolds(plugin, c, options, u) \/ TableOverlooks(plugin, c, options, u)
<1>1. /\ ~Broken(seen) /\ ~(seen = <<>> \/ Len(seen) \in {1, 2} \/ (plugin = "hb_spray" /\ Len(seen) = 3))
      /\ Len(seen) - FirstCell(plugin) = 3 * Len(CellsOf(plugin, seen))
      /\ CheckTimings(Timings(seen, FirstCell(plugin))) = "OK"
  BY HBaseSteps DEF OneCellAtMost
<1>2. ~options.list
  BY <1>1, HBaseChecks
<1>3. Len(seen) >= FirstCell(plugin)
  <2>1. PICK S : seen \in Seq(S)
    BY DEF Witnessed
  <2>2. Len(seen) \in Nat /\ Len(seen) \notin {0, 1, 2} /\ (plugin = "hb_spray" => Len(seen) # 3)
    BY <1>1, <2>1
  <2>3. FirstCell(plugin) \in {3, 4} /\ (FirstCell(plugin) = 4 => plugin = "hb_spray")
    BY DEF FirstCell, HBaseWriters
  <2> DEFINE l == Len(seen)
  <2> HIDE DEF l
  <2>4. l \in Nat /\ l \notin {0, 1, 2} /\ (plugin = "hb_spray" => l # 3)
    BY <2>2 DEF l
  <2>5. l >= FirstCell(plugin)
    BY <2>3, <2>4
  <2> QED
    BY <2>5 DEF l
<1> DEFINE m == world.t.families
<1>4. /\ \E u \in past : u.t.exists /\ u.t.enabled
      /\ seen[3].families = m /\ m \in Nat
      /\ plugin = "hb_spray" => /\ Len(seen[4].regions) \in Nat
                                /\ \E u \in past : IsHBase(u) /\ seen[4].regions = u.t.regions
  BY <1>1, <1>2, <1>3, TableIsKnown
<1>5. \A k \in 1..Len(CellsOf(plugin, seen)) :
          \E u \in past : CellsOf(plugin, seen)[k] \in u.written /\ u.speed \in Timings(seen, FirstCell(plugin))
  BY <1>1, <1>3, CellsWereFound
<1> DEFINE Held(c) == \E u \in past : TableHolds(plugin, c, options, u)
<1>6. Held(<<"enabled">>)
  <2>1. <<"enabled">>[1] = "enabled"
    OBVIOUS
  <2> DEFINE c == <<"enabled">>
  <2> HIDE DEF c
  <2>2. \A u : c[1] = "enabled" /\ u.t.exists /\ u.t.enabled => TableHolds(plugin, c, options, u)
    BY DEF TableHolds
  <2> QED
    BY <1>4, <2>1, <2>2 DEF c
<1>7. ASSUME NEW f \in 1..m, NEW r \in Nat, plugin = "hb_write" => r = 1, r >= 1
      PROVE  Held(<<"written", f, r>>)
  <2> DEFINE c == <<"written", f, r>>
  <2>1. c[1] = "written" /\ c[2] = f /\ c[3] = r
    OBVIOUS
  <2> HIDE DEF c
  <2>2. \A u : <<f, r>> \in u.written \/ (plugin = "hb_spray" /\ r \notin DOMAIN u.t.regions) => TableHolds(plugin, c, options, u)
    BY <2>1 DEF TableHolds
  <2>3. CASE plugin = "hb_spray" => r \in 1..Len(seen[4].regions)
    <3> HIDE DEF m
    <3>1. Placed(plugin, seen, f, r)
      BY <1>4, <1>7, <2>3 DEF Placed
    <3>2. IsCell(plugin, seen, f, r)
      BY <3>1, CellOfEach
    <3>3. PICK k \in 1..Len(CellsOf(plugin, seen)) : CellsOf(plugin, seen)[k] = <<f, r>>
      BY <3>2 DEF IsCell
    <3> QED
      BY <1>5, <2>2, <3>3 DEF c
  <2>4. CASE plugin = "hb_spray" /\ r \notin 1..Len(seen[4].regions)
    <3>1. PICK u \in past : IsHBase(u) /\ seen[4].regions = u.t.regions
      BY <1>4, <2>4
    <3>2. DOMAIN u.t.regions = 1..Len(u.t.regions)
      <4>1. PICK t : IsTable(t) /\ u.t = t
        BY <3>1 DEF IsHBase
      <4>2. PICK S : t.regions \in Seq(S)
        BY <4>1 DEF IsTable
      <4> QED
        BY <4>1, <4>2
    <3> QED
      BY <2>2, <2>4, <3>1, <3>2 DEF c
  <2> QED
    BY <2>3, <2>4
<1> DEFINE Quick == \E u \in past : \/ TableHolds(plugin, <<"quick">>, options, u)
                                    \/ TableOverlooks(plugin, <<"quick">>, options, u)
<1>9. Quick
  <2> DEFINE c == <<"quick">>
  <2>1. c[1] = "quick"
    OBVIOUS
  <2> HIDE DEF c
  <2>2. \A u : u.speed = "OK" => TableHolds(plugin, c, options, u)
    BY <2>1 DEF TableHolds
  <2>3. \A u : u.t.families = 0 \/ (plugin = "hb_spray" /\ u.t.regions = <<>>) => TableOverlooks(plugin, c, options, u)
    BY <2>1 DEF TableOverlooks
  <2>4. CASE m = 0
    <3>1. world \in past
      BY DEF PastInv
    <3> QED
      BY <2>3, <2>4, <3>1 DEF c
  <2>5. CASE m # 0 /\ plugin = "hb_spray" /\ Len(seen[4].regions) = 0
    <3>1. PICK u \in past : IsHBase(u) /\ seen[4].regions = u.t.regions
      BY <1>4, <2>5
    <3>2. u.t.regions = <<>>
      <4>1. PICK t : IsTable(t) /\ u.t = t
        BY <3>1 DEF IsHBase
      <4>2. PICK S : t.regions \in Seq(S)
        BY <4>1 DEF IsTable
      <4> QED
        BY <2>5, <3>1, <4>1, <4>2, EmptySeq
    <3> QED
      BY <2>3, <2>5, <3>2 DEF c
  <2>6. CASE m # 0 /\ (plugin = "hb_spray" => Len(seen[4].regions) # 0)
    <3> HIDE DEF m
    <3>1. 1 \in 1..m /\ (plugin = "hb_spray" => 1 \in 1..Len(seen[4].regions))
      BY <1>4, <2>6
    <3>2. Placed(plugin, seen, 1, 1)
      BY <1>4, <3>1 DEF Placed
    <3>3. IsCell(plugin, seen, 1, 1)
      BY <3>2, CellOfEach
    <3>4. PICK u \in past : u.speed \in Timings(seen, FirstCell(plugin))
      BY <1>5, <3>3 DEF IsCell
    <3>5. u.speed \in Speeds
      BY DEF SameFamilies, IsHBase
    <3>6. u.speed = "OK"
      BY <1>1, <3>4, <3>5, CheckTimingsIsStrict
    <3> QED
      BY <2>2, <3>6 DEF c
  <2> QED
    BY <2>4, <2>5, <2>6
<1> HIDE DEF Held
<1>8. ASSUME NEW c \in TableDeeds(plugin, options, world) PROVE Held(c)
  <2>1. TableDeeds(plugin, options, world) =
            {<<"written", f, r>> : f \in 1..m, r \in IF plugin = "hb_write" THEN {1} ELSE 1..3}
    BY DEF TableDeeds, HBaseWriters
  <2> HIDE DEF m
  <2>2. \E f \in 1..m : \E r \in IF plugin = "hb_write" THEN {1} ELSE 1..3 : c = <<"written", f, r>>
    BY <2>1
  <2>3. ASSUME NEW f \in 1..m, NEW r \in IF plugin = "hb_write" THEN {1} ELSE 1..3, c = <<"written", f, r>>
        PROVE  Held(c)
    <3>1. r \in Nat /\ r >= 1 /\ (plugin = "hb_write" => r = 1)
      OBVIOUS
    <3> QED
      BY <1>7, <2>3, <3>1 DEF m
  <2> QED
    BY <2>2, <2>3
<1>10. TableClaims(plugin, options, world) = {<<"enabled">>, <<"quick">>}
  <2>1. CASE plugin = "hb_write"
    BY <2>1 DEF TableClaims
  <2>2. CASE plugin = "hb_spray"
    BY <2>2 DEF TableClaims
  <2> QED
    BY <2>1, <2>2 DEF HBaseWriters
<1> HIDE DEF Quick
<1>11. Held(<<"enabled">>) /\ Quick
  BY <1>6, <1>9
<1> QED
  BY <1>8, <1>10, <1>11 DEF Held, Quick

Writers == HBaseWriters \cup {"cs_write", "rmq_publish"}

\* check_rabbitmq.py: a run that consumed its own message had published it, at a
\* time when the broker was up and within the thresholds.
LEMMA PublishedQuickly ==
    ASSUME RunsWriters, Witnessed, MessageIsBack, plugin = "rmq_publish",
           Exits(RabbitStep("rmq_publish", options, seen)), RabbitStep("rmq_publish", options, seen).exit = "OK"
    PROVE  \E u \in past : u.broker = "up" /\ u.speed = "OK"
<1>0. PICK S : seen \in Seq(S)
  BY DEF Witnessed
<1>1. /\ seen # <<>> /\ Len(seen) \notin {1, 2} /\ ~Broken(seen)
      /\ CheckTimings(PublishTimings(seen)) = "OK"
  BY PublishSteps DEF MessageIsBack
<1>2. Len(seen) \in Nat /\ Len(seen) >= 3
  <2>1. Len(seen) \in Nat /\ Len(seen) # 0
    BY <1>0, <1>1
  <2>2. \A n \in Nat : n # 0 /\ n \notin {1, 2} => n >= 3
    OBVIOUS
  <2> QED
    BY <1>1, <2>1, <2>2, Zenon
<1>3. 1 \in 1..Len(seen) /\ 2 \in 1..Len(seen) /\ 3 \in 1..Len(seen) /\ 2 \in 2..Len(seen)
  BY <1>2
<1> DEFINE first == SubSeq(seen, 1, 1)
<1> DEFINE second == SubSeq(seen, 1, 2)
<1>4. first # <<>> /\ Len(first) = 1 /\ second # <<>> /\ Last(second) = seen[2]
  BY <1>0, <1>3, PrefixIs
<1>5. /\ ~Exits(RabbitStep("rmq_publish", options, first))
      /\ \E u \in past : seen[2] = RabbitAnswer("rmq_publish", options, u, RabbitStep("rmq_publish", options, first).ask)
  <2>1. 2 - 1 = 1
    OBVIOUS
  <2> QED
    BY <1>3, <2>1 DEF Witnessed, RunsWriters
<1>6. ~Exits(RabbitStep("rmq_publish", options, second))
  <2>1. 3 - 1 = 2
    OBVIOUS
  <2> QED
    BY <1>3, <2>1 DEF Witnessed, RunsWriters
<1> HIDE DEF first, second
<1>7. PICK u \in past : seen[2] = RabbitAnswer("rmq_publish", options, u, "publish")
  BY <1>4, <1>5, PublishSteps
<1>8. ~IsFatal(seen[2])
  BY <1>4, <1>6, PublishSteps DEF Broken
<1>9. seen[2] = Published(options, u)
  BY <1>7, Zenon DEF RabbitAnswer
<1>10. u.broker = "up" /\ seen[2] = [done |-> TRUE, took |-> u.speed]
  BY <1>8, <1>9 DEF Published, IsFatal, Fatal
<1>11. seen[2] # NotYet
  BY <1>10 DEF NotYet
<1>12. u.speed \in PublishTimings(seen)
  <2>1. seen[2].took = u.speed
    BY <1>10
  <2>2. 2 \in {j \in 2..Len(seen) : seen[j] # NotYet}
    BY <1>3, <1>11
  <2> QED
    BY <2>1, <2>2 DEF PublishTimings
<1>13. u.speed \in Speeds
  BY DEF MessageIsBack, IsBroker
<1> QED
  BY <1>1, <1>10, <1>12, <1>13, CheckTimingsIsStrict

LEMMA WritersVouch ==
    ASSUME RunsWriters, WritersClaim, WritersSystem, FamiliesStay
    PROVE  Spec => [](plugin \in Writers => OkVouches /\ DeedsAreDone)
<1> DEFINE P == plugin \in Writers => OkVouches /\ DeedsAreDone
<1>1. Init => P
  BY DEF Init, OkVouches, DeedsAreDone
<1>2. PastInv /\ SameFamilies /\ Witnessed /\ OneCellAtMost /\ MessageIsBack /\ P /\ [Next]_vars
        /\ KeptAndDeleted' /\ MessageIsBack' /\ PastInv' => P'
  <2> SUFFICES ASSUME PastInv, SameFamilies, Witnessed, OneCellAtMost, MessageIsBack, P, [Next]_vars,
                      KeptAndDeleted', MessageIsBack', PastInv', plugin' \in Writers, status' = "OK"
               PROVE  /\ \A c \in Claims(plugin', options', world') : \E u \in past' :
                              Holds(plugin', c, options', u) \/ Overlooks(plugin', c, options', u)
                      /\ \A c \in Deeds(plugin', options', world') : \E u \in past' : Holds(plugin', c, options', u)
    BY DEF OkVouches, DeedsAreDone
  <2>0. plugin \in Writers
    BY OnePlugin
  <2>1. CASE plugin' = "cs_write"
    <3>1. PICK u \in past', v \in past' : u.item.key = "mine" /\ u.item.speed = "OK" /\ v.item.key = "none"
      BY <2>1 DEF KeptAndDeleted
    <3>2. /\ Claims(plugin', options', world') = {"quick", "undisturbed"}
          /\ Deeds(plugin', options', world') = {"kept", "clean"}
      BY <2>1 DEF WritersClaim, ContainerClaims, ContainerDeeds
    <3>3. /\ ContainerHolds("cs_write", "kept", options', u)
          /\ ContainerHolds("cs_write", "clean", options', v)
          /\ ContainerHolds("cs_write", "quick", options', u)
          /\ ContainerHolds("cs_write", "undisturbed", options', u)
      <4>1. ContainerHolds("cs_write", "kept", options', u) = (u.item.key = "mine")
        BY Zenon DEF ContainerHolds, Versions, Listings
      <4>2. ContainerHolds("cs_write", "clean", options', v) = (v.item.key = "none")
        BY Zenon DEF ContainerHolds, Versions, Listings
      <4>3. ContainerHolds("cs_write", "quick", options', u) = (u.item.speed = "OK")
        BY Zenon DEF ContainerHolds, Versions, Listings
      <4>4. ContainerHolds("cs_write", "undisturbed", options', u) = (u.item.key # "other")
        BY Zenon DEF ContainerHolds, Versions, Listings
      <4> QED
        BY <3>1, <4>1, <4>2, <4>3, <4>4
    <3> QED
      BY <2>1, <3>1, <3>2, <3>3 DEF WritersClaim
  <2>2. CASE plugin' = "rmq_publish"
    <3>1. CASE Request \/ Change
      BY <2>0, <3>1 DEF Request, Change, Running
    <3>2. CASE Conclude
      <4>1. /\ Now = RabbitStep("rmq_publish", options, seen) /\ Exits(Now) /\ Now.exit = "OK"
            /\ plugin = "rmq_publish" /\ past' = past
        BY <2>2, <3>2 DEF Conclude, Now, RunsWriters
      <4>2. PICK u \in past : u.broker = "up" /\ u.speed = "OK"
        BY <4>1, PublishedQuickly
      <4>3. world'.mine = "back" /\ world' \in past'
        BY <2>2 DEF MessageIsBack, PastInv
      <4>4. /\ RabbitHolds("rmq_publish", "up", options', u)
            /\ RabbitHolds("rmq_publish", "quick", options', u)
            /\ RabbitHolds("rmq_publish", "it", options', world')
        BY <4>2, <4>3 DEF RabbitHolds
      <4>5. /\ Claims(plugin', options', world') = {"up", "quick"}
            /\ Deeds(plugin', options', world') = {"it"}
        BY <2>2 DEF WritersClaim, RabbitClaims, RabbitDeeds
      <4> QED
        BY <2>2, <4>1, <4>3, <4>4, <4>5 DEF WritersClaim
    <3>3. CASE TimeOut
      BY <2>2, <3>3 DEF TimeOut, RunsWriters
    <3>4. CASE UNCHANGED vars
      BY <2>0, <3>4 DEF vars, OkVouches, DeedsAreDone
    <3> QED
      BY <3>1, <3>2, <3>3, <3>4 DEF Next
  <2>3. CASE plugin' \in HBaseWriters
    <3>1. CASE Request \/ Change
      BY <2>0, <3>1 DEF Request, Change, Running
    <3>2. CASE Conclude
      <4>1. /\ Now = TableStep(plugin, options, seen) /\ Exits(Now) /\ Now.exit = "OK"
            /\ plugin' = plugin /\ options' = options /\ world' = world /\ past' = past
        BY <2>3, <3>2 DEF Conclude, Now, RunsWriters
      <4>2. /\ \A c \in TableDeeds(plugin, options, world) : \E u \in past : TableHolds(plugin, c, options, u)
            /\ \A c \in TableClaims(plugin, options, world) :
                  \E u \in past : TableHolds(plugin, c, options, u) \/ TableOverlooks(plugin, c, options, u)
        BY <2>3, <4>1, EveryCellWasThere
      <4> QED
        BY <2>3, <4>1, <4>2 DEF WritersClaim
    <3>3. CASE TimeOut
      BY <2>3, <3>3 DEF TimeOut, RunsWriters
    <3>4. CASE UNCHANGED vars
      BY <2>0, <3>4 DEF vars, OkVouches, DeedsAreDone
    <3> QED
      BY <3>1, <3>2, <3>3, <3>4 DEF Next
  <2>4. plugin' \in HBaseWriters \cup {"cs_write", "rmq_publish"}
    BY DEF Writers
  <2> QED
    BY <2>1, <2>2, <2>3, <2>4
<1>3. Spec => []SameFamilies
  BY FamiliesAreTheSame
<1>4. Spec => []OneCellAtMost
  BY HBaseKeepsOne
<1>5. Spec => []KeptAndDeleted
  BY ConsulVouches
<1>6. Spec => []MessageIsBack
  BY MessageComesBack
<1> QED
  BY <1>1, <1>2, <1>3, <1>4, <1>5, <1>6, PastIsReached, AnswersAreWitnessed, PTL DEF Spec

\* OK of the plugins that write and read back means that what they wrote was
\* there to be read at some moment of the run (PluginRun): in every family, in
\* every region that the table had, on the broker and in Consul, whatever others
\* did between.
THEOREM WritersDeedsAreDone ==
    ASSUME RunsWriters, WritersClaim, WritersSystem, FamiliesStay
    PROVE  Spec => [](plugin \in Writers => DeedsAreDone)
<1>1. Spec => [](plugin \in Writers => OkVouches /\ DeedsAreDone)
  BY WritersVouch
<1> QED
  BY <1>1, PTL

\* OK of these plugins is not given of a table that is disabled, a broker that
\* takes no message, a key that others hold all along, nor where writing was
\* slower throughout the run than the thresholds allow (PluginRun), unless
\* there was no cell to write.
THEOREM WritersOkVouches ==
    ASSUME RunsWriters, WritersClaim, WritersSystem, FamiliesStay
    PROVE  Spec => [](plugin \in Writers => OkVouches)
<1>1. Spec => [](plugin \in Writers => OkVouches /\ DeedsAreDone)
  BY WritersVouch
<1> QED
  BY <1>1, PTL

-----------------------------------------------------------------------------
(* check_yum.py (PackageUpdates), for any number of updates, that come and go *)
(* while the plugin asks.                                                     *)
-----------------------------------------------------------------------------
\* Any number of updates, of any machine that yum runs on.
IsYum(w) ==
    w \in [sec : Nat, other : Nat, kernel : BOOLEAN, form : YumForms,
           yum : {"works", "absent", "denied", "locked", "no plugin", "no mirror"}]

\* The instance of PluginRun in which check_yum.py runs, among other plugins.
\* While it does the machine gets no other yum.
RunsYum ==
    /\ \A o, s, w : Step("yum", o, s, w) = YumStep(o, s)
    /\ \A o, w, r : Answer("yum", o, w, r) = YumRun(o, w, r) /\ Effect("yum", o, w, r) = w
    /\ \A o, w : Claims("yum", o, w) = YumClaims(o, w) /\ Excuses("yum", o, w) = YumExcuses(w)
    /\ \A c, o, w : Holds("yum", c, o, w) = YumHolds(c, o, w)
    /\ Timeout("yum") = YumTimeout
    /\ \A w \in Worlds("yum") : IsYum(w)
    /\ \A w : IsYum(w) => \A v \in Changes("yum", w) : IsYum(v) /\ v.form = w.form
    /\ \A o \in Options("yum") : o.all \in BOOLEAN /\ o.warnAny \in BOOLEAN /\ o.noWarnOnLock \in BOOLEAN

OthersCount(o, w) == o.warnAny /\ w.form \notin {"cloudlinux", "satellite"}

\* All updates, from one answer.
LEMMA YumAllJudged ==
    ASSUME NEW o, NEW u, IsYum(u)
    PROVE  LET s == YumAllUpdates(o, YumList(u, u.sec + u.other))
           IN  /\ Exits(s)
               /\ s.exit = "OK" => ~u.kernel /\ u.sec = 0 /\ u.other = 0
               /\ s.exit # "OK" => u.kernel \/ u.form = "foreign" \/ u.sec # 0 \/ u.other # 0
<1> DEFINE a == YumList(u, u.sec + u.other)
<1>1. a.kernel = u.kernel /\ a.form = u.form /\ a.lines = u.sec + u.other
  BY DEF YumList
<1> HIDE DEF a
<1>2. \A x : Exits(Exit(x)) /\ Exit(x).exit = x
  BY DEF Exits, Exit
<1>3. /\ u.sec \in Nat /\ u.other \in Nat
      /\ u.sec + u.other = 0 <=> u.sec = 0 /\ u.other = 0
  <2>1. \A m, n \in Nat : m + n = 0 <=> m = 0 /\ n = 0
    OBVIOUS
  <2> QED
    BY <2>1, Zenon DEF IsYum
<1>4. \/ YumAllUpdates(o, a) = Exit("WARNING") /\ (a.kernel \/ a.form = "foreign")
      \/ YumAllUpdates(o, a) = Exit("UNKNOWN") /\ a.lines # 0
      \/ YumAllUpdates(o, a) = Exit(If(a.lines # 0, "CRITICAL")) /\ ~a.kernel
  BY DEF YumAllUpdates, YumPackages
<1>5. If(a.lines # 0, "CRITICAL") = IF a.lines # 0 THEN "CRITICAL" ELSE "OK"
  BY DEF If
<1>6. YumList(u, u.sec + u.other) = a
  BY DEF a
<1> QED
  BY <1>1, <1>2, <1>3, <1>4, <1>5, <1>6

\* Security updates: v is the system when the notices are asked for, if they are.
LEMMA YumSecurityJudged ==
    ASSUME NEW o, NEW u, NEW v, NEW notices, IsYum(u), IsYum(v), o.warnAny \in BOOLEAN,
           IF YumNeedsUpdateinfo(YumList(u, u.sec)) THEN notices = YumNotices(v) ELSE v = u
    PROVE  LET s == YumSecurityUpdates(o, YumList(u, u.sec), notices)
           IN  /\ Exits(s)
               /\ s.exit = "OK" => /\ ~u.kernel /\ (u.sec = 0 \/ v.sec = 0)
                                   /\ OthersCount(o, u) => u.other = 0 \/ v.other = 0
               /\ s.exit # "OK" => \/ u.kernel \/ u.form = "foreign" \/ u.sec # 0 \/ v.sec # 0
                                   \/ OthersCount(o, u) /\ (u.other # 0 \/ v.other # 0)
<1> DEFINE a == YumList(u, u.sec)
<1> DEFINE summary == CASE u.form \in {"summary", "architecture"} -> <<u.sec, u.sec + u.other>>
                        [] u.form \in {"dnf", "rhsm"} /\ u.sec = 0 /\ u.other > 0 -> <<0, u.other>>
                        [] OTHER -> <<>>
<1>1. a.kernel = u.kernel /\ a.form = u.form /\ a.lines = u.sec /\ a.summary = summary
  BY DEF YumList
<1>2. \A x, y : <<x, y>> # <<>> /\ <<x, y>>[1] = x /\ <<x, y>>[2] = y
  OBVIOUS
<1>3. /\ u.form \in {"summary", "architecture"} => a.summary # <<>> /\ a.summary[1] = u.sec /\ a.summary[2] = u.sec + u.other
      /\ u.form \in {"dnf", "rhsm"} /\ u.sec = 0 /\ u.other > 0 =>
             a.summary # <<>> /\ a.summary[1] = 0 /\ a.summary[2] = u.other
      /\ u.form \notin {"summary", "architecture"} /\ ~(u.form \in {"dnf", "rhsm"} /\ u.sec = 0 /\ u.other > 0) => a.summary = <<>>
  <2>1. CASE u.form \in {"summary", "architecture"}
    <3> DEFINE total == u.sec + u.other
    <3>1. summary = <<u.sec, total>>
      BY <2>1
    <3> HIDE DEF a, summary, total
    <3>2. a.summary = <<u.sec, total>>
      BY <1>1, <3>1
    <3>3. a.summary # <<>> /\ a.summary[1] = u.sec /\ a.summary[2] = total
      BY <1>2, <3>2
    <3> QED
      BY <2>1, <3>3, Zenon DEF total
  <2>2. CASE u.form \notin {"summary", "architecture"} /\ u.form \in {"dnf", "rhsm"} /\ u.sec = 0 /\ u.other > 0
    <3>1. summary = <<0, u.other>>
      BY <2>2
    <3> HIDE DEF a, summary
    <3>2. a.summary = <<0, u.other>>
      BY <1>1, <3>1
    <3>3. a.summary # <<>> /\ a.summary[1] = 0 /\ a.summary[2] = u.other
      BY <1>2, <3>2
    <3> QED
      BY <2>2, <3>3
  <2>3. CASE u.form \notin {"summary", "architecture"} /\ ~(u.form \in {"dnf", "rhsm"} /\ u.sec = 0 /\ u.other > 0)
    <3>1. summary = <<>>
      BY <2>3
    <3> HIDE DEF a, summary
    <3> QED
      BY <1>1, <2>3, <3>1
  <2> HIDE DEF a, summary
  <2> QED
    BY <2>1, <2>2, <2>3
<1>4. \A x : Exits(Exit(x)) /\ Exit(x).exit = x
  BY DEF Exits, Exit
<1>5. YumNeedsUpdateinfo(a) => notices.sec = v.sec /\ notices.bugfix = v.other
  BY DEF YumNotices
<1> HIDE DEF a, summary
<1> DEFINE n == YumCounts(a, notices)
<1>6. /\ a.summary # <<>> => n.sec = a.summary[1] /\ n.total = a.summary[2] /\ n.trust = FALSE
      /\ a.summary = <<>> /\ a.form = "rhsm" => n.sec = notices.sec /\ n.total = notices.bugfix /\ n.trust = TRUE
      /\ a.summary = <<>> /\ a.form \in {"dnf", "cloudlinux"} => n.sec = 0 /\ n.total = 0 /\ n.trust = TRUE
      /\ a.summary = <<>> /\ a.form \notin {"rhsm", "dnf", "cloudlinux"} => n.sec = 0 /\ n.total = 0 /\ n.trust = FALSE
  BY DEF YumCounts
<1> DEFINE s == YumSecurityUpdates(o, a, notices)
<1> DEFINE found == IF a.lines > n.total THEN a.lines ELSE n.sec
<1>7. s = IF a.kernel THEN Exit("CRITICAL")
          ELSE IF a.summary = <<>> /\ a.form = "foreign" THEN Exit("WARNING")
          ELSE IF a.lines > n.total /\ ~n.trust THEN Exit("WARNING")
          ELSE Exit(IF found # 0 THEN "CRITICAL" ELSE IF n.total - n.sec # 0 /\ o.warnAny THEN "WARNING" ELSE "OK")
  BY DEF YumSecurityUpdates, YumTestSecurity, If
<1> HIDE DEF n
<1>8. /\ Exits(s)
      /\ s.exit = "OK" <=> /\ ~a.kernel /\ ~(a.summary = <<>> /\ a.form = "foreign") /\ ~(a.lines > n.total /\ ~n.trust)
                           /\ found = 0 /\ ~(n.total - n.sec # 0 /\ o.warnAny)
  BY <1>4, <1>7
<1> HIDE DEF s, found
<1>9. YumNeedsUpdateinfo(a) <=> a.form = "rhsm" /\ a.summary = <<>> /\ ~a.kernel
  BY DEF YumNeedsUpdateinfo
<1> SUFFICES /\ s.exit = "OK" => /\ ~u.kernel /\ (u.sec = 0 \/ v.sec = 0)
                                 /\ OthersCount(o, u) => u.other = 0 \/ v.other = 0
             /\ s.exit # "OK" => \/ u.kernel \/ u.form = "foreign" \/ u.sec # 0 \/ v.sec # 0
                                 \/ OthersCount(o, u) /\ (u.other # 0 \/ v.other # 0)
  BY <1>8 DEF s, a
<1>10. /\ u.sec \in Nat /\ u.other \in Nat /\ v.sec \in Nat /\ v.other \in Nat
       /\ u.form \in {"summary", "dnf", "rhsm", "cloudlinux", "satellite", "architecture", "foreign"}
  BY DEF IsYum, YumForms
<1>11. CASE u.kernel
  BY <1>1, <1>8, <1>11
<1>12. CASE ~u.kernel /\ u.form = "rhsm" /\ a.summary = <<>>
  <2>1. YumNeedsUpdateinfo(a) /\ a.form = "rhsm"
    BY <1>1, <1>9, <1>12
  <2>2. n.sec = v.sec /\ n.total = v.other /\ n.trust = TRUE
    BY <1>5, <1>6, <1>12, <2>1
  <2>3. OthersCount(o, u) <=> o.warnAny
    BY <1>12 DEF OthersCount
  <2>4. found = IF u.sec > v.other THEN u.sec ELSE v.sec
    BY <1>1, <2>2 DEF found
  <2>5. v.other - v.sec # 0 => v.other # 0 \/ v.sec # 0
    BY <1>10
  <2>6. /\ s.exit = "OK" => found = 0 /\ (o.warnAny => v.other - v.sec = 0)
        /\ s.exit # "OK" => found # 0 \/ (o.warnAny /\ v.other - v.sec # 0)
    BY <1>1, <1>8, <1>12, <2>1, <2>2
  <2>7. found = 0 => u.sec = 0 \/ v.sec = 0
    BY <2>4
  <2>8. found = 0 /\ v.other - v.sec = 0 => v.other = 0
    BY <1>10, <2>4
  <2>9. found # 0 => u.sec # 0 \/ v.sec # 0
    BY <2>4
  <2> QED
    BY <1>12, <2>3, <2>5, <2>6, <2>7, <2>8, <2>9
<1>13. CASE ~u.kernel /\ a.summary # <<>>
  <2>1. v = u
    BY <1>9, <1>13 DEF a
  <2>2. n.sec = u.sec /\ n.total = u.sec + u.other /\ n.trust = FALSE
    BY <1>3, <1>6, <1>10, <1>13
  <2>3. u.form \notin {"cloudlinux", "satellite"} \/ ~OthersCount(o, u)
    BY DEF OthersCount
  <2>4. u.form \in {"summary", "architecture", "dnf", "rhsm"}
    BY <1>3, <1>10, <1>13
  <2>5. OthersCount(o, u) <=> o.warnAny
    BY <2>4 DEF OthersCount
  <2> QED
    BY <1>1, <1>8, <1>10, <1>13, <2>1, <2>2, <2>5 DEF found
<1>14. CASE ~u.kernel /\ u.form # "rhsm" /\ a.summary = <<>>
  <2>1. v = u
    BY <1>1, <1>9, <1>14 DEF a
  <2>2. u.form \in {"dnf", "cloudlinux", "satellite", "foreign"} /\ (u.form = "dnf" /\ u.sec = 0 => u.other = 0)
    BY <1>3, <1>10, <1>14
  <2>3. n.sec = 0 /\ n.total = 0
    BY <1>1, <1>6, <1>14, <2>2
  <2>4. u.form \in {"cloudlinux", "satellite"} => ~OthersCount(o, u)
    BY DEF OthersCount
  <2>5. found = u.sec
    BY <1>1, <1>10, <2>3 DEF found
  <2> QED
    BY <1>1, <1>8, <1>10, <1>14, <2>1, <2>2, <2>3, <2>4, <2>5
<1> QED
  BY <1>11, <1>12, <1>13, <1>14

\* yum can do what it is asked for: it works, or only has no plugin for security
\* where none is needed.
YumServes(u, r) == u.yum = "works" \/ (u.yum = "no plugin" /\ r = "check-update")

\* A command that fails ends the run, OK only if another holds the lock and that
\* is to be none of its concern.
LEMMA YumAnswers ==
    ASSUME NEW o, NEW u, IsYum(u), NEW r
    PROVE  LET a == YumRun(o, u, r)
           IN  /\ ~YumServes(u, r) => /\ IsFatal(a) /\ a.fatal \in {"OK", "WARNING", "UNKNOWN"}
                                      /\ a.fatal = "OK" => u.yum = "locked" /\ o.noWarnOnLock
                                      /\ a.fatal = "WARNING" => u.yum = "locked" /\ ~o.noWarnOnLock
               /\ YumServes(u, r) => /\ r = "check-update" => a = YumList(u, u.sec + u.other) /\ ~IsFatal(a)
                                     /\ r = "--security check-update" => a = YumList(u, u.sec) /\ ~IsFatal(a)
                                     /\ r = "updateinfo" => a = YumNotices(u) /\ ~IsFatal(a)
<1> DEFINE a == YumRun(o, u, r)
<1>1. \A n : ~IsFatal(YumList(u, n)) /\ ~IsFatal(YumNotices(u))
  BY DEF IsFatal, YumList, YumNotices
<1>2. \A x : IsFatal(Fatal(x)) /\ Fatal(x).fatal = x
  BY DEF IsFatal, Fatal
<1>3. CASE YumServes(u, r)
  <2>1. YumUsable(u) /\ u.yum # "denied" /\ ~YumFails(u, r)
    BY <1>3 DEF YumServes, YumUsable, YumFails
  <2>2. /\ r = "check-update" => a = YumList(u, u.sec + u.other)
        /\ r = "--security check-update" => a = YumList(u, u.sec)
        /\ r = "updateinfo" => a = YumNotices(u)
    BY <2>1 DEF YumRun
  <2> QED
    BY <1>1, <1>3, <2>2
<1>4. CASE u.yum \in {"absent", "denied"}
  <2>1. a = Fatal("UNKNOWN")
    BY <1>4, Zenon DEF YumRun, YumUsable
  <2>2. ~YumServes(u, r)
    BY <1>4 DEF YumServes
  <2>3. IsFatal(a) /\ a.fatal = "UNKNOWN"
    BY <1>2, <2>1, Zenon
  <2> HIDE DEF a
  <2> QED
    BY <2>2, <2>3 DEF a
<1>5. CASE ~YumServes(u, r) /\ u.yum \notin {"absent", "denied"}
  <2>1. YumUsable(u) /\ u.yum # "denied" /\ YumFails(u, r)
    BY <1>5 DEF YumServes, YumUsable, YumFails, IsYum
  <2>2. a = Fatal(YumReturncode(o, u))
    BY <2>1 DEF YumRun
  <2>3. /\ YumReturncode(o, u) \in {"OK", "WARNING", "UNKNOWN"}
        /\ YumReturncode(o, u) = "OK" => u.yum = "locked" /\ o.noWarnOnLock
        /\ YumReturncode(o, u) = "WARNING" => u.yum = "locked" /\ ~o.noWarnOnLock
    BY DEF YumReturncode
  <2> QED
    BY <1>2, <1>5, <2>2, <2>3
<1> QED
  BY <1>3, <1>4, <1>5

\* Whichever moments its answers are of, the machine had this yum.
YumStays == plugin = "yum" => \A u \in past : IsYum(u) /\ u.form = world.form

LEMMA YumIsTheSame == ASSUME RunsYum PROVE Spec => []YumStays
<1>1. Init => YumStays
  BY DEF Init, YumStays, RunsYum
<1>2. PastInv /\ YumStays /\ [Next]_vars => YumStays'
  <2> SUFFICES ASSUME PastInv, YumStays, [Next]_vars, plugin = "yum", plugin' = "yum" PROVE YumStays'
    BY OnePlugin DEF YumStays
  <2>1. IsYum(world) /\ world \in past
    BY DEF PastInv, YumStays
  <2>2. CASE Request
    BY <2>1, <2>2 DEF Request, YumStays, RunsYum
  <2>3. CASE Change
    BY <2>1, <2>3 DEF Change, YumStays, RunsYum
  <2>4. CASE Conclude \/ TimeOut \/ UNCHANGED vars
    BY <2>4 DEF Conclude, TimeOut, vars, YumStays
  <2> QED
    BY <2>2, <2>3, <2>4 DEF Next
<1> QED
  BY <1>1, <1>2, PastIsReached, PTL DEF Spec

\* What yum is asked for.
LEMMA YumAsks ==
    ASSUME NEW o, NEW s, ~Exits(YumStep(o, s))
    PROVE  IF s = <<>> THEN YumStep(o, s) = Ask(IF o.all THEN "check-update" ELSE "--security check-update")
           ELSE /\ YumStep(o, s) = Ask("updateinfo") /\ ~o.all /\ Len(s) = 1
                /\ YumNeedsUpdateinfo(s[1]) /\ ~IsFatal(Last(s))
<1>1. \A x : Exits(Exit(x))
  BY DEF Exits, Exit
<1>2. \A a, n : Exits(YumAllUpdates(o, a)) /\ Exits(YumSecurityUpdates(o, a, n))
  BY <1>1 DEF YumAllUpdates, YumSecurityUpdates, YumTestSecurity
<1> QED
  BY <1>1, <1>2 DEF YumStep

\* What the answers are when a run ends: of one command that failed, or of those
\* that listed all updates, or the security updates and, if need be, the notices.
LEMMA YumHeard ==
    ASSUME RunsYum, plugin = "yum", PastInv, YumStays, Witnessed, Exits(YumStep(options, seen)),
           YumStep(options, seen).exit # "UNKNOWN"
    PROVE  LET s == YumStep(options, seen)
           IN  \/ \E u \in past : \E r : ~YumServes(u, r) /\ s.exit = YumRun(options, u, r).fatal
               \/ \E u \in past : options.all /\ s = YumAllUpdates(options, YumList(u, u.sec + u.other)) /\ YumServes(u, "check-update")
               \/ \E u, v \in past : \E notices :
                      /\ ~options.all /\ u.yum = "works" /\ v.yum = "works"
                      /\ IF YumNeedsUpdateinfo(YumList(u, u.sec)) THEN notices = YumNotices(v) ELSE v = u
                      /\ s = YumSecurityUpdates(options, YumList(u, u.sec), notices)
<1> DEFINE o == options
<1> DEFINE command == IF o.all THEN "check-update" ELSE "--security check-update"
<1>0. PICK S : seen \in Seq(S)
  BY DEF Witnessed
<1>1. \A x : Exits(Exit(x)) /\ Exit(x).exit = x /\ ~Exits(Ask(x)) /\ Ask(x).ask = x
  BY DEF Exits, Exit, Ask
<1>2. YumValid(o)
  BY <1>1 DEF YumStep
<1>3. YumStep(o, <<>>) = Ask(command)
  BY <1>2 DEF YumStep
<1>4. seen # <<>>
  BY <1>1, <1>3
<1>5. Len(seen) \in Nat /\ Len(seen) >= 1 /\ 1 \in 1..Len(seen) /\ Len(seen) \in 1..Len(seen) /\ Last(seen) = seen[Len(seen)]
  BY <1>0, <1>4 DEF Last
<1>6. SubSeq(seen, 1, 1 - 1) = <<>>
  BY <1>0, SubSeqEmpty
<1>7. PICK u \in past : seen[1] = YumRun(o, u, command)
  <2>1. PICK u \in past : \E w : seen[1] = Answer(plugin, o, u, Step(plugin, o, SubSeq(seen, 1, 1 - 1), w).ask)
    BY <1>5 DEF Witnessed
  <2>2. ASSUME NEW w PROVE Step(plugin, o, SubSeq(seen, 1, 1 - 1), w).ask = command
    <3>1. Step(plugin, o, SubSeq(seen, 1, 1 - 1), w) = YumStep(o, <<>>)
      BY <1>6 DEF RunsYum
    <3> QED
      BY <1>1, <1>3, <3>1
  <2> QED
    BY <2>1, <2>2 DEF RunsYum
<1> DEFINE Before == SubSeq(seen, 1, Len(seen) - 1)
<1>8. PICK x \in past : ~Exits(YumStep(o, Before)) /\ Last(seen) = YumRun(o, x, YumStep(o, Before).ask)
  BY <1>5 DEF Witnessed, RunsYum
<1>9. IsYum(u) /\ IsYum(x)
  BY DEF YumStays
<1>10. IF Before = <<>> THEN YumStep(o, Before).ask = command
       ELSE /\ YumStep(o, Before).ask = "updateinfo" /\ ~o.all /\ Len(Before) = 1
            /\ YumNeedsUpdateinfo(Before[1]) /\ ~IsFatal(Last(Before))
  BY <1>1, <1>8, YumAsks
<1>11. /\ Before = <<>> <=> Len(seen) = 1
       /\ Before # <<>> /\ Len(Before) = 1 => Before[1] = seen[1] /\ Last(Before) = seen[1] /\ Len(seen) = 2
  <2>1. CASE Len(seen) = 1
    BY <1>6, <2>1
  <2>2. CASE Len(seen) > 1
    <3>1. Len(seen) - 1 \in 1..Len(seen)
      BY <1>5, <2>2
    <3>2. /\ Len(Before) = Len(seen) - 1 /\ Before # <<>> /\ \A k \in 1..(Len(seen) - 1) : Before[k] = seen[k]
          /\ Last(Before) = seen[Len(seen) - 1]
      BY <1>0, <3>1, PrefixIs
    <3> QED
      BY <1>5, <2>2, <3>2
  <2>3. Len(seen) = 1 \/ Len(seen) > 1
    <3>1. \A n \in Nat : n >= 1 => n = 1 \/ n > 1
      OBVIOUS
    <3> QED
      BY <1>5, <3>1, Zenon
  <2> QED
    BY <2>1, <2>2, <2>3
<1> HIDE DEF Before
<1>12. CASE IsFatal(Last(seen))
  <2>1. YumStep(o, seen) = Exit(Last(seen).fatal)
    BY <1>2, <1>4, <1>12 DEF YumStep
  <2>2. ~YumServes(x, YumStep(o, Before).ask)
    <3> DEFINE r == YumStep(o, Before).ask
    <3>1. r \in {"check-update", "--security check-update", "updateinfo"}
      BY <1>10
    <3> HIDE DEF r
    <3>2. Last(seen) = YumRun(o, x, r)
      BY <1>8 DEF r
    <3> QED
      BY <1>9, <1>12, <3>1, <3>2, YumAnswers DEF r
  <2> QED
    BY <1>1, <1>8, <2>1, <2>2
<1>13. CASE ~IsFatal(Last(seen)) /\ o.all
  <2>1. Len(seen) = 1 /\ Last(seen) = seen[1]
    BY <1>5, <1>10, <1>11, <1>13
  <2>2. YumServes(u, "check-update") /\ seen[1] = YumList(u, u.sec + u.other)
    BY <1>7, <1>9, <1>13, <2>1, YumAnswers
  <2>3. YumStep(o, seen) = YumAllUpdates(o, seen[1])
    BY <1>2, <1>4, <1>13 DEF YumStep
  <2> QED
    BY <1>13, <2>2, <2>3
<1>14. CASE ~IsFatal(Last(seen)) /\ ~o.all
  <2>1. ~IsFatal(seen[1])
    BY <1>5, <1>10, <1>11, <1>14
  <2>2. u.yum = "works" /\ seen[1] = YumList(u, u.sec)
    BY <1>7, <1>9, <1>14, <2>1, YumAnswers DEF YumServes
  <2>3. YumStep(o, seen) = YumSecurityUpdates(o, seen[1], Last(seen)) /\ ~(Len(seen) = 1 /\ YumNeedsUpdateinfo(seen[1]))
    <3>1. YumStep(o, seen) = IF Len(seen) = 1 /\ YumNeedsUpdateinfo(seen[1]) THEN Ask("updateinfo")
                             ELSE YumSecurityUpdates(o, seen[1], Last(seen))
      BY <1>2, <1>4, <1>14 DEF YumStep
    <3> QED
      BY <1>1, <3>1
  <2>4. CASE Len(seen) = 1
    BY <1>14, <2>2, <2>3, <2>4
  <2>5. CASE Len(seen) # 1
    <3>1. YumNeedsUpdateinfo(seen[1]) /\ Last(seen) = YumRun(o, x, "updateinfo")
      BY <1>8, <1>10, <1>11, <2>5
    <3>2. x.yum = "works" /\ Last(seen) = YumNotices(x)
      BY <1>9, <1>14, <3>1, YumAnswers DEF YumServes
    <3> QED
      BY <1>14, <2>2, <2>3, <3>1, <3>2
  <2> QED
    BY <2>4, <2>5
<1> QED
  BY <1>12, <1>13, <1>14

\* OK of check_yum.py (PackageUpdates), for any number of updates: there were
\* none that fix security, at some moment of the run; none at all if that was
\* asked for; the running kernel was the newest, and yum could tell or another had
\* its lock and that was to be ignored.
THEOREM YumOkVouches ==
    ASSUME RunsYum PROVE Spec => [](plugin = "yum" => OkVouches)
<1> DEFINE P == plugin = "yum" => OkVouches
<1>1. Init => P
  BY DEF Init, OkVouches
<1>2. PastInv /\ YumStays /\ Witnessed /\ P /\ [Next]_vars => P'
  <2> SUFFICES ASSUME PastInv, YumStays, Witnessed, P, [Next]_vars, plugin = "yum", plugin' = "yum", status' = "OK"
               PROVE  \A c \in Claims(plugin', options', world') : \E u \in past' :
                          Holds(plugin', c, options', u) \/ Overlooks(plugin', c, options', u)
    BY OnePlugin DEF OkVouches
  <2>1. CASE Request \/ Change
    BY <2>1 DEF Request, Change, Running
  <2>2. CASE Conclude
    <3> DEFINE s == YumStep(options, seen)
    <3>1. /\ Exits(s) /\ s.exit = "OK" /\ world' = world /\ past' = past /\ options' = options
      BY <2>2 DEF Conclude, Now, RunsYum
    <3>2. world \in past /\ \A u \in past : IsYum(u) /\ YumClaims(options, u) = YumClaims(options, world)
      BY DEF PastInv, YumStays, YumClaims
    <3>3. options.all \in BOOLEAN /\ options.warnAny \in BOOLEAN /\ options.noWarnOnLock \in BOOLEAN
      BY DEF PastInv, RunsYum
    <3> DEFINE Told(c) == \E u \in past : YumHolds(c, options, u)
    <3>4. \A c \in YumClaims(options, world) :
              \/ c \in {"security", "kernel", "usable"}
              \/ c = "other" /\ (options.all \/ OthersCount(options, world))
      BY DEF YumClaims, OthersCount
    <3>5. \A u : /\ u.yum = "locked" /\ options.noWarnOnLock => \A c : YumHolds(c, options, u)
                 /\ u.sec = 0 => YumHolds("security", options, u)
                 /\ u.other = 0 => YumHolds("other", options, u)
                 /\ ~u.kernel => YumHolds("kernel", options, u)
                 /\ YumServes(u, IF options.all THEN "check-update" ELSE "--security check-update")
                       => YumHolds("usable", options, u)
      BY DEF YumHolds, YumServes
    <3>6. CASE \E u \in past : \E r : ~YumServes(u, r) /\ s.exit = YumRun(options, u, r).fatal
      <4>1. PICK u \in past : \E r : ~YumServes(u, r) /\ s.exit = YumRun(options, u, r).fatal
        BY <3>6
      <4>2. u.yum = "locked" /\ options.noWarnOnLock
        <5>1. PICK r : ~YumServes(u, r) /\ s.exit = YumRun(options, u, r).fatal
          BY <4>1
        <5>2. IsYum(u)
          BY <3>2
        <5> DEFINE a == YumRun(options, u, r)
        <5>3. a.fatal = "OK" => u.yum = "locked" /\ options.noWarnOnLock
          BY <5>1, <5>2, YumAnswers
        <5> HIDE DEF a, s
        <5>4. s.exit = a.fatal /\ s.exit = "OK"
          BY <3>1, <5>1 DEF a
        <5> QED
          BY <5>3, <5>4
      <4>3. \A c : YumHolds(c, options, u)
        BY <3>5, <4>2
      <4> HIDE DEF s
      <4> QED
        BY <3>1, <4>3 DEF RunsYum
    <3>7. CASE \E u \in past : options.all /\ s = YumAllUpdates(options, YumList(u, u.sec + u.other)) /\ YumServes(u, "check-update")
      <4>1. PICK u \in past : /\ options.all /\ YumServes(u, "check-update")
                              /\ s = YumAllUpdates(options, YumList(u, u.sec + u.other))
        BY <3>7
      <4>2. ~u.kernel /\ u.sec = 0 /\ u.other = 0
        BY <3>1, <3>2, <4>1, YumAllJudged
      <4> HIDE DEF s
      <4> QED
        BY <3>1, <3>4, <3>5, <4>1, <4>2 DEF RunsYum
    <3>8. CASE \E u, v \in past : \E notices :
                   /\ ~options.all /\ u.yum = "works" /\ v.yum = "works"
                   /\ IF YumNeedsUpdateinfo(YumList(u, u.sec)) THEN notices = YumNotices(v) ELSE v = u
                   /\ s = YumSecurityUpdates(options, YumList(u, u.sec), notices)
      <4>1. PICK u \in past, v \in past :
                 \E notices : /\ ~options.all /\ u.yum = "works" /\ v.yum = "works"
                              /\ IF YumNeedsUpdateinfo(YumList(u, u.sec)) THEN notices = YumNotices(v) ELSE v = u
                              /\ s = YumSecurityUpdates(options, YumList(u, u.sec), notices)
        BY <3>8
      <4>2. /\ ~u.kernel /\ (u.sec = 0 \/ v.sec = 0)
            /\ OthersCount(options, u) => u.other = 0 \/ v.other = 0
        BY <3>1, <3>2, <3>3, <4>1, YumSecurityJudged
      <4>3. OthersCount(options, u) <=> OthersCount(options, world)
        BY DEF YumStays, OthersCount
      <4> HIDE DEF s
      <4> QED
        BY <3>1, <3>4, <3>5, <4>1, <4>2, <4>3 DEF RunsYum, YumServes
    <3>9. s.exit # "UNKNOWN"
      BY <3>1
    <3> QED
      BY <3>1, <3>6, <3>7, <3>8, <3>9, YumHeard
  <2>3. CASE TimeOut
    BY <2>3 DEF TimeOut, RunsYum, YumTimeout
  <2>4. CASE UNCHANGED vars
    BY <2>4 DEF vars, OkVouches
  <2> QED
    BY <2>1, <2>2, <2>3, <2>4 DEF Next
<1>3. Spec => []YumStays
  BY YumIsTheSame
<1> QED
  BY <1>1, <1>2, <1>3, PastIsReached, AnswersAreWitnessed, PTL DEF Spec

\* WARNING and CRITICAL of check_yum.py (PackageUpdates), but for its timeout:
\* there was an update, the kernel was not the newest or the lock was held, or
\* yum printed what the plugin does not know.
THEOREM YumAlarmsAreReal ==
    ASSUME RunsYum PROVE Spec => [](plugin = "yum" => AlarmsAreReal)
<1> DEFINE P == plugin = "yum" => AlarmsAreReal
<1>1. Init => P
  BY DEF Init, AlarmsAreReal
<1>2. PastInv /\ YumStays /\ Witnessed /\ P /\ [Next]_vars => P'
  <2> SUFFICES ASSUME PastInv, YumStays, Witnessed, P, [Next]_vars, plugin = "yum", plugin' = "yum" PROVE AlarmsAreReal'
    BY OnePlugin
  <2>1. CASE Request \/ Change
    BY <2>1 DEF Request, Change, Running, AlarmsAreReal
  <2>2. CASE Conclude
    <3> DEFINE s == YumStep(options, seen)
    <3>1. /\ Exits(s) /\ status' = s.exit /\ world' = world /\ past' = past /\ options' = options
      BY <2>2 DEF Conclude, Now, RunsYum
    <3>2. world \in past /\ \A u \in past : IsYum(u) /\ YumClaims(options, u) = YumClaims(options, world)
      BY DEF PastInv, YumStays, YumClaims
    <3>3. options.all \in BOOLEAN /\ options.warnAny \in BOOLEAN /\ options.noWarnOnLock \in BOOLEAN
      BY DEF PastInv, RunsYum
    <3> SUFFICES ASSUME s.exit \in {"WARNING", "CRITICAL"}
                 PROVE  \E u \in past : YumExcuses(u) \/ \E c \in YumClaims(options, world) : ~YumHolds(c, options, u)
      BY <3>1 DEF AlarmsAreReal, RunsYum
    <3>4. /\ {"security", "kernel", "usable"} \subseteq YumClaims(options, world)
          /\ options.all \/ OthersCount(options, world) => "other" \in YumClaims(options, world)
      BY DEF YumClaims, OthersCount
    <3>5. \A u : ~(u.yum = "locked" /\ options.noWarnOnLock) =>
                 /\ u.sec # 0 => ~YumHolds("security", options, u)
                 /\ u.other # 0 => ~YumHolds("other", options, u)
                 /\ u.kernel => ~YumHolds("kernel", options, u)
                 /\ u.yum = "locked" => ~YumHolds("usable", options, u)
      BY DEF YumHolds
    <3>6. CASE \E u \in past : \E r : ~YumServes(u, r) /\ s.exit = YumRun(options, u, r).fatal
      <4>1. PICK u \in past : \E r : ~YumServes(u, r) /\ s.exit = YumRun(options, u, r).fatal
        BY <3>6
      <4>2. u.yum = "locked" /\ ~options.noWarnOnLock
        <5>1. PICK r : ~YumServes(u, r) /\ s.exit = YumRun(options, u, r).fatal
          BY <4>1
        <5>2. IsYum(u)
          BY <3>2
        <5> DEFINE a == YumRun(options, u, r)
        <5>3. a.fatal \in {"OK", "WARNING", "UNKNOWN"} /\ (a.fatal = "WARNING" => u.yum = "locked" /\ ~options.noWarnOnLock)
          BY <5>1, <5>2, YumAnswers
        <5>4. s.exit = a.fatal
          BY <5>1 DEF a
        <5> HIDE DEF a, s
        <5> QED
          BY <5>3, <5>4
      <4> HIDE DEF s
      <4> QED
        BY <3>4, <3>5, <4>2
    <3>7. CASE \E u \in past : options.all /\ s = YumAllUpdates(options, YumList(u, u.sec + u.other)) /\ YumServes(u, "check-update")
      <4>1. PICK u \in past : options.all /\ s = YumAllUpdates(options, YumList(u, u.sec + u.other)) /\ YumServes(u, "check-update")
        BY <3>7
      <4>2. u.kernel \/ u.form = "foreign" \/ u.sec # 0 \/ u.other # 0
        BY <3>1, <3>2, <4>1, YumAllJudged
      <4> HIDE DEF s
      <4> QED
        BY <3>4, <3>5, <4>1, <4>2 DEF YumExcuses, YumServes
    <3>8. CASE \E u, v \in past : \E notices :
                   /\ ~options.all /\ u.yum = "works" /\ v.yum = "works"
                   /\ IF YumNeedsUpdateinfo(YumList(u, u.sec)) THEN notices = YumNotices(v) ELSE v = u
                   /\ s = YumSecurityUpdates(options, YumList(u, u.sec), notices)
      <4>1. PICK u \in past, v \in past :
                 \E notices : /\ ~options.all /\ u.yum = "works" /\ v.yum = "works"
                              /\ IF YumNeedsUpdateinfo(YumList(u, u.sec)) THEN notices = YumNotices(v) ELSE v = u
                              /\ s = YumSecurityUpdates(options, YumList(u, u.sec), notices)
        BY <3>8
      <4>2. \/ u.kernel \/ u.form = "foreign" \/ u.sec # 0 \/ v.sec # 0
            \/ OthersCount(options, u) /\ (u.other # 0 \/ v.other # 0)
        BY <3>1, <3>2, <3>3, <4>1, YumSecurityJudged
      <4>3. OthersCount(options, u) <=> OthersCount(options, world)
        BY DEF YumStays, OthersCount
      <4> HIDE DEF s
      <4> QED
        BY <3>4, <3>5, <4>1, <4>2, <4>3 DEF YumExcuses
    <3>9. s.exit # "UNKNOWN"
      OBVIOUS
    <3> QED
      BY <3>1, <3>6, <3>7, <3>8, <3>9, YumHeard
  <2>3. CASE TimeOut
    BY <2>3 DEF TimeOut, AlarmsAreReal
  <2>4. CASE UNCHANGED vars
    BY <2>4 DEF vars, AlarmsAreReal
  <2> QED
    BY <2>1, <2>2, <2>3, <2>4 DEF Next
<1>3. Spec => []YumStays
  BY YumIsTheSame
<1> QED
  BY <1>1, <1>2, <1>3, PastIsReached, AnswersAreWitnessed, PTL DEF Spec

-----------------------------------------------------------------------------
(* check_dhcpd_leases.py (DhcpLeases), for any journal and any lists.         *)
-----------------------------------------------------------------------------
\* A journal of leases, of any addresses, machines and length.
IsJournal(blocks) ==
    \E Ips, Hosts, Macs :
        blocks \in Seq([ip : Ips \ {"UNKNOWN"}, state : {"active", "free"}, host : Hosts,
                       mac : Macs \ {"A-A", "B-B"}, nested : BOOLEAN, odd : BOOLEAN])

\* The instance of PluginRun in which check_dhcpd_leases.py runs, among other
\* plugins.  Its lists name machines: not what it says for one it knows no name
\* or address of.
RunsDhcpd ==
    /\ \A o, s, w : Step("dhcpd", o, s, w) = LeaseStep(o, s)
    /\ \A o, w, r : Answer("dhcpd", o, w, r) = OpenLeaseFile(w) /\ Effect("dhcpd", o, w, r) = w
    /\ \A w : Changes("dhcpd", w) = {}
    /\ \A o, w : Claims("dhcpd", o, w) = LeaseClaims(o, w) /\ Excuses("dhcpd", o, w) = LeaseExcuses(o, w)
    /\ \A c, o, w : /\ Holds("dhcpd", c, o, w) = LeaseHolds(c, o, w)
                    /\ Overlooks("dhcpd", c, o, w) = LeaseOverlooks(c, o, w)
    /\ Timeout("dhcpd") = LeaseTimeout
    /\ \A w \in Worlds("dhcpd") : w.file \in {"leases", "absent", "foreign"} /\ IsJournal(w.blocks)
    /\ \A o \in Options("dhcpd") :
          {"none", "UNKNOWN"} \cap (o.hostWhite \cup o.hostBlack \cup o.macWhite \cup o.macBlack) = {}

\* The block that is read of an address: the last that is active and in a form
\* that is known.
IsRead(b) == b.state = "active" /\ GetIp(b) # "UNKNOWN"
InForce(blocks, i) ==
    /\ i \in DOMAIN blocks /\ IsRead(blocks[i])
    /\ \A j \in DOMAIN blocks : j > i => ~(IsRead(blocks[j]) /\ blocks[j].ip = blocks[i].ip)
Entry(b) == [ip |-> GetIp(b), host |-> GetHostname(b), mac |-> GetMac(b)]

\* The address book that is built block by block has those, no other.
LEMMA BookOfLeases ==
    ASSUME NEW blocks, IsJournal(blocks)
    PROVE  /\ DOMAIN blocks \subseteq Int
           /\ \A i : InForce(blocks, i) => Entry(blocks[i]) \in ParseLeases(blocks)
           /\ \A a \in ParseLeases(blocks) : \E i : InForce(blocks, i) /\ a = Entry(blocks[i])
<1> DEFINE taken == {i \in DOMAIN blocks : blocks[i].state = "active" /\ GetIp(blocks[i]) # "UNKNOWN"}
<1> DEFINE lastOf == {i \in taken : \A j \in taken : blocks[j].ip = blocks[i].ip => j <= i}
<1>1. DOMAIN blocks \subseteq Int
  BY DEF IsJournal
<1>2. ParseLeases(blocks) = {Entry(blocks[i]) : i \in lastOf}
  BY DEF ParseLeases, Entry
<1>3. \A i : InForce(blocks, i) <=> i \in lastOf
  <2>1. ASSUME NEW i, InForce(blocks, i) PROVE i \in lastOf
    BY <1>1, <2>1 DEF InForce, IsRead
  <2>2. ASSUME NEW i \in lastOf PROVE InForce(blocks, i)
    <3> SUFFICES ASSUME NEW j \in DOMAIN blocks, j > i, blocks[j].ip = blocks[i].ip, IsRead(blocks[j])
                 PROVE  FALSE
      BY DEF InForce, IsRead
    <3>1. j \in taken
      BY DEF IsRead
    <3>2. j <= i
      BY <3>1
    <3> QED
      BY <1>1, <3>2
  <2> QED
    BY <2>1, <2>2
<1> HIDE DEF lastOf
<1> QED
  BY <1>1, <1>2, <1>3

\* The fields of the blocks of a journal.
LEMMA JournalBlocks ==
    ASSUME NEW blocks, IsJournal(blocks)
    PROVE  \A i \in DOMAIN blocks : /\ blocks[i].state \in {"active", "free"} /\ blocks[i].ip # "UNKNOWN"
                                    /\ blocks[i].mac \notin {"A-A", "B-B"} /\ blocks[i].odd \in BOOLEAN
<1> DEFINE Blocks(I, H, M) == [ip : I \ {"UNKNOWN"}, state : {"active", "free"}, host : H,
                               mac : M \ {"A-A", "B-B"}, nested : BOOLEAN, odd : BOOLEAN]
<1>1. PICK I, H, M : blocks \in Seq(Blocks(I, H, M))
  BY DEF IsJournal
<1>2. \A b \in Blocks(I, H, M) : /\ b.state \in {"active", "free"} /\ b.ip # "UNKNOWN"
                                 /\ b.mac \notin {"A-A", "B-B"} /\ b.odd \in BOOLEAN
  OBVIOUS
<1> HIDE DEF Blocks
<1>3. \A i \in DOMAIN blocks : blocks[i] \in Blocks(I, H, M)
  BY <1>1
<1> QED
  BY <1>2, <1>3

\* The list of a machine's names, or of its hardware addresses, that lets it in.
Listed(given, white, black) == (white # {} => given \in white) /\ given \notin black

\* What is made of a block that is read against the lists: name and address both
\* let the machine in, or a black list is known to fail.
LEMMA LeaseIsJudged ==
    ASSUME NEW o, NEW w, IsJournal(w.blocks), NEW i \in DOMAIN w.blocks, IsRead(w.blocks[i]),
           {"none", "UNKNOWN"} \cap (o.hostWhite \cup o.hostBlack \cup o.macWhite \cup o.macBlack) = {}
    PROVE  /\ UnauthorizedLeases(o, {Entry(w.blocks[i])}) = {} =>
                \A x \in {"host", "mac"} : LeaseHolds(<<i, x>>, o, w) \/ LeaseOverlooks(<<i, x>>, o, w)
           /\ (/\ \A x \in {"host", "mac"} : LeaseHolds(<<i, x>>, o, w)
               /\ w.blocks[i].nested => w.blocks[i].host \notin o.hostWhite
               /\ \A m \in o.macWhite : m = MacMeant(m))
              => UnauthorizedLeases(o, {Entry(w.blocks[i])}) = {}
<1> DEFINE b == w.blocks[i]
<1>1. /\ Entry(b).host = GetHostname(b) /\ Entry(b).mac = GetMac(b)
      /\ GetHostname(b) = IF b.nested \/ b.host = "none" THEN "UNKNOWN" ELSE b.host
      /\ GetMac(b) = IF b.mac = "none" THEN "UNKNOWN" ELSE b.mac
  BY DEF Entry, GetHostname, GetMac
<1>2. b.state # "free" /\ b.mac \notin {"A-A", "B-B"}
  BY JournalBlocks DEF IsRead
<1>3. \A x \in {"host", "mac"} : <<i, x>> # TheFile /\ <<i, x>>[1] = i /\ <<i, x>>[2] = x
  <2>1. \A x \in {"host", "mac"} : x # "file"
    OBVIOUS
  <2>2. \A x : <<i, x>> = <<0, "file">> => x = "file"
    OBVIOUS
  <2> QED
    BY <2>1, <2>2 DEF TheFile
<1>4. LeaseHolds(<<i, "host">>, o, w) <=> Listed(b.host, o.hostWhite, o.hostBlack)
  BY <1>2, <1>3, Zenon DEF LeaseHolds, Listed
<1>5. LeaseHolds(<<i, "mac">>, o, w) <=> /\ o.macWhite # {} => \E m \in o.macWhite : MacMeant(m) = b.mac
                                        /\ \A m \in o.macBlack : MacMeant(m) # b.mac
  BY <1>2, <1>3, Zenon DEF LeaseHolds
<1>6. b.nested /\ b.host \in o.hostBlack /\ o.hostWhite = {} => LeaseOverlooks(<<i, "host">>, o, w)
  BY <1>3, Zenon DEF LeaseOverlooks
<1>7. (o.macWhite # {} => b.mac \in o.macWhite) /\ (\E m \in o.macBlack : m # MacMeant(m) /\ b.mac = MacMeant(m))
        => LeaseOverlooks(<<i, "mac">>, o, w)
  BY <1>3, Zenon DEF LeaseOverlooks
<1> DEFINE e == Entry(b)
<1>8. UnauthorizedLeases(o, {e}) = {} <=> /\ Listed(e.mac, o.macWhite, o.macBlack)
                                         /\ Listed(e.host, o.hostWhite, o.hostBlack)
  <2> HIDE DEF e
  <2> QED
    BY DEF UnauthorizedLeases, Listed
<1>9. \A m : \/ MacMeant(m) = m
             \/ m \in {"A-A", "B-B"} /\ MacMeant(m) \in {"AA", "BB"}
  BY DEF MacMeant
<1> HIDE DEF b, e
<1>10. ASSUME Listed(e.host, o.hostWhite, o.hostBlack)
       PROVE  LeaseHolds(<<i, "host">>, o, w) \/ LeaseOverlooks(<<i, "host">>, o, w)
  BY <1>1, <1>4, <1>6, <1>10 DEF Listed, e
<1>11. ASSUME Listed(e.mac, o.macWhite, o.macBlack)
       PROVE  LeaseHolds(<<i, "mac">>, o, w) \/ LeaseOverlooks(<<i, "mac">>, o, w)
  <2>1. o.macWhite # {} => b.mac \in o.macWhite
    BY <1>1, <1>11 DEF Listed, e
  <2>2. \A m \in o.macBlack : m # b.mac
    BY <1>1, <1>11 DEF Listed, e
  <2>3. MacMeant(b.mac) = b.mac
    BY <1>2, <1>9
  <2> QED
    BY <1>5, <1>7, <2>1, <2>2, <2>3
<1>12. ASSUME LeaseHolds(<<i, "host">>, o, w), b.nested => b.host \notin o.hostWhite
       PROVE  Listed(e.host, o.hostWhite, o.hostBlack)
  BY <1>1, <1>4, <1>12 DEF Listed, e
<1>13. ASSUME LeaseHolds(<<i, "mac">>, o, w), \A m \in o.macWhite : m = MacMeant(m)
       PROVE  Listed(e.mac, o.macWhite, o.macBlack)
  <2>1. o.macWhite # {} => b.mac \in o.macWhite
    BY <1>5, <1>13
  <2>2. b.mac \notin o.macBlack
    BY <1>2, <1>5, <1>9, <1>13
  <2> QED
    BY <1>1, <2>1, <2>2 DEF Listed, e
<1> QED
  BY <1>8, <1>10, <1>11, <1>12, <1>13 DEF b, e

LEMMA UnauthorizedOneByOne ==
    ASSUME NEW o, NEW addresses
    PROVE  UnauthorizedLeases(o, addresses) = {} <=> \A a \in addresses : UnauthorizedLeases(o, {a}) = {}
BY DEF UnauthorizedLeases

LEMMA DhcpSystem ==
    ASSUME RunsDhcpd
    PROVE  /\ \A w : Reached("dhcpd", w) => w \in Worlds("dhcpd")
           /\ ClaimsStay("dhcpd") /\ OneQuestion("dhcpd")
           /\ \A o, w : Exits(LeaseStep(o, <<>>)) => LeaseStep(o, <<>>).exit = "UNKNOWN"
           /\ \A o, w : LET a == OpenLeaseFile(w)
                            s == LeaseStep(o, <<a>>)
                        IN  ~Exits(LeaseStep(o, <<>>)) =>
                              IF w.file = "leases" THEN s = TestLeases(o, [leases |-> w.blocks])
                              ELSE w.file \in {"absent", "foreign"} => s = Exit("CRITICAL")
<1>1. \A w : Reached("dhcpd", w) => w \in Worlds("dhcpd")
  BY DEF Reached, Closed, RunsDhcpd
<1>2. ClaimsStay("dhcpd")
  BY DEF ClaimsStay, RunsDhcpd
<1>3. ASSUME NEW o, NEW s
      PROVE  /\ LeaseValid(o) /\ s = <<>> => LeaseStep(o, s) = Ask("lease file")
             /\ ~LeaseValid(o) => LeaseStep(o, s) = Exit("UNKNOWN")
             /\ LeaseValid(o) /\ s # <<>> => LeaseStep(o, s) = IF IsFatal(s[1]) THEN Exit(s[1].fatal) ELSE TestLeases(o, s[1])
  BY DEF LeaseStep
<1>4. Exits(Exit("UNKNOWN")) /\ ~Exits(Ask("lease file")) /\ Exit("UNKNOWN").exit = "UNKNOWN"
  BY DEF Exits, Exit, Ask
<1>5. \A x : Exits(Exit(x))
  BY DEF Exits, Exit
<1>6. OneQuestion("dhcpd")
  <2>1. ASSUME NEW o, NEW s, s # <<>> PROVE Exits(LeaseStep(o, s))
    BY <1>3, <1>5, <2>1 DEF TestLeases
  <2> QED
    BY <2>1 DEF OneQuestion, RunsDhcpd
<1>7. ASSUME NEW w
      PROVE  IF w.file = "leases" THEN OpenLeaseFile(w) = [leases |-> w.blocks]
             ELSE w.file \in {"absent", "foreign"} => OpenLeaseFile(w) = Fatal("CRITICAL")
  BY DEF OpenLeaseFile
<1>8. IsFatal(Fatal("CRITICAL")) /\ Fatal("CRITICAL").fatal = "CRITICAL" /\ \A x : ~IsFatal([leases |-> x])
  BY DEF IsFatal, Fatal
<1>9. ASSUME NEW o, NEW w, ~Exits(LeaseStep(o, <<>>))
      PROVE  LET s == LeaseStep(o, <<OpenLeaseFile(w)>>)
             IN  IF w.file = "leases" THEN s = TestLeases(o, [leases |-> w.blocks])
                 ELSE w.file \in {"absent", "foreign"} => s = Exit("CRITICAL")
  <2> DEFINE a == OpenLeaseFile(w)
  <2> HIDE DEF a
  <2>1. <<a>> # <<>> /\ <<a>>[1] = a
    OBVIOUS
  <2>2. LeaseStep(o, <<a>>) = IF IsFatal(a) THEN Exit(a.fatal) ELSE TestLeases(o, a)
    BY <1>3, <1>4, <1>9, <2>1
  <2> QED
    BY <1>7, <1>8, <2>2 DEF a
<1>10. \A o : Exits(LeaseStep(o, <<>>)) => LeaseStep(o, <<>>).exit = "UNKNOWN"
  BY <1>3, <1>4
<1> QED
  BY <1>1, <1>2, <1>6, <1>9, <1>10

\* OK of check_dhcpd_leases.py (DhcpLeases): the lease in force of each address,
\* of any number in the file, is of a machine that the lists allow by its name and
\* by its hardware address, as the help has them given; but for a block in a form
\* it does not read, a name behind a statement in braces that is on a black list,
\* and a hardware address that the black list gives with dashes.
THEOREM LeaseOkVouches ==
    ASSUME RunsDhcpd PROVE Spec => [](plugin = "dhcpd" => OkVouches)
<1>1. JudgesOneAnswer("dhcpd")
  <2>1. NotUnasked("dhcpd") /\ Timeout("dhcpd") # "OK"
    BY DhcpSystem DEF NotUnasked, RunsDhcpd, LeaseTimeout
  <2>2. JudgesTheAnswer("dhcpd")
    <3> SUFFICES ASSUME NEW o \in Options("dhcpd"), NEW u, Reached("dhcpd", u), ~Exits(LeaseStep(o, <<>>)),
                        LeaseStep(o, <<OpenLeaseFile(u)>>).exit = "OK", NEW c \in LeaseClaims(o, u)
                 PROVE  LeaseHolds(c, o, u) \/ LeaseOverlooks(c, o, u)
      BY DEF JudgesTheAnswer, RunsDhcpd, NotMissed
    <3>1. u.file \in {"leases", "absent", "foreign"} /\ IsJournal(u.blocks)
      BY DhcpSystem DEF RunsDhcpd
    <3>2. u.file = "leases" /\ TestLeases(o, [leases |-> u.blocks]).exit = "OK"
      BY <3>1, DhcpSystem DEF Exit
    <3>3. UnauthorizedLeases(o, ParseLeases(u.blocks)) = {}
      BY <3>2 DEF TestLeases, Exit, If
    <3>4. CASE c = TheFile
      BY <3>2, <3>4 DEF LeaseHolds
    <3>5. CASE c # TheFile
      <4>1. PICK i \in DOMAIN u.blocks, x \in {"host", "mac"} :
                 c = <<i, x>> /\ \A j \in DOMAIN u.blocks : u.blocks[j].ip = u.blocks[i].ip => j <= i
        BY <3>5 DEF LeaseClaims
      <4>2. /\ u.blocks[i].state \in {"active", "free"} /\ u.blocks[i].ip # "UNKNOWN" /\ u.blocks[i].odd \in BOOLEAN
            /\ c[1] = i
        BY <3>1, <4>1, JournalBlocks
      <4>3. CASE u.blocks[i].state = "free"
        BY <3>5, <4>2, <4>3, Zenon DEF LeaseHolds
      <4>4. CASE u.blocks[i].odd
        BY <3>5, <4>2, <4>4, Zenon DEF LeaseOverlooks
      <4>5. CASE u.blocks[i].state = "active" /\ ~u.blocks[i].odd
        <5>1. InForce(u.blocks, i) /\ IsRead(u.blocks[i])
          BY <3>1, <4>1, <4>2, <4>5, BookOfLeases DEF InForce, IsRead, GetIp
        <5>2. UnauthorizedLeases(o, {Entry(u.blocks[i])}) = {}
          BY <3>1, <3>3, <5>1, BookOfLeases, UnauthorizedOneByOne
        <5> QED
          BY <3>1, <4>1, <5>1, <5>2, LeaseIsJudged DEF RunsDhcpd
      <4> QED
        BY <4>2, <4>3, <4>4, <4>5
    <3> QED
      BY <3>4, <3>5
  <2> QED
    BY <2>1, <2>2, DhcpSystem DEF JudgesOneAnswer
<1>2. plugin = "dhcpd" => JudgesOneAnswer(plugin)
  BY <1>1
<1> QED
  BY <1>2, OneQuestionVouches, PTL

\* CRITICAL of check_dhcpd_leases.py (DhcpLeases): there is no lease file, or a
\* lease in force is of a machine that the lists do not allow; or one that was
\* released is taken to be in force, a name has been lost, or the white list
\* gives a hardware address with dashes.
THEOREM LeaseAlarmsAreReal ==
    ASSUME RunsDhcpd PROVE Spec => [](plugin = "dhcpd" => AlarmsAreReal)
<1>1. AlarmsByOneAnswer("dhcpd")
  <2>1. AlarmsUnasked("dhcpd")
    BY DhcpSystem DEF AlarmsUnasked, RunsDhcpd
  <2>2. AlarmsByTheAnswer("dhcpd")
    <3> SUFFICES ASSUME NEW o \in Options("dhcpd"), NEW u, Reached("dhcpd", u), ~Exits(LeaseStep(o, <<>>)),
                        LeaseStep(o, <<OpenLeaseFile(u)>>).exit # "OK"
                 PROVE  Amiss("dhcpd", o, u)
      BY DEF AlarmsByTheAnswer, RunsDhcpd
    <3>1. u.file \in {"leases", "absent", "foreign"} /\ IsJournal(u.blocks)
      BY DhcpSystem DEF RunsDhcpd
    <3>2. Amiss("dhcpd", o, u) <=> LeaseExcuses(o, u) \/ \E c \in LeaseClaims(o, u) : ~LeaseHolds(c, o, u)
      BY DEF Amiss, RunsDhcpd
    <3>3. CASE u.file # "leases"
      <4>1. TheFile \in LeaseClaims(o, u) /\ ~LeaseHolds(TheFile, o, u)
        BY <3>3 DEF LeaseClaims, LeaseHolds
      <4> QED
        BY <3>2, <4>1
    <3>4. CASE u.file = "leases"
      <4>1. TestLeases(o, [leases |-> u.blocks]).exit # "OK"
        BY <3>4, DhcpSystem
      <4>2. UnauthorizedLeases(o, ParseLeases(u.blocks)) # {}
        BY <4>1 DEF TestLeases, Exit, If
      <4>3. PICK a \in ParseLeases(u.blocks) : UnauthorizedLeases(o, {a}) # {}
        BY <4>2, UnauthorizedOneByOne
      <4>4. PICK i : InForce(u.blocks, i) /\ a = Entry(u.blocks[i])
        BY <3>1, BookOfLeases
      <4>5. i \in DOMAIN u.blocks /\ DOMAIN u.blocks \subseteq Int /\ IsRead(u.blocks[i])
        BY <3>1, <4>4 DEF IsJournal, InForce
      <4>6. CASE u.blocks[i].nested /\ u.blocks[i].host \in o.hostWhite
        <5>1. u.blocks[i] \in Range(u.blocks)
          BY <4>5 DEF Range
        <5> QED
          BY <3>2, <4>6, <5>1 DEF LeaseExcuses
      <4>7. CASE \E j \in DOMAIN u.blocks : j > i /\ u.blocks[j].ip = u.blocks[i].ip
        <5>1. PICK j \in DOMAIN u.blocks : j > i /\ u.blocks[j].ip = u.blocks[i].ip
          BY <4>7
        <5>2. u.blocks[j].state \in {"active", "free"} /\ u.blocks[j].ip # "UNKNOWN"
          BY <3>1, JournalBlocks
        <5>3. (u.blocks[j].state = "free" \/ u.blocks[j].odd) /\ u.blocks[i].state = "active" /\ i < j
          BY <4>4, <4>5, <5>1, <5>2 DEF InForce, IsRead, GetIp
        <5> QED
          BY <3>2, <4>5, <5>1, <5>3 DEF LeaseExcuses
      <4>8. CASE \E m \in o.macWhite : m # MacMeant(m)
        BY <3>2, <4>8 DEF LeaseExcuses
      <4>9. CASE /\ u.blocks[i].nested => u.blocks[i].host \notin o.hostWhite
                 /\ \A j \in DOMAIN u.blocks : u.blocks[j].ip = u.blocks[i].ip => ~(j > i)
                 /\ \A m \in o.macWhite : m = MacMeant(m)
        <5>1. \A j \in DOMAIN u.blocks : u.blocks[j].ip = u.blocks[i].ip => j <= i
          BY <4>5, <4>9
        <5>2. <<i, "host">> \in LeaseClaims(o, u) /\ <<i, "mac">> \in LeaseClaims(o, u)
          BY <4>5, <5>1 DEF LeaseClaims
        <5>3. \E x \in {"host", "mac"} : ~LeaseHolds(<<i, x>>, o, u)
          BY <3>1, <4>3, <4>4, <4>5, <4>9, LeaseIsJudged DEF RunsDhcpd
        <5> QED
          BY <3>2, <5>2, <5>3
      <4> QED
        BY <4>6, <4>7, <4>8, <4>9
    <3> QED
      BY <3>3, <3>4
  <2> QED
    BY <2>1, <2>2, DhcpSystem DEF AlarmsByOneAnswer
<1>2. plugin = "dhcpd" => AlarmsByOneAnswer(plugin)
  BY <1>1
<1> QED
  BY <1>2, OneQuestionAlarms, PTL

-----------------------------------------------------------------------------
(* The plugins, options and systems that TLC runs are such.                   *)

\* The functions that TLC runs (MCPluginRun), of which a run may use a part.
TheInstance ==
    /\ \A p : Options(p) = AllOptions(p) /\ Worlds(p) = AllWorlds(p) /\ Timeout(p) = AllTimeout(p)
    /\ \A p, w : Changes(p, w) = AllChanges(p, w)
    /\ \A p, o, s, w : Step(p, o, s, w) = AllStep(p, o, s, w)
    /\ \A p, o, w, r : Answer(p, o, w, r) = AllAnswer(p, o, w, r) /\ Effect(p, o, w, r) = AllEffect(p, o, w, r)
    /\ \A p, o, w : Claims(p, o, w) = AllClaims(p, o, w) /\ Excuses(p, o, w) = AllExcuses(p, o, w)
    /\ \A p, o, w : Deeds(p, o, w) = AllDeeds(p, o, w)
    /\ \A p, c, o, w : Holds(p, c, o, w) = AllHolds(p, c, o, w) /\ Overlooks(p, c, o, w) = AllOverlooks(p, c, o, w)

\* Which family a plugin is of.
OfNoOther(p) ==
    p \notin ZaloniPlugins /\ p \notin YarnPlugins /\ p \notin PagePlugins /\ p \notin DataPlugins /\ p \notin CiPlugins
    /\ p \notin AwsPlugins /\ p \notin LogPlugins

LEMMA Families ==
    /\ "lsi" \in HostPlugins /\ "lsi" \notin GitPlugins /\ "lsi" \notin ToolPlugins
    /\ \A p \in HBaseWriters \cup {"cs_write"} \cup RabbitPlugins : p \notin HostPlugins /\ OfNoOther(p)
    /\ \A p \in HBaseWriters : p \in TablePlugins /\ p \notin ContainerPlugins /\ p \notin RabbitPlugins
    /\ "cs_write" \in ContainerPlugins /\ "cs_write" \notin TablePlugins /\ "cs_write" \notin RabbitPlugins
    /\ \A p \in RabbitPlugins : p \notin TablePlugins /\ p \notin ContainerPlugins
<1>1. "lsi" \in HostPlugins /\ "lsi" \notin GitPlugins /\ "lsi" \notin ToolPlugins
  BY DEF HostPlugins, GitPlugins, ToolPlugins
<1>2. \A p \in HBaseWriters \cup {"cs_write"} \cup RabbitPlugins :
          p \notin HostPlugins /\ p \notin ZaloniPlugins /\ p \notin YarnPlugins /\ p \notin PagePlugins /\ p \notin DataPlugins
          /\ p \notin LogPlugins
  BY DEF HBaseWriters, RabbitPlugins, RabbitRest, HostPlugins, GitPlugins, ToolPlugins, ZaloniPlugins, YarnPlugins, PagePlugins,
         DataPlugins, BlueTalonCounts, LogPlugins
<1>3. \A p \in HBaseWriters \cup {"cs_write"} \cup RabbitPlugins : p \notin CiPlugins /\ p \notin AwsPlugins
  BY DEF HBaseWriters, RabbitPlugins, RabbitRest, CiPlugins, JenkinsLib, JenkinsRest, AwsPlugins, ReportPlugins, KeyPlugins
<1>4. /\ \A p \in HBaseWriters : p \in TablePlugins /\ p \notin ContainerPlugins /\ p \notin RabbitPlugins
      /\ "cs_write" \in ContainerPlugins /\ "cs_write" \notin TablePlugins /\ "cs_write" \notin RabbitPlugins
      /\ \A p \in RabbitPlugins : p \notin TablePlugins /\ p \notin ContainerPlugins
  BY DEF HBaseWriters, RabbitPlugins, RabbitRest, TablePlugins, ContainerPlugins, ConsulPlugins, SwarmInfo, Listings, Versions
<1> QED
  BY <1>1, <1>2, <1>3, <1>4 DEF OfNoOther

LEMMA InstanceRunsWriters ==
    ASSUME TheInstance PROVE RunsWriters
<1>1. \A p \in HBaseWriters \cup {"cs_write", "rmq_publish"} : Timeout(p) = "UNKNOWN"
  <2> "rmq_publish" \in RabbitPlugins
    BY DEF RabbitPlugins
  <2> QED
    BY Families DEF OfNoOther, TheInstance, AllTimeout, ServiceTimeout
<1>2. \A o, s, w : Step("cs_write", o, s, w) = ContainerStep("cs_write", o, s)
  BY Families, Zenon DEF OfNoOther, TheInstance, AllStep, ServiceStep
<1>3. \A o, w, r : /\ Answer("cs_write", o, w, r) = ContainerAnswer("cs_write", o, w, r)
                   /\ Effect("cs_write", o, w, r) = ContainerEffect("cs_write", w, r)
  BY Families, Zenon DEF OfNoOther, TheInstance, AllAnswer, ServiceAnswer, AllEffect, ServiceEffect
<1>4. "rmq_publish" \in RabbitPlugins
  BY DEF RabbitPlugins
<1>5. \A o, s, w : Step("rmq_publish", o, s, w) = RabbitStep("rmq_publish", o, s)
  BY Families, <1>4, Zenon DEF OfNoOther, TheInstance, AllStep, ServiceStep
<1>6. \A o, w, r : /\ Answer("rmq_publish", o, w, r) = RabbitAnswer("rmq_publish", o, w, r)
                   /\ Effect("rmq_publish", o, w, r) = RabbitEffect("rmq_publish", o, w, r)
  BY Families, <1>4, Zenon DEF OfNoOther, TheInstance, AllAnswer, ServiceAnswer, AllEffect, ServiceEffect
<1>7. ASSUME NEW p \in HBaseWriters
      PROVE  /\ \A o, s, w : Step(p, o, s, w) = TableStep(p, o, s)
             /\ \A o, w, r : Answer(p, o, w, r) = TableAnswer(p, o, w, r) /\ Effect(p, o, w, r) = TableEffect(w, r)
  <2>0. p \in TablePlugins /\ p \notin HostPlugins /\ OfNoOther(p) /\ p \notin ContainerPlugins /\ p \notin RabbitPlugins
    BY Families
  <2>1. \A o, s, w : Step(p, o, s, w) = TableStep(p, o, s)
    BY <2>0, Zenon DEF OfNoOther, TheInstance, AllStep, ServiceStep
  <2>2. \A o, w, r : Answer(p, o, w, r) = TableAnswer(p, o, w, r)
    BY <2>0, Zenon DEF OfNoOther, TheInstance, AllAnswer, ServiceAnswer
  <2>3. \A o, w, r : Effect(p, o, w, r) = TableEffect(w, r)
    BY <2>0, Zenon DEF OfNoOther, TheInstance, AllEffect, ServiceEffect
  <2> QED
    BY <2>1, <2>2, <2>3
<1> QED
  BY <1>1, <1>2, <1>3, <1>5, <1>6, <1>7 DEF RunsWriters

\* A table of HBase remains one when it is changed.
LEMMA TableChanged ==
    ASSUME NEW t, IsTable(t)
    PROVE  /\ \A b \in BOOLEAN : IsTable([t EXCEPT !.exists = b]) /\ IsTable([t EXCEPT !.enabled = b])
           /\ \A n \in Nat : IsTable([t EXCEPT !.families = n])
           /\ \A c : IsTable([t EXCEPT !.cell = c])
           /\ \A S : \A r \in Seq(S) : IsTable([t EXCEPT !.regions = r])
<1> DEFINE Tbl(S, C) == [exists : BOOLEAN, enabled : BOOLEAN, families : Nat, regions : Seq(S), cell : C]
<1>1. PICK S, C : t \in Tbl(S, C)
  BY DEF IsTable
<1>2. \A x : (\E U, D : x \in Tbl(U, D)) => IsTable(x)
  BY Zenon DEF IsTable
<1>3. ASSUME NEW b \in BOOLEAN PROVE [t EXCEPT !.exists = b] \in Tbl(S, C) /\ [t EXCEPT !.enabled = b] \in Tbl(S, C)
  BY <1>1
<1>4. ASSUME NEW n \in Nat PROVE [t EXCEPT !.families = n] \in Tbl(S, C)
  BY <1>1
<1>5. ASSUME NEW c PROVE [t EXCEPT !.cell = c] \in Tbl(S, {c})
  BY <1>1
<1>6. ASSUME NEW U, NEW r \in Seq(U) PROVE [t EXCEPT !.regions = r] \in Tbl(U, C)
  BY <1>1
<1> HIDE DEF Tbl
<1> QED
  BY <1>2, <1>3, <1>4, <1>5, <1>6, Zenon

LEMMA ShortLists ==
    ASSUME NEW S, NEW a \in S, NEW b \in S, NEW c \in S
    PROVE  <<>> \in Seq(S) /\ <<a>> \in Seq(S) /\ <<a, b>> \in Seq(S) /\ <<a, b, c>> \in Seq(S)
OBVIOUS

LEMMA FewServers ==
    /\ <<>> \in Seq({"s1", "s2", ""}) /\ <<"s1", "">> \in Seq({"s1", "s2", ""})
    /\ <<"s1", "s2">> \in Seq({"s1", "s2", ""})
    /\ <<"s1", "s1", "s2">> \in Seq({"s1", "s2", ""}) /\ <<"s1", "s1">> \in Seq({"s1", "s2", ""})
<1> DEFINE Servers == {"s1", "s2", ""}
<1>1. "s1" \in Servers /\ "s2" \in Servers /\ "" \in Servers
  OBVIOUS
<1> HIDE DEF Servers
<1>2. <<>> \in Seq(Servers) /\ <<"s1", "">> \in Seq(Servers) /\ <<"s1", "s2">> \in Seq(Servers)
      /\ <<"s1", "s1", "s2">> \in Seq(Servers) /\ <<"s1", "s1">> \in Seq(Servers)
  BY <1>1, ShortLists
<1> QED
  BY <1>2 DEF Servers

LEMMA StatesAreTables == \A t \in TableStates : IsTable(t)
<1> DEFINE Servers == {"s1", "s2", ""}
<1>1. /\ <<>> \in Seq(Servers) /\ <<"s1", "">> \in Seq(Servers) /\ <<"s1", "s2">> \in Seq(Servers)
      /\ <<"s1", "s1", "s2">> \in Seq(Servers) /\ <<"s1", "s1">> \in Seq(Servers)
  BY FewServers
<1> HIDE DEF Servers
<1>2. IsTable(HBaseTable)
  <2>1. HBaseTable \in [exists : BOOLEAN, enabled : BOOLEAN, families : Nat, regions : Seq(Servers), cell : {"low"}]
    BY <1>1 DEF HBaseTable
  <2> QED
    BY <2>1, Zenon DEF IsTable
<1> QED
  <2>1. \A b : IsTable([HBaseTable EXCEPT !.cell = b])
    BY <1>2, TableChanged
  <2>2. IsTable([HBaseTable EXCEPT !.enabled = FALSE]) /\ IsTable(NoTable)
    BY <1>2, TableChanged DEF NoTable
  <2>3. IsTable([HBaseTable EXCEPT !.families = 0]) /\ IsTable([HBaseTable EXCEPT !.families = 2])
    BY <1>2, TableChanged
  <2>4. \A r \in Seq(Servers) : IsTable([HBaseTable EXCEPT !.regions = r])
    BY <1>2, TableChanged
  <2>5. /\ IsTable([HBaseTable EXCEPT !.regions = <<>>]) /\ IsTable([HBaseTable EXCEPT !.regions = <<"s1", "">>])
        /\ IsTable([HBaseTable EXCEPT !.regions = <<"s1", "s1", "s2">>])
        /\ IsTable([HBaseTable EXCEPT !.regions = <<"s1", "s1">>])
    BY <1>1, <2>4, Zenon
  <2>6. /\ IsTable([HBaseTable EXCEPT !.cell = "absent"]) /\ IsTable([HBaseTable EXCEPT !.cell = "text"])
        /\ IsTable([HBaseTable EXCEPT !.cell = "high"])
    BY <2>1, Zenon
  <2> QED
    BY <1>2, <2>2, <2>3, <2>5, <2>6, Zenon DEF TableStates

\* What the instance's systems are like.
LEMMA InstanceWrites ==
    ASSUME TheInstance PROVE WritersSystem
<1>1. /\ \A w \in Worlds("cs_write") : IsKey(w)
      /\ \A w : IsKey(w) => \A v \in Changes("cs_write", w) : IsKey(v) /\ (w.item.key # "mine" => v.item.key # "mine")
  <2>1. \A w \in Worlds("cs_write") : IsKey(w)
    <3>1. Worlds("cs_write") = ContainerWorlds("cs_write")
      BY Families, Zenon DEF OfNoOther, TheInstance, AllWorlds, ServiceWorlds
    <3> SUFFICES ASSUME NEW w \in ContainerWorlds("cs_write") PROVE IsKey(w)
      BY <3>1
    <3> DEFINE Items == [key : {"old"}, speed : Speeds]
    <3>2. PICK h : \E i \in Items : w = [http |-> h, item |-> i]
      <4>1. (CHOOSE i \in Items : TRUE) \in Items
        <5>1. [key |-> "old", speed |-> "OK"] \in Items
          BY DEF Speeds
        <5> QED
          BY <5>1, Zenon
      <4>2. \E H, I : w \in [http : H, item : I] /\ I \subseteq Items
        <5>1. ContainerItems("cs_write") = Items
          BY Zenon DEF ContainerItems, Versions, SwarmInfo, Listings
        <5> HIDE DEF Items
        <5> QED
          BY <4>1, <5>1 DEF ContainerWorlds
      <4> HIDE DEF Items
      <4>3. PICK H, I : w \in [http : H, item : I] /\ I \subseteq Items
        BY <4>2
      <4>4. w = [http |-> w.http, item |-> w.item] /\ w.item \in Items
        BY <4>3
      <4> QED
        BY <4>4, Zenon
    <3>3. PICK i \in Items : w = [http |-> h, item |-> i]
      BY <3>2
    <3>4. i = [key |-> i.key, speed |-> i.speed] /\ i.speed \in Speeds
      OBVIOUS
    <3> QED
      BY <3>3, <3>4, Zenon DEF IsKey
  <2>2. ASSUME NEW w, IsKey(w), NEW v \in Changes("cs_write", w)
        PROVE  IsKey(v) /\ (w.item.key # "mine" => v.item.key # "mine")
    <3>1. Changes("cs_write", w) = ContainerChanges("cs_write", w)
      BY Families, Zenon DEF OfNoOther, TheInstance, AllChanges, ServiceChanges
    <3>2. v = [w EXCEPT !.item.key = "other"] \/ \E s \in {"OK", "CRITICAL"} : v = [w EXCEPT !.item.speed = s]
      BY <2>2, <3>1 DEF ContainerChanges
    <3>31. PICK h, k : \E s \in Speeds : w = [http |-> h, item |-> [key |-> k, speed |-> s]]
      BY <2>2 DEF IsKey
    <3>3. PICK s \in Speeds : w = [http |-> h, item |-> [key |-> k, speed |-> s]]
      BY <3>31
    <3>4. \E l : \E u \in Speeds : v = [http |-> h, item |-> [key |-> l, speed |-> u]] /\ (l = k \/ l = "other")
      <4>1. CASE v = [w EXCEPT !.item.key = "other"]
        <5>1. v = [http |-> h, item |-> [key |-> "other", speed |-> s]]
          BY <3>3, <4>1
        <5> QED
          BY <5>1, Zenon
      <4>2. CASE \E u \in {"OK", "CRITICAL"} : v = [w EXCEPT !.item.speed = u]
        <5>1. PICK u \in {"OK", "CRITICAL"} : v = [w EXCEPT !.item.speed = u]
          BY <4>2
        <5>2. v = [http |-> h, item |-> [key |-> k, speed |-> u]] /\ u \in Speeds
          BY <3>3, <5>1 DEF Speeds
        <5> QED
          BY <5>2, Zenon
      <4> QED
        BY <3>2, <4>1, <4>2
    <3>51. PICK l : \E u \in Speeds : v = [http |-> h, item |-> [key |-> l, speed |-> u]] /\ (l = k \/ l = "other")
      BY <3>4
    <3>5. PICK u \in Speeds : v = [http |-> h, item |-> [key |-> l, speed |-> u]] /\ (l = k \/ l = "other")
      BY <3>51
    <3>6. w.item.key = k /\ v.item.key = l
      BY <3>3, <3>5
    <3> QED
      BY <3>5, <3>6 DEF IsKey
  <2> QED
    BY <2>1, <2>2
<1>2. /\ \A w \in Worlds("rmq_publish") : IsBroker(w)
      /\ \A w : IsBroker(w) =>
            \A v \in Changes("rmq_publish", w) : IsBroker(v) /\ (w.mine = "back" => v.mine = "back")
  <2>0. "rmq_publish" \in RabbitPlugins
    BY DEF RabbitPlugins
  <2>1. ASSUME NEW w \in Worlds("rmq_publish") PROVE IsBroker(w)
    <3>1. Worlds("rmq_publish") = RabbitWorlds("rmq_publish")
      BY <2>0, Families, Zenon DEF OfNoOther, TheInstance, AllWorlds, ServiceWorlds
    <3>2. w \in Brokers
      BY <3>1 DEF RabbitWorlds
    <3>3. /\ w = [broker |-> w.broker, declared |-> w.declared, ahead |-> w.ahead, mine |-> w.mine, rung |-> w.rung,
                  speed |-> w.speed]
          /\ w.ahead \in Nat /\ w.speed \in Speeds
      BY <3>2 DEF Brokers, MaxAhead
    <3> QED
      BY <3>3, Zenon DEF IsBroker
  <2>2. ASSUME NEW w, IsBroker(w), NEW v \in Changes("rmq_publish", w)
        PROVE  IsBroker(v) /\ (w.mine = "back" => v.mine = "back")
    <3>1. Changes("rmq_publish", w) = RabbitChanges("rmq_publish", w)
      BY <2>0, Families, Zenon DEF OfNoOther, TheInstance, AllChanges, ServiceChanges
    <3> DEFINE Broker(b, d, n, m, g, s) ==
                 [broker |-> b, declared |-> d, ahead |-> n, mine |-> m, rung |-> g, speed |-> s]
    <3>2. PICK b, d, m, g : \E s \in Speeds : \E n \in Nat : w = Broker(b, d, n, m, g, s)
      BY <2>2 DEF IsBroker
    <3>3. PICK s \in Speeds, n \in Nat : w = Broker(b, d, n, m, g, s)
      BY <3>2
    <3>4. \/ v = [w EXCEPT !.broker = "down", !.mine = IF @ = "queued" THEN "lost" ELSE @]
          \/ v = [w EXCEPT !.broker = "blocked"]
          \/ v = [w EXCEPT !.ahead = n + 1]
          \/ n > 0 /\ v = [w EXCEPT !.ahead = n - 1]
          \/ v = [w EXCEPT !.mine = IF @ = "queued" THEN "lost" ELSE @]
          \/ v = [w EXCEPT !.rung = TRUE]
          \/ \E z \in {"OK", "CRITICAL"} : v = [w EXCEPT !.speed = z]
      BY <3>1, <3>3 DEF RabbitChanges
    <3>5. ASSUME NEW c, NEW y, NEW h, NEW k \in Nat, NEW z \in Speeds, y = m \/ (m = "queued" /\ y = "lost"),
                 v = Broker(c, d, k, y, h, z)
          PROVE  IsBroker(v) /\ (w.mine = "back" => v.mine = "back")
      <4>1. w.mine = m /\ v.mine = y
        BY <3>3, <3>5
      <4>2. IsBroker(v)
        BY <3>5, Zenon DEF IsBroker
      <4> QED
        BY <3>5, <4>1, <4>2
    <3>6. CASE v = [w EXCEPT !.broker = "down", !.mine = IF @ = "queued" THEN "lost" ELSE @]
      <4>1. v = Broker("down", d, n, IF m = "queued" THEN "lost" ELSE m, g, s)
        BY <3>3, <3>6
      <4> QED
        BY <3>5, <4>1
    <3>7. CASE v = [w EXCEPT !.mine = IF @ = "queued" THEN "lost" ELSE @]
      <4>1. v = Broker(b, d, n, IF m = "queued" THEN "lost" ELSE m, g, s)
        BY <3>3, <3>7
      <4> QED
        BY <3>5, <4>1
    <3>8. CASE v = [w EXCEPT !.broker = "blocked"]
      <4>1. v = Broker("blocked", d, n, m, g, s)
        BY <3>3, <3>8
      <4> QED
        BY <3>5, <4>1
    <3>9. CASE v = [w EXCEPT !.rung = TRUE]
      <4>1. v = Broker(b, d, n, m, TRUE, s)
        BY <3>3, <3>9
      <4> QED
        BY <3>5, <4>1
    <3>10. CASE v = [w EXCEPT !.ahead = n + 1] \/ (n > 0 /\ v = [w EXCEPT !.ahead = n - 1])
      <4>0. n + 1 \in Nat /\ (n > 0 => n - 1 \in Nat)
        BY <3>3
      <4>1. PICK k \in Nat : v = [w EXCEPT !.ahead = k]
        BY <3>10, <4>0, Zenon
      <4>2. v = Broker(b, d, k, m, g, s)
        BY <3>3, <4>1
      <4> QED
        BY <3>5, <4>2
    <3>11. CASE \E z \in {"OK", "CRITICAL"} : v = [w EXCEPT !.speed = z]
      <4>1. PICK z \in {"OK", "CRITICAL"} : v = [w EXCEPT !.speed = z]
        BY <3>11
      <4>2. v = Broker(b, d, n, m, g, z) /\ z \in Speeds
        BY <3>3, <4>1 DEF Speeds
      <4> QED
        BY <3>5, <4>2
    <3> QED
      BY <3>4, <3>6, <3>7, <3>8, <3>9, <3>10, <3>11
  <2> QED
    BY <2>1, <2>2
<1>3. ASSUME NEW p \in HBaseWriters
      PROVE  /\ \A w \in Worlds(p) : IsHBase(w) /\ w.written = {}
             /\ \A w : IsHBase(w) => \A v \in Changes(p, w) : IsHBase(v) /\ v.written = w.written
  <2>0. p \in TablePlugins /\ p \notin HostPlugins /\ OfNoOther(p) /\ p \notin ContainerPlugins /\ p \notin RabbitPlugins
    BY Families
  <2>1. Worlds(p) = TableWorlds
    BY <2>0, Zenon DEF OfNoOther, TheInstance, AllWorlds, ServiceWorlds
  <2>2. \A w : Changes(p, w) = TableChanges(p, w)
    BY <2>0, Zenon DEF OfNoOther, TheInstance, AllChanges, ServiceChanges
  <2>31. HBaseTable \in TableStates /\ [HBaseTable EXCEPT !.families = 2] \in TableStates
    BY Zenon DEF TableStates
  <2>3. ASSUME NEW w \in Worlds(p) PROVE IsHBase(w) /\ w.written = {}
    <3>1. w.t \in TableStates
      BY <2>1, <2>31 DEF TableWorlds
    <3>2. IsTable(w.t)
      BY <3>1, StatesAreTables
    <3>3. /\ w = [thrift |-> w.thrift, t |-> w.t, u |-> w.u, written |-> w.written, speed |-> w.speed]
          /\ w.written = {} /\ w.speed \in Speeds
      BY <2>1 DEF TableWorlds, Speeds
    <3> QED
      BY <3>2, <3>3, Zenon DEF IsHBase
  <2>4. ASSUME NEW w, IsHBase(w), NEW v \in Changes(p, w) PROVE IsHBase(v) /\ v.written = w.written
    <3>0. \E S : <<"s1", "">> \in Seq(S) /\ <<"s1", "s1", "s2">> \in Seq(S)
      BY FewServers, Zenon
    <3>11. PICK h, t, u, wr : \E sp \in Speeds :
                IsTable(t) /\ w = [thrift |-> h, t |-> t, u |-> u, written |-> wr, speed |-> sp]
      BY <2>4 DEF IsHBase
    <3>1. PICK sp \in Speeds : IsTable(t) /\ w = [thrift |-> h, t |-> t, u |-> u, written |-> wr, speed |-> sp]
      BY <3>11
    <3>2. \/ \E s \in {"OK", "CRITICAL"} : v = [w EXCEPT !.speed = s]
          \/ v \in {[w EXCEPT !.thrift = "down"], [w EXCEPT !.t.enabled = ~w.t.enabled], [w EXCEPT !.t.exists = FALSE],
                    [w EXCEPT !.t.regions = <<"s1", "">>], [w EXCEPT !.t.regions = <<"s1", "s1", "s2">>],
                    [w EXCEPT !.t.cell = "high"]}
      <4>1. v \in TableChanges(p, w)
        BY <2>2, <2>4
      <4> QED
        BY <4>1 DEF TableChanges, HBaseWriters
    <3>3. \E x, y : \E z \in Speeds : IsTable(y) /\ v = [thrift |-> x, t |-> y, u |-> u, written |-> wr, speed |-> z]
      <4>1. CASE v = [w EXCEPT !.thrift = "down"]
        BY <3>1, <4>1
      <4>2. ASSUME NEW y, v = [w EXCEPT !.t = y] PROVE v = [thrift |-> h, t |-> y, u |-> u, written |-> wr, speed |-> sp]
        BY <3>1, <4>2
      <4>3. CASE v = [w EXCEPT !.t.enabled = ~w.t.enabled]
        <5>1. IsTable([t EXCEPT !.enabled = ~w.t.enabled])
          BY <3>1, TableChanged DEF IsTable
        <5> QED
          BY <3>1, <4>2, <4>3, <5>1
      <4>4. CASE v = [w EXCEPT !.t.exists = FALSE]
        <5>1. IsTable([t EXCEPT !.exists = FALSE])
          BY <3>1, TableChanged
        <5> QED
          BY <3>1, <4>2, <4>4, <5>1
      <4>5. CASE v = [w EXCEPT !.t.regions = <<"s1", "">>]
        <5>1. IsTable([t EXCEPT !.regions = <<"s1", "">>])
          BY <3>0, <3>1, TableChanged
        <5> QED
          BY <3>1, <4>2, <4>5, <5>1
      <4>6. CASE v = [w EXCEPT !.t.regions = <<"s1", "s1", "s2">>]
        <5>1. IsTable([t EXCEPT !.regions = <<"s1", "s1", "s2">>])
          BY <3>0, <3>1, TableChanged
        <5> QED
          BY <3>1, <4>2, <4>6, <5>1
      <4>7. CASE v = [w EXCEPT !.t.cell = "high"]
        <5>1. IsTable([t EXCEPT !.cell = "high"])
          BY <3>1, TableChanged
        <5> QED
          BY <3>1, <4>2, <4>7, <5>1
      <4>8. CASE \E s \in {"OK", "CRITICAL"} : v = [w EXCEPT !.speed = s]
        <5>1. PICK s \in {"OK", "CRITICAL"} : v = [w EXCEPT !.speed = s]
          BY <4>8
        <5>2. v = [thrift |-> h, t |-> t, u |-> u, written |-> wr, speed |-> s] /\ s \in Speeds
          BY <3>1, <5>1 DEF Speeds
        <5> QED
          BY <3>1, <5>2
      <4> QED
        BY <3>2, <4>1, <4>3, <4>4, <4>5, <4>6, <4>7, <4>8
    <3>4. IsHBase(v)
      BY <3>3, Zenon DEF IsHBase
    <3>5. v.written = wr /\ w.written = wr
      BY <3>1, <3>3
    <3> QED
      BY <3>4, <3>5
  <2> QED
    BY <2>3, <2>4
<1> QED
  BY <1>1, <1>2, <1>3, Zenon DEF WritersSystem

LEMMA InstanceRunsLsi ==
    ASSUME TheInstance PROVE RunsLsi /\ LsiSystem
<1>0. \A p \in GitPlugins \cup ToolPlugins \cup
              {"yum", "portage", "3ware", "adapter", "md", "dhcpd", "svn", "vnc", "sftp", "ram", "mounts", "image"} : p # "lsi"
  BY DEF GitPlugins, ToolPlugins
<1>1. Timeout("lsi") = "none"
  BY <1>0, Families DEF TheInstance, AllTimeout, HostTimeout
<1>2. \A o, s, w : Step("lsi", o, s, w) = LsiStep(s)
  BY <1>0, Families DEF TheInstance, AllStep, HostStep
<1>3. \A o, w, r : Answer("lsi", o, w, r) = LsiAnswer(w, r)
  BY <1>0, Families DEF TheInstance, AllAnswer, HostAnswer
<1>4. \A o, w, r : Effect("lsi", o, w, r) = LsiEffect(w)
  BY <1>0, Families DEF TheInstance, AllEffect, HostEffect
<1>5. \A o, w : Claims("lsi", o, w) = LsiClaims(w)
  BY <1>0, Families DEF TheInstance, AllClaims, HostClaims
<1>6. \A c, o, w : Holds("lsi", c, o, w) = LsiHolds(c, w)
  BY <1>0, Families DEF TheInstance, AllHolds, HostHolds
<1>7. Worlds("lsi") = LsiWorlds /\ \A w : Changes("lsi", w) = LsiChanges(w)
  BY <1>0, Families DEF TheInstance, AllWorlds, HostWorlds, AllChanges, HostChanges
<1> DEFINE States == {"OPTIMAL", "DEGRADED"}
<1> DEFINE Controllers(S) == [ctl : Seq(Seq(S)), node : BOOLEAN, driver : BOOLEAN, util : {"works", "missing", "fails"}]
<1>8. \A S : States \subseteq S => LsiArrays \subseteq Seq(S) /\ <<"OPTIMAL">> \in Seq(S)
  BY ShortLists DEF LsiArrays
<1>9. \A w \in LsiWorlds : IsLsiWorld(w)
  <2> DEFINE A == Seq(States)
  <2>1. LsiArrays \subseteq A /\ <<"OPTIMAL">> \in A
    BY <1>8
  <2> HIDE DEF A
  <2>2. <<>> \in Seq(A) /\ <<<<"OPTIMAL">>>> \in Seq(A) /\ \A a, b \in A : <<a>> \in Seq(A) /\ <<a, b>> \in Seq(A)
    BY <2>1, ShortLists
  <2>3. ASSUME NEW w \in LsiWorlds
        PROVE  w \in [ctl : Seq(A), node : BOOLEAN, driver : BOOLEAN, util : {"works", "missing", "fails"}]
    <3> DEFINE Ones == {<<a>> : a \in LsiArrays}
    <3> DEFINE Twos == {<<a, b>> : a \in LsiArrays, b \in LsiArrays}
    <3> DEFINE Lists == {<<>>} \cup Ones \cup Twos
    <3> DEFINE Single == {<<<<"OPTIMAL">>>>}
    <3>1. Lists \subseteq Seq(A) /\ Single \subseteq Seq(A)
      <4>1. Ones \subseteq Seq(A)
        BY <2>1, <2>2
      <4>2. Twos \subseteq Seq(A)
        <5>1. \A a, b \in LsiArrays : <<a, b>> \in Seq(A)
          BY <2>1, <2>2
        <5>2. ASSUME NEW x \in Twos PROVE \E a, b \in LsiArrays : x = <<a, b>>
          BY <5>2
        <5> HIDE DEF Twos
        <5> QED
          BY <5>1, <5>2
      <4> HIDE DEF Ones, Twos
      <4> QED
        BY <2>2, <4>1, <4>2
    <3>2. \/ w \in [ctl : Lists, node : {TRUE}, driver : {TRUE}, util : {"works"}]
          \/ w \in [ctl : Single, node : BOOLEAN, driver : BOOLEAN, util : {"works", "missing", "fails"}]
      <4>1. LsiWorlds = [ctl : Lists, node : {TRUE}, driver : {TRUE}, util : {"works"}]
                        \cup [ctl : Single, node : BOOLEAN, driver : BOOLEAN, util : {"works", "missing", "fails"}]
        BY DEF LsiWorlds
      <4> HIDE DEF Lists, Single
      <4> QED
        BY <4>1
    <3> HIDE DEF Lists, Single
    <3> QED
      BY <3>1, <3>2
  <2> HIDE DEF States
  <2> QED
    BY <2>3 DEF IsLsiWorld, A
<1>10. ASSUME NEW v, IsLsiWorld(v), NEW w \in LsiChanges(v) PROVE IsLsiWorld(w) /\ Len(w.ctl) = Len(v.ctl)
  <2>1. PICK S : v \in Controllers(S)
    BY <1>10 DEF IsLsiWorld
  <2>2. PICK i \in DOMAIN v.ctl, a \in LsiArrays : w = [v EXCEPT !.ctl[i] = a]
    BY <1>10 DEF LsiChanges
  <2> DEFINE U == S \cup States
  <2>3. a \in Seq(U) /\ v.ctl \in Seq(Seq(U))
    <3>1. Seq(S) \subseteq Seq(U)
      BY SeqMonotonic
    <3>2. v.ctl \in Seq(Seq(U))
      BY <2>1, <3>1, SeqMonotonic
    <3>3. a \in Seq(U)
      BY <1>8
    <3> QED
      BY <3>2, <3>3
  <2> HIDE DEF U
  <2>4. [v.ctl EXCEPT ![i] = a] \in Seq(Seq(U)) /\ Len([v.ctl EXCEPT ![i] = a]) = Len(v.ctl)
    BY <2>2, <2>3
  <2>5. w = [v EXCEPT !.ctl = [v.ctl EXCEPT ![i] = a]]
    BY <2>2
  <2>6. w \in Controllers(U) /\ Len(w.ctl) = Len(v.ctl)
    BY <2>1, <2>4, <2>5
  <2> QED
    BY <2>6, Zenon DEF IsLsiWorld
<1> QED
  BY <1>1, <1>2, <1>3, <1>4, <1>5, <1>6, <1>7, <1>9, <1>10 DEF RunsLsi, LsiSystem

LEMMA InstanceRunsRest ==
    ASSUME TheInstance PROVE RunsRest /\ RestSystem
<1>1. \A p \in RabbitRest : p \in RabbitPlugins /\ p # "rmq_publish"
  BY DEF RabbitPlugins, RabbitRest
<1>2. ASSUME NEW p \in RabbitRest
      PROVE  /\ Timeout(p) # "OK"
             /\ \A o, s, w : Step(p, o, s, w) = RabbitStep(p, o, s)
             /\ \A o, w, r : Answer(p, o, w, r) = Http(w.http, [item |-> w.item])
             /\ \A o, w : Claims(p, o, w) = {"it"} /\ Excuses(p, o, w) = RabbitExcuses(p, o, w)
             /\ \A c, o, w : Holds(p, c, o, w) = RestHolds(p, o, w)
             /\ \A w : Changes(p, w) = {} /\ \A o, r : Effect(p, o, w, r) = w
             /\ Worlds(p) = RabbitWorlds(p)
  <2>0. p \in RabbitPlugins /\ p # "rmq_publish"
    BY <1>1
  <2>1. Timeout(p) # "OK"
    BY <2>0, Families DEF OfNoOther, TheInstance, AllTimeout, ServiceTimeout
  <2>2. \A o, s, w : Step(p, o, s, w) = RabbitStep(p, o, s)
    BY <2>0, Families, Zenon DEF OfNoOther, TheInstance, AllStep, ServiceStep
  <2>3. \A o, w, r : Answer(p, o, w, r) = RabbitAnswer(p, o, w, r) /\ Effect(p, o, w, r) = RabbitEffect(p, o, w, r)
    BY <2>0, Families, Zenon DEF OfNoOther, TheInstance, AllAnswer, ServiceAnswer, AllEffect, ServiceEffect
  <2>4. ASSUME NEW o, NEW w, NEW r
        PROVE  RabbitAnswer(p, o, w, r) = Http(w.http, [item |-> w.item]) /\ RabbitEffect(p, o, w, r) = w
    <3>1. RabbitAnswer(p, o, w, r) = Http(w.http, [item |-> w.item])
      BY <2>0 DEF RabbitAnswer
    <3>2. RabbitEffect(p, o, w, r) = w
      BY <2>0 DEF RabbitEffect
    <3> QED
      BY <3>1, <3>2
  <2>5. \A o, w : Claims(p, o, w) = {"it"}
    <3>1. \A o, w : Claims(p, o, w) = RabbitClaims(p)
      BY <2>0, Families, Zenon DEF OfNoOther, TheInstance, AllClaims, ServiceClaims
    <3> QED
      BY <2>0, <3>1 DEF RabbitClaims
  <2>6. \A o, w : Excuses(p, o, w) = RabbitExcuses(p, o, w)
    BY <2>0, Families, Zenon DEF OfNoOther, TheInstance, AllExcuses, ServiceExcuses
  <2>7. \A c, o, w : Holds(p, c, o, w) = RestHolds(p, o, w)
    <3>1. \A c, o, w : Holds(p, c, o, w) = RabbitHolds(p, c, o, w)
      BY <2>0, Families, Zenon DEF OfNoOther, TheInstance, AllHolds, ServiceHolds
    <3> QED
      BY <2>0, <3>1 DEF RabbitHolds
  <2>8. \A w : Changes(p, w) = RabbitChanges(p, w)
    BY <2>0, Families, Zenon DEF OfNoOther, TheInstance, AllChanges, ServiceChanges
  <2>9. \A w : RabbitChanges(p, w) = {}
    BY <2>0 DEF RabbitChanges
  <2>10. Worlds(p) = RabbitWorlds(p)
    BY <2>0, Families, Zenon DEF OfNoOther, TheInstance, AllWorlds, ServiceWorlds
  <2> QED
    BY <2>1, <2>2, <2>3, <2>4, <2>5, <2>6, <2>7, <2>8, <2>9, <2>10
<1>3. RunsRest
  BY <1>2 DEF RunsRest
<1>4. RestSystem
  <2> DEFINE S == RabbitWorlds("rmq_vhost")
  <2>1. "rmq_vhost" \in RabbitRest
    BY DEF RabbitRest
  <2>2. Closed("rmq_vhost", S)
    BY <1>2, <2>1 DEF Closed
  <2>3. \A w \in S : OneOfAName(w.item)
    <3> DEFINE T == RabbitItems("rmq_vhost")
    <3>1. T = {s \in SUBSET Vhost : \A v, u \in s : v.name = u.name => v = u}
      BY Zenon DEF RabbitItems
    <3>2. {} \in T
      BY <3>1
    <3>3. (CHOOSE i \in T : TRUE) \in T
      BY <3>2
    <3>4. \A w \in S : w.item \in T
      BY <3>3 DEF RabbitWorlds
    <3> QED
      BY <3>1, <3>4 DEF OneOfAName
  <2> HIDE DEF S
  <2> QED
    BY <2>2, <2>3 DEF RestSystem
<1> QED
  BY <1>3, <1>4

LEMMA InstanceClaims ==
    ASSUME TheInstance PROVE WritersClaim
<1>0. \A p \in HBaseWriters \cup {"cs_write", "rmq_publish"} : p \in ServicePlugins
  BY Families DEF ServicePlugins, RabbitPlugins
<1>1. /\ \A o, w : Claims("cs_write", o, w) = ContainerClaims("cs_write", o, w)
      /\ \A o, w : Deeds("cs_write", o, w) = ContainerDeeds("cs_write")
  BY <1>0, Families, Zenon DEF OfNoOther, TheInstance, AllClaims, ServiceClaims, AllDeeds, ServiceDeeds
<1>2. \A c, o, w : Holds("cs_write", c, o, w) = ContainerHolds("cs_write", c, o, w)
  BY Families, Zenon DEF OfNoOther, TheInstance, AllHolds, ServiceHolds
<1>3. "rmq_publish" \in RabbitPlugins
  BY DEF RabbitPlugins
<1>4. /\ \A o, w : Claims("rmq_publish", o, w) = RabbitClaims("rmq_publish")
      /\ \A o, w : Deeds("rmq_publish", o, w) = RabbitDeeds("rmq_publish")
  BY <1>0, <1>3, Families, Zenon DEF OfNoOther, TheInstance, AllClaims, ServiceClaims, AllDeeds, ServiceDeeds
<1>5. \A c, o, w : Holds("rmq_publish", c, o, w) = RabbitHolds("rmq_publish", c, o, w)
  BY <1>3, Families, Zenon DEF OfNoOther, TheInstance, AllHolds, ServiceHolds
<1>6. ASSUME NEW p \in HBaseWriters
      PROVE  /\ \A o, w : Claims(p, o, w) = TableClaims(p, o, w) /\ Deeds(p, o, w) = TableDeeds(p, o, w)
             /\ \A c, o, w : Holds(p, c, o, w) = TableHolds(p, c, o, w) /\ Overlooks(p, c, o, w) = TableOverlooks(p, c, o, w)
  <2>0. p \in TablePlugins /\ p \notin HostPlugins /\ OfNoOther(p) /\ p \notin ContainerPlugins /\ p \notin RabbitPlugins
    BY Families
  <2>1. \A o, w : Claims(p, o, w) = TableClaims(p, o, w)
    BY <2>0, Zenon DEF OfNoOther, TheInstance, AllClaims, ServiceClaims
  <2>2. \A c, o, w : Holds(p, c, o, w) = TableHolds(p, c, o, w)
    BY <2>0, Zenon DEF OfNoOther, TheInstance, AllHolds, ServiceHolds
  <2>3. \A o, w : Deeds(p, o, w) = TableDeeds(p, o, w)
    BY <1>0, <2>0, Zenon DEF OfNoOther, TheInstance, AllDeeds, ServiceDeeds
  <2>4. \A c, o, w : Overlooks(p, c, o, w) = TableOverlooks(p, c, o, w)
    BY <2>0, Zenon DEF OfNoOther, TheInstance, AllOverlooks, ServiceOverlooks
  <2> QED
    BY <2>1, <2>2, <2>3, <2>4
<1> QED
  BY <1>1, <1>2, <1>4, <1>5, <1>6 DEF WritersClaim

LEMMA InstanceKeepsFamilies ==
    ASSUME TheInstance PROVE FamiliesStay
<1> SUFFICES ASSUME NEW p \in HBaseWriters, NEW w, IsHBase(w), NEW v \in Changes(p, w) PROVE v.t.families = w.t.families
  BY DEF FamiliesStay
<1>0. p \in TablePlugins /\ p \notin HostPlugins /\ OfNoOther(p) /\ p \notin ContainerPlugins /\ p \notin RabbitPlugins
  BY Families
<1>1. Changes(p, w) = TableChanges(p, w)
  BY <1>0, Zenon DEF OfNoOther, TheInstance, AllChanges, ServiceChanges
<1>21. PICK h, t, u, wr : \E sp \in Speeds :
            IsTable(t) /\ w = [thrift |-> h, t |-> t, u |-> u, written |-> wr, speed |-> sp]
  BY DEF IsHBase
<1>2. PICK sp \in Speeds : IsTable(t) /\ w = [thrift |-> h, t |-> t, u |-> u, written |-> wr, speed |-> sp]
  BY <1>21
<1>3. PICK S, C : t \in [exists : BOOLEAN, enabled : BOOLEAN, families : Nat, regions : Seq(S), cell : C]
  BY <1>2 DEF IsTable
<1>4. \/ \E s \in {"OK", "CRITICAL"} : v = [w EXCEPT !.speed = s]
      \/ v \in {[w EXCEPT !.thrift = "down"], [w EXCEPT !.t.enabled = ~w.t.enabled], [w EXCEPT !.t.exists = FALSE],
                [w EXCEPT !.t.regions = <<"s1", "">>], [w EXCEPT !.t.regions = <<"s1", "s1", "s2">>],
                [w EXCEPT !.t.cell = "high"]}
  BY <1>1 DEF TableChanges, HBaseWriters
<1>5. \/ v.t = t
      \/ v.t = [t EXCEPT !.enabled = ~w.t.enabled] \/ v.t = [t EXCEPT !.exists = FALSE]
      \/ \E r : v.t = [t EXCEPT !.regions = r]
      \/ v.t = [t EXCEPT !.cell = "high"]
  BY <1>2, <1>4
<1> QED
  BY <1>2, <1>3, <1>5

LEMMA YumAndDhcpd ==
    \A p \in {"yum", "dhcpd"} : p \in HostPlugins /\ p \notin GitPlugins /\ p \notin ToolPlugins
BY DEF HostPlugins, GitPlugins, ToolPlugins

LEMMA InstanceRunsYum ==
    ASSUME TheInstance PROVE RunsYum
<1>1. /\ \A o, s, w : Step("yum", o, s, w) = YumStep(o, s)
      /\ \A o, w, r : Answer("yum", o, w, r) = YumRun(o, w, r)
  BY YumAndDhcpd DEF TheInstance, AllStep, HostStep, AllAnswer, HostAnswer
<1>2. \A o, w, r : Effect("yum", o, w, r) = w
  BY YumAndDhcpd DEF TheInstance, AllEffect, HostEffect
<1>3. \A o, w : Claims("yum", o, w) = YumClaims(o, w) /\ Excuses("yum", o, w) = YumExcuses(w)
  BY YumAndDhcpd DEF TheInstance, AllClaims, HostClaims, AllExcuses, HostExcuses
<1>4. \A c, o, w : Holds("yum", c, o, w) = YumHolds(c, o, w)
  BY YumAndDhcpd DEF TheInstance, AllHolds, HostHolds
<1>5. Timeout("yum") = YumTimeout /\ Worlds("yum") = YumWorlds /\ \A w : Changes("yum", w) = YumChanges(w)
  BY YumAndDhcpd DEF TheInstance, AllTimeout, HostTimeout, AllWorlds, HostWorlds, AllChanges, HostChanges
<1> DEFINE Machines(S, O, K, F, Y) == [sec : S, other : O, kernel : K, form : F, yum : Y]
<1> DEFINE States == {"works", "absent", "denied", "locked", "no plugin", "no mirror"}
<1>60. ASSUME NEW S, NEW O, NEW K, NEW F, NEW Y, NEW SS, NEW OO, NEW KK, NEW FF, NEW YY,
              S \subseteq SS, O \subseteq OO, K \subseteq KK, F \subseteq FF, Y \subseteq YY
       PROVE  Machines(S, O, K, F, Y) \subseteq Machines(SS, OO, KK, FF, YY)
  BY <1>60
<1>61. ASSUME NEW w \in Machines(Nat, Nat, BOOLEAN, YumForms, States)
       PROVE  /\ \A s \in Nat, n \in Nat :
                     /\ [w EXCEPT !.sec = s, !.other = n] \in Machines(Nat, Nat, BOOLEAN, YumForms, States)
                     /\ [w EXCEPT !.sec = s, !.other = n].form = w.form
              /\ \A y \in States : /\ [w EXCEPT !.yum = y] \in Machines(Nat, Nat, BOOLEAN, YumForms, States)
                                  /\ [w EXCEPT !.yum = y].form = w.form
  <2> DEFINE Kernels == BOOLEAN
  <2> DEFINE Numbers == Nat
  <2> DEFINE Forms == YumForms
  <2>1. w \in Machines(Numbers, Numbers, Kernels, Forms, States)
    OBVIOUS
  <2> HIDE DEF Kernels, Numbers, Forms, States
  <2>2. /\ \A s \in Numbers, n \in Numbers :
              /\ [w EXCEPT !.sec = s, !.other = n] \in Machines(Numbers, Numbers, Kernels, Forms, States)
              /\ [w EXCEPT !.sec = s, !.other = n].form = w.form
        /\ \A y \in States : /\ [w EXCEPT !.yum = y] \in Machines(Numbers, Numbers, Kernels, Forms, States)
                            /\ [w EXCEPT !.yum = y].form = w.form
    BY <2>1
  <2> HIDE DEF Machines
  <2> QED
    BY <2>2, Zenon DEF Kernels, Numbers, Forms
<1>7. \A w : IsYum(w) <=> w \in Machines(Nat, Nat, BOOLEAN, YumForms, States)
  BY DEF IsYum
<1>8. \A w \in YumWorlds : IsYum(w)
  <2>1. YumWorlds = Machines(0..2, 0..1, {FALSE}, YumForms, {"works"})
                    \cup Machines({0, 1}, {0}, {TRUE}, {"summary", "dnf"}, {"works"})
                    \cup Machines({0, 1}, {0, 1}, {FALSE}, {"summary"}, {"absent", "denied", "locked", "no plugin", "no mirror"})
    BY DEF YumWorlds
  <2>2. /\ 0..2 \subseteq Nat /\ 0..1 \subseteq Nat /\ {0, 1} \subseteq Nat /\ {0} \subseteq Nat /\ {1} \subseteq Nat
        /\ {"summary", "dnf"} \subseteq YumForms /\ {"summary"} \subseteq YumForms
        /\ {"works"} \subseteq States /\ {"absent", "denied", "locked", "no plugin", "no mirror"} \subseteq States
    BY DEF YumForms
  <2> DEFINE Low == 0..2
  <2> DEFINE Few == 0..1
  <2> DEFINE One == {0, 1}
  <2> DEFINE No == {FALSE}
  <2> DEFINE Works == {"works"}
  <2> DEFINE Failing == {"absent", "denied", "locked", "no plugin", "no mirror"}
  <2> DEFINE Summary == {"summary"}
  <2>3. Low \subseteq Nat /\ Few \subseteq Nat /\ One \subseteq Nat /\ Works \subseteq States /\ Failing \subseteq States
    BY <2>2
  <2>31. No \subseteq BOOLEAN
    BY Zenon
  <2>32. YumForms \subseteq YumForms /\ Summary \subseteq YumForms
    BY <2>2
  <2> HIDE DEF Machines, States, No, Low, Few, One, Works, Failing, Summary
  <2>4. Machines(Low, Few, No, YumForms, Works) \subseteq Machines(Nat, Nat, BOOLEAN, YumForms, States)
    BY <1>60, <2>3, <2>31, <2>32
  <2>33. {TRUE} \subseteq BOOLEAN
    BY Zenon
  <2>5. Machines({0, 1}, {0}, {TRUE}, {"summary", "dnf"}, Works) \subseteq Machines(Nat, Nat, BOOLEAN, YumForms, States)
    BY <1>60, <2>2, <2>3, <2>33
  <2>6. Machines(One, One, No, Summary, Failing) \subseteq Machines(Nat, Nat, BOOLEAN, YumForms, States)
    BY <1>60, <2>3, <2>31, <2>32
  <2>7. YumWorlds = Machines(Low, Few, No, YumForms, Works)
                    \cup Machines({0, 1}, {0}, {TRUE}, {"summary", "dnf"}, Works)
                    \cup Machines(One, One, No, Summary, Failing)
    BY <2>1, Zenon DEF Low, Few, One, No, Works, Failing, Summary
  <2> QED
    BY <1>7, <2>7, <2>4, <2>5, <2>6, Zenon
<1>9. ASSUME NEW w, IsYum(w), NEW v \in YumChanges(w) PROVE IsYum(v) /\ v.form = w.form
  <2>1. \/ \E s \in 0..2, n \in 0..1 : v = [w EXCEPT !.sec = s, !.other = n]
        \/ v = [w EXCEPT !.yum = "locked"]
    BY <1>9, SMT DEF YumChanges
  <2>2. 0..2 \subseteq Nat /\ 0..1 \subseteq Nat /\ "locked" \in States
    OBVIOUS
  <2> HIDE DEF Machines, States
  <2>3. w \in Machines(Nat, Nat, BOOLEAN, YumForms, States)
    BY <1>7, <1>9
  <2>4. \A s \in 0..2, n \in 0..1 : s \in Nat /\ n \in Nat
    BY <2>2
  <2>5. CASE \E s \in 0..2, n \in 0..1 : v = [w EXCEPT !.sec = s, !.other = n]
    <3>1. PICK s \in 0..2, n \in 0..1 : v = [w EXCEPT !.sec = s, !.other = n]
      BY <2>5
    <3>2. s \in Nat /\ n \in Nat
      BY <2>4
    <3>3. v \in Machines(Nat, Nat, BOOLEAN, YumForms, States) /\ v.form = w.form
      <4>1. /\ [w EXCEPT !.sec = s, !.other = n] \in Machines(Nat, Nat, BOOLEAN, YumForms, States)
            /\ [w EXCEPT !.sec = s, !.other = n].form = w.form
        BY <1>61, <2>3, <3>2, Zenon
      <4> QED
        BY <3>1, <4>1, Zenon
    <3> QED
      BY <1>7, <3>3, Zenon
  <2>6. CASE v = [w EXCEPT !.yum = "locked"]
    <3>1. v \in Machines(Nat, Nat, BOOLEAN, YumForms, States) /\ v.form = w.form
      <4>1. /\ [w EXCEPT !.yum = "locked"] \in Machines(Nat, Nat, BOOLEAN, YumForms, States)
            /\ [w EXCEPT !.yum = "locked"].form = w.form
        BY <1>61, <2>2, <2>3, Zenon
      <4> QED
        BY <2>6, <4>1, Zenon
    <3> QED
      BY <1>7, <3>1, Zenon
  <2> QED
    BY <2>1, <2>5, <2>6, Zenon
<1>10. \A o \in Options("yum") : o.all \in BOOLEAN /\ o.warnAny \in BOOLEAN /\ o.noWarnOnLock \in BOOLEAN
  <2>1. Options("yum") = YumOptions
    BY YumAndDhcpd DEF TheInstance, AllOptions, HostOptions
  <2> DEFINE Given(B, T) == [all : B, cache : B, warnAny : B, noWarnOnLock : B, timeout : T]
  <2>2. YumOptions = Given(BOOLEAN, {30}) \cup Given({FALSE}, {0, 3601, NotANumber})
    BY DEF YumOptions
  <2>3. ASSUME NEW B, NEW T, NEW o \in Given(B, T) PROVE o.all \in B /\ o.warnAny \in B /\ o.noWarnOnLock \in B
    OBVIOUS
  <2>4. {FALSE} \subseteq BOOLEAN
    BY Zenon
  <2> DEFINE No == {FALSE}
  <2> HIDE DEF Given, No
  <2> SUFFICES ASSUME NEW o \in Options("yum") PROVE o.all \in BOOLEAN /\ o.warnAny \in BOOLEAN /\ o.noWarnOnLock \in BOOLEAN
    OBVIOUS
  <2>5. CASE o \in Given(BOOLEAN, {30})
    BY <2>3, <2>5, Zenon
  <2>6. CASE o \in Given(No, {0, 3601, NotANumber})
    <3>1. o.all \in No /\ o.warnAny \in No /\ o.noWarnOnLock \in No
      BY <2>3, <2>6
    <3> QED
      BY <2>4, <3>1, Zenon DEF No
  <2> QED
    BY <2>1, <2>2, <2>5, <2>6 DEF No
<1> QED
  BY <1>1, <1>2, <1>3, <1>4, <1>5, <1>8, <1>9, <1>10 DEF RunsYum


LEMMA InstanceRunsDhcpd ==
    ASSUME TheInstance PROVE RunsDhcpd
<1>1. /\ \A o, s, w : Step("dhcpd", o, s, w) = LeaseStep(o, s)
      /\ \A o, w, r : Answer("dhcpd", o, w, r) = OpenLeaseFile(w)
  BY YumAndDhcpd DEF TheInstance, AllStep, HostStep, AllAnswer, HostAnswer
<1>2. \A o, w, r : Effect("dhcpd", o, w, r) = w
  BY YumAndDhcpd DEF TheInstance, AllEffect, HostEffect
<1>3. \A o, w : Claims("dhcpd", o, w) = LeaseClaims(o, w) /\ Excuses("dhcpd", o, w) = LeaseExcuses(o, w)
  BY YumAndDhcpd DEF TheInstance, AllClaims, HostClaims, AllExcuses, HostExcuses
<1>4. \A c, o, w : Holds("dhcpd", c, o, w) = LeaseHolds(c, o, w) /\ Overlooks("dhcpd", c, o, w) = LeaseOverlooks(c, o, w)
  BY YumAndDhcpd DEF TheInstance, AllHolds, HostHolds, AllOverlooks, HostOverlooks
<1>5. Timeout("dhcpd") = LeaseTimeout /\ Worlds("dhcpd") = LeaseWorlds /\ \A w : Changes("dhcpd", w) = {}
  BY YumAndDhcpd DEF TheInstance, AllTimeout, HostTimeout, AllWorlds, HostWorlds, AllChanges, HostChanges
<1>6. ASSUME NEW o \in Options("dhcpd")
      PROVE  {"none", "UNKNOWN"} \cap (o.hostWhite \cup o.hostBlack \cup o.macWhite \cup o.macBlack) = {}
  <2>1. Options("dhcpd") = LeaseOptions
    BY YumAndDhcpd DEF TheInstance, AllOptions, HostOptions
  <2> QED
    BY <2>1 DEF LeaseOptions
<1>7. ASSUME NEW w \in LeaseWorlds PROVE w.file \in {"leases", "absent", "foreign"} /\ IsJournal(w.blocks)
  <2> DEFINE Blocks(I, H, M) == [ip : I \ {"UNKNOWN"}, state : {"active", "free"}, host : H,
                                 mac : M \ {"A-A", "B-B"}, nested : BOOLEAN, odd : BOOLEAN]
  <2> DEFINE B == Blocks({"a", "b"}, {"GOOD", "BAD", "none"}, {"AA", "BB"})
  <2>1. LeaseBlocks \subseteq B
    BY DEF LeaseBlocks
  <2> HIDE DEF B
  <2>2. \A b, c \in LeaseBlocks : <<>> \in Seq(B) /\ <<b>> \in Seq(B) /\ <<b, c>> \in Seq(B)
    BY <2>1, ShortLists
  <2>3. <<>> \in Seq(B)
    OBVIOUS
  <2> DEFINE Journals == {<<>>} \cup {<<b>> : b \in LeaseBlocks} \cup {<<b, c>> : b \in LeaseBlocks, c \in LeaseBlocks}
  <2>4. Journals \subseteq Seq(B)
    <3>1. ASSUME NEW j \in Journals
          PROVE  j = <<>> \/ (\E b \in LeaseBlocks : j = <<b>>) \/ (\E b, c \in LeaseBlocks : j = <<b, c>>)
      BY <3>1, SMT
    <3> HIDE DEF Journals
    <3> QED
      BY <2>2, <2>3, <3>1
  <2>5. w.file \in {"leases", "absent", "foreign"} /\ w.blocks \in Journals
    BY DEF LeaseWorlds
  <2> HIDE DEF Journals
  <2>6. w.blocks \in Seq(B)
    BY <2>4, <2>5
  <2>7. IsJournal(w.blocks)
    BY <2>6, Zenon DEF IsJournal, B
  <2> QED
    BY <2>5, <2>7
<1> QED
  BY <1>1, <1>2, <1>3, <1>4, <1>5, <1>6, <1>7 DEF RunsDhcpd

\* MCPluginRun's functions, whichever of its plugins run and however often
\* their systems change: an OK of check_lsi_megaraid.py, check_yum.py,
\* check_dhcpd_leases.py, check_rabbitmq.py, check_consul_write.py and the two
\* HBase writers tells of the system as it was, but for what they are known to
\* overlook.
THEOREM OkVouchesInTheInstance ==
    ASSUME TheInstance PROVE Spec => [](plugin \in Writers \cup RabbitRest \cup {"lsi", "yum", "dhcpd"} => OkVouches)
<1>1. Spec => [](plugin \in Writers => OkVouches)
  BY InstanceRunsWriters, InstanceClaims, InstanceWrites, InstanceKeepsFamilies, WritersOkVouches
<1>2. Spec => [](plugin \in RabbitRest => OkVouches)
  BY InstanceRunsRest, RestOkVouches
<1>3. Spec => [](plugin = "lsi" => OkVouches)
  BY InstanceRunsLsi, LsiOkVouches
<1>4. Spec => [](plugin = "yum" => OkVouches)
  BY InstanceRunsYum, YumOkVouches
<1>5. Spec => [](plugin = "dhcpd" => OkVouches)
  BY InstanceRunsDhcpd, LeaseOkVouches
<1>6. plugin \in Writers \cup RabbitRest \cup {"lsi", "yum", "dhcpd"}
      => plugin \in Writers \/ plugin \in RabbitRest \/ plugin = "lsi" \/ plugin = "yum" \/ plugin = "dhcpd"
  OBVIOUS
<1> QED
  BY <1>1, <1>2, <1>3, <1>4, <1>5, <1>6, PTL

\* The same for the alarms of check_lsi_megaraid.py, check_yum.py,
\* check_dhcpd_leases.py and the plugins that read RabbitMQ's REST API: each has
\* a reason.
THEOREM AlarmsAreRealInTheInstance ==
    ASSUME TheInstance PROVE Spec => [](plugin \in RabbitRest \cup {"lsi", "yum", "dhcpd"} => AlarmsAreReal)
<1>1. Spec => [](plugin \in RabbitRest => AlarmsAreReal)
  BY InstanceRunsRest, RestAlarmsAreReal
<1>2. Spec => [](plugin = "lsi" => AlarmsAreReal)
  BY InstanceRunsLsi, LsiAlarmsAreReal
<1>3. Spec => [](plugin = "yum" => AlarmsAreReal)
  BY InstanceRunsYum, YumAlarmsAreReal
<1>4. Spec => [](plugin = "dhcpd" => AlarmsAreReal)
  BY InstanceRunsDhcpd, LeaseAlarmsAreReal
<1>5. plugin \in RabbitRest \cup {"lsi", "yum", "dhcpd"}
      => plugin \in RabbitRest \/ plugin = "lsi" \/ plugin = "yum" \/ plugin = "dhcpd"
  OBVIOUS
<1> QED
  BY <1>1, <1>2, <1>3, <1>4, <1>5, PTL

\* The same for what these writers have done when they are OK, and for what they
\* leave behind.
THEOREM WritersInTheInstance ==
    ASSUME TheInstance PROVE Spec => [](NothingIsLeft /\ (plugin \in Writers => DeedsAreDone))
<1>1. Spec => []NothingIsLeft
  BY InstanceRunsWriters, InstanceWrites, NothingOfItsOwnIsLeft
<1>2. Spec => [](plugin \in Writers => DeedsAreDone)
  BY InstanceRunsWriters, InstanceClaims, InstanceWrites, InstanceKeepsFamilies, WritersDeedsAreDone
<1> QED
  BY <1>1, <1>2, PTL
=============================================================================
