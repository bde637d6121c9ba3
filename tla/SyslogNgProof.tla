--------------------------- MODULE SyslogNgProof ---------------------------
(* check_syslog-ng_stats.pl (SyslogNgStats) for any number of runs at a time, *)
(* any destinations and types, and any number of days.                        *)
EXTENDS SyslogNgStats, TLAPS, FiniteSetTheorems

Counts  == [Kinds -> [Dests -> Nat]]
Entries == [ts : Nat, num : [Dests -> Nat]]
Lines   == [day : Nat, ts : Nat, num : Counts]
Results == [status : Statuses, high : SUBSET (Kinds \X Dests)]

EntryOf(l, k) == [ts |-> l.ts, num |-> l.num[k]]

\* The types of the variables, all of them.
SyslogTypes ==
    /\ use \in Uses /\ time \in 1..Len(Calendar) /\ given \in Nat
    /\ cnt \in Counts /\ made \in Counts /\ counted \in Counts
    /\ logs \in SUBSET Lines
FileTypes ==
    /\ exists \in [Kinds -> BOOLEAN] /\ file \in [Kinds -> Entries]
    /\ lock \in [Kinds -> SUBSET Proc]
RunTypes ==
    /\ turn \in [Proc -> 0..(Len(Types) + 1)]
    /\ step \in [Proc -> {"test", "open", "check"}] /\ found \in [Proc -> BOOLEAN]
    /\ log \in [Proc -> Lines] /\ pending \in [Proc -> Entries] /\ base \in [Proc -> Nat]
    /\ status \in [Proc -> Results] /\ out \in [Proc -> Results]
TypeInv == SyslogTypes /\ FileTypes /\ RunTypes

\* A state file is locked by one run at most, which has judged the type of that
\* file and not yet opened that of the next.
LockInv ==
    /\ \A k \in Kinds : \A p, q \in lock[k] : p = q
    /\ \A k \in Kinds : \A p \in lock[k] :
        turn[p] - 1 \in 1..Len(Types) /\ k = Types[turn[p] - 1] /\ step[p] # "check"
    /\ \A p \in Proc : step[p] # "test" => turn[p] \in 1..Len(Types)

\* A result that is OK has nothing at a threshold, even before it is printed.
QuietInv ==
    \A p \in Proc : /\ status[p].status = "OK" => status[p].high = {}
                    /\ out[p].status = "OK" => out[p].high = {}

-----------------------------------------------------------------------------
(* Types *)

LEMMA TypesFacts ==
    /\ Len(Types) \in Nat \ {0}
    /\ \A i \in 1..Len(Types) : Types[i] \in Kinds
<1>1. Len(Types) \in Nat \ {0} /\ DOMAIN Types = 1..Len(Types)
  BY ConstantsAssumption
<1> QED
  BY <1>1 DEF Kinds, Range

LEMMA BlankFacts ==
    /\ Zero \in [Dests -> Nat] /\ \A d \in Dests : Zero[d] = 0
    /\ Blank \in Entries /\ Blank.ts = 0 /\ Blank.num = Zero
    /\ NoLog \in Lines
    /\ Clean \in Results /\ Clean.high = {}
<1>1. Zero \in [Dests -> Nat] /\ \A d \in Dests : Zero[d] = 0
  BY DEF Zero
<1>2. Blank \in Entries /\ Blank.ts = 0 /\ Blank.num = Zero
  BY <1>1 DEF Blank, Entries
<1>3. NoLog \in Lines
  BY <1>1 DEF NoLog, Lines, Counts
<1>4. Clean \in Results /\ Clean.high = {}
  BY DEF Clean, Results, Statuses
<1> QED
  BY <1>1, <1>2, <1>3, <1>4

\* The days of the calendar in use have time stamps of their own, not 0.
LEMMA TstampFacts ==
    ASSUME use \in Uses
    PROVE  /\ Len(Calendar) \in Nat \ {0} /\ DOMAIN Calendar = 1..Len(Calendar)
           /\ \A t \in 1..Len(Calendar) : Tstamp(t) \in Nat \ {0}
<1>1. Calendar \in Seq((1..12) \X (1..31)) /\ Calendar # <<>>
  BY ConstantsAssumption DEF Calendar
<1>2. Len(Calendar) \in Nat \ {0} /\ DOMAIN Calendar = 1..Len(Calendar)
  BY <1>1
<1>3. \A i \in 1..13 : DaysBefore[i] \in Nat
  BY DEF DaysBefore
<1>4. \A t \in 1..Len(Calendar) : Tstamp(t) \in Nat \ {0}
  <2> TAKE t \in 1..Len(Calendar)
  <2>1. Calendar[t] \in (1..12) \X (1..31)
    BY <1>1
  <2>2. Calendar[t][1] + 1 \in 1..13 /\ Calendar[t][2] \in 1..31
    BY <2>1
  <2>3. DaysBefore[Calendar[t][1] + 1] \in Nat
    BY <1>3, <2>2
  <2>4. Tstamp(t) = DaysBefore[Calendar[t][1] + 1] + Calendar[t][2]
    BY DEF Tstamp, TstampOf
  <2>5. \A a \in Nat, b \in 1..31 : a + b \in Nat \ {0}
    OBVIOUS
  <2> QED
    BY <2>2, <2>3, <2>4, <2>5
<1> QED
  BY <1>2, <1>4

\* What closing a handle leaves in the files and of the locks.
LEMMA CloseType ==
    ASSUME TypeInv, LockInv, NEW p \in Proc
    PROVE  /\ Flushed(p) \in [Kinds -> Entries]
           /\ Unlocked(p) \in [Kinds -> SUBSET Proc]
           /\ \A k \in Kinds : /\ p \notin Unlocked(p)[k] /\ Unlocked(p)[k] \subseteq lock[k]
                               /\ Flushed(p)[k] = IF p \in lock[k] /\ pending[p] # Blank
                                                  THEN pending[p] ELSE file[k]
BY DEF TypeInv, FileTypes, RunTypes, Flushed, Unlocked

\* A process that ends keeps the types of its own variables and of the locks.
LEMMA DieType ==
    ASSUME TypeInv, LockInv, QuietInv, NEW p \in Proc, Die(p)
    PROVE  /\ lock' \in [Kinds -> SUBSET Proc] /\ LockInv'
           /\ turn' \in [Proc -> 0..(Len(Types) + 1)]
           /\ step' \in [Proc -> {"test", "open", "check"}] /\ found' \in [Proc -> BOOLEAN]
           /\ log' \in [Proc -> Lines] /\ pending' \in [Proc -> Entries] /\ base' \in [Proc -> Nat]
           /\ status' \in [Proc -> Results]
           /\ \A q \in Proc : status'[q].status = "OK" => status'[q].high = {}
<1> USE BlankFacts, TypesFacts
<1>1. lock' \in [Kinds -> SUBSET Proc]
  BY CloseType DEF Die
<1>2. LockInv'
  <2>1. \A k \in Kinds : lock'[k] \subseteq lock[k] /\ p \notin lock'[k]
    BY CloseType DEF Die
  <2>2. \A q \in Proc : q # p => turn'[q] = turn[q] /\ step'[q] = step[q]
    BY DEF Die, TypeInv, RunTypes
  <2>3. step'[p] = "test"
    BY DEF Die, TypeInv, RunTypes
  <2>4. \A k \in Kinds : lock[k] \subseteq Proc
    BY DEF TypeInv, FileTypes
  <2> QED
    BY <2>1, <2>2, <2>3, <2>4 DEF LockInv
<1>3. /\ turn' \in [Proc -> 0..(Len(Types) + 1)]
      /\ step' \in [Proc -> {"test", "open", "check"}] /\ found' \in [Proc -> BOOLEAN]
      /\ log' \in [Proc -> Lines] /\ pending' \in [Proc -> Entries] /\ base' \in [Proc -> Nat]
  BY DEF Die, TypeInv, RunTypes
<1>4. /\ status' \in [Proc -> Results]
      /\ \A q \in Proc : status'[q].status = "OK" => status'[q].high = {}
  BY DEF Die, TypeInv, RunTypes, QuietInv
<1> QED
  BY <1>1, <1>2, <1>3, <1>4

\* The rate arithmetic stays within the integers, and growth within the naturals.
LEMMA IncreaseType ==
    ASSUME TypeInv, NEW p \in Proc, NEW k \in Kinds
    PROVE  /\ LastTstamp(p, k) \in Nat /\ DiffSecs(p, k) \in Int
           /\ \A d \in Dests : Increase(p, k, d) \in Nat
<1>1. /\ file[k] \in Entries /\ base[p] \in Nat /\ log[p] \in Lines
  BY DEF TypeInv, FileTypes, RunTypes
<1>2. log[p].num[k] \in [Dests -> Nat] /\ log[p].ts \in Nat /\ file[k].ts \in Nat /\ file[k].num \in [Dests -> Nat]
  BY <1>1 DEF Lines, Counts, Entries
<1>3. LastTstamp(p, k) \in Nat /\ DiffSecs(p, k) \in Int
  BY <1>1, <1>2 DEF LastTstamp, DiffSecs
<1>4. ASSUME NEW d \in Dests PROVE Increase(p, k, d) \in Nat
  <2>1. log[p].num[k][d] \in Nat /\ file[k].num[d] \in Nat
    BY <1>2
  <2> QED
    BY <2>1 DEF Increase
<1> QED
  BY <1>3, <1>4

-----------------------------------------------------------------------------
(* The inductive step of the types, of the locks and of the results *)

SafeInv == TypeInv /\ LockInv /\ QuietInv

LEMMA SyslogSafe ==
    ASSUME SafeInv, Syslog
    PROVE  SafeInv'
<1> USE BlankFacts, TstampFacts
<1>1. use \in Uses /\ use' = use /\ Calendar' = Calendar
  BY DEF SafeInv, TypeInv, SyslogTypes, Syslog, Calendar
<1>2. SyslogTypes'
  <2>1. CASE Message
    BY <1>1, <2>1 DEF SafeInv, TypeInv, SyslogTypes, Syslog, Message, Counts
  <2>2. CASE WriteLog
    <3>1. [day |-> time, ts |-> Tstamp(time), num |-> cnt] \in Lines
      BY <1>1 DEF SafeInv, TypeInv, SyslogTypes, Lines
    <3> QED
      BY <1>1, <2>2, <3>1 DEF SafeInv, TypeInv, SyslogTypes, Syslog, WriteLog
  <2>3. CASE Restart
    BY <1>1, <2>3 DEF SafeInv, TypeInv, SyslogTypes, Syslog, Restart, Counts
  <2>4. CASE Tick
    BY <1>1, <2>4 DEF SafeInv, TypeInv, SyslogTypes, Syslog, Tick
  <2> QED
    BY <2>1, <2>2, <2>3, <2>4 DEF Syslog
<1>3. FileTypes' /\ RunTypes' /\ LockInv' /\ QuietInv'
  BY DEF SafeInv, TypeInv, FileTypes, RunTypes, LockInv, QuietInv, Syslog, files
<1> QED
  BY <1>2, <1>3 DEF SafeInv, TypeInv

LEMMA StartSafe ==
    ASSUME SafeInv, NEW p \in Proc, Start(p)
    PROVE  SafeInv'
<1> USE BlankFacts, TypesFacts
<1>1. PICK l \in logs : log' = [log EXCEPT ![p] = l] /\ given' \in {l.day, given}
  BY DEF Start
<1>2. l \in Lines /\ given' \in Nat
  BY <1>1 DEF SafeInv, TypeInv, SyslogTypes, Lines
<1>3. SyslogTypes'
  BY <1>2 DEF SafeInv, TypeInv, SyslogTypes, Start, Calendar
<1>4. FileTypes'
  BY DEF SafeInv, TypeInv, FileTypes, Start, files
<1>5. RunTypes'
  <2>1. log' \in [Proc -> Lines]
    BY <1>1, <1>2 DEF SafeInv, TypeInv, RunTypes
  <2>2. 1 \in 0..(Len(Types) + 1)
    OBVIOUS
  <2>3. turn' \in [Proc -> 0..(Len(Types) + 1)] /\ out' \in [Proc -> Results]
    BY <2>2 DEF SafeInv, TypeInv, RunTypes, Start
  <2> QED
    BY <2>1, <2>3 DEF SafeInv, TypeInv, RunTypes, Start
<1>6. LockInv'
  <2>1. turn[p] = 0 /\ step' = step /\ lock' = lock /\ \A q \in Proc : q # p => turn'[q] = turn[q]
    BY DEF SafeInv, TypeInv, RunTypes, Start, files
  <2>2. ~(0 - 1 \in 1..Len(Types)) /\ ~(0 \in 1..Len(Types))
    BY DEF SafeInv
  <2>3. \A k \in Kinds : lock[k] \subseteq Proc /\ p \notin lock[k]
    BY <2>1, <2>2 DEF SafeInv, LockInv, TypeInv, FileTypes
  <2>4. step[p] = "test"
    BY <2>1, <2>2 DEF SafeInv, LockInv
  <2> QED
    BY <2>1, <2>3, <2>4 DEF SafeInv, LockInv
<1>7. QuietInv'
  BY DEF SafeInv, TypeInv, RunTypes, QuietInv, Start
<1> QED
  BY <1>3, <1>4, <1>5, <1>6, <1>7 DEF SafeInv, TypeInv

LEMMA TestFileSafe ==
    ASSUME SafeInv, NEW p \in Proc, TestFile(p)
    PROVE  SafeInv'
<1> USE TypesFacts
<1>1. SyslogTypes' /\ FileTypes' /\ QuietInv'
  BY DEF SafeInv, TypeInv, SyslogTypes, FileTypes, QuietInv, TestFile, syslog, files, Calendar
<1>2. exists[Types[turn[p]]] \in BOOLEAN
  BY DEF SafeInv, TypeInv, FileTypes, TestFile
<1>3. RunTypes'
  BY <1>2 DEF SafeInv, TypeInv, RunTypes, TestFile
<1>4. LockInv'
  BY DEF SafeInv, TypeInv, FileTypes, RunTypes, LockInv, TestFile, files
<1> QED
  BY <1>1, <1>3, <1>4 DEF SafeInv, TypeInv

LEMMA OpenFileSafe ==
    ASSUME SafeInv, NEW p \in Proc, OpenFile(p)
    PROVE  SafeInv'
<1> USE TypesFacts, BlankFacts
<1>1. SyslogTypes' /\ QuietInv'
  BY DEF SafeInv, TypeInv, SyslogTypes, QuietInv, OpenFile, syslog, Calendar
<1>2. FileTypes'
  BY CloseType DEF SafeInv, TypeInv, FileTypes, OpenFile
<1>3. RunTypes'
  BY DEF SafeInv, TypeInv, RunTypes, OpenFile
<1>4. LockInv'
  <2>1. \A k \in Kinds : lock'[k] \subseteq lock[k] /\ p \notin lock'[k] /\ lock[k] \subseteq Proc
    BY CloseType DEF SafeInv, TypeInv, FileTypes, OpenFile
  <2>2. turn' = turn /\ \A q \in Proc : q # p => step'[q] = step[q]
    BY DEF SafeInv, TypeInv, RunTypes, OpenFile
  <2>3. turn[p] \in 1..Len(Types)
    BY DEF SafeInv, LockInv, OpenFile
  <2> QED
    BY <2>1, <2>2, <2>3 DEF SafeInv, LockInv
<1> QED
  BY <1>1, <1>2, <1>3, <1>4 DEF SafeInv, TypeInv

LEMMA CheckTypeSafe ==
    ASSUME SafeInv, NEW p \in Proc, CheckType(p)
    PROVE  SafeInv'
<1> USE TypesFacts, BlankFacts
<1> DEFINE k == Types[turn[p]]
<1>1. /\ turn[p] \in 1..Len(Types) /\ k \in Kinds /\ step[p] = "check" /\ lock[k] = {}
  BY DEF SafeInv, LockInv, CheckType
<1>2. log[p] \in Lines /\ EntryOf(log[p], k) \in Entries
  BY <1>1 DEF SafeInv, TypeInv, RunTypes, Lines, Counts, Entries, EntryOf
<1>3. SyslogTypes'
  <2>1. counted' \in Counts
    <3>1. \A d \in Dests : counted[k][d] \in Nat /\ Increase(p, k, d) \in Nat
      BY <1>1, IncreaseType DEF SafeInv, TypeInv, SyslogTypes, Counts
    <3>2. \A a, b \in Nat : a + b \in Nat /\ a + 0 \in Nat
      OBVIOUS
    <3>3. [d \in Dests |-> counted[k][d] + IF use # "any" /\ DiffSecs(p, k) > 0 THEN Increase(p, k, d) ELSE 0] \in [Dests -> Nat]
      BY <3>1, <3>2
    <3> QED
      BY <3>3 DEF SafeInv, TypeInv, SyslogTypes, Counts, CheckType
  <2> QED
    BY <2>1 DEF SafeInv, TypeInv, SyslogTypes, CheckType, syslog, Calendar
<1>4. FileTypes'
  BY <1>1 DEF SafeInv, TypeInv, FileTypes, CheckType
<1>5. status' \in [Proc -> Results] /\ \A q \in Proc : status'[q].status = "OK" => status'[q].high = {}
  <2>1. PICK s \in StatusAfter(p, k) : status' = [status EXCEPT ![p] = [status |-> s, high |-> @.high \cup ({k} \X High(p, k))]]
    BY DEF CheckType
  <2>2. status[p] \in Results /\ High(p, k) \subseteq Dests
    BY DEF SafeInv, TypeInv, RunTypes, High
  <2>3. CASE High(p, k) = {}
    <3>1. s = status[p].status /\ status[p].high \cup ({k} \X High(p, k)) = status[p].high
      BY <2>1, <2>3 DEF StatusAfter
    <3> QED
      BY <2>1, <2>2, <3>1 DEF SafeInv, TypeInv, RunTypes, QuietInv, Results
  <2>4. CASE High(p, k) # {}
    <3>1. s \in {"WARNING", "CRITICAL"}
      BY <2>1, <2>4 DEF StatusAfter, Level
    <3>2. [status |-> s, high |-> status[p].high \cup ({k} \X High(p, k))] \in Results
      BY <1>1, <2>2, <3>1 DEF Results, Statuses
    <3> QED
      BY <2>1, <3>1, <3>2 DEF SafeInv, TypeInv, RunTypes, QuietInv
  <2> QED
    BY <2>3, <2>4
<1>6. RunTypes'
  <2>1. pending' \in [Proc -> Entries] /\ base' \in [Proc -> Nat]
    BY <1>1, <1>2, IncreaseType DEF SafeInv, TypeInv, RunTypes, CheckType, EntryOf
  <2>2. turn' \in [Proc -> 0..(Len(Types) + 1)]
    BY <1>1 DEF SafeInv, TypeInv, RunTypes, CheckType
  <2> QED
    BY <1>5, <2>1, <2>2 DEF SafeInv, TypeInv, RunTypes, CheckType
<1>7. LockInv'
  <2>1. /\ turn'[p] - 1 = turn[p] /\ step'[p] = "test"
        /\ \A q \in Proc : q # p => turn'[q] = turn[q] /\ step'[q] = step[q]
    BY <1>1 DEF SafeInv, TypeInv, RunTypes, CheckType
  <2>2. lock'[k] = {p} /\ \A j \in Kinds : lock[j] \subseteq Proc /\ (j # k => lock'[j] = lock[j] /\ p \notin lock[j])
    BY <1>1 DEF SafeInv, TypeInv, FileTypes, LockInv, CheckType
  <2> QED
    BY <1>1, <2>1, <2>2 DEF SafeInv, LockInv
<1>8. QuietInv'
  BY <1>5 DEF SafeInv, QuietInv, CheckType
<1> QED
  BY <1>3, <1>4, <1>6, <1>7, <1>8 DEF SafeInv, TypeInv

\* A run that ends in any way: quit, an alarm, a busy lock or a kill.
Ends(p) == LockBusy(p) \/ Quit(p) \/ Timeout(p) \/ TimeoutInCheck(p) \/ Kill(p)

LEMMA EndsSafe ==
    ASSUME SafeInv, NEW p \in Proc, Ends(p)
    PROVE  SafeInv'
<1> USE TypesFacts, BlankFacts
<1>1. Die(p) /\ UNCHANGED syslog /\ UNCHANGED exists /\ UNCHANGED counted
  BY DEF Ends, LockBusy, Quit, Timeout, TimeoutInCheck, Kill
<1>2. file' \in [Kinds -> Entries]
  <2>1. CASE Quit(p) \/ Timeout(p)
    BY <2>1, CloseType DEF SafeInv, Quit, Timeout
  <2>2. CASE LockBusy(p) \/ Kill(p)
    BY <2>2 DEF LockBusy, Kill, SafeInv, TypeInv, FileTypes
  <2>3. CASE TimeoutInCheck(p)
    <3> DEFINE k == Types[turn[p]]
               Part(D) == [ts |-> log[p].ts, num |-> [d \in Dests |-> IF d \in D THEN log[p].num[k][d] ELSE 0]]
    <3>1. k \in Kinds
      BY <2>3 DEF SafeInv, LockInv, TimeoutInCheck
    <3>2. \A D \in SUBSET Dests : Part(D) \in Entries
      BY <3>1 DEF SafeInv, TypeInv, RunTypes, Lines, Counts, Entries
    <3>3. PICK D \in SUBSET Dests : file' = [file EXCEPT ![k] =
                CASE ~Rewrites(p, k) -> @ [] Rewrites(p, k) /\ D = {} -> Blank [] OTHER -> Part(D)]
      BY <2>3 DEF TimeoutInCheck
    <3> HIDE DEF Part
    <3>4. file' = [file EXCEPT ![k] = file[k]] \/ file' = [file EXCEPT ![k] = Blank] \/ file' = [file EXCEPT ![k] = Part(D)]
      BY <3>3
    <3> QED
      BY <3>1, <3>2, <3>4 DEF SafeInv, TypeInv, FileTypes
  <2> QED
    BY <2>1, <2>2, <2>3 DEF Ends
<1>3. out' \in [Proc -> Results] /\ \A q \in Proc : out'[q].status = "OK" => out'[q].high = {}
  <2>1. [status |-> "UNKNOWN", high |-> {}] \in Results
    BY DEF Results, Statuses
  <2>2. CASE Quit(p)
    BY <2>2 DEF Quit, SafeInv, TypeInv, RunTypes, QuietInv
  <2>3. CASE LockBusy(p) \/ Timeout(p) \/ TimeoutInCheck(p) \/ Kill(p)
    <3>1. out' = [out EXCEPT ![p] = [status |-> "UNKNOWN", high |-> {}]] \/ out' = out
      BY <2>3 DEF LockBusy, Timeout, TimeoutInCheck, Kill
    <3>2. out \in [Proc -> Results] /\ \A q \in Proc : out[q].status = "OK" => out[q].high = {}
      BY DEF SafeInv, TypeInv, RunTypes, QuietInv
    <3>3. [status |-> "UNKNOWN", high |-> {}].high = {}
      OBVIOUS
    <3> QED
      BY <2>1, <3>1, <3>2, <3>3
  <2> QED
    BY <2>2, <2>3 DEF Ends
<1>4. SyslogTypes'
  BY <1>1 DEF SafeInv, TypeInv, SyslogTypes, syslog, Calendar
<1>5. LockInv' /\ RunTypes' /\ FileTypes' /\ QuietInv'
  BY <1>1, <1>2, <1>3, DieType DEF SafeInv, TypeInv, FileTypes, RunTypes, QuietInv
<1> QED
  BY <1>4, <1>5 DEF SafeInv, TypeInv

LEMMA SafeStep == SafeInv /\ [Next]_vars => SafeInv'
<1> SUFFICES ASSUME SafeInv, [Next]_vars PROVE SafeInv'
  OBVIOUS
<1>1. CASE UNCHANGED vars
  BY <1>1 DEF vars, SafeInv, TypeInv, SyslogTypes, FileTypes, RunTypes, LockInv, QuietInv, Calendar
<1> QED
  BY <1>1, SyslogSafe, StartSafe, TestFileSafe, OpenFileSafe, CheckTypeSafe, EndsSafe DEF Next, Run, Ends

LEMMA SafeInit == Init => SafeInv
<1> SUFFICES ASSUME Init PROVE SafeInv
  OBVIOUS
<1> USE BlankFacts, TypesFacts, TstampFacts DEF Init
<1>1. 0 \in 0..(Len(Types) + 1) /\ 1 \in 1..Len(Calendar)
  OBVIOUS
<1>2. SyslogTypes
  BY <1>1 DEF SyslogTypes, Counts
<1>3. FileTypes /\ RunTypes
  BY <1>1 DEF FileTypes, RunTypes
<1>4. LockInv /\ QuietInv
  BY DEF LockInv, QuietInv
<1> QED
  BY <1>2, <1>3, <1>4 DEF SafeInv, TypeInv

LEMMA Safe == Spec => []SafeInv
BY SafeInit, SafeStep, PTL DEF Spec

\* Every variable keeps its type, and a state file is locked by one run at most
\* (SyslogNgStats): the growth that is counted, for one, is never negative.
THEOREM SyslogTypeCorrect == Spec => []TypeOK
<1>1. SafeInv => TypeOK
  <2> SUFFICES ASSUME SafeInv PROVE TypeOK
    OBVIOUS
  <2>1. \A k \in Kinds : file[k].ts \in Nat /\ file[k].num \in [Dests -> Nat]
    BY DEF SafeInv, TypeInv, FileTypes, Entries
  <2>2. ASSUME NEW k \in Kinds PROVE Cardinality(lock[k]) <= 1
    <3>1. CASE lock[k] = {}
      BY <3>1, FS_EmptySet
    <3>2. CASE lock[k] # {}
      <4>1. PICK p \in lock[k] : TRUE
        BY <3>2
      <4>2. lock[k] = {p}
        BY <4>1 DEF SafeInv, LockInv
      <4>3. Cardinality({p}) = 1
        BY FS_Singleton
      <4> QED
        BY <4>2, <4>3
    <3> QED
      BY <3>1, <3>2
  <2>3. \A p \in Proc : out[p].status \in Statuses
    BY DEF SafeInv, TypeInv, RunTypes, Results
  <2> QED
    BY <2>1, <2>2, <2>3 DEF SafeInv, TypeInv, SyslogTypes, RunTypes, Counts, TypeOK
<1> QED
  BY <1>1, Safe, PTL

\* A run that prints OK has seen no destination of any type at a threshold, for any
\* number of types and destinations, each of which may rewrite the one status.
THEOREM OkIsQuiet == Spec => []OkHidesNothing
<1>1. SafeInv => OkHidesNothing
  BY DEF SafeInv, QuietInv, OkHidesNothing
<1> QED
  BY <1>1, Safe, PTL

-----------------------------------------------------------------------------
(* No message is counted twice, as long as the plugin is not used anyhow.    *)
(*                                                                           *)
(* Let m be the messages there were when each line was written, by the day   *)
(* of the line.  A state file, with what the run that holds it is about to   *)
(* print to it, has the counters of some line, and no more was counted than  *)
(* there were when that line was written.                                    *)

Busy(p) == turn[p] > 0

\* From n to n2 a counter grew with the messages there were, or was reset
\* meanwhile, and then counts only messages from later than t.
Grew(n, t, n2, t2) == (n2 >= n /\ n2 - n = t2 - t) \/ n2 <= t2 - t

\* What the plugin's use says of the runs: their lines are lines of syslog-ng, and
\* one runs at a time unless the state files are there.
UseInv ==
    /\ \A p \in Proc : Busy(p) => log[p] \in logs
    /\ \/ use = "overlapping" /\ \A k \in Kinds : exists[k]
       \/ \A p, q \in Proc : Busy(p) /\ Busy(q) => p = q
    /\ use = "in order" => \A p \in Proc : Busy(p) => log[p].day = given
    /\ given = 0 \/ \E l \in logs : l.day = given
    /\ use = "overlapping" => given = 0

\* A file that is opened to be emptied is not there yet; one that is not there is
\* empty, and no run is at it.
NewInv ==
    /\ \A p \in Proc : /\ step[p] = "open" /\ ~found[p] => ~exists[Types[turn[p]]]
                       /\ step[p] = "check" => exists[Types[turn[p]]]
    /\ \A k \in Kinds : ~exists[k] => file[k] = Blank /\ lock[k] = {}

\* What a run has printed, and not yet written, is its line, and the file is empty.
PrintInv ==
    \A k \in Kinds : \A p \in lock[k] :
        pending[p] # Blank => file[k] = Blank /\ pending[p] = EntryOf(log[p], k)

\* One line a day at most.
DayInv ==
    /\ \A l \in logs : l.day \in 1..time /\ l.ts = Tstamp(l.day)
    /\ \A l, l2 \in logs : l.day = l2.day => l = l2

LineInv(m) ==
    /\ m \in [Nat -> Counts] /\ \A k \in Kinds, d \in Dests : m[0][k][d] = 0
    /\ \A k \in Kinds, d \in Dests, l \in logs :
        /\ \A l2 \in logs : l.day < l2.day =>
              Grew(l.num[k][d], m[l.day][k][d], l2.num[k][d], m[l2.day][k][d])
        /\ Grew(l.num[k][d], m[l.day][k][d], cnt[k][d], made[k][d])

\* The entry e of a state file is that of a line up to which alone messages of the
\* type k were counted, or part of it; if it is empty, then nothing was counted, or
\* a run has died and no line of an earlier day will come.
Backed(k, e, m) ==
    /\ e # Blank => \E l \in logs :
          /\ e.ts = l.ts /\ (use = "in order" => l.day <= given)
          /\ \A d \in Dests : e.num[d] \in {0, l.num[k][d]} /\ counted[k][d] <= m[l.day][k][d]
    /\ e = Blank /\ use # "in order" => \A d \in Dests : counted[k][d] = 0
    /\ use = "in order" => \A d \in Dests : counted[k][d] <= m[given][k][d]

BackInv(m) ==
    \A k \in Kinds :
        /\ \A p \in lock[k] : pending[p] # Blank => Backed(k, pending[p], m)
        /\ (\A p \in lock[k] : pending[p] = Blank) => Backed(k, file[k], m)

OrderInv == UseInv /\ NewInv /\ PrintInv /\ DayInv
CountInv == OrderInv /\ \E m : LineInv(m) /\ BackInv(m)

-----------------------------------------------------------------------------

LEMMA SyslogOrder ==
    ASSUME SafeInv, OrderInv, Syslog
    PROVE  OrderInv'
<1>1. /\ use' = use /\ given' = given /\ log' = log /\ turn' = turn /\ step' = step /\ found' = found
      /\ exists' = exists /\ file' = file /\ lock' = lock /\ pending' = pending
      /\ logs \subseteq logs' /\ \A t : Tstamp(t)' = Tstamp(t)
  <2>1. use' = use /\ logs \subseteq logs'
    BY DEF Syslog, Message, WriteLog, Restart, Tick
  <2> QED
    BY <2>1 DEF Syslog, files, Tstamp, Calendar
<1>2. UseInv' /\ NewInv' /\ PrintInv'
  BY <1>1 DEF OrderInv, UseInv, NewInv, PrintInv, Busy
<1>3. DayInv'
  <2>0. time \in Nat /\ time >= 1
    BY TstampFacts DEF SafeInv, TypeInv, SyslogTypes
  <2>1. CASE WriteLog
    <3> DEFINE l == [day |-> time, ts |-> Tstamp(time), num |-> cnt]
    <3>1. time' = time /\ logs' = logs \cup {l} /\ \A o \in logs : o.day # time
      BY <2>1 DEF WriteLog
    <3>2. l.day = time /\ l.ts = Tstamp(time)
      OBVIOUS
    <3> HIDE DEF l
    <3> QED
      BY <1>1, <2>0, <3>1, <3>2 DEF OrderInv, DayInv
  <2>2. CASE ~WriteLog
    <3>1. logs' = logs /\ time' \in {time, time + 1}
      BY <2>2 DEF Syslog, Message, Restart, Tick
    <3>2. \A l \in logs : l.day \in 1..time' /\ l.ts = Tstamp(l.day)
      BY <2>0, <3>1 DEF OrderInv, DayInv
    <3> QED
      BY <1>1, <3>1, <3>2 DEF OrderInv, DayInv
  <2> QED
    BY <2>1, <2>2
<1> QED
  BY <1>2, <1>3 DEF OrderInv

\* A step of a run leaves the lines alone.
LEMMA DaysStay ==
    ASSUME DayInv, UNCHANGED <<logs, time, use>>
    PROVE  DayInv'
<1>1. \A t : Tstamp(t)' = Tstamp(t)
  BY DEF Tstamp, Calendar
<1> QED
  BY <1>1 DEF DayInv

LEMMA StartOrder ==
    ASSUME SafeInv, OrderInv, use # "any", NEW p \in Proc, Start(p)
    PROVE  OrderInv'
<1> USE TypesFacts
<1>1. /\ UNCHANGED <<time, logs, use, exists, file, lock, step, found, pending>>
      /\ turn[p] = 0 /\ turn'[p] = 1
      /\ \A q \in Proc : q # p => turn'[q] = turn[q] /\ log'[q] = log[q]
  BY DEF Start, files, SafeInv, TypeInv, RunTypes
<1>2. PICK l \in logs : /\ log'[p] = l /\ (use = "in order" => l.day > given)
                        /\ given' = IF use = "in order" THEN l.day ELSE given
  BY DEF Start, SafeInv, TypeInv, RunTypes
<1>3. step[p] = "test" /\ \A k \in Kinds : p \notin lock[k]
  <2>1. ~(0 - 1 \in 1..Len(Types)) /\ ~(0 \in 1..Len(Types))
    OBVIOUS
  <2> QED
    BY <1>1, <2>1 DEF SafeInv, LockInv
<1>4. UseInv'
  <2>1. \A q \in Proc : Busy(q)' => log'[q] \in logs
    BY <1>1, <1>2 DEF OrderInv, UseInv, Busy
  <2>2. \/ use = "overlapping" /\ \A k \in Kinds : exists[k]
        \/ \A q \in Proc : q # p => ~(turn[q] > 0)
    <3>1. (use = "overlapping" /\ \A k \in Kinds : exists[k]) \/ \A q \in Proc : turn[q] = 0
      BY DEF Start
    <3>2. ~(0 > 0)
      OBVIOUS
    <3> QED
      BY <3>1, <3>2
  <2>3. use = "in order" => \A q \in Proc : Busy(q)' => log'[q].day = given'
    BY <1>1, <1>2, <2>2 DEF Busy
  <2>4. /\ given' = 0 \/ \E o \in logs : o.day = given'
        /\ use = "overlapping" => given' = 0
    BY <1>2 DEF OrderInv, UseInv
  <2>5. \/ use = "overlapping" /\ \A k \in Kinds : exists[k]
        \/ \A q, r \in Proc : Busy(q)' /\ Busy(r)' => q = r
    BY <1>1, <2>2 DEF Busy
  <2> QED
    BY <1>1, <2>1, <2>3, <2>4, <2>5 DEF UseInv
<1>5. NewInv'
  BY <1>1, <1>3 DEF OrderInv, NewInv
<1>6. PrintInv'
  <2>1. \A k \in Kinds : lock[k] \subseteq Proc
    BY DEF SafeInv, TypeInv, FileTypes
  <2> QED
    BY <1>1, <1>3, <2>1 DEF OrderInv, PrintInv
<1> QED
  BY <1>1, <1>4, <1>5, <1>6, DaysStay DEF OrderInv

\* What UseInv asks of the runs holds on as long as none starts.
LEMMA UseStays ==
    ASSUME UseInv, UNCHANGED <<logs, use, given>>,
           \A q \in Proc : Busy(q)' => Busy(q) /\ log'[q] = log[q],
           \A k \in Kinds : exists[k] => exists'[k]
    PROVE  UseInv'
BY DEF UseInv

LEMMA TestFileOrder ==
    ASSUME SafeInv, OrderInv, NEW p \in Proc, TestFile(p)
    PROVE  OrderInv'
<1> USE TypesFacts
<1>1. /\ UNCHANGED <<time, logs, use, given, exists, file, lock, turn, log, pending>>
      /\ found'[p] = exists[Types[turn[p]]] /\ step'[p] = "open"
      /\ \A q \in Proc : q # p => step'[q] = step[q] /\ found'[q] = found[q]
  BY DEF TestFile, syslog, files, SafeInv, TypeInv, RunTypes
<1>2. UseInv' /\ PrintInv'
  BY <1>1, UseStays DEF OrderInv, PrintInv, Busy
<1>3. NewInv'
  BY <1>1 DEF OrderInv, NewInv
<1> QED
  BY <1>1, <1>2, <1>3, DaysStay DEF OrderInv

\* In OpenFile the file that is emptied is empty: what is done to the files is
\* what closing the handle does.
LEMMA OpenFileCloses ==
    ASSUME SafeInv, OrderInv, NEW p \in Proc, OpenFile(p)
    PROVE  file' = Flushed(p)
<1> USE TypesFacts
<1> DEFINE k == Types[turn[p]]
<1>1. k \in Kinds /\ file' = IF found[p] THEN Flushed(p) ELSE [Flushed(p) EXCEPT ![k] = Blank]
  BY DEF OpenFile, SafeInv, LockInv
<1>2. CASE ~found[p]
  <2>1. file[k] = Blank /\ lock[k] = {}
    BY <1>1, <1>2 DEF OpenFile, OrderInv, NewInv
  <2>2. Flushed(p)[k] = Blank /\ DOMAIN Flushed(p) = Kinds
    BY <1>1, <2>1 DEF Flushed
  <2>3. Flushed(p) \in [Kinds -> Entries]
    BY CloseType DEF SafeInv
  <2> HIDE DEF k
  <2> QED
    BY <1>1, <1>2, <2>2, <2>3
<1> QED
  BY <1>1, <1>2

LEMMA OpenFileOrder ==
    ASSUME SafeInv, OrderInv, NEW p \in Proc, OpenFile(p)
    PROVE  OrderInv'
<1> USE TypesFacts
<1> DEFINE k == Types[turn[p]]
<1>1. /\ UNCHANGED <<time, logs, use, given, turn, log, found>>
      /\ exists' = [exists EXCEPT ![k] = TRUE] /\ k \in Kinds
      /\ step[p] = "open" /\ step'[p] = "check" /\ pending'[p] = Blank /\ Busy(p)
      /\ \A q \in Proc : q # p => step'[q] = step[q] /\ pending'[q] = pending[q]
  BY DEF OpenFile, syslog, SafeInv, TypeInv, RunTypes, LockInv, Busy
<1>2. \A j \in Kinds : /\ p \notin lock'[j] /\ lock'[j] \subseteq lock[j] /\ lock[j] \subseteq Proc
                       /\ file'[j] = IF p \in lock[j] /\ pending[p] # Blank THEN pending[p] ELSE file[j]
  <2>1. file' = Flushed(p) /\ lock' = Unlocked(p)
    BY OpenFileCloses DEF OpenFile
  <2> QED
    BY <2>1, CloseType DEF SafeInv, TypeInv, FileTypes
<1>3. \A j \in Kinds : exists'[j] = (exists[j] \/ j = k)
  BY <1>1 DEF SafeInv, TypeInv, FileTypes
<1>4. UseInv'
  <2>1. \A q \in Proc : Busy(q)' => Busy(q) /\ log'[q] = log[q]
    BY <1>1 DEF Busy
  <2> QED
    BY <1>1, <1>3, <2>1, UseStays DEF OrderInv
<1>5. NewInv'
  <2>1. ASSUME NEW q \in Proc, step'[q] = "open", ~found'[q] PROVE ~exists'[Types[turn'[q]]]
    <3>1. q # p /\ step[q] = "open" /\ ~found[q] /\ Types[turn[q]] \in Kinds /\ Busy(q)
      BY <1>1, <2>1 DEF SafeInv, LockInv, Busy
    <3>2. ~exists[Types[turn[q]]]
      BY <3>1 DEF OrderInv, NewInv
    <3>3. FALSE
      BY <1>1, <3>1, <3>2 DEF OrderInv, UseInv
    <3> QED
      BY <3>3
  <2>2. ASSUME NEW q \in Proc, step'[q] = "check" PROVE exists'[Types[turn'[q]]]
    <3>1. CASE q = p
      BY <1>1, <1>3, <3>1
    <3>2. CASE q # p
      <4>1. step[q] = "check" /\ Types[turn[q]] \in Kinds
        BY <1>1, <2>2, <3>2 DEF SafeInv, LockInv
      <4> QED
        BY <1>1, <1>3, <4>1 DEF OrderInv, NewInv
    <3> QED
      BY <3>1, <3>2
  <2>3. ASSUME NEW j \in Kinds, ~exists'[j] PROVE file'[j] = Blank /\ lock'[j] = {}
    BY <1>2, <1>3, <2>3 DEF OrderInv, NewInv
  <2> QED
    BY <2>1, <2>2, <2>3 DEF NewInv
<1>6. PrintInv'
  <2> SUFFICES ASSUME NEW j \in Kinds, NEW q \in lock'[j], pending'[q] # Blank
               PROVE  file'[j] = Blank /\ pending'[q] = EntryOf(log'[q], j)
    BY DEF PrintInv, EntryOf
  <2>1. q # p /\ q \in lock[j] /\ q \in Proc
    BY <1>2
  <2>2. p \notin lock[j]
    BY <2>1 DEF SafeInv, LockInv
  <2> QED
    BY <1>1, <1>2, <2>1, <2>2 DEF OrderInv, PrintInv
<1> QED
  BY <1>1, <1>4, <1>5, <1>6, DaysStay DEF OrderInv

LEMMA CheckTypeOrder ==
    ASSUME SafeInv, OrderInv, NEW p \in Proc, CheckType(p)
    PROVE  OrderInv'
<1> USE TypesFacts
<1> DEFINE k == Types[turn[p]]
<1>1. /\ UNCHANGED <<time, logs, use, given, exists, log, found>>
      /\ k \in Kinds /\ lock[k] = {} /\ step[p] = "check" /\ step'[p] = "test" /\ Busy(p)
      /\ pending'[p] = IF Rewrites(p, k) THEN EntryOf(log[p], k) ELSE Blank
      /\ \A q \in Proc : q # p => step'[q] = step[q] /\ turn'[q] = turn[q] /\ pending'[q] = pending[q]
  BY DEF CheckType, syslog, SafeInv, TypeInv, RunTypes, LockInv, Busy, EntryOf
<1>2. /\ lock'[k] = {p} /\ file'[k] = IF DiffSecs(p, k) > 0 THEN Blank ELSE file[k]
      /\ \A j \in Kinds : /\ j # k => lock'[j] = lock[j] /\ file'[j] = file[j] /\ p \notin lock[j]
                          /\ lock[j] \subseteq Proc
  BY <1>1 DEF SafeInv, TypeInv, FileTypes, LockInv, CheckType
<1> HIDE DEF k
<1>3. UseInv'
  <2>1. \A q \in Proc : Busy(q)' => Busy(q) /\ log'[q] = log[q]
    BY <1>1 DEF Busy
  <2> QED
    BY <1>1, <2>1, UseStays DEF OrderInv
<1>4. NewInv'
  <2>1. exists[k]
    BY <1>1 DEF OrderInv, NewInv, k
  <2> QED
    BY <1>1, <1>2, <2>1 DEF OrderInv, NewInv
<1>5. PrintInv'
  <2> SUFFICES ASSUME NEW j \in Kinds, NEW q \in lock'[j], pending'[q] # Blank
               PROVE  file'[j] = Blank /\ pending'[q] = EntryOf(log'[q], j)
    BY DEF PrintInv, EntryOf
  <2>1. CASE j = k
    <3>1. q = p /\ Rewrites(p, k) /\ pending'[q] = EntryOf(log'[q], j)
      BY <1>1, <1>2, <2>1
    <3> QED
      BY <1>2, <2>1, <3>1 DEF Rewrites
  <2>2. CASE j # k
    <3>1. q \in lock[j] /\ q \in Proc /\ q # p
      BY <1>2, <2>2
    <3> QED
      BY <1>1, <1>2, <2>2, <3>1 DEF OrderInv, PrintInv
  <2> QED
    BY <2>1, <2>2
<1> QED
  BY <1>1, <1>3, <1>4, <1>5, DaysStay DEF OrderInv

\* How a run that ends leaves the files: written out, or as they are; or with
\* part of its line in the file it was at.
Part(p, k, D) == [ts |-> log[p].ts, num |-> [d \in Dests |-> IF d \in D THEN log[p].num[k][d] ELSE 0]]

LEMMA EndsFiles ==
    ASSUME SafeInv, NEW p \in Proc, Ends(p)
    PROVE  /\ UNCHANGED <<syslog, exists, counted>> /\ Die(p)
           /\ \/ file' = Flushed(p)
              \/ file' = file /\ \A k \in Kinds : p \notin lock[k]
              \/ file' = file /\ use # "overlapping"
              \/ /\ use # "overlapping" /\ step[p] = "check" /\ turn[p] \in 1..Len(Types)
                 /\ lock[Types[turn[p]]] = {}
                 /\ \/ file' = [file EXCEPT ![Types[turn[p]]] = Blank]
                    \/ \E D \in SUBSET Dests : file' = [file EXCEPT ![Types[turn[p]]] = Part(p, Types[turn[p]], D)]
<1>1. UNCHANGED <<syslog, exists, counted>> /\ Die(p)
  BY DEF Ends, LockBusy, Quit, Timeout, TimeoutInCheck, Kill
<1>2. CASE Quit(p) \/ Timeout(p)
  BY <1>1, <1>2 DEF Quit, Timeout
<1>3. CASE LockBusy(p)
  BY <1>1, <1>3 DEF LockBusy, SafeInv, LockInv
<1>4. CASE Kill(p)
  BY <1>1, <1>4 DEF Kill
<1>5. CASE TimeoutInCheck(p)
  <2> DEFINE k == Types[turn[p]]
  <2>1. /\ use # "overlapping" /\ step[p] = "check" /\ turn[p] \in 1..Len(Types) /\ lock[k] = {} /\ k \in Kinds
    BY <1>5, TypesFacts DEF TimeoutInCheck, SafeInv, LockInv
  <2>2. PICK D \in SUBSET Dests : file' = [file EXCEPT ![k] =
            CASE ~Rewrites(p, k) -> @ [] Rewrites(p, k) /\ D = {} -> Blank [] OTHER -> Part(p, k, D)]
    BY <1>5 DEF TimeoutInCheck, Part
  <2>3. \/ file' = [file EXCEPT ![k] = file[k]] \/ file' = [file EXCEPT ![k] = Blank]
        \/ file' = [file EXCEPT ![k] = Part(p, k, D)]
    BY <2>2
  <2>4. [file EXCEPT ![k] = file[k]] = file
    BY <2>1 DEF SafeInv, TypeInv, FileTypes
  <2> QED
    BY <1>1, <2>1, <2>3, <2>4
<1> QED
  BY <1>2, <1>3, <1>4, <1>5 DEF Ends

LEMMA EndsOrder ==
    ASSUME SafeInv, OrderInv, NEW p \in Proc, Ends(p)
    PROVE  OrderInv'
<1> USE TypesFacts
<1>1. /\ UNCHANGED <<time, logs, use, given, exists>>
      /\ step'[p] = "test" /\ turn'[p] = 0
      /\ \A q \in Proc : q # p => /\ step'[q] = step[q] /\ pending'[q] = pending[q] /\ turn'[q] = turn[q]
                                  /\ log'[q] = log[q] /\ found'[q] = found[q]
  BY EndsFiles DEF Die, syslog, SafeInv, TypeInv, RunTypes
<1>2. \A j \in Kinds : p \notin lock'[j] /\ lock'[j] \subseteq lock[j] /\ lock[j] \subseteq Proc
  BY CloseType, EndsFiles DEF SafeInv, Die, TypeInv, FileTypes
<1>3. UseInv'
  <2>1. \A q \in Proc : Busy(q)' => Busy(q) /\ log'[q] = log[q]
    BY <1>1 DEF Busy
  <2> QED
    BY <1>1, <2>1, UseStays DEF OrderInv
\* The files that change are those of p.
<1>4. \A j \in Kinds : file'[j] # file[j] => exists[j] /\ lock[j] \in {{}, {p}}
  <2>1. CASE file' = Flushed(p)
    BY <2>1, CloseType DEF SafeInv, OrderInv, NewInv, LockInv
  <2>2. CASE file' # Flushed(p) /\ file' # file
    <3> DEFINE k == Types[turn[p]]
    <3>1. /\ step[p] = "check" /\ turn[p] \in 1..Len(Types) /\ lock[k] = {}
          /\ \E e : file' = [file EXCEPT ![k] = e]
      BY <2>2, EndsFiles
    <3>2. exists[k]
      BY <3>1 DEF OrderInv, NewInv
    <3> HIDE DEF k
    <3> QED
      BY <3>1, <3>2 DEF SafeInv, TypeInv, FileTypes
  <2> QED
    BY <2>1, <2>2
<1>5. NewInv'
  BY <1>1, <1>2, <1>4 DEF OrderInv, NewInv
<1>6. PrintInv'
  <2> SUFFICES ASSUME NEW j \in Kinds, NEW q \in lock'[j], pending'[q] # Blank
               PROVE  file'[j] = Blank /\ pending'[q] = EntryOf(log'[q], j)
    BY DEF PrintInv, EntryOf
  <2>1. q # p /\ q \in lock[j] /\ q \in Proc
    BY <1>2
  <2> QED
    BY <1>1, <1>4, <2>1 DEF OrderInv, PrintInv
<1> QED
  BY <1>1, <1>3, <1>5, <1>6, DaysStay DEF OrderInv

LEMMA OrderStep ==
    ASSUME SafeInv, OrderInv, use # "any", [Next]_vars
    PROVE  OrderInv'
<1>1. CASE UNCHANGED vars
  <2>1. UseInv' /\ NewInv' /\ PrintInv'
    BY <1>1 DEF vars, OrderInv, UseInv, NewInv, PrintInv, Busy, EntryOf
  <2> QED
    BY <1>1, <2>1, DaysStay DEF vars, OrderInv
<1> QED
  BY <1>1, SyslogOrder, StartOrder, TestFileOrder, OpenFileOrder, CheckTypeOrder, EndsOrder DEF Next, Run, Ends

-----------------------------------------------------------------------------
(* The counts *)

LEMMA GrewFacts ==
    ASSUME NEW n \in Nat, NEW t \in Nat, NEW n2 \in Nat, NEW t2 \in Nat, Grew(n, t, n2, t2)
    PROVE  /\ t <= t2
           /\ Grew(n, t, n2 + 1, t2 + 1) /\ Grew(n, t, 0, t2)
           /\ \A c \in Nat : c <= t => c <= t2
           /\ \A c \in Nat : c <= t /\ n > n2 => c + n2 <= t2
           /\ \A c \in Nat : c <= t /\ ~(n > n2) => c + (n2 - n) <= t2
BY DEF Grew

LEMMA LineTypes ==
    ASSUME SafeInv, NEW m, LineInv(m), NEW l \in logs, NEW k \in Kinds, NEW d \in Dests
    PROVE  /\ l.day \in Nat /\ l.ts \in Nat /\ l.num[k][d] \in Nat /\ m[l.day][k][d] \in Nat
           /\ cnt[k][d] \in Nat /\ made[k][d] \in Nat /\ counted[k][d] \in Nat
<1>1. l \in Lines /\ m \in [Nat -> Counts] /\ cnt \in Counts /\ made \in Counts /\ counted \in Counts
  BY DEF SafeInv, TypeInv, SyslogTypes, LineInv
<1> QED
  BY <1>1 DEF Lines, Counts

\* No more messages were there when a line was written than there are, nor than
\* when a later line was.
LEMMA LinesGrow ==
    ASSUME SafeInv, DayInv, NEW m, LineInv(m), NEW l \in logs, NEW k \in Kinds, NEW d \in Dests
    PROVE  /\ m[l.day][k][d] <= made[k][d]
           /\ \A l2 \in logs : l.day <= l2.day => m[l.day][k][d] <= m[l2.day][k][d]
<1>1. m[l.day][k][d] <= made[k][d]
  <2>1. Grew(l.num[k][d], m[l.day][k][d], cnt[k][d], made[k][d])
    BY DEF LineInv
  <2> QED
    BY <2>1, LineTypes, GrewFacts
<1>2. ASSUME NEW l2 \in logs, l.day <= l2.day PROVE m[l.day][k][d] <= m[l2.day][k][d]
  <2>1. CASE l.day = l2.day
    BY <2>1, LineTypes
  <2>2. CASE l.day # l2.day
    <3>1. l.day < l2.day
      BY <1>2, <2>2, LineTypes
    <3>2. Grew(l.num[k][d], m[l.day][k][d], l2.num[k][d], m[l2.day][k][d])
      BY <3>1 DEF LineInv
    <3> QED
      BY <3>2, LineTypes, GrewFacts
  <2> QED
    BY <2>1, <2>2
<1> QED
  BY <1>1, <1>2

LEMMA BackStays ==
    ASSUME NEW m, BackInv(m), UNCHANGED <<logs, use, given, counted, file, lock, pending>>
    PROVE  BackInv(m)'
<1> SUFFICES ASSUME NEW k \in Kinds
             PROVE  /\ \A q \in lock'[k] : pending'[q] # Blank => Backed(k, pending[q], m)'
                    /\ (\A q \in lock'[k] : pending'[q] = Blank) => Backed(k, file[k], m)'
  BY DEF BackInv
<1>1. ASSUME NEW q \in lock'[k], pending'[q] # Blank PROVE Backed(k, pending[q], m)'
  <2>1. Backed(k, pending[q], m)
    BY <1>1 DEF BackInv
  <2> QED
    BY <2>1 DEF Backed
<1>2. ASSUME \A q \in lock'[k] : pending'[q] = Blank PROVE Backed(k, file[k], m)'
  <2>1. Backed(k, file[k], m)
    BY <1>2 DEF BackInv
  <2> QED
    BY <2>1 DEF Backed
<1> QED
  BY <1>1, <1>2

LEMMA SyslogCounts ==
    ASSUME SafeInv, SafeInv', OrderInv, OrderInv', Syslog, NEW m, LineInv(m), BackInv(m)
    PROVE  \E m2 : LineInv(m2)' /\ BackInv(m2)'
<1>1. /\ UNCHANGED <<use, given, counted, file, lock, pending>> /\ logs \subseteq logs'
      /\ made' \in Counts /\ made \in Counts /\ cnt \in Counts
  BY DEF Syslog, files, Message, WriteLog, Restart, Tick, SafeInv, TypeInv, SyslogTypes
<1>2. \A m2 : (\A l \in logs : m2[l.day] = m[l.day]) /\ m2[given] = m[given] => BackInv(m2)'
  <2> SUFFICES ASSUME NEW m2, \A l \in logs : m2[l.day] = m[l.day], m2[given] = m[given], NEW k \in Kinds
               PROVE  /\ \A p \in lock'[k] : pending'[p] # Blank => Backed(k, pending[p], m2)'
                      /\ (\A p \in lock'[k] : pending'[p] = Blank) => Backed(k, file[k], m2)'
    BY DEF BackInv
  <2>2. ASSUME NEW p \in lock'[k], pending'[p] # Blank PROVE Backed(k, pending[p], m2)'
    <3>1. Backed(k, pending[p], m)
      BY <1>1, <2>2 DEF BackInv
    <3> QED
      BY <1>1, <3>1 DEF Backed
  <2>3. ASSUME \A p \in lock'[k] : pending'[p] = Blank PROVE Backed(k, file[k], m2)'
    <3>1. Backed(k, file[k], m)
      BY <1>1, <2>3 DEF BackInv
    <3> QED
      BY <1>1, <3>1 DEF Backed
  <2> QED
    BY <2>2, <2>3
<1>3. CASE ~WriteLog
  <2>1. logs' = logs /\ (UNCHANGED <<cnt, made>> \/ Message \/ Restart)
    BY <1>3 DEF Syslog, Message, Restart, Tick
  <2>2. ASSUME NEW k \in Kinds, NEW d \in Dests, NEW l \in logs
        PROVE  Grew(l.num[k][d], m[l.day][k][d], cnt'[k][d], made'[k][d])
    <3>0. Grew(l.num[k][d], m[l.day][k][d], cnt[k][d], made[k][d])
      BY DEF LineInv
    <3>1. CASE UNCHANGED <<cnt, made>>
      BY <3>0, <3>1
    <3>2. CASE Message
      <4>1. \/ cnt'[k][d] = cnt[k][d] + 1 /\ made'[k][d] = made[k][d] + 1
            \/ cnt'[k][d] = cnt[k][d] /\ made'[k][d] = made[k][d]
        BY <1>1, <3>2 DEF Message, Counts
      <4> DEFINE n == l.num[k][d]
                 t == m[l.day][k][d]
                 n2 == cnt[k][d]
                 t2 == made[k][d]
      <4>2. n \in Nat /\ t \in Nat /\ n2 \in Nat /\ t2 \in Nat /\ Grew(n, t, n2, t2)
        BY <3>0, LineTypes
      <4> HIDE DEF n, t, n2, t2
      <4>3. Grew(n, t, n2 + 1, t2 + 1)
        BY <4>2, GrewFacts
      <4>4. Grew(l.num[k][d], m[l.day][k][d], cnt[k][d] + 1, made[k][d] + 1)
        BY <4>3 DEF n, t, n2, t2
      <4> QED
        BY <3>0, <4>1, <4>4
    <3>3. CASE Restart
      <4>1. cnt'[k][d] = 0 /\ made' = made
        BY <3>3, BlankFacts DEF Restart
      <4> QED
        BY <3>0, <4>1, LineTypes, GrewFacts
    <3> QED
      BY <2>1, <3>1, <3>2, <3>3
  <2>3. LineInv(m)'
    BY <2>1, <2>2 DEF LineInv
  <2> QED
    BY <1>2, <2>3
<1>4. CASE WriteLog
  <2> DEFINE line == [day |-> time, ts |-> Tstamp(time), num |-> cnt]
  <2>1. /\ UNCHANGED <<cnt, made>> /\ logs' = logs \cup {line} /\ line.day = time /\ line.num = cnt
        /\ \A l \in logs : l.day # time
    BY <1>4 DEF WriteLog
  <2>2. time \in Nat \ {0}
    BY TstampFacts DEF SafeInv, TypeInv, SyslogTypes
  <2>3. \A l \in logs : l.day \in Nat /\ l.day < time
    BY <2>1, <2>2 DEF OrderInv, DayInv
  <2>4. m \in [Nat -> Counts] /\ given \in Nat /\ given # time
    BY <2>1, <2>2 DEF LineInv, SafeInv, TypeInv, SyslogTypes, OrderInv, UseInv
  <2>5. PICK m2 : m2 \in [Nat -> Counts] /\ m2[time] = made /\ \A t \in Nat : t # time => m2[t] = m[t]
    <3> DEFINE new == [m EXCEPT ![time] = made]
    <3>1. new \in [Nat -> Counts] /\ new[time] = made /\ \A t \in Nat : t # time => new[t] = m[t]
      BY <1>1, <2>2, <2>4
    <3> QED
      BY <3>1
  <2> HIDE DEF line
  <2>6. \A l \in logs : m2[l.day] = m[l.day]
    BY <2>3, <2>5
  <2>7. LineInv(m2)'
    <3>0. \A k \in Kinds, d \in Dests : m2[0][k][d] = 0
      BY <2>2, <2>5 DEF LineInv
    <3> SUFFICES ASSUME NEW k \in Kinds, NEW d \in Dests, NEW l \in logs'
                 PROVE  /\ \A l2 \in logs' : l.day < l2.day =>
                              Grew(l.num[k][d], m2[l.day][k][d], l2.num[k][d], m2[l2.day][k][d])
                        /\ Grew(l.num[k][d], m2[l.day][k][d], cnt[k][d], made[k][d])
      BY <2>1, <2>5, <3>0 DEF LineInv
    <3>1. CASE l = line
      <4>1. \A l2 \in logs' : ~(l.day < l2.day)
        BY <2>1, <2>2, <2>3, <3>1
      <4>2. cnt[k][d] \in Nat /\ made[k][d] \in Nat
        BY <1>1 DEF Counts
      <4>3. Grew(cnt[k][d], made[k][d], cnt[k][d], made[k][d])
        BY <4>2 DEF Grew
      <4> QED
        BY <2>1, <2>5, <3>1, <4>1, <4>3
    <3>2. CASE l \in logs
      BY <2>1, <2>5, <2>6, <3>2 DEF LineInv
    <3> QED
      BY <2>1, <3>1, <3>2
  <2>8. m2[given] = m[given]
    BY <2>4, <2>5
  <2> QED
    BY <1>2, <2>6, <2>7, <2>8
<1> QED
  BY <1>3, <1>4

\* Closing the handle moves what a run has printed to the file.
LEMMA BackClosed ==
    ASSUME SafeInv, NEW m, BackInv(m), NEW p \in Proc,
           file' = Flushed(p), lock' = Unlocked(p), UNCHANGED <<logs, use, given, counted>>,
           \A q \in Proc : q # p => pending'[q] = pending[q]
    PROVE  BackInv(m)'
<1> SUFFICES ASSUME NEW k \in Kinds
             PROVE  /\ \A q \in lock'[k] : pending'[q] # Blank => Backed(k, pending[q], m)'
                    /\ (\A q \in lock'[k] : pending'[q] = Blank) => Backed(k, file[k], m)'
  BY DEF BackInv
<1>1. /\ lock'[k] = lock[k] \ {p} /\ lock[k] \subseteq Proc
      /\ file'[k] = IF p \in lock[k] /\ pending[p] # Blank THEN pending[p] ELSE file[k]
  BY CloseType DEF SafeInv, TypeInv, FileTypes, Unlocked
<1>2. CASE p \in lock[k]
  <2>1. lock[k] = {p} /\ lock'[k] = {}
    BY <1>1, <1>2 DEF SafeInv, LockInv
  <2>2. Backed(k, file'[k], m)
    BY <1>1, <1>2, <2>1 DEF BackInv
  <2> QED
    BY <2>1, <2>2 DEF Backed
<1>3. CASE p \notin lock[k]
  <2>1. lock'[k] = lock[k] /\ file'[k] = file[k] /\ \A q \in lock[k] : pending'[q] = pending[q]
    BY <1>1, <1>3
  <2>2. ASSUME NEW q \in lock'[k], pending'[q] # Blank PROVE Backed(k, pending[q], m)'
    <3>1. Backed(k, pending[q], m) /\ pending'[q] = pending[q]
      BY <2>1, <2>2 DEF BackInv
    <3> QED
      BY <3>1 DEF Backed
  <2>3. ASSUME \A q \in lock'[k] : pending'[q] = Blank PROVE Backed(k, file[k], m)'
    <3>1. Backed(k, file[k], m)
      BY <2>1, <2>3 DEF BackInv
    <3> QED
      BY <2>1, <3>1 DEF Backed
  <2> QED
    BY <2>2, <2>3
<1> QED
  BY <1>2, <1>3

LEMMA StartCounts ==
    ASSUME SafeInv, OrderInv, use # "any", NEW m, LineInv(m), BackInv(m), NEW p \in Proc, Start(p)
    PROVE  BackInv(m)'
<1>1. UNCHANGED <<logs, use, counted, file, lock, pending>>
  BY DEF Start, files
<1>2. PICK l \in logs : /\ (use = "in order" => l.day > given)
                        /\ given' = IF use = "in order" THEN l.day ELSE given
  BY DEF Start
<1>3. given \in Nat /\ given' \in Nat /\ given <= given' /\ \A o \in logs : o.day \in Nat
  <2>1. given \in Nat /\ \A o \in logs : o.day \in Nat
    BY DEF SafeInv, TypeInv, SyslogTypes, Lines
  <2>2. given' = given \/ (given' = l.day /\ l.day > given)
    BY <1>2
  <2> QED
    BY <2>1, <2>2
<1>4. \A k \in Kinds, d \in Dests : counted[k][d] <= m[given][k][d] => counted[k][d] <= m[given'][k][d]
  <2> TAKE k \in Kinds, d \in Dests
  <2>1. CASE use # "in order"
    BY <1>2, <2>1
  <2>2. CASE use = "in order"
    <3>0. given' = l.day
      BY <1>2, <2>2
    <3>1. counted[k][d] \in Nat /\ m[l.day][k][d] \in Nat
      BY LineTypes
    <3>2. CASE given = 0
      <4>1. m[given][k][d] = 0
        BY <3>2 DEF LineInv
      <4> QED
        BY <3>0, <3>1, <4>1
    <3>3. CASE given # 0
      <4>1. PICK o \in logs : o.day = given
        BY <3>3 DEF OrderInv, UseInv
      <4>2. m[o.day][k][d] <= m[l.day][k][d] /\ m[o.day][k][d] \in Nat
        BY <1>3, <3>0, <4>1, LinesGrow, LineTypes DEF OrderInv
      <4> QED
        BY <3>0, <3>1, <4>1, <4>2
    <3> QED
      BY <3>2, <3>3
  <2> QED
    BY <2>1, <2>2
<1>5. ASSUME NEW k \in Kinds, NEW e, Backed(k, e, m) PROVE Backed(k, e, m)'
  <2>1. ASSUME e # Blank PROVE \E o \in logs : /\ e.ts = o.ts /\ (use = "in order" => o.day <= given')
          /\ \A d \in Dests : e.num[d] \in {0, o.num[k][d]} /\ counted[k][d] <= m[o.day][k][d]
    <3>1. PICK o \in logs : /\ e.ts = o.ts /\ (use = "in order" => o.day <= given)
          /\ \A d \in Dests : e.num[d] \in {0, o.num[k][d]} /\ counted[k][d] <= m[o.day][k][d]
      BY <1>5, <2>1 DEF Backed
    <3>2. \A a, b, c \in Nat : a <= b /\ b <= c => a <= c
      OBVIOUS
    <3>3. use = "in order" => o.day <= given'
      BY <1>3, <3>1, <3>2
    <3> QED
      BY <3>1, <3>3
  <2>2. e = Blank /\ use # "in order" => \A d \in Dests : counted[k][d] = 0
    BY <1>5 DEF Backed
  <2>3. use = "in order" => \A d \in Dests : counted[k][d] <= m[given'][k][d]
    BY <1>4, <1>5 DEF Backed
  <2> QED
    BY <1>1, <2>1, <2>2, <2>3 DEF Backed
<1> SUFFICES ASSUME NEW k \in Kinds
             PROVE  /\ \A q \in lock'[k] : pending'[q] # Blank => Backed(k, pending[q], m)'
                    /\ (\A q \in lock'[k] : pending'[q] = Blank) => Backed(k, file[k], m)'
  BY DEF BackInv
<1>6. ASSUME NEW q \in lock'[k], pending'[q] # Blank PROVE Backed(k, pending[q], m)'
  <2>1. PICK e : e = pending[q]
    OBVIOUS
  <2>2. Backed(k, e, m)
    BY <1>1, <1>6, <2>1 DEF BackInv
  <2>3. Backed(k, e, m)'
    BY <1>5, <2>2
  <2> QED
    BY <1>1, <2>1, <2>3 DEF Backed
<1>7. ASSUME \A q \in lock'[k] : pending'[q] = Blank PROVE Backed(k, file[k], m)'
  <2>1. PICK e : e = file[k]
    OBVIOUS
  <2>2. Backed(k, e, m)
    BY <1>1, <1>7, <2>1 DEF BackInv
  <2>3. Backed(k, e, m)'
    BY <1>5, <2>2
  <2> QED
    BY <1>1, <2>1, <2>3 DEF Backed
<1> QED
  BY <1>6, <1>7

\* The lines before that of a run: the file has one that is not later, and shows
\* it as earlier only if it is.
LEMMA BaseIsEarlier ==
    ASSUME SafeInv, OrderInv, use # "any", NEW m, LineInv(m), BackInv(m), NEW p \in Proc, Busy(p),
           NEW k \in Kinds, lock[k] = {}, DiffSecs(p, k) > 0, file[k] # Blank
    PROVE  \E l0 \in logs : /\ l0.day <= log[p].day
              /\ \A d \in Dests : file[k].num[d] \in {0, l0.num[k][d]} /\ counted[k][d] <= m[l0.day][k][d]
<1>1. Backed(k, file[k], m)
  BY DEF BackInv
<1>2. PICK l0 \in logs : /\ file[k].ts = l0.ts /\ (use = "in order" => l0.day <= given)
              /\ \A d \in Dests : file[k].num[d] \in {0, l0.num[k][d]} /\ counted[k][d] <= m[l0.day][k][d]
  BY <1>1 DEF Backed
<1>3. log[p] \in logs
  BY DEF OrderInv, UseInv
<1>4. l0.day <= log[p].day
  <2>1. CASE use = "in order"
    BY <1>2, <2>1 DEF OrderInv, UseInv
  <2>2. CASE use = "overlapping"
    <3>1. /\ l0.day \in 1..Len(Calendar) /\ l0.ts = Tstamp(l0.day)
          /\ log[p].day \in 1..Len(Calendar) /\ log[p].ts = Tstamp(log[p].day)
      <4>1. time \in 1..Len(Calendar) /\ Len(Calendar) \in Nat
        BY TstampFacts DEF SafeInv, TypeInv, SyslogTypes
      <4> QED
        BY <1>3, <4>1 DEF OrderInv, DayInv
    <3>2. l0.ts \in Nat \ {0} /\ log[p].ts \in Nat
      BY <3>1, TstampFacts DEF SafeInv, TypeInv, SyslogTypes
    <3>3. log[p].ts > l0.ts
      <4>1. LastTstamp(p, k) = l0.ts
        BY <1>2, <3>2 DEF LastTstamp
      <4>2. DiffSecs(p, k) = log[p].ts - l0.ts
        BY <3>2, <4>1 DEF DiffSecs
      <4> QED
        BY <3>2, <4>2
    <3>4. \A i, j \in 1..Len(Calendar) : i <= j => Tstamp(i) <= Tstamp(j)
      <4>1. Calendar = Calendars["overlapping"] /\ DOMAIN Calendar = 1..Len(Calendar)
        BY <2>2, TstampFacts DEF Calendar, Uses
      <4> QED
        BY <4>1, ConstantsAssumption DEF Tstamp
    <3>5. log[p].day <= l0.day => log[p].ts <= l0.ts
      BY <3>1, <3>4
    <3> QED
      BY <3>1, <3>2, <3>3, <3>5
  <2> QED
    BY <2>1, <2>2 DEF SafeInv, TypeInv, SyslogTypes, Uses
<1> QED
  BY <1>2, <1>4

\* What a run counts, on top of what was counted, is no more than the messages
\* there were when its line was written.
LEMMA CountIsBacked ==
    ASSUME SafeInv, OrderInv, use # "any", NEW m, LineInv(m), BackInv(m), NEW p \in Proc, Busy(p),
           NEW k \in Kinds, lock[k] = {}, DiffSecs(p, k) > 0 \/ file[k] = Blank, NEW d \in Dests
    PROVE  counted[k][d] + (IF DiffSecs(p, k) > 0 THEN Increase(p, k, d) ELSE 0) <= m[log[p].day][k][d]
<1> USE BlankFacts
<1>0. log[p] \in logs
  BY DEF OrderInv, UseInv
<1>1. counted[k][d] \in Nat /\ m[log[p].day][k][d] \in Nat /\ log[p].num[k][d] \in Nat
  BY <1>0, LineTypes
<1>2. CASE file[k] = Blank
  <2>0. file[k].num[d] = 0
    BY <1>2
  <2>1. Increase(p, k, d) = 0
    BY <1>1, <2>0 DEF Increase
  <2>2. Backed(k, file[k], m)
    BY DEF BackInv
  <2>3. counted[k][d] <= m[log[p].day][k][d]
    <3>1. CASE use = "in order"
      BY <2>2, <3>1 DEF Backed, OrderInv, UseInv
    <3>2. CASE use # "in order"
      <4>1. counted[k][d] = 0
        BY <1>2, <2>2, <3>2 DEF Backed
      <4> QED
        BY <1>1, <4>1
    <3> QED
      BY <3>1, <3>2
  <2> QED
    BY <1>1, <2>1, <2>3
<1>3. CASE file[k] # Blank
  <2>1. PICK l0 \in logs : /\ l0.day <= log[p].day
              /\ file[k].num[d] \in {0, l0.num[k][d]} /\ counted[k][d] <= m[l0.day][k][d]
    BY <1>3, BaseIsEarlier
  <2> DEFINE n == l0.num[k][d]
             t == m[l0.day][k][d]
             n2 == log[p].num[k][d]
             t2 == m[log[p].day][k][d]
             c == counted[k][d]
             e == file[k].num[d]
  <2>2. n \in Nat /\ t \in Nat /\ n2 \in Nat /\ t2 \in Nat /\ c \in Nat
    BY <1>0, LineTypes
  <2>3. Grew(n, t, n2, t2) \/ (n = n2 /\ t = t2)
    <3>1. CASE l0 = log[p]
      BY <3>1
    <3>2. CASE l0 # log[p]
      <4>1. l0.day # log[p].day /\ l0.day \in Nat /\ log[p].day \in Nat
        BY <1>0, <3>2, LineTypes DEF OrderInv, DayInv
      <4>2. l0.day < log[p].day
        BY <2>1, <4>1
      <4> QED
        BY <1>0, <4>2 DEF LineInv
    <3> QED
      BY <3>1, <3>2
  <2>4. Increase(p, k, d) = CASE e = 0 -> 0 [] e > n2 -> n2 [] OTHER -> n2 - e
    BY DEF Increase
  <2>5. e \in {0, n} /\ c <= t /\ DiffSecs(p, k) > 0
    BY <1>3, <2>1
  <2>6. Grew(n, t, n2, t2)
    BY <2>2, <2>3 DEF Grew
  <2> HIDE DEF n, t, n2, t2, c, e
  <2>7. /\ t <= t2 /\ c <= t2 /\ (n > n2 => c + n2 <= t2) /\ (~(n > n2) => c + (n2 - n) <= t2)
    <3>1. /\ \A x \in Nat : x <= t => x <= t2
          /\ \A x \in Nat : x <= t /\ n > n2 => x + n2 <= t2
          /\ \A x \in Nat : x <= t /\ ~(n > n2) => x + (n2 - n) <= t2
          /\ t <= t2
      BY <2>2, <2>6, GrewFacts
    <3> QED
      BY <2>2, <2>5, <3>1
  <2>8. c + Increase(p, k, d) <= t2
    <3>1. CASE e = 0
      BY <2>2, <2>4, <2>7, <3>1
    <3>2. CASE e # 0 /\ n > n2
      <4>1. Increase(p, k, d) = n2
        BY <2>4, <2>5, <3>2
      <4> QED
        BY <2>7, <3>2, <4>1
    <3>3. CASE e # 0 /\ ~(n > n2)
      <4>1. Increase(p, k, d) = n2 - n
        BY <2>4, <2>5, <3>3
      <4> QED
        BY <2>7, <3>3, <4>1
    <3> QED
      BY <3>1, <3>2, <3>3
  <2> QED
    BY <2>5, <2>8 DEF c, t2
<1> QED
  BY <1>2, <1>3

LEMMA CheckTypeCounts ==
    ASSUME SafeInv, OrderInv, use # "any", NEW m, LineInv(m), BackInv(m), NEW p \in Proc, CheckType(p)
    PROVE  BackInv(m)'
<1> USE TypesFacts
<1> DEFINE j == Types[turn[p]]
           l == log[p]
<1>1. /\ UNCHANGED <<logs, use, given>> /\ j \in Kinds /\ lock[j] = {} /\ Busy(p)
      /\ pending'[p] = IF Rewrites(p, j) THEN EntryOf(l, j) ELSE Blank
      /\ \A q \in Proc : q # p => pending'[q] = pending[q]
      /\ \A d \in Dests : counted'[j][d] =
            counted[j][d] + IF DiffSecs(p, j) > 0 THEN Increase(p, j, d) ELSE 0
      /\ \A i \in Kinds : i # j => counted'[i] = counted[i]
  <2>1. j \in Kinds /\ lock[j] = {} /\ Busy(p)
    BY DEF CheckType, SafeInv, LockInv, Busy
  <2>2. counted' = [counted EXCEPT ![j] = [d \in Dests |->
            @[d] + IF use # "any" /\ DiffSecs(p, j) > 0 THEN Increase(p, j, d) ELSE 0]]
    BY DEF CheckType
  <2>3. /\ \A d \in Dests : counted'[j][d] =
            counted[j][d] + IF DiffSecs(p, j) > 0 THEN Increase(p, j, d) ELSE 0
        /\ \A i \in Kinds : i # j => counted'[i] = counted[i]
    BY <2>1, <2>2 DEF SafeInv, TypeInv, SyslogTypes, Counts
  <2> QED
    BY <2>1, <2>3 DEF CheckType, syslog, SafeInv, TypeInv, RunTypes, EntryOf
<1>2. /\ lock'[j] = {p} /\ file'[j] = IF DiffSecs(p, j) > 0 THEN Blank ELSE file[j]
      /\ \A i \in Kinds : /\ i # j => lock'[i] = lock[i] /\ file'[i] = file[i] /\ p \notin lock[i]
                          /\ lock[i] \subseteq Proc
  BY <1>1 DEF SafeInv, TypeInv, FileTypes, LockInv, CheckType
<1>3. l \in logs /\ (use = "in order" => l.day = given) /\ l.ts \in Nat \ {0}
  <2>1. l \in logs /\ (use = "in order" => l.day = given)
    BY <1>1 DEF OrderInv, UseInv
  <2>2. l.ts = Tstamp(l.day) /\ l.day \in 1..Len(Calendar)
    <3>1. time \in 1..Len(Calendar) /\ Len(Calendar) \in Nat
      BY TstampFacts DEF SafeInv, TypeInv, SyslogTypes
    <3>2. l.day \in 1..time /\ l.ts = Tstamp(l.day)
      BY <2>1 DEF OrderInv, DayInv
    <3> QED
      BY <3>1, <3>2
  <2> QED
    BY <2>1, <2>2, TstampFacts DEF SafeInv, TypeInv, SyslogTypes
<1>4. EntryOf(l, j) # Blank
  <2>1. EntryOf(l, j).ts = l.ts
    BY DEF EntryOf
  <2> QED
    BY <1>3, <2>1, BlankFacts
<1> HIDE DEF j, l
<1> SUFFICES ASSUME NEW k \in Kinds
             PROVE  /\ \A q \in lock'[k] : pending'[q] # Blank => Backed(k, pending[q], m)'
                    /\ (\A q \in lock'[k] : pending'[q] = Blank) => Backed(k, file[k], m)'
  BY DEF BackInv
<1>5. CASE k # j
  <2>1. lock'[k] = lock[k] /\ file'[k] = file[k] /\ counted'[k] = counted[k]
        /\ \A q \in lock[k] : pending'[q] = pending[q]
    BY <1>1, <1>2, <1>5
  <2>2. ASSUME NEW q \in lock'[k], pending'[q] # Blank PROVE Backed(k, pending[q], m)'
    <3>1. Backed(k, pending[q], m) /\ pending'[q] = pending[q]
      BY <2>1, <2>2 DEF BackInv
    <3> QED
      BY <1>1, <2>1, <3>1 DEF Backed
  <2>3. ASSUME \A q \in lock'[k] : pending'[q] = Blank PROVE Backed(k, file[k], m)'
    <3>1. Backed(k, file[k], m)
      BY <2>1, <2>3 DEF BackInv
    <3> QED
      BY <1>1, <2>1, <3>1 DEF Backed
  <2> QED
    BY <2>2, <2>3
<1>6. CASE k = j /\ Rewrites(p, j)
  <2>1. pending'[p] = EntryOf(l, j) /\ \A q \in lock'[k] : q = p
    BY <1>1, <1>2, <1>6
  <2>2. \A d \in Dests : counted'[j][d] <= m[l.day][j][d]
    BY <1>1, <1>6, CountIsBacked DEF Rewrites, l
  <2>3. Backed(k, pending[p], m)'
    <3>1. pending'[p] # Blank /\ pending'[p].ts = l.ts /\ \A d \in Dests : pending'[p].num[d] = l.num[j][d]
      BY <1>4, <2>1 DEF EntryOf
    <3>2. use = "in order" => l.day <= given
      <4>1. given \in Nat /\ \A a \in Nat : a <= a
        BY DEF SafeInv, TypeInv, SyslogTypes
      <4> QED
        BY <1>3, <4>1
    <3>3. use = "in order" => \A d \in Dests : counted'[j][d] <= m[given][j][d]
      BY <1>3, <2>2
    <3> QED
      BY <1>1, <1>3, <1>6, <2>2, <3>1, <3>2, <3>3 DEF Backed
  <2> QED
    BY <1>4, <2>1, <2>3, <1>2, <1>6
<1>7. CASE k = j /\ ~Rewrites(p, j)
  <2>1. ~(DiffSecs(p, j) > 0) /\ file'[j] = file[j] /\ pending'[p] = Blank /\ \A q \in lock'[k] : q = p
    BY <1>1, <1>2, <1>7 DEF Rewrites
  <2>2. \A d \in Dests : counted'[j][d] = counted[j][d]
    <3>1. \A d \in Dests : counted[j][d] \in Nat
      BY <1>1 DEF SafeInv, TypeInv, SyslogTypes, Counts
    <3> QED
      BY <1>1, <2>1, <3>1
  <2>3. Backed(j, file[j], m)
    BY <1>1 DEF BackInv
  <2>4. Backed(k, file[k], m)'
    BY <1>1, <1>7, <2>1, <2>2, <2>3 DEF Backed
  <2> QED
    BY <2>1, <2>4
<1> QED
  BY <1>5, <1>6, <1>7

LEMMA EndsCounts ==
    ASSUME SafeInv, OrderInv, use # "any", NEW m, LineInv(m), BackInv(m), NEW p \in Proc, Ends(p)
    PROVE  BackInv(m)'
<1> USE TypesFacts
<1>1. /\ UNCHANGED <<logs, use, given, counted>> /\ lock' = Unlocked(p)
      /\ \A q \in Proc : q # p => pending'[q] = pending[q]
  BY EndsFiles DEF syslog, Die, SafeInv, TypeInv, RunTypes
<1>2. CASE file' = Flushed(p)
  BY <1>1, <1>2, BackClosed
<1>3. CASE file' = file /\ \A k \in Kinds : p \notin lock[k]
  <2>1. Flushed(p) = file
    BY <1>3 DEF Flushed, SafeInv, TypeInv, FileTypes
  <2> QED
    BY <1>1, <1>3, <2>1, BackClosed
\* Else the run dies in the use where one runs at a time, and what it was about to
\* write is lost.
<1>4. CASE file' # Flushed(p) /\ ~(file' = file /\ \A k \in Kinds : p \notin lock[k])
  <2>1. use = "in order"
    BY <1>4, EndsFiles DEF SafeInv, TypeInv, SyslogTypes, Uses
  <2>2. \A k \in Kinds, d \in Dests : counted[k][d] <= m[given][k][d]
    <3> SUFFICES ASSUME NEW k \in Kinds PROVE \A d \in Dests : counted[k][d] <= m[given][k][d]
      OBVIOUS
    <3>1. \E e : Backed(k, e, m)
      BY DEF BackInv
    <3> QED
      BY <2>1, <3>1 DEF Backed
  <2>3. \A k \in Kinds : lock'[k] = {}
    <3>1. \A k \in Kinds : lock[k] \subseteq {p}
      <4> SUFFICES ASSUME NEW k \in Kinds, NEW q \in lock[k] PROVE q = p
        OBVIOUS
      <4>1. q \in Proc /\ turn[q] - 1 \in 1..Len(Types) /\ turn[q] \in Nat
        BY DEF SafeInv, TypeInv, FileTypes, RunTypes, LockInv
      <4>2. Busy(q)
        BY <4>1 DEF Busy
      <4>3. Busy(p)
        BY DEF Ends, LockBusy, Quit, Timeout, TimeoutInCheck, Kill, Busy
      <4> QED
        BY <2>1, <4>1, <4>2, <4>3 DEF OrderInv, UseInv
    <3> QED
      BY <1>1, <3>1 DEF Unlocked
  <2>4. ASSUME NEW k \in Kinds PROVE Backed(k, file'[k], m)
    <3>1. CASE file'[k] = Blank
      BY <2>1, <2>2, <3>1 DEF Backed
    <3>2. CASE file'[k] = file[k] /\ file[k] # Blank
      <4>1. \A q \in lock[k] : pending[q] = Blank
        BY <3>2 DEF OrderInv, PrintInv
      <4> QED
        BY <3>2, <4>1 DEF BackInv
    <3>3. CASE file'[k] # Blank /\ file'[k] # file[k]
      <4>1. PICK D \in SUBSET Dests : k = Types[turn[p]] /\ file'[k] = Part(p, k, D)
        BY <1>4, <3>3, EndsFiles DEF SafeInv, TypeInv, FileTypes
      <4>2. log[p] \in logs /\ log[p].day = given
        <5>1. Busy(p)
          BY DEF Ends, LockBusy, Quit, Timeout, TimeoutInCheck, Kill, Busy
        <5> QED
          BY <2>1, <5>1 DEF OrderInv, UseInv
      <4>3. file'[k].ts = log[p].ts /\ \A d \in Dests : file'[k].num[d] \in {0, log[p].num[k][d]}
        BY <4>1 DEF Part
      <4>4. log[p].day <= given
        BY <4>2 DEF SafeInv, TypeInv, SyslogTypes
      <4> QED
        BY <2>1, <2>2, <3>3, <4>2, <4>3, <4>4 DEF Backed
    <3> QED
      BY <3>1, <3>2, <3>3
  <2>5. \A k \in Kinds : Backed(k, file[k], m)'
    BY <1>1, <2>4 DEF Backed
  <2> QED
    BY <2>3, <2>5 DEF BackInv
<1> QED
  BY <1>2, <1>3, <1>4

\* The inductive step of the counts: the days of the lines and what was made by
\* each of them change only when syslog-ng writes a line.
LEMMA CountStep ==
    ASSUME SafeInv, SafeInv', use # "any", CountInv, [Next]_vars
    PROVE  CountInv'
<1>1. OrderInv /\ OrderInv'
  BY OrderStep DEF CountInv
<1>2. PICK m : LineInv(m) /\ BackInv(m)
  BY DEF CountInv
<1>3. CASE Syslog
  BY <1>1, <1>2, <1>3, SyslogCounts DEF CountInv
<1>4. CASE ~Syslog
  <2>1. LineInv(m)'
    <3>1. UNCHANGED <<logs, cnt, made>>
      BY <1>4 DEF Next, vars, Run, Start, TestFile, OpenFile, LockBusy, CheckType, Quit, Timeout,
                  TimeoutInCheck, Kill, syslog
    <3> QED
      BY <1>2, <3>1 DEF LineInv
  <2>2. BackInv(m)'
    <3>1. CASE UNCHANGED vars
      BY <1>2, <3>1, BackStays DEF vars
    <3>2. ASSUME NEW p \in Proc, Start(p) PROVE BackInv(m)'
      BY <1>1, <1>2, <3>2, StartCounts
    <3>3. ASSUME NEW p \in Proc, TestFile(p) PROVE BackInv(m)'
      BY <1>2, <3>3, BackStays DEF TestFile, syslog, files
    <3>4. ASSUME NEW p \in Proc, OpenFile(p) PROVE BackInv(m)'
      <4>1. /\ UNCHANGED <<logs, use, given, counted>> /\ lock' = Unlocked(p)
            /\ \A q \in Proc : q # p => pending'[q] = pending[q]
        BY <3>4 DEF OpenFile, syslog, SafeInv, TypeInv, RunTypes
      <4> QED
        BY <1>1, <1>2, <3>4, <4>1, OpenFileCloses, BackClosed
    <3>5. ASSUME NEW p \in Proc, CheckType(p) PROVE BackInv(m)'
      BY <1>1, <1>2, <3>5, CheckTypeCounts
    <3>6. ASSUME NEW p \in Proc, Ends(p) PROVE BackInv(m)'
      BY <1>1, <1>2, <3>6, EndsCounts
    <3> QED
      BY <1>4, <3>1, <3>2, <3>3, <3>4, <3>5, <3>6 DEF Next, Run, Ends
  <2> QED
    BY <1>1, <2>1, <2>2 DEF CountInv
<1> QED
  BY <1>3, <1>4

LEMMA CountInit == Init => CountInv
<1> SUFFICES ASSUME Init PROVE CountInv
  OBVIOUS
<1> USE BlankFacts, TypesFacts
<1>1. OrderInv
  BY DEF Init, OrderInv, UseInv, NewInv, PrintInv, DayInv, Busy
<1> DEFINE none == [t \in Nat |-> [k \in Kinds |-> Zero]]
<1>2. none \in [Nat -> Counts] /\ \A t \in Nat, k \in Kinds, d \in Dests : none[t][k][d] = 0
  BY DEF Counts
<1> HIDE DEF none
<1>3. LineInv(none)
  BY <1>2 DEF Init, LineInv
<1>4. BackInv(none)
  <2>1. \A k \in Kinds, d \in Dests : counted[k][d] = 0 /\ counted[k][d] <= none[given][k][d]
    BY <1>2 DEF Init
  <2>2. \A k \in Kinds : file[k] = Blank /\ lock[k] = {}
    BY DEF Init
  <2> QED
    BY <2>1, <2>2 DEF BackInv, Backed
<1> QED
  BY <1>1, <1>3, <1>4 DEF CountInv

\* The inductive invariant.
IInv == SafeInv /\ (use # "any" => CountInv)

LEMMA Invariance == Spec => []IInv
<1>1. Init => IInv
  BY SafeInit, CountInit DEF IInv
<1>2. IInv /\ [Next]_vars => IInv'
  <2> SUFFICES ASSUME IInv, [Next]_vars PROVE IInv'
    OBVIOUS
  <2>1. SafeInv'
    BY SafeStep DEF IInv
  <2>2. use' = use
    BY DEF Next, vars, Syslog, Run, Start, TestFile, OpenFile, LockBusy, CheckType, Quit, Timeout,
           TimeoutInCheck, Kill, syslog
  <2> QED
    BY <2>1, <2>2, CountStep DEF IInv
<1> QED
  BY <1>1, <1>2, PTL DEF Spec

\* The runs never count more messages of a type and destination than there were
\* (SyslogNgStats), for any number of days, runs and destinations: neither with
\* lines in order and runs that die anywhere, over any turn of the month, nor with
\* lines that come late, again and to overlapping runs, none of which is killed.
THEOREM NoMessageTwice == Spec => []NothingCountedTwice
<1>1. IInv => NothingCountedTwice
  <2> SUFFICES ASSUME IInv, use # "any", NEW k \in Kinds, NEW d \in Dests
               PROVE  counted[k][d] <= made[k][d]
    BY DEF NothingCountedTwice
  <2>1. PICK m : LineInv(m) /\ BackInv(m)
    BY DEF IInv, CountInv
  <2>2. SafeInv /\ OrderInv /\ made[k][d] \in Nat
    BY DEF IInv, CountInv, SafeInv, TypeInv, SyslogTypes, Counts
  <2>3. PICK e : Backed(k, e, m)
    BY <2>1 DEF BackInv
  <2>4. CASE e # Blank
    <3>1. PICK l \in logs : counted[k][d] <= m[l.day][k][d]
      BY <2>3, <2>4 DEF Backed
    <3>2. m[l.day][k][d] <= made[k][d]
      BY <2>1, <2>2, LinesGrow DEF OrderInv
    <3> QED
      BY <2>1, <2>2, <3>1, <3>2, LineTypes
  <2>5. CASE e = Blank /\ use # "in order"
    <3>1. counted[k][d] = 0
      BY <2>3, <2>5 DEF Backed
    <3> QED
      BY <2>2, <3>1
  <2>6. CASE e = Blank /\ use = "in order"
    <3>1. counted[k][d] <= m[given][k][d]
      BY <2>3, <2>6 DEF Backed
    <3>2. CASE given = 0
      <4>1. m[given][k][d] = 0 /\ counted[k][d] \in Nat
        BY <2>1, <2>2, <3>2 DEF LineInv, SafeInv, TypeInv, SyslogTypes, Counts
      <4> QED
        BY <2>2, <3>1, <4>1
    <3>3. CASE given # 0
      <4>1. PICK l \in logs : l.day = given
        BY <2>2, <3>3 DEF OrderInv, UseInv
      <4>2. m[l.day][k][d] <= made[k][d] /\ m[l.day][k][d] \in Nat /\ counted[k][d] \in Nat
        BY <2>1, <2>2, LinesGrow, LineTypes DEF OrderInv
      <4> QED
        BY <2>2, <3>1, <4>1, <4>2
    <3> QED
      BY <3>2, <3>3
  <2> QED
    BY <2>4, <2>5, <2>6
<1> QED
  BY <1>1, Invariance, PTL
=============================================================================
