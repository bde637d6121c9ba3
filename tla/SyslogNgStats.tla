--------------------------- MODULE SyslogNgStats ----------------------------
(***************************************************************************)
(* more/check_syslog-ng_stats.pl: syslog-ng writes a "Log statistics" line *)
(* now and then, and each run of the plugin is given one such line.  For   *)
(* each type of statistics it keeps a state file with the counters of the  *)
(* latest line it was given, and turns the growth since then into a rate   *)
(* per destination.                                                        *)
(*                                                                         *)
(* The handle of the state file is one global: opening the file of the     *)
(* next type closes, and so writes and unlocks, that of the type before.   *)
(* Lines may be given twice, late, or to two runs at a time, and any run    *)
(* may die.  The hosts in the lines are one host.                          *)
(***************************************************************************)
EXTENDS Nagios, Sequences, FiniteSets, Functions

CONSTANTS Proc, Dests,  \* the runs that can be alive, the destinations
          Types,        \* the types looked at, in the order of the code
          Calendars,    \* the <<month, day>> of each tick of the clock, for each use
          MaxCount,     \* bound: messages of one destination
          Warn, Crit    \* thresholds, messages per second

\* How the plugin is used: "in order", each run is given a later line than the run
\* before it, which has ended, perhaps by a kill; "overlapping", lines may be given
\* again, late and to several runs at a time, of which none is killed; or anyhow.
Uses == {"in order", "overlapping", "any"}

\* mon2num is 1 to 12, but strftime counts months from 0: the date is taken one
\* month later, and a day that month does not have runs over into the next.
DaysBefore == <<0, 31, 59, 90, 120, 151, 181, 212, 243, 273, 304, 334, 365>>
TstampOf(date) == DaysBefore[date[1] + 1] + date[2]

ASSUME ConstantsAssumption ==
    /\ Types \in Seq({"dropped", "processed", "suppressed"}) /\ Types # <<>>
    /\ Calendars \in [Uses -> Seq((1..12) \X (1..31))] /\ \A u \in Uses : Calendars[u] # <<>>
    /\ LET dates == Calendars["overlapping"]
       IN  \A i, j \in DOMAIN dates : i <= j => TstampOf(dates[i]) <= TstampOf(dates[j])
    /\ MaxCount \in Nat /\ Warn \in Nat \ {0} /\ Crit \in Nat /\ Crit >= Warn

Kinds == Range(Types)

VARIABLES time, cnt, logs,   \* the day, syslog-ng's counters, the lines written
          made,       \* history: all the messages there ever were
          given,      \* history: the day of the latest line given to a run, in order
          use,        \* how the plugin is used
          exists, file, lock,       \* the state file of each type
          turn, step, found, log, pending, base, status,  \* each run
          counted,    \* history: the growth that runs took into account, except when
                      \* the plugin is used anyhow
          out         \* what each run printed: its status, and the destinations
                      \* that reached a threshold

syslog == <<time, cnt, logs, made, given, use>>
files  == <<exists, file, lock>>
vars   == <<time, cnt, logs, made, given, use, exists, file, lock, turn, step, found, log,
            pending, base, status, counted, out>>

-----------------------------------------------------------------------------

Zero  == [d \in Dests |-> 0]
Blank == [ts |-> 0, num |-> Zero]
NoLog == [day |-> 0, ts |-> 0, num |-> [k \in Kinds |-> Zero]]
Clean == [status |-> "OK", high |-> {}]

Init ==
    /\ time = 1 /\ logs = {} /\ given = 0 /\ use \in Uses
    /\ cnt = [k \in Kinds |-> Zero] /\ made = [k \in Kinds |-> Zero]
    /\ exists = [k \in Kinds |-> FALSE]
    /\ file = [k \in Kinds |-> Blank]
    /\ lock = [k \in Kinds |-> {}]
    /\ turn = [p \in Proc |-> 0]
    /\ step = [p \in Proc |-> "test"]
    /\ found = [p \in Proc |-> FALSE]
    /\ log = [p \in Proc |-> NoLog]
    /\ pending = [p \in Proc |-> Blank]
    /\ base = [p \in Proc |-> 0]
    /\ status = [p \in Proc |-> Clean]
    /\ counted = [k \in Kinds |-> Zero]
    /\ out = [p \in Proc |-> Clean]

-----------------------------------------------------------------------------
(* syslog-ng *)

Calendar == Calendars[use]
Tstamp(t) == TstampOf(Calendar[t])

Message ==
    \E k \in Kinds, d \in Dests :
        /\ SumFunction([j \in Kinds |-> made[j][d]]) < MaxCount
        /\ cnt' = [cnt EXCEPT ![k][d] = @ + 1]
        /\ made' = [made EXCEPT ![k][d] = @ + 1]
        /\ UNCHANGED <<time, logs>>

WriteLog ==
    /\ \A l \in logs : l.day # time
    /\ logs' = logs \cup {[day |-> time, ts |-> Tstamp(time), num |-> cnt]}
    /\ UNCHANGED <<time, cnt, made>>

Restart == cnt' = [k \in Kinds |-> Zero] /\ UNCHANGED <<time, logs, made>>

Tick == time < Len(Calendar) /\ time' = time + 1 /\ UNCHANGED <<cnt, logs, made>>

Syslog ==
    /\ Message \/ WriteLog \/ Restart \/ Tick
    /\ UNCHANGED <<files, turn, step, found, log, pending, base, status, counted, out, given, use>>

-----------------------------------------------------------------------------
(* A run of the plugin *)

Locked(p) == {k \in Kinds : p \in lock[k]}
Unlocked(p) == [k \in Kinds |-> lock[k] \ {p}]

\* What closing the handle writes: the lines printed to the file it had locked.
Flushed(p) == [k \in Kinds |-> IF p \in lock[k] /\ pending[p] # Blank
                               THEN pending[p] ELSE file[k]]

Die(p) ==
    /\ lock' = Unlocked(p)
    /\ turn' = [turn EXCEPT ![p] = 0]
    /\ step' = [step EXCEPT ![p] = "test"]
    /\ found' = [found EXCEPT ![p] = FALSE]
    /\ log' = [log EXCEPT ![p] = NoLog]
    /\ pending' = [pending EXCEPT ![p] = Blank]
    /\ base' = [base EXCEPT ![p] = 0]
    /\ status' = [status EXCEPT ![p] = Clean]

\* Runs overlap only once the state files are there: of two runs that find none,
\* the second would empty the file that the first has made.
Start(p) ==
    /\ turn[p] = 0
    /\ \/ use = "any"
       \/ \A q \in Proc : turn[q] = 0
       \/ use = "overlapping" /\ \A k \in Kinds : exists[k]
    /\ turn' = [turn EXCEPT ![p] = 1]
    /\ \E l \in logs : /\ use = "in order" => l.day > given
                       /\ log' = [log EXCEPT ![p] = l]
                       /\ given' = IF use = "in order" THEN l.day ELSE given
    /\ out' = [out EXCEPT ![p] = Clean]
    /\ UNCHANGED <<time, cnt, logs, made, use, files, step, found, pending, base, status, counted>>

\* -f
TestFile(p) ==
    /\ turn[p] \in 1..Len(Types) /\ step[p] = "test"
    /\ step' = [step EXCEPT ![p] = "open"]
    /\ found' = [found EXCEPT ![p] = exists[Types[turn[p]]]]
    /\ UNCHANGED <<syslog, files, turn, log, pending, base, status, counted, out>>

\* open of the next type's state file, which closes that of the type before; "+>"
\* empties the file when the test had not found it.
OpenFile(p) ==
    /\ turn[p] > 0 /\ step[p] = "open"
    /\ step' = [step EXCEPT ![p] = "check"]
    /\ LET k == Types[turn[p]]
       IN  /\ file' = IF found[p] THEN Flushed(p) ELSE [Flushed(p) EXCEPT ![k] = Blank]
           /\ exists' = [exists EXCEPT ![k] = TRUE]
    /\ lock' = Unlocked(p)
    /\ pending' = [pending EXCEPT ![p] = Blank]
    /\ UNCHANGED <<syslog, turn, found, log, base, status, counted, out>>

LockBusy(p) ==
    /\ turn[p] > 0 /\ step[p] = "check" /\ lock[Types[turn[p]]] # {}
    /\ Die(p)
    /\ out' = [out EXCEPT ![p] = [status |-> "UNKNOWN", high |-> {}]]
    /\ UNCHANGED <<syslog, exists, file, counted>>

\* The time stamp of the state file, or the one left from the type before.
LastTstamp(p, k) == IF file[k].ts # 0 THEN file[k].ts ELSE base[p]
DiffSecsAbsolute(p, k) ==
    IF LastTstamp(p, k) > log[p].ts THEN LastTstamp(p, k) - log[p].ts
                                    ELSE log[p].ts - LastTstamp(p, k)
DiffSecs(p, k) == IF LastTstamp(p, k) # 0 THEN log[p].ts - LastTstamp(p, k) ELSE 0

\* A counter that went back has been reset; one that was 0 counts as unknown.
IncreaseTotal(p, k, d) == log[p].num[k][d]
IncreaseSigned(p, k, d) == log[p].num[k][d] - file[k].num[d]
Increase(p, k, d) ==
    CASE file[k].num[d] = 0 -> 0
      [] file[k].num[d] > log[p].num[k][d] -> log[p].num[k][d]
      [] OTHER -> log[p].num[k][d] - file[k].num[d]

RateOf(p, k, d) ==
    IF DiffSecs(p, k) > 0
    THEN (2 * Increase(p, k, d) + DiffSecs(p, k)) \div (2 * DiffSecs(p, k))
    ELSE 0

\* A destination sets the status to its own level, whatever it was before; the
\* destinations come in the order of a hash.
Level(p, k, d) == IF RateOf(p, k, d) >= Crit THEN "CRITICAL" ELSE "WARNING"
High(p, k) == {d \in Dests : RateOf(p, k, d) >= Warn}
StatusAfterFresh(p, k) == IF High(p, k) = {} THEN {"OK"}
                          ELSE {Level(p, k, d) : d \in High(p, k)}
StatusAfter(p, k) == IF High(p, k) = {} THEN {status[p].status}
                     ELSE {Level(p, k, d) : d \in High(p, k)}

\* The file is rewritten when the line is later than it, or when it is empty.
Rewrites(p, k) == DiffSecs(p, k) > 0 \/ file[k] = Blank

CheckType(p) ==
    /\ turn[p] > 0 /\ step[p] = "check"
    /\ LET k == Types[turn[p]]
       IN  /\ lock[k] = {}
           /\ lock' = [lock EXCEPT ![k] = {p}]
           /\ file' = [file EXCEPT ![k] = IF DiffSecs(p, k) > 0 THEN Blank ELSE @]
           /\ pending' = [pending EXCEPT ![p] =
                 IF Rewrites(p, k) THEN [ts |-> log[p].ts, num |-> log[p].num[k]] ELSE Blank]
           /\ base' = [base EXCEPT ![p] = LastTstamp(p, k)]
           /\ counted' = [counted EXCEPT ![k] = [d \in Dests |->
                 @[d] + IF use # "any" /\ DiffSecs(p, k) > 0 THEN Increase(p, k, d) ELSE 0]]
           /\ \E s \in StatusAfter(p, k) : status' = [status EXCEPT ![p] =
                 [status |-> s, high |-> @.high \cup ({k} \X High(p, k))]]
    /\ step' = [step EXCEPT ![p] = "test"]
    /\ turn' = [turn EXCEPT ![p] = @ + 1]
    /\ UNCHANGED <<syslog, exists, found, log, out>>

\* quit, and the close of the last file that the exit implies.
Quit(p) ==
    /\ turn[p] = Len(Types) + 1
    /\ out' = [out EXCEPT ![p] = status[p]]
    /\ file' = Flushed(p)
    /\ Die(p)
    /\ UNCHANGED <<syslog, exists, counted>>

\* The alarm quits as any exit does, a kill does not write the buffer.
Timeout(p) ==
    /\ turn[p] > 0
    /\ out' = [out EXCEPT ![p] = [status |-> "UNKNOWN", high |-> {}]]
    /\ file' = Flushed(p)
    /\ Die(p)
    /\ UNCHANGED <<syslog, exists, counted>>

\* The alarm in the midst of CheckType: the file has been emptied, and only the
\* lines of some destinations are printed.
TimeoutInCheck(p) ==
    /\ use # "overlapping"
    /\ turn[p] > 0 /\ step[p] = "check" /\ lock[Types[turn[p]]] = {}
    /\ LET k == Types[turn[p]]
       IN  \E D \in SUBSET Dests :
            file' = [file EXCEPT ![k] =
                CASE ~Rewrites(p, k) -> @
                  [] Rewrites(p, k) /\ D = {} -> Blank
                  [] OTHER -> [ts |-> log[p].ts, num |-> [d \in Dests |-> IF d \in D THEN log[p].num[k][d] ELSE 0]]]
    /\ out' = [out EXCEPT ![p] = [status |-> "UNKNOWN", high |-> {}]]
    /\ Die(p)
    /\ UNCHANGED <<syslog, exists, counted>>

Kill(p) ==
    /\ use # "overlapping"
    /\ turn[p] > 0
    /\ Die(p)
    /\ UNCHANGED <<syslog, exists, file, counted, out>>

Run(p) == Start(p) \/ TestFile(p) \/ OpenFile(p) \/ LockBusy(p) \/ CheckType(p) \/ Quit(p)

Next == Syslog \/ \E p \in Proc : Run(p) \/ Timeout(p) \/ TimeoutInCheck(p) \/ Kill(p)

Spec == Init /\ [][Next]_vars

-----------------------------------------------------------------------------
(* Properties *)

\* Every variable ranges over its type.
TypeOK ==
    /\ time \in 1..Len(Calendar)
    /\ \A f \in {cnt, made, counted} : f \in [Kinds -> [Dests -> Nat]]
    /\ \A k \in Kinds : file[k].ts \in Nat /\ file[k].num \in [Dests -> Nat]
    /\ \A k \in Kinds : Cardinality(lock[k]) <= 1
    /\ \A p \in Proc : /\ turn[p] \in 0..(Len(Types) + 1) /\ base[p] \in Nat
                       /\ out[p].status \in Statuses

\* The runs never count more messages than there were, however often syslog-ng is
\* restarted: not when runs die in the midst of anything, or dates go back at the end
\* of January, as long as each run is given a later line than the run before it; and
\* not when lines are given twice, late and to overlapping runs, as long as none is
\* killed, dates do not go back, and the state files are there.
NothingCountedTwice ==
    use # "any" => \A k \in Kinds, d \in Dests : counted[k][d] <= made[k][d]

\* A run that prints OK has seen no destination of any type at a threshold: the types
\* share one status, each may rewrite it, and none may take an earlier one back to OK.
OkHidesNothing == \A p \in Proc : out[p].status = "OK" => out[p].high = {}
=============================================================================
