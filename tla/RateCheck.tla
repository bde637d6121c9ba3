----------------------------- MODULE RateCheck -----------------------------
(***************************************************************************)
(* What a check that reports the rate of a counter promises, whatever its  *)
(* state file, lock and buffers do: runs that overlap behave as if they    *)
(* came one after the other, each judging its own sample against the one   *)
(* the run before it left.  The sample may get lost, and then the next run *)
(* has nothing to judge by; it is never used for two results.              *)
(***************************************************************************)

CONSTANTS Proc,         \* the runs
          Samples,      \* what a run can sample
          Blank,        \* no sample
          NoResult,     \* the run has printed nothing yet
          Unknown,      \* the result of a run that could not judge
          Judge(_, _)   \* the result of a sample, given the one before it

VARIABLES base,         \* the sample the next result is relative to
          out           \* what each run printed

avars == <<base, out>>

Init == base = Blank /\ out = [p \in Proc |-> NoResult]

Start(p) == out' = [out EXCEPT ![p] = NoResult] /\ base' = base

\* A run's result, and its sample as the next base.
Report(p) ==
    \E s \in Samples :
        /\ out' = [out EXCEPT ![p] = Judge(base, s)]
        /\ base' = s

\* A run that gives up may leave its sample, or none.
GiveUp(p) ==
    /\ out' = [out EXCEPT ![p] = Unknown]
    /\ base' \in {base, Blank} \cup Samples

Lose == base' = Blank /\ out' = out

Next == Lose \/ \E p \in Proc : Start(p) \/ Report(p) \/ GiveUp(p)

Spec == Init /\ [][Next]_avars

=============================================================================
