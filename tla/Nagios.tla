------------------------------- MODULE Nagios -------------------------------
(***************************************************************************)
(* Vocabulary shared by the plugin modules: the exit states of the Nagios  *)
(* plugin API, their order of severity, the threshold test and the         *)
(* rounding the Perl plugins import.  All of it lives in the lib/          *)
(* submodule (HariSekhonUtils) or in CPAN (Math::Round), so it is modelled *)
(* from the way the plugins call it.                                       *)
(***************************************************************************)
EXTENDS Integers

Statuses == {"OK", "WARNING", "CRITICAL", "UNKNOWN"}

\* Process exit codes of the four states.
ExitCode == [OK |-> 0, WARNING |-> 1, CRITICAL |-> 2, UNKNOWN |-> 3]

\* The order in which the warning(), unknown() and critical() calls escalate a
\* global $status: a state replaces a milder one, never a worse one.
Severity == [OK |-> 0, WARNING |-> 1, UNKNOWN |-> 2, CRITICAL |-> 3]

Escalate(old, new) == IF Severity[new] > Severity[old] THEN new ELSE old

\* check_thresholds with { 'simple' => 'upper' }: the result may equal a
\* threshold, and the critical test comes first.
UpperThreshold(value, warn, crit) ==
    CASE value > crit -> "CRITICAL"
      [] value > warn /\ value <= crit -> "WARNING"
      [] OTHER -> "OK"

\* Math::Round::round of num/den, den > 0: to nearest, halves away from zero.
Round(num, den) ==
    IF num >= 0 THEN (2 * num + den) \div (2 * den)
                ELSE -((den - 2 * num) \div (2 * den))

=============================================================================
