-------------------------- MODULE MCSyslogNgStats ---------------------------
(* Instances of SyslogNgStats for TLC. *)
EXTENDS SyslogNgStats, TLC

CONSTANTS p1, p2, d1

Symmetry == Permutations(Proc)

DroppedTypes == <<"dropped", "processed">>

\* Tstamp puts the last days of January after the first of February.  What comes
\* late or again, or anyhow, does so within two days.
March       == <<<<3, 1>>, <<3, 2>>>>
TurnOfMonth == <<<<1, 31>>, <<2, 1>>, <<2, 2>>>>
CalendarOf  == [u \in Uses |-> CASE u = "in order"    -> TurnOfMonth
                                [] u = "overlapping" -> March
                                [] u = "any"         -> SubSeq(TurnOfMonth, 1, 2)]
=============================================================================
