---------------------------- MODULE MCAlarmProcess ----------------------------
(* A small instance of AlarmProcess for TLC. *)
EXTENDS AlarmProcess

CONSTANT t

\* The second version of the configuration has a rule less.
MCMatchedBy == [v \in Versions |-> IF v = 1 THEN Targets ELSE {}]
=============================================================================
