----------------------------- MODULE MCAlarmPool -----------------------------
(* Small instances of AlarmPool for TLC. *)
EXTENDS AlarmPool, TLC

CONSTANTS u1, i1, i2, r1, r2

\* Every track carries its map key as secondary.uniqueID.
SameId == [u \in Targets |-> u]

AlarmIdSymmetry == Permutations(AlarmIds)
=============================================================================
