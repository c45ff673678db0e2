-------------------------------- MODULE Trails --------------------------------
(* The trail of a track: its last positions, oldest first, none of them twice. *)
EXTENDS Integers, Sequences

Holds(s, p) == \E i \in DOMAIN s : s[i] = p

\* Mutant: the first position is never removed.
AppendForEver(s, p, max) == IF Holds(s, p) THEN s ELSE Append(s, p)

\* appendTrailPoint: a position that is in the trail already is not added again.
AppendTrailPoint(s, p, max) ==
  IF Holds(s, p) THEN s
  ELSE Append(IF Len(s) > max THEN Tail(s) ELSE s, p)
=============================================================================
