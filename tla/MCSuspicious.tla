----------------------------- MODULE MCSuspicious -----------------------------
(* Instances of Suspicious for TLC. *)
EXTENDS Suspicious

Sight(h, l, d, s) == [high |-> h, low |-> l, drone |-> d, skip |-> s]
MCSightings ==
  [sea |-> {Sight(TRUE, TRUE, FALSE, FALSE)},
   air |-> {Sight(FALSE, TRUE, TRUE, FALSE), Sight(FALSE, FALSE, TRUE, FALSE),
            Sight(TRUE, FALSE, TRUE, TRUE), Sight(TRUE, TRUE, FALSE, FALSE)}]
MCAlarms == {[env |-> "air", key |-> k, level |-> n, id |-> n] : k \in Keys, n \in {1, 3}}
=============================================================================
