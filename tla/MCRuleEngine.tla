----------------------------- MODULE MCRuleEngine -----------------------------
(* Instances of RuleEngine for TLC. *)
EXTENDS RuleEngine

CONSTANTS f1, a1  \* a fused target, and an AIS one that gets no trail

MCMapOf == [k \in Keys |-> IF k = f1 THEN "fuse" ELSE "ais"]
Sight(p, v, c, a) ==
  [pos |-> p, speed |-> v, height |-> 0, course |-> c, angle |-> a, edge |-> 9, way |-> 9,
   center |-> 60, range |-> 20, drone |-> FALSE, skip |-> FALSE, self |-> FALSE, ids |-> {}]
MCSightingsOf == [k \in Keys |->
  IF k = f1 THEN {Sight(1, 9, 90, 0), Sight(3, 1, 0, 90)} ELSE {Sight(1, 1, 0, 0)}]

Rule(type, judge, cond, v) ==
  [type |-> type, judge |-> judge, where |-> "area", area |-> 0, heightMin |-> 0,
   heightMax |-> 0, speedCondition |-> cond, speed |-> v, courseMin |-> 0, courseMax |-> 0,
   protected |-> FALSE, dist |-> -1, entry |-> 0, black |-> TRUE, white |-> FALSE,
   sides |-> {}, corp |-> 0, types |-> NoTypes, threat |-> 0, threat2 |-> 0, attribute |-> 0,
   below |-> TRUE]
FastLinger == Rule("fuse", "linger", 2, 5)
\* A threat of 37.36 for a ship that heads for the protected circle, 25 for one that
\* does not.
ShipEnters ==
  [Rule("fuse", "enter", 0, 0) EXCEPT !.types["camera"] = {"cargo"}, !.courseMax = 10,
                                      !.protected = TRUE, !.threat = 30]
AisLingers == Rule("ais", "linger", 0, 0)
AisLeaves == Rule("ais", "leave", 0, 0)
MCOrder == <<FastLinger, ShipEnters, AisLingers, AisLeaves>>
MCLoads == {{FastLinger, ShipEnters}, {FastLinger, AisLingers, AisLeaves}}
LeaveOnly == <<Rule("fuse", "leave", 0, 0)>>
LeaveOn == {{LeaveOnly[1]}}

Area(ok) ==
  [ok |-> ok, shape |-> "circle", inside |-> {1, 2}, near |-> {3}, rim |-> {2},
   road |-> [p \in Cells |-> p]]
MCAreaLists == {<<Area(TRUE)>>, <<Area(FALSE)>>}
GoodArea == {<<Area(TRUE)>>}
MCCircle == Area(TRUE)
MCInfoOf == [k \in Ids |->
  IF k # a1 THEN NoInfo ELSE [list |-> "black", side |-> "own", corp |-> FALSE]]
Ship == [found |-> TRUE, final |-> "Ship", by |-> [w \in Looks |-> "Ship"]]
MCDetections == {NotFound, Ship}
\* A row of another area, and no row of this one.
MCParamRows == <<[area |-> 7, score |-> DefaultScores]>>
=============================================================================
