----------------------------- MODULE AlarmContent -----------------------------
(***************************************************************************)
(* The reason that is published with an alarm (buildRuleAlarmContent).     *)
(* What it says is kept as a set of claims, the type of the target and the *)
(* threat; the wording is left out.                                        *)
(***************************************************************************)
EXTENDS ThreatAssessment

NoThreat == -2

\* resolveTargetTypeRaw: the final type, else what camera or model took it for.
FirstType(d) ==
  CASE ~d.found -> ""
    [] d.found /\ d.final # "" -> Lower(d.final)
    [] d.found /\ d.final = "" /\ d.by["camera"] # "" -> Lower(d.by["camera"])
    [] OTHER -> Lower(d.by["llm"])

\* The detection at hand says nothing: the database is asked again.
TargetType(d, again) ==
  CASE FirstType(d) # "" -> FirstType(d)
    [] FirstType(d) = "" /\ FirstType(again) # "" -> FirstType(again)
    [] OTHER -> "unknown"

-----------------------------------------------------------------------------
(* formatRuleTriggerSummary: the conditions of the rule that the target meets *)

SpeedSaid(r, speed) ==
  \/ r.speedCondition = 1 /\ speed < r.speed
  \/ r.speedCondition = 2 /\ speed > r.speed

\* All around is no condition.
CourseSaid(r, angle) ==
  /\ r.courseMin # r.courseMax /\ <<r.courseMin, r.courseMax>> # <<0, 360>>
  /\ IF r.courseMin <= r.courseMax THEN angle \in r.courseMin..r.courseMax
     ELSE angle >= r.courseMin \/ angle <= r.courseMax

\* Nor are the heights of a rule that was never edited.
HeightSaid(r, height) ==
  /\ r.heightMin # r.heightMax /\ <<r.heightMin, r.heightMax>> \notin {<<0, 100>>, <<0, 1000>>}
  /\ height \in r.heightMin..r.heightMax

\* Of these two only the rule is asked: the target is not looked at.
AttributeSaid(r) == r.attribute > 0
DistanceSaid(r) == r.dist >= 0

\* What the looks saw is compared no more, only whether they saw anything.
LookSaid(w, r, d) == r.types[w] # {} /\ d.by[w] # ""

\* The threat, rounded: 0 if it is not a number, and the default if there is none.
DefaultThreatScore == 90
Score(threat) ==
  CASE threat = NoThreat -> DefaultThreatScore
    [] threat = NaN -> 0
    [] OTHER -> (threat + 500) \div 1000

ThreatSaid(r, score) == r.threat > 0 /\ score >= r.threat

TriggerSummary(r, s, angle, d, score) ==
  LET said ==
        {c \in {"speed"} : SpeedSaid(r, s.speed)} \cup {c \in {"course"} : CourseSaid(r, angle)}
          \cup {c \in {"height"} : HeightSaid(r, s.height)}
          \cup {w \in Looks : LookSaid(w, r, d)}
          \cup {c \in {"attribute"} : AttributeSaid(r)}
          \cup {c \in {"distance"} : DistanceSaid(r)} \cup {c \in {"threat"} : ThreatSaid(r, score)}
  IN IF said = {} THEN {"name"} ELSE said

\* The content for a target on the black list: no condition was looked at.
BlackContent(again) == [says |-> {"black"}, type |-> TargetType(NotFound, again), threat |-> NoThreat]

\* The angle is the attack angle if the protected circle was found, else the course.
RuleContent(r, s, angle, d, again, threat) ==
  [says |-> TriggerSummary(r, s, angle, d, Score(threat)),
   type |-> TargetType(d, again), threat |-> threat]
=============================================================================
