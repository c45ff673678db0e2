--------------------------- MODULE ThreatAssessment ---------------------------
(***************************************************************************)
(* The threat of a target: scores for its type, speed, distance and        *)
(* course, weighted by the parameters of the area.  The code computes in   *)
(* doubles; here a score is in thousandths of a point, a weight in         *)
(* thousandths, and divisions round down.                                  *)
(***************************************************************************)
EXTENDS Integers, Sequences

\* What a detection says of a target: its final type, and what each of the three looks
\* took it for.  A type may be written with capitals.
Looks == {"camera", "llm", "uav"}
NoTypes == [w \in Looks |-> {}]
NotFound == [found |-> FALSE, final |-> "", by |-> [w \in Looks |-> ""]]

LowerCase == [Ship |-> "ship", Drone |-> "drone"]
Lower(name) == IF name \in DOMAIN LowerCase THEN LowerCase[name] ELSE name

\* The kinds a rule asks for; "ship" stands for every kind of ship.
SeaTypes == {"yacht", "buoy", "cargo", "fishing"}
KindOf ==
  [speedboat |-> "yacht", yacht |-> "yacht", buoy |-> "buoy", cargoship |-> "cargo",
   cargo |-> "cargo", fishingboat |-> "fishing", fishing |-> "fishing", uav |-> "drone",
   drone |-> "drone", missile |-> "missile", missle |-> "missile", unknown |-> "unknown"]
KindsOf(name) ==
  CASE Lower(name) = "ship" -> SeaTypes
    [] Lower(name) \in DOMAIN KindOf -> {KindOf[Lower(name)]}
    [] OTHER -> {}

\* Each look a rule asks for saw one of the kinds it wants.
TypesMatch(types, d) == \A w \in Looks : types[w] # {} => KindsOf(d.by[w]) \cap types[w] # {}

-----------------------------------------------------------------------------
(* Parameters *)

DefaultScores ==
  [seaSpeedboat |-> 10000, seaWarship |-> 10000, seaMotorboat |-> 8000,
   seaFishingBoat |-> 4000, seaShip |-> 4000, seaCargoShip |-> 2000, seaUnknown |-> 5000,
   seaBuoy |-> 0, airDrone |-> 10000, airDroneSwarm |-> 10000, airCompoundWing |-> 10000,
   airRotorcraft |-> 10000, airAircraft |-> 0, airBird |-> 0, airBirdFlock |-> 0]

DefaultParams ==
  [score |-> DefaultScores, type |-> 420, angle |-> 180, speed |-> 160, distance |-> 240,
   low |-> 5, high |-> 30, reach |-> 50]

\* A column that is empty in the row is read as 0.
ParamsOfRow(row) ==
  [c \in DOMAIN DefaultParams |->
     CASE c = "score" -> [n \in DOMAIN DefaultScores |->
                            IF n \in DOMAIN row.score THEN row.score[n] ELSE 0]
       [] c # "score" /\ c \in DOMAIN row -> row[c]
       [] OTHER -> 0]

\* The first row of the area, or the defaults.
ParamsFor(rows, area) ==
  LET found == {i \in 1..Len(rows) : rows[i].area = area}
  IN IF found = {} THEN DefaultParams
     ELSE ParamsOfRow(rows[CHOOSE i \in found : \A j \in found : i <= j])

-----------------------------------------------------------------------------
(* The formula *)

\* The score a name stands for; unlike in KindsOf its case counts.
ScoreName ==
  [speedboat |-> "seaSpeedboat", yacht |-> "seaSpeedboat", warship |-> "seaWarship",
   motorboat |-> "seaMotorboat", fishingboat |-> "seaFishingBoat", ship |-> "seaShip",
   cargoship |-> "seaCargoShip", buoy |-> "seaBuoy", uav |-> "airDrone",
   drone |-> "airDrone", drone_swarm |-> "airDroneSwarm",
   compound_wing |-> "airCompoundWing", rotorcraft |-> "airRotorcraft",
   aircraft |-> "airAircraft", bird |-> "airBird", bird_flock |-> "airBirdFlock"]

FinalType(d, drone) == IF d.final = "" /\ drone THEN "drone" ELSE d.final

TypeScore(p, name) ==
  CASE name = "" -> 0
    [] name \in DOMAIN ScoreName -> p.score[ScoreName[name]]
    [] OTHER -> p.score.seaUnknown

\* At the threshold of an empty range the quotient is 0/0; no score is negative.
NaN == -1
SpeedScore(p, v) ==
  CASE v < p.low -> 0
    [] v >= p.low /\ v <= p.high -> IF p.low = p.high THEN NaN
                                    ELSE ((v - p.low) * 10000) \div (p.high - p.low)
    [] OTHER -> 10000

DistanceScore(p, d) ==
  IF d > 0 /\ p.reach > 0 /\ d < p.reach THEN ((p.reach - d) * 10000) \div p.reach ELSE 0

\* Full for a course of 0 and for one of 360.
CapabilityScore(name, angle) ==
  CASE name = "buoy" -> 0
    [] name # "buoy" /\ angle <= 180 -> ((180 - angle) * 10000) \div 180
    [] OTHER -> ((angle - 180) * 10000) \div 180

\* In thousandths of 0..100.
Clamped(level) == IF level > 100000 THEN 100000 ELSE IF level < 0 THEN 0 ELSE level

ThreatOf(p, name, v, dist, angle) ==
  LET speed == SpeedScore(p, v)
      sum == TypeScore(p, name) * p.type + CapabilityScore(name, angle) * p.angle
               + speed * p.speed + DistanceScore(p, dist) * p.distance
      level == sum \div 100
  IN IF speed = NaN THEN NaN ELSE Clamped(level)

\* The alarm is dropped if the threat is below the level: NaN is not.
BelowLevel(threat, level) == threat # NaN /\ threat < level * 1000
=============================================================================
