------------------------------ MODULE RuleEngine ------------------------------
(***************************************************************************)
(* TrackAlarmThread's pass over the alarm rules.  A pass builds the table  *)
(* of areas, copies tracks, trails and rules, and takes the rules in the   *)
(* order of their ids.  The condition of a rule on tracks and trails       *)
(* selects targets (processAlarms); each goes through the filters of the   *)
(* rule and may raise or keep up an alarm (updataAlarmTrackToDB, SaveToDB).*)
(* Positions are cells; an area is the set of cells in it, those within a  *)
(* mile outside (near) and inside (rim), and the distances to its road.    *)
(***************************************************************************)
EXTENDS Trails, AlarmContent

CONSTANTS
  Keys,       \* target ids
  MapOf,      \* the map each is in: fuse, bird, radar, ais
  Untrailed,  \* those that get no trail (AIS over DDS)
  Stranger,   \* what the key of an end iterator happens to be
  SightingsOf, \* what the track of each may show
  Cells, NoTrack, NoTrail,
  Order,      \* the rules in the order of their ids
  Loads,      \* the sets of rule ids that may be loaded and switched on (bound)
  AreaLists,  \* the area tables that may be loaded, by area id (bound)
  Circle,     \* what is around the own point, for distance rules
  Zone,       \* cells of the no-alarm groups
  InfoOf, NoInfo, \* m_mapTargetInfoFilter
  Detections, \* what the cognitive results may say of a target
  ParamRows,  \* m_listThreatAssessmentParams
  Filtered,   \* keys SaveToDB does nothing for: silenced, or not positive
  PerRule,    \* dedupMatchConditionAndTrack
  DroneMode, SelfFilter, \* mode = 0 and birdFilterMode = 0
  DoubleCheckFuseOnly, \* speedDoubleCheckFuseTrackOnly
  TrailMax, Linger, LookBack, MinTrail, \* 10 or 15, 10, 10, 2 in the code
  NoRule

\* What an alarm may be keyed by.
Ids == Keys \cup {Stranger}
Maps == {"fuse", "bird", "radar", "ais"}
Rules == {Order[i] : i \in DOMAIN Order}
Sightings == UNION {SightingsOf[k] : k \in Keys}

\* Columns of threat_assessment_params; an empty one is not there.
Weights == {"type", "angle", "speed", "distance", "low", "high", "reach"}
IsParamRow(row) ==
  /\ \A c \in Weights \cap DOMAIN row : row[c] \in Int
  /\ \A n \in DOMAIN row.score : row.score[n] \in Int

ASSUME RuleAssumption ==
  /\ Zone \subseteq Cells /\ Stranger \notin Keys /\ Untrailed \subseteq Keys
  /\ \A k \in Keys : MapOf[k] \in Maps
  /\ \A k \in Untrailed : MapOf[k] = "ais"
  /\ DoubleCheckFuseOnly \in BOOLEAN
  /\ \A s \in Sightings : s.ids \subseteq Ids
  /\ \A s \in Sightings :
       s.pos \in Cells /\ {s.speed, s.course, s.angle, s.center, s.range} \subseteq Int
  /\ \A r \in Rules : {r.courseMin, r.courseMax, r.threat} \subseteq Int
  /\ DOMAIN Order \subseteq Nat
  /\ Len(ParamRows) \in Nat /\ \A i \in 1..Len(ParamRows) : IsParamRow(ParamRows[i])
  /\ NoTrack \notin Sightings /\ NoTrail \notin Seq(Cells) /\ NoRule \notin Rules
  /\ TrailMax \in Nat /\ Linger \in Nat /\ LookBack \in Nat /\ MinTrail \in Nat
  /\ Loads \subseteq SUBSET Rules
  /\ NotFound \in Detections

VARIABLES
  track, trail, \* the maps of CustomConfig
  active,   \* m_mapAlarmRule: the rules that are switched on
  areas,    \* m_alarmArea of the group
  phase,    \* where the thread is
  table,    \* m_maparea: the areas the pass can use
  seen,     \* the copy of the tracks
  trails,   \* and of the trails
  todo,     \* the positions in Order of the rules the pass has not come to
  rule,     \* the rule whose targets are judged
  selected, \* trackIdSet, each with the map updataAlarmTrackToDB looks it up in
  pending,  \* the call of SaveToDB that is due
  last,     \* m_mapSpeedLastCheck
  pool      \* m_mapAlarmData

store == <<track, trail, active, areas>>
pass == <<table, seen, trails, todo, rule, selected, pending, last>>
vars == <<store, phase, pass, pool>>

NoSave == [key |-> Stranger]

Nothing == [k \in Keys |-> NoTrack]
NoTrails == [k \in Keys |-> NoTrail]

Init ==
  /\ track = Nothing /\ trail = NoTrails
  /\ active \in Loads /\ areas \in AreaLists
  /\ phase = "areas" /\ table = <<>> /\ seen = Nothing /\ trails = NoTrails
  /\ todo = {} /\ rule = NoRule /\ selected = {} /\ pending = NoSave
  /\ last = [k \in Ids |-> "none"] /\ pool = {}

-----------------------------------------------------------------------------
(* Ingest, reloads and other threads *)

Report(k, s) ==
  /\ track' = [track EXCEPT ![k] = s]
  /\ trail' = [trail EXCEPT ![k] =
       IF k \in Untrailed THEN NoTrail
       ELSE AppendTrailPoint(IF @ = NoTrail THEN <<>> ELSE @, s.pos, TrailMax)]
  /\ UNCHANGED <<active, areas, phase, pass, pool>>

\* LOST, MERGED or stale.
Remove(k) ==
  /\ track[k] # NoTrack
  /\ track' = [track EXCEPT ![k] = NoTrack] /\ trail' = [trail EXCEPT ![k] = NoTrail]
  /\ UNCHANGED <<active, areas, phase, pass, pool>>

\* reloadAlarmConfigFromDb replaces the rules, then the areas, on another thread; a
\* query that fails gives none.
ReloadRules ==
  /\ active' \in Loads
  /\ UNCHANGED <<track, trail, areas, phase, pass, pool>>

ReloadAreas ==
  /\ areas' \in AreaLists
  /\ UNCHANGED <<track, trail, active, phase, pass, pool>>

\* Another thread takes the alarms of a target out.
Purge(k) ==
  /\ pool' = {a \in pool : a.key # k}
  /\ UNCHANGED <<store, phase, pass>>

-----------------------------------------------------------------------------
(* The start of a pass *)

\* Every 30 min.
ClearSpeedChecks ==
  /\ phase = "areas"
  /\ last' = [k \in Ids |-> "none"]
  /\ UNCHANGED <<store, phase, table, seen, trails, todo, rule, selected, pending, pool>>

\* getAlarmArea: an area whose points do not parse is left out of the table.
GetAlarmArea ==
  /\ phase = "areas"
  /\ table' = SelectSeq(areas, LAMBDA a : a.ok)
  /\ phase' = "copy"
  /\ UNCHANGED <<store, seen, trails, todo, rule, selected, pending, last, pool>>

\* Mutant: the trails are read later, and a track may have none then.
CopyTracksOnly ==
  /\ phase = "copy"
  /\ seen' = track
  /\ todo' = {i \in DOMAIN Order : Order[i] \in active}
  /\ phase' = "rules"
  /\ UNCHANGED <<store, table, trails, rule, selected, pending, last, pool>>

\* The tracks and the trails that have a track are copied under the read lock, all AIS
\* trails with them; then the rules.
CopyTracks ==
  /\ phase = "copy"
  /\ seen' = track
  /\ trails' = [k \in Keys |->
       IF track[k] = NoTrack /\ MapOf[k] # "ais" THEN NoTrail ELSE trail[k]]
  /\ todo' = {i \in DOMAIN Order : Order[i] \in active}
  /\ phase' = "rules"
  /\ UNCHANGED <<store, table, rule, selected, pending, last, pool>>

-----------------------------------------------------------------------------
(* The condition of a rule *)

\* The area is taken by its index.
HasArea(r) == r.where # "area" \/ r.area < Len(table)
AreaOf(r) == IF r.where = "distance" THEN Circle ELSE table[r.area + 1]
MapOfRule(r) == IF r.type = "drone" THEN "bird" ELSE r.type

Seen(m) == {k \in Keys : MapOf[k] = m /\ seen[k] # NoTrack}
Trailed(m) == {k \in Keys : MapOf[k] = m /\ trails[k] # NoTrail}
In(r, k) == seen[k].pos \in AreaOf(r).inside
HeightIn(r, k) == seen[k].height \in r.heightMin..r.heightMax
Longer(k, n) == trails[k] # NoTrail /\ Len(trails[k]) > n
Stayed(r, k) == \A i \in 1..Linger : trails[k][i] \in AreaOf(r).inside

\* Area rule 1: now in the area, and so in the first positions of the trail.
LingerFuse(r) ==
  {k \in Seen("fuse") : In(r, k) /\ Longer(k, Linger) /\ HeightIn(r, k) /\ Stayed(r, k)}

\* In a circle neither the height nor the length of the trail is looked at.
LingerRadar(r) ==
  {k \in Seen("radar") : In(r, k) /\ Stayed(r, k)
    /\ (AreaOf(r).shape # "circle" => Longer(k, Linger) /\ HeightIn(r, k))}

\* An AIS track has height 0; in a circle any trail of some length will do.
LingerAis(r) ==
  {k \in Seen("ais") : In(r, k) /\
     IF AreaOf(r).shape = "circle" THEN Longer(k, MinTrail)
     ELSE Longer(k, Linger) /\ 0 \in r.heightMin..r.heightMax /\ Stayed(r, k)}

\* The height need be above the minimum or below the maximum; of the positions in the
\* trail only the number counts.
LingerBird(r) ==
  {k \in Seen("bird") : In(r, k) /\ Longer(k, MinTrail) /\ (DroneMode => seen[k].drone)
    /\ IF AreaOf(r).shape = "polygon"
       THEN seen[k].height > r.heightMin \/ seen[k].height < r.heightMax
       ELSE seen[k].height >= r.heightMin \/ seen[k].height <= r.heightMax}

LingerDrone(r) ==
  {k \in Seen("bird") : In(r, k) /\ Longer(k, Linger) /\ HeightIn(r, k) /\ Stayed(r, k)
    /\ seen[k].drone
    /\ (AreaOf(r).shape = "polygon" => seen[k].height \notin {r.heightMin, r.heightMax})}

\* Area rule 4: position 1 of the trail is inside and one of the next is not.
Leaves(k, i, a) == i <= LookBack /\ trails[k][i] \notin a
EnterTrail(r) ==
  LET a == AreaOf(r).inside
  IN {k \in Trailed(r.type) :
       trails[k][1] \in a /\ \E i \in 2..Len(trails[k]) : Leaves(k, i, a)}

\* The same for the drones of the bird map, by the present position; what is selected
\* is the key of the iterator of the loop before, which is at its end.
EnterDrone(r) ==
  {k \in Seen("bird") : In(r, k) /\ seen[k].drone /\ HeightIn(r, k) /\ trails[k] # NoTrail
    /\ \E i \in 2..Len(trails[k]) : Leaves(k, i, AreaOf(r).inside)}

\* Area rule 2: position 1 of the trail is outside and a later one is not.
LeaveTrail(r) ==
  LET a == AreaOf(r).inside
  IN {k \in Trailed(r.type) :
       trails[k][1] \notin a /\ \E i \in 2..Len(trails[k]) : trails[k][i] \in a}

\* Area rule 3: outside, within a mile.
Approach(r) ==
  {k \in Seen(r.type) : seen[k].pos \in AreaOf(r).near /\ Longer(k, MinTrail)}

Slow(r) == {k \in Seen(r.type) : seen[k].speed <= r.speed /\ Longer(k, MinTrail)}

Fast(r) == {k \in Seen(r.type) : seen[k].speed > r.speed /\ Longer(k, MinTrail)}

\* Within a mile of the road at position 1, and farther than at position 2.
Away(r) ==
  LET d == AreaOf(r).road
  IN {k \in Trailed(r.type) : AreaOf(r).shape = "road" /\ Len(trails[k]) > 1
       /\ trails[k][1] \in AreaOf(r).near /\ d[trails[k][1]] > d[trails[k][2]]}

Closer(r) ==
  LET d == AreaOf(r).road
  IN {k \in Trailed(r.type) : AreaOf(r).shape = "road" /\ Len(trails[k]) > 1
       /\ trails[k][1] \in AreaOf(r).near /\ d[trails[k][1]] < d[trails[k][2]]}

All(r) == Seen(r.type)

Within(r) ==
  {k \in Seen(r.type) : Longer(k, MinTrail) /\ (In(r, k) <=> r.below)}

\* The direction is taken from speed_condition.
Withdraw(r) ==
  LET a == Circle.inside
  IN {k \in Trailed(r.type) :
       \/ r.speedCondition = 1 /\ trails[k][1] \notin a
          /\ \E i \in 2..Len(trails[k]) : trails[k][i] \in a
       \/ r.speedCondition = 2 /\ trails[k][1] \in a
          /\ \E i \in 2..Len(trails[k]) : trails[k][i] \notin a}

Nearing(r) ==
  {k \in Seen(r.type) : Longer(k, MinTrail)
    /\ seen[k].pos \in IF r.below THEN Circle.near ELSE Circle.rim}

Meets(r) ==
  CASE r.judge = "linger" /\ r.type = "fuse" -> LingerFuse(r)
    [] r.judge = "linger" /\ r.type = "radar" -> LingerRadar(r)
    [] r.judge = "linger" /\ r.type = "ais" -> LingerAis(r)
    [] r.judge = "linger" /\ r.type = "bird" -> LingerBird(r)
    [] r.judge = "linger" /\ r.type = "drone" -> LingerDrone(r)
    [] r.judge = "enter" -> EnterTrail(r)
    [] r.judge = "leave" -> LeaveTrail(r)
    [] r.judge = "approach" -> Approach(r)
    [] r.judge = "slow" -> Slow(r)
    [] r.judge = "fast" -> Fast(r)
    [] r.judge = "away" -> Away(r)
    [] r.judge = "closer" -> Closer(r)
    [] r.judge = "all" -> All(r)
    [] r.judge = "within" -> Within(r)
    [] r.judge = "withdraw" -> Withdraw(r)
    [] r.judge = "nearing" -> Nearing(r)
    [] OTHER -> {}

\* Where updataAlarmTrackToDB looks a target up: drones are sought among the radar
\* tracks, and so is the key of the end iterator.
LookedUp(r, k) == <<IF r.type = "drone" \/ k = Stranger THEN "radar" ELSE r.type, k>>

Selects(r) ==
  {LookedUp(r, k) : k \in Meets(r)}
    \cup {LookedUp(r, Stranger) :
            k \in IF r.judge = "enter" /\ r.type = "fuse" THEN EnterDrone(r) ELSE {}}

\* Tracks whose trail the condition asks for: operator[] makes an empty one.
Asks(r) ==
  {k \in Seen(MapOfRule(r)) :
     CASE r.judge = "linger" -> In(r, k)
       [] r.judge = "approach" -> seen[k].pos \in AreaOf(r).near
       [] r.judge = "slow" -> seen[k].speed <= r.speed
       [] r.judge = "fast" -> seen[k].speed > r.speed
       [] r.judge = "within" -> In(r, k) <=> r.below
       [] r.judge = "nearing" -> seen[k].pos \in IF r.below THEN Circle.near ELSE Circle.rim
       [] OTHER -> FALSE}

\* A trail is read at a position it does not have.
ReadsPastEnd(r) ==
  LET Short(n) == \E k \in Trailed(r.type) : Len(trails[k]) < n
  IN CASE r.judge = "linger" /\ r.type = "radar" /\ AreaOf(r).shape = "circle" ->
            \E k \in Seen("radar") : In(r, k) /\ ~Longer(k, Linger - 1)
              /\ (trails[k] # NoTrail => \A i \in DOMAIN trails[k] : trails[k][i] \in AreaOf(r).inside)
       [] r.judge = "enter" /\ r.type = "fuse" ->
            /\ AreaOf(r).shape = "circle"
            /\ \E k \in Seen("bird") : In(r, k) /\ seen[k].drone /\ HeightIn(r, k) /\ Longer(k, 1)
       [] r.judge \in {"enter", "leave", "withdraw"} -> Short(1)
       [] r.judge = "away" -> r.type # "fuse" /\ Short(2)
       [] r.judge = "closer" -> Short(2)
       [] OTHER -> FALSE

\* The loop of the enter rule over fused trails does not step past an empty one: the
\* thread stays in it for ever.
Spins(r) == r.judge = "enter" /\ r.type = "fuse" /\ \E k \in Trailed("fuse") : trails[k] = <<>>

\* The rule the pass comes to next: m_mapAlarmRule is in the order of the ids.
IsNext(i) == i \in todo /\ \A j \in todo : i <= j

\* A rule whose area is missing ends the pass.
RuleWithoutArea ==
  /\ phase = "rules"
  /\ \E i \in todo : IsNext(i) /\ ~HasArea(Order[i])
  /\ todo' = {}
  /\ UNCHANGED <<store, phase, table, seen, trails, rule, selected, pending, last, pool>>

\* What the thread does from here on is undefined and not modelled.
RuleReadsPastEnd ==
  /\ phase = "rules"
  /\ \E i \in todo : IsNext(i) /\ HasArea(Order[i]) /\ ReadsPastEnd(Order[i])
  /\ phase' = "undefined"
  /\ UNCHANGED <<store, pass, pool>>

SelectTargets ==
  /\ phase = "rules" /\ phase' = "judge"
  /\ \E i \in todo :
       LET r == Order[i]
       IN /\ IsNext(i) /\ HasArea(r) /\ ~Spins(r) /\ ~ReadsPastEnd(r)
          /\ selected' = Selects(r) /\ rule' = r
          /\ trails' = [k \in Keys |->
               IF k \in Asks(r) /\ trails[k] = NoTrail THEN <<>> ELSE trails[k]]
          /\ todo' = todo \ {i}
  /\ UNCHANGED <<store, table, seen, pending, last, pool>>

-----------------------------------------------------------------------------
(* The filters of a rule *)

\* The tracks of a map that have the id of a target as unique or as local id.
Named(c) == {k \in Seen(c[1]) : c[2] \in seen[k].ids}

\* The track the target is judged by: the one under its key; for radar and bird tracks
\* else the first of those that have the id (here any of them); for AIS a local that was
\* never assigned.
Found(c) ==
  CASE c[1] = "ais" -> Sightings
    [] c[1] # "ais" /\ c[2] \in Seen(c[1]) -> {seen[c[2]]}
    [] c[1] \in {"radar", "bird"} /\ c[2] \notin Seen(c[1]) -> {seen[k] : k \in Named(c)}
    [] OTHER -> {}

\* The sensors of a bird track: a fusion id on the list, or a self-report.
BirdSkips(c, s) == c[1] = "bird" /\ (s.skip \/ (SelfFilter /\ s.self))

HasAlarm(k) == \E a \in pool : a.key = k

\* In a no-alarm group alarms may go on but not begin.
QuietZone(k, s) == s.pos \in Zone /\ ~HasAlarm(k)

Black(r, k) == InfoOf[k] # NoInfo /\ r.black /\ InfoOf[k].list = "black"
WhiteSkips(r, k) == InfoOf[k] # NoInfo /\ ~Black(r, k) /\ r.white /\ InfoOf[k].list # "white"

SpeedNow(r, s) ==
  CASE r.speedCondition = 1 -> s.speed < r.speed
    [] r.speedCondition = 2 -> s.speed > r.speed
    [] OTHER -> TRUE

\* Fused tracks, or all, are judged together with the verdict that was kept, whoever
\* kept it.
SpeedFits(r, c, s) ==
  \/ r.speedCondition = 0
  \/ SpeedNow(r, s) /\ (c[1] = "fuse" \/ ~DoubleCheckFuseOnly => last[c[2]] = "yes")

\* Mutant: a look that fails is not kept.
LastAfterPass(r, c, s) ==
  IF r.speedCondition # 0 /\ SpeedFits(r, c, s) THEN [last EXCEPT ![c[2]] = "yes"] ELSE last

LastAfter(r, c, s) ==
  IF r.speedCondition = 0 THEN last
  ELSE [last EXCEPT ![c[2]] = IF SpeedNow(r, s) THEN "yes" ELSE "no"]

HeightFits(r, s) == r.heightMin = r.heightMax \/ s.height \in r.heightMin..r.heightMax

\* The course, or the angle to the center of the protected circle if there is one.
Course(r, s) == IF r.protected THEN s.angle ELSE s.course
CourseFits(r, s) ==
  LET c == Course(r, s)
  IN \/ r.courseMin = r.courseMax
     \/ r.courseMin < r.courseMax /\ c \in r.courseMin..r.courseMax
     \/ r.courseMin > r.courseMax /\ (c >= r.courseMin \/ c <= r.courseMax)

ProtectFits(r, s) == r.dist < 0 \/ ~r.protected \/ s.edge < r.dist

\* The protected circle is looked up only for the course or the distance, and the angle
\* to its center is 0 unless the course was asked for.
Looked(r) == r.protected /\ (r.courseMin # r.courseMax \/ r.dist >= 0)
AngleToCheck(r, s) == IF r.courseMin # r.courseMax THEN Course(r, s) ELSE 0

\* Negative: never.  The way to the circle is along the course, and negative if there
\* is none.
TimeToProtectArea(s) ==
  CASE s.edge = 0 -> 0
    [] s.edge > 0 /\ s.speed > 0 /\ s.angle <= 90 /\ s.way > 0 -> s.way \div s.speed
    [] OTHER -> -1

\* Times are in seconds.
EntryFits(r, s) == r.entry = 0 \/ ~Looked(r) \/ TimeToProtectArea(s) \in 0..r.entry

AttributesFit(r, k) ==
  \/ InfoOf[k] = NoInfo
  \/ /\ r.sides = {} \/ InfoOf[k].side \in r.sides
     /\ r.corp = 1 => InfoOf[k].corp
     /\ r.corp = 2 => ~InfoOf[k].corp

\* The threat of a target, by the protected circle if it was looked up.
Threat(r, s, d) ==
  LET p == ParamsFor(ParamRows, r.area)
      name == FinalType(d, s.drone)
  IN IF Looked(r) THEN ThreatOf(p, name, s.speed, s.center, AngleToCheck(r, s))
     ELSE ThreatOf(p, name, s.speed, s.range, s.course)

\* Without a cognitive result only bird tracks go on.  The second level is never
\* compared with anything.
Cognitive(r) == r.types # NoTypes \/ r.threat > 0 \/ r.threat2 > 0
Assessed(r) == r.threat > 0 \/ r.threat2 > 0
CognitionFits(r, c, s, d) ==
  Cognitive(r) =>
    /\ d.found \/ c[1] = "bird"
    /\ d.found => TypesMatch(r.types, d)
    /\ r.threat > 0 => ~BelowLevel(Threat(r, s, d), r.threat)

Fits(r, c, s, d) ==
  /\ HeightFits(r, s) /\ CourseFits(r, s) /\ ProtectFits(r, s) /\ EntryFits(r, s)
  /\ AttributesFit(r, c[2]) /\ CognitionFits(r, c, s, d)

Sustained(r, k) == \E a \in pool : a.key = k /\ a.rule = r

\* Mutant of ContentAngle: the course of the track.
TrackAngle(r, s) == s.course

\* The angle the text is about.
ContentAngle(r, s) == IF Looked(r) THEN AngleToCheck(r, s) ELSE s.course

\* What an alarm is published with: the rule, the target as it met the rule, and a text,
\* for which the detection is read again.  An alarm that only goes on brings none.
NoEvidence == [rule |-> NoRule]
Evidence(r, s, text) == [rule |-> r, sight |-> s, text |-> text]
ContentFor(r, s, d, later, again) ==
  RuleContent(r, s, ContentAngle(r, s), later, again,
              IF Assessed(r) THEN Threat(r, s, d) ELSE NoThreat)

\* Mutant: the text is written again.
RewrittenEvidence(r, s, text) == Evidence(r, s, text)
KeptEvidence(r, s, text) == NoEvidence

\* No track, a filtered bird track, a no-alarm zone or not on the white list.
Drop(c) ==
  /\ phase = "judge" /\ pending = NoSave /\ c \in selected
  /\ \/ Found(c) = {}
     \/ \E s \in Found(c) : BirdSkips(c, s) \/ QuietZone(c[2], s) \/ WhiteSkips(rule, c[2])
  /\ selected' = selected \ {c}
  /\ UNCHANGED <<store, phase, table, seen, trails, todo, rule, pending, last, pool>>

\* A target on the black list is not judged any further.
RaiseBlack(c) ==
  /\ phase = "judge" /\ pending = NoSave /\ c \in selected
  /\ \E s \in Found(c), again \in Detections :
       /\ ~BirdSkips(c, s) /\ ~QuietZone(c[2], s) /\ Black(rule, c[2])
       /\ pending' = [key |-> c[2], evidence |-> Evidence(rule, s, BlackContent(again))]
  /\ selected' = selected \ {c}
  /\ UNCHANGED <<store, phase, table, seen, trails, todo, rule, last, pool>>

\* The alarm is raised or refreshed when all filters pass, and goes on when there is
\* one of this rule on this target; only the former brings evidence.
Judge(c) ==
  /\ phase = "judge" /\ pending = NoSave /\ c \in selected
  /\ \E s \in Found(c), d, later, again \in Detections :
       /\ ~BirdSkips(c, s) /\ ~QuietZone(c[2], s)
       /\ ~Black(rule, c[2]) /\ ~WhiteSkips(rule, c[2])
       /\ last' = LastAfter(rule, c, s)
       /\ LET passes == SpeedFits(rule, c, s) /\ Fits(rule, c, s, d)
              text == ContentFor(rule, s, d, later, again)
          IN pending' =
               CASE passes -> [key |-> c[2], evidence |-> Evidence(rule, s, text)]
                 [] ~passes /\ Sustained(rule, c[2]) ->
                      [key |-> c[2], evidence |-> KeptEvidence(rule, s, text)]
                 [] OTHER -> NoSave
  /\ selected' = selected \ {c}
  /\ UNCHANGED <<store, phase, table, seen, trails, todo, rule, pool>>

\* SaveToDB: nothing for a silenced target; else the alarm of the target (of the rule, if
\* PerRule) is refreshed and keeps its rule; evidence is replaced when there is some.
SameAlarm(a) == a.key = pending.key /\ (PerRule => a.rule = rule)
SaveToDB ==
  /\ pending # NoSave
  /\ LET e == pending.evidence
         same == {a \in pool : SameAlarm(a)}
     IN pool' =
          IF pending.key \in Filtered THEN pool
          ELSE IF same = {} THEN pool \cup {[rule |-> rule, key |-> pending.key, evidence |-> e]}
          ELSE {IF a \in same /\ e # NoEvidence THEN [a EXCEPT !.evidence = e] ELSE a : a \in pool}
  /\ pending' = NoSave
  /\ UNCHANGED <<store, phase, table, seen, trails, todo, rule, selected, last>>

\* Mutant: the loop over the targets ends with the first.
NextRuleEarly ==
  /\ phase = "judge" /\ pending = NoSave
  /\ phase' = "rules" /\ rule' = NoRule
  /\ UNCHANGED <<store, table, seen, trails, todo, selected, pending, last, pool>>

NextRule ==
  /\ phase = "judge" /\ pending = NoSave /\ selected = {}
  /\ phase' = "rules" /\ rule' = NoRule
  /\ UNCHANGED <<store, table, seen, trails, todo, selected, pending, last, pool>>

\* Alarms are published; those that were not refreshed for long are pruned.
EndPass ==
  /\ phase = "rules" /\ todo = {}
  /\ phase' = "areas" /\ table' = <<>> /\ seen' = Nothing /\ trails' = NoTrails
  /\ \E old \in SUBSET pool : pool' = pool \ old
  /\ UNCHANGED <<store, todo, rule, selected, pending, last>>

Next ==
  \/ \E k \in Keys : Remove(k) \/ \E s \in SightingsOf[k] : Report(k, s)
  \/ \E k \in Ids : Purge(k)
  \/ ReloadRules \/ ReloadAreas
  \/ ClearSpeedChecks \/ GetAlarmArea \/ CopyTracks
  \/ RuleWithoutArea \/ RuleReadsPastEnd \/ SelectTargets
  \/ \E c \in selected : Drop(c) \/ RaiseBlack(c) \/ Judge(c)
  \/ SaveToDB \/ NextRule \/ EndPass

\* The thread goes on.
Fairness ==
  /\ WF_vars(GetAlarmArea) /\ WF_vars(CopyTracks) /\ WF_vars(RuleWithoutArea)
  /\ WF_vars(RuleReadsPastEnd) /\ WF_vars(SelectTargets) /\ WF_vars(SaveToDB)
  /\ WF_vars(NextRule) /\ WF_vars(EndPass)
  /\ WF_vars(\E c \in selected : Drop(c) \/ RaiseBlack(c) \/ Judge(c))

Spec == Init /\ [][Next]_vars /\ Fairness

-----------------------------------------------------------------------------
(* Properties *)

AreTracks(f) ==
  /\ f \in [Keys -> {NoTrack} \cup Sightings]
  /\ \A k \in Keys : f[k] \in {NoTrack} \cup SightingsOf[k]
AreTrails(f) ==
  /\ f \in [Keys -> {NoTrail} \cup Seq(Cells)]
  /\ \A k \in Keys : f[k] # NoTrail => Len(f[k]) <= TrailMax + 1

\* A trail has no more than TrailMax + 1 positions; targets are judged only under a
\* rule, and SaveToDB is called only for one.
TypeOK ==
  /\ AreTracks(track) /\ AreTracks(seen) /\ AreTrails(trail) /\ AreTrails(trails)
  /\ active \in Loads /\ areas \in AreaLists
  /\ phase \in {"areas", "copy", "rules", "judge", "undefined"}
  /\ todo \subseteq DOMAIN Order
  /\ rule \in Rules \cup {NoRule} /\ (rule # NoRule <=> phase = "judge")
  /\ selected # {} \/ pending # NoSave => phase = "judge"
  /\ \A c \in selected : c[2] \in Ids
  /\ last \in [Ids -> {"none", "yes", "no"}]
  /\ \A a \in pool : a.key \in Ids /\ a.rule \in Rules

\* The conditions read the oldest positions of a trail unchecked, and the enter rule
\* would loop for ever on an empty one (TrackAlarmThread.cpp:2069): it never meets one,
\* because operator[] makes a trail only for a track that has none, and every fused
\* track of the copy has its trail in the copy.
FusedReadsStayInTrails ==
  phase = "rules" =>
    \A i \in todo :
      LET r == Order[i]
      IN /\ ~Spins(r)
         /\ r.type = "fuse" /\ r.judge \in {"leave", "withdraw"} => ~ReadsPastEnd(r)

\* TrackAlarmThread.cpp:1364: the text of an alarm is of a moment when the target met
\* the rule the text names, however long the alarm has gone on since, whichever rules
\* have refreshed it and whatever the track shows now.
MetRule(k, e) ==
  \/ Black(e.rule, k)
  \/ /\ e.rule.speedCondition # 0 => SpeedNow(e.rule, e.sight)
     /\ \E d \in Detections : Fits(e.rule, LookedUp(e.rule, k), e.sight, d)
EvidenceWasMatch == \A a \in pool : a.evidence # NoEvidence => MetRule(a.key, a.evidence)

\* AlarmContentBuilder.cpp:186: the text names the conditions of the rule on speed,
\* course, height and threat, each if and only if the rule has it, unless it is of the
\* ones that are no condition (a threat that is not a number is not named): it is about
\* the same angle, the same threat and the same moment as the judgement.
Names(e, c) == c \in e.text.says
NamesConditions(e) ==
  LET r == e.rule
  IN /\ Names(e, "speed") <=> r.speedCondition \in {1, 2}
     /\ Names(e, "course") <=> r.courseMin # r.courseMax /\ <<r.courseMin, r.courseMax>> # <<0, 360>>
     /\ Names(e, "height") <=> r.heightMin # r.heightMax /\ HeightSaid(r, e.sight.height)
     /\ Names(e, "threat") <=> r.threat > 0 /\ e.text.threat # NaN
TextNamesConditions ==
  \A a \in pool :
    a.evidence # NoEvidence /\ ~Names(a.evidence, "black") => NamesConditions(a.evidence)

\* A fused target that stays in an area and meets every filter of the linger rule on it.
Lingers(k, r) ==
  /\ r \in active /\ r.judge = "linger" /\ r.type = "fuse" /\ r.where = "area"
  /\ MapOf[k] = "fuse" /\ k \notin Filtered /\ track[k] # NoTrack
  /\ \A i \in DOMAIN areas : areas[i].ok
  /\ \A q \in active : q.where = "area" => q.area < Len(areas)
  /\ LET s == track[k]
         a == areas[r.area + 1].inside
     IN /\ s.pos \in a \ Zone /\ ~WhiteSkips(r, k)
        /\ Len(trail[k]) > Linger /\ \A i \in 1..Linger : trail[k][i] \in a
        /\ s.height \in r.heightMin..r.heightMax /\ SpeedNow(r, s)
        /\ \A d \in Detections : Fits(r, <<"fuse", k>>, s, d)

OnlySpeedRule(r) == \A q \in active \ {r} : q.speedCondition = 0
Defined == phase # "undefined"
Alarmed(k, r) == \E a \in pool : a.key = k /\ (PerRule => a.rule = r)

\* TrackAlarmThread.cpp:965: a fused target that goes on meeting a linger rule has an
\* alarm again and again, however often it is purged, with the two looks at its speed;
\* if no other rule looks at speeds and the looks are not cleared all the time (they
\* are every 30 min, and a pass takes seconds).
LingererIsRaised ==
  \A k \in Keys, r \in Rules :
    /\ <>[](Lingers(k, r) /\ OnlySpeedRule(r) /\ Defined)
    /\ <>[][~ClearSpeedChecks]_vars
    => []<>Alarmed(k, r)

\* TrackAlarmThread.cpp:2446 and commonStruct.h:1904: area judge 2 is leaving the area;
\* so a target it selects is outside where the pass sees it.
LeaveMeansLeft ==
  phase = "judge" /\ rule.judge = "leave" =>
    \A c \in selected : seen[c[2]].pos \notin AreaOf(rule).inside
=============================================================================
