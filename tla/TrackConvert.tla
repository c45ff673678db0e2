------------------------------ MODULE TrackConvert ------------------------------
(***************************************************************************)
(* What the ingest reads out of a message before it is a report on a track *)
(* (TrackStore): the map and key of the track, its position, its ids.      *)
(* Targets come as NewTrackStruct over gRPC or DDS (two copies of one      *)
(* code), other tracks as TrackDataClass over gRPC or DDS.                 *)
(***************************************************************************)
EXTENDS Integers, Sequences
Seqs == INSTANCE SequencesExt

CONSTANTS
  Word, \* 2^32: how many values an unsigned id has
  Low   \* 10,000: fused tracks of the old topic have smaller ids (mode 0)

ASSUME WordAssumption == Word \in Nat \ {0} /\ Word % 2 = 0 /\ Low \in Nat

\* The int that an unsigned id is cast to.
Signed(n) == IF n < Word \div 2 THEN n ELSE n - Word

FirstNonZero(a, b) == IF a # 0 THEN a ELSE b

-----------------------------------------------------------------------------
(* NewTrackStruct: an id that is empty, no number or negative is written 0 *)

HasId(t) == t.id > 0

UniqueId(t) == t.id % Word

\* The sources of a target that came from a radar, and what was fused into them.
RadarSources(t) == SelectSeq(t.sources, LAMBDA s : s.radar)
FusionSources(t) == Seqs!FlattenSeq([i \in DOMAIN RadarSources(t) |-> RadarSources(t)[i].fusion])

NoProfile == [pos |-> <<0, 0>>, range |-> 0]
RadarProfile(t) == IF RadarSources(t) = <<>> THEN NoProfile ELSE RadarSources(t)[1]

\* Latitude and longitude one by one: fused, else of the first radar, else 0.
Position(t) == [i \in 1..2 |-> FirstNonZero(t.pos[i], RadarProfile(t).pos[i])]
RangeMetres(t) == FirstNonZero(t.range, RadarProfile(t).range)

\* The yaw, or the direction of the velocity.
CourseDegrees(t) == FirstNonZero(t.yaw, t.heading)

\* The first of them, which may be 0.
ZibaoweiTrackId(t) ==
  LET own == SelectSeq(FusionSources(t), LAMBDA f : f.source = "zibaowei")
  IN IF own = <<>> THEN 0 ELSE own[1].id

\* Eight slots, in the order of the sources; that of zibaowei takes the first as well.
Slots == 0..7
Fused8(t) == SelectSeq(FusionSources(t), LAMBDA f : f.source # "tan_niao")
FusionTrackIds(t) ==
  LET ids == [s \in Slots |-> IF s < Len(Fused8(t)) THEN Fused8(t)[s + 1].id ELSE 0]
  IN [ids EXCEPT ![0] = FirstNonZero(ZibaoweiTrackId(t), @)]
Sensors(t) == {s \in Slots : s < Len(Fused8(t))}

ThreatScore(t) ==
  CASE t.threat = "HIGH" -> 75
    [] t.threat = "MEDIUM" -> 50
    [] t.threat = "LOW" -> 25
    [] OTHER -> t.confidence  \* in hundredths

\* What is kept of a target as a track; kind 3 is a drone.
TargetToSpx(t) ==
  [pos |-> Position(t), range |-> RangeMetres(t), course |-> CourseDegrees(t), speed |-> t.speed,
   unique |-> UniqueId(t), ids |-> FusionTrackIds(t), sensors |-> Sensors(t),
   score |-> ThreatScore(t), kind |-> IF t.drone THEN 3 ELSE 1]

\* An id once known is not given up for none.
PreserveStableUniqueId(previous, incoming) ==
  IF previous # 0 /\ incoming = 0 THEN previous ELSE incoming

-----------------------------------------------------------------------------
(* TrackDataClass over gRPC, with its source; route and code are those of Config.ini *)

\* A positive unique id, else the track id.
SpxMapKey(m) == IF Signed(m.unique) > 0 THEN Signed(m.unique) ELSE Signed(m.track)

\* A message without MMSI is keyed by another id; only if all are 0 there is none.
Mmsi(m) == FirstNonZero(FirstNonZero(m.mmsi, m.track), m.unique)

Routed(route, m) == m.source \in DOMAIN route
HasCode(code, m) == m.source \in DOMAIN code

\* Where a message goes; it is passed over if there is no key.
IngestOf(route, code, m) ==
  LET bucket == IF Routed(route, m) THEN route[m.source] ELSE "none"
      spx == {k \in {SpxMapKey(m)} : k > 0}
  IN CASE bucket = "radar" -> [map |-> "radar", keys |-> IF HasCode(code, m) THEN spx ELSE {}]
       [] bucket = "bird" -> [map |-> "birdRadar", keys |-> spx]
       [] bucket = "ais" -> [map |-> "ais", keys |-> {Signed(n) : n \in {Mmsi(m)} \ {0}}]
       [] OTHER -> [map |-> "radar", keys |-> {}]

\* The source of a radar track is kept as its code, that of a bird track is not.
SourceCodeOf(route, code, m) == IF route[m.source] = "radar" THEN code[m.source] ELSE 0

-----------------------------------------------------------------------------
(* TrackDataClass over DDS: the topic says where a sample goes *)

Topics == {"fuse", "radar1", "radar2", "ais", "pose", "bird", "autoBird", "fuseBird", "ku"}

\* Three topics are read only if they are switched on and have a name.
HasReader(topic, on, named) ==
  topic \in {"autoBird", "fuseBird", "ku"} => topic \in on /\ topic \in named

\* The topics that are read; without a participant or a subscriber the constructor throws.
Readers(on, named, created) ==
  {t \in Topics : {"participant", "subscriber"} \subseteq created /\ HasReader(t, on, named)}

\* The key may be 0 or negative here, or that of another target: no id is looked at
\* but, in mode 0, for the range of fused ids.  Poses of drones go nowhere.
SampleOf(mode, topic, m) ==
  CASE topic = "fuse" /\ mode = 1 -> [map |-> "fuse", keys |-> {m.reserved4}]
    [] topic = "fuse" /\ mode # 1 -> [map |-> "fuse", keys |-> {k \in {m.track} : k < Low}]
    [] topic = "fuseBird" -> [map |-> "bird", keys |-> {m.track}]
    [] topic \in {"radar1", "radar2"} -> [map |-> "radar", keys |-> {m.track}]
    [] topic \in {"ku", "bird", "autoBird"} -> [map |-> "birdRadar", keys |-> {m.track}]
    [] topic = "ais" -> [map |-> "ais", keys |-> {m.mmsi}]
    [] OTHER -> [map |-> "radar", keys |-> {}]

\* The ids of reserved6 that are not tan_niao's, joined by commas, as a number: 0 unless
\* there is one.  A text that is no list of sources has none.
JoinedIds(m) ==
  LET others == SelectSeq(m.reserved6, LAMBDA f : f.source # "tan_niao")
  IN IF Len(others) = 1 THEN others[1].id ELSE 0

SampleIds(topic, m) == IF topic = "fuseBird" THEN [m.ids EXCEPT ![0] = JoinedIds(m)] ELSE m.ids

\* The kind is written for three topics; for the others it is any value.
KindsOfSample(topic, m, any) ==
  IF topic \in {"fuseBird", "bird", "autoBird"} THEN {IF m.category = 3 THEN 3 ELSE 1} ELSE any
=============================================================================
