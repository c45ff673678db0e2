----------------------------- MODULE MCTrackStore -----------------------------
(***************************************************************************)
(* An instance of TrackStore for TLC.  Its batches are what TrackConvert   *)
(* reads out of messages, under the routes that a Config.ini gives.        *)
(***************************************************************************)
EXTENDS TrackStore, TrackConvert, ConfigFile, FiniteSets

MCMaps == {"bird", "ais"}
MCCells == {<<1, 1>>, <<2, 1>>}
MCSightings == {[pos |-> p] : p \in MCCells}
MCTrailMax == [bird |-> 1, ais |-> 0]
MCGrpcStale == [m \in MCMaps |-> 1]
MCDdsStale == [m \in MCMaps |-> 0]

\* Targets in the air.  One position is left out of the target and taken from its radar.
Radar(pos, fusion) == [radar |-> TRUE, pos |-> pos, range |-> 7, fusion |-> fusion]
Camera == [radar |-> FALSE, pos |-> <<9, 9>>, range |-> 9, fusion |-> <<[source |-> "zibaowei", id |-> 9]>>]
Target(id, lost, p) ==
  [id |-> id, lost |-> lost, pos |-> IF p = 1 THEN <<1, 1>> ELSE <<0, 1>>,
   sources |-> <<Camera, Radar(<<2, 5>>, <<>>)>>]
OfTarget(t) ==
  [map |-> "bird", key |-> IF HasId(t) THEN t.id ELSE BadKey,
   state |-> IF t.lost THEN "dead" ELSE "live", sight |-> [pos |-> Position(t)]]

\* Tracks of AIS, keyed by the first id they have, and of a source without a route.
Ini == [FusionTrackGrpcSourceRoutes |-> Quoted(<< <<"ship", "ais">>, <<"ship", "nowhere">> >>)]
Track(source, mmsi, local, unique, p) ==
  [source |-> source, mmsi |-> mmsi, track |-> local, unique |-> unique, pos |-> <<p, 1>>]
OfTrack(m) ==
  LET to == IngestOf(SourceRoute(Ini), SourceCode(Ini), m)
  IN [map |-> "ais", key |-> IF to.keys = {} THEN BadKey ELSE CHOOSE k \in to.keys : TRUE,
      state |-> "live", sight |-> [pos |-> m.pos]]

MCBatches ==
  {<<OfTarget(Target(1, FALSE, p))>> : p \in 1..2}
    \cup {<<OfTrack(Track("ship", 0, 1, 2, p))>> : p \in 1..2}
    \cup {<<OfTarget(Target(1, FALSE, 1)), OfTarget(Target(1, TRUE, 1))>>,
          <<OfTarget(Target(1, TRUE, 2)), OfTarget(Target(1, FALSE, 2))>>,
          <<OfTrack(Track("ship", 1, 2, 2, 1)), OfTrack(Track("crow", 1, 1, 1, 1))>>,
          <<OfTrack(Track("ship", 0, 0, 0, 1)), OfTrack(Track("ship", 0, 0, 1, 2))>>}

-----------------------------------------------------------------------------
(* Facts about the conversions, over bounded messages *)

Small == 0..(Word + 2)

\* Two targets share a uniqueID (the id alarms, filters and the destroy service know
\* them by) exactly if their ids agree in the low 32 bits: targetToSpxExtended.
ASSUME UniqueIdsMeet ==
  \A i, j \in Small \ {0} :
    UniqueId([id |-> i]) = UniqueId([id |-> j]) <=> \E n \in -2..2 : i = j + n * Word

\* A radar or bird track has its unique id as key if that is a positive int, its track id
\* if that is one, and no key else; an AIS track always has one unless all ids are 0.
Ids == {0, 1, Word \div 2 - 1, Word \div 2, Word - 1}
Routes == [crow |-> "bird", ship |-> "ais", sea |-> "radar", lost |-> "radar"]
Codes == [sea |-> 5]
Messages ==
  [source : {"crow", "ship", "sea", "lost", "new"}, mmsi : Ids, track : Ids, unique : Ids]
ASSUME KeysArePositive ==
  \A m \in Messages :
    LET keys == IngestOf(Routes, Codes, m).keys IN
    CASE m.source \in {"new", "lost"} -> keys = {}
      [] m.source \in {"crow", "sea"} ->
           keys = IF m.unique \in 1..(Word \div 2 - 1) THEN {m.unique}
                  ELSE {m.track} \cap (1..(Word \div 2 - 1))
      [] m.source = "ship" -> (keys = {}) <=> (m.mmsi = 0 /\ m.track = 0 /\ m.unique = 0)

\* The fusion ids of a target: the id of its own report is in the first slot, no slot is
\* tan_niao's, the slots in use come first, and of the first eight ids none is lost
\* but the one in the place of the own report's (fillFusionTrackIds).
Fusions == {<<>>} \cup UNION {[1..n -> [source : {"tan_niao", "zibaowei", "sea"}, id : {0, 5, 6}]] : n \in 1..3}
Nine == [i \in 1..9 |-> [source |-> IF i = 9 THEN "zibaowei" ELSE "sea", id |-> i]]
ASSUME FusionIdsKept ==
  \A a \in Fusions \cup {Nine}, b \in {f \in Fusions : Len(f) <= 1} :
    LET t == [id |-> 1, sources |-> <<Radar(<<1, 1>>, a), Camera, Radar(<<1, 1>>, b)>>]
        all == a \o b
        ids == FusionTrackIds(t)
        own == ZibaoweiTrackId(t)
    IN /\ own # 0 => ids[0] = own
       /\ \A s \in Slots : ids[s] # 0 => \E i \in DOMAIN all : all[i].id = ids[s] /\ all[i].source # "tan_niao"
       /\ \A s \in Sensors(t) : s = 0 \/ s - 1 \in Sensors(t)
       /\ \A i \in DOMAIN all :
            (/\ all[i].source # "tan_niao" /\ all[i].id # 0
             /\ Cardinality({j \in 1..i : all[j].source # "tan_niao"}) <= 8) =>
              \/ \E s \in Sensors(t) : ids[s] = all[i].id
              \/ own # 0 /\ \A j \in 1..(i - 1) : all[j].source = "tan_niao"

\* The old topics take any id, and key fused tracks by one field or another (mode).
Samples == [track : {-1, 0, 1, Low, Low + 1}, reserved4 : {0, Low}, mmsi : {0, 7}]
ASSUME OldTopicsTakeAnyId ==
  \A m \in Samples :
    /\ SampleOf(0, "fuse", m).keys = {} <=> m.track >= Low
    /\ SampleOf(1, "fuse", m).keys = {m.reserved4}
    /\ \A topic \in {"fuseBird", "radar1", "radar2", "ku", "bird", "autoBird"} :
         SampleOf(0, topic, m).keys = {m.track}

\* A bird over the old topic shows the one source it has beside tan_niao, and none if
\* there are two: "5,6" is no number.
ASSUME TwoSourcesShowNone ==
  \A f \in Fusions :
    LET m == [reserved6 |-> f, ids |-> [s \in Slots |-> 9], category |-> 3]
        others == {i \in DOMAIN f : f[i].source # "tan_niao"}
        first == SampleIds("fuseBird", m)[0]
    IN IF Cardinality(others) = 1 THEN \A i \in others : first = f[i].id ELSE first = 0
=============================================================================
