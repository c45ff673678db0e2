--------------------------- MODULE TrackStoreProofs ---------------------------
(* Proofs about TrackStore, for any number of targets and any batches. *)
EXTENDS TrackStore, TrackConvert, TLAPS

\* appendTrailPoint keeps the trail short and ends with a trail that has the position.
LEMMA AppendTrailPointFacts ==
  ASSUME NEW s \in Seq(Cells), NEW p \in Cells, NEW max \in Nat, Len(s) <= max + 1
  PROVE  /\ AppendTrailPoint(s, p, max) \in Seq(Cells)
         /\ Len(AppendTrailPoint(s, p, max)) <= max + 1
         /\ Holds(AppendTrailPoint(s, p, max), p)
<1>1. CASE Holds(s, p)
  BY <1>1 DEF AppendTrailPoint
<1>2. CASE ~Holds(s, p)
  <2> DEFINE t == IF Len(s) > max THEN Tail(s) ELSE s
  <2>1. t \in Seq(Cells) /\ Len(t) <= max
    BY Len(s) \in Nat
  <2>2. Append(t, p) \in Seq(Cells) /\ Len(Append(t, p)) = Len(t) + 1
    BY <2>1
  <2>3. Append(t, p)[Len(t) + 1] = p /\ Len(t) + 1 \in DOMAIN Append(t, p)
    BY <2>1, <2>2
  <2>4. AppendTrailPoint(s, p, max) = Append(t, p)
    BY <1>2 DEF AppendTrailPoint
  <2> HIDE DEF t
  <2> QED
    BY <2>1, <2>2, <2>3, <2>4 DEF Holds
<1> QED
  BY <1>1, <1>2

\* What the update of one entry of a map of maps does.
LEMMA UpdateFacts ==
  ASSUME NEW T, NEW f \in [Maps -> [Keys -> T]], NEW m \in Maps, NEW k \in Keys, NEW v \in T
  PROVE  /\ [f EXCEPT ![m][k] = v] \in [Maps -> [Keys -> T]]
         /\ \A x \in Maps, y \in Keys :
              [f EXCEPT ![m][k] = v][x][y] = IF x = m /\ y = k THEN v ELSE f[x][y]
  OBVIOUS

\* A thread that applies a batch runs, and the batch is for the maps it writes.
BatchInv ==
  /\ writer = Nobody => batch = <<>> /\ done = 0
  /\ writer # Nobody => Runs(writer) /\ \A i \in DOMAIN batch : batch[i].map \in Writes(writer)

Inv == TypeOK /\ BatchInv

Tracks == [sight : Sightings, age : 0..MaxAge]

LEMMA ReceivedType ==
  ASSUME NEW r \in Report
  PROVE  Received(r) \in Tracks /\ Received(r) # NoTrack /\ Received(r).sight = r.sight
  BY StoreAssumption DEF StoreAssumption, Report, Received, Tracks

LEMMA NoTrackIsNone == NoTrack \notin Tracks
  BY StoreAssumption DEF StoreAssumption, Tracks

\* What a report does to the maps.
Dies(r) == writer = "fusionStream" /\ r.state = "dead"
NextTrack(r) == IF Dies(r) THEN NoTrack ELSE Received(r)
NextTrail(r) ==
  CASE Dies(r) -> <<>>
    [] ~Dies(r) /\ ~HasTrail(r.map) -> trail[r.map][r.key]
    [] ~Dies(r) /\ HasTrail(r.map) ->
         AppendTrailPoint(trail[r.map][r.key], r.sight.pos, TrailMax[r.map])

LEMMA ReportEffect ==
  ASSUME Inv, ApplyReport, NEW r, r = batch[done + 1]
  PROVE  /\ r \in Report
         /\ r.key = BadKey => UNCHANGED <<track, trail>>
         /\ r.key # BadKey =>
              /\ track' = [track EXCEPT ![r.map][r.key] = NextTrack(r)]
              /\ trail' = [trail EXCEPT ![r.map][r.key] = NextTrail(r)]
<1>1. r \in Report /\ r.map \in Writes(writer) /\ Runs(writer) /\ writer \in Writers
  BY DEF ApplyReport, Inv, TypeOK, BatchInv
<1>2. r.map \in Maps /\ r.state \in {"live", "dead"} /\ r.key \in Keys \cup {BadKey}
  BY <1>1 DEF Report
<1>3. r.key = BadKey => UNCHANGED <<track, trail>>
  BY <1>1 DEF ApplyReport, ApplyTargetOutputSet, ApplyDdsOutputSet, ApplyTrackDataClass, ApplySample,
    Writers, Streams
<1>4. CASE r.key # BadKey
  <2>1. trail[r.map] = [trail[r.map] EXCEPT ![r.key] = trail[r.map][r.key]]
    BY <1>2, <1>4 DEF Inv, TypeOK
  <2>2. trail = [trail EXCEPT ![r.map][r.key] = trail[r.map][r.key]]
    BY <1>2, <1>4, <2>1 DEF Inv, TypeOK
  <2>3. CASE writer = "fusionStream"
    <3>1. r.map # "ais"
      BY <1>1, <2>3 DEF Writes, Fused
    <3> QED
      BY <1>1, <1>2, <1>4, <2>3, <3>1 DEF ApplyReport, ApplyTargetOutputSet, Remove, Insert, Dies,
        NextTrack, NextTrail, HasTrail
  <2>4. CASE writer = "fusionDds"
    <3>1. r.map # "ais"
      BY <1>1, <2>4 DEF Writes, Fused
    <3> QED
      BY <1>1, <1>2, <1>4, <2>4, <3>1 DEF ApplyReport, ApplyDdsOutputSet, Insert, Dies,
        NextTrack, NextTrail, HasTrail
  <2>5. CASE writer = "radarStream"
    <3>1. HasTrail(r.map)
      BY <1>1, <2>5 DEF Runs, HasTrail
    <3> QED
      BY <1>1, <1>2, <1>4, <2>5, <3>1 DEF ApplyReport, ApplyTrackDataClass, Insert, Dies,
        NextTrack, NextTrail
  <2>6. CASE writer = "trackClass"
    <3>1. HasTrail(r.map) <=> r.map # "ais"
      BY <1>1, <2>6 DEF Runs, HasTrail
    <3>2. CASE r.map = "ais"
      BY <1>1, <1>2, <1>4, <2>2, <2>6, <3>1, <3>2 DEF ApplyReport, ApplySample, Dies,
        NextTrack, NextTrail
    <3>3. CASE r.map # "ais"
      BY <1>1, <1>2, <1>4, <2>6, <3>1, <3>3 DEF ApplyReport, ApplySample, Insert, Dies,
        NextTrack, NextTrail
    <3> QED
      BY <3>2, <3>3
  <2> QED
    BY <1>1, <1>2, <2>3, <2>4, <2>5, <2>6 DEF Writers, Streams
<1> QED
  BY <1>1, <1>3, <1>4

\* The types of the maps, and that trails follow tracks.
MapsOK ==
  /\ track \in [Maps -> [Keys -> Tracks \cup {NoTrack}]]
  /\ trail \in [Maps -> [Keys -> Seq(Cells)]]
  /\ \A m \in Maps, k \in Keys : Len(trail[m][k]) <= TrailMax[m] + 1

LEMMA ReportMaps ==
  ASSUME Inv, ApplyReport
  PROVE  MapsOK' /\ (TrailFollowsTrack => TrailFollowsTrack')
<1> DEFINE r == batch[done + 1]
<1>0. /\ r \in Report
      /\ r.key = BadKey => UNCHANGED <<track, trail>>
      /\ r.key # BadKey =>
           /\ track' = [track EXCEPT ![r.map][r.key] = NextTrack(r)]
           /\ trail' = [trail EXCEPT ![r.map][r.key] = NextTrail(r)]
  BY ReportEffect
<1>1. MapsOK /\ transport' = transport
  BY DEF Inv, TypeOK, MapsOK, Tracks, ApplyReport
<1>2. CASE r.key = BadKey
  BY <1>0, <1>1, <1>2 DEF MapsOK, TrailFollowsTrack, HasTrail
<1>3. CASE r.key # BadKey
  <2> DEFINE old == trail[r.map][r.key]
  <2>1. r.map \in Maps /\ r.key \in Keys /\ r.sight \in Sightings
    BY <1>0, <1>3 DEF Report
  <2>2. /\ old \in Seq(Cells) /\ Len(old) <= TrailMax[r.map] + 1
        /\ TrailMax[r.map] \in Nat /\ r.sight.pos \in Cells
    BY <1>1, <2>1, StoreAssumption DEF StoreAssumption, MapsOK
  <2>3. /\ NextTrail(r) \in Seq(Cells) /\ Len(NextTrail(r)) <= TrailMax[r.map] + 1
        /\ ~Dies(r) /\ HasTrail(r.map) => Holds(NextTrail(r), r.sight.pos)
        /\ Dies(r) => NextTrail(r) = <<>>
        /\ ~Dies(r) /\ ~HasTrail(r.map) => NextTrail(r) = old
    <3>1. CASE Dies(r)
      BY <2>2, <3>1 DEF NextTrail
    <3>2. CASE ~Dies(r) /\ ~HasTrail(r.map)
      BY <2>2, <3>2 DEF NextTrail
    <3>3. CASE ~Dies(r) /\ HasTrail(r.map)
      BY <2>2, <3>3, AppendTrailPointFacts DEF NextTrail
    <3> QED
      BY <3>1, <3>2, <3>3
  <2>4. /\ NextTrack(r) \in Tracks \cup {NoTrack}
        /\ Dies(r) => NextTrack(r) = NoTrack
        /\ ~Dies(r) => NextTrack(r) # NoTrack /\ NextTrack(r).sight = r.sight
    BY <1>0, ReceivedType DEF NextTrack
  <2>a. /\ track' = [track EXCEPT ![r.map][r.key] = NextTrack(r)]
        /\ trail' = [trail EXCEPT ![r.map][r.key] = NextTrail(r)]
    BY <1>0, <1>3
  <2>b. track \in [Maps -> [Keys -> Tracks \cup {NoTrack}]] /\ trail \in [Maps -> [Keys -> Seq(Cells)]]
    BY <1>1 DEF MapsOK
  <2> HIDE DEF r, old
  <2>5. \A m \in Maps, k \in Keys :
           /\ track'[m][k] = IF m = r.map /\ k = r.key THEN NextTrack(r) ELSE track[m][k]
           /\ trail'[m][k] = IF m = r.map /\ k = r.key THEN NextTrail(r) ELSE trail[m][k]
    BY <1>0, <1>1, <1>3, <2>1 DEF MapsOK
  <2>6. MapsOK'
    <3>1. track' \in [Maps -> [Keys -> Tracks \cup {NoTrack}]]
      BY <2>a, <2>b, <2>1, <2>4, UpdateFacts
    <3>2. trail' \in [Maps -> [Keys -> Seq(Cells)]]
      BY <2>a, <2>b, <2>1, <2>3, UpdateFacts
    <3>3. \A m \in Maps, k \in Keys : Len(trail'[m][k]) <= TrailMax[m] + 1
      BY <1>1, <2>3, <2>5 DEF MapsOK
    <3> QED
      BY <3>1, <3>2, <3>3 DEF MapsOK
  <2>7. ASSUME TrailFollowsTrack PROVE TrailFollowsTrack'
    <3>1. \A m : HasTrail(m)' <=> HasTrail(m)
      BY <1>1 DEF HasTrail
    <3>2. ASSUME NEW m \in Maps, NEW k \in Keys, ~(m = r.map /\ k = r.key)
          PROVE  IF track'[m][k] = NoTrack \/ ~HasTrail(m)' THEN trail'[m][k] = <<>>
                 ELSE Holds(trail'[m][k], track'[m][k].sight.pos)
      BY <2>5, <2>7, <3>1, <3>2 DEF TrailFollowsTrack
    <3>3. IF NextTrack(r) = NoTrack \/ ~HasTrail(r.map) THEN NextTrail(r) = <<>>
          ELSE Holds(NextTrail(r), NextTrack(r).sight.pos)
      <4>1. ~HasTrail(r.map) => old = <<>>
        BY <2>1, <2>7 DEF TrailFollowsTrack, old
      <4> QED
        BY <2>3, <2>4, <4>1
    <3> QED
      BY <2>1, <2>5, <3>1, <3>2, <3>3 DEF TrailFollowsTrack
  <2> QED
    BY <2>6, <2>7
<1> QED
  BY <1>2, <1>3

LEMMA ClearMaps ==
  ASSUME Inv, NEW stale, NEW maps, NEW swept, Clear(stale, maps, swept), transport' = transport
  PROVE  MapsOK' /\ (TrailFollowsTrack => TrailFollowsTrack')
<1>1. MapsOK
  BY DEF Inv, TypeOK, MapsOK, Tracks
<1>2. \A m \in Maps, k \in Keys :
         \/ track'[m][k] = NoTrack /\ trail'[m][k] = <<>>
         \/ track'[m][k] = track[m][k] /\ trail'[m][k] = trail[m][k]
  BY DEF Clear
<1>3. \A m \in Maps, k \in Keys : <<>> \in Seq(Cells) /\ Len(<<>>) <= TrailMax[m] + 1
  BY StoreAssumption DEF StoreAssumption
<1>4. MapsOK'
  <2>1. track' \in [Maps -> [Keys -> Tracks \cup {NoTrack}]]
    BY <1>1 DEF Clear, MapsOK
  <2>2. trail' \in [Maps -> [Keys -> Seq(Cells)]]
    BY <1>1, <1>3 DEF Clear, MapsOK
  <2>3. \A m \in Maps, k \in Keys : Len(trail'[m][k]) <= TrailMax[m] + 1
    BY <1>1, <1>2, <1>3 DEF MapsOK
  <2> QED
    BY <2>1, <2>2, <2>3 DEF MapsOK
<1>5. ASSUME TrailFollowsTrack PROVE TrailFollowsTrack'
  BY <1>2, <1>5 DEF TrailFollowsTrack, HasTrail
<1> QED
  BY <1>4, <1>5

LEMMA TickMaps ==
  ASSUME Inv, Tick
  PROVE  /\ MapsOK' /\ (TrailFollowsTrack => TrailFollowsTrack')
         /\ \A m \in Maps, k \in Keys :
              /\ track'[m][k] = NoTrack <=> track[m][k] = NoTrack
              /\ track[m][k] # NoTrack => track'[m][k].sight = track[m][k].sight
<1>1. MapsOK
  BY DEF Inv, TypeOK, MapsOK, Tracks
<1>2. ASSUME NEW t \in Tracks
      PROVE  Older(t) \in Tracks /\ Older(t) # NoTrack /\ Older(t).sight = t.sight
  BY <1>2, NoTrackIsNone, StoreAssumption DEF StoreAssumption, Older, Tracks
<1>3. Older(NoTrack) = NoTrack
  BY DEF Older
<1>4. \A m \in Maps, k \in Keys : track'[m][k] = Older(track[m][k])
  BY DEF Tick
<1>5. \A m \in Maps, k \in Keys :
         /\ track'[m][k] \in Tracks \cup {NoTrack}
         /\ track'[m][k] = NoTrack <=> track[m][k] = NoTrack
         /\ track[m][k] # NoTrack => track'[m][k].sight = track[m][k].sight
  BY <1>1, <1>2, <1>3, <1>4 DEF MapsOK
<1>6. MapsOK'
  BY <1>1, <1>5 DEF MapsOK, Tick
<1>7. ASSUME TrailFollowsTrack PROVE TrailFollowsTrack'
  BY <1>5, <1>7 DEF TrailFollowsTrack, HasTrail, Tick
<1> QED
  BY <1>5, <1>6, <1>7

LEMMA MapsNext ==
  ASSUME Inv, [Next]_vars
  PROVE  MapsOK' /\ (TrailFollowsTrack => TrailFollowsTrack')
<1>1. CASE UNCHANGED <<transport, track, trail>>
  BY <1>1 DEF Inv, TypeOK, MapsOK, Tracks, TrailFollowsTrack, HasTrail
<1>2. CASE PruneThread \/ SlotClearTrack
  BY <1>2, ClearMaps DEF PruneThread, SlotClearTrack, ClearStaleTrackMaps
<1>3. CASE ApplyReport
  BY <1>3, ReportMaps
<1>4. CASE Tick
  BY <1>4, TickMaps
<1>5. ASSUME NEW th \in Writers, ClearAfterBatch(th)
      PROVE  MapsOK' /\ (TrailFollowsTrack => TrailFollowsTrack')
  BY <1>1, <1>5, ClearMaps DEF ClearAfterBatch, ClearStaleTrackMaps, ClearStaleIngestedTracks
<1> QED
  BY <1>1, <1>2, <1>3, <1>4, <1>5 DEF Next, EndBatch, Connect, StreamEnds, BeginBatch, vars

LEMMA InitInv == Init => Inv /\ TrailFollowsTrack
<1> SUFFICES ASSUME Init PROVE Inv /\ TrailFollowsTrack
  OBVIOUS
<1>1. MapsOK
  BY StoreAssumption DEF StoreAssumption, Init, MapsOK
<1>2. TypeOK
  BY <1>1 DEF Init, TypeOK, MapsOK, Tracks
<1>3. BatchInv
  BY StoreAssumption DEF StoreAssumption, Init, BatchInv
<1> QED
  BY <1>2, <1>3 DEF Init, Inv, TrailFollowsTrack

LEMMA NextInv == Inv /\ [Next]_vars => Inv'
<1> SUFFICES ASSUME Inv, [Next]_vars PROVE Inv'
  OBVIOUS
<1>1. MapsOK'
  BY MapsNext
<1>2. /\ transport' = transport
      /\ phase' \in [Writers -> {"wait", "read", "clear"}] /\ due' \in [Writers -> BOOLEAN]
  BY DEF Inv, TypeOK, Next, PruneThread, SlotClearTrack, ApplyReport, EndBatch, Connect, StreamEnds,
    BeginBatch, ClearAfterBatch, Tick, vars
<1>3. CASE UNCHANGED <<writer, batch, done>>
  BY <1>1, <1>2, <1>3 DEF Inv, TypeOK, BatchInv, Runs, Writes, MapsOK, Tracks
<1>4. ASSUME NEW th \in Writers, NEW b \in Batches, BeginBatch(th, b)  PROVE Inv'
  <2>1. b \in Seq(Report)
    BY StoreAssumption DEF StoreAssumption
  <2>2. writer' \in Writers \cup {Nobody} /\ batch' \in Seq(Report) /\ done' \in 0..Len(batch')
    BY <1>4, <2>1 DEF BeginBatch
  <2>3. writer' = th /\ th # Nobody /\ batch' = b
    BY <1>4, StoreAssumption DEF StoreAssumption, BeginBatch
  <2>4. Runs(th)' /\ \A i \in DOMAIN b : b[i].map \in Writes(th)
    BY <1>2, <1>4 DEF BeginBatch, Runs
  <2>5. BatchInv'
    BY <2>3, <2>4 DEF BatchInv, Runs, Writes
  <2> QED
    BY <1>1, <1>2, <2>2, <2>5 DEF Inv, TypeOK, MapsOK, Tracks
<1>5. CASE ApplyReport
  <2>1. writer' = writer /\ batch' = batch /\ writer # Nobody
    BY <1>5 DEF ApplyReport
  <2>2. done' \in 0..Len(batch')
    BY <1>5, <2>1 DEF ApplyReport, Inv, TypeOK
  <2>3. BatchInv'
    BY <1>2, <2>1 DEF Inv, BatchInv, Runs, Writes
  <2> QED
    BY <1>1, <1>2, <2>1, <2>2, <2>3 DEF Inv, TypeOK, MapsOK, Tracks
<1>6. CASE EndBatch
  BY <1>1, <1>2, <1>6 DEF EndBatch, Inv, TypeOK, BatchInv, MapsOK, Tracks
<1> QED
  BY <1>3, <1>4, <1>5, <1>6 DEF Next, PruneThread, SlotClearTrack, Connect, StreamEnds,
    ClearAfterBatch, Tick, vars

\* Tracks and trails are of their kinds, and no trail outgrows TrailMax + 1 positions,
\* whatever comes in whatever batches.
THEOREM StoreTypeCorrect == Spec => []TypeOK
<1>1. Inv => TypeOK
  BY DEF Inv
<1> QED
  BY <1>1, InitInv, NextInv, PTL DEF Spec

\* A track has its position in its trail, and no trail outlives its track.
THEOREM StoreTrailFollowsTrack == Spec => []TrailFollowsTrack
<1>1. Inv /\ TrailFollowsTrack /\ [Next]_vars => TrailFollowsTrack'
  BY MapsNext
<1> QED
  BY <1>1, InitInv, NextInv, PTL DEF Spec

-----------------------------------------------------------------------------
(* The last report on a target wins *)

LEMMA LastInit == Init => LastReportWins
  BY DEF Init, LastReportWins

LEMMA LastNext == Inv /\ LastReportWins /\ [Next]_vars => LastReportWins'
<1> SUFFICES ASSUME Inv, LastReportWins, [Next]_vars PROVE LastReportWins'
  OBVIOUS
<1>1. CASE UNCHANGED <<track, writer, batch, done>>
  BY <1>1 DEF LastReportWins, Same
<1>2. CASE done' = 0
  BY <1>2 DEF LastReportWins
<1>3. CASE PruneThread \/ SlotClearTrack \/ \E th \in Writers : ClearAfterBatch(th)
  BY <1>2, <1>3 DEF PruneThread, SlotClearTrack, ClearAfterBatch, Inv, BatchInv
<1>4. CASE ApplyReport
  <2> DEFINE r == batch[done + 1]
  <2>1. /\ r \in Report
        /\ r.key = BadKey => track' = track
        /\ r.key # BadKey => track' = [track EXCEPT ![r.map][r.key] = NextTrack(r)]
    BY <1>4, ReportEffect
  <2>2. writer' = writer /\ batch' = batch /\ done' = done + 1 /\ done \in Nat
        /\ \A j \in 1..done' : batch[j] \in Report
    BY <1>4 DEF ApplyReport, Inv, TypeOK
  <2>3. NextTrack(r) = NoTrack <=> Dies(r)
    BY <2>1, ReceivedType DEF NextTrack
  <2>4. ~Dies(r) => NextTrack(r).sight = r.sight
    BY <2>1, ReceivedType DEF NextTrack
  <2> SUFFICES ASSUME NEW i \in 1..done', batch[i].key # BadKey, \A j \in (i + 1)..done' : ~Same(i, j)
               PROVE  LET t == track'[batch[i].map][batch[i].key]
                      IN IF Dies(batch[i]) THEN t = NoTrack ELSE t # NoTrack /\ t.sight = batch[i].sight
    BY <2>2 DEF LastReportWins, Same, Dies
  <2>5. batch[i].map \in Maps /\ batch[i].key \in Keys
    BY <2>2 DEF Report
  <2>6. CASE i = done + 1
    <3>1. track'[r.map][r.key] = NextTrack(r)
      BY <2>1, <2>5, <2>6 DEF Inv, TypeOK
    <3> QED
      BY <2>3, <2>4, <2>6, <3>1
  <2>7. CASE i # done + 1
    <3>1. i \in 1..done /\ ~Same(i, done + 1) /\ \A j \in (i + 1)..done : ~Same(i, j)
      BY <2>2, <2>7
    <3>2. track'[batch[i].map][batch[i].key] = track[batch[i].map][batch[i].key]
      <4>1. CASE r.key = BadKey
        BY <2>1, <4>1
      <4>2. CASE r.key # BadKey
        <5>1. r.map \in Maps /\ r.key \in Keys
          BY <2>1, <4>2 DEF Report
        <5>2. ~(batch[i].map = r.map /\ batch[i].key = r.key)
          BY <3>1 DEF Same
        <5>3. \A x \in Maps, y \in Keys :
                ~(x = r.map /\ y = r.key) => track'[x][y] = track[x][y]
          <6> DEFINE v == NextTrack(r)
          <6>1. track' = [track EXCEPT ![r.map][r.key] = v] /\ track \in [Maps -> [Keys -> Tracks \cup {NoTrack}]]
            BY <2>1, <4>2 DEF Inv, TypeOK, Tracks
          <6> HIDE DEF r, v
          <6> QED
            BY <6>1, <5>1
        <5> QED
          BY <2>5, <5>2, <5>3
      <4> QED
        BY <4>1, <4>2
    <3> QED
      BY <3>1, <3>2 DEF LastReportWins, Dies
  <2> QED
    BY <2>6, <2>7
<1>5. CASE Tick
  <2>1. \A i \in 1..done : batch[i] \in Report
    BY DEF Inv, TypeOK
  <2>2. \A i \in 1..done : batch[i].key # BadKey => batch[i].map \in Maps /\ batch[i].key \in Keys
    BY <2>1 DEF Report
  <2>3. UNCHANGED <<writer, batch, done>>
    BY <1>5 DEF Tick
  <2>4. \A m \in Maps, k \in Keys :
          /\ track'[m][k] = NoTrack <=> track[m][k] = NoTrack
          /\ track[m][k] # NoTrack => track'[m][k].sight = track[m][k].sight
    BY <1>5, TickMaps
  <2> SUFFICES ASSUME NEW i \in 1..done, batch[i].key # BadKey, \A j \in (i + 1)..done : ~Same(i, j)
               PROVE  LET t == track'[batch[i].map][batch[i].key]
                      IN IF Dies(batch[i]) THEN t = NoTrack ELSE t # NoTrack /\ t.sight = batch[i].sight
    BY <2>3 DEF LastReportWins, Same, Dies
  <2> QED
    BY <2>2, <2>4 DEF LastReportWins, Dies
<1> QED
  BY <1>1, <1>2, <1>3, <1>4, <1>5 DEF Next, EndBatch, Connect, StreamEnds, BeginBatch, vars

\* Of several reports on a target in one batch the last one decides.
THEOREM StoreLastReportWins == Spec => []LastReportWins
  BY InitInv, NextInv, LastInit, LastNext, PTL DEF Spec

-----------------------------------------------------------------------------
(* The keys of a message (TrackConvert), for any number of values of an id *)

\* An unsigned id, and the ones that are positive as an int.
Unsigned == 0..(Word - 1)
Positive == 1..(Word \div 2 - 1)

LEMMA SignedFacts ==
  /\ \A n \in Unsigned : Signed(n) \in Int /\ (Signed(n) > 0 <=> n \in Positive)
  /\ \A n \in Positive : Signed(n) = n /\ n \in Unsigned
  /\ \A n \in Unsigned : Signed(n) = 0 <=> n = 0
  /\ \A n, k \in Unsigned : Signed(n) = Signed(k) => n = k
<1>1. Word \div 2 \in Nat /\ Word = 2 * (Word \div 2) /\ Word \in Nat
  BY WordAssumption DEF WordAssumption
<1> QED
  BY <1>1 DEF Unsigned, Positive, Signed

\* A bird or radar track that is routed has its unique id as its key if that is positive as
\* an int, its track id if only that one is, and no key otherwise: no track is kept under 0
\* or a negative key.  An AIS track has a key unless its three ids are 0 (ingestTrackData).
THEOREM KeysArePositive ==
  ASSUME NEW route, NEW code, NEW m, m.source \in DOMAIN route,
         m.mmsi \in Unsigned, m.track \in Unsigned, m.unique \in Unsigned
  PROVE  LET keys == IngestOf(route, code, m).keys
             own == IF m.unique \in Positive THEN {m.unique} ELSE {m.track} \cap Positive
         IN  /\ route[m.source] = "bird" => keys = own
             /\ route[m.source] = "radar" => keys = IF m.source \in DOMAIN code THEN own ELSE {}
             /\ route[m.source] = "ais" =>
                  (keys = {} <=> m.mmsi = 0 /\ m.track = 0 /\ m.unique = 0)
             /\ route[m.source] \notin {"bird", "radar", "ais"} => keys = {}
<1> DEFINE spx == {k \in {SpxMapKey(m)} : k > 0}
           own == IF m.unique \in Positive THEN {m.unique} ELSE {m.track} \cap Positive
<1>1. spx = own
  BY SignedFacts DEF SpxMapKey
<1>2. route[m.source] = "bird" => IngestOf(route, code, m).keys = spx
  BY DEF IngestOf, Routed
<1>3. route[m.source] = "radar" =>
        IngestOf(route, code, m).keys = IF m.source \in DOMAIN code THEN spx ELSE {}
  BY DEF IngestOf, Routed, HasCode
<1>4. route[m.source] = "ais" =>
        IngestOf(route, code, m).keys = {Signed(n) : n \in {Mmsi(m)} \ {0}}
  BY DEF IngestOf, Routed
<1>5. Mmsi(m) = 0 <=> m.mmsi = 0 /\ m.track = 0 /\ m.unique = 0
  BY DEF Mmsi, FirstNonZero
<1>6. {Signed(n) : n \in {Mmsi(m)} \ {0}} = {} <=> Mmsi(m) = 0
  OBVIOUS
<1>7. route[m.source] \notin {"bird", "radar", "ais"} => IngestOf(route, code, m).keys = {}
  BY DEF IngestOf, Routed
<1> QED
  BY <1>1, <1>2, <1>3, <1>4, <1>5, <1>6, <1>7
=============================================================================
