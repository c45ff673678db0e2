------------------------------ MODULE TrackStore ------------------------------
(***************************************************************************)
(* The track maps of CustomConfig and the threads that fill them.  Fused   *)
(* tracks come over gRPC (a stream thread and a prune thread) or FastDDS   *)
(* (a listener); radar, bird radar and AIS tracks over gRPC (a stream      *)
(* thread) or the old TrackDataClass subscriber (a listener and a timer),  *)
(* which also writes fused tracks.  m_trackDataLock is held while a batch  *)
(* is applied or stale tracks are cleared.                                 *)
(***************************************************************************)
EXTENDS Trails

CONSTANTS
  Maps,      \* which of the five maps the instance has
  Keys,      \* map keys: target ids, track ids, MMSIs
  BadKey,    \* an id that does not parse, is not routed or is out of range
  Sightings, \* what a report may say of a track: records with a position pos
  Cells,     \* positions
  NoTrack,
  TrailMax,  \* trail length per map
  GrpcStale, DdsStale, \* the age per map above which a track is cleared
  MaxAge,    \* ages saturate here (bound)
  Batches,   \* the sequences of reports that may come (bound)
  Nobody

AllMaps == {"fuse", "bird", "radar", "birdRadar", "ais"}
Fused == {"fuse", "bird"}
Streams == {"fusionStream", "radarStream"}
Writers == Streams \cup {"fusionDds", "trackClass"}

Report == [map : Maps, key : Keys \cup {BadKey}, state : {"live", "dead"}, sight : Sightings]

ASSUME StoreAssumption ==
  /\ Maps \subseteq AllMaps
  /\ BadKey \notin Keys
  /\ \A s \in Sightings : s.pos \in Cells
  /\ TrailMax \in [Maps -> Nat]
  /\ MaxAge \in Nat /\ GrpcStale \in [Maps -> 0..MaxAge] /\ DdsStale \in [Maps -> 0..MaxAge]
  /\ Batches \subseteq Seq(Report) /\ Nobody \notin Writers
  /\ \A s \in Sightings, a \in 0..MaxAge : NoTrack # [sight |-> s, age |-> a]

VARIABLES
  transport, \* FusionTrackTransport and RadarTrackTransport; fixed
  track,     \* m_mapFuseTrack, m_mapBirdFuseTrack, m_mapRadarTrack, ...
  trail,     \* m_mapFuseTrail, ...
  phase,     \* where each writer is: connecting, reading, about to clear
  due,       \* whether 2 s have passed since a writer last cleared
  writer,    \* who holds m_trackDataLock across steps
  batch,     \* the batch it applies
  done       \* how many of its reports are applied

vars == <<transport, track, trail, phase, due, writer, batch, done>>

\* InitFastdds starts one channel for the fused and at most one for the other tracks.
Runs(th) ==
  CASE th = "fusionStream" -> transport.fusion = "grpc"
    [] th = "fusionDds" -> transport.fusion = "dds"
    [] th = "radarStream" -> transport.radar = "grpc"
    [] th = "trackClass" -> transport.radar = "dds"

Writes(th) ==
  CASE th \in {"fusionStream", "fusionDds"} -> Maps \cap Fused
    [] th = "radarStream" -> Maps \ Fused
    [] th = "trackClass" -> Maps

Init ==
  /\ transport \in [fusion : {"grpc", "dds"}, radar : {"grpc", "dds", "off"}]
  /\ track = [m \in Maps |-> [k \in Keys |-> NoTrack]]
  /\ trail = [m \in Maps |-> [k \in Keys |-> <<>>]]
  /\ phase = [th \in Writers |-> IF th \in Streams THEN "wait" ELSE "read"]
  /\ due = [th \in Writers |-> TRUE]
  /\ writer = Nobody /\ batch = <<>> /\ done = 0

-----------------------------------------------------------------------------
(* One report *)

\* The time of a track is the time its report was received.
Received(r) == [sight |-> r.sight, age |-> 0]

Insert(r) ==
  /\ track' = [track EXCEPT ![r.map][r.key] = Received(r)]
  /\ trail' = [trail EXCEPT ![r.map][r.key] = AppendTrailPoint(@, r.sight.pos, TrailMax[r.map])]

\* Mutant: the trail of a lost track stays.
RemoveTrackOnly(r) ==
  /\ track' = [track EXCEPT ![r.map][r.key] = NoTrack]
  /\ UNCHANGED trail

Remove(r) ==
  /\ track' = [track EXCEPT ![r.map][r.key] = NoTrack]
  /\ trail' = [trail EXCEPT ![r.map][r.key] = <<>>]

\* gRPC: a report that the target is LOST or MERGED takes the track out.
ApplyTargetOutputSet(r) ==
  CASE r.key = BadKey -> UNCHANGED <<track, trail>>
    [] r.key # BadKey /\ r.state = "dead" -> Remove(r)
    [] r.key # BadKey /\ r.state = "live" -> Insert(r)

\* DDS: the state of the target is not looked at.
ApplyDdsOutputSet(r) ==
  IF r.key = BadKey THEN UNCHANGED <<track, trail>> ELSE Insert(r)

\* FusionTrack gRPC: radar, bird and AIS tracks by the route of their source.
ApplyTrackDataClass(r) ==
  IF r.key = BadKey THEN UNCHANGED <<track, trail>> ELSE Insert(r)

\* TrackDataClass over DDS: AIS tracks get no trail.
ApplySample(r) ==
  CASE r.key = BadKey -> UNCHANGED <<track, trail>>
    [] r.key # BadKey /\ r.map = "ais" ->
         /\ track' = [track EXCEPT !["ais"][r.key] = Received(r)]
         /\ UNCHANGED trail
    [] r.key # BadKey /\ r.map # "ais" -> Insert(r)

-----------------------------------------------------------------------------
(* Stale tracks *)

\* Tracks not reported for longer than stale go with their trails; from the maps that
\* are swept, so do trails that have no track.
Clear(stale, maps, swept) ==
  LET Gone(m, k) == m \in maps /\ track[m][k] # NoTrack /\ track[m][k].age > stale[m]
      Orphan(m, k) == m \in swept /\ track[m][k] = NoTrack
  IN /\ track' = [m \in Maps |-> [k \in Keys |-> IF Gone(m, k) THEN NoTrack ELSE track[m][k]]]
     /\ trail' = [m \in Maps |-> [k \in Keys |->
          IF Gone(m, k) \/ Orphan(m, k) THEN <<>> ELSE trail[m][k]]]

\* clearStaleTrackMaps of the gRPC client, and of the DDS subscriber.
ClearStaleTrackMaps == Clear(GrpcStale, Maps \cap Fused, Maps \cap Fused)

\* Only AIS trails are swept.
ClearStaleIngestedTracks == Clear(GrpcStale, Maps \ Fused, Maps \cap {"ais"})

\* AIS tracks are not cleared by the timer.
SlotClearTrack ==
  /\ transport.radar = "dds" /\ writer = Nobody
  /\ Clear(DdsStale, Maps \ {"ais"}, Maps \ {"ais"})
  /\ UNCHANGED <<transport, phase, due, writer, batch, done>>

\* Mutant: the prune thread looks at the tracks of one map.
PruneOneMap ==
  /\ transport.fusion = "grpc" /\ writer = Nobody
  /\ Clear(GrpcStale, Maps \cap {"fuse"}, Maps \cap {"fuse"})
  /\ UNCHANGED <<transport, phase, due, writer, batch, done>>

\* The prune thread, every 2 s, whatever the stream does.
PruneThread ==
  /\ transport.fusion = "grpc" /\ writer = Nobody
  /\ ClearStaleTrackMaps
  /\ UNCHANGED <<transport, phase, due, writer, batch, done>>

-----------------------------------------------------------------------------
(* The writers *)

\* subscribeOnce: Subscribe; the first batch is followed by a clear.
Connect(th) ==
  /\ th \in Streams /\ Runs(th) /\ phase[th] = "wait"
  /\ phase' = [phase EXCEPT ![th] = "read"]
  /\ due' = [due EXCEPT ![th] = TRUE]
  /\ UNCHANGED <<transport, track, trail, writer, batch, done>>

\* The stream ends or fails; runLoop waits before it subscribes again.
StreamEnds(th) ==
  /\ th \in Streams /\ phase[th] = "read" /\ writer # th
  /\ phase' = [phase EXCEPT ![th] = "wait"]
  /\ UNCHANGED <<transport, track, trail, due, writer, batch, done>>

\* A batch was read, or samples are there to take: the lock is taken.  Of the sets
\* of targets that wait in a reader the DDS listener takes all and applies the last.
BeginBatch(th, b) ==
  /\ Runs(th) /\ phase[th] = "read" /\ writer = Nobody
  /\ \A i \in DOMAIN b : b[i].map \in Writes(th)
  /\ writer' = th /\ batch' = b /\ done' = 0
  /\ UNCHANGED <<transport, track, trail, phase, due>>

\* Mutant: the reports of a batch are applied from the last to the first.
ApplyLastFirst ==
  /\ writer # Nobody /\ done < Len(batch)
  /\ LET r == batch[Len(batch) - done]
     IN CASE writer = "fusionStream" -> ApplyTargetOutputSet(r)
          [] writer = "fusionDds" -> ApplyDdsOutputSet(r)
          [] writer = "radarStream" -> ApplyTrackDataClass(r)
          [] writer = "trackClass" -> ApplySample(r)
  /\ done' = done + 1
  /\ UNCHANGED <<transport, phase, due, writer, batch>>

ApplyReport ==
  /\ writer # Nobody /\ done < Len(batch)
  /\ LET r == batch[done + 1]
     IN CASE writer = "fusionStream" -> ApplyTargetOutputSet(r)
          [] writer = "fusionDds" -> ApplyDdsOutputSet(r)
          [] writer = "radarStream" -> ApplyTrackDataClass(r)
          [] writer = "trackClass" -> ApplySample(r)
  /\ done' = done + 1
  /\ UNCHANGED <<transport, phase, due, writer, batch>>

EndBatch ==
  /\ writer # Nobody /\ done = Len(batch)
  /\ writer' = Nobody /\ batch' = <<>> /\ done' = 0
  /\ phase' = [phase EXCEPT ![writer] = IF writer = "trackClass" THEN "read" ELSE "clear"]
  /\ UNCHANGED <<transport, track, trail, due>>

\* After a batch the stale tracks are cleared, if that was not done within 2 s.
ClearAfterBatch(th) ==
  /\ phase[th] = "clear" /\ writer = Nobody
  /\ IF due[th]
     THEN IF th = "radarStream" THEN ClearStaleIngestedTracks ELSE ClearStaleTrackMaps
     ELSE UNCHANGED <<track, trail>>
  /\ phase' = [phase EXCEPT ![th] = "read"]
  /\ due' = [due EXCEPT ![th] = FALSE]
  /\ UNCHANGED <<transport, writer, batch, done>>

Older(t) == IF t = NoTrack \/ t.age = MaxAge THEN t ELSE [t EXCEPT !.age = @ + 1]

\* 2 s pass.
Tick ==
  /\ track' = [m \in Maps |-> [k \in Keys |-> Older(track[m][k])]]
  /\ due' = [th \in Writers |-> TRUE]
  /\ UNCHANGED <<transport, trail, phase, writer, batch, done>>

Next ==
  \/ PruneThread \/ SlotClearTrack
  \/ ApplyReport \/ EndBatch
  \/ \E th \in Writers :
       Connect(th) \/ StreamEnds(th) \/ ClearAfterBatch(th) \/ \E b \in Batches : BeginBatch(th, b)
  \/ Tick

\* Clock, timers and a thread that holds the lock go on; a waiting thread gets the
\* lock in the end.  Nothing is assumed of the network.
Fairness ==
  /\ WF_vars(Tick) /\ SF_vars(PruneThread) /\ SF_vars(SlotClearTrack)
  /\ WF_vars(ApplyReport) /\ WF_vars(EndBatch)

Spec == Init /\ [][Next]_vars /\ Fairness

-----------------------------------------------------------------------------
(* Properties *)

\* Every track and trail is of its kind, and no trail outgrows TrailMax + 1 positions.
TypeOK ==
  /\ transport \in [fusion : {"grpc", "dds"}, radar : {"grpc", "dds", "off"}]
  /\ track \in [Maps -> [Keys -> [sight : Sightings, age : 0..MaxAge] \cup {NoTrack}]]
  /\ trail \in [Maps -> [Keys -> Seq(Cells)]]
  /\ \A m \in Maps, k \in Keys : Len(trail[m][k]) <= TrailMax[m] + 1
  /\ phase \in [Writers -> {"wait", "read", "clear"}]
  /\ due \in [Writers -> BOOLEAN]
  /\ writer \in Writers \cup {Nobody}
  /\ batch \in Seq(Report) /\ done \in 0..Len(batch)

\* Trails follow tracks through reports, losses and two ways of clearing that run in
\* other threads: a track has its position in its trail (AIS tracks over DDS have no
\* trails), and what replaces a track under its id does not inherit a trail.
HasTrail(m) == ~(m = "ais" /\ transport.radar = "dds")
TrailFollowsTrack ==
  \A m \in Maps, k \in Keys :
    IF track[m][k] = NoTrack \/ ~HasTrail(m) THEN trail[m][k] = <<>>
    ELSE Holds(trail[m][k], track[m][k].sight.pos)

\* Of several reports on a target in one batch the last decides whether the target
\* is there and what is known of it, although losses and positions come mixed.
Same(i, j) == batch[i].map = batch[j].map /\ batch[i].key = batch[j].key
LastReportWins ==
  \A i \in 1..done :
    (batch[i].key # BadKey /\ \A j \in (i + 1)..done : ~Same(i, j)) =>
      LET t == track[batch[i].map][batch[i].key]
      IN IF writer = "fusionStream" /\ batch[i].state = "dead" THEN t = NoTrack
         ELSE t # NoTrack /\ t.sight = batch[i].sight

\* A track that is no longer reported leaves, even while the streams are silent,
\* where a thread or timer of its own clears the map.
Timed(m) ==
  \/ m \in Fused /\ (transport.fusion = "grpc" \/ transport.radar = "dds")
  \/ m \in {"radar", "birdRadar"} /\ transport.radar = "dds"
Outdated(m, k) ==
  /\ track[m][k] # NoTrack
  /\ track[m][k].age > GrpcStale[m] /\ track[m][k].age > DdsStale[m]
SilentTracksLeave ==
  \A m \in Maps, k \in Keys : (Timed(m) /\ Outdated(m, k)) ~> ~Outdated(m, k)
=============================================================================
