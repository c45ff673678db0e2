SPECIFICATION Spec
CONSTANTS
  Maps <- MCMaps
  Keys = {1}
  Word = 16
  Low = 4
  BadKey = BadKey
  Sightings <- MCSightings
  Cells <- MCCells
  NoTrack = NoTrack
  TrailMax <- MCTrailMax
  GrpcStale <- MCGrpcStale
  DdsStale <- MCDdsStale
  MaxAge = 2
  Batches <- MCBatches
  Nobody = Nobody
INVARIANT TypeOK
INVARIANT TrailFollowsTrack
INVARIANT LastReportWins
PROPERTY SilentTracksLeave
