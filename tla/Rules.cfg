SPECIFICATION Spec
CONSTANTS
  f1 = f1
  a1 = a1
  Keys = {f1, a1}
  MapOf <- MCMapOf
  Untrailed = {a1}
  Stranger = Stranger
  SightingsOf <- MCSightingsOf
  Cells = {1, 2, 3}
  NoTrack = NoTrack
  NoTrail = NoTrail
  Order <- MCOrder
  Loads <- MCLoads
  AreaLists <- MCAreaLists
  Circle <- MCCircle
  Zone = {3}
  InfoOf <- MCInfoOf
  NoInfo = NoInfo
  Detections <- MCDetections
  ParamRows <- MCParamRows
  Filtered = {a1}
  PerRule = FALSE
  DroneMode = FALSE
  SelfFilter = TRUE
  DoubleCheckFuseOnly = TRUE
  TrailMax = 1
  Linger = 1
  LookBack = 2
  MinTrail = 1
  NoRule = NoRule
INVARIANT TypeOK
INVARIANT FusedReadsStayInTrails
INVARIANT EvidenceWasMatch
INVARIANT TextNamesConditions
PROPERTY LingererIsRaised
