SPECIFICATION Spec
CONSTANTS
  f1 = f1
  a1 = a1
  Keys = {f1}
  MapOf <- MCMapOf
  Untrailed = {}
  Stranger = Stranger
  SightingsOf <- MCSightingsOf
  Cells = {1, 2, 3}
  NoTrack = NoTrack
  NoTrail = NoTrail
  Order <- LeaveOnly
  Loads <- LeaveOn
  AreaLists <- GoodArea
  Circle <- MCCircle
  Zone = {3}
  InfoOf <- MCInfoOf
  NoInfo = NoInfo
  Detections <- MCDetections
  ParamRows <- MCParamRows
  Filtered = {}
  PerRule = FALSE
  DroneMode = FALSE
  SelfFilter = TRUE
  DoubleCheckFuseOnly = TRUE
  TrailMax = 1
  Linger = 1
  LookBack = 2
  MinTrail = 1
  NoRule = NoRule
INVARIANT LeaveMeansLeft
