SPECIFICATION Spec
CONSTANTS
  u1 = u1
  i1 = i1
  i2 = i2
  r1 = r1
  r2 = r2
  Targets = {u1}
  Rules = {r1, r2}
  AlarmIds = {i1, i2}
  Scores = {1}
  DefaultScore = 1
  StoredAs <- SameId
  PruneAge = 1
  DedupWindow = 2
  SustainWindow = 1
  PublishAge = 1
  FilterTtl = 1
  PushInterval = 1
  MaxAge = 2
  MatchRule = FALSE
  SaveDb = TRUE
  DbMayFail = FALSE
  DdsOn = TRUE
  Verifying = TRUE
  Types = {0, 1}
  Suppressible = {u1}
  Confirmable = {u1}
  Suspects = {u1}
SYMMETRY AlarmIdSymmetry
INVARIANT TypeOK
INVARIANT OneLiveAlarmPerKey
INVARIANT SilencedNeverBuilt
INVARIANT EvaluationKeepsUp
