SPECIFICATION FairSpec
CONSTANTS
  u1 = u1
  i1 = i1
  i2 = i2
  r1 = r1
  r2 = r2
  Targets = {u1}
  Rules = {r1}
  AlarmIds = {i1}
  Scores = {1}
  DefaultScore = 1
  StoredAs <- SameId
  PruneAge = 1
  DedupWindow = 2
  SustainWindow = 2
  PublishAge = 0
  FilterTtl = 2
  PushInterval = 0
  MaxAge = 2
  MatchRule = FALSE
  SaveDb = FALSE
  DbMayFail = FALSE
  DdsOn = TRUE
  Verifying = FALSE
  Types = {0}
  Suppressible = {u1}
  Confirmable = {u1}
  Suspects = {}
PROPERTY SilencedLeavesView
PROPERTY StaleAlarmsLeave
PROPERTY StaleManualLeaves
