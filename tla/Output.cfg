SPECIFICATION Spec
CONSTANTS
  t1 = t1
  Targets = {t1}
  Alarms = {1, 2}
  Manual = {2}
  TargetOf <- MCTargetOf
  Scores = {1, 2}
  ManualScore = 1
  TopLevel = 1
  RankAge = 0
  ShowAge = 1
PROPERTY LevelsRank
PROPERTY ViewSettles
