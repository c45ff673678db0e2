SPECIFICATION Spec
CONSTANTS
  Envs = {"air"}
  Keys = {k1}
  Sightings <- MCSightings
  NoTrack = NoTrack
  Alarms <- MCAlarms
  NoItem = NoItem
  Medium = 2
INVARIANT TypeOK
INVARIANT ListedWasConfirmed
INVARIANT HighestAlarmWins
PROPERTY VanishedLeavesView
