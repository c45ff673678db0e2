SPECIFICATION Spec
CONSTANTS
  t = t
  Targets = {t}
  Versions = {1, 2}
  MatchedBy <- MCMatchedBy
  NoRules = NoRules
INVARIANT TypeOK
INVARIANT ReloadedIsCurrent
PROPERTY OldAlarmsLeave
PROPERTY DestroyedIsSilenced
