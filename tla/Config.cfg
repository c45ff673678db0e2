CONSTANTS
  a1 = a1
  old = old
  new = new
  off = off
  Alarms = {a1}
  Schemes = {"s1", "s2"}
  Default = "default"
  Editions = {old, new, off}
  Enabled <- MCEnabled
  Areas <- MCAreas
  Rules <- MCRules
  Bound <- MCBound
  Rows <- MCRows
  AreaOf <- MCAreaOf
  RuleOf <- MCRuleOf
  Empty = Empty
  Scopes = {"all", "identification", "of another name"}
  MaxChanges = 1
SPECIFICATION Spec
INVARIANT TypeOK
INVARIANT ReloadTakesEffect
PROPERTY VerifiedAsConfigured
PROPERTY VerifiedInTheEnd
