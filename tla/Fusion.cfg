SPECIFICATION FairFusionSpec
CONSTANTS
  Ids = {1, 2}
  Recognised = {1}
  TargetTypes <- Tokens
  None = None
  Family <- FamilyOf
  ShipSubtypes = {"cargo"}
  Allowed = {"ship", "cargo"}
  MayFail = TRUE
INVARIANT FusionTypeOK
INVARIANT ToldOnlyWhatIsStored
PROPERTY JudgementSettles
PROPERTY MismatchIsPushed
