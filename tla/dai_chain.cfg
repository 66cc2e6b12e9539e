CONSTANTS
  None = None
  d1 = d1
  c1 = c1
  Definitions = {d1}
  Initiatives = {c1}
  MetaName <- MCMetaName
  DefinitionOffers <- TwoScopes
  InitiativeOffers <- OneRef
  DefinitionsInit <- NothingInAzure
  InitiativesInit <- OneInAzure
  DefinitionIds = {"sub", "mg"}
  IdOf <- MCIdOf
  Names = {"n1"}
  Subs = {"sub"}
  MGs = {"mg"}
  OperatorSub = "sub"
  Heads = {"h1"}
  Versions = {"v1"}
  MaxDefinitionEdits = 2
  MaxInitiativeEdits = 1
SPECIFICATION FairSpec
CHECK_DEADLOCK FALSE
PROPERTY ListsWhatStands
PROPERTY DriftIsReported
