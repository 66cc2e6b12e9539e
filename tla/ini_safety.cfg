CONSTANTS
  None = None
  c1 = c1
  CRs = {c1}
  Offers <- MixedOffers
  Names = {"n1", "n2"}
  Subs = {"sub"}
  MGs = {}
  OperatorSub = "sub"
  NameOf <- MCNameOf
  Definitions = {"def"}
  DefinitionIds = {"id1", "id2"}
  Heads = {"h1"}
  Versions = {"v1"}
  AzureInit <- N2InAzure
  MaxEdits = 2
  MaxFaults = 1
  MaxOutside = 1
SPECIFICATION Spec
CHECK_DEADLOCK FALSE
INVARIANT TypeOK
INVARIANT StatusNotAhead
 
PROPERTY Lifecycle
