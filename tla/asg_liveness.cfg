CONSTANTS
  None = None
  c1 = c1
  CRs = {c1}
  Offers <- HandsOnOffers
  Names = {"n1"}
  Scopes = {"s1"}
  NameOf <- MCNameOf
  Definitions = {"def"}
  DefinitionIds = {"id1", "id2"}
  Bodies = {"b1", "b2"}
  Keys = {"k1", "k2"}
  Uuids = {"u1", "u2"}
  Permissions = {"p1"}
  ByName = {"p1"}
  RoleIds = {"r1"}
  AzureInit <- NothingInAzure
  MaxEdits = 2
  MaxFaults = 1
  MaxOutside = 1
SPECIFICATION FairSpec
CHECK_DEADLOCK FALSE
PROPERTY DeletionCompletes
PROPERTY DriftHeals
 
