CONSTANTS
  None = None
  c1 = c1
  CRs = {c1}
  Offers <- ObserveOnlyOffers
  Names = {"n1", "n2"}
  Scopes = {"s1"}
  NameOf <- MCNameOf
  Definitions = {"def"}
  DefinitionIds = {"id1", "id2"}
  Bodies = {"b1", "b2"}
  Keys = {"k1", "k2"}
  Uuids = {"u1", "u2", "u3"}
  Permissions = {"p1"}
  ByName = {"p1"}
  RoleIds = {"r1"}
  AzureInit <- N1InAzure
  MaxEdits = 1
  MaxFaults = 0
  MaxOutside = 0
SPECIFICATION Spec
CHECK_DEADLOCK FALSE
PROPERTY ObserveOnlyReads
