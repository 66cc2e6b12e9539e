CONSTANTS
  None = None
  c1 = c1
  CRs = {c1}
  Offers <- MixedOffers
  Scopes = {"rg", "sub"}
  Uuids = {1, 2, 3, 4}
  Assignments = {"asg"}
  AssignmentIds = {"id1", "id2"}
  Bodies = {"b1"}
  Quota = 1
  MaxEdits = 3
  MaxFaults = 1
  MaxRefChanges = 1
SPECIFICATION FairSpec
CHECK_DEADLOCK FALSE
INVARIANT TypeOK
INVARIANT ReconciledExists
PROPERTY BindingStays
PROPERTY Lifecycle
PROPERTY FollowsRef
PROPERTY DeletionCompletes
