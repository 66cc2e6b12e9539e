CONSTANTS
  None = None
  c1 = c1
  c2 = c2
  CRs = {c1}
  Offers <- HandsOnOffers
  Names = {"n1"}
  Subs = {"sub"}
  MGs = {}
  OperatorSub = "sub"
  NameOf <- MCNameOf
  Heads = {"h1"}
  Versions = {"v1", "v2"}
  AzureInit <- N1InAzure
  MaxEdits = 2
  MaxFaults = 1
  MaxPortal = 1
  Misreads = TRUE
SPECIFICATION FairSpec
CHECK_DEADLOCK FALSE
PROPERTY DeletionCompletes
PROPERTY DriftHeals
PROPERTY AdoptOnceSettles
