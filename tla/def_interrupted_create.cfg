CONSTANTS
  None = None
  c1 = c1
  c2 = c2
  CRs = {c1}
  Offers <- PlainOffers
  Names = {"n1"}
  Subs = {"sub"}
  MGs = {}
  OperatorSub = "sub"
  NameOf <- MCNameOf
  Heads = {"h1"}
  Versions = {"v1", "v2"}
  AzureInit <- NothingInAzure
  MaxEdits = 2
  MaxFaults = 0
  MaxPortal = 0
  Misreads = FALSE
SPECIFICATION FairSpec
CHECK_DEADLOCK FALSE
PROPERTY EventuallyBound
