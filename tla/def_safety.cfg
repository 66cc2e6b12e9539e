CONSTANTS
  None = None
  c1 = c1
  c2 = c2
  CRs = {c1}
  Offers <- MixedOffers
  Names = {"n1", "n2"}
  Subs = {"sub"}
  MGs = {"mg"}
  OperatorSub = "sub"
  NameOf <- MCNameOf
  Heads = {"h1", "h2"}
  Versions = {"v1"}
  AzureInit <- N2InAzure
  MaxEdits = 3
  MaxFaults = 1
  MaxPortal = 0
  Misreads = FALSE
SPECIFICATION Spec
CHECK_DEADLOCK FALSE
INVARIANT TypeOK
INVARIANT WritesUnderFinalizer
INVARIANT StatusNotAhead
 
INVARIANT AdoptsTheImported
PROPERTY Lifecycle
PROPERTY NoRebinding
PROPERTY ObserveOnlyReads
