SPECIFICATION Spec
CONSTANTS
  Owners = {p1}
  Sizes = {1}
  FirstID = 1
  MaxID = 3
  EarlyRMC = TRUE
  WriteFaults = FALSE
  ReadFaults = FALSE
PROPERTY AllocFresh
