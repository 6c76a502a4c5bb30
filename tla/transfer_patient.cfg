SPECIFICATION TransferSpec
CONSTANTS
  Owners = {p1, p2}
  Guests = {g1}
  Sizes = {0, 1, 2}
  FirstID = 1
  MaxID = 2
  EarlyRMC = FALSE
  WriteFaults = FALSE
  ReadFaults = FALSE
  MaxPuts = 2
  MaxBody = 1
  Unordered = {}
  Impatient = FALSE
  BlobFaults = TRUE
SYMMETRY OwnerSymmetry
INVARIANTS
  TypeOK
  TransferTypeOK
  ReadyBlobWhole
  SizeIsBlobLength
  FetchedAsTold
  VerdictHonoured
  IdsBelowCounter
PROPERTIES
  AllocFresh
  ImplementsDurable
