SPECIFICATION TransferSpec
CONSTANTS
  Owners = {p1, p2}
  Guests = {}
  Sizes = {0, 1}
  FirstID = 1
  MaxID = 2
  EarlyRMC = TRUE
  WriteFaults = TRUE
  ReadFaults = TRUE
  MaxPuts = 1
  MaxBody = 1
  Unordered = {2}
  Impatient = TRUE
  BlobFaults = TRUE
SYMMETRY OwnerSymmetry
INVARIANTS
  ReadyHasBlob
  ReadyOnlyIfCompleted
