SPECIFICATION TransferSpec
CONSTANTS
  Owners = {p1}
  Guests = {g1}
  Sizes = {0, 1, 2}
  FirstID = 1
  MaxID = 1
  EarlyRMC = FALSE
  WriteFaults = FALSE
  ReadFaults = FALSE
  MaxPuts = 2
  MaxBody = 2
  Unordered = {}
  Impatient = TRUE
  BlobFaults = FALSE
INVARIANT ReadyBlobWhole
