SPECIFICATION DataStoreSpec
CONSTANTS
  r1 = r1
  r2 = r2
  p1 = p1
  p2 = p2
  Requests <- MCRequests
  PIDs = {p1, p2}
  MaxAsked = 2
  MaxRenames = 1
  Methods <- MCMethods
  Asks <- MCAsks
  UserLists <- MCUserLists
  Builds <- MCBuilds
SYMMETRY MCSymmetry
INVARIANTS
  DataStoreTypeOK
  OnlyOwnIdentities
  AnsweredAsAsked
  OnceNamed
