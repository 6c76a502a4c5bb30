SPECIFICATION FairSpec
CONSTANTS
  Callers = {c1, c2}
  NSAs = {n1, n2}
  PIDs = {p1}
  nsaMaxInflight = 1
  nsaNegCacheMax = 1
INVARIANTS
  TypeOK
  SlotsAccounted
  NegCacheBounded
  OnlyLinked
  OnceResolved
PROPERTY CallAnswered
