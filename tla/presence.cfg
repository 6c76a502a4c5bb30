SPECIFICATION PresenceSpec
CONSTANTS
  Callers = {c1, c2, c3}
  NSAs = {}
  PIDs = {p1}
  nsaMaxInflight = 1
  nsaNegCacheMax = 1
  requireAccount = FALSE
  requireSignedToken = FALSE
  GateFaults = TRUE
INVARIANT PresenceTypeOK
PROPERTIES
  LobbyKept
  PhantomGone
  PlayerFreed
