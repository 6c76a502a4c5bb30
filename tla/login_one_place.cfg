SPECIFICATION LoginSpec
CONSTANTS
  Callers = {c1, c2}
  NSAs = {n1}
  PIDs = {p1}
  nsaMaxInflight = 1
  nsaNegCacheMax = 1
  requireAccount = TRUE
  requireSignedToken = TRUE
  GateFaults = FALSE
INVARIANT OnePlace
