SPECIFICATION UploadSpec
CONSTANTS
  p0 = p0
  p1 = p1
  p2 = p2
  PIDs = {p1, p2}
  ReferencePID = p0
  PIDTokenSet = TRUE
  HostWidth = 48
  BaseWidth = 48
  capturedRelationSize <- MCSizesByType
  KeyText <- MCKeyText
  Bodies <- MCBodies
  captured132 = "no body"
  Uploads <- MCUploads
  Named <- MCNamed
  Sizes = {5, 7, 20}
  MaxPosts = 2
  MaxPart = 6
INVARIANTS
  UploadTypeOK
  WellFramed
  NobodyRefused
  ConfirmedStored
