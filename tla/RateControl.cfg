SPECIFICATION FairSpec
CONSTANTS
  Sockets = {s1, s2}
  UpLimits = {0, 2, 3}
  DownLimit = 4
  Second = 2
  MaxBytes = 3
INVARIANTS
  NoForgottenSocket
  UploadLimitKept
PROPERTIES
  WorkIsDone
CHECK_DEADLOCK FALSE
