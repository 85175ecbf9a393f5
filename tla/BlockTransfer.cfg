SPECIFICATION FairSpec
CONSTANTS
  Blocks = {b1, b2}
  Quota = 2
  DataSize = 3
  HeaderSize = 1
  QueueLimit = 9
  MaxUnderWay = 5
INVARIANTS
  NoLostRequest
  QueueIsCounted
  ChokedGetsNothing
PROPERTIES
  RequestsEnd
CHECK_DEADLOCK FALSE
