SPECIFICATION Spec
CONSTANTS
  k1 = k1
  k2 = k2
  k3 = k3
  Conn = {k1, k2, k3}
  MaxConnections = 2
  PieceCount = 2
  MaxPauses = 2
SYMMETRY ConnSymmetry
INVARIANTS
  LimitCountsEveryConnection
  NoDanglingPointer
  ReconnectIsOnItsWay
  SeedingWhenComplete
  ServedAtMostOnce
CHECK_DEADLOCK FALSE
