SPECIFICATION FairSpec
CONSTANTS
  TrackerCount = 2
  MaxTryNum = 3
INVARIANTS
  StopIsAnnounced
PROPERTIES
  KeepsPromise
  AnswerArrives
  StopEnds
