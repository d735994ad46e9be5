CONSTANTS
  Lengths <- ShortRequests
  MaxRequests = 3
SPECIFICATION FairSpec
INVARIANTS
  DiscardsAfterShortReads
  NothingStranded
PROPERTIES
  ImplementsQueue
  EveryRequestAnswered
CHECK_DEADLOCK FALSE
