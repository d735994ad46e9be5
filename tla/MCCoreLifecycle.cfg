CONSTANTS
  Nowhere = Nowhere
  Own <- UpTo2
  External <- OneExternal
  Commands <- UpTo2
  MaxPolls = 2
  PromptExit = TRUE
  MaxCrashes = 1
SPECIFICATION FairSpec
INVARIANTS
  AtMostOneServes
  WaitersWillHear
  

  
CHECK_DEADLOCK FALSE
