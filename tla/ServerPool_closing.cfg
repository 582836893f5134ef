CONSTANTS
  Ids = {a}
  Foreign = x
  MaxRequests = 2
  MaxCloses = 2
  MaxListens = 3
SPECIFICATION FairSpec
INVARIANTS OneConnection NothingLeft
PROPERTIES UnreachableForCause Answered 
CHECK_DEADLOCK FALSE
