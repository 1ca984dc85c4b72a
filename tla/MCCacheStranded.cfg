SPECIFICATION FairSpec
CONSTANTS
  a = a
  b = b
  d = d
  NoCall = NoCall
  Calls <- Two
  MaxGen = 0
  MaxVersion = 0
  Revalidates = FALSE
  StoreFailing <- Two
  Abandoning <- None
PROPERTIES
  WaitersNeverStranded
CHECK_DEADLOCK FALSE
