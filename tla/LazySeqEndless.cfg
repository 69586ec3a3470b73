CONSTANTS
  Programs <- MCPrograms
  Other <- MCOther
SPECIFICATION FairSpec
PROPERTIES
  ShortCircuits
