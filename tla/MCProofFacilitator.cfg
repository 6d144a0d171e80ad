SPECIFICATION FairSpec
CONSTANTS
  c1 = c1  c2 = c2
  Calls = {c1, c2}
  Timeout = 2
  MaxBytes = 1
  MaxChunk = 2
PROPERTIES
  ImplementsPort CallsEnd
CHECK_DEADLOCK FALSE
