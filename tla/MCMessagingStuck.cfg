SPECIFICATION FairSpec
CONSTANTS
  m1 = m1
  m2 = m2
  m3 = m3
  None = None
  Messages = {m1, m2, m3}
  Malformed = {m3}
  BatchLimit = 2
  MaxLog = 3
  MaxRestarts = 1
  Faults = {"restart"}
PROPERTIES AtLeastOnce
CHECK_DEADLOCK FALSE
