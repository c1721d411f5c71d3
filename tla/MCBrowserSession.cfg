SPECIFICATION FairSpec

CONSTANTS
  MaxCalls = 3
  MaxFaults = 2
  MaxEvents = 1
  MaxEmpty = 1

CHECK_DEADLOCK FALSE

INVARIANT Matched
PROPERTY CommandsEnd
