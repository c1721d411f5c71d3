SPECIFICATION FairSpec

CONSTANTS
  UPLOAD_CHUNK = 1
  MaxUp = 2
  MaxDown = 2
  MaxEmpty = 1
  MaxFaults = 2

CHECK_DEADLOCK FALSE

INVARIANT StreamsKept
PROPERTY AlwaysEnds
