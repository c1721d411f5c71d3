SPECIFICATION TransferSpec

CONSTANTS
  MEDIA_CHUNK_SIZE = 3
  MEDIA_HEADER_SIZE = 2
  LENGTH_SIZE = 2
  MEDIA_TAG_SIZE = 1
  Ways <- AllWays
  Sizes = {1, 3, 6, 7, 8}
  MaxRead = 5
  MaxFrame = 9

CHECK_DEADLOCK FALSE

 
 
INVARIANT GoodFileRead
