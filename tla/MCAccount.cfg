SPECIFICATION FairSpec

CONSTANTS
  r1 = r1
  r2 = r2
  old = old
  new = new
  closer = closer
  Requests = {r1, r2}
  Tokens = {old, new}
  TokenOf <- NewAndOld
  FirstToken = old
  MaxClients = 2
  MaxAttempts <- TwiceOrOnce

CHECK_DEADLOCK FALSE

INVARIANT CommandsBounded
 
PROPERTY CallsEnd
