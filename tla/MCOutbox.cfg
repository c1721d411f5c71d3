SPECIFICATION FairSpec

CONSTANTS
  m1 = m1
  m2 = m2
  AllIds = {m1, m2}
  Settings <- Uses

INVARIANT OneItemOneAttempt
PROPERTY NothingLost
INVARIANT AttemptsPaced
PROPERTY DecidedEventually
