SPECIFICATION FairSpec

CONSTANTS
  f1 = f1
  f2 = f2
  f3 = f3
  Files = {f1, f2, f3}
  Jobs <- AllJobs

CHECK_DEADLOCK FALSE

INVARIANT OkWithinPermits
PROPERTY ObserverServed
PROPERTY EverythingEnds
