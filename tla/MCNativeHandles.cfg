SPECIFICATION Spec

CONSTANTS
  Threads = {t1, t2}
  Clients = {c1, c2}
  Identities = {i1, i2}
  Bridges = {"ffi", "jni"}
  Last <- SmallCounters

CHECK_DEADLOCK FALSE

INVARIANT RegistrySound
INVARIANT HandlesUsed
