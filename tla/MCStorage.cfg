SPECIFICATION Spec

CONSTANTS
  Calls = {"a", "b", "c"}
  Hosts <- AllHosts

CHECK_DEADLOCK FALSE

INVARIANT SavedWhole
 
 
