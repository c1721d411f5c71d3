SPECIFICATION AuthFairSpec

CONSTANTS
  Configs <- All
  Statics = {2, 3}
  REQUIRED <- Required
  MAJOR = 1
  MAX_FRAME = 9
  MEDIA = 3
  VOICE = 4
  Who <- People

CHECK_DEADLOCK FALSE

INVARIANT SessionAgrees
INVARIANT AttemptsJustified
INVARIANT RequestsJustified
INVARIANT PrincipalLatest
 
 
