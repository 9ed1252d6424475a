SPECIFICATION FairSpec
CONSTANTS
  Envs <- MCEnvs
  MaxOpens = 2
  PageSize = 1
INVARIANTS NoSilentHole
PROPERTIES StuckIsRead
CHECK_DEADLOCK FALSE
