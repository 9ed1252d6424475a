SPECIFICATION FairSpec
CONSTANTS
  CellIds = {c1, c2}
  Value = {v1, v2}
  NoValue = NoValue
  MaxTs = 3
  MaxWrites = 1
  Envs <- MCEnvs
INVARIANTS InFlightStaysQueued DrainedShowsRoom
PROPERTIES FateKept QueueDrains
