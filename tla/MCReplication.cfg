SPECIFICATION Spec
CONSTANTS
  Clients = {k1, k2}
  CellIds = {c1, c2}
  Value = {v1, v2}
  NoValue = NoValue
  MaxTs = 2
  MaxEvents = 2
  OtsGap = 1
SYMMETRY Symmetry
INVARIANTS Convergence CausalOrder QueuedWriteShows
