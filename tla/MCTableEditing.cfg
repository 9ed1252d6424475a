SPECIFICATION Spec
CONSTANTS
  Base = 4
  Rows = {1, 2, 3}
  Vals = {1, 2}
  Cols = {1, 2, 3}
  MaxOps = 3
  MaxRemote = 1
  Envs <- PassingEnvs
INVARIANTS
  InFlightShown
  ScreenSettles
  FormulaTablesCatchUp
  DropLands
PROPERTY NoFalseConflict
CHECK_DEADLOCK FALSE
