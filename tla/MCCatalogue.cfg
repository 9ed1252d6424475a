CONSTANTS
  Tables = {"t1", "t2"}
  Views = {"v1", "v2"}
  Of <- MCOf
  Renames = {"n"}
  Conditions = {"x", "y"}
  Columns = {"c1", "c2"}
  Envs <- MCEnvs
SPECIFICATION CatalogueSpec
INVARIANTS
  ShellSettles
PROPERTIES
  RenameUndoesNothing
  
CHECK_DEADLOCK FALSE
