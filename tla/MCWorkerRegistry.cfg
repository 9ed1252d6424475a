SPECIFICATION RegistrySpec
CONSTANTS
  Users = {u1, u2}
  Saved = {u1}
  Rooms = {r1, r2}
  MaxSessions = 3
  MaxWorkspaces = 3
SYMMETRY Symmetry
INVARIANTS OneSessionPerAccount OneWorkspacePerSession
PROPERTIES OpenedIsUsable
CHECK_DEADLOCK FALSE
