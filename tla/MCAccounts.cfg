SPECIFICATION Spec
CONSTANTS
  alice = alice
  bob = bob
  NoUser = NoUser
  Users = {alice, bob}
  Tabs = {1}
  MaxStores = 3
  MaxSecret = 2
  MaxDevKey = 2
  MaxOps = 2
  Envs <- PassingEnvs
INVARIANTS
  SealedOpens
  
  NamedStoresKept
  SilentRestoreReads
  GateWhenUnreadable
CHECK_DEADLOCK FALSE
