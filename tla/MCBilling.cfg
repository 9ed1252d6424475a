SPECIFICATION Spec
CONSTANTS
  ann = ann
  Users = {ann}
  Exempt = {}
  MaxSubs = 2
  MaxHooks = 2
  MaxLapses = 1
  ApplyDeletes = TRUE
  Envs <- PassingEnvs
INVARIANTS
  CustomersNotErased
  
  PayingIsActive
PROPERTY UnpaidGetsLocked
CHECK_DEADLOCK FALSE
