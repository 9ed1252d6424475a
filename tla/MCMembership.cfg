CONSTANTS
  ann = ann
  bob = bob
  cat = cat
  Users = {ann, bob, cat}
  Creator = ann
  NoOne = NoOne
  Envs <- PassingEnvs
SPECIFICATION Spec
CHECK_DEADLOCK FALSE
INVARIANTS NoStrandedWorkspace UsesCoverAdmissions
PROPERTIES DoorOpens ListSettles
