CONSTANTS
  Devices = {d1, d2}
  MaxKey = 2
  MaxCred = 2
  Envs <- PassingEnvs
SPECIFICATION Spec
CHECK_DEADLOCK FALSE
INVARIANTS  OfferedPasskeyOpens
PROPERTIES EnrolmentsKept VerificationEnds
