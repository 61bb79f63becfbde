CONSTANTS
  r1 = r1
  r2 = r2
  e1 = e1
  NoRun = NoRun
  Run <- MCRun
  Env <- MCEnv
  EnvOf <- MCEnvOf
  Size = 2
  Attempts = 2
  MaxActive = 1
  MaxFaults = 3
SPECIFICATION Spec
INVARIANTS AcknowledgedIsStored FailsForAReason ActiveBounded
PROPERTIES ImportSpec
CHECK_DEADLOCK FALSE
