CONSTANTS
  Runs <- MCRuns
  MaxFaults = 0
  VaultLinks = TRUE
SPECIFICATION Spec
INVARIANT GovernanceRests
