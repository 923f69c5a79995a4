CONSTANTS
  Runs <- MCRuns
  MaxFaults = 1
  VaultLinks = TRUE
SPECIFICATION LiveSpec
INVARIANTS TypeOK TimelockGoverned RegistryComplete KeyRevocable FinalizedComplete
PROPERTIES HandoverWhole KeyRetired Finalizes
