CONSTANTS
  Operators = {o1, o2}
  Setups <- MCSetups
  Payloads = {"queue_fee", "activate_fee", "0002_queue_fee_address"}
  SLOW_DELAY = 2
  MIN_DELAY = 1
SPECIFICATION Spec
SYMMETRY Symmetry
INVARIANTS TypeOK GovernedModule ArtifactTruthful
PROPERTIES NoticeGiven ActivatesWhatItRead GuardianReady
CHECK_DEADLOCK FALSE
