SPECIFICATION FairSpec
CONSTANTS
  Key = {mismatch, other}
  MismatchKey = mismatch
  Cooldown = 2
  Position = {p1}
  Unit = 40
  Collateral = 2
  Drift = {0, 1}
  EscalateAfter = 3
  NoMismatch = NoMismatch
  MaxFaults = 1
INVARIANT EscalationIsTold
PROPERTIES OneAlertPerMismatch MismatchIsTold
