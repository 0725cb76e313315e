SPECIFICATION Spec
CONSTANTS
  Calls = {c1, c2}
  Unscheduled = {}
  FaultKinds = {"fail"}
  MaxFaults = 1
  MaxHangups = 1
SYMMETRY Symmetry
INVARIANTS
  SlotAccounting
  SettledOnce
  NoCallOutlivesProcess
  ManualCauseReported
CHECK_DEADLOCK FALSE
