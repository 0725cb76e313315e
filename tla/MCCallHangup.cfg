SPECIFICATION Spec
CONSTANTS
  Calls = {c1}
  Unscheduled = {}
  FaultKinds = {}
  MaxFaults = 0
  MaxHangups = 1
INVARIANT HangupUnwinds
CHECK_DEADLOCK FALSE
