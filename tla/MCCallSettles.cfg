SPECIFICATION FairSpec
CONSTANTS
  Calls = {c1}
  Unscheduled = {c1}
  FaultKinds = {"fail", "ambiguous"}
  MaxFaults = 3
  MaxHangups = 3
INVARIANT CounterRepaired
PROPERTY EndedCallsSettle
PROPERTY HangupEndsListening
CHECK_DEADLOCK FALSE
