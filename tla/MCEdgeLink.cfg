SPECIFICATION Spec
CONSTANTS
  e1 = e1
  e2 = e2
  s1 = s1
  s2 = s2
  s3 = s3
  c1 = c1
  c2 = c2
  d1 = d1
  None = None
  Edges = {e1, e2}
  Streams = {s1, s2, s3}
  Calls = {c1, c2}
  Devices = {d1}
  Device <- OneDevice
  LegacyEdge = None
  Capacity = 2
  Healthy = FALSE
INVARIANT ReconnectSafe
INVARIANT EventsFindTheirCall
SYMMETRY Symmetry
CHECK_DEADLOCK FALSE
