SPECIFICATION CapSpec
CONSTANTS
  CapVf = {"v1", "v2"}
  CapPf = {"pf"}
  CapRequests <- MCRequests
  MaxCapFailures = 0
  UNKNOWN = UNKNOWN
CHECK_DEADLOCK FALSE
INVARIANT StopStopsCapturing
