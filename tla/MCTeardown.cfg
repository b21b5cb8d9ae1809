CONSTANTS
  MaxQueueSize = 2
  MaxRequests = 3
  MaxSockets = 3

SPECIFICATION ClientSpec

INVARIANT TornDownRequestsReject
CHECK_DEADLOCK FALSE
