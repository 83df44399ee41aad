SPECIFICATION Spec
CONSTANTS
  k1 = k1
  k2 = k2
  recv = recv
  Keys = {k1, k2}
  Receiver = recv
  Loaded = {k2}
  Capacity = 1
  RetryCount = 2
  MaxInbound = 3
INVARIANTS NeverSilentlyGone ReportsInOrder
PROPERTIES DisconnectedIsFinal DeadStreamEndsProcess CompletedIsDelivered
CHECK_DEADLOCK FALSE
