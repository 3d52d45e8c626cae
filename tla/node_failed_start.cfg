SPECIFICATION Spec
CONSTANTS
  in1 = in1
  out1 = out1
  Inbound = {}
  Peers = {out1}
  ListenConfigured = TRUE
  SharedManager = FALSE
  ViaTopicNode = TRUE
  ShutdownDeadline = FALSE
  InitialBackoff = 1
  MaxBackoff = 1
CHECK_DEADLOCK FALSE
INVARIANTS FailedNodeIsStopped
