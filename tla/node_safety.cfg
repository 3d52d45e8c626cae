SPECIFICATION Spec
CONSTANTS
  in1 = in1
  out1 = out1
  Inbound = {in1}
  Peers = {out1}
  ListenConfigured = TRUE
  SharedManager = TRUE
  ViaTopicNode = FALSE
  ShutdownDeadline = FALSE
  InitialBackoff = 1
  MaxBackoff = 1
CHECK_DEADLOCK FALSE
INVARIANTS  NoPeersAfterClose NoListenErrorOnClose ShutdownLeavesNone UntrackedIsClosed
