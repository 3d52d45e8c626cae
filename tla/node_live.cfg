SPECIFICATION FairSpec
CONSTANTS
  in1 = in1
  out1 = out1
  Inbound = {}
  Peers = {out1}
  ListenConfigured = TRUE
  SharedManager = FALSE
  ViaTopicNode = TRUE
  ShutdownDeadline = TRUE
  InitialBackoff = 1
  MaxBackoff = 1
CHECK_DEADLOCK FALSE
INVARIANTS TypeOK
PROPERTIES CancelStopsService Redials ShutdownStopsServices ShutdownReturns ListenErrorStopsService NewTopicNodeReturns
