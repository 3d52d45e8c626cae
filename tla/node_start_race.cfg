SPECIFICATION FairSpec
CONSTANTS
  in1 = in1
  out1 = out1
  Inbound = {in1}
  Peers = {}
  ListenConfigured = TRUE
  SharedManager = TRUE
  ViaTopicNode = FALSE
  ShutdownDeadline = TRUE
  InitialBackoff = 1
  MaxBackoff = 1
CHECK_DEADLOCK FALSE
PROPERTIES ShutdownStopsServices
