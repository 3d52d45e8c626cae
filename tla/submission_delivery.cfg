SPECIFICATION FairSpec
CONSTANTS
  m1 = m1
  m2 = m2
  c1 = c1
  c2 = c2
  Ids = {m1, m2}
  Perishable = {m1}
  Outlasting = {m1}
  Overtaken = {m1}
  Elsewhere = {m1}
  MaxAccepted = 3
  Conns = {c1}
  RequestCount = 2
  MaxCancelled = 1
  SharedFlows = FALSE
INVARIANTS
  TypeOK
  AcksWhatWasAnnounced
  NoneSkipped
PROPERTIES
  AnnouncedOnceInOrder
  Delivered
CHECK_DEADLOCK FALSE
