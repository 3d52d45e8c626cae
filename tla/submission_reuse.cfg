SPECIFICATION Spec
CONSTANTS
  m1 = m1
  m2 = m2
  c1 = c1
  c2 = c2
  Ids = {m1, m2}
  Perishable = {m1}
  Outlasting = {}
  Overtaken = {}
  Elsewhere = {m1}
  MaxAccepted = 2
  Conns = {c1, c2}
  RequestCount = 1
  MaxCancelled = 0
  SharedFlows = TRUE
INVARIANTS
  FlowPerConnection
CHECK_DEADLOCK FALSE
