SPECIFICATION Spec
CONSTANTS
  MaxWord = 1023
  Quota <- MCQuota
  Callers = {p1, p2}
  Topics = {t1}
  Chains <- MCChains
  Configs <- MCConfigs
  Topology <- MCTopology
  StaticPeers <- MCStaticPeers
SYMMETRY MCSymmetry
INVARIANTS
  TypeOK
  BigPoolsAreTopStake
  ProvidersAgree
  SelectHonoursQuotas
  OneSnapshot
  FreshUnlessOvertaken
