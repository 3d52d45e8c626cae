SPECIFICATION Spec
CONSTANTS
  a = a
  b = b
  r1 = r1
  Callers = {a, b}
  Reloaders = {r1}
  CertPeriod <- TwoCertificates
  Requested = {0, 1}
  KESPeriod = 1
  CryptoMax = 2
  Second = 1
  MainnetStart = 2
  MainnetSlot = 3
  MaxWord = 12
  MaxDuration = 7
  Networks <- Unaligned
  Genesis <- GenesisFiles
  MaxNow = 4
  MaxLoads = 1
SYMMETRY Symmetry
INVARIANTS
  TypeOK
  MessageConsistent
  PeriodWithinCall
  RefusedOnlyAcrossPeriods
  KeyNotAheadOfClock
  StatusForetells
  PeriodBoundaries
CHECK_DEADLOCK FALSE
