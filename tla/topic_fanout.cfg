SPECIFICATION Spec
CONSTANTS
  b1 = b1
  big = big
  p1 = p1
  p2 = p2
  Callers = {p1, p2}
  Bodies = {b1}
  Oversized = {}
  Subs = {s1}
  Wire <- ReplayWire
  TicksPerSecond = 1
  MaxMessages = 3
  SubscriberBuffer = 2
  DuplicateTTL = 2
  DefaultTTL = 1
  MaxTTL = 1
  TTLDisabled = FALSE
  AuthRequired = FALSE
  SignerPresent = FALSE
  ExpiryInclusive = FALSE
  MaxTTLTruncated = FALSE
  MaxExpiresAt = 2
  MaxClock = 3
  MaxCalls = 3
SYMMETRY CallerSymmetry
INVARIANTS
  TypeOK
  NoPanic
  DeliveryInOrder
  UniqueQueued
PROPERTIES
  ImplementsService
