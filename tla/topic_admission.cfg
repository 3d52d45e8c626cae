SPECIFICATION Spec
CONSTANTS
  b1 = b1
  big = big
  p1 = p1
  p2 = p2
  Callers = {p1, p2}
  Bodies = {b1, big}
  Oversized = {big}
  Subs = {}
  Wire <- AdmissionWire
  TicksPerSecond = 2
  MaxMessages = 2
  SubscriberBuffer = 1
  DuplicateTTL = 1
  DefaultTTL = 3
  MaxTTL = 3
  TTLDisabled = FALSE
  AuthRequired = TRUE
  SignerPresent = TRUE
  ExpiryInclusive = FALSE
  MaxTTLTruncated = FALSE
  MaxExpiresAt = 2
  MaxClock = 4
  MaxCalls = 3
SYMMETRY CallerSymmetry
INVARIANTS
  DuplicateWindow
  SeenOnlyAccepted
  PublishNeverTooFar
PROPERTIES
  RetainedUnlessOvertaken
  ImplementsService
