----------------------------- MODULE CardanoTime -----------------------------
(***************************************************************************)
(* Slots and KES periods (src/cardano.go) and the validity window of an    *)
(* operational certificate (src/kes_payload.go).  Instants and durations   *)
(* count the clock's ticks; 0 is the zero time.Time.                       *)
(***************************************************************************)
EXTENDS Integers

CONSTANTS
  MaxWord,       \* ^uint64(0)
  MaxDuration,   \* the longest time.Duration, 1<<63 - 1
  Second,        \* time.Second
  CryptoMax,     \* cryptoMaxKESEvolutions(kes.CardanoKesDepth)
  MainnetStart,  \* cardanoMainnetShelleyStart
  MainnetSlot    \* CardanoMainnetShelleyStartSlot

ASSUME CardanoTimeAssumption ==
  /\ MaxWord \in Nat /\ MaxDuration \in Nat /\ Second \in Nat \ {0}
  /\ CryptoMax \in Nat \ {0} /\ MainnetStart \in Nat \ {0} /\ MainnetSlot \in Nat
  /\ MaxDuration + CryptoMax <= MaxWord

(* A slot length that is not positive stands for time.Second. *)
NetworkParams ==
  [start : Nat, absoluteStartSlot : Nat, slotLength : Int,
   slotsPerKESPeriod : Nat, maxKESEvolutions : Nat]

ZeroTime == 0

(* What stands for an error in place of a slot, a period or a status. *)
Err == -1

NoParams == [start |-> ZeroTime, absoluteStartSlot |-> 0, slotLength |-> 0,
             slotsPerKESPeriod |-> 0, maxKESEvolutions |-> 0]

(* time.Duration of a slotLength in seconds, a fraction num / den. *)
durationOf(f) == (f.num * Second) \div f.den

(* A genesis file: a missing field is 0; slotLength and absoluteStartSlot   *)
(* are sequences of at most one element.  A slotLength must be positive,    *)
(* and still be so when it is cut to a Duration.                            *)
NetworkParamsFromShelleyGenesis(g) ==
  LET mainnet == g.absoluteStartSlot = <<>> /\ g.mainnet
  IN IF \/ g.systemStart = 0
        \/ g.slotsPerKESPeriod = 0
        \/ g.slotLength # <<>> /\ (g.slotLength[1].num <= 0 \/ durationOf(g.slotLength[1]) <= 0)
        \/ g.epochLength = 0
     THEN NoParams
     ELSE [start |-> IF mainnet THEN MainnetStart ELSE g.systemStart,
           absoluteStartSlot |-> IF mainnet THEN MainnetSlot
                                 ELSE IF g.absoluteStartSlot = <<>> THEN 0
                                 ELSE g.absoluteStartSlot[1],
           slotLength |-> IF g.slotLength = <<>> THEN Second ELSE durationOf(g.slotLength[1]),
           slotsPerKESPeriod |-> g.slotsPerKESPeriod,
           maxKESEvolutions |-> g.maxKESEvolutions]
-----------------------------------------------------------------------------
slotLengthOf(p) == IF p.slotLength <= 0 THEN Second ELSE p.slotLength

(* Time.Sub saturates. *)
Sub(t, u) == IF t - u > MaxDuration THEN MaxDuration ELSE t - u

CurrentSlotFor(p, now) ==
  IF now < p.start THEN Err ELSE Sub(now, p.start) \div slotLengthOf(p)

currentAbsoluteSlotFor(p, now) ==
  LET slot == CurrentSlotFor(p, now)
  IN IF slot = Err \/ slot > MaxWord - p.absoluteStartSlot THEN Err
     ELSE p.absoluteStartSlot + slot

CurrentKESPeriodFor(p, now) ==
  LET slot == currentAbsoluteSlotFor(p, now)
  IN IF p.slotsPerKESPeriod = 0 \/ slot = Err THEN Err
     ELSE slot \div p.slotsPerKESPeriod

(* Variant: the period is counted from the network's start. *)
KESPeriodStartRelative(p, period) ==
  LET nanos == period * p.slotsPerKESPeriod * slotLengthOf(p)
  IN IF nanos > MaxDuration THEN ZeroTime ELSE p.start + nanos
(* Variant: the products are not checked for overflow. *)
KESPeriodStartWrapping(p, period) ==
  LET slots == (period * p.slotsPerKESPeriod) % (MaxWord + 1)
      nanos == ((slots - p.absoluteStartSlot) * slotLengthOf(p)) % (MaxDuration + 1)
  IN IF slots < p.absoluteStartSlot THEN ZeroTime ELSE p.start + nanos

(* Mul64 tells whether a product fits. *)
KESPeriodStart(p, period) ==
  LET slots == period * p.slotsPerKESPeriod
      nanos == (slots - p.absoluteStartSlot) * slotLengthOf(p)
  IN IF slots > MaxWord \/ slots < p.absoluteStartSlot \/ nanos > MaxDuration
     THEN ZeroTime
     ELSE p.start + nanos
-----------------------------------------------------------------------------
effectiveMaxKESEvolutions(p) ==
  IF p.maxKESEvolutions = 0 \/ p.maxKESEvolutions > CryptoMax
  THEN CryptoMax ELSE p.maxKESEvolutions

(* Variant: the last period is one too many. *)
withinValidityOffByOne(rel, max) == rel <= max

(* validateRelativeKESPeriodForNetwork *)
withinValidity(rel, max) == rel < max

(* NewOperationalCredentialStatus for a certificate that loads and matches  *)
(* its key: the instant at which its validity ends, or an error.            *)
CredentialExpiresAt(p, certPeriod, now) ==
  LET period == CurrentKESPeriodFor(p, now)
      max == effectiveMaxKESEvolutions(p)
  IN IF \/ p.start = ZeroTime
        \/ period = Err
        \/ period < certPeriod
        \/ ~withinValidity(period - certPeriod, max)
     THEN Err
     ELSE KESPeriodStart(p, (certPeriod + max) % (MaxWord + 1))
-----------------------------------------------------------------------------
(* The clock has reached a period exactly when it has reached the instant   *)
(* that KESPeriodStart gives for it, if it gives one.                       *)
PeriodBoundary(p, now, period) ==
  CurrentKESPeriodFor(p, now) # Err /\ KESPeriodStart(p, period) # ZeroTime
    => (CurrentKESPeriodFor(p, now) >= period <=> now >= KESPeriodStart(p, period))
=============================================================================
