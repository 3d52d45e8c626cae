---------------------------- MODULE SigningProofs ----------------------------
(* Proofs about the KES clock and the signers. *)
EXTENDS Signing, TLAPS

(* A quotient has reached k exactly when the dividend has reached k times   *)
(* the divisor.                                                             *)
LEMMA QuotientReaches ==
  ASSUME NEW x \in Nat, NEW d \in Nat \ {0}, NEW k \in Int
  PROVE  x \div d \in Nat /\ (x \div d >= k <=> x >= k * d)
<1> DEFINE q == x \div d
           r == x % d
<1>1. q \in Nat /\ r \in 0..(d - 1) /\ x = q * d + r
  BY Z3
<1> HIDE DEF q, r
<1>2. ASSUME q >= k PROVE x >= k * d
  <2>1. (q - k) * d >= 0
    BY <1>1, <1>2, Z3
  <2> QED
    BY <2>1, <1>1, Z3
<1>3. ASSUME q < k PROVE x < k * d
  <2>1. (k - q - 1) * d >= 0
    BY <1>1, <1>3, Z3
  <2> QED
    BY <2>1, <1>1, Z3
<1> QED
  BY <1>1, <1>2, <1>3 DEF q

(* What the period is computed from, and when there is one. *)
LEMMA PeriodOfSlot ==
  ASSUME NEW p \in NetworkParams, p.slotsPerKESPeriod # 0, NEW t \in Nat
  PROVE  LET gone == Sub(t, p.start)
             slot == gone \div slotLengthOf(p)
             k == CurrentKESPeriodFor(p, t) IN
         /\ slotLengthOf(p) \in Nat \ {0}
         /\ p.slotsPerKESPeriod \in Nat \ {0} /\ p.absoluteStartSlot \in Nat /\ p.start \in Nat
         /\ t >= p.start => gone \in Nat /\ gone <= MaxDuration /\ slot \in Nat
         /\ k # Err <=> t >= p.start /\ p.absoluteStartSlot + slot <= MaxWord
         /\ k # Err => k \in Nat /\ k = (p.absoluteStartSlot + slot) \div p.slotsPerKESPeriod
<1> DEFINE L == slotLengthOf(p)
           S == p.slotsPerKESPeriod
           A == p.absoluteStartSlot
           gone == Sub(t, p.start)
           slot == gone \div L
<1> USE CardanoTimeAssumption
<1>1. L \in Nat \ {0} /\ S \in Nat \ {0} /\ A \in Nat /\ p.start \in Nat
  BY DEF NetworkParams, slotLengthOf
<1>2. t >= p.start => gone \in Nat /\ gone <= MaxDuration
  BY <1>1 DEF Sub
<1>3. t >= p.start => slot \in Nat /\ slot # Err
  <2> HIDE DEF gone, L
  <2> QED
    BY <1>1, <1>2, QuotientReaches DEF Err
<1>4. t >= p.start => (A + slot) \div S \in Nat /\ (A + slot) \div S # Err
  <2> HIDE DEF slot, S, A
  <2> QED
    BY <1>1, <1>3, QuotientReaches DEF Err
<1>5. t >= p.start => CurrentSlotFor(p, t) = slot
  BY <1>1 DEF CurrentSlotFor
<1>6. t < p.start => CurrentKESPeriodFor(p, t) = Err
  BY DEF CurrentKESPeriodFor, currentAbsoluteSlotFor, CurrentSlotFor
<1> HIDE DEF slot
<1>7. t >= p.start => CurrentKESPeriodFor(p, t) = IF A + slot <= MaxWord THEN (A + slot) \div S ELSE Err
  BY <1>1, <1>3, <1>5 DEF CurrentKESPeriodFor, currentAbsoluteSlotFor, Err
<1> HIDE DEF gone, L
<1>8. t < p.start \/ t >= p.start
  BY <1>1
<1> QED
  BY <1>1, <1>2, <1>3, <1>4, <1>6, <1>7, <1>8 DEF slot, gone, L

(* The clock and the period arithmetic agree for every network, although a   *)
(* difference of instants saturates (src/cardano.go:186-210, 215-233).       *)
THEOREM BoundaryExact ==
  ASSUME NEW p \in NetworkParams, p.slotsPerKESPeriod # 0,
         NEW t \in Nat, NEW k \in Nat
  PROVE  PeriodBoundary(p, t, k)
<1> DEFINE L == slotLengthOf(p)
           S == p.slotsPerKESPeriod
           A == p.absoluteStartSlot
           gone == Sub(t, p.start)
           slot == gone \div L
<1> USE CardanoTimeAssumption
<1> SUFFICES ASSUME CurrentKESPeriodFor(p, t) # Err, KESPeriodStart(p, k) # ZeroTime
             PROVE  CurrentKESPeriodFor(p, t) >= k <=> t >= KESPeriodStart(p, k)
  BY DEF PeriodBoundary
<1>1. /\ L \in Nat \ {0} /\ S \in Nat \ {0} /\ A \in Nat /\ p.start \in Nat
      /\ t >= p.start /\ gone \in Nat /\ slot \in Nat
      /\ CurrentKESPeriodFor(p, t) = (A + slot) \div S
  BY PeriodOfSlot
<1>6. /\ KESPeriodStart(p, k) = p.start + (k * S - A) * L
      /\ k * S >= A
      /\ (k * S - A) * L <= MaxDuration
  BY <1>1 DEF KESPeriodStart, ZeroTime
<1> HIDE DEF L, S, A, slot
<1>7. (A + slot) \div S >= k <=> A + slot >= k * S
  BY <1>1, QuotientReaches
<1>8. slot >= k * S - A <=> gone >= (k * S - A) * L
  <2>1. k * S - A \in Int
    BY <1>1
  <2> HIDE DEF gone
  <2> QED
    BY <2>1, <1>1, QuotientReaches DEF slot
<1>9. gone >= (k * S - A) * L <=> t - p.start >= (k * S - A) * L
  <2>1. (k * S - A) * L \in Int
    BY <1>1
  <2> QED
    BY <2>1, <1>1, <1>6 DEF Sub
<1>10. k * S \in Nat /\ (k * S - A) * L \in Int
  BY <1>1
<1> QED
  BY <1>1, <1>6, <1>7, <1>8, <1>9, <1>10

(* Time does not lead back to an earlier period. *)
LEMMA PeriodMonotone ==
  ASSUME NEW p \in NetworkParams, p.slotsPerKESPeriod # 0,
         NEW t \in Nat, NEW u \in Nat, t <= u,
         CurrentKESPeriodFor(p, t) # Err, CurrentKESPeriodFor(p, u) # Err
  PROVE  CurrentKESPeriodFor(p, t) <= CurrentKESPeriodFor(p, u)
<1> DEFINE L == slotLengthOf(p)
           S == p.slotsPerKESPeriod
           A == p.absoluteStartSlot
           gone(x) == Sub(x, p.start)
           slot(x) == gone(x) \div L
           k(x) == CurrentKESPeriodFor(p, x)
<1>1. /\ L \in Nat \ {0} /\ S \in Nat \ {0} /\ A \in Nat /\ p.start \in Nat
      /\ gone(t) \in Nat /\ slot(t) \in Nat /\ k(t) = (A + slot(t)) \div S /\ k(t) \in Nat
      /\ gone(u) \in Nat /\ slot(u) \in Nat /\ k(u) = (A + slot(u)) \div S /\ k(u) \in Nat
  BY PeriodOfSlot
<1>2. gone(t) <= gone(u)
  BY <1>1, CardanoTimeAssumption DEF Sub
<1> HIDE DEF L, S, A, gone, k
<1>3. slot(t) <= slot(u)
  <2>1. gone(t) >= slot(t) * L
    BY <1>1, QuotientReaches
  <2>2. gone(u) >= slot(t) * L
    <3> HIDE DEF slot
    <3>1. slot(t) * L \in Int
      BY <1>1
    <3> QED
      BY <2>1, <3>1, <1>1, <1>2
  <2> QED
    BY <2>2, <1>1, QuotientReaches
<1> HIDE DEF slot
<1>4. A + slot(t) >= k(t) * S
  <2>1. A + slot(t) \in Nat /\ (A + slot(t)) \div S >= k(t)
    BY <1>1
  <2> QED
    BY <2>1, <1>1, QuotientReaches
<1>5. A + slot(u) >= k(t) * S
  <2>1. k(t) * S \in Int
    BY <1>1
  <2> QED
    BY <2>1, <1>1, <1>3, <1>4
<1>6. k(u) >= k(t)
  <2>1. A + slot(u) \in Nat
    BY <1>1
  <2>2. (A + slot(u)) \div S >= k(t)
    BY <2>1, <1>1, <1>5, QuotientReaches
  <2> QED
    BY <2>2, <1>1
<1> QED
  BY <1>6, <1>1 DEF k

(* At instant t a certificate is within its validity on network p. *)
Serves(p, cert, t) ==
  LET k == CurrentKESPeriodFor(p, t)
  IN k # Err /\ k >= cert /\ withinValidity(k - cert, effectiveMaxKESEvolutions(p))

(* What makes an instant worth reporting: the sum that names the period     *)
(* after the last does not wrap.                                            *)
LEMMA ExpiryPeriod ==
  ASSUME NEW p \in NetworkParams, p.slotsPerKESPeriod # 0, NEW cert \in Nat, NEW t \in Nat,
         CredentialExpiresAt(p, cert, t) \notin {Err, ZeroTime}
  PROVE  LET max == effectiveMaxKESEvolutions(p)
             S == p.slotsPerKESPeriod
             A == p.absoluteStartSlot IN
         /\ Serves(p, cert, t) /\ max \in Nat
         /\ CredentialExpiresAt(p, cert, t) = KESPeriodStart(p, cert + max)
         /\ CredentialExpiresAt(p, cert, t) = p.start + ((cert + max) * S - A) * slotLengthOf(p)
         /\ (cert + max) * S <= MaxWord
<1> DEFINE L == slotLengthOf(p)
           S == p.slotsPerKESPeriod
           A == p.absoluteStartSlot
           max == effectiveMaxKESEvolutions(p)
           gone == Sub(t, p.start)
           slot == gone \div L
           k == CurrentKESPeriodFor(p, t)
           w == (cert + max) % (MaxWord + 1)
<1> USE CardanoTimeAssumption
<1>1. /\ max \in Nat /\ max <= CryptoMax
  BY DEF effectiveMaxKESEvolutions, NetworkParams
<1>2. Serves(p, cert, t) /\ k # Err /\ k >= cert
  <2>1. k # Err /\ ~(k < cert) /\ withinValidity(k - cert, max)
    BY DEF CredentialExpiresAt
  <2>2. k \in Nat
    BY <2>1, PeriodOfSlot
  <2> QED
    BY <2>1, <2>2 DEF Serves
<1>3. CredentialExpiresAt(p, cert, t) = KESPeriodStart(p, w)
  BY DEF CredentialExpiresAt
<1>4. /\ L \in Nat \ {0} /\ S \in Nat \ {0} /\ A \in Nat /\ p.start \in Nat
      /\ gone \in Nat /\ gone <= MaxDuration /\ slot \in Nat
      /\ A + slot <= MaxWord /\ k = (A + slot) \div S /\ k \in Nat
  BY <1>2, PeriodOfSlot
<1>5. w \in Nat /\ cert + max \in Nat
  BY <1>1
<1> HIDE DEF w, max
<1>6. /\ w * S <= MaxWord /\ w * S >= A
      /\ KESPeriodStart(p, w) = p.start + (w * S - A) * L
  BY <1>3, <1>4, <1>5 DEF KESPeriodStart
<1>7. slot <= MaxDuration
  <2> HIDE DEF gone, L
  <2>1. gone >= slot * L
    BY <1>4, QuotientReaches
  <2> HIDE DEF slot
  <2>2. slot * L >= slot
    BY <1>4, Z3
  <2>3. slot * L \in Int
    BY <1>4
  <2> QED
    BY <2>1, <2>2, <2>3, <1>4
<1> HIDE DEF slot, S, A, k
<1>8. A + slot >= k * S
  <2>1. A + slot \in Nat /\ (A + slot) \div S >= k
    BY <1>4
  <2> QED
    BY <2>1, <1>4, QuotientReaches
<1>9. k * S >= cert * S /\ k * S >= k
  BY <1>2, <1>4, Z3
<1>10. cert + max <= MaxWord
  <2> SUFFICES ASSUME cert + max > MaxWord PROVE FALSE
    BY <1>5
  <2>1. k * S \in Int
    BY <1>4
  <2>2. cert <= MaxWord /\ max <= MaxWord
    BY <2>1, <1>1, <1>2, <1>4, <1>8, <1>9
  <2>3. w = cert + max - MaxWord - 1
    BY <2>2, <1>1 DEF w
  <2>4. cert - w = MaxWord + 1 - max /\ cert - w >= 0
    BY <2>2, <2>3, <1>1
  <2>5. (cert - w) * S >= cert - w
    BY <2>4, <1>4, <1>5, Z3
  <2>6. (cert - w) * S = cert * S - w * S
    BY <1>4, <1>5, Z3
  <2>7. cert * S \in Int /\ w * S \in Int
    BY <1>4, <1>5
  <2>8. slot >= cert - w
    BY <2>1, <2>5, <2>6, <2>7, <1>4, <1>5, <1>6, <1>8, <1>9
  <2> QED
    BY <2>8, <2>4, <1>1, <1>4, <1>7
<1>11. w = cert + max
  BY <1>10, <1>1 DEF w
<1> QED
  BY <1>1, <1>2, <1>3, <1>6, <1>11 DEF max, S, A, L

(* From the instant of a status on, the certificate serves until ExpiresAt  *)
(* and not after (src/kes_payload.go:414-452).                              *)
THEOREM ExpiryExact ==
  ASSUME NEW p \in NetworkParams, p.slotsPerKESPeriod # 0, NEW cert \in Nat,
         NEW t \in Nat, NEW u \in Nat, t <= u,
         CredentialExpiresAt(p, cert, t) \notin {Err, ZeroTime}
  PROVE  Serves(p, cert, u) <=> u < CredentialExpiresAt(p, cert, t)
<1> DEFINE L == slotLengthOf(p)
           S == p.slotsPerKESPeriod
           A == p.absoluteStartSlot
           max == effectiveMaxKESEvolutions(p)
           w == cert + max
           e == CredentialExpiresAt(p, cert, t)
           gone == Sub(u, p.start)
           slot == gone \div L
           k == CurrentKESPeriodFor(p, u)
<1>1. /\ Serves(p, cert, t) /\ max \in Nat /\ w \in Nat /\ w * S <= MaxWord
      /\ e = KESPeriodStart(p, w) /\ e = p.start + (w * S - A) * L
  BY ExpiryPeriod
<1>2. CurrentKESPeriodFor(p, t) # Err /\ CurrentKESPeriodFor(p, t) >= cert
  BY <1>1 DEF Serves
<1>3. /\ L \in Nat \ {0} /\ S \in Nat \ {0} /\ A \in Nat /\ p.start \in Nat
      /\ t >= p.start /\ u >= p.start /\ gone \in Nat /\ slot \in Nat
      /\ CurrentKESPeriodFor(p, t) \in Nat
      /\ k # Err <=> A + slot <= MaxWord
      /\ k # Err => k \in Nat
  <2>1. t >= p.start /\ p.start \in Nat /\ CurrentKESPeriodFor(p, t) \in Nat
    BY <1>2, PeriodOfSlot
  <2>2. u >= p.start
    BY <2>1
  <2> QED
    BY <2>1, <2>2, PeriodOfSlot
<1>4. k # Err => (k >= w <=> u >= e)
  BY <1>1, BoundaryExact DEF PeriodBoundary
<1>5. (w * S - A) * L \in Int /\ w * S \in Int /\ e \in Int
  BY <1>1, <1>3
<1>6. CASE u >= e
  <2>1. k # Err => k - cert >= max
    BY <1>1, <1>3, <1>4, <1>6
  <2> QED
    BY <2>1, <1>1, <1>3, <1>5, <1>6 DEF Serves, withinValidity
<1>7. CASE u < e
  <2>1. gone <= u - p.start
    BY <1>3, CardanoTimeAssumption DEF Sub
  <2> HIDE DEF gone, L, S, A, w
  <2>2. gone < (w * S - A) * L
    BY <2>1, <1>1, <1>3, <1>5, <1>7
  <2>3. slot < w * S - A
    <3>1. w * S - A \in Int
      BY <1>3, <1>5
    <3>2. slot >= w * S - A <=> gone >= (w * S - A) * L
      BY <3>1, <1>3, QuotientReaches
    <3> QED
      BY <3>1, <3>2, <2>2, <1>3, <1>5
  <2> HIDE DEF slot, k
  <2>4. k # Err
    BY <2>3, <1>1, <1>3, <1>5, CardanoTimeAssumption
  <2>5. k >= cert
    <3>1. CurrentKESPeriodFor(p, t) <= k
      BY <2>4, <1>2, PeriodMonotone DEF k
    <3> QED
      BY <3>1, <2>4, <1>2, <1>3
  <2>6. k - cert < max
    BY <2>4, <1>1, <1>3, <1>4, <1>5, <1>7 DEF w
  <2> QED
    BY <2>4, <2>5, <2>6, <1>7 DEF Serves, withinValidity, k
<1> QED
  BY <1>3, <1>5, <1>6, <1>7

-----------------------------------------------------------------------------
SignerRecord == [key : Versions, cert : Versions, period : Nat, pushed : BOOLEAN]

ReloadRecord == [pc : {"idle", "loading", "swap"}, key : Nat, built : Nat]

CallRecord ==
  [pc : {"idle", "period", "cert", "sign", "return"}, signer : Nat, requested : Nat, started : Nat,
   period : Nat, result : Results, abs : Nat, rel : Nat, cert : Nat, vkey : Nat]

PeriodErrors == {"no period", "before certificate", "past validity", "overflow"}

(* The first period of the certificate the call signs with. *)
certOf(c) == CertPeriod[signers[call[c].signer].cert]

(* The absolute period the call has read. *)
atOf(c) == IF kind \in FileKinds THEN call[c].period ELSE certOf(c) + call[c].period

(* Of a call of a provider: the clock showed, during the call, an instant   *)
(* that justifies the period it carries or the answer it gives.             *)
Justified(c) ==
  /\ call[c].pc \in {"cert", "sign"} => \E t \in call[c].started..now :
       /\ Serves(network, certOf(c), t)
       /\ call[c].period = CurrentKESPeriodFor(network, t) - certOf(c)
  /\ Signed(c) => \E t \in call[c].started..now : Serves(network, certOf(c), t)
  /\ call[c].pc = "return" /\ call[c].result \in PeriodErrors =>
       \E t \in call[c].started..now : ~Serves(network, certOf(c), t)

CallInv(c) ==
  /\ call[c].pc # "idle" => call[c].signer \in DOMAIN signers /\ call[c].started \in 1..now
  /\ Signed(c) => /\ call[c].vkey = call[c].cert
                  /\ call[c].abs = CertPeriod[call[c].cert] + call[c].rel
                  /\ call[c].rel < effectiveMax
  /\ call[c].pc = "cert" => kind \notin FileKinds
  /\ call[c].pc = "sign" /\ kind \notin FileKinds =>
       call[c].cert = signers[call[c].signer].cert /\ call[c].abs = atOf(c)
  /\ kind \notin FileKinds => Justified(c)

(* The part of the invariant that does not mention calls. *)
SignersInv ==
  /\ kind \in Kinds /\ network \in NetworkParams /\ network.slotsPerKESPeriod # 0
  /\ now \in Nat \ {0} /\ keyFile \in Versions /\ certFile \in Versions
  /\ signers \in Seq(SignerRecord)
  /\ \A i \in DOMAIN signers : signers[i].key = signers[i].cert
  /\ active \in DOMAIN signers
  /\ reload \in [Reloaders -> ReloadRecord]
  /\ \A r \in Reloaders : reload[r].pc = "swap" => reload[r].built \in DOMAIN signers

SigningInv ==
  /\ SignersInv
  /\ call \in [Callers -> CallRecord]
  /\ \A c \in Callers : CallInv(c)

(* The network of an application or of a genesis file can be computed with. *)
LEMMA NetworkUsable ==
  ASSUME NEW n \in (Networks \cup {NetworkParamsFromShelleyGenesis(g) : g \in Genesis}) \ {NoParams}
  PROVE  n \in NetworkParams /\ n.slotsPerKESPeriod # 0
<1>1. CASE n \in Networks
  BY <1>1, SigningAssumption
<1>2. ASSUME NEW g \in Genesis, n = NetworkParamsFromShelleyGenesis(g)
      PROVE  n \in NetworkParams /\ n.slotsPerKESPeriod # 0
  <2>1. /\ g.systemStart \in Nat /\ g.slotsPerKESPeriod \in Nat /\ g.maxKESEvolutions \in Nat
        /\ g.slotLength \in Seq([num : Int, den : Nat \ {0}]) /\ g.absoluteStartSlot \in Seq(Nat)
    BY SigningAssumption
  <2>2. g.slotLength # <<>> => durationOf(g.slotLength[1]) \in Int
    <3> SUFFICES ASSUME g.slotLength # <<>> PROVE durationOf(g.slotLength[1]) \in Int
      OBVIOUS
    <3> DEFINE R == [num : Int, den : Nat \ {0}]
    <3>1. g.slotLength \in Seq(R)
      BY <2>1
    <3> HIDE DEF R
    <3>2. g.slotLength[1] \in R
      BY <3>1
    <3>3. g.slotLength[1].num \in Int /\ g.slotLength[1].den \in Nat \ {0}
      BY <3>2 DEF R
    <3> QED
      BY <3>3, CardanoTimeAssumption DEF durationOf
  <2>3. g.absoluteStartSlot # <<>> => g.absoluteStartSlot[1] \in Nat
    BY <2>1
  <2>4. g.slotsPerKESPeriod # 0
    BY <1>2 DEF NetworkParamsFromShelleyGenesis
  <2> QED
    BY <1>2, <2>1, <2>2, <2>3, <2>4, CardanoTimeAssumption
    DEF NetworkParamsFromShelleyGenesis, NetworkParams
<1> QED
  BY <1>1, <1>2

LEMMA SigningInit == Init => SigningInv
<1> SUFFICES ASSUME Init PROVE SigningInv
  OBVIOUS
<1>1. network \in NetworkParams /\ network.slotsPerKESPeriod # 0
  BY NetworkUsable DEF Init
<1>2. 1 \in Versions
  BY SigningAssumption DEF Versions
<1>3. signers \in Seq(SignerRecord) /\ DOMAIN signers = {1} /\ signers[1].key = signers[1].cert
  <2>1. NewSigner(1, 1) \in SignerRecord
    BY <1>2 DEF NewSigner, SignerRecord
  <2> QED
    BY <2>1 DEF Init, NewSigner
<1>4. SignersInv
  BY <1>1, <1>2, <1>3 DEF Init, SignersInv, NoReload, ReloadRecord
<1>5. call \in [Callers -> CallRecord]
  BY DEF Init, NoCall, CallRecord, Results
<1>6. \A c \in Callers : CallInv(c)
  BY DEF Init, NoCall, CallInv, Justified, Signed
<1> QED
  BY <1>4, <1>5, <1>6 DEF SigningInv

(* A call that does not move keeps its part of the invariant while time     *)
(* passes and signers are added or evolve.                                  *)
LEMMA CallKept ==
  ASSUME SigningInv, NEW c \in Callers,
         call'[c] = call[c], kind' = kind, network' = network,
         now' \in Nat, now' >= now,
         \A i \in DOMAIN signers : i \in DOMAIN signers' /\ signers'[i].cert = signers[i].cert
  PROVE  CallInv(c)'
<1>1. CallInv(c) /\ now \in Nat /\ call[c] \in CallRecord
  BY DEF SigningInv, SignersInv
<1>2. CASE call[c].pc = "idle"
  BY <1>2 DEF CallInv, Justified, Signed
<1>3. CASE call[c].pc # "idle"
  <2>1. call[c].signer \in DOMAIN signers /\ call[c].started \in 1..now
    BY <1>1, <1>3 DEF CallInv
  <2>2. certOf(c)' = certOf(c) /\ atOf(c)' = atOf(c)
    BY <2>1 DEF certOf, atOf
  <2>3. Signed(c)' = Signed(c) /\ effectiveMax' = effectiveMax
    BY DEF Signed, effectiveMax
  <2>4. \A t \in call[c].started..now : t \in call[c].started..now'
    BY <1>1, <2>1
  <2>5. ASSUME kind \notin FileKinds PROVE Justified(c)'
    <3> HIDE DEF Serves
    <3>1. Justified(c)
      BY <1>1, <2>5 DEF CallInv
    <3>2. call[c].pc \in {"cert", "sign"} => \E t \in call[c].started..now' :
            /\ Serves(network, certOf(c), t)
            /\ call[c].period = CurrentKESPeriodFor(network, t) - certOf(c)
      BY <3>1, <2>4 DEF Justified
    <3>3. Signed(c) => \E t \in call[c].started..now' : Serves(network, certOf(c), t)
      BY <3>1, <2>4 DEF Justified
    <3>4. call[c].pc = "return" /\ call[c].result \in PeriodErrors =>
            \E t \in call[c].started..now' : ~Serves(network, certOf(c), t)
      BY <3>1, <2>4 DEF Justified
    <3> QED
      BY <3>2, <3>3, <3>4, <2>2, <2>3 DEF Justified
  <2> QED
    BY <1>1, <2>1, <2>2, <2>3, <2>5 DEF CallInv
<1> QED
  BY <1>2, <1>3

(* A step of one call that leaves the other calls alone. *)
LEMMA OneCall ==
  ASSUME SigningInv, SignersInv', NEW c \in Callers, NEW new \in CallRecord,
         call' = [call EXCEPT ![c] = new],
         kind' = kind, network' = network, now' = now,
         \A i \in DOMAIN signers : i \in DOMAIN signers' /\ signers'[i].cert = signers[i].cert,
         CallInv(c)'
  PROVE  SigningInv'
<1>1. call \in [Callers -> CallRecord] /\ now \in Nat
  BY DEF SigningInv, SignersInv
<1>2. call' \in [Callers -> CallRecord]
  BY <1>1
<1>3. ASSUME NEW d \in Callers, d # c PROVE CallInv(d)'
  <2>1. call'[d] = call[d]
    BY <1>1, <1>3
  <2> QED
    BY <2>1, <1>1, CallKept
<1> QED
  BY <1>2, <1>3 DEF SigningInv

(* A step of the surroundings or of Reload. *)
LEMMA NoCallMoves ==
  ASSUME SigningInv, SignersInv', call' = call, kind' = kind, network' = network, now' >= now,
         \A i \in DOMAIN signers : i \in DOMAIN signers' /\ signers'[i].cert = signers[i].cert
  PROVE  SigningInv'
<1>1. \A c \in Callers : CallInv(c)'
  BY CallKept DEF SignersInv
<1> QED
  BY <1>1 DEF SigningInv

LEMMA SurroundingsKeep ==
  ASSUME SigningInv, Tick \/ RotateKey \/ RotateCertificate PROVE SigningInv'
<1> USE DEF SigningInv
<1>1. SignersInv' /\ call' = call /\ kind' = kind /\ network' = network /\ now' >= now
      /\ signers' = signers
  <2>1. CASE Tick
    BY <2>1 DEF Tick, SignersInv
  <2>2. CASE RotateKey
    BY <2>2 DEF RotateKey, SignersInv
  <2>3. CASE RotateCertificate
    BY <2>3 DEF RotateCertificate, SignersInv
  <2> QED
    BY <2>1, <2>2, <2>3
<1> QED
  BY <1>1, NoCallMoves

LEMMA ReloadKeeps ==
  ASSUME SigningInv, NEW r \in Reloaders,
         LoadKey(r) \/ LoadCertificate(r) \/ LoadFails(r) \/ Swap(r)
  PROVE  SigningInv'
<1>0. SignersInv
  BY DEF SigningInv
<1>1. SignersInv' /\ call' = call /\ kind' = kind /\ network' = network /\ now' = now
      /\ \A i \in DOMAIN signers : i \in DOMAIN signers' /\ signers'[i].cert = signers[i].cert
  <2>1. CASE LoadKey(r)
    <3>1. keyFile \in Nat
      BY <1>0, SigningAssumption DEF SignersInv, Versions
    <3> QED
      BY <1>0, <2>1, <3>1 DEF LoadKey, SignersInv, ReloadRecord
  <2>2. CASE LoadCertificate(r)
    <3> DEFINE key == IF kind = "external" THEN certFile ELSE reload[r].key
               new == NewSigner(key, certFile)
    <3>1. key = certFile
      BY <2>2 DEF LoadCertificate, matches
    <3>2. new \in SignerRecord /\ new.key = new.cert
      BY <3>1, <1>0 DEF NewSigner, SignerRecord, SignersInv
    <3>3. signers' = Append(signers, new) /\ signers \in Seq(SignerRecord)
      BY <1>0, <2>2 DEF LoadCertificate, SignersInv
    <3> HIDE DEF new
    <3>4. /\ signers' \in Seq(SignerRecord) /\ Len(signers') = Len(signers) + 1
          /\ \A i \in DOMAIN signers : i \in DOMAIN signers' /\ signers'[i] = signers[i]
          /\ signers'[Len(signers) + 1] = new
      BY <3>2, <3>3
    <3>5. \A i \in DOMAIN signers' : signers'[i].key = signers'[i].cert
      <4>1. \A i \in DOMAIN signers : signers[i].key = signers[i].cert
        BY <1>0 DEF SignersInv
      <4>2. \A i \in DOMAIN signers' : i \in DOMAIN signers \/ i = Len(signers) + 1
        BY <3>3, <3>4
      <4> QED
        BY <4>1, <4>2, <3>2, <3>4
    <3>6. reload' \in [Reloaders -> ReloadRecord]
      <4>1. [reload[r] EXCEPT !.pc = "swap", !.built = Len(signers) + 1] \in ReloadRecord
        <5>1. reload[r] \in ReloadRecord /\ Len(signers) + 1 \in Nat
          BY <1>0, <3>3 DEF SignersInv
        <5> QED
          BY <5>1, Zenon DEF ReloadRecord
      <4> QED
        BY <4>1, <1>0, <2>2 DEF LoadCertificate, SignersInv
    <3>7. \A q \in Reloaders : reload'[q].pc = "swap" => reload'[q].built \in DOMAIN signers'
      BY <1>0, <2>2, <3>3, <3>4 DEF LoadCertificate, SignersInv
    <3> QED
      BY <1>0, <2>2, <3>4, <3>5, <3>6, <3>7 DEF LoadCertificate, SignersInv
  <2>3. CASE LoadFails(r)
    BY <1>0, <2>3 DEF LoadFails, SignersInv, NoReload, ReloadRecord
  <2>4. CASE Swap(r)
    BY <1>0, <2>4 DEF Swap, SignersInv, NoReload, ReloadRecord
  <2> QED
    BY <2>1, <2>2, <2>3, <2>4
<1> QED
  BY <1>0, <1>1, NoCallMoves DEF SignersInv

(* The three ways in which a call moves on. *)
LEMMA RefusedRecord ==
  ASSUME NEW old \in CallRecord, NEW r \in Results
  PROVE  LET new == [old EXCEPT !.pc = "return", !.result = r] IN
         /\ new \in CallRecord /\ new.pc = "return" /\ new.result = r
         /\ new.signer = old.signer /\ new.started = old.started
BY Zenon DEF CallRecord

isSigned(new, old, rel, abs, cert, vkey) ==
  /\ new \in CallRecord /\ new.pc = "return" /\ new.result = "ok"
  /\ new.signer = old.signer /\ new.started = old.started
  /\ new.rel = rel /\ new.abs = abs /\ new.cert = cert /\ new.vkey = vkey

signedAs(old, rel, abs, cert, vkey) ==
  [old EXCEPT !.pc = "return", !.result = "ok", !.rel = rel, !.abs = abs,
              !.cert = cert, !.vkey = vkey]

LEMMA SignedRecord ==
  ASSUME NEW old \in CallRecord, NEW rel \in Nat, NEW abs \in Nat, NEW cert \in Nat, NEW vkey \in Nat
  PROVE  isSigned(signedAs(old, rel, abs, cert, vkey), old, rel, abs, cert, vkey)
BY Zenon DEF CallRecord, Results, signedAs, isSigned

begunAs(old, signer, requested, started) ==
  [old EXCEPT !.pc = "period", !.signer = signer, !.requested = requested, !.started = started]

isBegun(new, signer, started) ==
  new \in CallRecord /\ new.pc = "period" /\ new.signer = signer /\ new.started = started

LEMMA BegunRecord ==
  ASSUME NEW old \in CallRecord, NEW signer \in Nat, NEW requested \in Nat, NEW started \in Nat
  PROVE  isBegun(begunAs(old, signer, requested, started), signer, started)
BY Zenon DEF CallRecord, begunAs, isBegun

(* A call that is refused keeps the invariant if the clock justifies it. *)
LEMMA RefusalKeeps ==
  ASSUME SigningInv, NEW c \in Callers, NEW r \in Results \ {"ok"}, fail(c, r),
         call[c].pc # "idle",
         UNCHANGED <<kind, network, now, keyFile, certFile, signers, active, reload>>,
         kind \notin FileKinds /\ r \in PeriodErrors => ~Serves(network, certOf(c), now)
  PROVE  SigningInv'
<1> DEFINE new == [call[c] EXCEPT !.pc = "return", !.result = r]
<1>1. SignersInv /\ call \in [Callers -> CallRecord] /\ call[c] \in CallRecord /\ CallInv(c)
  BY DEF SigningInv
<1>2. SignersInv'
  BY <1>1 DEF SignersInv
<1>3. /\ new \in CallRecord /\ new.pc = "return" /\ new.result = r
      /\ new.signer = call[c].signer /\ new.started = call[c].started
  BY <1>1, RefusedRecord, Zenon
<1>4. call' = [call EXCEPT ![c] = new]
  BY <1>1, Zenon DEF fail
<1> HIDE DEF new
<1>5. call'[c] = new
  BY <1>1, <1>4
<1>6. call[c].signer \in DOMAIN signers /\ call[c].started \in 1..now /\ now \in Nat
  BY <1>1 DEF CallInv, SignersInv
<1>7. ~Signed(c)'
  BY <1>3, <1>5 DEF Signed
<1>8. certOf(c)' = certOf(c)
  BY <1>3, <1>5 DEF certOf
<1>9. kind \notin FileKinds => Justified(c)'
  <2>1. now \in call[c].started..now
    BY <1>6
  <2> HIDE DEF Serves
  <2> QED
    BY <2>1, <1>3, <1>5, <1>7, <1>8 DEF Justified
<1>10. CallInv(c)'
  BY <1>3, <1>5, <1>6, <1>7, <1>9 DEF CallInv
<1> QED
  BY <1>2, <1>3, <1>4, <1>10, OneCall, Zenon

(* So does one that has read a period the certificate serves. *)
LEMMA PeriodKeeps ==
  ASSUME SigningInv, NEW c \in Callers, NEW k \in Nat, NEW pc \in {"cert", "sign"},
         call[c].pc # "idle", call' = [call EXCEPT ![c].pc = pc, ![c].period = k],
         pc = "cert" <=> kind \notin FileKinds,
         UNCHANGED <<kind, network, now, keyFile, certFile, signers, active, reload>>,
         kind \notin FileKinds =>
           Serves(network, certOf(c), now) /\ k = CurrentKESPeriodFor(network, now) - certOf(c)
  PROVE  SigningInv'
<1> DEFINE new == [call[c] EXCEPT !.pc = pc, !.period = k]
<1>1. SignersInv /\ call \in [Callers -> CallRecord] /\ call[c] \in CallRecord /\ CallInv(c)
  BY DEF SigningInv
<1>2. SignersInv'
  BY <1>1 DEF SignersInv
<1>3. /\ new \in CallRecord /\ new.pc = pc /\ new.period = k
      /\ new.signer = call[c].signer /\ new.started = call[c].started
  BY <1>1, Zenon DEF CallRecord
<1>4. call' = [call EXCEPT ![c] = new]
  BY <1>1, Zenon
<1> HIDE DEF new
<1>5. call'[c] = new
  BY <1>1, <1>4, Zenon
<1>6. call[c].signer \in DOMAIN signers /\ call[c].started \in 1..now /\ now \in Nat
  BY <1>1 DEF CallInv, SignersInv
<1>7. ~Signed(c)'
  BY <1>3, <1>5 DEF Signed
<1>8. certOf(c)' = certOf(c)
  BY <1>3, <1>5 DEF certOf
<1>9. kind \notin FileKinds => Justified(c)'
  <2>1. now \in call[c].started..now
    BY <1>6
  <2> HIDE DEF Serves
  <2> QED
    BY <2>1, <1>3, <1>5, <1>7, <1>8, Zenon DEF Justified
<1>10. CallInv(c)'
  BY <1>3, <1>5, <1>6, <1>7, <1>9 DEF CallInv
<1> QED
  BY <1>2, <1>3, <1>4, <1>10, OneCall, Zenon

(* The bounds of what the period functions return. *)
LEMMA PeriodTyped ==
  ASSUME SigningInv, NEW c \in Callers, call[c].pc # "idle"
  PROVE  /\ period \in Nat \/ period = Err
         /\ certOf(c) \in Nat
         /\ certOf(c) = CertPeriod[signers[signerOf(c)].cert]
         /\ signers[signerOf(c)] \in SignerRecord /\ signerOf(c) \in DOMAIN signers
         /\ signers[signerOf(c)].key = signers[signerOf(c)].cert
<1>1. SignersInv /\ CallInv(c)
  BY DEF SigningInv
<1>2. signerOf(c) \in DOMAIN signers
  BY <1>1 DEF CallInv, signerOf
<1>3. signers[signerOf(c)] \in SignerRecord
  BY <1>1, <1>2 DEF SignersInv
<1>4. certOf(c) \in Nat
  BY <1>3, SigningAssumption DEF certOf, signerOf, SignerRecord, Versions
<1>5. period \in Nat \/ period = Err
  BY <1>1, PeriodOfSlot DEF period, SignersInv
<1> QED
  BY <1>1, <1>2, <1>3, <1>4, <1>5 DEF certOf, signerOf, SignersInv

LEMMA FilePeriodKeeps ==
  ASSUME SigningInv, NEW c \in Callers, FilePeriod(c) PROVE SigningInv'
<1>1. call[c].pc # "idle" /\ kind \in FileKinds
  BY Zenon DEF FilePeriod
<1>2. /\ UNCHANGED <<kind, network, now, keyFile, certFile, signers, active, reload>>
      /\ call[c].requested \in Nat
  BY Zenon DEF FilePeriod, SigningInv, CallRecord
<1>3. CASE call[c].requested = 0 /\ kind = "file" /\ period = Err /\ fail(c, "no period")
  BY <1>1, <1>2, <1>3, RefusalKeeps, Zenon DEF Results
<1>4. CASE call[c].requested # 0 \/ kind \in DefaultKinds \/ period # Err
  <2> DEFINE k == IF call[c].requested # 0 THEN call[c].requested
                  ELSE IF kind = "file" THEN period
                  ELSE defaultKESPeriod(signers[signerOf(c)])
  <2>0. defaultKESPeriod(signers[signerOf(c)]) \in Nat /\ (period \in Nat \/ period = Err)
    BY <1>1, PeriodTyped, SigningAssumption DEF defaultKESPeriod
  <2>1. k \in Nat
    BY <1>1, <1>2, <1>4, <2>0, Zenon DEF FileKinds, DefaultKinds
  <2>2. \/ call' = [call EXCEPT ![c].pc = "sign", ![c].period = k]
        \/ call[c].requested = 0 /\ kind = "file" /\ period = Err /\ fail(c, "no period")
    BY Zenon DEF FilePeriod
  <2> HIDE DEF k
  <2> QED
    BY <1>1, <1>2, <1>3, <2>1, <2>2, PeriodKeeps, Zenon
<1> QED
  BY <1>3, <1>4, Zenon DEF FilePeriod

LEMMA CurrentPeriodKeeps ==
  ASSUME SigningInv, NEW c \in Callers, CurrentPeriod(c) PROVE SigningInv'
<1> DEFINE start == certOf(c)
           max == effectiveMaxKESEvolutions(network)
<1>1. call[c].pc # "idle" /\ kind \notin FileKinds /\ effectiveMax = max
  BY Zenon DEF CurrentPeriod, effectiveMax
<1>2. UNCHANGED <<kind, network, now, keyFile, certFile, signers, active, reload>>
  BY Zenon DEF CurrentPeriod
<1>3. /\ period \in Nat \/ period = Err
      /\ start \in Nat /\ start = CertPeriod[signers[signerOf(c)].cert]
  BY <1>1, PeriodTyped
<1>4. Serves(network, start, now) <=>
        period # Err /\ period >= start /\ withinValidity(period - start, max)
  BY DEF Serves, period
<1> HIDE DEF start, max
<1>5. \/ period = Err /\ fail(c, "no period")
      \/ period # Err /\ period < start /\ fail(c, "before certificate")
      \/ /\ period >= start /\ ~withinValidity(period - start, max)
         /\ fail(c, "past validity")
      \/ /\ period >= start /\ withinValidity(period - start, max)
         /\ call' = [call EXCEPT ![c].pc = "cert", ![c].period = period - start]
  BY <1>1, <1>3, Zenon DEF CurrentPeriod
<1>6. CASE period = Err /\ fail(c, "no period")
  BY <1>1, <1>2, <1>4, <1>6, RefusalKeeps, Zenon DEF Results, start
<1>7. CASE period # Err /\ period < start /\ fail(c, "before certificate")
  <2>1. ~(period >= start)
    <3>1. period \in Nat /\ start \in Nat /\ period < start
      BY <1>3, <1>7, Zenon
    <3> QED
      BY <3>1, Z3
  <2> QED
    BY <2>1, <1>1, <1>2, <1>4, <1>7, RefusalKeeps, Zenon DEF Results, start
<1>8. CASE /\ period >= start /\ ~withinValidity(period - start, max)
           /\ fail(c, "past validity")
  BY <1>1, <1>2, <1>4, <1>8, RefusalKeeps, Zenon DEF Results, start
<1>9. CASE /\ period >= start /\ withinValidity(period - start, max)
           /\ call' = [call EXCEPT ![c].pc = "cert", ![c].period = period - start]
  <2>1. period # Err /\ period - start \in Nat
    BY <1>3, <1>9 DEF Err
  <2>2. Serves(network, certOf(c), now) /\ period - start = CurrentKESPeriodFor(network, now) - certOf(c)
    BY <2>1, <1>4, <1>9 DEF start, period
  <2> QED
    BY <2>1, <2>2, <1>1, <1>2, <1>9, PeriodKeeps, Zenon
<1> QED
  BY <1>5, <1>6, <1>7, <1>8, <1>9, Zenon

(* No period lies beyond the last word. *)
LEMMA PeriodFits ==
  ASSUME NEW p \in NetworkParams, p.slotsPerKESPeriod # 0, NEW t \in Nat,
         CurrentKESPeriodFor(p, t) # Err
  PROVE  CurrentKESPeriodFor(p, t) \in Nat /\ CurrentKESPeriodFor(p, t) <= MaxWord
<1> DEFINE L == slotLengthOf(p)
           S == p.slotsPerKESPeriod
           A == p.absoluteStartSlot
           slot == Sub(t, p.start) \div L
           k == CurrentKESPeriodFor(p, t)
<1>1. /\ S \in Nat \ {0} /\ A \in Nat /\ slot \in Nat /\ A + slot <= MaxWord
      /\ k \in Nat /\ k = (A + slot) \div S
  BY PeriodOfSlot
<1> HIDE DEF S, A, slot, k
<1>2. A + slot >= k * S
  <2>1. A + slot \in Nat /\ k \in Int /\ (A + slot) \div S >= k
    BY <1>1
  <2> QED
    BY <2>1, <1>1, QuotientReaches
<1>3. k * S >= k
  <2>1. k * (S - 1) >= 0
    BY <1>1, Z3
  <2> QED
    BY <2>1, <1>1, Z3
<1>4. k * S \in Nat /\ MaxWord \in Nat
  BY <1>1, CardanoTimeAssumption
<1> QED
  BY <1>1, <1>2, <1>3, <1>4 DEF k

(* The certificate of a provider is asked for: the payload's period fits,   *)
(* for it is one the clock has shown.                                       *)
certifiedAs(old, cert, abs) == [old EXCEPT !.pc = "sign", !.cert = cert, !.abs = abs]

isCertified(new, old, cert, abs) ==
  /\ new \in CallRecord /\ new.pc = "sign" /\ new.cert = cert /\ new.abs = abs
  /\ new.signer = old.signer /\ new.started = old.started /\ new.period = old.period
  /\ new.requested = old.requested /\ new.result = old.result

LEMMA CertifiedRecord ==
  ASSUME NEW old \in CallRecord, NEW cert \in Nat, NEW abs \in Nat
  PROVE  isCertified(certifiedAs(old, cert, abs), old, cert, abs)
BY Zenon DEF CallRecord, certifiedAs, isCertified

LEMMA CertificateStep ==
  ASSUME SigningInv, NEW c \in Callers, OperationalCertificate(c)
  PROVE  LET cert == signers[call[c].signer].cert
             new == certifiedAs(call[c], cert, atOf(c)) IN
         /\ call' = [call EXCEPT ![c] = new]
         /\ isCertified(new, call[c], cert, atOf(c))
         /\ kind \notin FileKinds /\ call[c].pc = "cert"
<1> DEFINE s == signers[signerOf(c)]
           new == certifiedAs(call[c], s.cert, atOf(c))
<1>1. /\ call[c].pc = "cert" /\ SignersInv /\ call \in [Callers -> CallRecord] /\ CallInv(c)
      /\ call[c] \in CallRecord /\ now \in Nat
      /\ network \in NetworkParams /\ network.slotsPerKESPeriod # 0
  BY Zenon DEF OperationalCertificate, SigningInv, SignersInv
<1>2. /\ certOf(c) \in Nat /\ certOf(c) = CertPeriod[s.cert] /\ s \in SignerRecord
  BY <1>1, PeriodTyped
<1>3. kind \notin FileKinds /\ Justified(c) /\ call[c].started \in 1..now /\ call[c].period \in Nat
  BY <1>1, Zenon DEF CallInv, CallRecord
<1>4. PICK t \in call[c].started..now :
        /\ Serves(network, certOf(c), t)
        /\ call[c].period = CurrentKESPeriodFor(network, t) - certOf(c)
  BY <1>1, <1>3, Zenon DEF Justified
<1>5. t \in Nat /\ CurrentKESPeriodFor(network, t) # Err
  <2>1. t \in Nat
    BY <1>1, <1>3
  <2> QED
    BY <2>1, <1>4, Zenon DEF Serves
<1>6. CurrentKESPeriodFor(network, t) \in Nat /\ CurrentKESPeriodFor(network, t) <= MaxWord
  BY <1>1, <1>5, PeriodFits, Zenon
<1>7. ~(call[c].period > MaxWord - certOf(c))
  BY <1>2, <1>3, <1>4, <1>6, CardanoTimeAssumption
<1>8. atOf(c) = CertPeriod[s.cert] + call[c].period /\ atOf(c) \in Nat
  BY <1>2, <1>3 DEF atOf
<1>9. s.cert \in Nat
  BY <1>2, SigningAssumption DEF SignerRecord, Versions
<1>10. call' = [call EXCEPT ![c].pc = "sign", ![c].cert = s.cert,
                            ![c].abs = CertPeriod[s.cert] + call[c].period]
  BY <1>2, <1>7, Zenon DEF OperationalCertificate
<1>11. call' = [call EXCEPT ![c] = new]
  BY <1>1, <1>8, <1>10, Zenon DEF certifiedAs
<1>12. isCertified(new, call[c], s.cert, atOf(c))
  BY <1>1, <1>8, <1>9, CertifiedRecord, Zenon
<1> QED
  BY <1>1, <1>3, <1>11, <1>12, Zenon DEF signerOf

LEMMA CertificateKeeps ==
  ASSUME SigningInv, NEW c \in Callers, OperationalCertificate(c) PROVE SigningInv'
<1> DEFINE cert == signers[call[c].signer].cert
           new == certifiedAs(call[c], cert, atOf(c))
<1>1. /\ call' = [call EXCEPT ![c] = new] /\ isCertified(new, call[c], cert, atOf(c))
      /\ kind \notin FileKinds /\ call[c].pc = "cert"
  BY CertificateStep
<1>2. /\ UNCHANGED <<kind, network, now, keyFile, certFile, signers, active, reload>>
      /\ SignersInv /\ call \in [Callers -> CallRecord] /\ CallInv(c)
  BY Zenon DEF OperationalCertificate, SigningInv
<1> HIDE DEF new
<1>3. /\ new \in CallRecord /\ new.pc = "sign" /\ new.cert = cert /\ new.abs = atOf(c)
      /\ new.signer = call[c].signer /\ new.started = call[c].started
      /\ new.period = call[c].period
  BY <1>1, Zenon DEF isCertified
<1>4. call'[c] = new
  BY <1>1, <1>2, Zenon
<1>5. SignersInv'
  BY <1>2 DEF SignersInv
<1>6. certOf(c)' = certOf(c) /\ atOf(c)' = atOf(c) /\ ~Signed(c)'
  BY <1>2, <1>3, <1>4, Zenon DEF certOf, atOf, Signed
<1>7. Justified(c)'
  <2> HIDE DEF Serves
  <2>1. Justified(c)
    BY <1>1, <1>2, Zenon DEF CallInv
  <2> QED
    BY <2>1, <1>1, <1>2, <1>3, <1>4, <1>6, Zenon DEF Justified
<1>8. CallInv(c)'
  BY <1>1, <1>2, <1>3, <1>4, <1>6, <1>7, Zenon DEF CallInv
<1> QED
  BY <1>1, <1>2, <1>3, <1>5, <1>8, OneCall, Zenon

(* The message is by a key that the loop has brought to the period the      *)
(* payload states, and by the one its certificate names.                    *)
LEMMA MessageMade ==
  ASSUME SigningInv, NEW c \in Callers, NEW rel \in Nat, call[c].pc = "sign",
         mayEvolve(signers[signerOf(c)].period, rel), succeed(c, rel)
  PROVE  LET s == signers[signerOf(c)] IN
         call' = [call EXCEPT ![c] = signedAs(call[c], rel, atOf(c), s.cert, s.key)]
<1> DEFINE s == signers[signerOf(c)]
           abs == IF kind \in FileKinds THEN call[c].period ELSE call[c].abs
<1>1. call \in [Callers -> CallRecord] /\ call[c] \in CallRecord /\ CallInv(c)
  BY Zenon DEF SigningInv
<1>2. s \in SignerRecord /\ s.period \in Nat
  BY PeriodTyped DEF SignerRecord
<1>3. signedPeriod(evolved(s.period, rel), rel) = rel
  BY <1>2 DEF signedPeriod, evolved, mayEvolve
<1>4. kind \notin FileKinds => s.cert = call[c].cert /\ call[c].abs = atOf(c)
  BY <1>1, Zenon DEF CallInv, signerOf
<1>5. abs = atOf(c)
  BY <1>4, Zenon DEF atOf
<1>6. call' = [call EXCEPT ![c].pc = "return", ![c].result = "ok", ![c].abs = abs,
                           ![c].cert = s.cert, ![c].vkey = s.key, ![c].rel = rel]
  BY <1>1, <1>3, <1>4, Zenon DEF succeed
<1> HIDE DEF s, abs
<1>7. call' = [call EXCEPT ![c] = [call[c] EXCEPT !.pc = "return", !.result = "ok", !.abs = abs,
                           !.cert = s.cert, !.vkey = s.key, !.rel = rel]]
  BY <1>1, <1>6, Zenon
<1>8. [call[c] EXCEPT !.pc = "return", !.result = "ok", !.abs = abs,
                      !.cert = s.cert, !.vkey = s.key, !.rel = rel]
      = signedAs(call[c], rel, abs, s.cert, s.key)
  BY <1>1, Zenon DEF signedAs, CallRecord
<1> QED
  BY <1>5, <1>7, <1>8, Zenon DEF s

(* A signature: the signer keeps its key and certificate, the message       *)
(* carries both.                                                            *)
LEMMA SignatureKeeps ==
  ASSUME SigningInv, NEW c \in Callers, NEW rel \in Nat, NEW moved \in Nat, NEW push \in BOOLEAN,
         call[c].pc = "sign", atOf(c) = certOf(c) + rel, rel < effectiveMax,
         mayEvolve(signers[signerOf(c)].period, rel),
         signers' = [signers EXCEPT ![signerOf(c)] = [@ EXCEPT !.period = moved, !.pushed = push]],
         succeed(c, rel),
         UNCHANGED <<kind, network, now, keyFile, certFile, active, reload>>
  PROVE  SigningInv'
<1> DEFINE i == signerOf(c)
           s == signers[i]
           moves == [s EXCEPT !.period = moved, !.pushed = push]
           new == signedAs(call[c], rel, atOf(c), s.cert, s.key)
<1>1. /\ SignersInv /\ call \in [Callers -> CallRecord] /\ call[c] \in CallRecord /\ CallInv(c)
      /\ signers \in Seq(SignerRecord)
  BY DEF SigningInv, SignersInv
<1>2. /\ certOf(c) \in Nat /\ certOf(c) = CertPeriod[s.cert] /\ i = call[c].signer
      /\ s \in SignerRecord /\ i \in DOMAIN signers /\ s.key = s.cert
  BY PeriodTyped DEF signerOf
<1>3. s.cert \in Nat /\ s.key \in Nat /\ atOf(c) \in Nat
  <2>1. Versions \subseteq Nat
    BY SigningAssumption DEF Versions
  <2> QED
    BY <2>1, <1>2 DEF SignerRecord
<1> HIDE DEF s
<1>4. moves \in SignerRecord /\ moves.cert = s.cert /\ moves.key = s.key
  BY <1>2, Zenon DEF SignerRecord
<1> HIDE DEF new
<1>5. /\ new \in CallRecord /\ new.pc = "return" /\ new.result = "ok"
      /\ new.signer = call[c].signer /\ new.started = call[c].started
      /\ new.rel = rel /\ new.abs = atOf(c) /\ new.cert = s.cert /\ new.vkey = s.key
  <2>1. isSigned(new, call[c], rel, atOf(c), s.cert, s.key)
    BY <1>1, <1>3, SignedRecord DEF new
  <2> QED
    BY <2>1 DEF isSigned
<1>6. signers' = [signers EXCEPT ![i] = moves]
  BY DEF s
<1>7. call' = [call EXCEPT ![c] = new]
  BY MessageMade, Zenon DEF s, new
<1> HIDE DEF moves, i
<1>8. call'[c] = new
  BY <1>1, <1>7
<1>9. /\ signers' \in Seq(SignerRecord) /\ DOMAIN signers' = DOMAIN signers
      /\ \A j \in DOMAIN signers : j # i => signers'[j] = signers[j]
      /\ signers'[i] = moves
  <2>1. signers \in [1..Len(signers) -> SignerRecord] /\ Len(signers) \in Nat
    BY <1>1
  <2>2. signers' \in [1..Len(signers) -> SignerRecord]
    BY <2>1, <1>4, <1>6, Zenon
  <2> QED
    BY <2>1, <2>2, <1>1, <1>2, <1>6
<1>10. \A j \in DOMAIN signers : signers'[j].cert = signers[j].cert /\ signers'[j].key = signers[j].key
  BY <1>4, <1>9 DEF s
<1>11. SignersInv'
  BY <1>1, <1>9, <1>10 DEF SignersInv
<1>12. certOf(c)' = certOf(c) /\ effectiveMax' = effectiveMax
  BY <1>2, <1>5, <1>8, <1>10 DEF certOf, effectiveMax
<1>13. call[c].started \in 1..now
  BY <1>1 DEF CallInv
<1>14. kind \notin FileKinds => Justified(c)'
  <2> HIDE DEF Serves
  <2>1. kind \notin FileKinds => \E t \in call[c].started..now : Serves(network, certOf(c), t)
    BY <1>1 DEF CallInv, Justified
  <2> QED
    BY <2>1, <1>5, <1>8, <1>12, Zenon DEF Justified, PeriodErrors
<1>15. CallInv(c)'
  BY <1>2, <1>5, <1>8, <1>9, <1>12, <1>13, <1>14 DEF CallInv
<1> QED
  BY <1>5, <1>7, <1>9, <1>10, <1>11, <1>15, OneCall, Zenon

LEMMA SignAtKeeps ==
  ASSUME SigningInv, NEW c \in Callers, SignAt(c) PROVE SigningInv'
<1> DEFINE i == signerOf(c)
           start == certOf(c)
           at == atOf(c)
           rel == at - start
<1>1. call[c].pc = "sign" /\ UNCHANGED <<kind, network, now, keyFile, certFile, active, reload>>
  BY Zenon DEF SignAt
<1>2. /\ start \in Nat /\ start = CertPeriod[signers[i].cert]
      /\ signers[i] \in SignerRecord /\ i \in DOMAIN signers
  BY <1>1, PeriodTyped
<1>3. call[c].period \in Nat /\ call[c].requested \in Nat /\ SignersInv /\ CallInv(c)
  BY DEF SigningInv, CallRecord
<1>4. /\ at \in Nat /\ (kind \notin FileKinds => rel = call[c].period)
      /\ rel = relativeKESPeriod(c) /\ (rel < 0 <=> at < start) /\ (rel >= 0 <=> at >= start)
  <2>1. at \in Nat /\ (kind \notin FileKinds => rel = call[c].period)
    BY <1>2, <1>3 DEF atOf
  <2>2. rel = relativeKESPeriod(c)
    BY <2>1, <1>2, Zenon DEF relativeKESPeriod, atOf
  <2> HIDE DEF at, start
  <2> QED
    BY <2>1, <2>2, <1>2
<1>5. kind \notin FileKinds => at >= start /\ withinValidity(rel, effectiveMax)
  <2> SUFFICES ASSUME kind \notin FileKinds PROVE at >= start /\ withinValidity(rel, effectiveMax)
    BY Zenon
  <2>1. PICK t \in call[c].started..now :
          /\ Serves(network, start, t)
          /\ call[c].period = CurrentKESPeriodFor(network, t) - start
    BY <1>1, <1>3 DEF CallInv, Justified
  <2>2. withinValidity(call[c].period, effectiveMax)
    BY <2>1 DEF Serves, effectiveMax
  <2> HIDE DEF start, at
  <2> QED
    BY <2>2, <1>2, <1>3, <1>4
<1>6. CASE /\ at >= start /\ mayEvolve(signers[i].period, rel) /\ withinValidity(rel, effectiveMax)
           /\ signers' = [signers EXCEPT ![i].period = evolved(@, rel),
                                        ![i].pushed = @ \/ call[c].requested # 0]
           /\ succeed(c, rel)
  <2> DEFINE moved == evolved(signers[i].period, rel)
             push == signers[i].pushed \/ call[c].requested # 0
  <2>1. rel \in Nat /\ at = start + rel
    BY <1>2, <1>4, <1>6
  <2>2. moved \in Nat
    BY <2>1, <1>2 DEF evolved, SignerRecord
  <2>3. push \in BOOLEAN
    OBVIOUS
  <2>4. rel < effectiveMax
    BY <1>6 DEF withinValidity
  <2>5. signers' = [signers EXCEPT ![i] = [@ EXCEPT !.period = moved, !.pushed = push]]
    BY <1>6, <1>2, Zenon
  <2> HIDE DEF rel, moved, push
  <2> QED
    BY <1>1, <1>6, <2>1, <2>2, <2>3, <2>4, <2>5, SignatureKeeps, Zenon
<1>7. ASSUME NEW r \in Results \ {"ok"}, fail(c, r), UNCHANGED signers,
             kind \notin FileKinds => r \notin PeriodErrors
      PROVE  SigningInv'
  BY <1>1, <1>7, RefusalKeeps
<1>8. \/ at < start /\ fail(c, "before certificate") /\ UNCHANGED signers
      \/ at >= start /\ ~mayEvolve(signers[i].period, rel) /\ fail(c, "backward") /\ UNCHANGED signers
      \/ at >= start /\ ~withinValidity(rel, effectiveMax) /\ fail(c, "past validity") /\ UNCHANGED signers
      \/ /\ at >= start /\ mayEvolve(signers[i].period, rel) /\ withinValidity(rel, effectiveMax)
         /\ signers' = [signers EXCEPT ![i].period = evolved(@, rel),
                                      ![i].pushed = @ \/ call[c].requested # 0]
         /\ succeed(c, rel)
  BY <1>4, Zenon DEF SignAt
<1>9. CASE at < start /\ fail(c, "before certificate") /\ UNCHANGED signers
  <2>1. kind \in FileKinds
    <3> HIDE DEF at, start
    <3>1. at \in Nat /\ start \in Nat /\ at < start
      BY <1>2, <1>4, <1>9, Zenon
    <3>2. ~(at >= start)
      BY <3>1, Z3
    <3> QED
      BY <3>2, <1>5
  <2> QED
    BY <2>1, <1>7, <1>9, Zenon DEF Results
<1>10. CASE at >= start /\ ~mayEvolve(signers[i].period, rel) /\ fail(c, "backward") /\ UNCHANGED signers
  BY <1>7, <1>10, Zenon DEF Results, PeriodErrors
<1>11. CASE at >= start /\ ~withinValidity(rel, effectiveMax) /\ fail(c, "past validity") /\ UNCHANGED signers
  BY <1>5, <1>7, <1>11, Zenon DEF Results
<1> QED
  BY <1>6, <1>8, <1>9, <1>10, <1>11, Zenon

LEMMA BeginKeeps ==
  ASSUME SigningInv, NEW c \in Callers, NEW requested \in Requested, Begin(c, requested)
  PROVE  SigningInv'
<1> DEFINE new == begunAs(NoCall, active, requested, now)
<1>1. /\ SignersInv /\ call \in [Callers -> CallRecord]
      /\ active \in DOMAIN signers /\ active \in Nat /\ now \in Nat \ {0} /\ requested \in Nat
  <2>1. SignersInv /\ call \in [Callers -> CallRecord] /\ signers \in Seq(SignerRecord)
        /\ active \in DOMAIN signers /\ now \in Nat \ {0}
    BY DEF SigningInv, SignersInv
  <2>2. active \in Nat
    BY <2>1
  <2> QED
    BY <2>1, <2>2, SigningAssumption
<1>2. NoCall \in CallRecord
  BY DEF NoCall, CallRecord, Results
<1>3. /\ call' = [call EXCEPT ![c] = new]
      /\ UNCHANGED <<kind, network, now, keyFile, certFile, signers, active, reload>>
  BY DEF Begin, begunAs
<1>4. new \in CallRecord /\ new.pc = "period" /\ new.signer = active /\ new.started = now
  <2>1. isBegun(new, active, now)
    BY <1>1, <1>2, BegunRecord
  <2> QED
    BY <2>1 DEF isBegun
<1> HIDE DEF new
<1>5. call'[c] = new
  BY <1>1, <1>3
<1>6. SignersInv'
  BY <1>1, <1>3 DEF SignersInv
<1>7. CallInv(c)'
  BY <1>1, <1>3, <1>4, <1>5 DEF CallInv, Justified, Signed
<1> QED
  BY <1>3, <1>4, <1>6, <1>7, OneCall, Zenon

LEMMA ReturnKeeps ==
  ASSUME SigningInv, NEW c \in Callers, Return(c) PROVE SigningInv'
<1>1. SignersInv /\ call \in [Callers -> CallRecord]
  BY DEF SigningInv
<1>2. NoCall \in CallRecord
  BY DEF NoCall, CallRecord, Results
<1>3. /\ call' = [call EXCEPT ![c] = NoCall] /\ call'[c].pc = "idle"
      /\ UNCHANGED <<kind, network, now, keyFile, certFile, signers, active, reload>>
  BY <1>1, Zenon DEF Return, NoCall
<1>4. SignersInv'
  BY <1>1, <1>3, Zenon DEF SignersInv
<1>5. CallInv(c)'
  BY <1>3 DEF CallInv, Justified, Signed
<1> QED
  BY <1>2, <1>3, <1>4, <1>5, OneCall, Zenon

LEMMA SigningStep == SigningInv /\ [Next]_vars => SigningInv'
<1> SUFFICES ASSUME SigningInv, [Next]_vars PROVE SigningInv'
  OBVIOUS
<1>1. CASE Tick \/ RotateKey \/ RotateCertificate
  BY <1>1, SurroundingsKeep
<1>2. ASSUME NEW r \in Reloaders, LoadKey(r) \/ LoadCertificate(r) \/ LoadFails(r) \/ Swap(r)
      PROVE  SigningInv'
  BY <1>2, ReloadKeeps
<1>3. ASSUME NEW c \in Callers, NEW requested \in Requested, Begin(c, requested)
      PROVE  SigningInv'
  BY <1>3, BeginKeeps
<1>4. ASSUME NEW c \in Callers, FilePeriod(c) PROVE SigningInv'
  BY <1>4, FilePeriodKeeps
<1>5. ASSUME NEW c \in Callers, CurrentPeriod(c) PROVE SigningInv'
  BY <1>5, CurrentPeriodKeeps
<1>6. ASSUME NEW c \in Callers, SignAt(c) PROVE SigningInv'
  BY <1>6, SignAtKeeps
<1>10. ASSUME NEW c \in Callers, OperationalCertificate(c) PROVE SigningInv'
  BY <1>10, CertificateKeeps
<1>7. ASSUME NEW c \in Callers, HelperFails(c) PROVE SigningInv'
  <2>1. /\ call[c].pc # "idle" /\ fail(c, "helper")
        /\ UNCHANGED <<kind, network, now, keyFile, certFile, signers, active, reload>>
    BY <1>7 DEF HelperFails
  <2>2. "helper" \in Results \ {"ok"} /\ "helper" \notin PeriodErrors
    BY DEF Results, PeriodErrors
  <2> QED
    BY <2>1, <2>2, RefusalKeeps
<1>8. ASSUME NEW c \in Callers, Return(c) PROVE SigningInv'
  BY <1>8, ReturnKeeps
<1>9. CASE UNCHANGED vars
  <2>1. SignersInv'
    BY <1>9 DEF vars, SigningInv, SignersInv
  <2> QED
    BY <2>1, <1>9, NoCallMoves DEF vars, SigningInv, SignersInv
<1> QED
  BY <1>1, <1>2, <1>3, <1>4, <1>5, <1>6, <1>7, <1>8, <1>9, <1>10 DEF Next

(* The inductive invariant holds of every behaviour: each signer that exists *)
(* has a key that matches its certificate, within its evolutions, and the    *)
(* clock has shown the period that each call holds (src/reloading.go,        *)
(* src/signer.go, src/kes_payload.go).                                       *)
THEOREM SigningInvariant == Spec => []SigningInv
  BY SigningInit, SigningStep, PTL DEF Spec

(* Every message that Sign returns verifies: it is by the key its           *)
(* certificate names, at the period it states, within the key's evolutions  *)
(* (src/kes_payload.go:782-835, src/signer.go:130-171).                     *)
THEOREM MessagesConsistent == Spec => []MessageConsistent
<1>1. SigningInv => MessageConsistent
  BY DEF SigningInv, CallInv, MessageConsistent
<1> QED
  BY <1>1, SigningInvariant, PTL

(* Whatever network the signer runs on, the clock reaches a KES period when *)
(* KESPeriodStart says (src/cardano.go:159-168, 215-233).                   *)
THEOREM BoundariesExact == Spec => []PeriodBoundaries
<1>1. SigningInv => PeriodBoundaries
  <2> SUFFICES ASSUME SigningInv, NEW at \in 0..MaxWord PROVE PeriodBoundary(network, now, at)
    BY DEF PeriodBoundaries
  <2>1. network \in NetworkParams /\ network.slotsPerKESPeriod # 0 /\ now \in Nat
    BY DEF SigningInv, SignersInv
  <2> QED
    BY <2>1, BoundaryExact, CardanoTimeAssumption
<1> QED
  BY <1>1, SigningInvariant, PTL

(* A provider serves until the ExpiresAt of any status reported before, and *)
(* not after (src/kes_payload.go:414-452, 694-707).                         *)
THEOREM StatusExact == Spec => []StatusForetells
<1>1. ASSUME SigningInv, NEW c \in Callers, call[c].pc = "return", kind \notin FileKinds,
             NEW t \in 1..call[c].started,
             CredentialExpiresAt(network, certOf(c), t) \notin {Err, ZeroTime}
      PROVE  LET expires == CredentialExpiresAt(network, certOf(c), t) IN
             /\ now < expires => call[c].result \notin PeriodErrors
             /\ expires <= call[c].started => call[c].result # "ok"
  <2> DEFINE expires == CredentialExpiresAt(network, certOf(c), t)
  <2>1. /\ network \in NetworkParams /\ network.slotsPerKESPeriod # 0 /\ now \in Nat
        /\ call[c].started \in 1..now /\ Justified(c)
    BY <1>1 DEF SigningInv, SignersInv, CallInv
  <2>2. certOf(c) \in Nat /\ t \in Nat
    BY <1>1, <2>1, PeriodTyped
  <2>3. expires \in Int
    <3>1. expires = KESPeriodStart(network, certOf(c) + effectiveMaxKESEvolutions(network))
          /\ effectiveMaxKESEvolutions(network) \in Nat
      BY <1>1, <2>1, <2>2, ExpiryPeriod
    <3>2. slotLengthOf(network) \in Int
      BY <2>1, CardanoTimeAssumption DEF NetworkParams, slotLengthOf
    <3> QED
      BY <3>1, <3>2, <2>1, <2>2, CardanoTimeAssumption DEF KESPeriodStart, NetworkParams, ZeroTime
  <2>4. ASSUME NEW u \in call[c].started..now PROVE Serves(network, certOf(c), u) <=> u < expires
    <3>1. u \in Nat /\ t <= u
      BY <2>1, <2>2
    <3> QED
      BY <3>1, <1>1, <2>1, <2>2, ExpiryExact
  <2> HIDE DEF expires
  <2>5. ASSUME now < expires, call[c].result \in PeriodErrors PROVE FALSE
    <3>1. PICK u \in call[c].started..now : ~Serves(network, certOf(c), u)
      BY <1>1, <2>1, <2>5 DEF Justified
    <3>2. u < expires
      BY <2>1, <2>3, <2>5
    <3> QED
      BY <3>1, <3>2, <2>4
  <2>6. ASSUME expires <= call[c].started, call[c].result = "ok" PROVE FALSE
    <3>1. PICK u \in call[c].started..now : Serves(network, certOf(c), u)
      BY <1>1, <2>1, <2>6 DEF Justified, Signed
    <3>2. ~(u < expires)
      BY <2>1, <2>3, <2>6
    <3> QED
      BY <3>1, <3>2, <2>4
  <2> QED
    BY <2>5, <2>6 DEF expires
<1>2. SigningInv => StatusForetells
  BY <1>1, Zenon DEF StatusForetells, PeriodErrors, certOf
<1> QED
  BY <1>2, SigningInvariant, PTL

-----------------------------------------------------------------------------
(* Where the periods come from. *)

(* The clock showed period k at some instant of an interval; the period     *)
(* changed in it.                                                           *)
Shown(n, from, to, k) == \E t \in from..to : CurrentKESPeriodFor(n, t) = k

Crossed(n, from, to) ==
  \E t \in from..to : CurrentKESPeriodFor(n, t) # CurrentKESPeriodFor(n, from)

(* A key has moved to a period within its evolutions, and to none but one   *)
(* the clock has shown, or the signer's default, unless a payload brought   *)
(* its own.                                                                 *)
SignerRead(i) ==
  /\ signers[i].period < effectiveMax
  /\ ~signers[i].pushed /\ signers[i].period # 0 =>
       LET at == CertPeriod[signers[i].cert] + signers[i].period IN
         IF kind \in DefaultKinds THEN at = defaultKESPeriod(signers[i]) ELSE Shown(network, 1, now, at)

CallRead(c) ==
  /\ call[c].pc = "idle" => call[c].result # "backward"
  /\ call[c].pc \in {"cert", "sign"} /\ call[c].requested = 0 =>
       IF kind \in DefaultKinds THEN call[c].period = defaultKESPeriod(signers[call[c].signer])
       ELSE Shown(network, call[c].started, now, atOf(c))
  /\ Signed(c) /\ call[c].requested = 0 /\ kind \notin DefaultKinds =>
       Shown(network, call[c].started, now, call[c].abs)
  /\ call[c].result = "backward" /\ call[c].requested = 0 =>
       Crossed(network, call[c].started, now) \/ signers[call[c].signer].pushed

Bounds == now <= MaxNow /\ loads \in 0..MaxLoads

ReadInv ==
  /\ Bounds
  /\ \A i \in DOMAIN signers : SignerRead(i)
  /\ \A c \in Callers : CallRead(c)

LEMMA ShownLater ==
  ASSUME NEW n, NEW k, NEW from \in Nat, NEW to \in Nat, NEW later \in Nat, to <= later
  PROVE  /\ Shown(n, from, to, k) => Shown(n, from, later, k)
         /\ Crossed(n, from, to) => Crossed(n, from, later)
<1>1. \A t \in from..to : t \in from..later
  OBVIOUS
<1> QED
  BY <1>1, Zenon DEF Shown, Crossed

(* A call that does not move keeps its part of the invariant. *)
LEMMA CallReadKept ==
  ASSUME SigningInv, NEW c \in Callers, CallRead(c),
         call'[c] = call[c], kind' = kind, network' = network,
         now' \in Nat, now' >= now,
         \A i \in DOMAIN signers :
           signers'[i].cert = signers[i].cert /\ (signers[i].pushed => signers'[i].pushed)
  PROVE  CallRead(c)'
<1>1. CallInv(c) /\ now \in Nat /\ call[c] \in CallRecord
  BY Zenon DEF SigningInv, SignersInv
<1>2. CASE call[c].pc = "idle"
  BY <1>2, Zenon DEF CallRead, Signed
<1>3. CASE call[c].pc # "idle"
  <2>1. call[c].signer \in DOMAIN signers /\ call[c].started \in Nat /\ now <= now'
    BY <1>1, <1>3 DEF CallInv
  <2>2. /\ certOf(c)' = certOf(c) /\ atOf(c)' = atOf(c) /\ Signed(c)' = Signed(c)
        /\ defaultKESPeriod(signers[call[c].signer])' = defaultKESPeriod(signers[call[c].signer])
    BY Zenon, <2>1 DEF certOf, atOf, Signed, defaultKESPeriod
  <2>3. signers[call[c].signer].pushed => signers'[call'[c].signer].pushed
    BY Zenon, <2>1
  <2>4. /\ \A k : Shown(network, call[c].started, now, k) => Shown(network, call[c].started, now', k)
        /\ Crossed(network, call[c].started, now) => Crossed(network, call[c].started, now')
    BY Zenon, <2>1, <1>1, ShownLater
  <2> QED
    BY <2>2, <2>3, <2>4, Zenon DEF CallRead
<1> QED
  BY Zenon, <1>2, <1>3

LEMMA SignerReadKept ==
  ASSUME SigningInv, NEW i \in DOMAIN signers, SignerRead(i),
         signers'[i] = signers[i], kind' = kind, network' = network, now' \in Nat, now' >= now
  PROVE  SignerRead(i)'
<1>1. now \in Nat /\ 1 \in Nat /\ now <= now'
  BY Zenon DEF SigningInv, SignersInv
<1>2. \A k : Shown(network, 1, now, k) => Shown(network, 1, now', k)
  BY Zenon, <1>1, ShownLater
<1>3. effectiveMax' = effectiveMax /\ defaultKESPeriod(signers[i])' = defaultKESPeriod(signers[i])
  BY Zenon DEF effectiveMax, defaultKESPeriod
<1> QED
  BY <1>2, <1>3, Zenon DEF SignerRead

(* A step that leaves the signers alone, and at most one call moves. *)
LEMMA ReadKept ==
  ASSUME SigningInv, ReadInv, Bounds', kind' = kind, network' = network,
         now' \in Nat, now' >= now, signers' = signers,
         NEW S \in SUBSET Callers,
         \A d \in Callers \ S : call'[d] = call[d],
         \A d \in S : CallRead(d)'
  PROVE  ReadInv'
<1>1. \A i \in DOMAIN signers' : SignerRead(i)'
  BY Zenon, SignerReadKept DEF ReadInv
<1>2. \A d \in Callers \ S : CallRead(d)'
  BY Zenon, CallReadKept DEF ReadInv
<1> QED
  BY Zenon, <1>1, <1>2 DEF ReadInv

(* The largest relative period is not 0: a key can sign in its first. *)
LEMMA EvolutionsPositive ==
  ASSUME SigningInv PROVE effectiveMax \in Nat /\ 0 < effectiveMax
<1>1. network \in NetworkParams
  BY Zenon DEF SigningInv, SignersInv
<1>2. network.maxKESEvolutions \in Nat
  BY Zenon, <1>1 DEF NetworkParams
<1> QED
  BY <1>2, CardanoTimeAssumption DEF effectiveMax, effectiveMaxKESEvolutions

LEMMA ReadInit == Init => ReadInv
<1> SUFFICES ASSUME Init PROVE ReadInv
  BY Zenon
<1>1. Bounds
  BY SigningAssumption DEF Init, Bounds, Versions
<1>2. \A i \in DOMAIN signers : SignerRead(i)
  <2>1. 0 < effectiveMax
    BY Zenon, SigningInit, EvolutionsPositive
  <2>2. \A i \in DOMAIN signers : signers[i].period = 0
    BY DEF Init, NewSigner
  <2> QED
    BY Zenon, <2>1, <2>2 DEF SignerRead
<1>3. \A c \in Callers : CallRead(c)
  BY Zenon DEF Init, NoCall, CallRead, Signed
<1> QED
  BY Zenon, <1>1, <1>2, <1>3 DEF ReadInv

LEMMA SurroundingsRead ==
  ASSUME SigningInv, ReadInv,
         \/ Tick \/ RotateKey \/ RotateCertificate \/ UNCHANGED vars
         \/ \E r \in Reloaders : LoadKey(r) \/ LoadFails(r) \/ Swap(r)
  PROVE  ReadInv'
<1>0. now \in Nat /\ Bounds
  BY Zenon DEF SigningInv, SignersInv, ReadInv
<1>1. /\ Bounds' /\ call' = call /\ kind' = kind /\ network' = network
      /\ now' \in Nat /\ now' >= now /\ signers' = signers
  <2>1. CASE Tick
    BY <2>1, <1>0, SigningAssumption DEF Tick, Bounds
  <2>2. CASE RotateKey \/ RotateCertificate \/ UNCHANGED vars
    BY <2>2, <1>0 DEF RotateKey, RotateCertificate, vars, Bounds
  <2>3. ASSUME NEW r \in Reloaders, LoadKey(r) PROVE <1>1!:
    BY <2>3, <1>0, SigningAssumption DEF LoadKey, Bounds
  <2>4. ASSUME NEW r \in Reloaders, LoadFails(r) PROVE <1>1!:
    BY <2>4, <1>0 DEF LoadFails, Bounds
  <2>5. ASSUME NEW r \in Reloaders, Swap(r) PROVE <1>1!:
    BY <2>5, <1>0 DEF Swap, Bounds
  <2> QED
    BY Zenon, <2>1, <2>2, <2>3, <2>4, <2>5
<1>2. {} \in SUBSET Callers /\ \A d \in Callers \ {} : call'[d] = call[d]
  BY Zenon, <1>1
<1> QED
  BY <1>1, <1>2, ReadKept, Zenon

LEMMA LoadCertificateRead ==
  ASSUME SigningInv, ReadInv, NEW r \in Reloaders, LoadCertificate(r) PROVE ReadInv'
<1> DEFINE key == IF kind = "external" THEN certFile ELSE reload[r].key
           new == NewSigner(key, certFile)
<1>1. /\ signers' = Append(signers, new) /\ signers \in Seq(SignerRecord) /\ now \in Nat
      /\ UNCHANGED <<kind, network, now, loads, call>>
  BY Zenon DEF LoadCertificate, SigningInv, SignersInv
<1>2. new.period = 0
  BY Zenon DEF NewSigner
<1> HIDE DEF new
<1>3. /\ \A i \in DOMAIN signers : i \in DOMAIN signers' /\ signers'[i] = signers[i]
      /\ \A i \in DOMAIN signers' : i \in DOMAIN signers \/ signers'[i] = new
  BY <1>1
<1>4. now' \in Nat /\ now' >= now
  BY <1>1
<1>5. \A i \in DOMAIN signers' : SignerRead(i)'
  <2>1. ASSUME NEW i \in DOMAIN signers', i \in DOMAIN signers PROVE SignerRead(i)'
    BY Zenon, <2>1, <1>1, <1>3, <1>4, SignerReadKept DEF ReadInv
  <2>2. ASSUME NEW i \in DOMAIN signers', signers'[i] = new PROVE SignerRead(i)'
    <3>1. effectiveMax' = effectiveMax /\ 0 < effectiveMax
      BY Zenon, <1>1, EvolutionsPositive DEF effectiveMax
    <3> QED
      BY Zenon, <2>2, <3>1, <1>2 DEF SignerRead
  <2> QED
    BY Zenon, <1>3, <2>1, <2>2
<1>6. ASSUME NEW c \in Callers PROVE CallRead(c)'
  BY Zenon, <1>1, <1>3, <1>4, CallReadKept DEF ReadInv
<1> QED
  BY Zenon, <1>1, <1>5, <1>6 DEF ReadInv, Bounds

(* One call moves and nothing else does. *)
LEMMA OneCallRead ==
  ASSUME SigningInv, ReadInv, NEW c \in Callers, NEW new,
         call' = [call EXCEPT ![c] = new],
         UNCHANGED <<kind, network, now, signers, loads>>,
         CallRead(c)'
  PROVE  ReadInv'
<1>1. call \in [Callers -> CallRecord] /\ now' \in Nat /\ now' >= now
  BY DEF SigningInv, SignersInv
<1>2. {c} \in SUBSET Callers /\ \A d \in Callers \ {c} : call'[d] = call[d]
  BY Zenon, <1>1
<1>3. Bounds'
  BY Zenon DEF ReadInv, Bounds
<1> QED
  BY <1>1, <1>2, <1>3, ReadKept, Zenon

LEMMA BeginReturnRead ==
  ASSUME SigningInv, ReadInv, NEW c \in Callers,
         (\E requested \in Requested : Begin(c, requested)) \/ Return(c)
  PROVE  ReadInv'
<1>1. call \in [Callers -> CallRecord]
  BY Zenon DEF SigningInv
<1>2. ASSUME NEW requested \in Requested, Begin(c, requested) PROVE ReadInv'
  <2> DEFINE new == begunAs(NoCall, active, requested, now)
  <2>1. /\ call' = [call EXCEPT ![c] = new]
        /\ UNCHANGED <<kind, network, now, signers, loads>>
    BY <1>2, Zenon DEF Begin, begunAs
  <2>2. new.pc = "period" /\ new.result = "none"
    BY Zenon DEF begunAs, NoCall
  <2> HIDE DEF new
  <2>3. call'[c] = new
    BY Zenon, <1>1, <2>1
  <2>4. CallRead(c)'
    BY Zenon, <2>2, <2>3 DEF CallRead, Signed
  <2> QED
    BY <2>1, <2>4, OneCallRead, Zenon
<1>3. CASE Return(c)
  <2>1. /\ call' = [call EXCEPT ![c] = NoCall]
        /\ UNCHANGED <<kind, network, now, signers, loads>>
    BY Zenon, <1>3 DEF Return
  <2>2. call'[c].pc = "idle" /\ call'[c].result = "none"
    BY Zenon, <1>1, <2>1 DEF NoCall
  <2>3. CallRead(c)'
    BY Zenon, <2>2 DEF CallRead, Signed
  <2> QED
    BY <2>1, <2>3, OneCallRead, Zenon
<1> QED
  BY Zenon, <1>2, <1>3

LEMMA RefusalRead ==
  ASSUME SigningInv, ReadInv, NEW c \in Callers, NEW r \in Results \ {"ok"}, fail(c, r),
         UNCHANGED <<kind, network, now, signers, loads>>,
         r = "backward" /\ call[c].requested = 0 =>
           Crossed(network, call[c].started, now) \/ signers[call[c].signer].pushed
  PROVE  ReadInv'
<1> DEFINE new == [call[c] EXCEPT !.pc = "return", !.result = r]
<1>1. call \in [Callers -> CallRecord] /\ call[c] \in CallRecord
  BY Zenon DEF SigningInv
<1>2. call' = [call EXCEPT ![c] = new]
  BY <1>1, Zenon DEF fail
<1>3. /\ new.pc = "return" /\ new.result = r /\ new.requested = call[c].requested
      /\ new.signer = call[c].signer /\ new.started = call[c].started
  BY <1>1, Zenon DEF CallRecord
<1> HIDE DEF new
<1>4. call'[c] = new
  BY Zenon, <1>1, <1>2
<1>5. CallRead(c)'
  BY <1>3, <1>4, Zenon DEF CallRead, Signed
<1> QED
  BY <1>2, <1>5, OneCallRead, Zenon

LEMMA PeriodRead ==
  ASSUME SigningInv, ReadInv, NEW c \in Callers, NEW k \in Nat, NEW pc \in {"cert", "sign"},
         call[c].pc # "idle", call' = [call EXCEPT ![c].pc = pc, ![c].period = k],
         UNCHANGED <<kind, network, now, signers, loads>>,
         call[c].requested = 0 =>
           IF kind \in DefaultKinds THEN k = defaultKESPeriod(signers[call[c].signer])
           ELSE IF kind = "file" THEN k = CurrentKESPeriodFor(network, now)
           ELSE certOf(c) + k = CurrentKESPeriodFor(network, now)
  PROVE  ReadInv'
<1> DEFINE new == [call[c] EXCEPT !.pc = pc, !.period = k]
<1>1. call \in [Callers -> CallRecord] /\ call[c] \in CallRecord /\ CallInv(c) /\ CallRead(c)
      /\ now \in Nat
  BY Zenon DEF SigningInv, SignersInv, ReadInv
<1>2. call' = [call EXCEPT ![c] = new]
  BY <1>1, Zenon
<1>3. /\ new.pc = pc /\ new.period = k /\ new.requested = call[c].requested
      /\ new.signer = call[c].signer /\ new.started = call[c].started
      /\ new.result = call[c].result
  BY <1>1, Zenon DEF CallRecord
<1> HIDE DEF new
<1>4. call'[c] = new
  BY <1>1, <1>2, Zenon
<1>5. /\ certOf(c)' = certOf(c)
      /\ defaultKESPeriod(signers[call[c].signer])' = defaultKESPeriod(signers[call[c].signer])
  <2>1. kind' = kind /\ signers'[call'[c].signer] = signers[call[c].signer]
    BY Zenon, <1>3, <1>4
  <2> QED
    BY <2>1 DEF certOf, defaultKESPeriod
<1>6. atOf(c)' = IF kind \in FileKinds THEN k ELSE certOf(c) + k
  <2>1. kind' = kind /\ call'[c].period = k
    BY Zenon, <1>3, <1>4
  <2> QED
    BY <2>1, <1>5 DEF atOf
<1>7. now \in call[c].started..now
  BY <1>1 DEF CallInv
<1>8. call[c].requested = 0 /\ kind \notin DefaultKinds =>
        Shown(network, call[c].started, now, atOf(c)')
  BY Zenon, <1>6, <1>7 DEF Shown, FileKinds
<1>9. CallRead(c)'
  BY <1>1, <1>3, <1>4, <1>5, <1>8, Zenon DEF CallRead, Signed
<1> QED
  BY <1>2, <1>9, OneCallRead, Zenon

LEMMA FilePeriodRead ==
  ASSUME SigningInv, ReadInv, NEW c \in Callers, FilePeriod(c) PROVE ReadInv'
<1> DEFINE default == defaultKESPeriod(signers[call[c].signer])
           k == IF call[c].requested # 0 THEN call[c].requested
                ELSE IF kind = "file" THEN period
                ELSE default
<1>1. /\ call[c].pc # "idle" /\ kind \in FileKinds /\ call[c].requested \in Nat
      /\ UNCHANGED <<kind, network, now, signers, loads>>
  BY Zenon DEF FilePeriod, SigningInv, CallRecord
<1>2. /\ period \in Nat \/ period = Err
      /\ default \in Nat /\ default = defaultKESPeriod(signers[signerOf(c)])
  BY <1>1, PeriodTyped, SigningAssumption DEF defaultKESPeriod, signerOf
<1> HIDE DEF default
<1>3. CASE call[c].requested = 0 /\ kind = "file" /\ period = Err /\ fail(c, "no period")
  BY <1>1, <1>3, RefusalRead, Zenon DEF Results
<1>4. CASE /\ call[c].requested # 0 \/ kind \in DefaultKinds \/ period # Err
           /\ call' = [call EXCEPT ![c].pc = "sign", ![c].period = k]
  <2>1. k \in Nat
    BY Zenon, <1>1, <1>2, <1>4 DEF FileKinds, DefaultKinds
  <2>2. call[c].requested = 0 =>
          IF kind \in DefaultKinds THEN k = default
          ELSE IF kind = "file" THEN k = CurrentKESPeriodFor(network, now)
          ELSE certOf(c) + k = CurrentKESPeriodFor(network, now)
    BY Zenon, <1>1, <1>2 DEF FileKinds, DefaultKinds, period
  <2> HIDE DEF k
  <2> QED
    BY <1>1, <1>4, <2>1, <2>2, PeriodRead, Zenon DEF default
<1> QED
  BY <1>2, <1>3, <1>4, Zenon DEF FilePeriod

LEMMA CurrentPeriodRead ==
  ASSUME SigningInv, ReadInv, NEW c \in Callers, CurrentPeriod(c) PROVE ReadInv'
<1> DEFINE start == CertPeriod[signers[signerOf(c)].cert]
<1>1. /\ call[c].pc # "idle" /\ kind \notin FileKinds
      /\ UNCHANGED <<kind, network, now, signers, loads>>
  BY Zenon DEF CurrentPeriod
<1>2. (period \in Nat \/ period = Err) /\ start \in Nat /\ certOf(c) = start
  BY <1>1, PeriodTyped, Zenon
<1>3. ASSUME NEW r \in {"no period", "before certificate", "past validity"}, fail(c, r)
      PROVE  ReadInv'
  <2>1. r \in Results \ {"ok"} /\ r # "backward"
    BY Zenon DEF Results
  <2> QED
    BY <2>1, <1>1, <1>3, RefusalRead, Zenon
<1>4. CASE /\ period >= start
           /\ call' = [call EXCEPT ![c].pc = "cert", ![c].period = period - start]
  <2> DEFINE k == period - start
  <2>1. k \in Nat /\ start + k = period
    BY <1>2, <1>4 DEF Err
  <2>2. start + k = CurrentKESPeriodFor(network, now) /\ kind \notin DefaultKinds /\ kind # "file"
    BY Zenon, <2>1, <1>1 DEF period, FileKinds
  <2>3. call' = [call EXCEPT ![c].pc = "cert", ![c].period = k]
    BY Zenon, <1>4
  <2> HIDE DEF k, start
  <2> QED
    BY <1>1, <1>2, <2>1, <2>2, <2>3, PeriodRead, Zenon
<1> QED
  BY <1>3, <1>4, Zenon DEF CurrentPeriod

(* A key that refuses to go back to the period a call read is at a later    *)
(* one, which the clock reached while the call ran.                         *)
LEMMA BackwardRead ==
  ASSUME SigningInv, ReadInv, NEW c \in Callers, call[c].pc = "sign", call[c].requested = 0,
         atOf(c) >= certOf(c),
         ~mayEvolve(signers[signerOf(c)].period, atOf(c) - certOf(c))
  PROVE  Crossed(network, call[c].started, now) \/ signers[call[c].signer].pushed
<1> DEFINE i == signerOf(c)
           at == atOf(c)
           ahead == certOf(c) + signers[i].period
           K(t) == CurrentKESPeriodFor(network, t)
<1> SUFFICES ASSUME ~signers[i].pushed PROVE Crossed(network, call[c].started, now)
  BY Zenon DEF signerOf
<1>1. /\ network \in NetworkParams /\ network.slotsPerKESPeriod # 0 /\ now \in Nat
      /\ call[c].started \in 1..now /\ call[c].period \in Nat
  BY Zenon DEF SigningInv, SignersInv, CallInv, CallRecord
<1>2. /\ certOf(c) \in Nat /\ certOf(c) = CertPeriod[signers[i].cert]
      /\ signers[i] \in SignerRecord /\ i \in DOMAIN signers
  BY PeriodTyped, Zenon
<1>3. signers[i].period \in Nat
  BY Zenon, <1>2 DEF SignerRecord
<1>4. at \in Nat
  BY <1>1, <1>2 DEF atOf
<1>5. at < ahead /\ signers[i].period # 0
  <2> HIDE DEF at, i
  <2>1. ~(signers[i].period <= at - certOf(c)) /\ at >= certOf(c)
    BY Zenon DEF mayEvolve, at, i
  <2> QED
    BY <2>1, <1>2, <1>3, <1>4
<1>6. SignerRead(i) /\ CallRead(c)
  BY Zenon, <1>2 DEF ReadInv
<1>7. kind \notin DefaultKinds
  <2> SUFFICES ASSUME kind \in DefaultKinds PROVE FALSE
    BY Zenon
  <2>1. ahead = defaultKESPeriod(signers[i])
    BY Zenon, <1>2, <1>5, <1>6 DEF SignerRead
  <2>2. at = defaultKESPeriod(signers[i])
    BY Zenon, <1>6 DEF CallRead, atOf, FileKinds, signerOf
  <2> HIDE DEF at, ahead
  <2> QED
    BY <2>1, <2>2, <1>4, <1>5
<1>8. Shown(network, 1, now, ahead) /\ Shown(network, call[c].started, now, at)
  BY Zenon, <1>2, <1>5, <1>6, <1>7 DEF SignerRead, CallRead
<1> HIDE DEF at, ahead
<1>9. PICK u \in 1..now : K(u) = ahead
  BY Zenon, <1>8 DEF Shown
<1>10. PICK t \in call[c].started..now : K(t) = at
  BY Zenon, <1>8 DEF Shown
<1>11. t \in Nat /\ u \in Nat /\ ahead \in Nat /\ K(t) # Err /\ K(u) # Err
  BY <1>1, <1>2, <1>3, <1>4, <1>9, <1>10 DEF Err, ahead
<1> HIDE DEF K
<1>12. ~(u <= t)
  <2> SUFFICES ASSUME u <= t PROVE FALSE
    BY Zenon
  <2>1. K(u) <= K(t)
    BY Zenon, <1>1, <1>11, PeriodMonotone DEF K
  <2> QED
    BY <2>1, <1>4, <1>5, <1>9, <1>10, <1>11
<1>13. u \in call[c].started..now
  BY <1>1, <1>10, <1>11, <1>12
<1>14. K(u) # K(t)
  BY <1>4, <1>5, <1>9, <1>10, <1>11
<1> QED
  BY <1>10, <1>13, <1>14, Zenon DEF Crossed, K

LEMMA CertificateRead ==
  ASSUME SigningInv, ReadInv, NEW c \in Callers, OperationalCertificate(c) PROVE ReadInv'
<1> DEFINE cert == signers[call[c].signer].cert
           new == certifiedAs(call[c], cert, atOf(c))
<1>1. /\ call' = [call EXCEPT ![c] = new] /\ isCertified(new, call[c], cert, atOf(c))
      /\ call[c].pc = "cert"
  BY CertificateStep
<1>2. /\ UNCHANGED <<kind, network, now, signers, loads>>
      /\ call \in [Callers -> CallRecord] /\ CallRead(c)
  BY Zenon DEF OperationalCertificate, SigningInv, ReadInv
<1> HIDE DEF new
<1>3. /\ new.pc = "sign" /\ new.requested = call[c].requested /\ new.result = call[c].result
      /\ new.signer = call[c].signer /\ new.started = call[c].started
      /\ new.period = call[c].period
  BY <1>1, Zenon DEF isCertified
<1>4. call'[c] = new
  BY <1>1, <1>2, Zenon
<1>5. /\ atOf(c)' = atOf(c) /\ ~Signed(c)'
      /\ defaultKESPeriod(signers[call[c].signer])' = defaultKESPeriod(signers[call[c].signer])
  BY <1>2, <1>3, <1>4, Zenon DEF certOf, atOf, Signed, defaultKESPeriod
<1>6. CallRead(c)'
  BY <1>1, <1>2, <1>3, <1>4, <1>5, Zenon DEF CallRead
<1> QED
  BY <1>1, <1>2, <1>6, OneCallRead, Zenon

LEMMA SignatureRead ==
  ASSUME SigningInv, ReadInv, NEW c \in Callers, NEW rel \in Nat, NEW moved \in Nat, NEW push \in BOOLEAN,
         call[c].pc = "sign", atOf(c) = certOf(c) + rel, rel < effectiveMax,
         mayEvolve(signers[signerOf(c)].period, rel),
         moved = evolved(signers[signerOf(c)].period, rel),
         push <=> signers[signerOf(c)].pushed \/ call[c].requested # 0,
         signers' = [signers EXCEPT ![signerOf(c)] = [@ EXCEPT !.period = moved, !.pushed = push]],
         succeed(c, rel),
         UNCHANGED <<kind, network, now, loads>>
  PROVE  ReadInv'
<1> DEFINE i == signerOf(c)
           s == signers[i]
           moves == [s EXCEPT !.period = moved, !.pushed = push]
           new == signedAs(call[c], rel, atOf(c), s.cert, s.key)
           shown == Shown(network, call[c].started, now, atOf(c))
<1>1. /\ call \in [Callers -> CallRecord] /\ call[c] \in CallRecord /\ CallRead(c)
      /\ signers \in Seq(SignerRecord) /\ now \in Nat /\ call[c].started \in 1..now
      /\ call[c].period \in Nat
  BY Zenon DEF SigningInv, SignersInv, ReadInv, CallInv, CallRecord
<1>2. /\ certOf(c) \in Nat /\ certOf(c) = CertPeriod[s.cert] /\ i = call[c].signer
      /\ s \in SignerRecord /\ i \in DOMAIN signers
  BY Zenon, PeriodTyped DEF signerOf
<1>3. SignerRead(i)
  BY Zenon, <1>2 DEF ReadInv
<1>4. call[c].requested = 0 =>
        IF kind \in DefaultKinds THEN atOf(c) = defaultKESPeriod(s) ELSE shown
  BY Zenon, <1>1, <1>2 DEF CallRead, atOf, FileKinds
<1> HIDE DEF s
<1>5. /\ moves.cert = s.cert /\ moves.period = moved /\ moves.pushed = push
      /\ (s.pushed => moves.pushed) /\ s.period \in Nat
  BY <1>2, Zenon DEF SignerRecord, s
<1>6. /\ new.pc = "return" /\ new.result = "ok" /\ new.requested = call[c].requested
      /\ new.started = call[c].started /\ new.abs = atOf(c)
  BY <1>1, Zenon DEF CallRecord, signedAs
<1>7. signers' = [signers EXCEPT ![i] = moves]
  BY Zenon DEF s
<1>8. call' = [call EXCEPT ![c] = new]
  BY MessageMade, Zenon DEF s, new
<1> HIDE DEF moves, i, new, shown
<1>9. call'[c] = new /\ \A d \in Callers \ {c} : call'[d] = call[d]
  BY Zenon, <1>1, <1>8
<1>10. /\ DOMAIN signers' = DOMAIN signers
       /\ \A j \in DOMAIN signers : j # i => signers'[j] = signers[j]
       /\ signers'[i] = moves
  BY Zenon, <1>1, <1>2, <1>7
<1>11. \A j \in DOMAIN signers :
         signers'[j].cert = signers[j].cert /\ (signers[j].pushed => signers'[j].pushed)
  BY Zenon, <1>5, <1>10 DEF s
<1>12. now' \in Nat /\ now' >= now
  BY <1>1
<1>13. ASSUME NEW d \in Callers PROVE CallRead(d)'
  <2>1. CASE d # c
    BY <2>1, <1>9, <1>11, <1>12, CallReadKept, Zenon DEF ReadInv
  <2>2. CASE d = c
    BY <2>2, <1>4, <1>6, <1>9, Zenon DEF CallRead, Signed, shown
  <2> QED
    BY Zenon, <2>1, <2>2
<1>14. ASSUME NEW j \in DOMAIN signers', j = i PROVE SignerRead(j)'
  <2>1. effectiveMax' = effectiveMax
    BY Zenon DEF effectiveMax
  <2>2. moved < effectiveMax
    BY Zenon, <1>3 DEF SignerRead, evolved, i, s
  <2>3. ASSUME ~push, moved # 0
        PROVE  IF kind \in DefaultKinds THEN certOf(c) + moved = defaultKESPeriod(s)
               ELSE Shown(network, 1, now, certOf(c) + moved)
    <3>1. CASE kind = "external"
      <4>1. moved = s.period /\ ~s.pushed
        BY Zenon, <2>3, <3>1 DEF evolved, i, s
      <4> QED
        BY Zenon, <4>1, <1>2, <1>3, <2>3 DEF SignerRead, s
    <3>2. CASE kind # "external"
      <4>1. moved = rel
        BY <3>2, <1>5 DEF evolved, mayEvolve, i, s
      <4>2. call[c].requested = 0
        BY <2>3, Zenon
      <4>3. \A t \in call[c].started..now : t \in 1..now
        BY <1>1
      <4> QED
        BY <4>1, <4>2, <4>3, <1>4, Zenon DEF shown, Shown
    <3> QED
      BY Zenon, <3>1, <3>2
  <2> QED
    <3>1. signers'[j] = moves
      BY Zenon, <1>10, <1>14
    <3>2. signers'[j].period < effectiveMax'
      BY Zenon, <3>1, <2>1, <2>2, <1>5
    <3>3. defaultKESPeriod(signers[j])' = defaultKESPeriod(s)
      <4>1. kind' = kind /\ signers'[j].cert = s.cert
        BY Zenon, <3>1, <1>5
      <4> QED
        BY <4>1 DEF defaultKESPeriod
    <3>4. ~signers'[j].pushed /\ signers'[j].period # 0 =>
            LET at == CertPeriod[signers'[j].cert] + signers'[j].period IN
              IF kind \in DefaultKinds THEN at = defaultKESPeriod(s) ELSE Shown(network, 1, now, at)
      BY <3>1, <2>3, <1>2, <1>5, Zenon
    <3> QED
      BY <3>2, <3>3, <3>4, Zenon DEF SignerRead
<1>15. ASSUME NEW j \in DOMAIN signers' PROVE SignerRead(j)'
  <2>1. CASE j = i
    BY Zenon, <2>1, <1>14
  <2>2. CASE j # i
    BY <2>2, <1>10, <1>12, SignerReadKept, Zenon DEF ReadInv
  <2> QED
    BY Zenon, <2>1, <2>2
<1>16. Bounds'
  BY Zenon DEF ReadInv, Bounds
<1> QED
  BY Zenon, <1>13, <1>15, <1>16 DEF ReadInv

LEMMA SignAtRead ==
  ASSUME SigningInv, ReadInv, NEW c \in Callers, SignAt(c) PROVE ReadInv'
<1> DEFINE i == signerOf(c)
           start == certOf(c)
           at == atOf(c)
           rel == at - start
<1>1. call[c].pc = "sign" /\ UNCHANGED <<kind, network, now, loads>>
  BY Zenon DEF SignAt
<1>2. /\ start \in Nat /\ start = CertPeriod[signers[i].cert]
      /\ signers[i] \in SignerRecord /\ i \in DOMAIN signers
  BY <1>1, PeriodTyped, Zenon
<1>3. call[c].period \in Nat
  BY Zenon DEF SigningInv, CallRecord
<1>4. /\ at \in Nat /\ rel = relativeKESPeriod(c) /\ (rel >= 0 <=> at >= start)
  <2>1. at \in Nat /\ (kind \notin FileKinds => rel = call[c].period)
    BY <1>2, <1>3 DEF atOf
  <2>2. rel = relativeKESPeriod(c)
    BY <2>1, <1>2, Zenon DEF relativeKESPeriod, atOf
  <2> HIDE DEF at, start
  <2> QED
    BY <2>1, <2>2, <1>2
<1>5. \/ fail(c, "before certificate") /\ UNCHANGED signers
      \/ at >= start /\ ~mayEvolve(signers[i].period, rel) /\ fail(c, "backward") /\ UNCHANGED signers
      \/ fail(c, "past validity") /\ UNCHANGED signers
      \/ /\ at >= start /\ mayEvolve(signers[i].period, rel) /\ withinValidity(rel, effectiveMax)
         /\ signers' = [signers EXCEPT ![i].period = evolved(@, rel),
                                      ![i].pushed = @ \/ call[c].requested # 0]
         /\ succeed(c, rel)
  BY <1>4, Zenon DEF SignAt
<1>6. ASSUME NEW r \in {"before certificate", "past validity"}, fail(c, r), UNCHANGED signers
      PROVE  ReadInv'
  <2>1. r \in Results \ {"ok"} /\ r # "backward"
    BY Zenon DEF Results
  <2> QED
    BY <2>1, <1>1, <1>6, RefusalRead, Zenon
<1>7. CASE at >= start /\ ~mayEvolve(signers[i].period, rel) /\ fail(c, "backward") /\ UNCHANGED signers
  <2>1. call[c].requested = 0 =>
          Crossed(network, call[c].started, now) \/ signers[call[c].signer].pushed
    BY <1>1, <1>7, BackwardRead, Zenon
  <2>2. "backward" \in Results \ {"ok"}
    BY Zenon DEF Results
  <2> QED
    BY <2>1, <2>2, <1>1, <1>7, RefusalRead, Zenon
<1>8. CASE /\ at >= start /\ mayEvolve(signers[i].period, rel) /\ withinValidity(rel, effectiveMax)
           /\ signers' = [signers EXCEPT ![i].period = evolved(@, rel),
                                        ![i].pushed = @ \/ call[c].requested # 0]
           /\ succeed(c, rel)
  <2> DEFINE moved == evolved(signers[i].period, rel)
             push == signers[i].pushed \/ call[c].requested # 0
  <2>1. rel \in Nat /\ at = start + rel
    BY <1>2, <1>4, <1>8
  <2>2. moved \in Nat
    BY Zenon, <2>1, <1>2 DEF evolved, SignerRecord
  <2>3. push \in BOOLEAN
    BY Zenon
  <2>4. rel < effectiveMax
    BY Zenon, <1>8 DEF withinValidity
  <2>5. signers' = [signers EXCEPT ![i] = [@ EXCEPT !.period = moved, !.pushed = push]]
    BY <1>8, <1>2, Zenon
  <2>6. push <=> signers[signerOf(c)].pushed \/ call[c].requested # 0
    BY Zenon
  <2>7. moved = evolved(signers[signerOf(c)].period, rel)
    BY Zenon
  <2> HIDE DEF rel, moved, push
  <2> QED
    BY <1>1, <1>8, <2>1, <2>2, <2>3, <2>4, <2>5, <2>6, <2>7, SignatureRead, Zenon
<1> QED
  BY <1>5, <1>6, <1>7, <1>8, Zenon

LEMMA ReadStep == SigningInv /\ ReadInv /\ [Next]_vars => ReadInv'
<1> SUFFICES ASSUME SigningInv, ReadInv, [Next]_vars PROVE ReadInv'
  BY Zenon
<1>1. CASE Tick \/ RotateKey \/ RotateCertificate \/ UNCHANGED vars
  BY <1>1, SurroundingsRead, Zenon
<1>2. ASSUME NEW r \in Reloaders, LoadKey(r) \/ LoadFails(r) \/ Swap(r) PROVE ReadInv'
  BY <1>2, SurroundingsRead, Zenon
<1>3. ASSUME NEW r \in Reloaders, LoadCertificate(r) PROVE ReadInv'
  BY Zenon, <1>3, LoadCertificateRead
<1>4. ASSUME NEW c \in Callers, (\E requested \in Requested : Begin(c, requested)) \/ Return(c)
      PROVE  ReadInv'
  BY Zenon, <1>4, BeginReturnRead
<1>5. ASSUME NEW c \in Callers, FilePeriod(c) PROVE ReadInv'
  BY Zenon, <1>5, FilePeriodRead
<1>6. ASSUME NEW c \in Callers, CurrentPeriod(c) PROVE ReadInv'
  BY Zenon, <1>6, CurrentPeriodRead
<1>7. ASSUME NEW c \in Callers, SignAt(c) PROVE ReadInv'
  BY Zenon, <1>7, SignAtRead
<1>9. ASSUME NEW c \in Callers, OperationalCertificate(c) PROVE ReadInv'
  BY Zenon, <1>9, CertificateRead
<1>8. ASSUME NEW c \in Callers, HelperFails(c) PROVE ReadInv'
  <2>1. fail(c, "helper") /\ UNCHANGED <<kind, network, now, signers, loads>>
    BY <1>8, Zenon DEF HelperFails
  <2>2. "helper" \in Results \ {"ok"} /\ "helper" # "backward"
    BY Zenon DEF Results
  <2> QED
    BY <2>1, <2>2, RefusalRead, Zenon
<1> QED
  BY <1>1, <1>2, <1>3, <1>4, <1>5, <1>6, <1>7, <1>8, <1>9, Zenon DEF Next

LEMMA ReadInvariant == Spec => [](SigningInv /\ ReadInv)
  BY SigningInit, SigningStep, ReadInit, ReadStep, PTL DEF Spec

(* The state stays well formed; in particular no key ever passes its last    *)
(* evolution, and every call and every Reload refers to a signer that exists *)
(* (src/signer.go:264-283, src/kes_payload.go:502-546, src/reloading.go).    *)
THEOREM SigningTypeOK == Spec => []TypeOK
<1>1. SigningInv /\ ReadInv => TypeOK
  <2> SUFFICES ASSUME SigningInv, ReadInv PROVE TypeOK
    BY Zenon
  <2>1. SignersInv /\ Bounds /\ call \in [Callers -> CallRecord]
    BY Zenon DEF SigningInv, ReadInv
  <2>2. signers \in Seq([key : Versions, cert : Versions, period : 0..(effectiveMax - 1),
                         pushed : BOOLEAN])
    <3> DEFINE R == [key : Versions, cert : Versions, period : 0..(effectiveMax - 1), pushed : BOOLEAN]
    <3>1. signers \in Seq(SignerRecord) /\ effectiveMax \in Nat
      BY Zenon, <2>1, EvolutionsPositive DEF SignersInv
    <3>2. ASSUME NEW i \in DOMAIN signers PROVE signers[i] \in R
      <4>1. signers[i] \in SignerRecord /\ signers[i].period < effectiveMax
        BY <3>1, <3>2 DEF ReadInv, SignerRead
      <4>2. signers[i].period \in 0..(effectiveMax - 1)
        BY <4>1, <3>1 DEF SignerRecord
      <4> QED
        BY <4>1, <4>2, Zenon DEF SignerRecord
    <3> HIDE DEF R
    <3>3. signers \in Seq(R)
      BY <3>1, <3>2
    <3> QED
      BY Zenon, <3>3 DEF R
  <2>3. now \in 1..MaxNow
    BY <2>1, SigningAssumption DEF SignersInv, Bounds
  <2>4. \A r \in Reloaders :
          /\ reload[r].pc \in {"idle", "loading", "swap"}
          /\ reload[r].pc = "swap" => reload[r].built \in DOMAIN signers
    BY Zenon, <2>1 DEF SignersInv, ReloadRecord
  <2>5. \A c \in Callers :
          /\ call[c].pc \in {"idle", "period", "cert", "sign", "return"}
          /\ call[c].pc # "idle" => call[c].signer \in DOMAIN signers
          /\ call[c].result \in Results
    BY Zenon, <2>1 DEF SigningInv, CallInv, CallRecord
  <2> QED
    BY <2>1, <2>2, <2>3, <2>4, <2>5, Zenon DEF TypeOK, SignersInv, Bounds
<1> QED
  BY <1>1, ReadInvariant, PTL

(* Whatever rotates, reloads or ticks between the two steps of a call, the   *)
(* period a message states is one the clock showed during the call           *)
(* (src/signer.go:130-171, src/kes_payload.go:548-599, 782-835).             *)
THEOREM PeriodsWithinCall == Spec => []PeriodWithinCall
<1>1. SigningInv /\ ReadInv => PeriodWithinCall
  BY Zenon DEF ReadInv, CallRead, PeriodWithinCall, Shown
<1> QED
  BY <1>1, ReadInvariant, PTL

(* Calls of any number of goroutines disturb one another only across a       *)
(* change of the period, or after a payload that brought its own             *)
(* (src/signer.go:264-283, src/kes_payload.go:502-546).                      *)
THEOREM RefusedAcrossPeriods == Spec => []RefusedOnlyAcrossPeriods
<1>1. SigningInv /\ ReadInv => RefusedOnlyAcrossPeriods
  BY Zenon DEF ReadInv, CallRead, RefusedOnlyAcrossPeriods, Crossed
<1> QED
  BY <1>1, ReadInvariant, PTL

(* However many goroutines sign, and in whatever order their calls reach it, *)
(* a key is fresh or at a period the clock has shown, unless a payload or    *)
(* the configuration has sent it ahead (src/signer.go:264-283,               *)
(* src/kes_payload.go:502-546).                                              *)
THEOREM KeysNotAhead == Spec => []KeyNotAheadOfClock
<1>1. SigningInv /\ ReadInv => KeyNotAheadOfClock
  BY Zenon DEF ReadInv, SignerRead, KeyNotAheadOfClock, Shown
<1> QED
  BY <1>1, ReadInvariant, PTL
=============================================================================
