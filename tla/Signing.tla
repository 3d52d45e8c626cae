------------------------------ MODULE Signing -------------------------------
(***************************************************************************)
(* Signing with a KES key that evolves (src/signer.go, src/kes_payload.go) *)
(* while the credentials are rotated on disk and reloaded                  *)
(* (src/reloading.go).  Three types of signer sit behind a reloading       *)
(* wrapper: "file" is FileSigner behind ReloadingSigner, "kes" and         *)
(* "external" are KESSigner and ExternalKESSigner behind                   *)
(* ReloadingKESSigningProvider, used through KESSigningProviderSigner.     *)
(* "fixed" and "configured" are a FileSigner without a KESPeriodFunc, the  *)
(* second with a KESPeriod in its configuration.  All read the period in   *)
(* one step and sign in a later one; a provider is asked for its           *)
(* certificate in between.  Periods come from the clock by module          *)
(* CardanoTime; a pair of files, a key and the certificate issued for it,  *)
(* is named by its version.                                                *)
(***************************************************************************)
EXTENDS CardanoTime, Sequences

CONSTANTS
  Callers,      \* goroutines that sign
  Reloaders,    \* goroutines that call Reload
  CertPeriod,   \* first KES period of the certificate of each version
  Requested,    \* periods a payload may already carry; 0 is none
  KESPeriod,    \* FileSignerConfig.KESPeriod, where it is set
  Networks,     \* the NetworkParams an application may give
  Genesis,      \* the genesis files it may take them from instead
  MaxNow,       \* bound on the clock
  MaxLoads      \* bound on the number of reloads

Versions == DOMAIN CertPeriod

ASSUME SigningAssumption ==
  /\ CertPeriod \in Seq(Nat) /\ CertPeriod # <<>>
  /\ Requested \subseteq Nat /\ 0 \in Requested /\ KESPeriod \in Nat \ {0}
  /\ \A n \in Networks : n \in NetworkParams /\ n.start # ZeroTime /\ n.slotsPerKESPeriod # 0
  /\ \A g \in Genesis :
       /\ g.systemStart \in Nat /\ g.epochLength \in Nat /\ g.mainnet \in BOOLEAN
       /\ g.slotsPerKESPeriod \in Nat /\ g.maxKESEvolutions \in Nat
       /\ g.slotLength \in Seq([num : Int, den : Nat \ {0}])
       /\ g.absoluteStartSlot \in Seq(Nat)
  /\ MaxNow \in Nat \ {0} /\ MaxLoads \in Nat

VARIABLES
  kind,        \* the kind of signer in use
  network,     \* its NetworkParams
  now,         \* the clock
  keyFile, certFile,  \* the versions of the two files on disk
  signers,     \* the signers built so far
  active,      \* the one the wrapper delegates to
  loads,       \* how many reloads have begun
  reload,      \* each goroutine in Reload
  call         \* each goroutine in Sign

vars == <<kind, network, now, keyFile, certFile, signers, active, loads, reload, call>>

(* A signer: the versions of its key and certificate, its key's period, and *)
(* whether a payload's own period has moved the key (a history).            *)
NewSigner(k, c) == [key |-> k, cert |-> c, period |-> 0, pushed |-> FALSE]

NoReload == [pc |-> "idle", key |-> 0, built |-> 0]

(* A call of Sign: the signer it holds, the period it read (absolute from a *)
(* FileSigner, relative from a provider), and the message: the period its   *)
(* payload states, its certificate, and the key and the key's period that   *)
(* its signature was really made with.                                      *)
NoCall == [pc |-> "idle", signer |-> 0, requested |-> 0, started |-> 0,
           period |-> 0, result |-> "none", abs |-> 0, rel |-> 0, cert |-> 0, vkey |-> 0]

(* What the factory builds: FileSigner, KESSigner or ExternalKESSigner. *)
DefaultKinds == {"fixed", "configured"}
FileKinds == DefaultKinds \cup {"file"}
Kinds == FileKinds \cup {"kes", "external"}

(* NewReloadingSigner has loaded the first version. *)
Init ==
  /\ kind \in Kinds
  /\ network \in (Networks \cup {NetworkParamsFromShelleyGenesis(g) : g \in Genesis}) \ {NoParams}
  /\ now = 1 /\ keyFile = 1 /\ certFile = 1
  /\ signers = <<NewSigner(1, 1)>> /\ active = 1 /\ loads = 0
  /\ reload = [r \in Reloaders |-> NoReload]
  /\ call = [c \in Callers |-> NoCall]

-----------------------------------------------------------------------------
(* The surroundings: time passes, and an operator replaces the two files. *)

Tick ==
  /\ now < MaxNow
  /\ now' = now + 1
  /\ UNCHANGED <<kind, network, keyFile, certFile, signers, active, loads, reload, call>>

RotateKey ==
  /\ keyFile + 1 \in Versions
  /\ keyFile' = keyFile + 1
  /\ UNCHANGED <<kind, network, now, certFile, signers, active, loads, reload, call>>

RotateCertificate ==
  /\ certFile + 1 \in Versions
  /\ certFile' = certFile + 1
  /\ UNCHANGED <<kind, network, now, keyFile, signers, active, loads, reload, call>>

-----------------------------------------------------------------------------
(* Reload: the factory runs outside the lock and reads one file after the   *)
(* other.  An ExternalKESSigner has no key file; its helper is taken to use *)
(* the key that the certificate is for.                                     *)

LoadKey(r) ==
  /\ reload[r].pc = "idle" /\ loads < MaxLoads
  /\ loads' = loads + 1
  /\ reload' = [reload EXCEPT ![r] = [pc |-> "loading", key |-> keyFile, built |-> 0]]
  /\ UNCHANGED <<kind, network, now, keyFile, certFile, signers, active, call>>

(* Variant: the key is not compared with the certificate. *)
matchesUnchecked(key, cert) == TRUE

matches(key, cert) == key = cert

LoadCertificate(r) ==
  /\ reload[r].pc = "loading"
  /\ LET key == IF kind = "external" THEN certFile ELSE reload[r].key IN
       /\ matches(key, certFile)
       /\ signers' = Append(signers, NewSigner(key, certFile))
  /\ reload' = [reload EXCEPT ![r].pc = "swap", ![r].built = Len(signers) + 1]
  /\ UNCHANGED <<kind, network, now, keyFile, certFile, active, loads, call>>

(* The factory fails: the files do not match, or one cannot be loaded. *)
LoadFails(r) ==
  /\ reload[r].pc = "loading"
  /\ reload' = [reload EXCEPT ![r] = NoReload]
  /\ UNCHANGED <<kind, network, now, keyFile, certFile, signers, active, loads, call>>

Swap(r) ==
  /\ reload[r].pc = "swap"
  /\ active' = reload[r].built
  /\ reload' = [reload EXCEPT ![r] = NoReload]
  /\ UNCHANGED <<kind, network, now, keyFile, certFile, signers, loads, call>>

-----------------------------------------------------------------------------
(* Sign. *)

(* FileSigner stops only where kes.Update does. *)
effectiveMax == IF kind \in FileKinds THEN CryptoMax ELSE effectiveMaxKESEvolutions(network)

(* The absolute KES period the clock yields, or Err. *)
period == CurrentKESPeriodFor(network, now)

(* ActiveSigner or ActiveProvider: the call keeps the signer it found. *)
Begin(c, requested) ==
  /\ call[c].pc = "idle"
  /\ requested # 0 => kind \in FileKinds
  /\ call' = [call EXCEPT ![c] = [NoCall EXCEPT !.pc = "period", !.signer = active,
                                                !.requested = requested, !.started = now]]
  /\ UNCHANGED <<kind, network, now, keyFile, certFile, signers, active, loads, reload>>

(* Variant: every use of the wrapper looks up the active signer anew. *)
signerOfLatest(c) == active

signerOf(c) == call[c].signer

fail(c, result) == call' = [call EXCEPT ![c].pc = "return", ![c].result = result]

(* The period of a FileSigner without a KESPeriodFunc. *)
defaultKESPeriod(s) == IF kind = "configured" THEN KESPeriod ELSE CertPeriod[s.cert]

(* currentKESPeriod of FileSigner: the payload's period, else that of       *)
(* KESPeriodFunc, which may fail, else the default.                         *)
FilePeriod(c) ==
  /\ call[c].pc = "period" /\ kind \in FileKinds
  /\ \/ /\ call[c].requested = 0 /\ kind = "file" /\ period = Err
        /\ fail(c, "no period")
     \/ /\ call[c].requested # 0 \/ kind \in DefaultKinds \/ period # Err
        /\ call' = [call EXCEPT ![c].pc = "sign",
                ![c].period = IF call[c].requested # 0 THEN call[c].requested
                              ELSE IF kind = "file" THEN period
                              ELSE defaultKESPeriod(signers[signerOf(c)])]
  /\ UNCHANGED <<kind, network, now, keyFile, certFile, signers, active, loads, reload>>

(* currentRelativePeriodFor *)
CurrentPeriod(c) ==
  /\ call[c].pc = "period" /\ kind \notin FileKinds
  /\ LET start == CertPeriod[signers[signerOf(c)].cert] IN
       \/ period = Err /\ fail(c, "no period")
       \/ period # Err /\ period < start /\ fail(c, "before certificate")
       \/ /\ period >= start /\ ~withinValidity(period - start, effectiveMax)
          /\ fail(c, "past validity")
       \/ /\ period >= start /\ withinValidity(period - start, effectiveMax)
          /\ call' = [call EXCEPT ![c].pc = "cert", ![c].period = period - start]
  /\ UNCHANGED <<kind, network, now, keyFile, certFile, signers, active, loads, reload>>

(* OperationalCertificate of the provider, and the payload's period. *)
OperationalCertificate(c) ==
  /\ call[c].pc = "cert"
  /\ LET cert == signers[signerOf(c)].cert IN
       IF call[c].period > MaxWord - CertPeriod[cert]
       THEN fail(c, "overflow")
       ELSE call' = [call EXCEPT ![c].pc = "sign", ![c].cert = cert,
                                 ![c].abs = CertPeriod[cert] + call[c].period]
  /\ UNCHANGED <<kind, network, now, keyFile, certFile, signers, active, loads, reload>>

(* The relative period to sign at; negative when a FileSigner's period is   *)
(* before its certificate's first.                                          *)
relativeKESPeriod(c) ==
  IF kind \in FileKinds THEN call[c].period - CertPeriod[signers[signerOf(c)].cert]
  ELSE call[c].period

(* Variants: the loop of advanceTo runs once too often; the guard before it *)
(* is gone.                                                                 *)
evolvedAhead(at, rel) == IF rel + 1 < effectiveMax THEN rel + 1 ELSE rel
mayEvolveAlways(at, rel) == TRUE

(* evolveToRelativePeriod, advanceTo: the period to which the loop of       *)
(* updates takes a key, and whether the loop is entered at all.  The key of *)
(* an ExternalKESSigner is with its helper.                                 *)
evolved(at, rel) == IF kind = "external" \/ at >= rel THEN at ELSE rel

mayEvolve(at, rel) == kind = "external" \/ at <= rel

(* The signature is by the key as it now is.  The helper signs at the       *)
(* period it is told, or VerifyKESSignature refuses.                        *)
signedPeriod(at, rel) == IF kind = "external" THEN rel ELSE at

(* The message.  A FileSigner takes period and certificate from under its   *)
(* own lock; with a provider the certificate asked for earlier must name    *)
(* the key that signed.                                                     *)
succeed(c, rel) ==
  LET s == signers[signerOf(c)] IN
    IF kind \notin FileKinds /\ s.cert # call[c].cert
    THEN fail(c, "mismatch")
    ELSE call' = [call EXCEPT ![c].pc = "return", ![c].result = "ok",
                    ![c].abs = IF kind \in FileKinds THEN call[c].period ELSE @,
                    ![c].cert = s.cert, ![c].vkey = s.key,
                    ![c].rel = signedPeriod(evolved(s.period, rel), rel)]

(* The section under the signer's lock; ExternalKESSigner needs none.  The   *)
(* providers check the validity first, of the period CurrentPeriod returned. *)
SignAt(c) ==
  /\ call[c].pc = "sign"
  /\ LET i == signerOf(c)
         rel == relativeKESPeriod(c) IN
       \/ rel < 0 /\ fail(c, "before certificate") /\ UNCHANGED signers
       \/ /\ rel >= 0 /\ ~mayEvolve(signers[i].period, rel)
          /\ fail(c, "backward") /\ UNCHANGED signers
       \/ /\ rel >= 0 /\ mayEvolve(signers[i].period, rel)
          /\ ~withinValidity(rel, effectiveMax)
          /\ fail(c, "past validity") /\ UNCHANGED signers
       \/ /\ rel >= 0 /\ mayEvolve(signers[i].period, rel)
          /\ withinValidity(rel, effectiveMax)
          /\ signers' = [signers EXCEPT ![i].period = evolved(@, rel),
                                       ![i].pushed = @ \/ call[c].requested # 0]
          /\ succeed(c, rel)
  /\ UNCHANGED <<kind, network, now, keyFile, certFile, active, loads, reload>>

(* The helper process fails, times out or returns a signature that *)
(* VerifyKESSignature refuses.                                     *)
HelperFails(c) ==
  /\ call[c].pc = "sign" /\ kind = "external"
  /\ fail(c, "helper")
  /\ UNCHANGED <<kind, network, now, keyFile, certFile, signers, active, loads, reload>>

Return(c) ==
  /\ call[c].pc = "return"
  /\ call' = [call EXCEPT ![c] = NoCall]
  /\ UNCHANGED <<kind, network, now, keyFile, certFile, signers, active, loads, reload>>

Next ==
  \/ Tick \/ RotateKey \/ RotateCertificate
  \/ \E r \in Reloaders : LoadKey(r) \/ LoadCertificate(r) \/ LoadFails(r) \/ Swap(r)
  \/ \E c \in Callers, requested \in Requested : Begin(c, requested)
  \/ \E c \in Callers :
       \/ FilePeriod(c) \/ CurrentPeriod(c) \/ OperationalCertificate(c)
       \/ SignAt(c) \/ HelperFails(c) \/ Return(c)

Spec == Init /\ [][Next]_vars

-----------------------------------------------------------------------------
Results == {"none", "ok", "no period", "before certificate", "past validity", "overflow",
            "backward", "mismatch", "helper"}

(* The state is well formed; a key never passes its last evolution. *)
TypeOK ==
  /\ kind \in Kinds
  /\ network \in NetworkParams /\ now \in 1..MaxNow /\ keyFile \in Versions /\ certFile \in Versions
  /\ signers \in Seq([key : Versions, cert : Versions, period : 0..(effectiveMax - 1),
                      pushed : BOOLEAN])
  /\ active \in DOMAIN signers /\ loads \in 0..MaxLoads
  /\ \A r \in Reloaders :
       /\ reload[r].pc \in {"idle", "loading", "swap"}
       /\ reload[r].pc = "swap" => reload[r].built \in DOMAIN signers
  /\ \A c \in Callers :
       /\ call[c].pc \in {"idle", "period", "cert", "sign", "return"}
       /\ call[c].pc # "idle" => call[c].signer \in DOMAIN signers
       /\ call[c].result \in Results

Signed(c) == call[c].pc = "return" /\ call[c].result = "ok"

(* A signed message is consistent although the files may be replaced one by  *)
(* one, the signer swapped between the steps of the call, and the key moved  *)
(* by another call: its signature is by the key its certificate names, and   *)
(* that key was at the period the payload states                             *)
(* (src/kes_payload.go:782-835, src/signer.go:130-171).                      *)
MessageConsistent ==
  \A c \in Callers : Signed(c) =>
    /\ call[c].vkey = call[c].cert
    /\ call[c].abs = CertPeriod[call[c].cert] + call[c].rel
    /\ call[c].rel < effectiveMax

(* The period a message states is one the clock yielded during the call,    *)
(* unless the payload or the configuration gives one: the certificate added *)
(* in the second step is the one the first step subtracted.                 *)
PeriodWithinCall ==
  \A c \in Callers : Signed(c) /\ call[c].requested = 0 /\ kind \notin DefaultKinds =>
    \E t \in call[c].started..now : CurrentKESPeriodFor(network, t) = call[c].abs

(* A key is never ahead of the clock, unless a payload or the configuration  *)
(* has sent it there: whatever calls have used it, it is fresh or at a       *)
(* period the clock has shown, so that no later call finds it spent          *)
(* (src/signer.go:264-278, src/kes_payload.go:519-531).                      *)
KeyNotAheadOfClock ==
  \A i \in DOMAIN signers : kind \notin DefaultKinds /\ ~signers[i].pushed =>
    \/ signers[i].period = 0
    \/ \E t \in 1..now :
         CurrentKESPeriodFor(network, t) = CertPeriod[signers[i].cert] + signers[i].period

(* A call is refused as backward only if the period changed while it ran,   *)
(* or a payload has brought a period of its own to this signer: otherwise   *)
(* calls within one period never disturb one another.                       *)
RefusedOnlyAcrossPeriods ==
  \A c \in Callers : call[c].result = "backward" /\ call[c].requested = 0 =>
    \/ \E t \in call[c].started..now :
         CurrentKESPeriodFor(network, t) # CurrentKESPeriodFor(network, call[c].started)
    \/ signers[call[c].signer].pushed

(* The status reported for a certificate foretells what the providers do     *)
(* with it.  A call that ends before the ExpiresAt of a status reported when *)
(* or before it began is not refused for its period; one that begins at that *)
(* instant or later is not served (src/kes_payload.go:450, 694-707).         *)
StatusForetells ==
  \A c \in Callers : call[c].pc = "return" /\ kind \notin FileKinds =>
    \A t \in 1..call[c].started :
      LET expires == CredentialExpiresAt(network, CertPeriod[signers[call[c].signer].cert], t)
      IN expires \notin {Err, ZeroTime} =>
           /\ now < expires =>
                call[c].result \notin {"no period", "before certificate", "past validity", "overflow"}
           /\ expires <= call[c].started => call[c].result # "ok"

(* The clock reaches each KES period at the instant KESPeriodStart gives,   *)
(* whatever the alignment of the network's first slot, and no instant is    *)
(* given for a period whose start cannot be represented                     *)
(* (src/cardano.go:159-168, 215-233).                                       *)
PeriodBoundaries ==
  \A at \in 0..MaxWord : PeriodBoundary(network, now, at)
=============================================================================
