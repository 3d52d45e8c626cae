----------------------------- MODULE MCSigning ------------------------------
(* Values for model checking Signing. *)
EXTENDS Signing, TLC

CONSTANTS a, b, r1

(* The second certificate starts one period after the first. *)
TwoCertificates == <<0, 1>>

(* Mainnet without a start slot, its slots of a second and a half cut to the *)
(* clock's tick of a second; and two useless files, of which the second has  *)
(* slots shorter than a tick.                                                *)
GenesisFiles ==
  LET mainnet == [systemStart |-> 1, slotLength |-> <<[num |-> 3, den |-> 2]>>, epochLength |-> 4,
                  slotsPerKESPeriod |-> 2, maxKESEvolutions |-> 0, mainnet |-> TRUE,
                  absoluteStartSlot |-> <<>>]
  IN {mainnet,
      [mainnet EXCEPT !.slotLength = <<>>, !.slotsPerKESPeriod = 0],
      [mainnet EXCEPT !.slotLength = <<[num |-> 1, den |-> 2]>>]}

(* The first slot is inside a period; slots have the default length. *)
Unaligned ==
  {[start |-> 1, absoluteStartSlot |-> 1, slotLength |-> 0,
    slotsPerKESPeriod |-> 3, maxKESEvolutions |-> 1]}

Symmetry == Permutations(Callers)
=============================================================================
