------------------------------- MODULE MCTopic -------------------------------
(* Small instances of Topic for TLC. *)
EXTENDS TopicRefinement, TLC

CONSTANTS b1, big, p1, p2

CallerSymmetry == Permutations({p1, p2})

(* Admission: one body with two expiries, properly signed and not, and a    *)
(* body over the size limit.                                                *)
AdmissionWire == {[body |-> b1, exp |-> 1, sig |-> TRUE],
                  [body |-> b1, exp |-> 2, sig |-> TRUE],
                  [body |-> b1, exp |-> 1, sig |-> FALSE],
                  [body |-> big, exp |-> 1, sig |-> TRUE]}

(* One message, submitted again and again. *)
ReplayWire == {[body |-> b1, exp |-> 1, sig |-> TRUE],
               [body |-> b1, exp |-> 2, sig |-> TRUE]}
=============================================================================
