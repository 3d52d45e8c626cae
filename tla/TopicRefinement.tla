-------------------------- MODULE TopicRefinement ---------------------------
(* How Topic implements TopicService. *)
EXTENDS Topic

phaseOf(pc) ==
  IF pc = "idle" THEN "out" ELSE IF pc = "sign" THEN "signing" ELSE "in"

(* A caller by the last instant at which its message was validated. *)
callerOf(c) == [phase |-> phaseOf(c.pc), id |-> ID(c.msg), since |-> c.checked,
                answer |-> c.result]

(* An acceptance is dated by the reading that went into the seen map. *)
acceptedOf(e) == [id |-> ID(e.msg), date |-> e.stamp]

Accepted == [i \in 1..Len(log) |-> acceptedOf(log[i])]
Caller == [p \in Callers |-> callerOf(call[p])]

Service ==
  INSTANCE TopicService WITH
    NoId <- ID(NoMessage),
    accepted <- Accepted, caller <- Caller,
    held <- queue, subscribed <- subscribers, inbox <- buf, taken <- last

(* The topic keeps its promise: for all the clock readings made outside the *)
(* lock, every answer of publish and submitSigned is one that a topic could *)
(* give that decides in a single step between call and return, and every    *)
(* message lost, delivered or refused is accounted for (src/topic.go).      *)
ImplementsService == Service!Spec
=============================================================================
