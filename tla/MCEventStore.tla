----------------------------- MODULE MCEventStore ----------------------------
(* EventStore for TLC: two callers and two payloads, interchangeable.       *)
EXTENDS EventStore, TLC

CONSTANTS c1, c2, t1, p1, p2

CallerSymmetry == Permutations(Caller) \cup Permutations(Payload)
=============================================================================
