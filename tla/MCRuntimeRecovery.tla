-------------------------- MODULE MCRuntimeRecovery --------------------------
(* Values of RuntimeRecovery's constants for TLC: p1 and p2 ask the army    *)
(* for the same thing, p3 is the builder's.                                 *)
EXTENDS RuntimeRecovery

CONSTANTS p1, p2, p3, r1, army, builder, ok, ko, lost

MCActorOf == [c \in Command |-> IF c = p3 THEN builder ELSE army]
MCKeyOf == [c \in Command |-> IF c = p3 THEN "build" ELSE "attack"]
MCPriority == [c \in Command |-> IF c = p2 THEN 2 ELSE 1]
MCOutcomeOf == [r \in Report |-> CASE r = ok -> "succeeded"
                                   [] r = ko -> "failed"
                                   [] OTHER  -> "cancelled"]
=============================================================================
