--------------------------- MODULE MCDecisionBroker --------------------------
(* DecisionBroker for TLC: two agents, of which a1 leaves and joins.        *)
EXTENDS DecisionBroker

CONSTANTS a1, a2
=============================================================================
