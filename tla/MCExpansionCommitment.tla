------------------------ MODULE MCExpansionCommitment ------------------------
(* Goals for two or three bases, two retries, two scouting generations.     *)
EXTENDS ExpansionCommitment
=============================================================================
