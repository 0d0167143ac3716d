-------------------------- MODULE MCMacroSpecialist --------------------------
(* A plan of two steps: the first is asked for twice, the second is the     *)
(* townhall.                                                                *)
EXTENDS MacroSpecialist

MCRepeat == [i \in Step |-> IF i = 1 THEN 2 ELSE 1]
=============================================================================
