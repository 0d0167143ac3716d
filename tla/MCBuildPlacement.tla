--------------------------- MODULE MCBuildPlacement ---------------------------
(* Three build commands, two of them for the same townhall, two builders.   *)
EXTENDS BuildPlacement, TLC

CONSTANTS c1, c2, c3, b1, b2, natural, pylon

MCTargetOf == (c1 :> natural) @@ (c2 :> natural) @@ (c3 :> pylon)
=============================================================================
