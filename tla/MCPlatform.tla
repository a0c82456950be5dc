------------------------------- MODULE MCPlatform -------------------------------
(* Constants of Platform for TLC: p1 is of the version before. *)
EXTENDS Platform, TLC

CONSTANTS p1, p2, c1, c2

MCCap == {c1, c2}

MCNeed == {{}, {c1}, {c2}}

MCHas == p1 :> 1 @@ p2 :> 2

===============================================================================
