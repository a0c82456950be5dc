------------------------------ MODULE MCRegistry ------------------------------
(***************************************************************************)
(* A small household for Registry: a laptop that shows one universal MAC   *)
(* to every observer, and a phone whose MAC is randomized and rotates and  *)
(* whose agent may or may not report it.  One IP address, which therefore  *)
(* every machine has had.                                                  *)
(***************************************************************************)
EXTENDS Registry, TLC

CONSTANTS laptop, phone, aLaptop, aPhone, uLaptop, r1, r2, hLaptop, hPhone

MCAgentIdOf  == laptop :> aLaptop @@ phone :> aPhone
MCScanMacs   == laptop :> {uLaptop} @@ phone :> {r1, r2}
MCAgentMacs  == laptop :> {uLaptop} @@ phone :> {None, r1}
\* An agent that does not always report the MAC (the field is optional).
ShyAgentMacs == laptop :> {None, uLaptop} @@ phone :> {r1}
MCHostnameOf == laptop :> hLaptop @@ phone :> hPhone

Symmetry == Permutations(Device) \union Permutations(Token)

===============================================================================
