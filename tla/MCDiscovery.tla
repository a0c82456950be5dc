------------------------------ MODULE MCDiscovery ------------------------------
(***************************************************************************)
(* A small household for Discovery: a laptop with an agent that reports    *)
(* its MAC, and a phone that the ARP table shows in two spellings and      *)
(* whose agent does not report its randomized MAC.  Both have had the one  *)
(* IP address.                                                             *)
(***************************************************************************)
EXTENDS Discovery, TLC

CONSTANTS laptop, phone, aLaptop, aPhone, uLaptop, r1, hLaptop, hPhone, ip

MCAgentIdOf  == laptop :> aLaptop @@ phone :> aPhone
MCScanMacs   == laptop :> {uLaptop} @@ phone :> {r1}
MCAgentMacs  == laptop :> {uLaptop} @@ phone :> {None}
MCHostnameOf == laptop :> hLaptop @@ phone :> hPhone

MCNorm == "lower" :> r1 @@ "UPPER" :> r1 @@ "laptop" :> uLaptop @@ "broadcast" :> Nobody

TableLine(s, h) == [mac |-> s, ip |-> ip, host |-> h]

MCLine == {TableLine("lower", hPhone), TableLine("UPPER", None), TableLine("laptop", None),
           TableLine("laptop", hLaptop), TableLine("broadcast", None)}

Symmetry == Permutations(Device)

===============================================================================
