---------------------------- MODULE MCRegistrySteps ----------------------------
(***************************************************************************)
(* The household of MCRegistry for RegistrySteps.                          *)
(***************************************************************************)
EXTENDS RegistrySteps, TLC

CONSTANTS laptop, phone, aLaptop, aPhone, uMac, r1, r2, hLaptop, hPhone

MCAgentIdOf  == laptop :> aLaptop @@ phone :> aPhone
MCScanMacs   == laptop :> {uMac} @@ phone :> {r1, r2}
MCScanMacsOne == laptop :> {uMac} @@ phone :> {r1}
MCAgentMacs  == laptop :> {uMac} @@ phone :> {r1}
MCHostnameOf == laptop :> hLaptop @@ phone :> hPhone

\* One machine for the refinement: a phone that rotates its MAC on this network
\* and whose agent knows the universal one; every tier can match it.
OnePhoneAgentIdOf  == phone :> aPhone
OnePhoneScanMacs   == phone :> {r1, r2}
OnePhoneAgentMacs  == phone :> {uMac}
OnePhoneHostnameOf == phone :> hPhone

Symmetry == Permutations(Device) \union Permutations(Token) \union Permutations(Worker)

===============================================================================
