---------------------------- MODULE DiscoveryProofs ----------------------------
(***************************************************************************)
(* The scanner implements what Registry takes a scan to be, for every      *)
(* table, threshold and household; so what RegistryProofs says of Registry *)
(* holds with the real scanner, and what no registry can say by itself:    *)
(* no machine gets into a row by a stray line of the table.                *)
(*                                                                         *)
(* The lines a cycle blends have one MAC address, so they are of one       *)
(* machine (BlendIsOfOneMachine), and what it goes on to reconcile stays   *)
(* so while requests come in between (DiscoveryInv).                       *)
(***************************************************************************)
EXTENDS Discovery, RegistryProofs

\* What the scanner counts of an address is the number of cycles that had it,
\* and what is still to do was due and is of one machine.
DiscoveryInv ==
    /\ DiscoveryTypeOK
    /\ seen = cycles
    /\ \A obs \in todo :
         /\ obs.mac \in established
         /\ \E m \in Machine : obs \in ScanObservation(m)

-------------------------------------------------------------------------------
(***************************************************************************)
(* The table.                                                              *)
(***************************************************************************)

\* A MAC address has one machine.
LEMMA OneMachinePerMac ==
    ASSUME NEW u \in Mac, NEW m \in Machine, NEW n \in Machine,
           u \in ScanMacs[m], u \in ScanMacs[n]
    PROVE  m = n
  <1>1. u # None
    BY KindsAreDisjoint DEF Identity
  <1>2. u \in SignalsOf(m) /\ u \in SignalsOf(n)
    BY <1>1 DEF SignalsOf
  <1>3. QED
    BY <1>2, MachinesAreDistinct

\* What blending makes of the lines of a MAC address, in whichever order the
\* table has them, is an observation of the machine whose address it is.
LEMMA BlendIsOfOneMachine ==
    ASSUME NEW table \in SUBSET Line, NEW u \in Mac, NEW obs \in Blend(table, u)
    PROVE  /\ obs.mac = u
           /\ \E m \in Machine : obs \in ScanObservation(m)
  <1>1. /\ obs.source = "scan" /\ obs.token = None /\ obs.agent = None /\ obs.mac = u
        /\ \E l \in LinesOf(table, u) : obs.ip = l.ip
        /\ \/ obs.host = None
           \/ \E l \in LinesOf(table, u) : obs.host = l.host
        /\ obs = [source |-> obs.source, token |-> obs.token, agent |-> obs.agent,
                  mac |-> obs.mac, ip |-> obs.ip, host |-> obs.host]
    BY DEF Blend, Observations
  <1>2. ASSUME NEW l \in LinesOf(table, u)
        PROVE  /\ l.ip \in IP
               /\ \E m \in Machine : u \in ScanMacs[m] /\ l.host \in {None, HostnameOf[m]}
    <2>1. l \in Line /\ Norm[l.mac] = u /\ u # Nobody
      BY LinesAreOfMachines DEF LinesOf
    <2>2. QED
      BY <2>1, LinesAreOfMachines
  <1>3. PICK k \in LinesOf(table, u) : obs.ip = k.ip
    BY <1>1
  <1>4. PICK m \in Machine : u \in ScanMacs[m]
    BY <1>2, <1>3
  <1>5. obs.host \in {None, HostnameOf[m]}
    BY <1>1, <1>2, <1>4, OneMachinePerMac
  <1>6. obs.ip \in IP
    BY <1>2, <1>3
  <1>7. obs \in ScanObservation(m)
    BY <1>1, <1>4, <1>5, <1>6 DEF ScanObservation
  <1>8. QED
    BY <1>1, <1>7

-------------------------------------------------------------------------------
(***************************************************************************)
(* Counting.                                                               *)
(***************************************************************************)

LEMMA CapIsType ==
    ASSUME NEW n \in Nat
    PROVE  S!Capped(n) \in 0 .. MinCycles /\ (n <= MinCycles => S!Capped(n) = n)
  <1>1. MinCycles \in Nat \ {0}
    BY LinesAreOfMachines
  <1> DEFINE Least(x) == \A y \in {n, MinCycles} : x =< y
  <1>2. S!Capped(n) = CHOOSE x \in {n, MinCycles} : Least(x)
    BY DEF S!Capped, S!Min
  <1>3. \E x \in {n, MinCycles} : Least(x)
    <2>1. CASE n <= MinCycles
      BY <1>1, <2>1
    <2>2. CASE ~(n <= MinCycles)
      BY <1>1, <2>2
    <2>3. QED
      BY <2>1, <2>2
  <1> HIDE DEF Least
  <1>4. S!Capped(n) \in {n, MinCycles} /\ Least(S!Capped(n))
    BY <1>2, <1>3
  <1>5. QED
    BY <1>1, <1>4 DEF Least

\* A cycle counts an address of the table once, and no other.
LEMMA CycleCounts ==
    ASSUME seen \in [Mac -> 0 .. MinCycles], seen = cycles,
           NEW spelled \in SUBSET Spelling, S!Cycle(spelled, {})
    PROVE  /\ seen' \in [Mac -> 0 .. MinCycles] /\ seen' = cycles'
           /\ \A u \in S!Due(spelled) : u \in Mac /\ cycles'[u] >= MinCycles
  <1>1. MinCycles \in Nat \ {0} /\ Nobody \notin Mac /\ Norm \in [Spelling -> Mac \union {Nobody}]
    BY LinesAreOfMachines
  <1>2. \A u \in Mac : u \in S!Hosts(spelled) <=> \E s \in spelled : Norm[s] = u
    BY <1>1 DEF S!Hosts
  <1>3. seen' = S!Counted(spelled)
    BY DEF S!Cycle
  <1>4. ASSUME NEW u \in Mac
        PROVE  S!Counted(spelled)[u] \in 0 .. MinCycles /\ cycles'[u] = S!Counted(spelled)[u]
    <2>1. seen[u] \in Nat /\ seen[u] <= MinCycles /\ cycles[u] = seen[u]
      BY <1>1
    <2>2. S!Counted(spelled)[u] = S!Capped(seen[u] + S!Count(spelled, u))
      BY DEF S!Counted
    <2>3. cycles'[u] = IF \E s \in spelled : Norm[s] = u THEN S!Capped(cycles[u] + 1) ELSE cycles[u]
      BY DEF S!Cycle
    <2>4. CASE u \in S!Hosts(spelled)
      <3>1. S!Count(spelled, u) = 1
        BY <2>4 DEF S!Count
      <3>2. seen[u] + 1 \in Nat
        BY <2>1
      <3>3. QED
        BY <1>2, <2>1, <2>2, <2>3, <2>4, <3>1, <3>2, CapIsType
    <2>5. CASE u \notin S!Hosts(spelled)
      <3>1. S!Count(spelled, u) = 0
        BY <2>5 DEF S!Count
      <3>2. seen[u] + 0 = seen[u]
        BY <2>1
      <3>3. S!Counted(spelled)[u] = seen[u]
        BY <2>1, <2>2, <3>1, <3>2, CapIsType
      <3>4. QED
        BY <1>2, <2>1, <2>3, <2>5, <3>3, <1>1
    <2>6. QED
      BY <2>4, <2>5
  <1>5. seen' = [u \in Mac |-> seen'[u]] /\ cycles' = [u \in Mac |-> cycles'[u]]
    BY DEF S!Cycle, S!Counted
  <1>6. seen' \in [Mac -> 0 .. MinCycles] /\ seen' = cycles'
    BY <1>3, <1>4, <1>5
  <1>7. ASSUME NEW u \in S!Due(spelled)
        PROVE  u \in Mac /\ cycles'[u] >= MinCycles
    <2>1. u \in S!Hosts(spelled) /\ S!Counted(spelled)[u] >= MinCycles
      BY DEF S!Due
    <2>2. u \in Mac
      BY <1>1, <2>1 DEF S!Hosts
    <2>3. QED
      BY <1>4, <2>1, <2>2
  <1>8. QED
    BY <1>6, <1>7

-------------------------------------------------------------------------------
(***************************************************************************)
(* The scanner is Registry's Scan.                                         *)
(***************************************************************************)

\* A step of the platform with its scanner is a step of Registry or leaves the
\* registry alone.
LEMMA StepIsOfRegistry ==
    ASSUME DiscoveryInv, [DiscoveryNext]_discoveryVars
    PROVE  [Next]_vars
  <1>1. CASE Begin \/ Stop \/ Start
    BY <1>1 DEF Begin, Stop, Start
  <1>2. ASSUME NEW u \in Mac, Visit(u) PROVE [Next]_vars
    <2>1. CASE UNCHANGED vars
      BY <2>1
    <2>2. CASE ~UNCHANGED vars
      <3>1. PICK obs \in todo, d \in Device :
               Reconcile(obs, d) /\ UNCHANGED <<token, replies, holds>>
        BY <1>2, <2>2 DEF Visit
      <3>2. PICK m \in Machine : obs \in ScanObservation(m)
        BY <3>1 DEF DiscoveryInv
      <3>3. Scan(m)
        BY <3>1, <3>2 DEF Scan
      <3>4. QED
        BY <3>3 DEF Next
    <2>3. QED
      BY <2>1, <2>2
  <1>3. ASSUME NEW m \in Machine, Call(m) PROVE [Next]_vars
    BY <1>3 DEF Call, Next
  <1>4. ASSUME NEW d \in Device, Manage(d) PROVE [Next]_vars
    BY <1>4 DEF Manage, Next
  <1>5. CASE UNCHANGED discoveryVars
    BY <1>5 DEF discoveryVars
  <1>6. QED
    BY <1>1, <1>2, <1>3, <1>4, <1>5 DEF DiscoveryNext

LEMMA DiscoveryInvInit == DiscoveryInit => DiscoveryInv
  <1> SUFFICES ASSUME DiscoveryInit PROVE DiscoveryInv
    OBVIOUS
  <1>1. TypeOK
    BY TypeInit DEF DiscoveryInit
  <1>2. 0 \in 0 .. MinCycles /\ 0 \in 0 .. MaxTrouble
    BY LinesAreOfMachines
  <1>3. QED
    BY <1>1, <1>2 DEF DiscoveryInit, S!ScanInit, S!Nothing, DiscoveryInv, DiscoveryTypeOK

\* The bound.
LEMMA TroubleStays ==
    ASSUME trouble \in 0 .. MaxTrouble, Trouble
    PROVE  trouble' \in 0 .. MaxTrouble
  <1>1. MaxTrouble \in Nat
    BY LinesAreOfMachines
  <1>2. QED
    BY <1>1 DEF Trouble

\* What a step that counts nothing and adds nothing to do may not change.
LEMMA QuietStep ==
    ASSUME DiscoveryInv, [DiscoveryNext]_discoveryVars,
           UNCHANGED <<seen, cycles, established>>, todo' \subseteq todo,
           up' \in BOOLEAN, ~up' => todo' = {},
           called' \subseteq Machine, trouble' \in 0 .. MaxTrouble
    PROVE  DiscoveryInv'
  <1>1. TypeOK'
    BY StepIsOfRegistry, TypeStep DEF DiscoveryInv, DiscoveryTypeOK
  <1>2. DiscoveryTypeOK'
    BY <1>1 DEF DiscoveryInv, DiscoveryTypeOK
  <1>3. \A obs \in todo' :
          /\ obs.mac \in established'
          /\ \E m \in Machine : obs \in ScanObservation(m)
    BY DEF DiscoveryInv
  <1>4. QED
    BY <1>2, <1>3 DEF DiscoveryInv, ScanObservation

LEMMA BeginKeeps ==
    ASSUME DiscoveryInv, Begin
    PROVE  DiscoveryInv'
  <1>1. PICK table \in SUBSET Line :
          /\ S!Cycle(Spelled(table), {})
          /\ todo' = UNION {Blend(table, u) : u \in S!Due(Spelled(table))}
    BY DEF Begin, Tables
  <1>2. Spelled(table) \in SUBSET Spelling
    BY LinesAreOfMachines DEF Spelled
  <1>3. /\ seen' \in [Mac -> 0 .. MinCycles] /\ seen' = cycles'
        /\ \A u \in S!Due(Spelled(table)) : u \in Mac /\ cycles'[u] >= MinCycles
    BY <1>1, <1>2, CycleCounts DEF DiscoveryInv, DiscoveryTypeOK
  <1>4. /\ established' = established \union {u \in Mac : cycles'[u] >= MinCycles}
        /\ UNCHANGED <<vars, up, historyVars>> /\ up
    BY DEF Begin
  <1>5. ASSUME NEW obs \in todo'
        PROVE  /\ obs.mac \in established'
               /\ \E m \in Machine : obs \in ScanObservation(m)
    <2>1. PICK u \in S!Due(Spelled(table)) : obs \in Blend(table, u)
      BY <1>1
    <2>2. u \in Mac /\ u \in established'
      BY <1>3, <1>4
    <2>3. QED
      BY <2>1, <2>2, BlendIsOfOneMachine
  <1>6. TypeOK'
    BY <1>4, TypeStep DEF DiscoveryInv, DiscoveryTypeOK
  <1>7. todo' \subseteq Observation
    <2>1. ASSUME NEW m \in Machine, NEW obs \in ScanObservation(m) PROVE obs \in Observation
      BY ObservationType DEF ObservationOf, DiscoveryInv, DiscoveryTypeOK
    <2>2. QED
      BY <1>5, <2>1
  <1>8. established' \subseteq Mac /\ called' \subseteq Machine /\ up' = TRUE
        /\ trouble' \in 0 .. MaxTrouble
    BY <1>4 DEF historyVars, DiscoveryInv, DiscoveryTypeOK
  <1>9. DiscoveryTypeOK'
    BY <1>3, <1>6, <1>7, <1>8 DEF DiscoveryTypeOK
  <1>10. QED
    BY <1>3, <1>5, <1>9 DEF DiscoveryInv, ScanObservation

LEMMA StopKeeps ==
    ASSUME DiscoveryInv, Stop
    PROVE  DiscoveryInv'
  <1>1. TypeOK'
    BY TypeStep DEF Stop, DiscoveryInv, DiscoveryTypeOK
  <1>2. 0 \in 0 .. MinCycles
    BY LinesAreOfMachines
  <1>3. trouble' \in 0 .. MaxTrouble
    BY TroubleStays DEF Stop, DiscoveryInv, DiscoveryTypeOK
  <1>4. seen' \in [Mac -> 0 .. MinCycles] /\ seen' = cycles'
    BY <1>2 DEF Stop, S!Nothing
  <1>5. QED
    BY <1>1, <1>3, <1>4 DEF Stop, DiscoveryInv, DiscoveryTypeOK

LEMMA DiscoveryInvStep == DiscoveryInv /\ [DiscoveryNext]_discoveryVars => DiscoveryInv'
  <1> SUFFICES ASSUME DiscoveryInv, [DiscoveryNext]_discoveryVars PROVE DiscoveryInv'
    OBVIOUS
  <1>t. /\ up \in BOOLEAN /\ (~up => todo = {})
        /\ called \subseteq Machine /\ trouble \in 0 .. MaxTrouble
    BY DEF DiscoveryInv, DiscoveryTypeOK
  <1>1. CASE Begin
    BY <1>1, BeginKeeps
  <1>2. CASE Stop
    BY <1>2, StopKeeps
  <1>3. CASE Start
    BY <1>3, <1>t, QuietStep DEF Start, historyVars
  <1>4. ASSUME NEW u \in Mac, Visit(u) PROVE DiscoveryInv'
    <2>1. UNCHANGED trouble \/ Trouble
      BY <1>4 DEF Visit
    <2>2. trouble' \in 0 .. MaxTrouble
      BY <1>t, <2>1, TroubleStays
    <2>3. todo' \subseteq todo /\ up /\ UNCHANGED <<seen, cycles, up, established, called>>
      BY <1>4 DEF Visit
    <2>4. QED
      BY <1>t, <2>2, <2>3, QuietStep
  <1>5. ASSUME NEW m \in Machine, Call(m) PROVE DiscoveryInv'
    <2>1. called' \subseteq Machine /\ UNCHANGED <<scanningVars, trouble>>
      BY <1>5, <1>t DEF Call
    <2>2. QED
      BY <1>t, <2>1, QuietStep DEF scanningVars
  <1>6. ASSUME NEW d \in Device, Manage(d) PROVE DiscoveryInv'
    <2>1. UNCHANGED <<scanningVars, historyVars>>
      BY <1>6 DEF Manage
    <2>2. QED
      BY <1>t, <2>1, QuietStep DEF scanningVars, historyVars
  <1>7. CASE UNCHANGED discoveryVars
    <2>1. UNCHANGED <<scanningVars, historyVars>>
      BY <1>7 DEF discoveryVars
    <2>2. QED
      BY <1>t, <2>1, QuietStep DEF scanningVars, historyVars
  <1>8. QED
    BY <1>1, <1>2, <1>3, <1>4, <1>5, <1>6, <1>7 DEF DiscoveryNext

LEMMA DiscoveryInvariant == DiscoverySpec => []DiscoveryInv
  BY DiscoveryInvInit, DiscoveryInvStep, PTL DEF DiscoverySpec

\* Types, and a stopped service has nothing left to reconcile.
THEOREM DiscoveryTypeCorrect == DiscoverySpec => []DiscoveryTypeOK
  <1>1. DiscoveryInv => DiscoveryTypeOK
    BY DEF DiscoveryInv
  <1>2. QED
    BY <1>1, DiscoveryInvariant, PTL

\* The platform with its scanner implements Registry: whatever the ARP table
\* shows, however its lines are spelled and repeated and whichever requests
\* come between reading it and reconciling it, what the cycle hands over could
\* have been seen of one machine.
THEOREM ScannerImplementsScan == DiscoverySpec => RegistrySpec
  <1>1. DiscoveryInit => Init
    BY DEF DiscoveryInit
  <1>2. DiscoveryInv /\ [DiscoveryNext]_discoveryVars => [Next]_vars
    BY StepIsOfRegistry
  <1>3. QED
    BY <1>1, <1>2, DiscoveryInvariant, PTL DEF DiscoverySpec, RegistrySpec, Spec

\* So the scanner never gets two machines into one row.
THEOREM ScannerNeverFalselyMerges == DiscoverySpec => []NoFalseMerge
  BY ScannerImplementsScan, NeverFalselyMerged, PTL DEF RegistrySpec

-------------------------------------------------------------------------------
(***************************************************************************)
(* Stray lines.                                                            *)
(***************************************************************************)

\* Rows are as earned as before when no row is told anything.
LEMMA QuietRows ==
    ASSUME RowsAreEarned, UNCHANGED idents,
           called \subseteq called', established \subseteq established'
    PROVE  RowsAreEarned'
  <1>1. ASSUME NEW d \in Device, NEW m \in Machine, IsOf(d, m)'
        PROVE  m \in called' \/ ScanMacs[m] \intersect established' # {}
    <2>1. IsOf(d, m)
      BY <1>1 DEF IsOf
    <2>2. QED
      BY <2>1 DEF RowsAreEarned
  <1>2. QED
    BY <1>1 DEF RowsAreEarned

\* An observation of m adds nothing to the rows that another machine has to
\* have earned.
LEMMA ReconciledRows ==
    ASSUME IInv, RowsAreEarned, called \subseteq called', established \subseteq established',
           NEW m \in Machine, NEW obs \in ObservationOf(m), NEW d \in Device, Reconcile(obs, d),
           m \in called' \/ ScanMacs[m] \intersect established' # {}
    PROVE  RowsAreEarned'
  <1>1. ASSUME NEW e \in Device, NEW n \in Machine, IsOf(e, n)'
        PROVE  n \in called' \/ ScanMacs[n] \intersect established' # {}
    <2>1. CASE n = m
      BY <2>1
    <2>2. CASE n # m
      <3>1. IsOf(e, n)
        BY <1>1, <2>2, ReconcileAddsOwn DEF IInv
      <3>2. QED
        BY <3>1 DEF RowsAreEarned
    <2>3. QED
      BY <2>1, <2>2
  <1>2. QED
    BY <1>1 DEF RowsAreEarned

LEMMA RowsStep ==
    ASSUME IInv, DiscoveryInv, RowsAreEarned, [DiscoveryNext]_discoveryVars
    PROVE  RowsAreEarned'
  <1>1. CASE Begin \/ Stop \/ Start
    <2>1. UNCHANGED vars /\ called \subseteq called' /\ established \subseteq established'
      BY <1>1 DEF Begin, Stop, Start, historyVars
    <2>2. QED
      BY <2>1, QuietRows DEF vars
  <1>2. ASSUME NEW u \in Mac, Visit(u) PROVE RowsAreEarned'
    <2>1. UNCHANGED <<established, called>>
      BY <1>2 DEF Visit
    <2>2. CASE UNCHANGED vars
      BY <2>1, <2>2, QuietRows DEF vars
    <2>3. CASE ~UNCHANGED vars
      <3>1. PICK obs \in todo, d \in Device : Reconcile(obs, d)
        BY <1>2, <2>3 DEF Visit
      <3>2. obs.mac \in established
        BY DEF DiscoveryInv
      <3>3. PICK m \in Machine : obs \in ScanObservation(m)
        BY DEF DiscoveryInv
      <3>4. obs.mac \in ScanMacs[m] /\ obs \in ObservationOf(m)
        BY <3>3 DEF ScanObservation, ObservationOf
      <3>5. ScanMacs[m] \intersect established' # {}
        BY <2>1, <3>2, <3>4
      <3>6. QED
        BY <2>1, <3>1, <3>4, <3>5, ReconciledRows
    <2>4. QED
      BY <2>2, <2>3
  <1>3. ASSUME NEW m \in Machine, Call(m) PROVE RowsAreEarned'
    <2>1. UNCHANGED established
      BY <1>3 DEF Call, scanningVars
    <2>2. CASE Deliver(m) /\ UNCHANGED called
      BY <2>1, <2>2, QuietRows DEF Deliver
    <2>3. CASE (Register(m) \/ Checkin(m)) /\ called' = called \union {m}
      <3>1. PICK obs \in ObservationOf(m), d \in Device : Reconcile(obs, d)
        BY <2>3, RegisterTokens DEF Checkin, ObservationOf, IInv
      <3>2. QED
        BY <2>1, <2>3, <3>1, ReconciledRows
    <2>4. QED
      BY <1>3, <2>2, <2>3 DEF Call
  <1>4. ASSUME NEW d \in Device, Manage(d) PROVE RowsAreEarned'
    <2>1. UNCHANGED idents
      BY <1>4 DEF Manage, Create, Patch
    <2>2. UNCHANGED <<established, called>>
      BY <1>4 DEF Manage, scanningVars, historyVars
    <2>3. QED
      BY <2>1, <2>2, QuietRows
  <1>5. CASE UNCHANGED discoveryVars
    <2>1. UNCHANGED <<vars, scanningVars, historyVars>>
      BY <1>5 DEF discoveryVars
    <2>2. QED
      BY <2>1, QuietRows DEF vars, scanningVars, historyVars
  <1>6. QED
    BY <1>1, <1>2, <1>3, <1>4, <1>5 DEF DiscoveryNext

\* A machine that no agent speaks for is in no row before enough cycles of one
\* run of the service have seen it.
THEOREM RowsAlwaysEarned == DiscoverySpec => []RowsAreEarned
  <1>1. DiscoveryInit => RowsAreEarned
    BY DEF DiscoveryInit, Init, RowsAreEarned, IsOf
  <1>2. DiscoverySpec => []IInv
    BY ScannerImplementsScan, IInvInit, IInvStep, PTL DEF RegistrySpec, Spec
  <1>3. IInv /\ DiscoveryInv /\ RowsAreEarned /\ [DiscoveryNext]_discoveryVars => RowsAreEarned'
    BY RowsStep
  <1>4. QED
    BY <1>1, <1>2, <1>3, DiscoveryInvariant, PTL DEF DiscoverySpec

===============================================================================
