------------------------------- MODULE Discovery -------------------------------
(***************************************************************************)
(* The scanner (internal/discovery/scanner.go) feeding the registry.  A    *)
(* cycle reads the ARP table, blends its lines by MAC address and then     *)
(* reconciles the addresses that are due one after the other, with what it *)
(* read before, while agents and the parent go on with their requests.     *)
(*                                                                         *)
(* Registry takes the observations of a scan as given.  Here they are what *)
(* the cycle makes of the table, and this module implements Registry.      *)
(***************************************************************************)
EXTENDS Registry, Integers

CONSTANTS
    Spelling, Norm, Nobody, MinCycles,  \* see Scanner
    Line,           \* the lines `arp -a` may print: the address as spelled,
                    \* the IP address, and the name the system has for it
    MaxTrouble      \* bound: failures of Reconcile and stops

VARIABLES
    seen, cycles,   \* see Scanner
    up,             \* whether the service runs
    todo,           \* the observations the cycle may still reconcile
    established,    \* addresses that so many cycles of one run saw (history)
    called,         \* machines whose agent made a request (history)
    trouble         \* how much has happened of what is bounded

\* What was reconciled is in the registry's rows.
S == INSTANCE Scanner WITH reconciled <- {}

scanningVars == <<seen, cycles, up, todo, established>>
historyVars == <<called, trouble>>
discoveryVars == <<vars, scanningVars, historyVars>>

\* Every address in the table is some machine's, and the name next to it is
\* the name of that machine.
ASSUME LinesAreOfMachines ==
    /\ Nobody \notin Mac /\ Norm \in [Spelling -> Mac \union {Nobody}]
    /\ MinCycles \in Nat \ {0} /\ MaxTrouble \in Nat
    /\ Line \subseteq [mac : Spelling, ip : IP, host : Hostname \union {None}]
    /\ \A l \in Line : Norm[l.mac] # Nobody =>
         \E m \in Machine : Norm[l.mac] \in ScanMacs[m] /\ l.host \in {None, HostnameOf[m]}

-------------------------------------------------------------------------------

\* What ParseARP may make of the system's table; nothing, when it cannot be
\* read.  (The other source, mDNS, is given no lookup by main.go.)
Tables == SUBSET Line

Spelled(table) == {l.mac : l \in table}

LinesOf(table, u) == {l \in table : Norm[l.mac] = u}

\* An observation with the IP address of the first of the lines and the first
\* name, whichever lines come first.
Observations(u, lines, named) ==
    LET names == {l.host : l \in named} \ {None} IN
    [source : {"scan"}, token : {None}, agent : {None}, mac : {u},
     ip : {l.ip : l \in lines}, host : IF names = {} THEN {None} ELSE names]

\* A bug the run must catch: names are joined to addresses by IP address.
BlendByIP(table, u) ==
    Observations(u, LinesOf(table, u),
                 {l \in table : \E k \in LinesOf(table, u) : l.ip = k.ip})

\* The lines of one address, and no others, become one observation (mergeObs).
Blend(table, u) == Observations(u, LinesOf(table, u), LinesOf(table, u))

Trouble == trouble < MaxTrouble /\ trouble' = trouble + 1

DiscoveryInit ==
    /\ Init
    /\ S!ScanInit
    /\ up = TRUE /\ todo = {} /\ established = {} /\ called = {} /\ trouble = 0

\* A cycle begins when the one before has ended.  It counts each address as
\* the loop comes to it; the counts are nobody else's, so that they may as well
\* be made here.
Begin ==
    /\ up /\ todo = {}
    /\ \E table \in Tables :
         /\ S!Cycle(Spelled(table), {})
         /\ todo' = UNION {Blend(table, u) : u \in S!Due(Spelled(table))}
    /\ established' = established \union {u \in Mac : cycles'[u] >= MinCycles}
    /\ UNCHANGED <<vars, up, historyVars>>

\* The loop comes to one address; a Reconcile that fails is logged, and the
\* loop goes on.  What a failure half-way leaves behind is in RegistrySteps.
Visit(u) ==
    LET observed == {obs \in todo : obs.mac = u} IN
    /\ up /\ observed # {}
    /\ \/ /\ \E obs \in observed, d \in Device : Reconcile(obs, d)
          /\ UNCHANGED <<token, replies, holds, trouble>>
       \/ Trouble /\ UNCHANGED vars
    /\ todo' = todo \ observed
    /\ UNCHANGED <<seen, cycles, up, established, called>>

\* The agents' requests are served in between, and answers reach them at any
\* time.
Call(m) ==
    /\ \/ /\ up /\ (Register(m) \/ Checkin(m))
          /\ called' = called \union {m}
       \/ Deliver(m) /\ UNCHANGED called
    /\ UNCHANGED <<scanningVars, trouble>>

\* The parent's requests.
Manage(d) ==
    /\ up /\ (Create(d) \/ Patch(d))
    /\ UNCHANGED <<scanningVars, historyVars>>

\* A bug the run must catch: a cancelled Reconcile does not end the cycle.
StopGoingOn ==
    /\ up /\ Trouble
    /\ up' = FALSE
    /\ seen' = S!Nothing /\ cycles' = S!Nothing
    /\ UNCHANGED <<vars, todo, established, called>>

\* The context is cancelled, the cycle ends where it is, and what the scanner
\* has counted was in memory.
Stop ==
    /\ up /\ Trouble
    /\ up' = FALSE
    /\ seen' = S!Nothing /\ cycles' = S!Nothing /\ todo' = {}
    /\ UNCHANGED <<vars, established, called>>

Start ==
    /\ ~up
    /\ up' = TRUE
    /\ UNCHANGED <<vars, seen, cycles, todo, established, historyVars>>

DiscoveryNext ==
    \/ Begin \/ Stop \/ Start
    \/ \E u \in Mac : Visit(u)
    \/ \E m \in Machine : Call(m)
    \/ \E d \in Device : Manage(d)

DiscoverySpec == DiscoveryInit /\ [][DiscoveryNext]_discoveryVars

-------------------------------------------------------------------------------
(***************************************************************************)
(* Properties.                                                             *)
(***************************************************************************)

\* Types; what a cycle has still to do ends with the process (Scanner.cycle
\* returns when Reconcile is cancelled).
DiscoveryTypeOK ==
    /\ TypeOK
    /\ seen \in [Mac -> 0 .. MinCycles] /\ cycles \in [Mac -> 0 .. MinCycles]
    /\ established \subseteq Mac /\ called \subseteq Machine
    /\ up \in BOOLEAN /\ trouble \in 0 .. MaxTrouble
    /\ todo \subseteq Observation
    /\ ~up => todo = {}

\* Every observation that a cycle puts together of the lines of a table, and
\* reconciles later, is one that one machine could have been seen with at one
\* time: seen from the registry, the scanner is Registry's Scan.
RegistrySpec == Spec

\* A machine whose agent has never called is in no row before one of its
\* addresses was in the tables of MinCycles cycles of one run of the service:
\* neither its addresses nor its name, however often the service restarts.
RowsAreEarned ==
    \A d \in Device, m \in Machine :
        IsOf(d, m) => m \in called \/ ScanMacs[m] \intersect established # {}

===============================================================================
