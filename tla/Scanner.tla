-------------------------------- MODULE Scanner --------------------------------
(***************************************************************************)
(* The scan cycle (internal/discovery/scanner.go): take the snapshots of   *)
(* the sources, normalise and blend them by MAC address, and reconcile     *)
(* every address that enough cycles have seen.                             *)
(*                                                                         *)
(* A snapshot is a set of MAC addresses as some source spells them; what a *)
(* source that fails would have said is not in it.  The IP addresses and   *)
(* hostnames that blending carries along decide nothing here.              *)
(***************************************************************************)
EXTENDS Integers, FiniteSetsExt

CONSTANTS
    Mac,        \* normalised addresses of hosts
    Spelling,   \* addresses as the sources spell them
    Norm,       \* [Spelling -> Mac, or Nobody: not a host's, or this machine's]
    Nobody,
    MinCycles

VARIABLES
    seen,       \* [Mac -> cycles that counted it, no further than MinCycles]
    cycles,     \* [Mac -> cycles whose snapshot had it] (history)
    reconciled  \* those reconciled since the process started (history)

scanVars == <<seen, cycles, reconciled>>

Nothing == [m \in Mac |-> 0]

ScanInit == seen = Nothing /\ cycles = Nothing /\ reconciled = {}

Capped(n) == Min({n, MinCycles})

\* NormalizeMAC, IsNonHostMAC, HideMACs.
Hosts(snapshot) == {Norm[s] : s \in snapshot} \ {Nobody}

\* A bug the run must catch: every entry counts, not every address.
CountEntries(snapshot, m) == Cardinality({s \in snapshot : Norm[s] = m})

\* A cycle counts an address once, however many sources and spellings had it.
Count(snapshot, m) == IF m \in Hosts(snapshot) THEN 1 ELSE 0

Counted(snapshot) == [m \in Mac |-> Capped(seen[m] + Count(snapshot, m))]

\* A bug the run must catch: one cycle more than asked for.
DueAfter(snapshot) == {m \in Hosts(snapshot) : Counted(snapshot)[m] > MinCycles}

\* The addresses a cycle reconciles, unless it is cancelled half-way.
Due(snapshot) == {m \in Hosts(snapshot) : Counted(snapshot)[m] >= MinCycles}

\* A cycle that reconciles those of done.
Cycle(snapshot, done) ==
    /\ done \subseteq Due(snapshot)
    /\ seen' = Counted(snapshot)
    /\ cycles' = [m \in Mac |->
         IF \E s \in snapshot : Norm[s] = m THEN Capped(cycles[m] + 1) ELSE cycles[m]]
    /\ reconciled' = reconciled \union done

\* An address is reconciled only after it was in the snapshots of that many
\* cycles, whatever the spellings: one stray ARP entry makes no device.
ReconciledAfterMinCycles == \A m \in reconciled : cycles[m] >= MinCycles

===============================================================================
