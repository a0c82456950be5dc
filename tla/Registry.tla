------------------------------- MODULE Registry -------------------------------
(***************************************************************************)
(* The device registry of the platform (internal/device), one request at a *)
(* time.  Network scans and agents report OBSERVATIONS of physical         *)
(* machines; Reconcile decides which device row an observation belongs to, *)
(* or creates a row for it.  The registry never sees a machine: it sees    *)
(* agent ids, MAC addresses, IP addresses and hostnames.                   *)
(*                                                                         *)
(* The physical machines are the environment of this module: each has an   *)
(* agent id, the MAC addresses the scanner can see, the MAC addresses its  *)
(* agent may report, and a hostname.  IP addresses belong to nobody (DHCP  *)
(* hands any of them to any machine at any time).                          *)
(*                                                                         *)
(* Every handler is one atomic action here.  RegistrySteps takes the same  *)
(* handlers apart into database statements of concurrent requests.         *)
(***************************************************************************)

CONSTANTS
    Device,         \* the pool newID() draws from
    Machine,        \* the physical machines on the network
    Token,          \* the pool newAgentToken() draws from
    AgentId, UniversalMac, RandomMac, IP, Hostname,  \* identity values, by kind
    None,           \* an absent field, NULL
    Stale,          \* a token that no row of this database ever had
    AgentIdOf,      \* [Machine -> AgentId]: the install id of its agent
    ScanMacs,       \* [Machine -> set of MACs]: what an ARP scan may see
    AgentMacs,      \* [Machine -> set of MACs or None]: what its agent may report
    HostnameOf,     \* [Machine -> Hostname]
    PatchState      \* the states a PATCH sets: all four in the code, a bound in TLC

Mac      == UniversalMac \union RandomMac
Identity == AgentId \union Mac \union IP \union Hostname

\* The identities that are m's own.  An IP address is nobody's.
SignalsOf(m) ==
    ({AgentIdOf[m], HostnameOf[m]} \union ScanMacs[m] \union AgentMacs[m]) \ {None}

\* A row of network_identities is a (kind, value) pair: values of different
\* kinds never meet, which disjoint sets say without the pairs.
ASSUME KindsAreDisjoint ==
    /\ AgentId \intersect (Mac \union IP \union Hostname) = {}
    /\ Mac \intersect (IP \union Hostname) = {}
    /\ IP \intersect Hostname = {}
    /\ UniversalMac \intersect RandomMac = {}
    /\ None \notin Identity \union Token \union Device
    /\ Stale \notin Token \union {None}

ASSUME MachinesHaveSignals ==
    /\ AgentIdOf \in [Machine -> AgentId]
    /\ ScanMacs \in [Machine -> SUBSET Mac]
    /\ AgentMacs \in [Machine -> SUBSET (Mac \union {None})]
    /\ HostnameOf \in [Machine -> Hostname]

\* Agent ids and MAC addresses are made to be unique and the households
\* modelled give their machines different hostnames.
ASSUME MachinesAreDistinct ==
    \A m, n \in Machine : m # n => SignalsOf(m) \intersect SignalsOf(n) = {}

VARIABLES
    state,      \* [Device -> State]: devices.state, "none" for no row
    token,      \* [Device -> Token or None]: devices.agent_token
    idents,     \* [Device -> set of identities]: network_identities
    merges,     \* pending_merges: a set of [source, candidates]
    replies,    \* the Register responses ever sent: pairs <<machine, token>>
    holds       \* [Machine -> Token or None]: the token the agent retains

vars == <<state, token, idents, merges, replies, holds>>

-------------------------------------------------------------------------------
(***************************************************************************)
(* Observations.                                                           *)
(***************************************************************************)

DeviceState == {"discovered", "active", "paused", "retired"}

ASSUME PatchStatesAreStates == PatchState \subseteq DeviceState

Observation ==
    [source : {"scan", "agent"}, token : Token \union {None, Stale},
     agent : AgentId \union {None}, mac : Mac \union {None},
     ip : IP \union {None}, host : Hostname \union {None}]

\* An ARP entry (MAC and IP), with the hostname when the system knows it.
ScanObservation(m) ==
    [source : {"scan"}, token : {None}, agent : {None}, mac : ScanMacs[m],
     ip : IP, host : {None, HostnameOf[m]}]

\* A register request always names the install; it carries the token the
\* agent retained from an earlier registration, one from an older database,
\* or none.
RegisterObservation(m) ==
    [source : {"agent"}, token : {None, Stale, holds[m]}, agent : {AgentIdOf[m]},
     mac : AgentMacs[m], ip : {None}, host : {None, HostnameOf[m]}]

\* A check-in always carries a token; every identity in it is optional.
CheckinObservation(m) ==
    [source : {"agent"}, token : {Stale, holds[m]} \ {None},
     agent : {None, AgentIdOf[m]}, mac : AgentMacs[m], ip : IP \union {None},
     host : {None, HostnameOf[m]}]

Signals(obs) == {obs.agent, obs.mac, obs.ip, obs.host} \ {None}

\* Hostname, IP and randomized MAC only corroborate (IsRandomizedMAC).
WeakSignals(obs) == ({obs.ip, obs.host} \union ({obs.mac} \intersect RandomMac)) \ {None}

-------------------------------------------------------------------------------
(***************************************************************************)
(* Reconcile.                                                              *)
(***************************************************************************)

Rows == {d \in Device : state[d] # "none"}

TokenOwners(t) == {d \in Rows : t # None /\ token[d] = t}
Owners(i)      == {d \in Rows : i \in idents[d]}

\* Bugs the run must catch: a tier of the match forgotten.
StrongMatchWithoutAgent(obs) ==
    IF TokenOwners(obs.token) # {} THEN TokenOwners(obs.token)
    ELSE IF obs.mac \in UniversalMac THEN Owners(obs.mac)
    ELSE {}

StrongMatchWithoutMac(obs) ==
    IF TokenOwners(obs.token) # {} THEN TokenOwners(obs.token) ELSE Owners(obs.agent)

\* Token, then agent id, then universal MAC: the first tier with an owner
\* decides.  The lookups have no ORDER BY, so any owner of the value may be
\* the one row that is read.
StrongMatch(obs) ==
    IF TokenOwners(obs.token) # {} THEN TokenOwners(obs.token)
    ELSE IF Owners(obs.agent) # {} THEN Owners(obs.agent)
    ELSE IF obs.mac \in UniversalMac THEN Owners(obs.mac)
    ELSE {}

\* A bug the run must catch: one weak signal is taken for enough (n >= 1).
ConfidentOnOneHit(obs) == {d \in Rows : WeakSignals(obs) \intersect idents[d] # {}}

\* The devices that at least two weak signals point to.
Confident(obs) ==
    {d \in Rows : \E s, t \in WeakSignals(obs) : s # t /\ {s, t} \subseteq idents[d]}

Single(S) == \E d \in S : S = {d}

MergeObservation(d, obs) == idents' = [idents EXCEPT ![d] = @ \union Signals(obs)]

Merge(obs, d) ==
    /\ \/ d \in StrongMatch(obs)
       \/ StrongMatch(obs) = {} /\ Confident(obs) = {d}
    /\ MergeObservation(d, obs)
    /\ UNCHANGED <<state, merges>>

\* Bugs the run must catch: the row is never inserted; the pending merge lists
\* every row that was hit instead of the confident ones.
CreateWithoutInsert(obs, d) ==
    /\ StrongMatch(obs) = {}
    /\ ~ Single(Confident(obs))
    /\ d \notin Rows
    /\ MergeObservation(d, obs)
    /\ UNCHANGED <<state, merges>>

CreateOfferingAllHits(obs, d) ==
    /\ StrongMatch(obs) = {}
    /\ ~ Single(Confident(obs))
    /\ d \notin Rows
    /\ state' = [state EXCEPT ![d] = "active"]
    /\ MergeObservation(d, obs)
    /\ merges' = merges \union {[source |-> d, candidates |-> ConfidentOnOneHit(obs)]}

\* A new row for an observation no device claims, with a pending merge for
\* the parent when two or more devices claim it.
CreateFromObservation(obs, d) ==
    /\ StrongMatch(obs) = {}
    /\ ~ Single(Confident(obs))
    /\ d \notin Rows
    /\ state' = [state EXCEPT ![d] = IF obs.source = "scan" THEN "discovered" ELSE "active"]
    /\ MergeObservation(d, obs)
    /\ merges' = IF Confident(obs) = {} THEN merges
                 ELSE merges \union {[source |-> d, candidates |-> Confident(obs)]}

Reconcile(obs, d) == Merge(obs, d) \/ CreateFromObservation(obs, d)

-------------------------------------------------------------------------------
(***************************************************************************)
(* Handlers.                                                               *)
(***************************************************************************)

Init ==
    /\ state = [d \in Device |-> "none"]
    /\ token = [d \in Device |-> None]
    /\ idents = [d \in Device |-> {}]
    /\ merges = {}
    /\ replies = {}
    /\ holds = [m \in Machine |-> None]

\* The scanner reconciles one entry of a scan cycle.
Scan(m) ==
    /\ \E obs \in ScanObservation(m), d \in Device : Reconcile(obs, d)
    /\ UNCHANGED <<token, replies, holds>>

Unissued(t) ==
    /\ \A d \in Device : token[d] # t
    /\ \A m \in Machine : holds[m] # t /\ <<m, t>> \notin replies

\* POST /agent/register: reconcile, issue a token only if the device has none,
\* answer with the device's token.
Register(m) ==
    \E obs \in RegisterObservation(m), d \in Device :
        /\ Reconcile(obs, d)
        /\ IF token[d] = None
             THEN \E t \in Token : Unissued(t) /\ token' = [token EXCEPT ![d] = t]
             ELSE UNCHANGED token
        /\ replies' = replies \union {<<m, token'[d]>>}
        /\ UNCHANGED holds

\* An answer reaches the agent, which retains the token; an answer that never
\* does is lost.  Answers are not consumed: an agent may store a token late, or
\* be restored to one it had before.
Deliver(m) ==
    \E t \in Token :
        /\ <<m, t>> \in replies
        /\ holds' = [holds EXCEPT ![m] = t]
        /\ UNCHANGED <<state, token, idents, merges, replies>>

\* POST /agent/checkin: the token is compared with the device's only after
\* Reconcile has written, so a rejected check-in leaves its observation behind.
Checkin(m) ==
    /\ \E obs \in CheckinObservation(m), d \in Device : Reconcile(obs, d)
    /\ UNCHANGED <<token, replies, holds>>

\* POST /devices: a device the parent adds by hand, with no identity.
Create(d) ==
    /\ d \notin Rows
    /\ state' = [state EXCEPT ![d] = "active"]
    /\ UNCHANGED <<token, idents, merges, replies, holds>>

\* PATCH /devices/{id}: claim, pause, retire, restore.
Patch(d) ==
    /\ d \in Rows
    /\ \E s \in PatchState : state' = [state EXCEPT ![d] = s]
    /\ UNCHANGED <<token, idents, merges, replies, holds>>

Next ==
    \/ \E m \in Machine : Scan(m) \/ Register(m) \/ Deliver(m) \/ Checkin(m)
    \/ \E d \in Device : Create(d) \/ Patch(d)

Spec == Init /\ [][Next]_vars

-------------------------------------------------------------------------------
(***************************************************************************)
(* Properties.                                                             *)
(***************************************************************************)

TypeOK ==
    /\ state \in [Device -> DeviceState \union {"none"}]
    /\ token \in [Device -> Token \union {None}]
    /\ idents \in [Device -> SUBSET Identity]
    /\ merges \subseteq [source : Device, candidates : SUBSET Device]
    /\ replies \subseteq Machine \X Token
    /\ holds \in [Machine -> Token \union {None}]
    /\ \A d \in Device : state[d] = "none" => idents[d] = {} /\ token[d] = None

\* d has been told something that is m's own.
IsOf(d, m) == idents[d] \intersect SignalsOf(m) # {}

\* Two machines are never merged into one device row: DHCP may hand one's IP
\* address to the other, agents may present any token they were given, and
\* still no row ever carries signals of both (policies, usage and events are
\* kept per row, so a false merge would mix two children's).
NoFalseMerge ==
    \A d \in Device, m, n \in Machine : IsOf(d, m) /\ IsOf(d, n) => m = n

\* An agent install is one device, whatever scans saw of it before, whichever
\* tokens it presents and however many answers to its registrations are lost.
AgentOwnedOnce ==
    \A m \in Machine, d, e \in Device :
        AgentIdOf[m] \in idents[d] /\ AgentIdOf[m] \in idents[e] => d = e

\* The machines that show the same universal MAC to every observer.
Steady ==
    {m \in Machine : \E u \in UniversalMac : ScanMacs[m] = {u} /\ AgentMacs[m] = {u}}

\* "scan-then-agent for one device is one device, not two" (registry_test.go),
\* in any order and number of scans, registrations and check-ins, for machines
\* whose every observation carries their universal MAC.
OneDevicePerSteadyMachine ==
    \A m \in Steady, d, e \in Device : IsOf(d, m) /\ IsOf(e, m) => d = e

\* A merge the parent is offered is a merge of one machine: the new row and
\* every candidate carry signals of the same machine, and of no other.
MergeCandidatesAreOneMachine ==
    \A p \in merges : \E m \in Machine :
        /\ IsOf(p.source, m)
        /\ \A d \in p.candidates : IsOf(d, m)

\* migrations/002_phase2.sql: "Strong identifiers (agent_id, non-randomized
\* MAC) remain effectively unique because the reconciler always merges into
\* the existing owner before inserting."
StrongIdentifiersUnique ==
    \A i \in AgentId \union UniversalMac, d, e \in Device :
        i \in idents[d] /\ i \in idents[e] => d = e

\* registry_test.go: "replaying an identical observation -> no-op".  After an
\* observation has been reconciled, the same observation would be merged.
Claimed(obs) == StrongMatch(obs) # {} \/ Single(Confident(obs))

ReplayIsNoOp ==
    [][\A m \in Machine : \A obs \in ScanObservation(m) :
          (\E d \in Device : Reconcile(obs, d)) => Claimed(obs)']_vars

===============================================================================
