---------------------------- MODULE RegistryProofs ----------------------------
(***************************************************************************)
(* What Registry guarantees for every household, every number of devices   *)
(* and every history of requests.                                          *)
(*                                                                         *)
(* The invariants hold because of which row Reconcile picks: whenever a    *)
(* tier matches, the matched row already carries a signal of the observed  *)
(* machine (ReconcilePicksOwn).  For the token tier this is not visible in *)
(* the identities, which is what the strengthening TokensAreOwn is for: an *)
(* agent only ever gets the token of a row that carries its agent id.      *)
(***************************************************************************)
EXTENDS Registry, TLAPS

ObservationOf(m) ==
    ScanObservation(m) \union RegisterObservation(m) \union CheckinObservation(m)

\* Whoever retains a token, or is about to, has its agent id on the row that
\* has the token.
TokensAreOwn ==
    \A m \in Machine, d \in Device :
        /\ token[d] # None
        /\ holds[m] = token[d] \/ <<m, token[d]>> \in replies
        => AgentIdOf[m] \in idents[d]

TokensAreUnique ==
    \A d, e \in Device : token[d] # None /\ token[d] = token[e] => d = e

IInv == TypeOK /\ NoFalseMerge /\ TokensAreOwn /\ TokensAreUnique

-------------------------------------------------------------------------------

\* Observations are well typed and carry only signals of their machine and an
\* IP address.
LEMMA ObservationType ==
    ASSUME TypeOK, NEW m \in Machine, NEW obs \in ObservationOf(m)
    PROVE  /\ obs \in Observation
           /\ Signals(obs) \subseteq SignalsOf(m) \union IP
           /\ Signals(obs) \subseteq Identity
           /\ obs.source = "scan" => obs.token = None /\ obs.agent = None
           /\ obs.agent # None => obs.agent = AgentIdOf[m]
           /\ obs.token \in {None, Stale, holds[m]}
  <1>1. CASE obs \in ScanObservation(m)
    BY <1>1, MachinesHaveSignals, KindsAreDisjoint
    DEF TypeOK, ScanObservation, Observation, Signals, SignalsOf, Identity, Mac
  <1>2. CASE obs \in RegisterObservation(m)
    BY <1>2, MachinesHaveSignals, KindsAreDisjoint
    DEF TypeOK, RegisterObservation, Observation, Signals, SignalsOf, Identity, Mac
  <1>3. CASE obs \in CheckinObservation(m)
    BY <1>3, MachinesHaveSignals, KindsAreDisjoint
    DEF TypeOK, CheckinObservation, Observation, Signals, SignalsOf, Identity, Mac
  <1>4. QED
    BY <1>1, <1>2, <1>3 DEF ObservationOf

\* Whatever Reconcile does, it adds the observation's signals to one row,
\* which exists afterwards; no other row changes.
LEMMA ReconcileAdds ==
    ASSUME TypeOK, NEW obs \in Observation, NEW d \in Device, Reconcile(obs, d)
    PROVE  /\ idents' = [idents EXCEPT ![d] = @ \union Signals(obs)]
           /\ state' \in [Device -> DeviceState \union {"none"}]
           /\ state'[d] # "none"
           /\ \A e \in Device \ {d} : state'[e] = state[e]
           /\ merges' \subseteq [source : Device, candidates : SUBSET Device]
  <1>1. StrongMatch(obs) \subseteq Rows /\ Confident(obs) \subseteq Rows /\ Rows \subseteq Device
    BY DEF StrongMatch, Confident, Rows, TokenOwners, Owners
  <1>2. CASE Merge(obs, d)
    <2>1. d \in Rows
      BY <1>1, <1>2 DEF Merge
    <2>2. QED
      BY <1>2, <2>1 DEF Merge, MergeObservation, TypeOK, Rows
  <1>3. CASE CreateFromObservation(obs, d)
    <2>1. state' \in [Device -> DeviceState \union {"none"}]
          /\ state'[d] # "none" /\ \A e \in Device \ {d} : state'[e] = state[e]
      BY <1>3 DEF CreateFromObservation, TypeOK, DeviceState
    <2>2. merges' \subseteq [source : Device, candidates : SUBSET Device]
      BY <1>1, <1>3 DEF CreateFromObservation, TypeOK
    <2>3. QED
      BY <1>3, <2>1, <2>2 DEF CreateFromObservation, MergeObservation
  <1>4. QED
    BY <1>2, <1>3 DEF Reconcile

\* What the handlers do to the tokens.
LEMMA RegisterTokens ==
    ASSUME TypeOK, NEW m \in Machine, Register(m)
    PROVE  \E obs \in RegisterObservation(m), d \in Device :
             /\ Reconcile(obs, d)
             /\ token' \in [Device -> Token \union {None}]
             /\ token'[d] \in Token
             /\ \A e \in Device \ {d} : token'[e] = token[e]
             /\ token[d] # None => token'[d] = token[d]
             /\ token[d] = None => Unissued(token'[d])
             /\ replies' = replies \union {<<m, token'[d]>>}
             /\ holds' = holds
  <1>1. PICK obs \in RegisterObservation(m), d \in Device :
          /\ Reconcile(obs, d)
          /\ IF token[d] = None
               THEN \E t \in Token : Unissued(t) /\ token' = [token EXCEPT ![d] = t]
               ELSE UNCHANGED token
          /\ replies' = replies \union {<<m, token'[d]>>}
          /\ UNCHANGED holds
    BY DEF Register
  <1>2. CASE token[d] = None
    <2>1. PICK t \in Token : Unissued(t) /\ token' = [token EXCEPT ![d] = t]
      BY <1>1, <1>2
    <2>2. token'[d] = t /\ token' \in [Device -> Token \union {None}]
          /\ \A e \in Device \ {d} : token'[e] = token[e]
      BY <2>1 DEF TypeOK
    <2>3. QED
      BY <1>1, <1>2, <2>1, <2>2
  <1>3. CASE token[d] # None
    <2>1. UNCHANGED token
      BY <1>1, <1>3
    <2>2. token'[d] \in Token
      BY <1>3, <2>1 DEF TypeOK
    <2>3. QED
      BY <1>1, <1>3, <2>1, <2>2 DEF TypeOK
  <1>4. QED
    BY <1>2, <1>3

-------------------------------------------------------------------------------

LEMMA TypeInit == Init => TypeOK
  BY DEF Init, TypeOK, Identity

LEMMA TypeStep == TypeOK /\ [Next]_vars => TypeOK'
  <1> SUFFICES ASSUME TypeOK, [Next]_vars
               PROVE  TypeOK'
    OBVIOUS
  <1>a. ASSUME NEW m \in Machine, NEW obs \in ObservationOf(m), NEW d \in Device,
               Reconcile(obs, d)
        PROVE  /\ state' \in [Device -> DeviceState \union {"none"}]
               /\ idents' \in [Device -> SUBSET Identity]
               /\ merges' \subseteq [source : Device, candidates : SUBSET Device]
               /\ state'[d] # "none"
               /\ \A e \in Device \ {d} : state'[e] = state[e] /\ idents'[e] = idents[e]
    <2>1. obs \in Observation /\ Signals(obs) \subseteq Identity
      BY ObservationType
    <2>2. QED
      BY <1>a, <2>1, ReconcileAdds DEF TypeOK
  <1>b. ASSUME NEW m \in Machine, NEW obs \in ObservationOf(m), NEW d \in Device,
               Reconcile(obs, d), UNCHANGED <<token, replies, holds>>
        PROVE  TypeOK'
    <2>1. \A e \in Device : state'[e] = "none" => idents'[e] = {} /\ token'[e] = None
      BY <1>a, <1>b DEF TypeOK
    <2>2. QED
      BY <1>a, <1>b, <2>1 DEF TypeOK
  <1>1. ASSUME NEW m \in Machine, Scan(m) PROVE TypeOK'
    BY <1>1, <1>b DEF Scan, ObservationOf
  <1>2. ASSUME NEW m \in Machine, Register(m) PROVE TypeOK'
    <2>1. PICK obs \in RegisterObservation(m), d \in Device :
             /\ Reconcile(obs, d)
             /\ token' \in [Device -> Token \union {None}]
             /\ token'[d] \in Token
             /\ \A e \in Device \ {d} : token'[e] = token[e]
             /\ replies' = replies \union {<<m, token'[d]>>}
             /\ holds' = holds
      BY <1>2, RegisterTokens
    <2>2. obs \in ObservationOf(m)
      BY DEF ObservationOf
    <2>3. \A e \in Device : state'[e] = "none" => idents'[e] = {} /\ token'[e] = None
      BY <1>a, <2>1, <2>2 DEF TypeOK
    <2>4. QED
      BY <1>a, <2>1, <2>2, <2>3 DEF TypeOK
  <1>3. ASSUME NEW m \in Machine, Deliver(m) PROVE TypeOK'
    BY <1>3 DEF Deliver, TypeOK
  <1>4. ASSUME NEW m \in Machine, Checkin(m) PROVE TypeOK'
    BY <1>4, <1>b DEF Checkin, ObservationOf
  <1>5. ASSUME NEW d \in Device, Create(d) PROVE TypeOK'
    BY <1>5 DEF Create, TypeOK, DeviceState
  <1>6. ASSUME NEW d \in Device, Patch(d) PROVE TypeOK'
    <2>1. PICK s \in PatchState : state' = [state EXCEPT ![d] = s]
      BY <1>6 DEF Patch
    <2>2. s \in DeviceState /\ state[d] # "none"
      BY <1>6, PatchStatesAreStates DEF Patch, Rows
    <2>3. QED
      BY <1>6, <2>1, <2>2 DEF Patch, TypeOK, DeviceState
  <1>7. CASE UNCHANGED vars
    BY <1>7 DEF vars, TypeOK
  <1>8. QED
    BY <1>1, <1>2, <1>3, <1>4, <1>5, <1>6, <1>7 DEF Next

\* The registry is well typed, and only rows that exist carry identities or a
\* token.
THEOREM TypeCorrect == Spec => []TypeOK
  BY TypeInit, TypeStep, PTL DEF Spec

-------------------------------------------------------------------------------

\* Of two weak signals one is not an IP address, so it is m's own.
LEMMA ConfidentIsOwn ==
    ASSUME TypeOK, NEW m \in Machine, NEW obs \in ObservationOf(m), NEW d \in Confident(obs)
    PROVE  \E i \in Signals(obs) : i \in idents[d] /\ i \in SignalsOf(m)
  <1>1. obs \in Observation /\ Signals(obs) \subseteq SignalsOf(m) \union IP
    BY ObservationType
  <1>2. PICK s \in WeakSignals(obs), t \in WeakSignals(obs) :
           s # t /\ {s, t} \subseteq idents[d]
    BY DEF Confident
  <1>3. s \in Signals(obs) /\ t \in Signals(obs)
    BY <1>2 DEF WeakSignals, Signals
  <1>4. ASSUME NEW i \in WeakSignals(obs), i \in IP PROVE i = obs.ip
    BY <1>1, <1>4, KindsAreDisjoint DEF WeakSignals, Observation, Mac
  <1>5. s \notin IP \/ t \notin IP
    BY <1>2, <1>4
  <1>6. QED
    BY <1>1, <1>2, <1>3, <1>5

\* The heart of it: Reconcile of an observation of m picks a row that has been
\* told something of m's own, or makes a new one.  A token match is m's by
\* TokensAreOwn; agent ids and MACs are m's own; of two weak signals at most
\* one is an IP address.
LEMMA ReconcilePicksOwn ==
    ASSUME TypeOK, TokensAreOwn,
           NEW m \in Machine, NEW obs \in ObservationOf(m), NEW d \in Device,
           Reconcile(obs, d)
    PROVE  IsOf(d, m) \/ d \notin Rows
  <1>a. /\ obs \in Observation
        /\ Signals(obs) \subseteq SignalsOf(m) \union IP
        /\ obs.agent # None => obs.agent = AgentIdOf[m]
        /\ obs.token \in {None, Stale, holds[m]}
    BY ObservationType
  <1>b. AgentIdOf[m] \in SignalsOf(m)
    BY MachinesHaveSignals, KindsAreDisjoint DEF SignalsOf, Identity
  <1>1. CASE d \in StrongMatch(obs)
    <2>1. CASE d \in TokenOwners(obs.token)
      <3>1. token[d] # None /\ token[d] = obs.token /\ token[d] \in Token
        BY <2>1 DEF TokenOwners, TypeOK
      <3>2. token[d] = holds[m]
        BY <1>a, <3>1, KindsAreDisjoint
      <3>3. AgentIdOf[m] \in idents[d]
        BY <3>1, <3>2 DEF TokensAreOwn
      <3>4. QED
        BY <1>b, <3>3 DEF IsOf
    <2>2. CASE d \in Owners(obs.agent)
      <3>1. obs.agent \in idents[d] /\ obs.agent # None
        BY <2>2, KindsAreDisjoint DEF Owners, TypeOK
      <3>2. QED
        BY <1>a, <1>b, <3>1 DEF IsOf
    <2>3. CASE obs.mac \in UniversalMac /\ d \in Owners(obs.mac)
      <3>1. obs.mac \in idents[d] /\ obs.mac \in Signals(obs) /\ obs.mac \notin IP
        BY <2>3, KindsAreDisjoint DEF Owners, Signals, Mac, Identity
      <3>2. QED
        BY <1>a, <3>1 DEF IsOf
    <2>4. QED
      BY <1>1, <2>1, <2>2, <2>3 DEF StrongMatch
  <1>2. CASE Confident(obs) = {d}
    BY <1>2, ConfidentIsOwn DEF IsOf
  <1>3. CASE CreateFromObservation(obs, d)
    BY <1>3 DEF CreateFromObservation
  <1>4. QED
    BY <1>1, <1>2, <1>3 DEF Reconcile, Merge

\* A row keeps what it has been told.
LEMMA ReconcileKeeps ==
    ASSUME TypeOK, NEW m \in Machine, NEW obs \in ObservationOf(m), NEW d \in Device,
           Reconcile(obs, d)
    PROVE  /\ idents' \in [Device -> SUBSET Identity]
           /\ idents'[d] = idents[d] \union Signals(obs)
           /\ \A e \in Device \ {d} : idents'[e] = idents[e]
           /\ \A e \in Device : idents[e] \subseteq idents'[e]
  <1>1. obs \in Observation /\ Signals(obs) \subseteq Identity
    BY ObservationType
  <1>2. QED
    BY <1>1, ReconcileAdds DEF TypeOK

\* Only m's own signals are added: no row becomes another machine's.
LEMMA ReconcileAddsOwn ==
    ASSUME TypeOK, NEW m \in Machine, NEW obs \in ObservationOf(m), NEW d \in Device,
           Reconcile(obs, d), NEW n \in Machine \ {m}, NEW e \in Device, IsOf(e, n)'
    PROVE  IsOf(e, n)
  <1>1. /\ idents'[d] = idents[d] \union Signals(obs)
        /\ \A f \in Device \ {d} : idents'[f] = idents[f]
    BY ReconcileKeeps
  <1>2. Signals(obs) \subseteq SignalsOf(m) \union IP
    BY ObservationType
  <1>3. PICK i \in idents'[e] : i \in SignalsOf(n)
    BY DEF IsOf
  <1>4. i \notin SignalsOf(m)
    BY <1>3, MachinesAreDistinct
  <1>5. i \notin IP
    BY <1>3, MachinesHaveSignals, KindsAreDisjoint DEF SignalsOf, Mac
  <1>6. i \in idents[e]
    BY <1>1, <1>2, <1>3, <1>4, <1>5
  <1>7. QED
    BY <1>3, <1>6 DEF IsOf

\* A reconciled observation of m leaves no row with signals of two machines.
LEMMA ReconcileNoFalseMerge ==
    ASSUME TypeOK, TokensAreOwn, NoFalseMerge,
           NEW m \in Machine, NEW obs \in ObservationOf(m), NEW d \in Device,
           Reconcile(obs, d)
    PROVE  NoFalseMerge'
  <1>1. /\ idents'[d] = idents[d] \union Signals(obs)
        /\ \A e \in Device \ {d} : idents'[e] = idents[e]
    BY ReconcileKeeps
  <1>3. \A n \in Machine : IsOf(d, n) => n = m
    <2>1. CASE IsOf(d, m)
      BY <2>1 DEF NoFalseMerge
    <2>2. CASE d \notin Rows
      BY <2>2 DEF Rows, TypeOK, IsOf
    <2>3. QED
      BY <2>1, <2>2, ReconcilePicksOwn
  <1>4. \A n \in Machine : IsOf(d, n)' => n = m
    BY <1>3, ReconcileAddsOwn
  <1>5. QED
    BY <1>1, <1>4 DEF NoFalseMerge, IsOf

-------------------------------------------------------------------------------

LEMMA IInvInit == Init => IInv
  <1>1. Init => TypeOK
    BY TypeInit
  <1>2. QED
    BY <1>1 DEF Init, IInv, NoFalseMerge, IsOf, TokensAreOwn, TokensAreUnique

LEMMA IInvStep == IInv /\ [Next]_vars => IInv'
  <1> SUFFICES ASSUME IInv, [Next]_vars
               PROVE  IInv'
    OBVIOUS
  <1>t. TypeOK'
    BY TypeStep DEF IInv
  <1>a. ASSUME NEW m \in Machine, NEW obs \in ObservationOf(m), NEW d \in Device,
               Reconcile(obs, d), UNCHANGED <<token, replies, holds>>
        PROVE  IInv'
    <2>1. NoFalseMerge'
      BY <1>a, ReconcileNoFalseMerge DEF IInv
    <2>2. TokensAreOwn'
      BY <1>a, ReconcileKeeps DEF IInv, TokensAreOwn
    <2>3. TokensAreUnique'
      BY <1>a DEF IInv, TokensAreUnique
    <2>4. QED
      BY <1>t, <2>1, <2>2, <2>3 DEF IInv
  <1>1. ASSUME NEW m \in Machine, Scan(m) PROVE IInv'
    BY <1>1, <1>a DEF Scan, ObservationOf
  <1>2. ASSUME NEW m \in Machine, Register(m) PROVE IInv'
    <2>1. PICK obs \in RegisterObservation(m), d \in Device :
             /\ Reconcile(obs, d)
             /\ token' \in [Device -> Token \union {None}]
             /\ token'[d] \in Token
             /\ \A e \in Device \ {d} : token'[e] = token[e]
             /\ token[d] # None => token'[d] = token[d]
             /\ token[d] = None => Unissued(token'[d])
             /\ replies' = replies \union {<<m, token'[d]>>}
             /\ holds' = holds
      BY <1>2, RegisterTokens DEF IInv
    <2>2. obs \in ObservationOf(m)
      BY DEF ObservationOf
    <2>3. NoFalseMerge'
      BY <2>1, <2>2, ReconcileNoFalseMerge DEF IInv
    <2>4. /\ idents'[d] = idents[d] \union Signals(obs)
          /\ \A e \in Device : idents[e] \subseteq idents'[e]
      BY <2>1, <2>2, ReconcileKeeps DEF IInv
    <2>5. AgentIdOf[m] \in idents'[d]
      <3>1. obs.agent = AgentIdOf[m] /\ AgentIdOf[m] # None
        BY MachinesHaveSignals, KindsAreDisjoint DEF RegisterObservation, Identity
      <3>2. QED
        BY <2>4, <3>1 DEF Signals
    <2>6. TokensAreUnique'
      BY <2>1 DEF IInv, TokensAreUnique, Unissued
    <2>7. TokensAreOwn'
      <3>1. SUFFICES ASSUME NEW n \in Machine, NEW e \in Device, token'[e] # None,
                            holds[n] = token'[e] \/ <<n, token'[e]>> \in replies'
                     PROVE  AgentIdOf[n] \in idents'[e]
        BY <2>1 DEF TokensAreOwn
      <3>2. CASE <<n, token'[e]>> = <<m, token'[d]>>
        BY <2>1, <2>5, <2>6, <3>1, <3>2 DEF TokensAreUnique
      <3>3. CASE holds[n] = token'[e] \/ <<n, token'[e]>> \in replies
        <4>1. token'[e] = token[e]
          BY <2>1, <3>3 DEF Unissued
        <4>2. AgentIdOf[n] \in idents[e]
          BY <3>1, <3>3, <4>1 DEF IInv, TokensAreOwn
        <4>3. QED
          BY <2>4, <4>2
      <3>4. QED
        BY <2>1, <3>1, <3>2, <3>3
    <2>8. QED
      BY <1>t, <2>3, <2>6, <2>7 DEF IInv
  <1>3. ASSUME NEW m \in Machine, Deliver(m) PROVE IInv'
    <2>1. PICK t \in Token :
             /\ <<m, t>> \in replies
             /\ holds' = [holds EXCEPT ![m] = t]
             /\ UNCHANGED <<state, token, idents, merges, replies>>
      BY <1>3 DEF Deliver
    <2>2. ASSUME NEW n \in Machine, NEW x \in Token,
                 holds'[n] = x \/ <<n, x>> \in replies'
          PROVE  holds[n] = x \/ <<n, x>> \in replies
      BY <2>1, <2>2 DEF IInv, TypeOK
    <2>3. TokensAreOwn'
      BY <2>1, <2>2 DEF IInv, TokensAreOwn, TypeOK
    <2>4. QED
      BY <1>t, <2>1, <2>3 DEF IInv, NoFalseMerge, IsOf, TokensAreUnique
  <1>4. ASSUME NEW m \in Machine, Checkin(m) PROVE IInv'
    BY <1>4, <1>a DEF Checkin, ObservationOf
  <1>5. ASSUME NEW d \in Device, Create(d) PROVE IInv'
    BY <1>5, <1>t DEF Create, IInv, NoFalseMerge, IsOf, TokensAreOwn, TokensAreUnique
  <1>6. ASSUME NEW d \in Device, Patch(d) PROVE IInv'
    BY <1>6, <1>t DEF Patch, IInv, NoFalseMerge, IsOf, TokensAreOwn, TokensAreUnique
  <1>7. CASE UNCHANGED vars
    BY <1>7, <1>t DEF vars, IInv, NoFalseMerge, IsOf, TokensAreOwn, TokensAreUnique
  <1>8. QED
    BY <1>1, <1>2, <1>3, <1>4, <1>5, <1>6, <1>7 DEF Next

\* No history of scans, registrations, check-ins and patches ever merges two
\* machines into one device row.
THEOREM NeverFalselyMerged == Spec => []NoFalseMerge
  <1>1. IInv => NoFalseMerge
    BY DEF IInv
  <1>2. QED
    BY <1>1, IInvInit, IInvStep, PTL DEF Spec

-------------------------------------------------------------------------------
(***************************************************************************)
(* Duplicates.  The three invariants below are kept by any step that       *)
(* leaves identities and pending merges alone, so Reconcile is the only    *)
(* case.                                                                   *)
(***************************************************************************)

LEMMA StepReconciles ==
    ASSUME TypeOK, [Next]_vars
    PROVE  \/ UNCHANGED <<idents, merges>>
           \/ \E m \in Machine, d \in Device :
                 \E obs \in ObservationOf(m) : Reconcile(obs, d)
  <1>1. ASSUME NEW m \in Machine, Scan(m)
        PROVE  \E d \in Device : \E obs \in ObservationOf(m) : Reconcile(obs, d)
    BY <1>1 DEF Scan, ObservationOf
  <1>2. ASSUME NEW m \in Machine, Register(m)
        PROVE  \E d \in Device : \E obs \in ObservationOf(m) : Reconcile(obs, d)
    BY <1>2, RegisterTokens DEF ObservationOf
  <1>3. ASSUME NEW m \in Machine, Checkin(m)
        PROVE  \E d \in Device : \E obs \in ObservationOf(m) : Reconcile(obs, d)
    BY <1>3 DEF Checkin, ObservationOf
  <1>4. ASSUME NEW m \in Machine, Deliver(m) PROVE UNCHANGED <<idents, merges>>
    BY <1>4 DEF Deliver
  <1>5. ASSUME NEW d \in Device, Create(d) \/ Patch(d) PROVE UNCHANGED <<idents, merges>>
    BY <1>5 DEF Create, Patch
  <1>6. QED
    BY <1>1, <1>2, <1>3, <1>4, <1>5 DEF Next, vars

\* An agent id is never recorded on a second row: the token tier, which comes
\* before the agent id tier, picks a row that has the agent id already.
THEOREM AgentNeverSplit == Spec => []AgentOwnedOnce
  <1>1. Init => AgentOwnedOnce
    BY DEF Init, AgentOwnedOnce
  <1>2. IInv /\ AgentOwnedOnce /\ [Next]_vars => AgentOwnedOnce'
    <2> SUFFICES ASSUME IInv, AgentOwnedOnce, [Next]_vars
                 PROVE  AgentOwnedOnce'
      OBVIOUS
    <2>1. ASSUME UNCHANGED <<idents, merges>> PROVE AgentOwnedOnce'
      BY <2>1 DEF AgentOwnedOnce
    <2>2. ASSUME NEW m \in Machine, NEW d \in Device, NEW obs \in ObservationOf(m),
                 Reconcile(obs, d)
          PROVE  AgentOwnedOnce'
      <3>a. /\ obs \in Observation
            /\ obs.agent # None => obs.agent = AgentIdOf[m]
            /\ obs.token \in {None, Stale, holds[m]}
        BY ObservationType DEF IInv
      <3>b. /\ idents'[d] = idents[d] \union Signals(obs)
            /\ \A e \in Device \ {d} : idents'[e] = idents[e]
        BY <2>2, ReconcileKeeps DEF IInv
      <3>1. ASSUME NEW e \in Device, obs.agent # None, obs.agent \in idents[e]
            PROVE  e = d
        <4>1. e \in Owners(obs.agent)
          BY <3>1 DEF Owners, Rows, IInv, TypeOK
        <4>2. d \in StrongMatch(obs)
          BY <2>2, <4>1 DEF Reconcile, Merge, CreateFromObservation, StrongMatch
        <4>3. CASE d \in TokenOwners(obs.token)
          <5>1. token[d] # None /\ token[d] = obs.token /\ token[d] \in Token
            BY <4>3 DEF TokenOwners, IInv, TypeOK
          <5>2. AgentIdOf[m] \in idents[d]
            BY <3>a, <5>1, KindsAreDisjoint DEF IInv, TokensAreOwn
          <5>3. QED
            BY <3>1, <3>a, <5>2 DEF AgentOwnedOnce
        <4>4. CASE d \in Owners(obs.agent)
          BY <3>1, <3>a, <4>4 DEF Owners, AgentOwnedOnce, Rows
        <4>5. QED
          BY <4>1, <4>2, <4>3, <4>4 DEF StrongMatch
      <3>2. ASSUME NEW n \in Machine, NEW e \in Device,
                   AgentIdOf[n] \in idents'[e], AgentIdOf[n] \notin idents[e]
            PROVE  e = d /\ obs.agent = AgentIdOf[n] /\ obs.agent # None
        BY <3>2, <3>a, <3>b, MachinesHaveSignals, KindsAreDisjoint
        DEF Signals, Observation, Identity
      <3>3. QED
        BY <3>1, <3>2, <3>b DEF AgentOwnedOnce
    <2>3. QED
      BY <2>1, <2>2, StepReconciles DEF IInv
  <1>3. QED
    BY <1>1, <1>2, IInvInit, IInvStep, PTL DEF Spec

\* The rows of a steady machine carry its MAC, so the MAC tier finds them.
SteadyRowsHaveMac ==
    \A m \in Steady, d \in Device : \A u \in ScanMacs[m] : IsOf(d, m) => u \in idents[d]

\* A machine that shows one universal MAC to everyone never gets a second row,
\* whichever of scanner and agent reports it first.
THEOREM SteadyNeverSplit == Spec => []OneDevicePerSteadyMachine
  <1> DEFINE Inv == SteadyRowsHaveMac /\ OneDevicePerSteadyMachine
  <1>1. Init => Inv
    BY DEF Init, SteadyRowsHaveMac, OneDevicePerSteadyMachine, IsOf, Steady
  <1>2. IInv /\ Inv /\ [Next]_vars => Inv'
    <2> SUFFICES ASSUME IInv, Inv, [Next]_vars
                 PROVE  Inv'
      OBVIOUS
    <2>1. ASSUME UNCHANGED <<idents, merges>> PROVE Inv'
      BY <2>1 DEF SteadyRowsHaveMac, OneDevicePerSteadyMachine, IsOf
    <2>2. ASSUME NEW m \in Machine, NEW d \in Device, NEW obs \in ObservationOf(m),
                 Reconcile(obs, d)
          PROVE  Inv'
      <3>b. /\ idents'[d] = idents[d] \union Signals(obs)
            /\ \A e \in Device \ {d} : idents'[e] = idents[e]
        BY <2>2, ReconcileKeeps DEF IInv
      <3>1. ASSUME m \in Steady
            PROVE  \A u \in ScanMacs[m] : obs.mac = u /\ u \in UniversalMac /\ u \in Signals(obs)
        BY <3>1, KindsAreDisjoint
        DEF Steady, ObservationOf, ScanObservation, RegisterObservation,
            CheckinObservation, Signals, Identity, Mac
      <3>2. ASSUME m \in Steady, NEW e \in Device, IsOf(e, m)
            PROVE  e = d
        <4>1. PICK u \in ScanMacs[m] : u \in idents[e] /\ obs.mac = u /\ u \in UniversalMac
          BY <3>1, <3>2 DEF SteadyRowsHaveMac, Steady
        <4>2. e \in Rows
          BY <4>1 DEF IInv, TypeOK, Rows
        <4>3. StrongMatch(obs) # {}
          BY <4>1, <4>2 DEF StrongMatch, Owners
        <4>4. d \in Rows
          BY <2>2, <4>3
          DEF Reconcile, Merge, CreateFromObservation, StrongMatch, TokenOwners, Owners
        <4>5. IsOf(d, m)
          BY <2>2, <4>4, ReconcilePicksOwn DEF IInv
        <4>6. QED
          BY <3>2, <4>5 DEF OneDevicePerSteadyMachine
      <3>3. ASSUME NEW n \in Machine, n # m, NEW e \in Device, IsOf(e, n)'
            PROVE  IsOf(e, n)
        BY <2>2, <3>3, ReconcileAddsOwn DEF IInv
      <3>4. ASSUME NEW e \in Device, e # d, IsOf(e, m)'
            PROVE  IsOf(e, m)
        BY <3>4, <3>b DEF IsOf
      <3>5. OneDevicePerSteadyMachine'
        <4>1. SUFFICES ASSUME NEW n \in Steady, NEW e \in Device, NEW f \in Device,
                              IsOf(e, n)', IsOf(f, n)'
                       PROVE  e = f
          BY DEF OneDevicePerSteadyMachine, Steady
        <4>2. n \in Machine
          BY DEF Steady
        <4>3. CASE n = m
          BY <3>2, <3>4, <4>1, <4>3
        <4>4. CASE n # m
          BY <3>3, <4>1, <4>2, <4>4 DEF OneDevicePerSteadyMachine
        <4>5. QED
          BY <4>3, <4>4
      <3>6. SteadyRowsHaveMac'
        <4>1. SUFFICES ASSUME NEW n \in Steady, NEW e \in Device, NEW u \in ScanMacs[n],
                              IsOf(e, n)'
                       PROVE  u \in idents'[e]
          BY DEF SteadyRowsHaveMac, Steady
        <4>2. CASE n = m /\ e = d
          BY <3>1, <3>b, <4>2
        <4>3. CASE ~ (n = m /\ e = d)
          <5>1. IsOf(e, n)
            BY <3>3, <3>4, <4>1, <4>3 DEF Steady
          <5>2. QED
            BY <3>b, <5>1 DEF SteadyRowsHaveMac
        <4>4. QED
          BY <4>2, <4>3
      <3>7. QED
        BY <3>5, <3>6
    <2>3. QED
      BY <2>1, <2>2, StepReconciles DEF IInv
  <1>3. QED
    BY <1>1, <1>2, IInvInit, IInvStep, PTL DEF Spec

\* A parent who accepts a pending merge never mixes two machines: source and
\* candidates have a machine in common, and by NeverFalselyMerged only one.
THEOREM MergesOfferOneMachine == Spec => []MergeCandidatesAreOneMachine
  <1>1. Init => MergeCandidatesAreOneMachine
    BY DEF Init, MergeCandidatesAreOneMachine
  <1>2. IInv /\ MergeCandidatesAreOneMachine /\ [Next]_vars => MergeCandidatesAreOneMachine'
    <2> SUFFICES ASSUME IInv, MergeCandidatesAreOneMachine, [Next]_vars
                 PROVE  MergeCandidatesAreOneMachine'
      OBVIOUS
    <2>1. ASSUME UNCHANGED <<idents, merges>> PROVE MergeCandidatesAreOneMachine'
      BY <2>1 DEF MergeCandidatesAreOneMachine, IsOf
    <2>2. ASSUME NEW m \in Machine, NEW d \in Device, NEW obs \in ObservationOf(m),
                 Reconcile(obs, d)
          PROVE  MergeCandidatesAreOneMachine'
      <3>b. /\ idents'[d] = idents[d] \union Signals(obs)
            /\ \A e \in Device : idents[e] \subseteq idents'[e]
        BY <2>2, ReconcileKeeps DEF IInv
      <3>1. ASSUME NEW e \in Device, NEW n \in Machine, IsOf(e, n)
            PROVE  IsOf(e, n)'
        BY <3>1, <3>b DEF IsOf
      <3>2. ASSUME NEW p \in merges
            PROVE  \E n \in Machine : /\ IsOf(p.source, n)'
                                      /\ \A c \in p.candidates : IsOf(c, n)'
        <4>1. p.source \in Device /\ p.candidates \subseteq Device
          BY DEF IInv, TypeOK
        <4>2. QED
          BY <3>1, <4>1 DEF MergeCandidatesAreOneMachine
      <3>3. CASE UNCHANGED merges
        BY <3>2, <3>3 DEF MergeCandidatesAreOneMachine
      <3>4. CASE /\ Confident(obs) # {}
                 /\ merges' = merges \union {[source |-> d, candidates |-> Confident(obs)]}
        <4>1. \A c \in Confident(obs) : c \in Device /\ IsOf(c, m)
          BY ConfidentIsOwn DEF IInv, IsOf, Confident, Rows
        <4>2. IsOf(d, m)'
          BY <3>4, <3>b, ConfidentIsOwn DEF IInv, IsOf
        <4>3. QED
          BY <3>1, <3>2, <3>4, <4>1, <4>2 DEF MergeCandidatesAreOneMachine
      <3>5. QED
        BY <2>2, <3>3, <3>4 DEF Reconcile, Merge, CreateFromObservation
    <2>3. QED
      BY <2>1, <2>2, StepReconciles DEF IInv
  <1>3. QED
    BY <1>1, <1>2, IInvInit, IInvStep, PTL DEF Spec

===============================================================================
