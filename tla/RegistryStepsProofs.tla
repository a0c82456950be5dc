-------------------------- MODULE RegistryStepsProofs --------------------------
(***************************************************************************)
(* What RegistrySteps guarantees for any number of concurrent requests,    *)
(* whichever of their statements fail.                                     *)
(*                                                                         *)
(* Between the statements of a request the rows change under it.  The      *)
(* proof rests on what cannot be taken back: a row never loses an identity *)
(* and an answer that was sent is sent.  So a row that a request has       *)
(* settled on stays its machine's (RowInv), and a token that a request has *)
(* read, drawn or been shown stays with the row it was drawn for           *)
(* (TokenInv), even if another request writes it back later.               *)
(*                                                                         *)
(* At the end: one request at a time, and no failure, is Registry.         *)
(***************************************************************************)
EXTENDS RegistrySteps, RegistryProofs

\* What an observation of m may say.
OwnObservation(m, obs) ==
    /\ obs \in Observation
    /\ Signals(obs) \subseteq SignalsOf(m) \union IP
    /\ obs.agent # None => obs.agent = AgentIdOf[m]

Reconciles == {"byToken", "byAgent", "byMac", "weak", "touch", "pending"}

WellFormed(r) ==
    /\ r.kind \in {"observe", "register"} => r.m \in Machine /\ OwnObservation(r.m, r.obs)
    /\ r.kind = "register" => r.mint \in Token /\ r.obs.agent = AgentIdOf[r.m]
    /\ r.kind # "register" => r.mint = None
    /\ r.pc \in Reconciles => r.kind \in {"observe", "register"}
    /\ r.pc \in {"get", "upsert"} => r.kind \in {"register", "patch"}
    /\ r.pc \in {"byToken", "byAgent", "byMac", "weak"} => r.todo \subseteq WeakSignals(r.obs)
    /\ r.pc = "touch" => r.todo \subseteq Signals(r.obs)
    /\ r.read \in Row <=> r.pc = "upsert"
    /\ r.pc = "pending" => ConfidentIn(r.hits) # {}

\* What the weak lookups returned is still so: a row never loses an identity.
RealHit(h, obs) == h[1] \in WeakSignals(obs) /\ h[2] \in Device /\ h[1] \in idents[h[2]]
HitsAreReal == \A w \in Worker : \A h \in req[w].hits : RealHit(h, req[w].obs)

Requests == TypeOKSteps /\ HitsAreReal /\ \A w \in Worker : WellFormed(req[w])

-------------------------------------------------------------------------------
(***************************************************************************)
(* Tokens.                                                                 *)
(***************************************************************************)

\* The row has the token, or a request is about to write it back.
HasOrGets(d, t) ==
    \/ token[d] = t
    \/ \E w \in Worker : At(w, "upsert") /\ req[w].d = d /\ req[w].read.token = t

HeldWereAnswered == \A m \in Machine : holds[m] # None => <<m, holds[m]>> \in replies

ShownWereAnswered ==
    \A w \in Worker : req[w].kind \in {"observe", "register"} /\ req[w].obs.token \in Token =>
      <<req[w].m, req[w].obs.token>> \in replies

AnswersAreOwn ==
    \A m \in Machine, t \in Token, d \in Device :
      <<m, t>> \in replies /\ HasOrGets(d, t) => AgentIdOf[m] \in idents[d]

OneRowPerToken ==
    \A t \in Token, d, e \in Device : HasOrGets(d, t) /\ HasOrGets(e, t) => d = e

\* A token that a Register has drawn is nobody else's.
DrawnAreFresh ==
    \A w \in Worker, t \in Token : req[w].mint = t =>
      /\ \A d \in Device : ~HasOrGets(d, t)
      /\ \A m \in Machine : <<m, t>> \notin replies
      /\ \A v \in Worker : req[v].mint = t => v = w

TokenInv ==
    /\ HeldWereAnswered /\ ShownWereAnswered
    /\ AnswersAreOwn /\ OneRowPerToken /\ DrawnAreFresh

-------------------------------------------------------------------------------
(***************************************************************************)
(* Rows.                                                                   *)
(***************************************************************************)

\* The row a request has settled on has signals of its machine only, and no
\* request of another machine has settled on it.
SettledOnOwn ==
    \A w \in Worker : Settled(w) =>
      /\ \A n \in Machine : IsOf(req[w].d, n) => n = req[w].m
      /\ \A v \in Worker : Settled(v) /\ req[v].d = req[w].d => req[v].m = req[w].m

\* What was to be recorded has been, but for what is still to do.
RecordedSoFar ==
    \A w \in Worker : Settled(w) =>
      LET left == IF At(w, "touch") THEN req[w].todo ELSE {}
      IN  Signals(req[w].obs) \subseteq idents[req[w].d] \union left

RowInv == SettledOnOwn /\ RecordedSoFar

MergesInv == NoFalseMerge /\ MergeCandidatesAreOneMachine

StepsInv == Requests /\ TokenInv /\ RowInv /\ MergesInv

-------------------------------------------------------------------------------
(***************************************************************************)
(* Requests are well formed.                                               *)
(***************************************************************************)

HasRow == {"touch", "pending", "get", "upsert"}

SameRequest(q, r) == q.kind = r.kind /\ q.m = r.m /\ q.obs = r.obs /\ q.mint = r.mint

\* One request moves on; the rows stay.
LEMMA RequestMoves ==
    ASSUME Requests, NEW w \in Worker, NEW r \in Request, Go(w, r), WellFormed(r),
           \/ r.hits = {}
           \/ r.hits \subseteq req[w].hits /\ SameRequest(r, req[w])
           \/ \A h \in r.hits : RealHit(h, r.obs),
           r.pc \in HasRow => r.d \in Rows', Rows \subseteq Rows',
           \A e \in Device : idents[e] \subseteq idents'[e],
           TypeOK', arrived' \in 0 .. MaxRequests
    PROVE  Requests'
  <1>1. req \in [Worker -> Request]
    BY DEF Requests, TypeOKSteps
  <1>2. /\ req' \in [Worker -> Request]
        /\ \A v \in Worker : req'[v] = IF v = w THEN r ELSE req[v]
    BY <1>1 DEF Go
  <1>3. \A v \in Worker : req'[v].pc \in HasRow => req'[v].d \in Rows'
    BY <1>2 DEF Requests, TypeOKSteps, HasRow
  <1>4. \A v \in Worker : WellFormed(req'[v])
    BY <1>2 DEF Requests
  <1>5. \A h \in r.hits : RealHit(h, r.obs)
    BY DEF Requests, HitsAreReal, SameRequest
  <1>6. \A v \in Worker : \A h \in req'[v].hits : RealHit(h, req'[v].obs)
    BY <1>2, <1>5 DEF Requests, HitsAreReal
  <1>7. HitsAreReal'
    BY <1>6 DEF HitsAreReal, RealHit
  <1>8. QED
    BY <1>2, <1>3, <1>4, <1>7 DEF Requests, TypeOKSteps, HasRow

LEMMA IdleIsRequest == Idle \in Request /\ WellFormed(Idle)
  BY StepsAssumption DEF Idle, Request, PC, WellFormed, Reconciles

LEMMA ObservationIsOwn ==
    ASSUME TypeOK, NEW m \in Machine, NEW obs \in ObservationOf(m)
    PROVE  OwnObservation(m, obs) /\ WeakSignals(obs) \subseteq Identity
  BY ObservationType DEF OwnObservation, WeakSignals, Signals

\* A request as Start makes it.
LEMMA StartIsRequest ==
    ASSUME NEW m \in Machine, NEW r \in Request, OwnObservation(m, r.obs), r.m = m,
           WeakSignals(r.obs) \subseteq Identity, r.kind \in {"observe", "register"},
           r.kind = "register" => r.mint \in Token /\ r.obs.agent = AgentIdOf[m],
           r.kind = "observe" => r.mint = None,
           r.hits = {}, r.read = None,
           NEW q, q = Reconciling(r)
    PROVE  /\ q \in Request /\ WellFormed(q)
           /\ q.pc \in {"byToken", "byAgent", "byMac", "weak"}
           /\ q.m = m /\ q.obs = r.obs /\ q.mint = r.mint /\ q.hits = {}
  <1>1. FirstTier(r.obs) \in {"byToken", "byAgent", "byMac", "weak"}
    BY DEF FirstTier, AfterToken, AfterAgent
  <1>2. /\ q \in Request /\ q.pc = FirstTier(r.obs) /\ q.todo = WeakSignals(r.obs)
        /\ q.kind = r.kind /\ q.m = m /\ q.obs = r.obs /\ q.mint = r.mint /\ q.hits = {}
        /\ q.read = None
    <2>1. PICK first : first = FirstTier(r.obs)
      OBVIOUS
    <2>2. PICK weak : weak = WeakSignals(r.obs)
      OBVIOUS
    <2>3. q = [r EXCEPT !.pc = first, !.todo = weak]
      BY <2>1, <2>2 DEF Reconciling
    <2>4. first \in PC /\ weak \subseteq Identity
      BY <1>1, <2>1, <2>2 DEF PC
    <2>5. q \in Request
      BY <2>3, <2>4 DEF Request
    <2>6. /\ q.pc = first /\ q.todo = weak /\ q.kind = r.kind /\ q.m = r.m /\ q.obs = r.obs
          /\ q.mint = r.mint /\ q.hits = r.hits /\ q.read = r.read
      BY <2>3 DEF Request
    <2>7. QED
      BY <2>1, <2>2, <2>5, <2>6
  <1>3. QED
    BY <1>1, <1>2, StepsAssumption DEF WellFormed, Reconciles

-------------------------------------------------------------------------------
(***************************************************************************)
(* What each statement makes of its request.                               *)
(***************************************************************************)

LEMMA TheRequest ==
    ASSUME Requests, NEW w \in Worker
    PROVE  req[w] \in Request /\ WellFormed(req[w])
  BY DEF Requests, TypeOKSteps

LEMMA SignalsAreIdentities ==
    ASSUME NEW obs \in Observation
    PROVE  Signals(obs) \subseteq Identity /\ WeakSignals(obs) \subseteq Signals(obs)
  BY DEF Observation, Signals, WeakSignals, Identity

LEMMA MergeIntoShape ==
    ASSUME Requests, NEW w \in Worker, NEW d \in Device, MergeInto(w, d),
           req[w].pc \in {"byToken", "byAgent", "byMac", "weak"}
    PROVE  \E r \in Request :
             /\ Go(w, r) /\ WellFormed(r) /\ SameRequest(r, req[w])
             /\ r.pc = "touch" /\ r.d = d /\ r.todo = Signals(req[w].obs)
             /\ r.hits = req[w].hits
  <1>1. PICK r : r = [req[w] EXCEPT !.pc = "touch", !.d = d, !.todo = Signals(req[w].obs)]
    OBVIOUS
  <1>2. req[w] \in Request /\ WellFormed(req[w])
    BY TheRequest
  <1>3. Signals(req[w].obs) \subseteq Identity
    BY <1>2, SignalsAreIdentities DEF WellFormed, OwnObservation, Reconciles
  <1>4. r \in Request /\ SameRequest(r, req[w]) /\ r.hits = req[w].hits
        /\ r.pc = "touch" /\ r.d = d /\ r.todo = Signals(req[w].obs) /\ r.read = req[w].read
    BY <1>1, <1>2, <1>3 DEF Request, PC, SameRequest
  <1>5. WellFormed(r)
    BY <1>2, <1>4 DEF WellFormed, SameRequest, Reconciles
  <1>6. QED
    BY <1>1, <1>4, <1>5 DEF MergeInto

LEMMA LookupShape ==
    ASSUME Requests, NEW w \in Worker, NEW owners \in SUBSET Device,
           NEW next \in {"byAgent", "byMac", "weak"}, Lookup(w, owners, next),
           req[w].pc \in {"byToken", "byAgent", "byMac"}
    PROVE  \E r \in Request :
             /\ Go(w, r) /\ WellFormed(r) /\ SameRequest(r, req[w]) /\ r.hits = req[w].hits
             /\ \/ r.pc \in {"byAgent", "byMac", "weak"}
                \/ r.pc = "touch" /\ r.d \in owners /\ r.todo = Signals(req[w].obs)
  <1>1. ASSUME NEW d \in owners, MergeInto(w, d)
        PROVE  \E r \in Request :
             /\ Go(w, r) /\ WellFormed(r) /\ SameRequest(r, req[w]) /\ r.hits = req[w].hits
             /\ r.pc = "touch" /\ r.d \in owners /\ r.todo = Signals(req[w].obs)
    BY <1>1, MergeIntoShape
  <1>2. ASSUME Go(w, [req[w] EXCEPT !.pc = next])
        PROVE  \E r \in Request :
             /\ Go(w, r) /\ WellFormed(r) /\ SameRequest(r, req[w]) /\ r.hits = req[w].hits
             /\ r.pc \in {"byAgent", "byMac", "weak"}
    <2>1. PICK r : r = [req[w] EXCEPT !.pc = next]
      OBVIOUS
    <2>2. req[w] \in Request /\ WellFormed(req[w])
      BY TheRequest
    <2>3. r \in Request /\ SameRequest(r, req[w]) /\ r.hits = req[w].hits
          /\ r.pc = next /\ r.read = req[w].read /\ r.todo = req[w].todo
      BY <2>1, <2>2 DEF Request, PC, SameRequest
    <2>4. WellFormed(r)
      BY <2>2, <2>3 DEF WellFormed, SameRequest, Reconciles
    <2>5. QED
      BY <1>2, <2>1, <2>3, <2>4
  <1>3. QED
    BY <1>1, <1>2 DEF Lookup
\* The strong tiers, whichever of them asks.
MatchesStrongly(d, obs) ==
    d \in TokenOwners(obs.token) \union Owners(obs.agent) \union Owners(obs.mac)

LEMMA FindShape ==
    ASSUME Requests, NEW w \in Worker, FindByToken(w) \/ FindByAgent(w) \/ FindByMac(w)
    PROVE  /\ UNCHANGED <<rows, replies, holds, arrived>>
           /\ \E r \in Request :
                /\ Go(w, r) /\ WellFormed(r) /\ SameRequest(r, req[w]) /\ r.hits = req[w].hits
                /\ \/ r.pc \in {"byAgent", "byMac", "weak"}
                   \/ /\ r.pc = "touch" /\ r.d \in Rows /\ MatchesStrongly(r.d, r.obs)
                      /\ r.todo = Signals(r.obs)
  <1> DEFINE obs == req[w].obs
  <1>1. UNCHANGED <<rows, replies, holds, arrived>>
    BY DEF FindByToken, FindByAgent, FindByMac, Lookup
  <1>2. /\ AfterToken(obs) \in {"byAgent", "byMac", "weak"}
        /\ AfterAgent(obs) \in {"byAgent", "byMac", "weak"}
    BY DEF AfterToken, AfterAgent
  <1>3. ASSUME NEW owners, NEW next \in {"byAgent", "byMac", "weak"}, Lookup(w, owners, next),
               owners \in {TokenOwners(obs.token), Owners(obs.agent), Owners(obs.mac)},
               req[w].pc \in {"byToken", "byAgent", "byMac"}
        PROVE  \E r \in Request :
                 /\ Go(w, r) /\ WellFormed(r) /\ SameRequest(r, req[w]) /\ r.hits = req[w].hits
                 /\ \/ r.pc \in {"byAgent", "byMac", "weak"}
                    \/ /\ r.pc = "touch" /\ r.d \in Rows /\ MatchesStrongly(r.d, r.obs)
                       /\ r.todo = Signals(r.obs)
    <2>1. owners \subseteq Rows /\ \A d \in owners : MatchesStrongly(d, obs)
      BY <1>3 DEF TokenOwners, Owners, MatchesStrongly
    <2>2. owners \in SUBSET Device
      BY <2>1 DEF Rows
    <2>3. PICK r \in Request :
             /\ Go(w, r) /\ WellFormed(r) /\ SameRequest(r, req[w]) /\ r.hits = req[w].hits
             /\ \/ r.pc \in {"byAgent", "byMac", "weak"}
                \/ r.pc = "touch" /\ r.d \in owners /\ r.todo = Signals(obs)
      BY <1>3, <2>2, LookupShape
    <2>4. r.obs = obs
      BY <2>3 DEF SameRequest
    <2>5. QED
      BY <2>1, <2>3, <2>4
  <1>4. CASE FindByToken(w)
    BY <1>1, <1>2, <1>3, <1>4 DEF FindByToken, At
  <1>5. CASE FindByAgent(w)
    BY <1>1, <1>2, <1>3, <1>5 DEF FindByAgent, At
  <1>6. CASE FindByMac(w)
    BY <1>1, <1>3, <1>6 DEF FindByMac, At
  <1>7. QED
    BY <1>4, <1>5, <1>6

LEMMA WeakHitsShape ==
    ASSUME Requests, NEW w \in Worker, FindWeakHits(w)
    PROVE  /\ UNCHANGED <<rows, replies, holds, arrived>>
           /\ \E r \in Request :
                /\ Go(w, r) /\ WellFormed(r) /\ SameRequest(r, req[w]) /\ r.pc = "weak"
                /\ \A h \in r.hits : RealHit(h, r.obs)
  <1> DEFINE s == FirstWeakOf(req[w].obs, req[w].todo)
  <1>1. UNCHANGED <<rows, replies, holds, arrived>>
    BY DEF FindWeakHits
  <1>2. Go(w, [req[w] EXCEPT !.todo = @ \ {s}, !.hits = @ \union ({s} \X Owners(s))])
    BY DEF FindWeakHits
  <1>3. req[w] \in Request /\ WellFormed(req[w]) /\ req[w].pc = "weak" /\ req[w].todo # {}
    BY TheRequest DEF FindWeakHits, At
  <1>4. req[w].todo \subseteq WeakSignals(req[w].obs) /\ req[w].obs \in Observation
    BY <1>3 DEF WellFormed, Reconciles, OwnObservation
  <1>5. s \in WeakSignals(req[w].obs) /\ s \in Identity
    BY <1>3, <1>4, SignalsAreIdentities DEF FirstWeakOf, WeakSignals
  <1>6. {s} \X Owners(s) \in SUBSET (Identity \X Device)
    BY <1>5 DEF Owners, Rows
  <1> HIDE DEF s
  <1>r. PICK r : r = [req[w] EXCEPT !.todo = @ \ {s}, !.hits = @ \union ({s} \X Owners(s))]
    OBVIOUS
  <1>7. r \in Request /\ SameRequest(r, req[w]) /\ r.pc = "weak" /\ r.read = req[w].read
        /\ r.todo = req[w].todo \ {s} /\ r.hits = req[w].hits \union ({s} \X Owners(s))
    BY <1>r, <1>3, <1>6 DEF Request, PC, SameRequest
  <1>8. WellFormed(r)
    BY <1>3, <1>7 DEF WellFormed, SameRequest, Reconciles
  <1>9. \A h \in r.hits : RealHit(h, r.obs)
    BY <1>5, <1>7 DEF SameRequest, Requests, HitsAreReal, RealHit, Owners, Rows
  <1>10. Go(w, r)
    BY <1>2, <1>r
  <1>11. QED
    BY <1>1, <1>7, <1>8, <1>9, <1>10

LEMMA TouchShape ==
    ASSUME Requests, NEW w \in Worker, TouchIdentity(w)
    PROVE  /\ UNCHANGED <<state, token, merges, replies, holds, arrived>>
           /\ \E r \in Request, i \in req[w].todo :
                /\ Go(w, r) /\ WellFormed(r) /\ SameRequest(r, req[w]) /\ r.hits = req[w].hits
                /\ req[w].pc = "touch" /\ r.pc = "touch" /\ r.d = req[w].d /\ r.todo = req[w].todo \ {i}
                /\ idents' = [idents EXCEPT ![r.d] = @ \union {i}]
  <1> DEFINE i == FirstOf(req[w].obs, req[w].todo)
  <1>1. UNCHANGED <<state, token, merges, replies, holds, arrived>>
    BY DEF TouchIdentity
  <1>2. PICK r : r = [req[w] EXCEPT !.todo = req[w].todo \ {i}]
    OBVIOUS
  <1>3. req[w] \in Request /\ WellFormed(req[w]) /\ req[w].pc = "touch" /\ req[w].todo # {}
    BY TheRequest DEF TouchIdentity, At
  <1>4. req[w].todo \subseteq Signals(req[w].obs)
    BY <1>3 DEF WellFormed
  <1>5. i \in req[w].todo
    BY <1>3, <1>4 DEF FirstOf, Signals
  <1>6. Go(w, r) /\ idents' = [idents EXCEPT ![req[w].d] = @ \union {i}]
    BY <1>2 DEF TouchIdentity
  <1> HIDE DEF i
  <1>7. r \in Request /\ SameRequest(r, req[w]) /\ r.pc = "touch" /\ r.read = req[w].read
        /\ r.todo = req[w].todo \ {i} /\ r.hits = req[w].hits /\ r.d = req[w].d
    BY <1>2, <1>3 DEF Request, PC, SameRequest
  <1>8. WellFormed(r)
    BY <1>3, <1>7 DEF WellFormed, SameRequest, Reconciles
  <1>9. QED
    BY <1>1, <1>3, <1>5, <1>6, <1>7, <1>8

\* What ends a reconcile: the request is done, or goes on to issue the token.
LEMMA AfterReconcileShape ==
    ASSUME Requests, NEW w \in Worker, req[w].pc \in {"touch", "pending"}, AfterReconcile(w)
    PROVE  \E r \in Request :
             /\ Go(w, r) /\ WellFormed(r) /\ r.hits = {}
             /\ \/ r = Idle
                \/ SameRequest(r, req[w]) /\ r.kind = "register" /\ r.pc = "get" /\ r.d = req[w].d
  <1>1. CASE req[w].kind # "register"
    BY <1>1, IdleIsRequest DEF AfterReconcile, Done, Idle
  <1>2. CASE req[w].kind = "register"
    <2>1. PICK r : r = [req[w] EXCEPT !.pc = "get", !.hits = {}]
      OBVIOUS
    <2>2. req[w] \in Request /\ WellFormed(req[w])
      BY TheRequest
    <2>3. r \in Request /\ SameRequest(r, req[w]) /\ r.hits = {}
          /\ r.pc = "get" /\ r.read = req[w].read /\ r.d = req[w].d
      <3>1. PICK q \in Request : q = req[w]
        BY <2>2
      <3>2. r = [q EXCEPT !.pc = "get", !.hits = {}]
        BY <2>1, <3>1
      <3>3. r \in Request /\ r.pc = "get" /\ r.hits = {} /\ r.read = q.read /\ r.d = q.d
        BY <3>2 DEF Request, PC
      <3>4. SameRequest(r, q)
        BY <3>2 DEF Request, SameRequest
      <3>5. QED
        BY <3>1, <3>3, <3>4
    <2>4. WellFormed(r)
      BY <1>2, <2>2, <2>3 DEF WellFormed, SameRequest, Reconciles
    <2>5. QED
      BY <1>2, <2>1, <2>3, <2>4 DEF AfterReconcile, SameRequest
  <1>3. QED
    BY <1>1, <1>2
LEMMA TouchDeviceShape ==
    ASSUME Requests, NEW w \in Worker, TouchDevice(w)
    PROVE  /\ UNCHANGED <<rows, replies, holds, arrived>>
           /\ req[w].pc = "touch" /\ req[w].todo = {}
           /\ \E r \in Request :
                /\ Go(w, r) /\ WellFormed(r)
                /\ \/ r = Idle
                   \/ /\ SameRequest(r, req[w]) /\ r.d = req[w].d /\ r.hits \subseteq req[w].hits
                      /\ r.pc = "pending" \/ (r.kind = "register" /\ r.pc = "get")
  <1>1. /\ UNCHANGED <<rows, replies, holds, arrived>>
        /\ req[w].pc = "touch" /\ req[w].todo = {}
    BY DEF TouchDevice, At
  <1>2. ASSUME AfterReconcile(w)
        PROVE  \E r \in Request :
                /\ Go(w, r) /\ WellFormed(r)
                /\ \/ r = Idle
                   \/ /\ SameRequest(r, req[w]) /\ r.d = req[w].d /\ r.hits \subseteq req[w].hits
                      /\ r.kind = "register" /\ r.pc = "get"
    BY <1>1, <1>2, AfterReconcileShape
  <1>3. ASSUME Go(w, [req[w] EXCEPT !.pc = "pending"]), ConfidentIn(req[w].hits) # {}
        PROVE  \E r \in Request :
                /\ Go(w, r) /\ WellFormed(r)
                /\ SameRequest(r, req[w]) /\ r.d = req[w].d /\ r.hits \subseteq req[w].hits
                /\ r.pc = "pending"
    <2>1. PICK r : r = [req[w] EXCEPT !.pc = "pending"]
      OBVIOUS
    <2>2. req[w] \in Request /\ WellFormed(req[w])
      BY TheRequest
    <2>3. r \in Request /\ SameRequest(r, req[w]) /\ r.hits = req[w].hits
          /\ r.pc = "pending" /\ r.read = req[w].read /\ r.d = req[w].d
      BY <2>1, <2>2 DEF Request, PC, SameRequest
    <2>4. WellFormed(r)
      BY <1>1, <1>3, <2>2, <2>3 DEF WellFormed, SameRequest, Reconciles
    <2>5. QED
      BY <1>3, <2>1, <2>3, <2>4
  <1>4. QED
    BY <1>1, <1>2, <1>3 DEF TouchDevice

LEMMA PendingShape ==
    ASSUME Requests, NEW w \in Worker, CreatePendingMerge(w)
    PROVE  /\ UNCHANGED <<state, token, idents, replies, holds, arrived>>
           /\ req[w].pc = "pending"
           /\ merges' = merges \union {[source |-> req[w].d, candidates |-> ConfidentIn(req[w].hits)]}
           /\ \E r \in Request :
                /\ Go(w, r) /\ WellFormed(r) /\ r.hits = {}
                /\ \/ r = Idle
                   \/ SameRequest(r, req[w]) /\ r.kind = "register" /\ r.pc = "get" /\ r.d = req[w].d
  BY AfterReconcileShape DEF CreatePendingMerge, At

\* Get answers a Register whose row has a token; else the row is read.
LEMMA GetShape ==
    ASSUME Requests, NEW w \in Worker, Get(w)
    PROVE  /\ UNCHANGED <<rows, holds, arrived>>
           /\ req[w].pc = "get" /\ req[w].d \in Rows
           /\ \/ /\ req[w].kind = "register" /\ token[req[w].d] # None
                 /\ replies' = replies \union {<<req[w].m, token[req[w].d]>>}
                 /\ Go(w, Idle)
              \/ /\ UNCHANGED replies
                 /\ req[w].kind = "register" => token[req[w].d] = None
                 /\ \E r \in Request :
                      /\ Go(w, r) /\ WellFormed(r) /\ SameRequest(r, req[w])
                      /\ r.pc = "upsert" /\ r.d = req[w].d /\ r.hits = req[w].hits
                      /\ r.read.token = token[r.d]
  <1> DEFINE d == req[w].d
             row == [state |-> state[d], token |-> token[d]]
  <1>1. UNCHANGED <<rows, holds, arrived>> /\ req[w].pc = "get"
    BY DEF Get, At
  <1>2. req[w] \in Request /\ WellFormed(req[w]) /\ d \in Rows
    BY <1>1, TheRequest DEF Requests, TypeOKSteps
  <1>3. row \in Row /\ row.token = token[d]
    BY <1>2 DEF Requests, TypeOKSteps, TypeOK, Rows, Row
  <1>4. ASSUME Go(w, [req[w] EXCEPT !.pc = "upsert", !.read = row])
        PROVE  \E r \in Request :
                 /\ Go(w, r) /\ WellFormed(r) /\ SameRequest(r, req[w])
                 /\ r.pc = "upsert" /\ r.d = d /\ r.hits = req[w].hits
                 /\ r.read.token = token[r.d]
    <2> HIDE DEF row
    <2>1. PICK r : r = [req[w] EXCEPT !.pc = "upsert", !.read = row]
      OBVIOUS
    <2>3. r \in Request /\ SameRequest(r, req[w]) /\ r.hits = req[w].hits
          /\ r.pc = "upsert" /\ r.read = row /\ r.d = d
      BY <2>1, <1>2, <1>3 DEF Request, PC, SameRequest
    <2>4. WellFormed(r)
      BY <1>1, <1>2, <1>3, <2>3 DEF WellFormed, SameRequest, Reconciles
    <2>5. QED
      BY <1>3, <1>4, <2>1, <2>3, <2>4
  <1>5. CASE req[w].kind = "register" /\ token[d] # None
    BY <1>1, <1>2, <1>5 DEF Get, Done
  <1>6. CASE ~(req[w].kind = "register" /\ token[d] # None)
    BY <1>1, <1>2, <1>4, <1>6 DEF Get
  <1>7. QED
    BY <1>5, <1>6
-------------------------------------------------------------------------------
(***************************************************************************)
(* Types.                                                                  *)
(***************************************************************************)

\* How a request begins.
LEMMA ObserveShape ==
    ASSUME Requests, NEW w \in Worker, NEW m \in Machine, StartObserve(w, m)
    PROVE  /\ UNCHANGED <<rows, replies, holds>> /\ Arrive(w)
           /\ \E obs \in ObservationOf(m), r \in Request :
                /\ Go(w, r) /\ WellFormed(r) /\ r.pc \in {"byToken", "byAgent", "byMac", "weak"}
                /\ r.m = m /\ r.obs = obs /\ r.mint = None /\ r.hits = {}
  <1>1. PICK obs \in ScanObservation(m) \union CheckinObservation(m) :
          Go(w, Reconciling([Idle EXCEPT !.kind = "observe", !.m = m, !.obs = obs]))
    BY DEF StartObserve
  <1>2. obs \in ObservationOf(m)
    BY DEF ObservationOf
  <1>3. OwnObservation(m, obs) /\ WeakSignals(obs) \subseteq Identity
    BY <1>2, ObservationIsOwn DEF Requests, TypeOKSteps
  <1>4. PICK r : r = [Idle EXCEPT !.kind = "observe", !.m = m, !.obs = obs]
    OBVIOUS
  <1>5. PICK q : q = Reconciling(r)
    OBVIOUS
  <1>r. /\ r \in Request /\ r.kind = "observe" /\ r.m = m /\ r.obs = obs /\ r.mint = None
        /\ r.hits = {} /\ r.read = None
    BY <1>3, <1>4 DEF Idle, Request, PC, OwnObservation
  <1>6. /\ q \in Request /\ WellFormed(q) /\ q.pc \in {"byToken", "byAgent", "byMac", "weak"}
        /\ q.m = m /\ q.obs = obs /\ q.mint = None /\ q.hits = {}
    BY <1>3, <1>5, <1>r, StartIsRequest
  <1>7. Go(w, q)
    BY <1>1, <1>4, <1>5
  <1>8. QED
    BY <1>2, <1>6, <1>7 DEF StartObserve

LEMMA RegisterShape ==
    ASSUME Requests, NEW w \in Worker, NEW m \in Machine, StartRegister(w, m)
    PROVE  /\ UNCHANGED <<rows, replies, holds>> /\ Arrive(w)
           /\ \E obs \in ObservationOf(m), r \in Request, t \in Token :
                /\ Go(w, r) /\ WellFormed(r) /\ r.pc \in {"byToken", "byAgent", "byMac", "weak"}
                /\ r.m = m /\ r.obs = obs /\ r.mint = t /\ Undrawn(t) /\ r.hits = {}
  <1>1. PICK obs \in RegisterObservation(m), t \in Token :
          /\ Undrawn(t)
          /\ Go(w, Reconciling([Idle EXCEPT !.kind = "register", !.m = m, !.obs = obs, !.mint = t]))
    BY DEF StartRegister
  <1>2. obs \in ObservationOf(m) /\ obs.agent = AgentIdOf[m]
    BY DEF ObservationOf, RegisterObservation
  <1>3. OwnObservation(m, obs) /\ WeakSignals(obs) \subseteq Identity
    BY <1>2, ObservationIsOwn DEF Requests, TypeOKSteps
  <1>4. PICK r : r = [Idle EXCEPT !.kind = "register", !.m = m, !.obs = obs, !.mint = t]
    OBVIOUS
  <1>5. PICK q : q = Reconciling(r)
    OBVIOUS
  <1>r. /\ r \in Request /\ r.kind = "register" /\ r.m = m /\ r.obs = obs /\ r.mint = t
        /\ r.hits = {} /\ r.read = None
    BY <1>3, <1>4 DEF Idle, Request, PC, OwnObservation
  <1>6. /\ q \in Request /\ WellFormed(q) /\ q.pc \in {"byToken", "byAgent", "byMac", "weak"}
        /\ q.m = m /\ q.obs = obs /\ q.mint = t /\ q.hits = {}
    BY <1>2, <1>3, <1>5, <1>r, StartIsRequest
  <1>7. Go(w, q)
    BY <1>1, <1>4, <1>5
  <1>8. QED
    BY <1>1, <1>2, <1>6, <1>7 DEF StartRegister

LEMMA PatchShape ==
    ASSUME Requests, NEW w \in Worker, NEW d \in Device, StartPatch(w, d)
    PROVE  /\ UNCHANGED <<rows, replies, holds>> /\ Arrive(w)
           /\ \E r \in Request :
                /\ Go(w, r) /\ WellFormed(r) /\ r.pc = "get" /\ r.kind = "patch"
                /\ r.d = d /\ d \in Rows /\ r.mint = None /\ r.hits = {}
  <1>1. PICK s \in PatchState \union {"none"} :
          Go(w, [Idle EXCEPT !.pc = "get", !.kind = "patch", !.d = d, !.to = s])
    BY DEF StartPatch
  <1>2. PICK r : r = [Idle EXCEPT !.pc = "get", !.kind = "patch", !.d = d, !.to = s]
    OBVIOUS
  <1>3. r = [pc |-> "get", kind |-> "patch", m |-> None, obs |-> None, mint |-> None,
             to |-> s, d |-> d, hits |-> {}, todo |-> {}, read |-> None]
    BY <1>2 DEF Idle
  <1>4. r \in Request /\ WellFormed(r)
    BY <1>3, PatchStatesAreStates, StepsAssumption DEF Request, PC, WellFormed, Reconciles
  <1>5. Go(w, r)
    BY <1>1, <1>2
  <1>6. r.pc = "get" /\ r.kind = "patch" /\ r.d = d /\ r.mint = None /\ r.hits = {}
    BY <1>3
  <1>7. QED
    BY <1>4, <1>5, <1>6 DEF StartPatch
LEMMA RequestsInit == InitSteps => Requests
  <1> SUFFICES ASSUME InitSteps PROVE Requests
    OBVIOUS
  <1>1. TypeOK
    BY TypeInit DEF InitSteps
  <1>2. \A w \in Worker : req[w] = Idle
    BY DEF InitSteps
  <1>3. Idle.pc = "idle"
    BY DEF Idle
  <1>4. Idle.hits = {}
    BY DEF Idle
  <1>5. QED
    BY <1>1, <1>2, <1>3, <1>4, IdleIsRequest, StepsAssumption
    DEF InitSteps, Requests, TypeOKSteps, HitsAreReal

\* The handlers of Registry that are one statement here too.
LEMMA RegistryType ==
    ASSUME TypeOK,
           (\E d \in Device : Create(d)) \/ (\E m \in Machine : Deliver(m)) \/ UNCHANGED vars
    PROVE  TypeOK' /\ Rows \subseteq Rows'
  <1>1. TypeOK'
    BY TypeStep DEF Next
  <1>2. Rows \subseteq Rows'
    BY DEF Rows, Create, Deliver, vars, TypeOK
  <1>3. QED
    BY <1>1, <1>2

\* Upsert writes a row that is there, and leaves it one.
LEMMA UpsertWrites ==
    ASSUME TypeOK, NEW d \in Rows, NEW s \in DeviceState, NEW t \in Token \union {None},
           state' = [state EXCEPT ![d] = s], token' = [token EXCEPT ![d] = t],
           replies' \subseteq Machine \X Token, UNCHANGED <<idents, merges, holds>>
    PROVE  /\ TypeOK' /\ Rows' = Rows
           /\ \A e \in Device : token'[e] = IF e = d THEN t ELSE token[e]
  <1>1. /\ state' \in [Device -> DeviceState \union {"none"}]
        /\ \A e \in Device : state'[e] = IF e = d THEN s ELSE state[e]
    BY DEF TypeOK
  <1>2. /\ token' \in [Device -> Token \union {None}]
        /\ \A e \in Device : token'[e] = IF e = d THEN t ELSE token[e]
    BY DEF TypeOK
  <1>3. s # "none" /\ d \in Device /\ state[d] # "none"
    BY DEF DeviceState, Rows
  <1>4. QED
    BY <1>1, <1>2, <1>3 DEF TypeOK, Rows

LEMMA UpsertShape ==
    ASSUME Requests, NEW w \in Worker, UpsertRegister(w) \/ UpsertPatch(w)
    PROVE  /\ TypeOK' /\ Rows' = Rows
           /\ UNCHANGED <<idents, merges, holds, arrived>> /\ Go(w, Idle)
           /\ req[w].pc = "upsert" /\ req[w].d \in Rows
           /\ \/ /\ req[w].kind = "register" /\ req[w].m \in Machine /\ req[w].mint \in Token
                 /\ \A e \in Device : token'[e] = IF e = req[w].d THEN req[w].mint ELSE token[e]
                 /\ replies' = replies \union {<<req[w].m, req[w].mint>>}
              \/ /\ req[w].kind = "patch"
                 /\ \A e \in Device : token'[e] = IF e = req[w].d THEN req[w].read.token ELSE token[e]
                 /\ UNCHANGED replies
  <1> DEFINE d == req[w].d
  <1>1. req[w] \in Request /\ WellFormed(req[w]) /\ d \in Rows /\ req[w].read \in Row /\ TypeOK
    BY TheRequest DEF UpsertRegister, UpsertPatch, At, Requests, TypeOKSteps, WellFormed
  <1>2. CASE UpsertRegister(w)
    <2>1. /\ req[w].m \in Machine /\ req[w].mint \in Token /\ req[w].read.state \in DeviceState
          /\ req[w].mint \in Token \union {None}
      BY <1>1, <1>2 DEF UpsertRegister, WellFormed, Row
    <2>2. replies' \subseteq Machine \X Token
      BY <1>1, <1>2, <2>1 DEF UpsertRegister, TypeOK
    <2>3. /\ state' = [state EXCEPT ![d] = req[w].read.state]
          /\ token' = [token EXCEPT ![d] = req[w].mint]
          /\ UNCHANGED <<idents, merges, holds>>
      BY <1>2 DEF UpsertRegister
    <2>4. /\ TypeOK' /\ Rows' = Rows
          /\ \A e \in Device : token'[e] = IF e = d THEN req[w].mint ELSE token[e]
      BY <1>1, <2>1, <2>2, <2>3, UpsertWrites
    <2>5. QED
      BY <1>1, <1>2, <2>1, <2>4 DEF UpsertRegister, At, Done
  <1>3. CASE UpsertPatch(w)
    <2> DEFINE s == IF req[w].to = "none" THEN req[w].read.state ELSE req[w].to
    <2>1. s \in DeviceState /\ req[w].read.token \in Token \union {None}
      BY <1>1 DEF Row, Request
    <2>2. replies' \subseteq Machine \X Token
      BY <1>1, <1>3 DEF UpsertPatch, TypeOK
    <2>3. /\ state' = [state EXCEPT ![d] = s]
          /\ token' = [token EXCEPT ![d] = req[w].read.token]
          /\ UNCHANGED <<idents, merges, holds>>
      BY <1>3 DEF UpsertPatch
    <2> HIDE DEF s
    <2>4. /\ TypeOK' /\ Rows' = Rows
          /\ \A e \in Device : token'[e] = IF e = d THEN req[w].read.token ELSE token[e]
      BY <1>1, <2>1, <2>2, <2>3, UpsertWrites
    <2>5. QED
      BY <1>1, <1>3, <2>4 DEF UpsertPatch, At, Done
  <1>4. QED
    BY <1>2, <1>3

\* A row that is inserted was none before.
LEMMA InsertShape ==
    ASSUME Requests, NEW w \in Worker, NEW d \in Device, InsertRow(w, d)
    PROVE  /\ UNCHANGED <<token, idents, merges, replies, holds, arrived>>
           /\ d \notin Rows /\ Rows' = Rows \union {d} /\ TypeOK'
           /\ req[w].pc = "weak" /\ ~Single(ConfidentIn(req[w].hits))
           /\ \E r \in Request :
                /\ Go(w, r) /\ WellFormed(r) /\ SameRequest(r, req[w])
                /\ r.pc = "touch" /\ r.d = d /\ r.todo = Signals(req[w].obs)
                /\ r.hits = req[w].hits
  <1> DEFINE s == IF req[w].obs.source = "scan" THEN "discovered" ELSE "active"
  <1>1. /\ UNCHANGED <<token, idents, merges, replies, holds, arrived>>
        /\ d \notin Rows /\ state' = [state EXCEPT ![d] = s]
        /\ req[w].pc = "weak" /\ ~Single(ConfidentIn(req[w].hits)) /\ MergeInto(w, d)
    BY DEF InsertRow, Asked, At
  <1>2. s \in DeviceState
    BY DEF DeviceState
  <1>t. TypeOK
    BY DEF Requests, TypeOKSteps
  <1> HIDE DEF s
  <1>3. state' \in [Device -> DeviceState \union {"none"}]
        /\ \A e \in Device : state'[e] = IF e = d THEN s ELSE state[e]
    BY <1>t, <1>1, <1>2 DEF TypeOK
  <1>4. TypeOK' /\ Rows' = Rows \union {d}
    BY <1>t, <1>1, <1>2, <1>3 DEF TypeOK, Rows, DeviceState
  <1>5. QED
    BY <1>1, <1>4, MergeIntoShape

LEMMA RowsStay ==
    ASSUME Requests, UNCHANGED <<rows, replies, holds>>
    PROVE  TypeOK' /\ Rows' = Rows /\ idents' = idents
  BY DEF Requests, TypeOKSteps, rows, TypeOK, Rows

\* A row with hits is there, and has both.
LEMMA ConfidentHasHits ==
    ASSUME Requests, NEW w \in Worker, NEW d \in ConfidentIn(req[w].hits)
    PROVE  /\ d \in Rows
           /\ \E s, t \in WeakSignals(req[w].obs) : s # t /\ s \in idents[d] /\ t \in idents[d]
  <1>1. PICK h \in req[w].hits, k \in req[w].hits : h[1] # k[1] /\ h[2] = d /\ k[2] = d
    BY DEF ConfidentIn
  <1>2. RealHit(h, req[w].obs) /\ RealHit(k, req[w].obs)
    BY DEF Requests, HitsAreReal
  <1>3. /\ h[1] \in WeakSignals(req[w].obs) /\ k[1] \in WeakSignals(req[w].obs)
        /\ h[1] \in idents[d] /\ k[1] \in idents[d] /\ d \in Device
    BY <1>1, <1>2 DEF RealHit
  <1>4. QED
    BY <1>1, <1>3 DEF Requests, TypeOKSteps, TypeOK, Rows

LEMMA ArrivedType ==
    ASSUME Requests, UNCHANGED arrived \/ (arrived < MaxRequests /\ arrived' = arrived + 1)
    PROVE  arrived' \in 0 .. MaxRequests
  BY StepsAssumption DEF Requests, TypeOKSteps

LEMMA RequestsStep == Requests /\ [NextSteps]_allVars => Requests'
  <1> SUFFICES ASSUME Requests, [NextSteps]_allVars
               PROVE  Requests'
    OBVIOUS
  <1>t. TypeOK /\ Rows \subseteq Device
    BY DEF Requests, TypeOKSteps, Rows
  <1>1. ASSUME NEW w \in Worker, NEW m \in Machine, StartObserve(w, m) PROVE Requests'
    <2>1. UNCHANGED <<rows, replies, holds>> /\ Arrive(w)
      BY <1>1, ObserveShape
    <2>2. PICK r \in Request : /\ Go(w, r) /\ WellFormed(r) /\ r.hits = {}
                               /\ r.pc \in {"byToken", "byAgent", "byMac", "weak"}
      BY <1>1, ObserveShape
    <2>3. QED
      BY <2>1, <2>2, RowsStay, ArrivedType, RequestMoves DEF Arrive, HasRow
  <1>2. ASSUME NEW w \in Worker, NEW m \in Machine, StartRegister(w, m) PROVE Requests'
    <2>1. UNCHANGED <<rows, replies, holds>> /\ Arrive(w)
      BY <1>2, RegisterShape
    <2>2. PICK r \in Request : /\ Go(w, r) /\ WellFormed(r) /\ r.hits = {}
                               /\ r.pc \in {"byToken", "byAgent", "byMac", "weak"}
      BY <1>2, RegisterShape
    <2>3. QED
      BY <2>1, <2>2, RowsStay, ArrivedType, RequestMoves DEF Arrive, HasRow
  <1>3. ASSUME NEW w \in Worker, NEW d \in Device, StartPatch(w, d) PROVE Requests'
    <2>1. UNCHANGED <<rows, replies, holds>> /\ Arrive(w)
      BY <1>3, PatchShape
    <2>2. PICK r \in Request : Go(w, r) /\ WellFormed(r) /\ r.d \in Rows /\ r.hits = {}
      BY <1>3, PatchShape
    <2>3. QED
      BY <2>1, <2>2, RowsStay, ArrivedType, RequestMoves DEF Arrive
  <1>4. ASSUME NEW w \in Worker, FindByToken(w) \/ FindByAgent(w) \/ FindByMac(w) PROVE Requests'
    <2>1. UNCHANGED <<rows, replies, holds, arrived>>
      BY <1>4, FindShape
    <2>2. PICK r \in Request :
            /\ Go(w, r) /\ WellFormed(r) /\ SameRequest(r, req[w]) /\ r.hits = req[w].hits
            /\ r.pc \in {"byAgent", "byMac", "weak"} \/ r.d \in Rows
      BY <1>4, FindShape
    <2>3. QED
      BY <2>1, <2>2, RowsStay, ArrivedType, RequestMoves DEF HasRow
  <1>5. ASSUME NEW w \in Worker, FindWeakHits(w) PROVE Requests'
    <2>1. UNCHANGED <<rows, replies, holds, arrived>>
      BY <1>5, WeakHitsShape
    <2>2. PICK r \in Request : /\ Go(w, r) /\ WellFormed(r) /\ r.pc = "weak"
                               /\ \A h \in r.hits : RealHit(h, r.obs)
      BY <1>5, WeakHitsShape
    <2>3. QED
      BY <2>1, <2>2, RowsStay, ArrivedType, RequestMoves DEF HasRow
  <1>6. ASSUME NEW w \in Worker, MergeIntoConfident(w) PROVE Requests'
    <2>1. PICK d \in Device : ConfidentIn(req[w].hits) = {d} /\ MergeInto(w, d)
      BY <1>6 DEF MergeIntoConfident
    <2>2. UNCHANGED <<rows, replies, holds, arrived>> /\ req[w].pc = "weak"
      BY <1>6 DEF MergeIntoConfident, Asked, At
    <2>3. PICK r \in Request : /\ Go(w, r) /\ WellFormed(r) /\ r.d = d
                               /\ SameRequest(r, req[w]) /\ r.hits = req[w].hits
      BY <2>1, <2>2, MergeIntoShape
    <2>4. d \in Rows
      BY <2>1, ConfidentHasHits
    <2>5. QED
      BY <2>2, <2>3, <2>4, RowsStay, ArrivedType, RequestMoves
  <1>7. ASSUME NEW w \in Worker, NEW d \in Device, InsertRow(w, d) PROVE Requests'
    <2>1. UNCHANGED <<arrived, idents>> /\ TypeOK' /\ Rows' = Rows \union {d}
      BY <1>7, InsertShape
    <2>2. PICK r \in Request : /\ Go(w, r) /\ WellFormed(r) /\ r.d = d
                               /\ SameRequest(r, req[w]) /\ r.hits = req[w].hits
      BY <1>7, InsertShape
    <2>3. QED
      BY <2>1, <2>2, ArrivedType, RequestMoves
  <1>8. ASSUME NEW w \in Worker, TouchIdentity(w) PROVE Requests'
    <2>1. UNCHANGED <<state, token, merges, replies, holds, arrived>>
      BY <1>8, TouchShape
    <2>2. PICK r \in Request, i \in req[w].todo :
            /\ Go(w, r) /\ WellFormed(r) /\ req[w].pc = "touch" /\ r.d = req[w].d
            /\ SameRequest(r, req[w]) /\ r.hits = req[w].hits
            /\ idents' = [idents EXCEPT ![r.d] = @ \union {i}]
      BY <1>8, TouchShape
    <2>3. r.d \in Rows /\ i \in Identity
      BY <2>2, TheRequest DEF Requests, TypeOKSteps, Request
    <2>4. /\ idents' \in [Device -> SUBSET Identity]
          /\ \A e \in Device : e # r.d => idents'[e] = idents[e]
          /\ \A e \in Device : idents[e] \subseteq idents'[e]
      BY <1>t, <2>2, <2>3 DEF TypeOK
    <2>5. TypeOK' /\ Rows' = Rows
      BY <1>t, <2>1, <2>3, <2>4 DEF TypeOK, Rows
    <2>6. QED
      BY <2>1, <2>2, <2>3, <2>4, <2>5, ArrivedType, RequestMoves
  <1>9. ASSUME NEW w \in Worker, TouchDevice(w) PROVE Requests'
    <2>1. UNCHANGED <<rows, replies, holds, arrived>> /\ req[w].pc = "touch"
      BY <1>9, TouchDeviceShape
    <2>2. PICK r \in Request :
            /\ Go(w, r) /\ WellFormed(r)
            /\ r = Idle \/ (r.d = req[w].d /\ SameRequest(r, req[w]) /\ r.hits \subseteq req[w].hits)
      BY <1>9, TouchDeviceShape
    <2>3. req[w].d \in Rows /\ Idle.pc = "idle" /\ Idle.hits = {}
      BY <2>1 DEF Requests, TypeOKSteps, Idle
    <2>4. QED
      BY <2>1, <2>2, <2>3, RowsStay, ArrivedType, RequestMoves DEF HasRow
  <1>10. ASSUME NEW w \in Worker, CreatePendingMerge(w) PROVE Requests'
    <2>1. /\ UNCHANGED <<state, token, idents, replies, holds, arrived>> /\ req[w].pc = "pending"
          /\ merges' = merges \union {[source |-> req[w].d, candidates |-> ConfidentIn(req[w].hits)]}
      BY <1>10, PendingShape
    <2>2. PICK r \in Request : Go(w, r) /\ WellFormed(r) /\ r.hits = {} /\ (r = Idle \/ r.d = req[w].d)
      BY <1>10, PendingShape
    <2>3. req[w].d \in Rows /\ Idle.pc = "idle"
      BY <2>1 DEF Requests, TypeOKSteps, Idle
    <2>4. ConfidentIn(req[w].hits) \subseteq Device /\ req[w].d \in Device
      BY <1>t, <2>3 DEF ConfidentIn
    <2>5. TypeOK' /\ Rows' = Rows
      BY <1>t, <2>1, <2>4 DEF TypeOK, Rows
    <2>6. QED
      BY <2>1, <2>2, <2>3, <2>5, ArrivedType, RequestMoves DEF HasRow
  <1>11. ASSUME NEW w \in Worker, Get(w) PROVE Requests'
    <2>1. UNCHANGED <<rows, holds, arrived>> /\ req[w].d \in Rows
      BY <1>11, GetShape
    <2>2. PICK r \in Request :
            /\ Go(w, r) /\ WellFormed(r)
            /\ r = Idle \/ (r.d = req[w].d /\ SameRequest(r, req[w]) /\ r.hits = req[w].hits)
      BY <1>11, GetShape, IdleIsRequest
    <2>3. replies' \subseteq Machine \X Token
      <3>1. CASE UNCHANGED replies
        BY <1>t, <3>1 DEF TypeOK
      <3>2. CASE /\ req[w].kind = "register" /\ token[req[w].d] # None
                 /\ replies' = replies \union {<<req[w].m, token[req[w].d]>>}
        <4>1. req[w].m \in Machine /\ token[req[w].d] \in Token
          BY <1>t, <2>1, <3>2, TheRequest DEF WellFormed, TypeOK
        <4>2. QED
          BY <1>t, <3>2, <4>1 DEF TypeOK
      <3>3. QED
        BY <1>11, <3>1, <3>2, GetShape
    <2>4. TypeOK' /\ Rows' = Rows /\ idents' = idents
      BY <1>t, <2>1, <2>3 DEF rows, TypeOK, Rows
    <2>5. Idle.pc = "idle" /\ Idle.hits = {}
      BY DEF Idle
    <2>6. QED
      BY <2>1, <2>2, <2>4, <2>5, ArrivedType, RequestMoves DEF HasRow
  <1>12. ASSUME NEW w \in Worker, UpsertRegister(w) \/ UpsertPatch(w) PROVE Requests'
    <2>1. TypeOK' /\ Rows' = Rows /\ UNCHANGED <<arrived, idents>> /\ Go(w, Idle)
      BY <1>12, UpsertShape
    <2>2. Idle.pc = "idle" /\ Idle.hits = {}
      BY DEF Idle
    <2>3. QED
      BY <2>1, <2>2, IdleIsRequest, ArrivedType, RequestMoves DEF HasRow
  <1>13. ASSUME NEW w \in Worker, Fail(w) PROVE Requests'
    <2>1. UNCHANGED <<rows, replies, holds, arrived>> /\ Go(w, Idle)
          /\ Idle.pc = "idle" /\ Idle.hits = {}
      BY <1>13 DEF Fail, Done, Idle
    <2>2. QED
      BY <2>1, IdleIsRequest, RowsStay, ArrivedType, RequestMoves DEF HasRow
  <1>14. ASSUME UNCHANGED <<req, idents>>, arrived' \in 0 .. MaxRequests, TypeOK', Rows \subseteq Rows'
         PROVE  Requests'
    BY <1>14 DEF Requests, TypeOKSteps, HitsAreReal, RealHit
  <1>15. ASSUME NEW d \in Device, CreateByHand(d) PROVE Requests'
    BY <1>t, <1>14, <1>15, RegistryType, ArrivedType DEF CreateByHand, Create
  <1>16. ASSUME NEW m \in Machine, DeliverReply(m) PROVE Requests'
    BY <1>t, <1>14, <1>16, RegistryType, ArrivedType DEF DeliverReply, Deliver
  <1>17. CASE UNCHANGED allVars
    BY <1>t, <1>14, <1>17, RegistryType, ArrivedType DEF allVars, vars
  <1>18. QED
    BY <1>1, <1>2, <1>3, <1>4, <1>5, <1>6, <1>7, <1>8, <1>9, <1>10, <1>11, <1>12, <1>13,
       <1>15, <1>16, <1>17 DEF NextSteps, Work

\* Whatever the interleaving and wherever statements fail: requests are well
\* formed, the row a request works on stays there, and only rows that exist
\* carry identities or a token.
THEOREM StepsTypeCorrect == SpecSteps => []TypeOKSteps
  <1>1. Requests => TypeOKSteps
    BY DEF Requests
  <1>2. QED
    BY <1>1, RequestsInit, RequestsStep, PTL DEF SpecSteps

-------------------------------------------------------------------------------
(***************************************************************************)
(* Tokens stay with their rows.                                            *)
(***************************************************************************)

\* One request moves on and no row gains a token that it did not have, nor
\* was about to be given back.
LEMMA TokenMoves ==
    ASSUME Requests, TokenInv, NEW w \in Worker, NEW r \in Request, Go(w, r),
           \A e \in Device, t \in Token : HasOrGets(e, t)' => HasOrGets(e, t),
           \A e \in Device : idents[e] \subseteq idents'[e],
           UNCHANGED <<replies, holds>>,
           r.mint = req[w].mint \/ r.mint = None \/ Undrawn(r.mint),
           r.kind \in {"observe", "register"} /\ r.obs.token \in Token =>
             <<r.m, r.obs.token>> \in replies
    PROVE  TokenInv'
  <1>1. \A v \in Worker : req'[v] = IF v = w THEN r ELSE req[v]
    BY DEF Go, Requests, TypeOKSteps
  <1>2. HeldWereAnswered'
    BY DEF TokenInv, HeldWereAnswered
  <1>3. ShownWereAnswered'
    BY <1>1 DEF TokenInv, ShownWereAnswered
  <1>4. AnswersAreOwn'
    BY DEF TokenInv, AnswersAreOwn
  <1>5. OneRowPerToken'
    BY DEF TokenInv, OneRowPerToken
  <1>6. ASSUME NEW t \in Token, Undrawn(t)
        PROVE  /\ \A d \in Device : ~HasOrGets(d, t)
               /\ \A m \in Machine : <<m, t>> \notin replies
               /\ \A v \in Worker : req[v].mint # t
    BY <1>6, StepsAssumption DEF Undrawn, Unissued, HasOrGets, At, Requests, WellFormed
  <1>7. \A v \in Worker, t \in Token : req'[v].mint = t =>
          /\ \A d \in Device : ~HasOrGets(d, t)
          /\ \A m \in Machine : <<m, t>> \notin replies
          /\ \A u \in Worker : req'[u].mint = t => u = v
    <2>1. SUFFICES ASSUME NEW v \in Worker, NEW t \in Token, req'[v].mint = t
                   PROVE  /\ \A d \in Device : ~HasOrGets(d, t)
                          /\ \A m \in Machine : <<m, t>> \notin replies
                          /\ \A u \in Worker : req'[u].mint = t => u = v
      OBVIOUS
    <2>2. t # None
      BY KindsAreDisjoint
    <2>3. CASE req[v].mint = t
      BY <1>1, <1>6, <2>1, <2>2, <2>3 DEF TokenInv, DrawnAreFresh
    <2>4. CASE req[v].mint # t
      BY <1>1, <1>6, <2>1, <2>2, <2>4
    <2>5. QED
      BY <2>3, <2>4
  <1>8. DrawnAreFresh'
    BY <1>7 DEF DrawnAreFresh
  <1>9. QED
    BY <1>2, <1>3, <1>4, <1>5, <1>8 DEF TokenInv

\* So it is when the tokens stay and the request does not read its row.
LEMMA NothingGained ==
    ASSUME Requests, NEW w \in Worker, NEW r \in Request, Go(w, r),
           NEW e \in Device, NEW t \in Token,
           \/ UNCHANGED token /\ (r.pc = "upsert" => r.read.token = token[r.d])
           \/ r.pc # "upsert" /\ HasOrGets(req[w].d, req[w].read.token)
              /\ req[w].pc = "upsert"
              /\ \A f \in Device : token'[f] = IF f = req[w].d THEN req[w].read.token ELSE token[f],
           HasOrGets(e, t)'
    PROVE  HasOrGets(e, t)
  <1>1. \A v \in Worker : req'[v] = IF v = w THEN r ELSE req[v]
    BY DEF Go, Requests, TypeOKSteps
  <1>2. QED
    BY <1>1 DEF HasOrGets, At

\* A request that goes on, or ends.
LEMMA TokenQuiet ==
    ASSUME Requests, TokenInv, NEW w \in Worker, NEW r \in Request, Go(w, r),
           UNCHANGED <<token, replies, holds>>,
           \A e \in Device : idents[e] \subseteq idents'[e],
           r = Idle \/ SameRequest(r, req[w]),
           r.pc = "upsert" => r.read.token = token[r.d]
    PROVE  TokenInv'
  <1>1. \A e \in Device, t \in Token : HasOrGets(e, t)' => HasOrGets(e, t)
    BY NothingGained
  <1>2. CASE r = Idle
    <2>1. r.mint = None /\ r.kind = "none"
      BY <1>2 DEF Idle
    <2>2. QED
      BY <1>1, <2>1, TokenMoves
  <1>3. CASE SameRequest(r, req[w])
    <2>1. r.kind \in {"observe", "register"} /\ r.obs.token \in Token =>
             <<r.m, r.obs.token>> \in replies
      BY <1>3 DEF SameRequest, TokenInv, ShownWereAnswered
    <2>2. r.mint = req[w].mint
      BY <1>3 DEF SameRequest
    <2>3. QED
      BY <1>1, <2>1, <2>2, TokenMoves
  <1>4. QED
    BY <1>2, <1>3

\* What an agent shows was answered to it.
LEMMA ShownByAgent ==
    ASSUME Requests, TokenInv, NEW m \in Machine, NEW obs \in ObservationOf(m), obs.token \in Token
    PROVE  <<m, obs.token>> \in replies
  <1>1. obs.token = holds[m] /\ holds[m] # None
    BY ObservationType, KindsAreDisjoint DEF Requests, TypeOKSteps
  <1>2. QED
    BY <1>1 DEF TokenInv, HeldWereAnswered

\* A Register that answers has recorded its agent id on the row.
LEMMA RegistersOwnRow ==
    ASSUME Requests, RecordedSoFar, NEW w \in Worker, req[w].kind = "register",
           req[w].pc \in {"get", "upsert"}
    PROVE  req[w].m \in Machine /\ AgentIdOf[req[w].m] \in idents[req[w].d]
  <1>1. WellFormed(req[w])
    BY TheRequest
  <1>2. req[w].m \in Machine /\ req[w].obs.agent = AgentIdOf[req[w].m]
    BY <1>1 DEF WellFormed
  <1>3. Signals(req[w].obs) \subseteq idents[req[w].d]
    BY DEF RecordedSoFar, Settled, At
  <1>4. AgentIdOf[req[w].m] # None
    BY <1>2, KindsAreDisjoint, MachinesHaveSignals DEF Identity
  <1>5. QED
    BY <1>2, <1>3, <1>4 DEF Signals

\* Register answers with a token its row has, or gets.
LEMMA TokenAnswered ==
    ASSUME Requests, TokenInv, NEW w \in Worker, NEW d \in Device, NEW m \in Machine,
           NEW t \in Token, AgentIdOf[m] \in idents[d], Go(w, Idle),
           replies' = replies \union {<<m, t>>}, UNCHANGED <<idents, holds>>,
           \/ UNCHANGED token /\ token[d] = t
           \/ req[w].mint = t /\ \A e \in Device : token'[e] = IF e = d THEN t ELSE token[e]
    PROVE  TokenInv'
  <1>1. \A v \in Worker : req'[v] = IF v = w THEN Idle ELSE req[v]
    BY DEF Go, Requests, TypeOKSteps
  <1>2. Idle.mint = None /\ Idle.kind = "none" /\ Idle.pc = "idle" /\ None \notin Token
    BY KindsAreDisjoint DEF Idle
  <1>3. HeldWereAnswered'
    BY DEF TokenInv, HeldWereAnswered
  <1>4. ShownWereAnswered'
    BY <1>1, <1>2 DEF TokenInv, ShownWereAnswered
  <1>5. ASSUME NEW e \in Device, NEW u \in Token, HasOrGets(e, u)'
        PROVE  IF u = t THEN e = d ELSE HasOrGets(e, u)
    <2>1. CASE UNCHANGED token /\ token[d] = t
      <3>1. HasOrGets(e, u) /\ HasOrGets(d, t)
        BY <1>1, <1>2, <1>5, <2>1 DEF HasOrGets, At
      <3>2. QED
        BY <3>1 DEF TokenInv, OneRowPerToken
    <2>2. CASE req[w].mint = t /\ \A f \in Device : token'[f] = IF f = d THEN t ELSE token[f]
      <3>1. ~HasOrGets(e, t)
        BY <2>2 DEF TokenInv, DrawnAreFresh
      <3>2. QED
        BY <1>1, <1>2, <1>5, <2>2, <3>1 DEF HasOrGets, At
    <2>3. QED
      BY <2>1, <2>2
  <1>6. ASSUME NEW n \in Machine, <<n, t>> \in replies
        PROVE  AgentIdOf[n] \in idents[d]
    BY <1>6 DEF TokenInv, AnswersAreOwn, DrawnAreFresh, HasOrGets
  <1>7. AnswersAreOwn'
    <2>1. SUFFICES ASSUME NEW n \in Machine, NEW u \in Token, NEW e \in Device,
                          <<n, u>> \in replies', HasOrGets(e, u)'
                   PROVE  AgentIdOf[n] \in idents[e]
      BY DEF AnswersAreOwn
    <2>2. CASE u = t
      BY <1>5, <1>6, <2>1, <2>2
    <2>3. CASE u # t
      BY <1>5, <2>1, <2>3 DEF TokenInv, AnswersAreOwn
    <2>4. QED
      BY <2>2, <2>3
  <1>8. OneRowPerToken'
    BY <1>5 DEF TokenInv, OneRowPerToken
  <1>9. DrawnAreFresh'
    <2>1. SUFFICES ASSUME NEW v \in Worker, NEW u \in Token, req'[v].mint = u
                   PROVE  /\ \A e \in Device : ~HasOrGets(e, u)'
                          /\ \A n \in Machine : <<n, u>> \notin replies'
                          /\ \A z \in Worker : req'[z].mint = u => z = v
      BY DEF DrawnAreFresh
    <2>2. v # w /\ req[v].mint = u
      BY <1>1, <1>2, <2>1
    <2>3. u # t
      BY <2>2 DEF TokenInv, DrawnAreFresh, HasOrGets
    <2>4. QED
      BY <1>1, <1>2, <1>5, <2>2, <2>3 DEF TokenInv, DrawnAreFresh
  <1>10. QED
    BY <1>3, <1>4, <1>7, <1>8, <1>9 DEF TokenInv

LEMMA TokenStep == Requests /\ TokenInv /\ RecordedSoFar /\ [NextSteps]_allVars => TokenInv'
  <1> SUFFICES ASSUME Requests, TokenInv, RecordedSoFar, [NextSteps]_allVars
               PROVE  TokenInv'
    OBVIOUS
  <1>1. ASSUME NEW w \in Worker, NEW m \in Machine, NEW r \in Request, NEW obs \in ObservationOf(m),
               UNCHANGED <<rows, replies, holds>>, Go(w, r), r.pc \in {"byToken", "byAgent", "byMac", "weak"},
               r.m = m, r.obs = obs, r.mint = None \/ Undrawn(r.mint)
        PROVE  TokenInv'
    <2>1. UNCHANGED <<token, idents>>
      BY <1>1 DEF rows
    <2>2. \A e \in Device, t \in Token : HasOrGets(e, t)' => HasOrGets(e, t)
      BY <1>1, <2>1, NothingGained
    <2>3. r.obs.token \in Token => <<r.m, r.obs.token>> \in replies
      BY <1>1, ShownByAgent
    <2>4. QED
      BY <1>1, <2>1, <2>2, <2>3, TokenMoves
  <1>2. ASSUME NEW w \in Worker, NEW m \in Machine, StartObserve(w, m) PROVE TokenInv'
    BY <1>1, <1>2, ObserveShape
  <1>3. ASSUME NEW w \in Worker, NEW m \in Machine, StartRegister(w, m) PROVE TokenInv'
    BY <1>1, <1>3, RegisterShape
  <1>4. ASSUME NEW w \in Worker, NEW d \in Device, StartPatch(w, d) PROVE TokenInv'
    <2>1. UNCHANGED <<token, idents, replies, holds>>
      BY <1>4, PatchShape DEF rows
    <2>2. PICK r \in Request : Go(w, r) /\ r.pc = "get" /\ r.kind = "patch" /\ r.mint = None
      BY <1>4, PatchShape
    <2>3. \A e \in Device, t \in Token : HasOrGets(e, t)' => HasOrGets(e, t)
      BY <2>1, <2>2, NothingGained
    <2>4. QED
      BY <2>1, <2>2, <2>3, TokenMoves
  <1>5. ASSUME NEW w \in Worker, NEW r \in Request, Go(w, r),
               UNCHANGED <<token, replies, holds>>, \A e \in Device : idents[e] \subseteq idents'[e],
               r = Idle \/ SameRequest(r, req[w]), r.pc # "upsert"
        PROVE  TokenInv'
    BY <1>5, TokenQuiet
  <1>6. ASSUME NEW w \in Worker, FindByToken(w) \/ FindByAgent(w) \/ FindByMac(w) PROVE TokenInv'
    BY <1>5, <1>6, FindShape DEF rows
  <1>7. ASSUME NEW w \in Worker, FindWeakHits(w) PROVE TokenInv'
    BY <1>5, <1>7, WeakHitsShape DEF rows
  <1>8. ASSUME NEW w \in Worker, MergeIntoConfident(w) PROVE TokenInv'
    <2>1. PICK d \in Device : MergeInto(w, d)
      BY <1>8 DEF MergeIntoConfident
    <2>2. UNCHANGED <<token, idents, replies, holds>> /\ req[w].pc = "weak"
      BY <1>8 DEF MergeIntoConfident, Asked, At, rows
    <2>3. QED
      BY <1>5, <2>1, <2>2, MergeIntoShape
  <1>9. ASSUME NEW w \in Worker, NEW d \in Device, InsertRow(w, d) PROVE TokenInv'
    BY <1>5, <1>9, InsertShape
  <1>10. ASSUME NEW w \in Worker, TouchIdentity(w) PROVE TokenInv'
    <2>1. UNCHANGED <<token, replies, holds>>
      BY <1>10, TouchShape
    <2>2. PICK r \in Request, i \in req[w].todo :
            /\ Go(w, r) /\ SameRequest(r, req[w]) /\ r.pc = "touch"
            /\ idents' = [idents EXCEPT ![r.d] = @ \union {i}]
      BY <1>10, TouchShape
    <2>3. \A e \in Device : idents[e] \subseteq idents'[e]
      BY <2>2 DEF Requests, TypeOKSteps, TypeOK
    <2>4. QED
      BY <1>5, <2>1, <2>2, <2>3
  <1>11. ASSUME NEW w \in Worker, TouchDevice(w) PROVE TokenInv'
    BY <1>5, <1>11, TouchDeviceShape, IdleIsRequest DEF rows, Idle
  <1>12. ASSUME NEW w \in Worker, CreatePendingMerge(w) PROVE TokenInv'
    BY <1>5, <1>12, PendingShape DEF Idle
  <1>13. ASSUME NEW w \in Worker, Get(w) PROVE TokenInv'
    <2>1. UNCHANGED <<token, idents, holds>> /\ req[w].d \in Device /\ req[w].pc = "get"
      BY <1>13, GetShape DEF rows, Rows
    <2>2. CASE /\ req[w].kind = "register" /\ token[req[w].d] # None
               /\ replies' = replies \union {<<req[w].m, token[req[w].d]>>}
               /\ Go(w, Idle)
      <3>1. token[req[w].d] \in Token
        BY <2>1, <2>2 DEF Requests, TypeOKSteps, TypeOK
      <3>2. req[w].m \in Machine /\ AgentIdOf[req[w].m] \in idents[req[w].d]
        BY <2>1, <2>2, RegistersOwnRow
      <3>3. QED
        BY <2>1, <2>2, <3>1, <3>2, TokenAnswered
    <2>3. CASE /\ UNCHANGED replies
               /\ \E r \in Request : /\ Go(w, r) /\ SameRequest(r, req[w])
                                     /\ r.read.token = token[r.d]
      BY <2>1, <2>3, TokenQuiet
    <2>4. QED
      BY <1>13, <2>2, <2>3, GetShape
  <1>14. ASSUME NEW w \in Worker, UpsertRegister(w) \/ UpsertPatch(w) PROVE TokenInv'
    <2>1. /\ UNCHANGED <<idents, holds>> /\ Go(w, Idle)
          /\ req[w].pc = "upsert" /\ req[w].d \in Device
      BY <1>14, UpsertShape DEF Rows
    <2>2. CASE /\ req[w].kind = "register" /\ req[w].m \in Machine /\ req[w].mint \in Token
               /\ \A e \in Device : token'[e] = IF e = req[w].d THEN req[w].mint ELSE token[e]
               /\ replies' = replies \union {<<req[w].m, req[w].mint>>}
      <3>1. AgentIdOf[req[w].m] \in idents[req[w].d]
        BY <2>1, <2>2, RegistersOwnRow
      <3>2. QED
        BY <2>1, <2>2, <3>1, TokenAnswered
    <2>3. CASE /\ req[w].kind = "patch"
               /\ \A e \in Device : token'[e] = IF e = req[w].d THEN req[w].read.token ELSE token[e]
               /\ UNCHANGED replies
      <3>1. HasOrGets(req[w].d, req[w].read.token)
        BY <2>1 DEF HasOrGets, At
      <3>2. Idle.pc # "upsert" /\ Idle.mint = None /\ Idle.kind = "none" /\ Idle \in Request
        BY IdleIsRequest DEF Idle
      <3>3. \A e \in Device, t \in Token : HasOrGets(e, t)' => HasOrGets(e, t)
        BY <2>1, <2>3, <3>1, <3>2, NothingGained
      <3>4. QED
        BY <2>1, <2>3, <3>2, <3>3, TokenMoves
    <2>4. QED
      BY <1>14, <2>2, <2>3, UpsertShape
  <1>15. ASSUME NEW w \in Worker, Fail(w) PROVE TokenInv'
    BY <1>5, <1>15, IdleIsRequest DEF Fail, Done, rows, Idle
  <1>16. ASSUME UNCHANGED <<token, idents, replies, req>>,
                \A m \in Machine : holds'[m] # None => <<m, holds'[m]>> \in replies
         PROVE  TokenInv'
    BY <1>16 DEF TokenInv, HeldWereAnswered, ShownWereAnswered, AnswersAreOwn, OneRowPerToken,
                 DrawnAreFresh, HasOrGets, At
  <1>17. ASSUME NEW d \in Device, CreateByHand(d) PROVE TokenInv'
    BY <1>16, <1>17 DEF CreateByHand, Create, TokenInv, HeldWereAnswered
  <1>18. ASSUME NEW m \in Machine, DeliverReply(m) PROVE TokenInv'
    BY <1>16, <1>18 DEF DeliverReply, Deliver, TokenInv, HeldWereAnswered, Requests, TypeOKSteps, TypeOK
  <1>19. CASE UNCHANGED allVars
    BY <1>16, <1>19 DEF allVars, TokenInv, HeldWereAnswered
  <1>20. QED
    BY <1>2, <1>3, <1>4, <1>6, <1>7, <1>8, <1>9, <1>10, <1>11, <1>12, <1>13, <1>14, <1>15,
       <1>17, <1>18, <1>19 DEF NextSteps, Work

-------------------------------------------------------------------------------
(***************************************************************************)
(* Rows stay with their machines.                                          *)
(***************************************************************************)

LEMMA SignalsAreNoAddresses ==
    ASSUME NEW m \in Machine, NEW i \in SignalsOf(m)
    PROVE  i \notin IP
  BY MachinesHaveSignals, KindsAreDisjoint DEF SignalsOf, Mac

\* Two weak signals of m's point to its row: one of them is no IP address.
LEMMA ConfidentRowIsOwn ==
    ASSUME Requests, NEW w \in Worker, req[w].kind \in {"observe", "register"},
           NEW d \in ConfidentIn(req[w].hits)
    PROVE  \E i \in WeakSignals(req[w].obs) : i \in SignalsOf(req[w].m) /\ i \in idents[d]
  <1> DEFINE obs == req[w].obs
  <1>1. PICK s \in WeakSignals(obs), t \in WeakSignals(obs) :
          s # t /\ s \in idents[d] /\ t \in idents[d]
    BY ConfidentHasHits
  <1>2. obs \in Observation /\ Signals(obs) \subseteq SignalsOf(req[w].m) \union IP
    BY TheRequest DEF WellFormed, OwnObservation
  <1>3. ASSUME NEW i \in WeakSignals(obs) PROVE i \in SignalsOf(req[w].m) \/ i = obs.ip
    <2>1. i \in Signals(obs)
      BY <1>2, SignalsAreIdentities
    <2>2. i \in IP => i = obs.ip
      BY <1>2, <1>3, KindsAreDisjoint DEF WeakSignals, Observation, Mac
    <2>3. QED
      BY <1>2, <2>1, <2>2
  <1>4. QED
    BY <1>1, <1>3

\* A strong match is a row of the machine's own.
LEMMA StrongRowIsOwn ==
    ASSUME Requests, TokenInv, NEW w \in Worker, req[w].kind \in {"observe", "register"},
           NEW d \in Device, MatchesStrongly(d, req[w].obs)
    PROVE  IsOf(d, req[w].m)
  <1> DEFINE obs == req[w].obs
             m == req[w].m
  <1>1. /\ m \in Machine /\ obs \in Observation /\ Signals(obs) \subseteq SignalsOf(m) \union IP
        /\ obs.agent # None => obs.agent = AgentIdOf[m]
    BY TheRequest DEF WellFormed, OwnObservation
  <1>2. AgentIdOf[m] \in SignalsOf(m)
    BY <1>1, MachinesHaveSignals, KindsAreDisjoint DEF SignalsOf, Identity
  <1>t. TypeOK
    BY DEF Requests, TypeOKSteps
  <1>3. CASE d \in TokenOwners(obs.token)
    <2>1. token[d] = obs.token /\ obs.token \in Token
      BY <1>t, <1>3 DEF TokenOwners, TypeOK
    <2>2. <<m, obs.token>> \in replies /\ HasOrGets(d, obs.token)
      BY <2>1 DEF TokenInv, ShownWereAnswered, HasOrGets
    <2>3. AgentIdOf[m] \in idents[d]
      BY <1>1, <2>1, <2>2 DEF TokenInv, AnswersAreOwn
    <2>4. QED
      BY <1>2, <2>3 DEF IsOf
  <1>4. CASE d \in Owners(obs.agent)
    <2>1. obs.agent \in idents[d] /\ obs.agent # None
      BY <1>t, <1>4, KindsAreDisjoint DEF Owners, TypeOK
    <2>2. QED
      BY <1>1, <1>2, <2>1 DEF IsOf
  <1>5. CASE d \in Owners(obs.mac)
    <2>1. obs.mac \in idents[d] /\ obs.mac # None
      BY <1>t, <1>5, KindsAreDisjoint DEF Owners, TypeOK
    <2>2. obs.mac \in Signals(obs) /\ obs.mac \notin IP
      BY <1>1, <2>1, KindsAreDisjoint DEF Signals, Observation, Mac
    <2>3. QED
      BY <1>1, <2>1, <2>2 DEF IsOf
  <1>6. QED
    BY <1>3, <1>4, <1>5 DEF MatchesStrongly

\* d is no other machine's than m's, and no request of another works on it.
OnlyOf(d, m) ==
    /\ \A n \in Machine : IsOf(d, n) => n = m
    /\ \A v \in Worker : Settled(v) /\ req[v].d = d => req[v].m = m

LEMMA OwnRowIsOnlyOf ==
    ASSUME RowInv, NoFalseMerge, NEW d \in Device, NEW m \in Machine, IsOf(d, m)
    PROVE  OnlyOf(d, m)
  BY DEF RowInv, SettledOnOwn, NoFalseMerge, OnlyOf

LEMMA NewRowIsOnlyOf ==
    ASSUME Requests, NEW d \in Device \ Rows, NEW m \in Machine
    PROVE  OnlyOf(d, m)
  BY DEF OnlyOf, Requests, TypeOKSteps, TypeOK, Rows, IsOf, Settled

\* A request moves on, and if it has then settled, it is on a row of its own.
LEMMA RowMoves ==
    ASSUME Requests, RowInv, MergesInv, NEW w \in Worker, NEW r \in Request, Go(w, r),
           UNCHANGED <<idents, merges>>,
           r.kind # "patch" /\ r.pc \in HasRow =>
             /\ OnlyOf(r.d, r.m)
             /\ Signals(r.obs) \subseteq idents[r.d] \union (IF r.pc = "touch" THEN r.todo ELSE {})
    PROVE  RowInv' /\ MergesInv'
  <1>1. \A v \in Worker : req'[v] = IF v = w THEN r ELSE req[v]
    BY DEF Go, Requests, TypeOKSteps
  <1>2. MergesInv'
    BY DEF MergesInv, NoFalseMerge, MergeCandidatesAreOneMachine, IsOf
  <1>3. \A v \in Worker : Settled(v)' => IF v = w THEN r.kind # "patch" /\ r.pc \in HasRow ELSE Settled(v)
    BY <1>1 DEF Settled, HasRow
  <1>4. ASSUME NEW v \in Worker, Settled(v)'
        PROVE  OnlyOf(req'[v].d, req'[v].m)
    <2>1. CASE v = w
      BY <1>1, <1>3, <1>4, <2>1
    <2>2. CASE v # w
      BY <1>1, <1>3, <1>4, <2>2 DEF RowInv, SettledOnOwn, OnlyOf
    <2>3. QED
      BY <2>1, <2>2
  <1>5. ASSUME NEW v \in Worker, NEW u \in Worker, Settled(v)', Settled(u)', req'[v].d = req'[u].d
        PROVE  req'[v].m = req'[u].m
    <2>1. CASE u # w
      BY <1>1, <1>3, <1>4, <1>5, <2>1 DEF OnlyOf
    <2>2. CASE v # w
      BY <1>1, <1>3, <1>4, <1>5, <2>2 DEF OnlyOf
    <2>3. QED
      BY <2>1, <2>2
  <1>6. \A v \in Worker : Settled(v)' =>
          \A n \in Machine : idents'[req'[v].d] \intersect SignalsOf(n) # {} => n = req'[v].m
    BY <1>4 DEF OnlyOf, IsOf
  <1>7. SettledOnOwn'
    BY <1>5, <1>6 DEF SettledOnOwn, IsOf
  <1>8. RecordedSoFar'
    BY <1>1, <1>3 DEF RowInv, RecordedSoFar, At
  <1>9. QED
    BY <1>2, <1>7, <1>8 DEF RowInv

\* A request that goes on with the row it is on.
LEMMA RowGoesOn ==
    ASSUME Requests, RowInv, MergesInv, NEW w \in Worker, NEW r \in Request, Go(w, r),
           UNCHANGED <<idents, merges>>,
           \/ r = Idle
           \/ r.pc \notin HasRow
           \/ r.kind = "patch"
           \/ /\ SameRequest(r, req[w]) /\ r.d = req[w].d
              /\ req[w].pc \in HasRow /\ (req[w].pc = "touch" => req[w].todo = {})
    PROVE  RowInv' /\ MergesInv'
  <1>1. Idle.pc \notin HasRow
    BY DEF Idle, HasRow
  <1>2. CASE r.pc \notin HasRow \/ r.kind = "patch"
    BY <1>2, RowMoves
  <1>3. CASE /\ SameRequest(r, req[w]) /\ r.d = req[w].d /\ r.kind # "patch"
             /\ req[w].pc \in HasRow /\ (req[w].pc = "touch" => req[w].todo = {})
    <2>1. Settled(w)
      BY <1>3 DEF Settled, SameRequest, HasRow
    <2>2. OnlyOf(r.d, r.m)
      BY <1>3, <2>1 DEF RowInv, SettledOnOwn, OnlyOf, SameRequest
    <2>3. Signals(r.obs) \subseteq idents[r.d]
      BY <1>3, <2>1 DEF RowInv, RecordedSoFar, SameRequest, At
    <2>4. QED
      BY <2>2, <2>3, RowMoves
  <1>4. QED
    BY <1>1, <1>2, <1>3

\* A request that settles.
LEMMA RowSettles ==
    ASSUME Requests, RowInv, MergesInv, NEW w \in Worker, NEW r \in Request, Go(w, r),
           UNCHANGED <<idents, merges>>, OnlyOf(r.d, r.m),
           r.pc = "touch" /\ r.todo = Signals(r.obs)
    PROVE  RowInv' /\ MergesInv'
  BY RowMoves

\* An identity is recorded: the machine's own, or an address.
LEMMA RowTouched ==
    ASSUME Requests, RowInv, MergesInv, NEW w \in Worker, TouchIdentity(w)
    PROVE  RowInv' /\ MergesInv'
  <1> DEFINE d == req[w].d
             m == req[w].m
  <1>t. TypeOK
    BY DEF Requests, TypeOKSteps
  <1>1. PICK r \in Request, i \in req[w].todo :
          /\ Go(w, r) /\ SameRequest(r, req[w]) /\ req[w].pc = "touch" /\ r.pc = "touch"
          /\ r.d = d /\ r.todo = req[w].todo \ {i}
          /\ idents' = [idents EXCEPT ![d] = @ \union {i}]
    BY TouchShape
  <1>2. /\ WellFormed(req[w]) /\ d \in Device /\ Settled(w)
        /\ req[w].kind \in {"observe", "register"}
    BY <1>1, TheRequest DEF Requests, TypeOKSteps, Rows, WellFormed, Reconciles, Settled
  <1>3. m \in Machine /\ i \in SignalsOf(m) \union IP
    BY <1>1, <1>2 DEF WellFormed, OwnObservation
  <1>4. \A e \in Device : idents'[e] = IF e = d THEN idents[d] \union {i} ELSE idents[e]
    BY <1>t, <1>1, <1>2 DEF TypeOK
  <1>5. \A v \in Worker : req'[v] = IF v = w THEN r ELSE req[v]
    BY <1>1 DEF Go, Requests, TypeOKSteps
  <1>6. \A v \in Worker : /\ Settled(v)' => Settled(v)
                          /\ req'[v].d = req[v].d /\ req'[v].m = req[v].m
                          /\ req'[v].obs = req[v].obs
    BY <1>1, <1>2, <1>5 DEF Settled, SameRequest
  <1>7. OnlyOf(d, m)
    BY <1>2 DEF RowInv, SettledOnOwn, OnlyOf
  <1>8. \A e \in Device, n \in Machine : IsOf(e, n) => IsOf(e, n)'
    BY <1>4 DEF IsOf
  <1>9. ASSUME NEW e \in Device, NEW n \in Machine, IsOf(e, n)'
        PROVE  IsOf(e, n) \/ (e = d /\ n = m)
    <2>1. i \in SignalsOf(n) => n = m
      BY <1>3, SignalsAreNoAddresses, MachinesAreDistinct
    <2>2. QED
      BY <1>4, <1>9, <2>1 DEF IsOf
  <1>10. \A e \in Device, n \in Machine, k \in Machine : IsOf(e, n)' /\ IsOf(e, k)' => n = k
    BY <1>7, <1>9 DEF OnlyOf, MergesInv, NoFalseMerge
  <1>11. NoFalseMerge'
    BY <1>10 DEF NoFalseMerge
  <1>12. MergeCandidatesAreOneMachine'
    <2>1. merges' = merges /\ merges \subseteq [source : Device, candidates : SUBSET Device]
      BY <1>t, TouchShape DEF TypeOK
    <2>2. SUFFICES ASSUME NEW p \in merges
                   PROVE  \E n \in Machine : /\ IsOf(p.source, n)'
                                             /\ \A e \in p.candidates : IsOf(e, n)'
      BY <2>1 DEF MergeCandidatesAreOneMachine
    <2>3. p.source \in Device /\ p.candidates \subseteq Device
      BY <2>1
    <2>4. PICK n \in Machine : IsOf(p.source, n) /\ \A e \in p.candidates : IsOf(e, n)
      BY DEF MergesInv, MergeCandidatesAreOneMachine
    <2>5. IsOf(p.source, n)' /\ \A e \in p.candidates : IsOf(e, n)'
      BY <1>8, <2>3, <2>4
    <2>6. QED
      BY <2>5
  <1>13. ASSUME NEW v \in Worker, Settled(v)', NEW e \in Device, e = req[v].d,
                NEW n \in Machine, IsOf(e, n)'
         PROVE  n = req[v].m
    <2>1. CASE IsOf(e, n)
      BY <1>6, <1>13, <2>1 DEF RowInv, SettledOnOwn
    <2>2. CASE e = d /\ n = m
      BY <1>6, <1>7, <1>13, <2>2 DEF OnlyOf
    <2>3. QED
      BY <1>9, <1>13, <2>1, <2>2
  <1>14. SettledOnOwn'
    <2>1. \A v \in Worker, u \in Worker :
            Settled(v)' /\ Settled(u)' /\ req'[u].d = req'[v].d => req'[u].m = req'[v].m
      BY <1>6 DEF RowInv, SettledOnOwn
    <2>2. \A v \in Worker : Settled(v)' => req[v].d \in Device
      BY <1>6 DEF Settled, Requests, TypeOKSteps, Rows
    <2>3. ASSUME NEW v \in Worker, Settled(v)', NEW n \in Machine,
                 idents'[req'[v].d] \intersect SignalsOf(n) # {}
          PROVE  n = req'[v].m
      BY <1>6, <1>13, <2>2, <2>3 DEF IsOf
    <2>4. QED
      BY <2>1, <2>3 DEF SettledOnOwn, IsOf
  <1>15. RecordedSoFar'
    <2>1. SUFFICES ASSUME NEW v \in Worker, Settled(v)'
                   PROVE  Signals(req'[v].obs) \subseteq
                            idents'[req'[v].d] \union (IF At(v, "touch")' THEN req'[v].todo ELSE {})
      BY DEF RecordedSoFar
    <2>2. Settled(v) /\ req[v].d \in Device
      BY <1>6, <2>1 DEF Settled, Requests, TypeOKSteps, Rows
    <2>3. Signals(req[v].obs) \subseteq
            idents[req[v].d] \union (IF At(v, "touch") THEN req[v].todo ELSE {})
      BY <2>2 DEF RowInv, RecordedSoFar
    <2>4. QED
      BY <1>1, <1>4, <1>5, <1>6, <2>2, <2>3 DEF At
  <1>16. QED
    BY <1>11, <1>12, <1>14, <1>15 DEF RowInv, MergesInv

\* A pending merge is inserted: its row has the machine's signals, and so has
\* every row it lists.
LEMMA MergeIsOffered ==
    ASSUME Requests, RowInv, MergesInv, NEW w \in Worker, CreatePendingMerge(w)
    PROVE  RowInv' /\ MergesInv'
  <1> DEFINE d == req[w].d
             m == req[w].m
             C == ConfidentIn(req[w].hits)
  <1>1. UNCHANGED idents /\ req[w].pc = "pending"
        /\ merges' = merges \union {[source |-> d, candidates |-> C]}
    BY PendingShape
  <1>2. WellFormed(req[w]) /\ req[w].kind \in {"observe", "register"} /\ C # {}
    BY <1>1, TheRequest DEF WellFormed, Reconciles
  <1>3. m \in Machine /\ req[w].obs \in Observation
    BY <1>2 DEF WellFormed, OwnObservation
  <1>4. \A c \in C : \E i \in WeakSignals(req[w].obs) : i \in SignalsOf(m) /\ i \in idents[c]
    BY <1>2, ConfidentRowIsOwn
  <1>5. Signals(req[w].obs) \subseteq idents[d]
    BY <1>1, <1>2 DEF RowInv, RecordedSoFar, Settled, At
  <1>6. IsOf(d, m) /\ \A c \in C : IsOf(c, m)
    BY <1>2, <1>3, <1>4, <1>5, SignalsAreIdentities DEF IsOf
  <1>7. MergesInv'
    <2>1. NoFalseMerge'
      BY <1>1 DEF MergesInv, NoFalseMerge, IsOf
    <2> HIDE DEF C
    <2>2. ASSUME NEW p \in merges'
          PROVE  \E n \in Machine : IsOf(p.source, n) /\ \A e \in p.candidates : IsOf(e, n)
      <3>1. CASE p \in merges
        BY <3>1 DEF MergesInv, MergeCandidatesAreOneMachine
      <3>2. CASE p.source = d /\ p.candidates = C
        BY <1>3, <1>6, <3>2
      <3>3. QED
        BY <1>1, <2>2, <3>1, <3>2
    <2>3. MergeCandidatesAreOneMachine'
      BY <1>1, <2>2 DEF MergeCandidatesAreOneMachine, IsOf
    <2>4. QED
      BY <2>1, <2>3 DEF MergesInv
  <1>8. RowInv'
    <2>1. PICK r \in Request : /\ Go(w, r)
                               /\ r = Idle \/ (SameRequest(r, req[w]) /\ r.pc = "get" /\ r.d = d)
      BY PendingShape
    <2>2. \A v \in Worker : req'[v] = IF v = w THEN r ELSE req[v]
      BY <2>1 DEF Go, Requests, TypeOKSteps
    <2>3. \A v \in Worker : Settled(v)' =>
            /\ Settled(v) /\ req'[v].d = req[v].d /\ req'[v].m = req[v].m
            /\ req'[v].obs = req[v].obs /\ (v # w => req'[v] = req[v])
            /\ v = w => ~At(w, "touch") /\ ~At(w, "touch")'
      BY <1>1, <1>2, <2>1, <2>2 DEF Settled, SameRequest, Idle, At
    <2>4. SettledOnOwn'
      BY <1>1, <2>3 DEF RowInv, SettledOnOwn, IsOf
    <2>5. RecordedSoFar'
      BY <1>1, <2>3 DEF RowInv, RecordedSoFar, At
    <2>6. QED
      BY <2>4, <2>5 DEF RowInv
  <1>9. QED
    BY <1>7, <1>8

LEMMA RowStep ==
    Requests /\ TokenInv /\ RowInv /\ MergesInv /\ [NextSteps]_allVars => RowInv' /\ MergesInv'
  <1> SUFFICES ASSUME Requests, TokenInv, RowInv, MergesInv, [NextSteps]_allVars
               PROVE  RowInv' /\ MergesInv'
    OBVIOUS
  <1>1. ASSUME NEW w \in Worker, NEW m \in Machine, StartObserve(w, m) PROVE RowInv' /\ MergesInv'
    BY <1>1, ObserveShape, RowGoesOn DEF rows, HasRow
  <1>2. ASSUME NEW w \in Worker, NEW m \in Machine, StartRegister(w, m) PROVE RowInv' /\ MergesInv'
    BY <1>2, RegisterShape, RowGoesOn DEF rows, HasRow
  <1>3. ASSUME NEW w \in Worker, NEW d \in Device, StartPatch(w, d) PROVE RowInv' /\ MergesInv'
    BY <1>3, PatchShape, RowGoesOn DEF rows
  <1>4. ASSUME NEW w \in Worker, FindByToken(w) \/ FindByAgent(w) \/ FindByMac(w)
        PROVE  RowInv' /\ MergesInv'
    <2>1. UNCHANGED <<idents, merges>>
      BY <1>4, FindShape DEF rows
    <2>2. req[w].kind \in {"observe", "register"} /\ req[w].m \in Machine
      BY <1>4, TheRequest DEF FindByToken, FindByAgent, FindByMac, At, WellFormed, Reconciles
    <2>3. PICK r \in Request :
            /\ Go(w, r) /\ SameRequest(r, req[w])
            /\ \/ r.pc \in {"byAgent", "byMac", "weak"}
               \/ /\ r.pc = "touch" /\ r.d \in Rows /\ MatchesStrongly(r.d, r.obs)
                  /\ r.todo = Signals(r.obs)
      BY <1>4, FindShape
    <2>4. CASE r.pc \in {"byAgent", "byMac", "weak"}
      BY <2>1, <2>3, <2>4, RowGoesOn DEF HasRow
    <2>5. CASE /\ r.pc = "touch" /\ r.d \in Rows /\ MatchesStrongly(r.d, r.obs)
               /\ r.todo = Signals(r.obs)
      <3>1. r.d \in Device /\ r.m = req[w].m /\ r.obs = req[w].obs
        BY <2>3, <2>5 DEF Rows, SameRequest
      <3>2. IsOf(r.d, r.m)
        BY <2>2, <2>5, <3>1, StrongRowIsOwn
      <3>3. OnlyOf(r.d, r.m)
        BY <2>2, <3>1, <3>2, OwnRowIsOnlyOf DEF MergesInv
      <3>4. QED
        BY <2>1, <2>3, <2>5, <3>3, RowSettles
    <2>6. QED
      BY <2>3, <2>4, <2>5
  <1>5. ASSUME NEW w \in Worker, FindWeakHits(w) PROVE RowInv' /\ MergesInv'
    BY <1>5, WeakHitsShape, RowGoesOn DEF rows, HasRow
  <1>6. ASSUME NEW w \in Worker, MergeIntoConfident(w) PROVE RowInv' /\ MergesInv'
    <2>1. PICK d \in Device : ConfidentIn(req[w].hits) = {d} /\ MergeInto(w, d)
      BY <1>6 DEF MergeIntoConfident
    <2>2. UNCHANGED <<idents, merges>> /\ req[w].pc = "weak"
      BY <1>6 DEF MergeIntoConfident, Asked, At, rows
    <2>3. req[w].kind \in {"observe", "register"} /\ req[w].m \in Machine
      BY <2>2, TheRequest DEF WellFormed, Reconciles
    <2>4. IsOf(d, req[w].m)
      BY <2>1, <2>3, ConfidentRowIsOwn DEF IsOf
    <2>5. OnlyOf(d, req[w].m)
      BY <2>3, <2>4, OwnRowIsOnlyOf DEF MergesInv
    <2>6. PICK r \in Request : /\ Go(w, r) /\ SameRequest(r, req[w]) /\ r.pc = "touch" /\ r.d = d
                               /\ r.todo = Signals(req[w].obs)
      BY <2>1, <2>2, MergeIntoShape
    <2>7. r.m = req[w].m /\ r.obs = req[w].obs
      BY <2>6 DEF SameRequest
    <2>8. QED
      BY <2>2, <2>5, <2>6, <2>7, RowSettles
  <1>7. ASSUME NEW w \in Worker, NEW d \in Device, InsertRow(w, d) PROVE RowInv' /\ MergesInv'
    <2>1. UNCHANGED <<idents, merges>> /\ d \notin Rows /\ req[w].pc = "weak"
      BY <1>7, InsertShape
    <2>2. req[w].m \in Machine
      BY <2>1, TheRequest DEF WellFormed, Reconciles
    <2>3. OnlyOf(d, req[w].m)
      BY <2>1, <2>2, NewRowIsOnlyOf
    <2>4. PICK r \in Request : /\ Go(w, r) /\ SameRequest(r, req[w]) /\ r.pc = "touch" /\ r.d = d
                               /\ r.todo = Signals(req[w].obs)
      BY <1>7, InsertShape
    <2>5. r.m = req[w].m /\ r.obs = req[w].obs
      BY <2>4 DEF SameRequest
    <2>6. QED
      BY <2>1, <2>3, <2>4, <2>5, RowSettles
  <1>8. ASSUME NEW w \in Worker, TouchIdentity(w) PROVE RowInv' /\ MergesInv'
    BY <1>8, RowTouched
  <1>9. ASSUME NEW w \in Worker, TouchDevice(w) PROVE RowInv' /\ MergesInv'
    BY <1>9, TouchDeviceShape, RowGoesOn DEF rows, HasRow
  <1>10. ASSUME NEW w \in Worker, CreatePendingMerge(w) PROVE RowInv' /\ MergesInv'
    BY <1>10, MergeIsOffered
  <1>11. ASSUME NEW w \in Worker, Get(w) PROVE RowInv' /\ MergesInv'
    <2>1. UNCHANGED <<idents, merges>> /\ req[w].pc = "get"
      BY <1>11, GetShape DEF rows
    <2>2. \E r \in Request : Go(w, r) /\ (r = Idle \/ (SameRequest(r, req[w]) /\ r.d = req[w].d))
      BY <1>11, GetShape, IdleIsRequest
    <2>3. QED
      BY <2>1, <2>2, RowGoesOn DEF HasRow
  <1>12. ASSUME NEW w \in Worker, UpsertRegister(w) \/ UpsertPatch(w) PROVE RowInv' /\ MergesInv'
    BY <1>12, UpsertShape, IdleIsRequest, RowGoesOn
  <1>13. ASSUME NEW w \in Worker, Fail(w) PROVE RowInv' /\ MergesInv'
    BY <1>13, IdleIsRequest, RowGoesOn DEF Fail, Done, rows
  <1>14. ASSUME UNCHANGED <<idents, merges, req>> PROVE RowInv' /\ MergesInv'
    BY <1>14 DEF RowInv, SettledOnOwn, RecordedSoFar, Settled, At, IsOf,
                 MergesInv, NoFalseMerge, MergeCandidatesAreOneMachine
  <1>15. ASSUME NEW d \in Device, CreateByHand(d) PROVE RowInv' /\ MergesInv'
    BY <1>14, <1>15 DEF CreateByHand, Create
  <1>16. ASSUME NEW m \in Machine, DeliverReply(m) PROVE RowInv' /\ MergesInv'
    BY <1>14, <1>16 DEF DeliverReply, Deliver
  <1>17. CASE UNCHANGED allVars
    BY <1>14, <1>17 DEF allVars
  <1>18. QED
    BY <1>1, <1>2, <1>3, <1>4, <1>5, <1>6, <1>7, <1>8, <1>9, <1>10, <1>11, <1>12, <1>13,
       <1>15, <1>16, <1>17 DEF NextSteps, Work

-------------------------------------------------------------------------------

LEMMA StepsInvInit == InitSteps => StepsInv
  <1> SUFFICES ASSUME InitSteps PROVE StepsInv
    OBVIOUS
  <1>1. Requests
    BY RequestsInit
  <1>2. /\ \A w \in Worker : req[w].pc = "idle" /\ req[w].kind = "none" /\ req[w].mint = None
        /\ \A d \in Device : token[d] = None /\ idents[d] = {}
        /\ merges = {} /\ replies = {} /\ \A m \in Machine : holds[m] = None
    BY DEF InitSteps, Init, Idle
  <1>3. None \notin Token
    BY KindsAreDisjoint
  <1>4. TokenInv
    BY <1>2, <1>3 DEF TokenInv, HeldWereAnswered, ShownWereAnswered, AnswersAreOwn,
                      OneRowPerToken, DrawnAreFresh, HasOrGets, At
  <1>5. RowInv
    BY <1>2 DEF RowInv, SettledOnOwn, RecordedSoFar, Settled
  <1>6. MergesInv
    BY <1>2 DEF MergesInv, NoFalseMerge, MergeCandidatesAreOneMachine, IsOf
  <1>7. QED
    BY <1>1, <1>4, <1>5, <1>6 DEF StepsInv

LEMMA StepsInvStep == StepsInv /\ [NextSteps]_allVars => StepsInv'
  BY RequestsStep, TokenStep, RowStep DEF StepsInv, RowInv

LEMMA StepsInvariant == SpecSteps => []StepsInv
  BY StepsInvInit, StepsInvStep, PTL DEF SpecSteps

\* Requests may interleave at every statement and fail at any: no row ever
\* carries signals of two machines.
THEOREM StepsNeverFalselyMerge == SpecSteps => []NoFalseMerge
  <1>1. StepsInv => NoFalseMerge
    BY DEF StepsInv, MergesInv
  <1>2. QED
    BY <1>1, StepsInvariant, PTL

\* The row that has the token an agent retains is the agent's own, even when
\* an Upsert has written the token back after it was read: no agent ever
\* authenticates as another child's device.
THEOREM TokensNeverCross == SpecSteps => []TokenNeverCrosses
  <1>1. ASSUME StepsInv PROVE TokenNeverCrosses
    <2>1. SUFFICES ASSUME NEW m \in Machine, NEW d \in Device,
                          token[d] # None, holds[m] = token[d]
                   PROVE  IsOf(d, m)
      BY DEF TokenNeverCrosses
    <2>2. holds[m] \in Token /\ <<m, holds[m]>> \in replies /\ HasOrGets(d, holds[m])
      BY <1>1, <2>1 DEF StepsInv, Requests, TypeOKSteps, TypeOK, TokenInv, HeldWereAnswered, HasOrGets
    <2>3. AgentIdOf[m] \in idents[d]
      BY <1>1, <2>2 DEF StepsInv, TokenInv, AnswersAreOwn
    <2>4. AgentIdOf[m] \in SignalsOf(m)
      BY MachinesHaveSignals, KindsAreDisjoint DEF SignalsOf, Identity
    <2>5. QED
      BY <2>3, <2>4 DEF IsOf
  <1>2. QED
    BY <1>1, StepsInvariant, PTL

\* A merge the parent is offered is a merge of one machine, although the rows
\* were looked up by one query per signal and may have changed since.
THEOREM StepsMergesOfferOneMachine == SpecSteps => []MergeCandidatesAreOneMachine
  <1>1. StepsInv => MergeCandidatesAreOneMachine
    BY DEF StepsInv, MergesInv
  <1>2. QED
    BY <1>1, StepsInvariant, PTL

-------------------------------------------------------------------------------
(***************************************************************************)
(* One request at a time: the refinement.                                  *)
(*                                                                         *)
(* A single request r is at work.  From the statement that settles its row *)
(* Serial sees the rows with what r still owes (TokenWith, IdentsWith,     *)
(* MergesWith, RepliesWith); the statements that write it change nothing   *)
(* for Serial (Quiet).  The statement that settles the row is the whole    *)
(* handler, because nothing it rests on can have changed meanwhile: the    *)
(* tiers that were asked still have no owner, the hits are still all the   *)
(* hits, the row is still as it was read, and an answer that is delivered  *)
(* between them is the token the agent had, as an agent has one row        *)
(* (OneRowPerAgent) and that row one token (AnswersStand).                 *)
(***************************************************************************)

Alone(w) == Worker = {w} /\ MayFail = FALSE

IsSettled(r) == r.kind # "patch" /\ r.pc \in HasRow

\* What the request r owes its row, as Serial sees it.
TokenWith(r) ==
    [d \in Device |->
        IF token[d] = None /\ IsSettled(r) /\ r.kind = "register" /\ r.d = d
          THEN r.mint ELSE token[d]]

IdentsWith(r) ==
    [d \in Device |-> idents[d] \union (IF IsSettled(r) /\ r.d = d THEN Signals(r.obs) ELSE {})]

MergesWith(r) ==
    IF IsSettled(r) /\ ConfidentIn(r.hits) # {} /\ ~Single(ConfidentIn(r.hits))
      THEN merges \union {[source |-> r.d, candidates |-> ConfidentIn(r.hits)]}
      ELSE merges

RepliesWith(r) ==
    IF IsSettled(r) /\ r.kind = "register"
      THEN replies \union {<<r.m, TokenWith(r)[r.d]>>} ELSE replies

Maps(w) ==
    /\ SettledToken = TokenWith(req[w]) /\ SettledIdents = IdentsWith(req[w])
    /\ merges \union PendingMerges = MergesWith(req[w])
    /\ SettledReplies = RepliesWith(req[w])

\* With one worker, the mapping is that of the one request.
LEMMA OneOf == ASSUME NEW w PROVE (CHOOSE v \in {w} : TRUE) = w
  OBVIOUS

LEMMA Mapping ==
    ASSUME NEW w, Alone(w)
    PROVE  Maps(w)
  <1> DEFINE r == req[w]
  <1>1. Worker = {w} /\ (Settled(w) <=> IsSettled(r))
    BY DEF Alone, Settled, IsSettled, HasRow
  <1>2. ASSUME NEW d \in Device
        PROVE  /\ Settling(d) = IF IsSettled(r) /\ r.d = d THEN {w} ELSE {}
               /\ Registering(d) = IF IsSettled(r) /\ r.d = d /\ r.kind = "register"
                                     THEN {w} ELSE {}
    BY <1>1 DEF Settling, Registering
  <1>3. SettledToken = TokenWith(r)
    <2>1. ASSUME NEW d \in Device
          PROVE  (IF token[d] = None /\ Registering(d) # {}
                    THEN req[CHOOSE v \in Registering(d) : TRUE].mint ELSE token[d])
               = (IF token[d] = None /\ IsSettled(r) /\ r.kind = "register" /\ r.d = d
                    THEN r.mint ELSE token[d])
      <3>1. CASE IsSettled(r) /\ r.kind = "register" /\ r.d = d
        <4>1. Registering(d) = {w}
          BY <1>2, <3>1
        <4>2. (CHOOSE v \in Registering(d) : TRUE) = w
          BY <4>1, OneOf
        <4>3. QED
          BY <3>1, <4>1, <4>2
      <3>2. CASE ~(IsSettled(r) /\ r.kind = "register" /\ r.d = d)
        <4>1. Registering(d) = {}
          BY <1>2, <3>2
        <4>2. QED
          BY <3>2, <4>1
      <3>3. QED
        BY <3>1, <3>2
    <2>2. QED
      BY <2>1 DEF SettledToken, TokenWith
  <1>4. SettledIdents = IdentsWith(r)
    <2>1. ASSUME NEW d \in Device
          PROVE  UNION {Signals(req[v].obs) : v \in Settling(d)}
               = (IF IsSettled(r) /\ r.d = d THEN Signals(r.obs) ELSE {})
      BY <1>2
    <2>2. QED
      BY <2>1 DEF SettledIdents, IdentsWith
  <1>5. merges \union PendingMerges = MergesWith(r)
    BY <1>1 DEF PendingMerges, MergesWith
  <1>6. SettledReplies = RepliesWith(r)
    BY <1>1, <1>3 DEF SettledReplies, RepliesWith
  <1>7. QED
    BY <1>3, <1>4, <1>5, <1>6 DEF Maps

LEMMA MappingNext ==
    ASSUME NEW w, Alone(w)
    PROVE  Maps(w)'
  <1>1. Maps(w)
    BY Mapping
  <1>2. QED
    BY <1>1, PTL

-------------------------------------------------------------------------------

Looking == {"byToken", "byAgent", "byMac", "weak"}

\* The observation is one that Registry's handlers may be given now.
FromMachine(r) ==
    r.pc \in Looking =>
      r.obs \in IF r.kind = "register" THEN RegisterObservation(r.m)
                ELSE ScanObservation(r.m) \union CheckinObservation(r.m)

\* The tiers that were asked have no owner.
TiersPassed(r) ==
    /\ r.pc = "byMac" => r.obs.mac \in UniversalMac
    /\ r.pc \in {"byAgent", "byMac", "weak"} => TokenOwners(r.obs.token) = {}
    /\ r.pc \in {"byMac", "weak"} => Owners(r.obs.agent) = {}
    /\ r.pc = "weak" /\ r.obs.mac \in UniversalMac => Owners(r.obs.mac) = {}

\* The hits are those of the weak signals that were asked.
HitsOf(S) == {h \in S \X Device : h[2] \in Owners(h[1])}

HitsSoFar(r) ==
    /\ r.pc \in {"byToken", "byAgent", "byMac", "get", "upsert"} => r.hits = {}
    /\ r.pc \in {"byToken", "byAgent", "byMac"} => r.todo = WeakSignals(r.obs)
    /\ r.pc = "weak" => r.hits = HitsOf(WeakSignals(r.obs) \ r.todo)
    /\ r.pc = "pending" => ~Single(ConfidentIn(r.hits))

\* The row is still as it was read.
ReadIsCurrent(r) ==
    /\ r.kind = "patch" => r.to \in PatchState \union {"none"}
    /\ r.pc = "upsert" =>
         /\ r.read = [state |-> state[r.d], token |-> token[r.d]]
         /\ r.kind = "register" => token[r.d] = None

Undisturbed(r) == FromMachine(r) /\ TiersPassed(r) /\ HitsSoFar(r) /\ ReadIsCurrent(r)

OneRowPerAgent ==
    \A m \in Machine, d, e \in Device :
      AgentIdOf[m] \in SettledIdents[d] /\ AgentIdOf[m] \in SettledIdents[e] => d = e

\* An answer stands: the agent's row has the token.
AnswersStand ==
    \A m \in Machine, t \in Token : <<m, t>> \in SettledReplies =>
      \E d \in Device : SettledToken[d] = t /\ AgentIdOf[m] \in SettledIdents[d]

SerialInv == (\A w \in Worker : Undisturbed(req[w])) /\ OneRowPerAgent /\ AnswersStand

-------------------------------------------------------------------------------

\* A request that has settled on no row owes nothing.
LEMMA NothingOwed ==
    ASSUME NEW r, ~IsSettled(r)
    PROVE  /\ TypeOK => /\ TokenWith(r) = token /\ IdentsWith(r) = idents
                        /\ MergesWith(r) = merges /\ RepliesWith(r) = replies
           /\ TypeOK' => /\ TokenWith(r)' = token' /\ IdentsWith(r)' = idents'
                         /\ MergesWith(r)' = merges' /\ RepliesWith(r)' = replies'
  <1>1. ASSUME TypeOK
        PROVE  /\ TokenWith(r) = token /\ IdentsWith(r) = idents
               /\ MergesWith(r) = merges /\ RepliesWith(r) = replies
    BY <1>1 DEF TypeOK, TokenWith, IdentsWith, MergesWith, RepliesWith
  <1>2. ASSUME TypeOK'
        PROVE  /\ TokenWith(r)' = token' /\ IdentsWith(r)' = idents'
               /\ MergesWith(r)' = merges' /\ RepliesWith(r)' = replies'
    BY <1>2 DEF TypeOK, TokenWith, IdentsWith, MergesWith, RepliesWith
  <1>3. QED
    BY <1>1, <1>2

\* Nothing that Serial sees changes.
Quiet(w) ==
    UNCHANGED <<state, TokenWith(req[w]), IdentsWith(req[w]), MergesWith(req[w]),
                RepliesWith(req[w]), holds>>

LEMMA QuietStep ==
    ASSUME NEW w, Alone(w), Quiet(w), OneRowPerAgent, AnswersStand
    PROVE  UNCHANGED Serial!vars /\ OneRowPerAgent' /\ AnswersStand'
  <1>1. UNCHANGED <<SettledToken, SettledIdents, SettledReplies, merges \union PendingMerges>>
    BY Mapping, MappingNext DEF Maps, Quiet
  <1>2. UNCHANGED Serial!vars
    BY <1>1 DEF Serial!vars, Quiet
  <1>3. QED
    BY <1>1, <1>2 DEF OneRowPerAgent, AnswersStand

LEMMA UndisturbedStays ==
    ASSUME NEW r, Undisturbed(r), UNCHANGED <<rows, holds>>
    PROVE  Undisturbed(r)'
  <1>1. UNCHANGED <<state, token, idents, holds>>
    BY DEF rows
  <1>2. FromMachine(r)'
    BY <1>1 DEF Undisturbed, FromMachine, RegisterObservation, ScanObservation, CheckinObservation
  <1>3. TiersPassed(r)' /\ HitsSoFar(r)' /\ ReadIsCurrent(r)'
    BY <1>1 DEF Undisturbed, TiersPassed, HitsSoFar, ReadIsCurrent, HitsOf, TokenOwners, Owners, Rows
  <1>4. QED
    BY <1>2, <1>3 DEF Undisturbed

\* A request that has settled on no row, nor does.
LEMMA StillLooking ==
    ASSUME NEW w \in Worker, Requests, Requests', NEW r, Go(w, r),
           ~IsSettled(req[w]), ~IsSettled(r),
           UNCHANGED <<rows, replies, holds>>, Undisturbed(r)
    PROVE  Quiet(w) /\ Undisturbed(req[w])'
  <1>1. req'[w] = r /\ TypeOK /\ TypeOK'
    BY DEF Go, Requests, TypeOKSteps
  <1>2. UNCHANGED <<state, token, idents, merges, replies, holds>>
    BY DEF rows
  <1>3. Quiet(w)
    BY <1>1, <1>2, NothingOwed DEF Quiet
  <1>4. Undisturbed(r)'
    BY UndisturbedStays
  <1>5. QED
    BY <1>1, <1>3, <1>4

\* The tiers that have nothing to ask have no owner.
LEMMA AbsentHasNoOwner ==
    ASSUME TypeOK, NEW obs \in Observation
    PROVE  /\ obs.token = None => TokenOwners(obs.token) = {}
           /\ obs.agent = None => Owners(obs.agent) = {}
  BY KindsAreDisjoint DEF TypeOK, TokenOwners, Owners, Rows

LEMMA AsksNext ==
    ASSUME TypeOK, NEW r, r.obs \in Observation, FromMachine(r), r.kind # "patch",
           r.hits = {}, r.todo = WeakSignals(r.obs),
           \/ r.pc = FirstTier(r.obs)
           \/ r.pc = AfterToken(r.obs) /\ TokenOwners(r.obs.token) = {}
           \/ /\ r.pc = AfterAgent(r.obs)
              /\ TokenOwners(r.obs.token) = {} /\ Owners(r.obs.agent) = {}
           \/ /\ r.pc = "weak" /\ TokenOwners(r.obs.token) = {} /\ Owners(r.obs.agent) = {}
              /\ Owners(r.obs.mac) = {}
    PROVE  Undisturbed(r) /\ ~IsSettled(r)
  <1>1. /\ r.obs.token = None => TokenOwners(r.obs.token) = {}
        /\ r.obs.agent = None => Owners(r.obs.agent) = {}
    BY AbsentHasNoOwner
  <1>2. TiersPassed(r) /\ r.pc \in Looking
    BY <1>1 DEF TiersPassed, FirstTier, AfterToken, AfterAgent, Looking
  <1>3. HitsSoFar(r)
    BY <1>2 DEF HitsSoFar, HitsOf, Looking
  <1>4. QED
    BY <1>2, <1>3 DEF Undisturbed, ReadIsCurrent, IsSettled, HasRow, Looking

LEMMA StartsQuietly ==
    ASSUME NEW w \in Worker, Requests, Requests', At(w, "idle"),
           UNCHANGED <<rows, replies, holds>>,
           NEW r0, NEW m \in Machine, r0.m = m, r0.hits = {}, NEW r, r = Reconciling(r0),
           r0 \in Request, r0.kind \in {"observe", "register"}, Go(w, r),
           r0.obs \in IF r0.kind = "register" THEN RegisterObservation(m)
                      ELSE ScanObservation(m) \union CheckinObservation(m)
    PROVE  Quiet(w) /\ Undisturbed(req[w])'
  <1>t. TypeOK
    BY DEF Requests, TypeOKSteps
  <1>1. r0.obs \in Observation
    BY <1>t, ObservationType DEF ObservationOf
  <1>2. /\ r.pc = FirstTier(r.obs) /\ r.obs = r0.obs /\ r.kind = r0.kind /\ r.m = m
        /\ r.hits = {} /\ r.todo = WeakSignals(r.obs)
    BY DEF Reconciling, Request
  <1>3. FromMachine(r)
    BY <1>2 DEF FromMachine
  <1>4. Undisturbed(r) /\ ~IsSettled(r)
    BY <1>t, <1>1, <1>2, <1>3, AsksNext
  <1>5. ~IsSettled(req[w])
    BY DEF At, IsSettled, HasRow
  <1>6. QED
    BY <1>4, <1>5, StillLooking

LEMMA QuietObserve ==
    ASSUME NEW w \in Worker, Requests, Requests', NEW m \in Machine, StartObserve(w, m)
    PROVE  Quiet(w) /\ Undisturbed(req[w])'
  <1>1. PICK obs \in ScanObservation(m) \union CheckinObservation(m) :
          Go(w, Reconciling([Idle EXCEPT !.kind = "observe", !.m = m, !.obs = obs]))
    BY DEF StartObserve
  <1>2. PICK r0 : r0 = [Idle EXCEPT !.kind = "observe", !.m = m, !.obs = obs]
    OBVIOUS
  <1>3. PICK r : r = Reconciling(r0)
    OBVIOUS
  <1>4. obs \in Observation
    BY ObservationType DEF ObservationOf, Requests, TypeOKSteps
  <1>5. /\ r0 \in Request /\ r0.kind = "observe" /\ r0.m = m /\ r0.obs = obs /\ r0.hits = {}
    BY <1>2, <1>4 DEF Idle, Request, PC
  <1>6. /\ At(w, "idle") /\ UNCHANGED <<rows, replies, holds>> /\ Go(w, r)
    BY <1>1, <1>2, <1>3 DEF StartObserve, Arrive
  <1>7. QED
    BY <1>3, <1>5, <1>6, StartsQuietly

LEMMA QuietRegister ==
    ASSUME NEW w \in Worker, Requests, Requests', NEW m \in Machine, StartRegister(w, m)
    PROVE  Quiet(w) /\ Undisturbed(req[w])'
  <1>1. PICK obs \in RegisterObservation(m), t \in Token :
          Go(w, Reconciling([Idle EXCEPT !.kind = "register", !.m = m, !.obs = obs, !.mint = t]))
    BY DEF StartRegister
  <1>2. PICK r0 : r0 = [Idle EXCEPT !.kind = "register", !.m = m, !.obs = obs, !.mint = t]
    OBVIOUS
  <1>3. PICK r : r = Reconciling(r0)
    OBVIOUS
  <1>4. obs \in Observation
    BY ObservationType DEF ObservationOf, Requests, TypeOKSteps
  <1>5. /\ r0 \in Request /\ r0.kind = "register" /\ r0.m = m /\ r0.obs = obs /\ r0.hits = {}
    BY <1>2, <1>4 DEF Idle, Request, PC
  <1>6. /\ At(w, "idle") /\ UNCHANGED <<rows, replies, holds>> /\ Go(w, r)
    BY <1>1, <1>2, <1>3 DEF StartRegister, Arrive
  <1>7. QED
    BY <1>3, <1>5, <1>6, StartsQuietly

LEMMA QuietPatch ==
    ASSUME NEW w \in Worker, Requests, Requests', NEW d \in Device, StartPatch(w, d)
    PROVE  Quiet(w) /\ Undisturbed(req[w])'
  <1>1. PICK s \in PatchState \union {"none"} :
          Go(w, [Idle EXCEPT !.pc = "get", !.kind = "patch", !.d = d, !.to = s])
    BY DEF StartPatch
  <1>2. PICK r : r = [Idle EXCEPT !.pc = "get", !.kind = "patch", !.d = d, !.to = s]
    OBVIOUS
  <1>3. r.pc = "get" /\ r.kind = "patch" /\ r.to = s /\ r.hits = {}
    BY <1>2 DEF Idle
  <1>4. Undisturbed(r)
    BY <1>3 DEF Undisturbed, FromMachine, TiersPassed, HitsSoFar, ReadIsCurrent, Looking
  <1>5. ~IsSettled(r) /\ ~IsSettled(req[w])
    BY <1>3 DEF IsSettled, HasRow, StartPatch, Arrive, At
  <1>6. QED
    BY <1>1, <1>2, <1>4, <1>5, StillLooking DEF StartPatch

LEMMA QuietMiss ==
    ASSUME NEW w \in Worker, Requests, Requests', Undisturbed(req[w]), NEW next,
           req[w].pc \in {"byToken", "byAgent", "byMac"},
           Go(w, [req[w] EXCEPT !.pc = next]), UNCHANGED <<rows, replies, holds>>,
           \/ next = AfterToken(req[w].obs) /\ TokenOwners(req[w].obs.token) = {}
           \/ /\ next = AfterAgent(req[w].obs)
              /\ TokenOwners(req[w].obs.token) = {} /\ Owners(req[w].obs.agent) = {}
           \/ /\ next = "weak" /\ TokenOwners(req[w].obs.token) = {}
              /\ Owners(req[w].obs.agent) = {} /\ Owners(req[w].obs.mac) = {}
    PROVE  Quiet(w) /\ Undisturbed(req[w])'
  <1>1. PICK r : r = [req[w] EXCEPT !.pc = next]
    OBVIOUS
  <1>2. req[w] \in Request /\ WellFormed(req[w]) /\ TypeOK
    BY TheRequest DEF Requests, TypeOKSteps
  <1>3. /\ r.pc = next /\ r.obs = req[w].obs /\ r.kind = req[w].kind /\ r.m = req[w].m
        /\ r.hits = req[w].hits /\ r.todo = req[w].todo
    BY <1>1, <1>2 DEF Request
  <1>4. /\ r.hits = {} /\ r.todo = WeakSignals(r.obs) /\ r.obs \in Observation
        /\ r.kind # "patch" /\ FromMachine(r)
    BY <1>2, <1>3 DEF Undisturbed, HitsSoFar, FromMachine, Looking, WellFormed, Reconciles,
                      OwnObservation
  <1>5. Undisturbed(r) /\ ~IsSettled(r)
    BY <1>2, <1>3, <1>4, AsksNext
  <1>6. ~IsSettled(req[w])
    BY DEF IsSettled, HasRow
  <1>7. QED
    BY <1>1, <1>5, <1>6, StillLooking

\* One more weak signal is asked.
LEMMA WeakAsked ==
    ASSUME NEW A, NEW s
    PROVE  HitsOf(A \union {s}) = HitsOf(A) \union ({s} \X Owners(s))
  <1>1. Owners(s) \subseteq Device
    BY DEF Owners, Rows
  <1>2. HitsOf(A \union {s}) \subseteq HitsOf(A) \union ({s} \X Owners(s))
    BY DEF HitsOf
  <1>3. HitsOf(A) \union ({s} \X Owners(s)) \subseteq HitsOf(A \union {s})
    BY <1>1 DEF HitsOf
  <1>4. QED
    BY <1>2, <1>3

LEMMA QuietWeak ==
    ASSUME NEW w \in Worker, Requests, Requests', Undisturbed(req[w]), FindWeakHits(w)
    PROVE  Quiet(w) /\ Undisturbed(req[w])'
  <1> DEFINE s == FirstWeakOf(req[w].obs, req[w].todo)
  <1>1. /\ Go(w, [req[w] EXCEPT !.todo = @ \ {s}, !.hits = @ \union ({s} \X Owners(s))])
        /\ UNCHANGED <<rows, replies, holds>> /\ req[w].pc = "weak" /\ req[w].todo # {}
    BY DEF FindWeakHits, At
  <1>2. req[w] \in Request /\ WellFormed(req[w])
    BY TheRequest
  <1>3. req[w].todo \subseteq WeakSignals(req[w].obs)
    BY <1>1, <1>2 DEF WellFormed
  <1>4. s \in req[w].todo
    BY <1>1, <1>3 DEF FirstWeakOf, WeakSignals
  <1> HIDE DEF s
  <1>5. PICK r : r = [req[w] EXCEPT !.todo = @ \ {s}, !.hits = @ \union ({s} \X Owners(s))]
    OBVIOUS
  <1>6. /\ r.pc = "weak" /\ r.obs = req[w].obs /\ r.kind = req[w].kind /\ r.m = req[w].m
        /\ r.hits = req[w].hits \union ({s} \X Owners(s)) /\ r.todo = req[w].todo \ {s}
    BY <1>1, <1>2, <1>5 DEF Request
  <1>7. r.hits = HitsOf(WeakSignals(r.obs) \ r.todo)
    <2>1. req[w].hits = HitsOf(WeakSignals(req[w].obs) \ req[w].todo)
      BY <1>1 DEF Undisturbed, HitsSoFar
    <2>2. WeakSignals(r.obs) \ r.todo = (WeakSignals(req[w].obs) \ req[w].todo) \union {s}
      BY <1>3, <1>4, <1>6
    <2>3. QED
      BY <1>6, <2>1, <2>2, WeakAsked
  <1>8. Undisturbed(r)
    BY <1>1, <1>2, <1>6, <1>7 DEF Undisturbed, FromMachine, TiersPassed, HitsSoFar,
       ReadIsCurrent, Looking, WellFormed, Reconciles
  <1>9. ~IsSettled(r) /\ ~IsSettled(req[w])
    BY <1>1, <1>6 DEF IsSettled, HasRow
  <1>10. QED
    BY <1>1, <1>5, <1>8, <1>9, StillLooking

LEMMA IdleIsUndisturbed == Undisturbed(Idle) /\ Undisturbed(Idle)' /\ ~IsSettled(Idle)
  BY DEF Undisturbed, FromMachine, TiersPassed, HitsSoFar, ReadIsCurrent, Looking, Idle,
         IsSettled, HasRow

\* The state of a row that a Patch writes, in the one statement that counts.
LEMMA PatchWrites ==
    ASSUME NEW w \in Worker, Alone(w), Requests, Requests', Undisturbed(req[w]), UpsertPatch(w),
           OneRowPerAgent, AnswersStand
    PROVE  (Serial!Next \/ UNCHANGED Serial!vars) /\ OneRowPerAgent' /\ AnswersStand'
           /\ Undisturbed(req[w])'
  <1> DEFINE d == req[w].d
             to == req[w].to
  <1>1. /\ req[w].pc = "upsert" /\ req[w].kind = "patch" /\ Go(w, Idle)
        /\ UNCHANGED <<idents, merges, replies, holds>>
        /\ state' = [state EXCEPT ![d] = IF to = "none" THEN req[w].read.state ELSE to]
        /\ token' = [token EXCEPT ![d] = req[w].read.token]
    BY DEF UpsertPatch, At, Done
  <1>2. d \in Rows /\ TypeOK /\ TypeOK' /\ req'[w] = Idle
    BY <1>1 DEF Requests, TypeOKSteps, Go
  <1>3. /\ req[w].read = [state |-> state[d], token |-> token[d]]
        /\ to \in PatchState \union {"none"}
    BY <1>1 DEF Undisturbed, ReadIsCurrent
  <1>4. req[w].read.state = state[d] /\ req[w].read.token = token[d] /\ d \in Device
    BY <1>2, <1>3 DEF Rows
  <1>5. token' = token
    BY <1>1, <1>2, <1>4 DEF TypeOK
  <1>6. ~IsSettled(req[w]) /\ ~IsSettled(req'[w])
    BY <1>1, <1>2, IdleIsUndisturbed DEF IsSettled
  <1>7. /\ TokenWith(req[w]) = token /\ IdentsWith(req[w]) = idents
        /\ MergesWith(req[w]) = merges /\ RepliesWith(req[w]) = replies
    BY <1>2, <1>6, NothingOwed
  <1>8. /\ TokenWith(Idle)' = token' /\ IdentsWith(Idle)' = idents'
        /\ MergesWith(Idle)' = merges' /\ RepliesWith(Idle)' = replies'
    BY <1>2, IdleIsUndisturbed, NothingOwed
  <1>9. /\ TokenWith(req[w])' = token' /\ IdentsWith(req[w])' = idents'
        /\ MergesWith(req[w])' = merges' /\ RepliesWith(req[w])' = replies'
    BY <1>2, <1>8
  <1>10. /\ UNCHANGED <<SettledToken, SettledIdents, SettledReplies, merges \union PendingMerges>>
         /\ SettledToken = token
    BY <1>1, <1>5, <1>7, <1>9, Mapping, MappingNext DEF Maps
  <1>11. ASSUME to = "none" PROVE UNCHANGED Serial!vars
    <2>1. state' = state
      BY <1>1, <1>2, <1>4, <1>11 DEF TypeOK
    <2>2. QED
      BY <1>1, <1>10, <2>1 DEF Serial!vars
  <1>12. ASSUME to # "none" PROVE Serial!Next
    <2>1. state' = [state EXCEPT ![d] = to] /\ to \in PatchState
      BY <1>1, <1>3, <1>12
    <2>2. Serial!Patch(d)
      BY <1>1, <1>2, <1>10, <2>1 DEF Serial!Patch, Serial!Rows, Rows
    <2>3. QED
      BY <1>4, <2>2 DEF Serial!Next
  <1>13. Serial!Next \/ UNCHANGED Serial!vars
    BY <1>11, <1>12
  <1>14. OneRowPerAgent' /\ AnswersStand'
    BY <1>10 DEF OneRowPerAgent, AnswersStand
  <1>15. Undisturbed(req[w])'
    BY <1>2, IdleIsUndisturbed
  <1>16. QED
    BY <1>13, <1>14, <1>15


-------------------------------------------------------------------------------
(***************************************************************************)
(* A settled request does what Serial has seen it do.                      *)
(***************************************************************************)

LEMMA QuietTouch ==
    ASSUME NEW w \in Worker, Requests, Undisturbed(req[w]), TouchIdentity(w)
    PROVE  Quiet(w) /\ Undisturbed(req[w])'
  <1> DEFINE q == req[w]
  <1>1. UNCHANGED <<state, token, merges, replies, holds>>
    BY TouchShape
  <1>2. PICK r \in Request, i \in q.todo :
          /\ Go(w, r) /\ SameRequest(r, q) /\ r.hits = q.hits
          /\ q.pc = "touch" /\ r.pc = "touch" /\ r.d = q.d
          /\ idents' = [idents EXCEPT ![r.d] = @ \union {i}]
    BY TouchShape
  <1>3. /\ q \in Request /\ WellFormed(q) /\ TypeOK /\ req'[w] = r
    BY <1>2, TheRequest DEF Requests, TypeOKSteps, Go
  <1>4. i \in Signals(q.obs) /\ q.kind # "patch"
    BY <1>2, <1>3 DEF WellFormed, Reconciles
  <1>5. /\ r.kind = q.kind /\ r.m = q.m /\ r.obs = q.obs /\ r.mint = q.mint
        /\ IsSettled(q) /\ IsSettled(r)
    BY <1>2, <1>4 DEF SameRequest, IsSettled, HasRow
  <1>6. TokenWith(r)' = TokenWith(q) /\ RepliesWith(r)' = RepliesWith(q)
    BY <1>1, <1>2, <1>5 DEF TokenWith, RepliesWith
  <1>7. MergesWith(r)' = MergesWith(q)
    BY <1>1, <1>2, <1>5 DEF MergesWith
  <1>8. IdentsWith(r)' = IdentsWith(q)
    <2>1. \A e \in Device : idents'[e] = IF e = q.d THEN idents[e] \union {i} ELSE idents[e]
      BY <1>2, <1>3 DEF TypeOK
    <2>2. QED
      BY <1>2, <1>4, <1>5, <2>1 DEF IdentsWith
  <1>9. Quiet(w)
    BY <1>1, <1>3, <1>6, <1>7, <1>8 DEF Quiet
  <1>10. Undisturbed(r)'
    BY <1>2, <1>5 DEF Undisturbed, FromMachine, TiersPassed, HitsSoFar, ReadIsCurrent, Looking,
       IsSettled
  <1>11. QED
    BY <1>3, <1>9, <1>10

LEMMA NoneConfident == ConfidentIn({}) = {}
  BY DEF ConfidentIn

\* A reconcile ends: what it owes has been written but for the token.
LEMMA QuietEnd ==
    ASSUME NEW w \in Worker, Requests, Requests', RecordedSoFar, AfterReconcile(w),
           \/ req[w].pc = "touch" /\ req[w].todo = {}
           \/ req[w].pc = "pending",
           UNCHANGED <<state, token, idents, replies, holds>>, merges' = MergesWith(req[w])
    PROVE  Quiet(w) /\ Undisturbed(req[w])'
  <1> DEFINE q == req[w]
  <1>1. PICK r \in Request :
          /\ Go(w, r) /\ WellFormed(r) /\ r.hits = {}
          /\ \/ r = Idle
             \/ SameRequest(r, q) /\ r.kind = "register" /\ r.pc = "get" /\ r.d = q.d
    BY AfterReconcileShape
  <1>2. q \in Request /\ WellFormed(q) /\ TypeOK /\ TypeOK' /\ req'[w] = r
    BY <1>1, TheRequest DEF Requests, TypeOKSteps, Go
  <1>3. q.kind # "patch" /\ IsSettled(q)
    BY <1>2 DEF WellFormed, Reconciles, IsSettled, HasRow
  <1>4. Signals(q.obs) \subseteq idents[q.d]
    BY <1>3 DEF RecordedSoFar, Settled, IsSettled, HasRow, At
  <1>5. IdentsWith(q) = idents
    BY <1>2, <1>4 DEF IdentsWith, TypeOK
  <1>6. CASE r = Idle
    <2>1. /\ TokenWith(r)' = token' /\ IdentsWith(r)' = idents'
          /\ MergesWith(r)' = merges' /\ RepliesWith(r)' = replies'
      BY <1>2, <1>6, IdleIsUndisturbed, NothingOwed
    <2>2. q.kind # "register"
      <3>1. SUFFICES ASSUME q.kind = "register" PROVE FALSE
        OBVIOUS
      <3>2. req'[w] = [q EXCEPT !.pc = "get", !.hits = {}]
        BY <1>2, <3>1 DEF AfterReconcile, Go, Requests, TypeOKSteps
      <3>3. r.pc = "get"
        BY <1>2, <3>2 DEF Request
      <3>4. QED
        BY <1>6, <3>3 DEF Idle
    <2>3. TokenWith(q) = token /\ RepliesWith(q) = replies
      BY <1>2, <2>2 DEF TokenWith, RepliesWith, TypeOK
    <2>4. Quiet(w)
      BY <1>2, <1>5, <2>1, <2>3 DEF Quiet
    <2>5. QED
      BY <1>2, <1>6, <2>4, IdleIsUndisturbed
  <1>7. CASE SameRequest(r, q) /\ r.kind = "register" /\ r.pc = "get" /\ r.d = q.d
    <2>1. /\ q.kind = "register" /\ r.m = q.m /\ r.obs = q.obs /\ r.mint = q.mint /\ IsSettled(r)
      BY <1>7 DEF SameRequest, IsSettled, HasRow
    <2>2. TokenWith(r)' = TokenWith(q) /\ RepliesWith(r)' = RepliesWith(q)
      BY <1>3, <1>7, <2>1 DEF TokenWith, RepliesWith
    <2>3. IdentsWith(r)' = IdentsWith(q)
      BY <1>3, <1>7, <2>1 DEF IdentsWith
    <2>4. MergesWith(r)' = merges'
      BY <1>1, NoneConfident DEF MergesWith
    <2>5. Quiet(w)
      BY <1>2, <2>2, <2>3, <2>4 DEF Quiet
    <2>6. Undisturbed(r)'
      BY <1>1, <1>7 DEF Undisturbed, FromMachine, TiersPassed, HitsSoFar, ReadIsCurrent, Looking
    <2>7. QED
      BY <1>2, <2>5, <2>6
  <1>8. QED
    BY <1>1, <1>6, <1>7

LEMMA QuietTouchDevice ==
    ASSUME NEW w \in Worker, Requests, Requests', RecordedSoFar, TouchDevice(w)
    PROVE  Quiet(w) /\ Undisturbed(req[w])'
  <1> DEFINE q == req[w]
             rivals == ConfidentIn(q.hits)
  <1>1. /\ UNCHANGED <<rows, replies, holds>> /\ q.pc = "touch" /\ q.todo = {}
    BY DEF TouchDevice, At
  <1>2. q \in Request /\ WellFormed(q) /\ TypeOK
    BY TheRequest DEF Requests, TypeOKSteps
  <1>3. CASE Single(rivals) \/ rivals = {}
    <2>1. merges' = MergesWith(q)
      BY <1>1, <1>3 DEF MergesWith, rows
    <2>2. AfterReconcile(w)
      BY <1>3 DEF TouchDevice
    <2>3. QED
      BY <1>1, <2>1, <2>2, QuietEnd DEF rows
  <1>4. CASE ~(Single(rivals) \/ rivals = {})
    <2>1. PICK r : r = [q EXCEPT !.pc = "pending"]
      OBVIOUS
    <2>2. req'[w] = r
      BY <1>4, <2>1 DEF TouchDevice, Go, Requests, TypeOKSteps
    <2>3. /\ r.pc = "pending" /\ r.kind = q.kind /\ r.m = q.m /\ r.obs = q.obs /\ r.mint = q.mint
          /\ r.d = q.d /\ r.hits = q.hits
      BY <1>2, <2>1 DEF Request
    <2>4. q.kind # "patch" /\ IsSettled(q) /\ IsSettled(r)
      BY <1>1, <1>2, <2>3 DEF WellFormed, Reconciles, IsSettled, HasRow
    <2>5. Quiet(w)
      <3>1. TokenWith(r)' = TokenWith(q) /\ RepliesWith(r)' = RepliesWith(q)
        BY <1>1, <2>3, <2>4 DEF TokenWith, RepliesWith, rows
      <3>2. IdentsWith(r)' = IdentsWith(q) /\ MergesWith(r)' = MergesWith(q)
        BY <1>1, <2>3, <2>4 DEF IdentsWith, MergesWith, rows
      <3>3. QED
        BY <1>1, <2>2, <3>1, <3>2 DEF Quiet, rows
    <2>6. Undisturbed(r)'
      BY <1>4, <2>3, <2>4 DEF Undisturbed, FromMachine, TiersPassed, HitsSoFar, ReadIsCurrent, Looking,
         IsSettled
    <2>7. QED
      BY <2>2, <2>5, <2>6
  <1>5. QED
    BY <1>3, <1>4

LEMMA QuietPending ==
    ASSUME NEW w \in Worker, Requests, Requests', RecordedSoFar, Undisturbed(req[w]),
           CreatePendingMerge(w)
    PROVE  Quiet(w) /\ Undisturbed(req[w])'
  <1>1. /\ req[w].pc = "pending" /\ AfterReconcile(w)
        /\ UNCHANGED <<state, token, idents, replies, holds>>
        /\ merges' = merges \union {[source |-> req[w].d, candidates |-> ConfidentIn(req[w].hits)]}
    BY DEF CreatePendingMerge, At
  <1>2. WellFormed(req[w])
    BY TheRequest
  <1>3. merges' = MergesWith(req[w])
    BY <1>1, <1>2 DEF MergesWith, IsSettled, HasRow, WellFormed, Reconciles, Undisturbed, HitsSoFar
  <1>4. QED
    BY <1>1, <1>3, QuietEnd

LEMMA QuietGet ==
    ASSUME NEW w \in Worker, Requests, Requests', RecordedSoFar, Undisturbed(req[w]), Get(w)
    PROVE  Quiet(w) /\ Undisturbed(req[w])'
  <1> DEFINE q == req[w]
             d == req[w].d
  <1>1. UNCHANGED <<rows, holds>> /\ q.pc = "get" /\ q.hits = {}
    BY DEF Get, At, Undisturbed, HitsSoFar
  <1>2. q \in Request /\ WellFormed(q) /\ TypeOK /\ TypeOK' /\ d \in Device
    BY <1>1, TheRequest DEF Requests, TypeOKSteps, Rows
  <1>3. q.kind \in {"register", "patch"}
    BY <1>1, <1>2 DEF WellFormed
  <1>4. MergesWith(q) = merges
    BY <1>1, NoneConfident DEF MergesWith
  <1>5. CASE q.kind = "register" /\ token[d] # None
    <2>1. replies' = replies \union {<<q.m, token[d]>>} /\ req'[w] = Idle
      BY <1>5 DEF Get, Done, Go, Requests, TypeOKSteps
    <2>2. IsSettled(q)
      BY <1>1, <1>5 DEF IsSettled, HasRow
    <2>3. Signals(q.obs) \subseteq idents[d]
      BY <1>1, <2>2 DEF RecordedSoFar, Settled, IsSettled, HasRow, At
    <2>4. IdentsWith(q) = idents
      BY <1>2, <2>3 DEF IdentsWith, TypeOK
    <2>5. TokenWith(q) = token
      BY <1>2, <1>5 DEF TokenWith, TypeOK
    <2>6. RepliesWith(q) = replies'
      BY <1>2, <1>5, <2>1, <2>2, <2>5 DEF RepliesWith
    <2>7. /\ TokenWith(Idle)' = token' /\ IdentsWith(Idle)' = idents'
          /\ MergesWith(Idle)' = merges' /\ RepliesWith(Idle)' = replies'
      BY <1>2, IdleIsUndisturbed, NothingOwed
    <2>8. /\ TokenWith(q)' = token' /\ IdentsWith(q)' = idents'
          /\ MergesWith(q)' = merges' /\ RepliesWith(q)' = replies'
      BY <2>1, <2>7
    <2>9. Quiet(w)
      BY <1>1, <1>4, <2>4, <2>5, <2>6, <2>8 DEF Quiet, rows
    <2>10. QED
      BY <2>1, <2>9, IdleIsUndisturbed
  <1>6. CASE ~(q.kind = "register" /\ token[d] # None)
    <2> DEFINE row == [state |-> state[d], token |-> token[d]]
    <2>1. UNCHANGED replies /\ Go(w, [q EXCEPT !.pc = "upsert", !.read = row])
      BY <1>6 DEF Get
    <2> HIDE DEF row
    <2>2. PICK r : r = [q EXCEPT !.pc = "upsert", !.read = row]
      OBVIOUS
    <2>3. /\ r.pc = "upsert" /\ r.kind = q.kind /\ r.m = q.m /\ r.obs = q.obs /\ r.mint = q.mint
          /\ r.d = d /\ r.hits = {} /\ r.read = row /\ r.to = q.to /\ req'[w] = r
      BY <1>1, <1>2, <2>1, <2>2 DEF Request, Go, Requests, TypeOKSteps
    <2>4. IsSettled(q) <=> IsSettled(r)
      BY <1>1, <2>3 DEF IsSettled, HasRow
    <2>5. /\ TokenWith(r)' = TokenWith(q) /\ IdentsWith(r)' = IdentsWith(q)
          /\ RepliesWith(r)' = RepliesWith(q)
      BY <1>1, <2>1, <2>3, <2>4 DEF TokenWith, IdentsWith, RepliesWith, rows
    <2>6. MergesWith(r)' = merges'
      BY <2>3, NoneConfident DEF MergesWith
    <2>7. Quiet(w)
      BY <1>1, <1>4, <2>3, <2>5, <2>6 DEF Quiet, rows
    <2>8. Undisturbed(r)
      BY <1>3, <1>6, <2>3 DEF Undisturbed, FromMachine, TiersPassed, HitsSoFar, ReadIsCurrent,
         Looking, row
    <2>9. Undisturbed(r)'
      BY <1>1, <2>8, UndisturbedStays
    <2>10. QED
      BY <2>3, <2>7, <2>9
  <1>7. QED
    BY <1>5, <1>6

LEMMA QuietUpsert ==
    ASSUME NEW w \in Worker, Requests, Requests', RecordedSoFar, Undisturbed(req[w]),
           UpsertRegister(w)
    PROVE  Quiet(w) /\ Undisturbed(req[w])'
  <1> DEFINE q == req[w]
             d == req[w].d
  <1>1. /\ q.pc = "upsert" /\ q.kind = "register" /\ q.hits = {}
        /\ q.read = [state |-> state[d], token |-> token[d]] /\ token[d] = None
    BY DEF UpsertRegister, At, Undisturbed, HitsSoFar, ReadIsCurrent
  <1>2. /\ state' = [state EXCEPT ![d] = q.read.state] /\ token' = [token EXCEPT ![d] = q.mint]
        /\ replies' = replies \union {<<q.m, q.mint>>}
        /\ UNCHANGED <<idents, merges, holds>>
    BY DEF UpsertRegister
  <1>3. q \in Request /\ TypeOK /\ TypeOK' /\ d \in Device /\ req'[w] = Idle
    BY <1>1, TheRequest DEF Requests, TypeOKSteps, Rows, UpsertRegister, Done, Go
  <1>4. IsSettled(q)
    BY <1>1 DEF IsSettled, HasRow
  <1>5. state' = state
    BY <1>1, <1>2, <1>3 DEF TypeOK
  <1>6. TokenWith(q) = token'
    BY <1>1, <1>2, <1>3, <1>4 DEF TokenWith, TypeOK
  <1>7. RepliesWith(q) = replies'
    <2>1. TokenWith(q)[d] = q.mint
      BY <1>1, <1>3, <1>4 DEF TokenWith
    <2>2. QED
      BY <1>1, <1>2, <1>4, <2>1 DEF RepliesWith
  <1>8. IdentsWith(q) = idents
    <2>1. Signals(q.obs) \subseteq idents[d]
      BY <1>1, <1>4 DEF RecordedSoFar, Settled, IsSettled, HasRow, At
    <2>2. QED
      BY <1>3, <2>1 DEF IdentsWith, TypeOK
  <1>9. MergesWith(q) = merges
    BY <1>1, NoneConfident DEF MergesWith
  <1>10. /\ TokenWith(Idle)' = token' /\ IdentsWith(Idle)' = idents'
         /\ MergesWith(Idle)' = merges' /\ RepliesWith(Idle)' = replies'
    BY <1>3, IdleIsUndisturbed, NothingOwed
  <1>11. /\ TokenWith(q)' = token' /\ IdentsWith(q)' = idents'
         /\ MergesWith(q)' = merges' /\ RepliesWith(q)' = replies'
    BY <1>3, <1>10
  <1>12. Quiet(w)
    BY <1>2, <1>5, <1>6, <1>7, <1>8, <1>9, <1>11 DEF Quiet
  <1>13. QED
    BY <1>3, <1>12, IdleIsUndisturbed

-------------------------------------------------------------------------------
(***************************************************************************)
(* The statement that settles a request is Serial's handler.               *)
(***************************************************************************)

\* Nothing is owed before the row is settled: Serial sees the rows as they are.
LEMMA SerialSeesRows ==
    ASSUME NEW w, Alone(w), TypeOK, ~IsSettled(req[w])
    PROVE  /\ SettledToken = token /\ SettledIdents = idents
           /\ merges \union PendingMerges = merges /\ SettledReplies = replies
  BY Mapping, NothingOwed DEF Maps

\* What Serial sees of the request that has just settled on d.
LEMMA SerialSeesRequest ==
    ASSUME NEW w \in Worker, Alone(w), Requests, NEW r \in Request, NEW d \in Device,
           req'[w] = r, IsSettled(r), r.d = d, UNCHANGED <<token, idents, merges, replies>>
    PROVE  /\ SettledToken' = IF r.kind = "register" /\ token[d] = None
                                THEN [token EXCEPT ![d] = r.mint] ELSE token
           /\ SettledIdents' = [idents EXCEPT ![d] = @ \union Signals(r.obs)]
           /\ (merges \union PendingMerges)' =
                IF ConfidentIn(r.hits) # {} /\ ~Single(ConfidentIn(r.hits))
                  THEN merges \union {[source |-> d, candidates |-> ConfidentIn(r.hits)]}
                  ELSE merges
           /\ SettledReplies' = IF r.kind = "register"
                                  THEN replies \union {<<r.m, SettledToken'[d]>>} ELSE replies
  <1>1. TypeOK
    BY DEF Requests, TypeOKSteps
  <1>2. /\ SettledToken' = TokenWith(r)' /\ SettledIdents' = IdentsWith(r)'
        /\ (merges \union PendingMerges)' = MergesWith(r)'
        /\ SettledReplies' = RepliesWith(r)'
    BY MappingNext DEF Maps
  <1>3. TokenWith(r)' = IF r.kind = "register" /\ token[d] = None
                          THEN [token EXCEPT ![d] = r.mint] ELSE token
    BY <1>1 DEF TokenWith, TypeOK
  <1>4. IdentsWith(r)' = [idents EXCEPT ![d] = @ \union Signals(r.obs)]
    BY <1>1 DEF IdentsWith, TypeOK
  <1>5. MergesWith(r)' =
                IF ConfidentIn(r.hits) # {} /\ ~Single(ConfidentIn(r.hits))
                  THEN merges \union {[source |-> d, candidates |-> ConfidentIn(r.hits)]}
                  ELSE merges
    BY DEF MergesWith
  <1>6. RepliesWith(r)' = IF r.kind = "register"
                            THEN replies \union {<<r.m, TokenWith(r)'[d]>>} ELSE replies
    BY DEF RepliesWith
  <1>7. QED
    BY <1>2, <1>3, <1>4, <1>5, <1>6

\* Which row a reconcile may settle on, or make.
MaySettle(obs, d, rivals) ==
    \/ UNCHANGED state /\ d \in StrongMatch(obs) /\ rivals = {}
    \/ UNCHANGED state /\ StrongMatch(obs) = {} /\ Confident(obs) = {d} /\ rivals = Confident(obs)
    \/ /\ StrongMatch(obs) = {} /\ ~Single(Confident(obs)) /\ rivals = Confident(obs)
       /\ d \notin Rows
       /\ state' = [state EXCEPT ![d] = IF obs.source = "scan" THEN "discovered" ELSE "active"]

LEMMA SerialMatches ==
    ASSUME NEW obs, SettledToken = token, SettledIdents = idents
    PROVE  /\ Serial!StrongMatch(obs) = StrongMatch(obs)
           /\ Serial!Confident(obs) = Confident(obs)
           /\ Serial!Rows = Rows
           /\ Serial!Signals(obs) = Signals(obs)
  <1>1. Serial!Rows = Rows
    BY DEF Serial!Rows, Rows
  <1>2. \A i : Serial!Owners(i) = Owners(i) /\ Serial!TokenOwners(i) = TokenOwners(i)
    BY <1>1 DEF Serial!Owners, Owners, Serial!TokenOwners, TokenOwners
  <1>3. Serial!WeakSignals(obs) = WeakSignals(obs) /\ Serial!Signals(obs) = Signals(obs)
    BY DEF Serial!WeakSignals, WeakSignals, Serial!Signals, Signals
  <1>4. Serial!StrongMatch(obs) = StrongMatch(obs)
    BY <1>2 DEF Serial!StrongMatch, StrongMatch
  <1>5. Serial!Confident(obs) = Confident(obs)
    BY <1>1, <1>3 DEF Serial!Confident, Confident
  <1>6. QED
    BY <1>1, <1>3, <1>4, <1>5

\* The row of the agent, if it has one, is the one that is settled on.
LEMMA SettlesOnAgentsRow ==
    ASSUME NEW w \in Worker, Alone(w), StepsInv, OneRowPerAgent, req[w].pc \in Looking,
           NEW d \in Device, MaySettle(req[w].obs, d, ConfidentIn(req[w].hits)),
           NEW m \in Machine, req[w].obs.agent = AgentIdOf[m],
           NEW e \in Device, AgentIdOf[m] \in idents[e]
    PROVE  e = d
  <1> DEFINE obs == req[w].obs
  <1>1. /\ TypeOK /\ WellFormed(req[w]) /\ req[w].kind \in {"observe", "register"}
        /\ obs.agent = AgentIdOf[req[w].m] /\ req[w].m \in Machine
    BY TheRequest, KindsAreDisjoint, MachinesHaveSignals
    DEF StepsInv, Requests, TypeOKSteps, WellFormed, Reconciles, Looking, OwnObservation, Identity
  <1>2. SettledIdents = idents
    BY <1>1, SerialSeesRows DEF IsSettled, HasRow, Looking
  <1>3. e \in Owners(obs.agent)
    BY <1>1 DEF Owners, Rows, TypeOK
  <1>4. d \in StrongMatch(obs)
    BY <1>3 DEF MaySettle, StrongMatch
  <1>5. CASE d \in TokenOwners(obs.token)
    <2>1. token[d] = obs.token /\ obs.token \in Token
      BY <1>1, <1>5 DEF TokenOwners, TypeOK
    <2>2. <<req[w].m, obs.token>> \in replies
      BY <1>1, <2>1 DEF StepsInv, TokenInv, ShownWereAnswered
    <2>3. AgentIdOf[req[w].m] \in idents[d]
      BY <1>1, <2>1, <2>2 DEF StepsInv, TokenInv, AnswersAreOwn, HasOrGets
    <2>4. QED
      BY <1>1, <1>2, <2>3 DEF OneRowPerAgent
  <1>6. CASE d \in Owners(obs.agent)
    BY <1>2, <1>6 DEF Owners, OneRowPerAgent
  <1>7. QED
    BY <1>3, <1>4, <1>5, <1>6 DEF StrongMatch

LEMMA SettlingReconciles ==
    ASSUME NEW w \in Worker, Alone(w), Requests, NEW r \in Request, NEW d \in Device,
           req[w].pc \in Looking, req'[w] = r, IsSettled(r), r.d = d,
           r.obs = req[w].obs, r.hits = req[w].hits,
           UNCHANGED <<token, idents, merges, replies>>,
           MaySettle(r.obs, d, ConfidentIn(r.hits))
    PROVE  Serial!Reconcile(r.obs, d)
  <1> DEFINE obs == r.obs
             rivals == ConfidentIn(r.hits)
  <1>1. TypeOK /\ ~IsSettled(req[w])
    BY DEF Requests, TypeOKSteps, IsSettled, HasRow, Looking
  <1>2. /\ SettledToken = token /\ SettledIdents = idents /\ merges \union PendingMerges = merges
    BY <1>1, SerialSeesRows
  <1>3. /\ Serial!StrongMatch(obs) = StrongMatch(obs) /\ Serial!Confident(obs) = Confident(obs)
        /\ Serial!Rows = Rows /\ Serial!Signals(obs) = Signals(obs)
    BY <1>2, SerialMatches
  <1>4. /\ SettledIdents' = [idents EXCEPT ![d] = @ \union Signals(obs)]
        /\ (merges \union PendingMerges)' =
                IF rivals # {} /\ ~Single(rivals)
                  THEN merges \union {[source |-> d, candidates |-> rivals]} ELSE merges
    BY SerialSeesRequest
  <1> HIDE DEF obs, rivals
  <1>5. Serial!MergeObservation(d, obs)
    BY <1>2, <1>3, <1>4 DEF Serial!MergeObservation
  <1>6. ASSUME UNCHANGED state /\ d \in StrongMatch(obs) /\ rivals = {}
        PROVE  Serial!Reconcile(obs, d)
    BY <1>2, <1>3, <1>4, <1>5, <1>6 DEF Serial!Reconcile, Serial!Merge
  <1>7. ASSUME UNCHANGED state, StrongMatch(obs) = {}, Confident(obs) = {d}, rivals = Confident(obs)
        PROVE  Serial!Reconcile(obs, d)
    BY <1>2, <1>3, <1>4, <1>5, <1>7 DEF Serial!Reconcile, Serial!Merge, Single
  <1>8. ASSUME StrongMatch(obs) = {}, ~Single(Confident(obs)), rivals = Confident(obs),
               d \notin Rows,
               state' = [state EXCEPT ![d] = IF obs.source = "scan" THEN "discovered" ELSE "active"]
        PROVE  Serial!Reconcile(obs, d)
    <2>1. ~Serial!Single(Serial!Confident(obs))
      BY <1>3, <1>8 DEF Serial!Single, Single
    <2>2. (merges \union PendingMerges)' =
            IF Serial!Confident(obs) = {} THEN merges \union PendingMerges
            ELSE merges \union PendingMerges \union {[source |-> d, candidates |-> Serial!Confident(obs)]}
      BY <1>2, <1>3, <1>4, <1>8
    <2>3. Serial!CreateFromObservation(obs, d)
      BY <1>3, <1>5, <1>8, <2>1, <2>2 DEF Serial!CreateFromObservation
    <2>4. QED
      BY <2>3 DEF Serial!Reconcile
  <1>9. MaySettle(obs, d, rivals)
    BY DEF obs, rivals
  <1>10. QED
    <2>1. Serial!Reconcile(obs, d)
      BY <1>6, <1>7, <1>8, <1>9 DEF MaySettle
    <2>2. QED
      BY <2>1 DEF obs

\* Settling is a step of Serial, and the agent keeps its one row and token.
LEMMA SettlingStep ==
    ASSUME NEW w \in Worker, Alone(w), StepsInv, Undisturbed(req[w]), OneRowPerAgent, AnswersStand,
           NEW r \in Request, NEW d \in Device, Go(w, r), SameRequest(r, req[w]),
           req[w].pc \in Looking, r.pc = "touch", r.d = d, r.hits = req[w].hits,
           UNCHANGED <<token, idents, merges, replies, holds>>,
           MaySettle(req[w].obs, d, ConfidentIn(req[w].hits))
    PROVE  Serial!Next /\ OneRowPerAgent' /\ AnswersStand' /\ Undisturbed(req[w])'
  <1> DEFINE q == req[w]
             obs == r.obs
  <1>1. /\ TypeOK /\ Requests /\ req'[w] = r /\ WellFormed(q) /\ q \in Request
        /\ r.kind = q.kind /\ r.m = q.m /\ obs = q.obs /\ r.mint = q.mint
    BY TheRequest DEF StepsInv, Requests, TypeOKSteps, Go, SameRequest
  <1>2. r.kind \in {"observe", "register"} /\ r.m \in Machine /\ OwnObservation(r.m, obs)
    BY <1>1 DEF WellFormed, Reconciles, Looking
  <1>3. IsSettled(r) /\ ~IsSettled(q)
    BY <1>2 DEF IsSettled, HasRow, Looking
  <1>4. /\ SettledToken = token /\ SettledIdents = idents /\ SettledReplies = replies
        /\ merges \union PendingMerges = merges
    BY <1>1, <1>3, SerialSeesRows
  <1>5. /\ SettledToken' = IF r.kind = "register" /\ token[d] = None
                             THEN [token EXCEPT ![d] = r.mint] ELSE token
        /\ SettledIdents' = [idents EXCEPT ![d] = @ \union Signals(obs)]
        /\ SettledReplies' = IF r.kind = "register"
                               THEN replies \union {<<r.m, SettledToken'[d]>>} ELSE replies
    BY <1>1, <1>3, SerialSeesRequest
  <1>6. Serial!Reconcile(obs, d)
    BY <1>1, <1>3, SettlingReconciles
  <1>7. Undisturbed(req[w])'
    <2>1. Undisturbed(r)'
      BY <1>2 DEF Undisturbed, FromMachine, TiersPassed, HitsSoFar, ReadIsCurrent, Looking
    <2>2. QED
      BY <1>1, <2>1
  <1>8. OneRowPerAgent'
    <2>1. SUFFICES ASSUME NEW m \in Machine, NEW e \in Device, NEW f \in Device,
                          AgentIdOf[m] \in SettledIdents'[e], AgentIdOf[m] \in SettledIdents'[f]
                   PROVE  e = f
      BY DEF OneRowPerAgent
    <2>2. \A g \in Device : SettledIdents'[g] = IF g = d THEN idents[g] \union Signals(obs) ELSE idents[g]
      BY <1>1, <1>5 DEF TypeOK
    <2>3. CASE AgentIdOf[m] \in Signals(obs)
      <3>1. obs.agent = AgentIdOf[m]
        BY <1>2, <2>3, MachinesHaveSignals, KindsAreDisjoint DEF Signals, OwnObservation, Observation
      <3>2. \A g \in Device : AgentIdOf[m] \in idents[g] => g = d
        BY <1>1, <3>1, SettlesOnAgentsRow
      <3>3. QED
        BY <2>1, <2>2, <3>2
    <2>4. CASE AgentIdOf[m] \notin Signals(obs)
      BY <1>4, <2>1, <2>2, <2>4 DEF OneRowPerAgent
    <2>5. QED
      BY <2>3, <2>4
  <1>9. AnswersStand'
    <2>1. SUFFICES ASSUME NEW m \in Machine, NEW t \in Token, <<m, t>> \in SettledReplies'
                   PROVE  \E e \in Device : SettledToken'[e] = t /\ AgentIdOf[m] \in SettledIdents'[e]
      BY DEF AnswersStand
    <2>2. \A g \in Device : idents[g] \subseteq SettledIdents'[g]
      BY <1>1, <1>5 DEF TypeOK
    <2>3. \A g \in Device : token[g] # None => SettledToken'[g] = token[g]
      BY <1>1, <1>5 DEF TypeOK
    <2>4. CASE <<m, t>> \in replies
      <3>1. PICK e \in Device : token[e] = t /\ AgentIdOf[m] \in idents[e]
        BY <1>4, <2>4 DEF AnswersStand
      <3>2. QED
        BY <2>2, <2>3, <3>1, KindsAreDisjoint
    <2>5. CASE <<m, t>> \notin replies
      <3>1. r.kind = "register" /\ m = r.m /\ t = SettledToken'[d]
        BY <1>5, <2>1, <2>5
      <3>2. obs.agent = AgentIdOf[m] /\ AgentIdOf[m] # None
        BY <1>1, <3>1, KindsAreDisjoint, MachinesHaveSignals DEF WellFormed, Identity
      <3>3. AgentIdOf[m] \in SettledIdents'[d]
        BY <1>1, <1>5, <3>2 DEF TypeOK, Signals
      <3>4. QED
        BY <3>1, <3>3
    <2>6. QED
      BY <2>4, <2>5
  <1>10. CASE r.kind = "observe"
    <2>1. obs \in ScanObservation(r.m) \union CheckinObservation(r.m)
      BY <1>1, <1>10 DEF Undisturbed, FromMachine
    <2>2. UNCHANGED <<SettledToken, SettledReplies, holds>>
      BY <1>4, <1>5, <1>10
    <2>3. obs \in Serial!ScanObservation(r.m) \union Serial!CheckinObservation(r.m)
      BY <2>1 DEF ScanObservation, CheckinObservation, Serial!ScanObservation, Serial!CheckinObservation
    <2>4. Serial!Scan(r.m) \/ Serial!Checkin(r.m)
      BY <1>6, <2>2, <2>3 DEF Serial!Scan, Serial!Checkin
    <2>5. Serial!Next
      BY <1>2, <2>4 DEF Serial!Next
    <2>6. QED
      BY <1>7, <1>8, <1>9, <2>5
  <1>11. CASE r.kind = "register"
    <2>1. obs \in Serial!RegisterObservation(r.m)
      BY <1>1, <1>11 DEF Undisturbed, FromMachine, RegisterObservation, Serial!RegisterObservation
    <2>2. SettledReplies' = SettledReplies \union {<<r.m, SettledToken'[d]>>}
      BY <1>4, <1>5, <1>11
    <2>3. IF SettledToken[d] = None
            THEN \E t \in Token : Serial!Unissued(t) /\ SettledToken' = [SettledToken EXCEPT ![d] = t]
            ELSE UNCHANGED SettledToken
      <3>1. CASE token[d] # None
        BY <1>4, <1>5, <3>1
      <3>2. CASE token[d] = None
        <4>1. r.mint \in Token /\ r.mint # None
          BY <1>1, <1>11, KindsAreDisjoint DEF WellFormed
        <4>2. /\ \A e \in Device : token[e] # r.mint
              /\ \A m \in Machine : <<m, r.mint>> \notin replies
          BY <1>1, <4>1 DEF StepsInv, TokenInv, DrawnAreFresh, HasOrGets
        <4>3. \A m \in Machine : holds[m] # r.mint
          BY <4>1, <4>2 DEF StepsInv, TokenInv, HeldWereAnswered
        <4>4. Serial!Unissued(r.mint)
          BY <1>4, <4>2, <4>3 DEF Serial!Unissued
        <4>5. SettledToken' = [SettledToken EXCEPT ![d] = r.mint]
          BY <1>4, <1>5, <1>11, <3>2
        <4>6. QED
          BY <1>4, <3>2, <4>1, <4>4, <4>5
      <3>3. QED
        BY <3>1, <3>2
    <2>4. Serial!Register(r.m)
      BY <1>6, <2>1, <2>2, <2>3 DEF Serial!Register
    <2>5. Serial!Next
      BY <1>2, <2>4 DEF Serial!Next
    <2>6. QED
      BY <1>7, <1>8, <1>9, <2>5
  <1>12. QED
    BY <1>2, <1>10, <1>11

LEMMA AllAskedIsConfident ==
    ASSUME NEW obs
    PROVE  ConfidentIn(HitsOf(WeakSignals(obs))) = Confident(obs)
  <1> DEFINE W == WeakSignals(obs)
  <1> HIDE DEF W
  <1>1. ASSUME NEW d \in ConfidentIn(HitsOf(W))
        PROVE  d \in Rows /\ \E s, t \in W : s # t /\ {s, t} \subseteq idents[d]
    <2>1. PICK h \in HitsOf(W), k \in HitsOf(W) : h[1] # k[1] /\ h[2] = d /\ k[2] = d
      BY DEF ConfidentIn
    <2>2. h[1] \in W /\ k[1] \in W /\ d \in Owners(h[1]) /\ d \in Owners(k[1])
      BY <2>1 DEF HitsOf
    <2>3. QED
      BY <2>1, <2>2 DEF Owners
  <1>2. ASSUME NEW d \in Rows, NEW s \in W, NEW t \in W, s # t, {s, t} \subseteq idents[d]
        PROVE  d \in ConfidentIn(HitsOf(W))
    <2>1. d \in Device /\ d \in Owners(s) /\ d \in Owners(t)
      BY <1>2 DEF Owners, Rows
    <2>2. <<s, d>> \in HitsOf(W) /\ <<t, d>> \in HitsOf(W)
      BY <2>1 DEF HitsOf
    <2>3. <<s, d>>[1] # <<t, d>>[1] /\ <<s, d>>[2] = d /\ <<t, d>>[2] = d
      BY <1>2
    <2>4. QED
      BY <2>1, <2>2, <2>3 DEF ConfidentIn
  <1>3. ConfidentIn(HitsOf(W)) = {d \in Rows : \E s, t \in W : s # t /\ {s, t} \subseteq idents[d]}
    BY <1>1, <1>2
  <1>4. QED
    BY <1>3 DEF Confident, W

\* What holds after every step.
SerialStep(w) ==
    /\ Serial!Next \/ UNCHANGED Serial!vars
    /\ OneRowPerAgent' /\ AnswersStand' /\ Undisturbed(req[w])'

LEMMA MergeIntoStep ==
    ASSUME NEW w \in Worker, Alone(w), StepsInv, Undisturbed(req[w]), OneRowPerAgent, AnswersStand,
           NEW d \in Device, MergeInto(w, d), req[w].pc \in Looking,
           UNCHANGED <<token, idents, merges, replies, holds>>,
           MaySettle(req[w].obs, d, ConfidentIn(req[w].hits))
    PROVE  SerialStep(w)
  <1>1. PICK r \in Request :
          Go(w, r) /\ SameRequest(r, req[w]) /\ r.pc = "touch" /\ r.d = d /\ r.hits = req[w].hits
    BY MergeIntoShape DEF StepsInv, Looking
  <1>2. QED
    BY <1>1, SettlingStep DEF SerialStep

LEMMA QuietIsSerial ==
    ASSUME NEW w, Alone(w), Quiet(w), Undisturbed(req[w])', OneRowPerAgent, AnswersStand
    PROVE  SerialStep(w)
  BY QuietStep DEF SerialStep

LEMMA FindStep ==
    ASSUME NEW w \in Worker, Alone(w), StepsInv, Requests', Undisturbed(req[w]),
           OneRowPerAgent, AnswersStand,
           NEW owners, NEW next, Lookup(w, owners, next),
           req[w].pc \in {"byToken", "byAgent", "byMac"},
           owners # {} => owners = StrongMatch(req[w].obs),
           owners = {} =>
           \/ next = AfterToken(req[w].obs) /\ TokenOwners(req[w].obs.token) = {}
           \/ /\ next = AfterAgent(req[w].obs)
              /\ TokenOwners(req[w].obs.token) = {} /\ Owners(req[w].obs.agent) = {}
           \/ /\ next = "weak" /\ TokenOwners(req[w].obs.token) = {}
              /\ Owners(req[w].obs.agent) = {} /\ Owners(req[w].obs.mac) = {}
    PROVE  SerialStep(w)
  <1>1. UNCHANGED <<rows, replies, holds>> /\ Requests
    BY DEF Lookup, StepsInv
  <1>2. CASE owners # {}
    <2>1. PICK d \in owners : MergeInto(w, d)
      BY <1>2 DEF Lookup
    <2>2. d \in Device /\ d \in StrongMatch(req[w].obs)
      BY <1>2, <2>1 DEF StrongMatch, TokenOwners, Owners, Rows
    <2>3. ConfidentIn(req[w].hits) = {}
      BY NoneConfident DEF Undisturbed, HitsSoFar
    <2>4. QED
      BY <1>1, <2>1, <2>2, <2>3, MergeIntoStep DEF MaySettle, rows, Looking
  <1>3. CASE owners = {}
    <2>1. Go(w, [req[w] EXCEPT !.pc = next])
      BY <1>3 DEF Lookup
    <2>2. Quiet(w) /\ Undisturbed(req[w])'
      BY <1>1, <1>3, <2>1, QuietMiss
    <2>3. QED
      BY <2>2, QuietIsSerial
  <1>4. QED
    BY <1>2, <1>3

LEMMA StrongTiersStep ==
    ASSUME NEW w \in Worker, Alone(w), StepsInv, Requests', Undisturbed(req[w]),
           OneRowPerAgent, AnswersStand, FindByToken(w) \/ FindByAgent(w) \/ FindByMac(w)
    PROVE  SerialStep(w)
  <1> DEFINE obs == req[w].obs
  <1>1. CASE FindByToken(w)
    <2>1. req[w].pc = "byToken" /\ Lookup(w, TokenOwners(obs.token), AfterToken(obs))
      BY <1>1 DEF FindByToken, At
    <2>2. TokenOwners(obs.token) # {} => TokenOwners(obs.token) = StrongMatch(obs)
      BY DEF StrongMatch
    <2>3. QED
      BY <2>1, <2>2, FindStep
  <1>2. CASE FindByAgent(w)
    <2>1. req[w].pc = "byAgent" /\ Lookup(w, Owners(obs.agent), AfterAgent(obs))
      BY <1>2 DEF FindByAgent, At
    <2>2. TokenOwners(obs.token) = {}
      BY <2>1 DEF Undisturbed, TiersPassed
    <2>3. Owners(obs.agent) # {} => Owners(obs.agent) = StrongMatch(obs)
      BY <2>2 DEF StrongMatch
    <2>4. QED
      BY <2>1, <2>2, <2>3, FindStep
  <1>3. CASE FindByMac(w)
    <2>1. req[w].pc = "byMac" /\ Lookup(w, Owners(obs.mac), "weak")
      BY <1>3 DEF FindByMac, At
    <2>2. TokenOwners(obs.token) = {} /\ Owners(obs.agent) = {} /\ obs.mac \in UniversalMac
      BY <2>1 DEF Undisturbed, TiersPassed
    <2>3. Owners(obs.mac) # {} => Owners(obs.mac) = StrongMatch(obs)
      BY <2>2 DEF StrongMatch
    <2>4. QED
      BY <2>1, <2>2, <2>3, FindStep
  <1>4. QED
    BY <1>1, <1>2, <1>3

\* All tiers were asked and the rows have not changed since.
LEMMA AskedKnows ==
    ASSUME NEW w \in Worker, Undisturbed(req[w]), Asked(w)
    PROVE  /\ req[w].pc = "weak" /\ StrongMatch(req[w].obs) = {}
           /\ ConfidentIn(req[w].hits) = Confident(req[w].obs)
  <1>1. req[w].pc = "weak" /\ req[w].todo = {}
    BY DEF Asked, At
  <1>2. StrongMatch(req[w].obs) = {}
    BY <1>1 DEF Undisturbed, TiersPassed, StrongMatch
  <1>3. req[w].hits = HitsOf(WeakSignals(req[w].obs) \ {})
    BY <1>1 DEF Undisturbed, HitsSoFar
  <1>4. WeakSignals(req[w].obs) \ {} = WeakSignals(req[w].obs)
    OBVIOUS
  <1>5. QED
    BY <1>1, <1>2, <1>3, <1>4, AllAskedIsConfident

LEMMA ConfidentStep ==
    ASSUME NEW w \in Worker, Alone(w), StepsInv, Undisturbed(req[w]),
           OneRowPerAgent, AnswersStand, MergeIntoConfident(w)
    PROVE  SerialStep(w)
  <1>1. PICK d \in Device : ConfidentIn(req[w].hits) = {d} /\ MergeInto(w, d)
    BY DEF MergeIntoConfident
  <1>2. Asked(w) /\ UNCHANGED <<rows, replies, holds>>
    BY DEF MergeIntoConfident
  <1>3. MaySettle(req[w].obs, d, ConfidentIn(req[w].hits)) /\ req[w].pc \in Looking
    BY <1>1, <1>2, AskedKnows DEF MaySettle, rows, Looking
  <1>4. QED
    BY <1>1, <1>2, <1>3, MergeIntoStep DEF rows

LEMMA InsertStep ==
    ASSUME NEW w \in Worker, Alone(w), StepsInv, Undisturbed(req[w]),
           OneRowPerAgent, AnswersStand, NEW d \in Device, InsertRow(w, d)
    PROVE  SerialStep(w)
  <1>1. /\ Asked(w) /\ MergeInto(w, d) /\ UNCHANGED <<token, idents, merges, replies, holds>>
        /\ ~Single(ConfidentIn(req[w].hits)) /\ d \notin Rows
        /\ state' = [state EXCEPT ![d] = IF req[w].obs.source = "scan" THEN "discovered" ELSE "active"]
    BY DEF InsertRow
  <1>2. MaySettle(req[w].obs, d, ConfidentIn(req[w].hits)) /\ req[w].pc \in Looking
    BY <1>1, AskedKnows DEF MaySettle, Looking
  <1>3. QED
    BY <1>1, <1>2, MergeIntoStep

\* While a request is served, devices are added by hand and answers arrive.
LEMMA CreateStep ==
    ASSUME NEW w \in Worker, Alone(w), StepsInv, Undisturbed(req[w]),
           OneRowPerAgent, AnswersStand, NEW d \in Device, CreateByHand(d)
    PROVE  SerialStep(w)
  <1>1. /\ d \notin Rows /\ state' = [state EXCEPT ![d] = "active"]
        /\ UNCHANGED <<token, idents, merges, replies, holds, req>>
    BY DEF CreateByHand, Create
  <1>2. /\ TypeOK /\ WellFormed(req[w]) /\ (req[w].pc \in HasRow => req[w].d \in Rows)
    BY TheRequest DEF StepsInv, Requests, TypeOKSteps, HasRow
  <1>3. /\ \A i : Owners(i)' = Owners(i)
        /\ \A t : TokenOwners(t)' = TokenOwners(t)
    <2>1. \A e \in Device : state'[e] = IF e = d THEN "active" ELSE state[e]
      BY <1>1, <1>2 DEF TypeOK
    <2>2. idents[d] = {} /\ token[d] = None
      BY <1>1, <1>2 DEF TypeOK, Rows
    <2>3. \A i : Owners(i)' = Owners(i)
      BY <1>1, <2>1, <2>2 DEF Owners, Rows
    <2>4. \A t : TokenOwners(t)' = TokenOwners(t)
      BY <1>1, <2>1, <2>2 DEF TokenOwners, Rows
    <2>5. QED
      BY <2>3, <2>4
  <1>4. Undisturbed(req[w])'
    <2>1. PICK q : q = req[w]
      OBVIOUS
    <2>2. Undisturbed(q) /\ req'[w] = q /\ (q.pc \in HasRow => q.d \in Rows)
      BY <1>1, <1>2, <2>1
    <2>3. FromMachine(q)'
      BY <1>1, <2>2 DEF Undisturbed, FromMachine, RegisterObservation, ScanObservation, CheckinObservation
    <2>4. TiersPassed(q)' /\ HitsSoFar(q)'
      BY <1>3, <2>2 DEF Undisturbed, TiersPassed, HitsSoFar, HitsOf
    <2>5. ReadIsCurrent(q)'
      <3>1. q.pc = "upsert" => q.d # d /\ state'[q.d] = state[q.d]
        BY <1>1, <1>2, <2>2 DEF HasRow, TypeOK, Rows
      <3>2. QED
        BY <1>1, <2>2, <3>1 DEF Undisturbed, ReadIsCurrent
    <2>6. QED
      BY <2>2, <2>3, <2>4, <2>5 DEF Undisturbed
  <1>5. UNCHANGED <<SettledToken, SettledIdents, SettledReplies, merges \union PendingMerges>>
    BY <1>1 DEF SettledToken, SettledIdents, SettledReplies, PendingMerges, Settling, Registering, Settled
  <1>6. Serial!Create(d)
    BY <1>1, <1>5 DEF Serial!Create, Serial!Rows, Rows
  <1>7. OneRowPerAgent' /\ AnswersStand'
    BY <1>5 DEF OneRowPerAgent, AnswersStand
  <1>8. QED
    BY <1>4, <1>6, <1>7 DEF SerialStep, Serial!Next

\* An agent has one token only, so that one delivered late is the one it has.
LEMMA DeliverStep ==
    ASSUME NEW w \in Worker, Alone(w), StepsInv, Undisturbed(req[w]),
           OneRowPerAgent, AnswersStand, NEW m \in Machine, DeliverReply(m)
    PROVE  SerialStep(w)
  <1>1. PICK t \in Token : <<m, t>> \in replies /\ holds' = [holds EXCEPT ![m] = t]
    BY DEF DeliverReply, Deliver
  <1>2. UNCHANGED <<state, token, idents, merges, replies, req>>
    BY DEF DeliverReply, Deliver
  <1>3. TypeOK /\ WellFormed(req[w])
    BY TheRequest DEF StepsInv, Requests, TypeOKSteps
  <1>4. UNCHANGED <<SettledToken, SettledIdents, SettledReplies, merges \union PendingMerges>>
    BY <1>2 DEF SettledToken, SettledIdents, SettledReplies, PendingMerges, Settling, Registering, Settled
  <1>5. replies \subseteq SettledReplies
    BY DEF SettledReplies
  <1>6. Serial!Deliver(m)
    BY <1>1, <1>2, <1>4, <1>5 DEF Serial!Deliver
  <1>7. ASSUME NEW n \in Machine, holds[n] # None
        PROVE  holds'[n] = holds[n]
    <2>1. CASE n # m
      BY <1>1, <1>3, <2>1 DEF TypeOK
    <2>2. CASE n = m
      <3>1. holds[m] \in Token /\ <<m, holds[m]>> \in replies
        BY <1>3, <1>7, <2>2 DEF TypeOK, StepsInv, TokenInv, HeldWereAnswered
      <3>2. PICK d \in Device : SettledToken[d] = t /\ AgentIdOf[m] \in SettledIdents[d]
        BY <1>1, <1>5 DEF AnswersStand
      <3>3. PICK e \in Device : SettledToken[e] = holds[m] /\ AgentIdOf[m] \in SettledIdents[e]
        BY <1>5, <3>1 DEF AnswersStand
      <3>4. d = e
        BY <3>2, <3>3 DEF OneRowPerAgent
      <3>5. QED
        BY <1>1, <1>3, <2>2, <3>2, <3>3, <3>4 DEF TypeOK
    <2>3. QED
      BY <2>1, <2>2
  <1>8. Undisturbed(req[w])'
    <2>1. PICK q : q = req[w]
      OBVIOUS
    <2>2. Undisturbed(q) /\ req'[w] = q /\ WellFormed(q)
      BY <1>2, <1>3, <2>1
    <2>3. FromMachine(q)'
      <3>1. SUFFICES ASSUME q.pc \in Looking
                     PROVE  q.obs \in IF q.kind = "register" THEN RegisterObservation(q.m)'
                               ELSE ScanObservation(q.m)' \union CheckinObservation(q.m)'
        BY DEF FromMachine
      <3>2. q.m \in Machine
        BY <2>2, <3>1 DEF WellFormed, Reconciles, Looking
      <3>3. holds'[q.m] = holds[q.m] \/ holds[q.m] = None
        BY <1>7, <3>2
      <3>4. q.obs \in RegisterObservation(q.m) => q.obs \in RegisterObservation(q.m)'
        BY <3>3 DEF RegisterObservation
      <3>5. q.obs \in CheckinObservation(q.m) => q.obs \in CheckinObservation(q.m)'
        BY <3>3 DEF CheckinObservation
      <3>6. ScanObservation(q.m)' = ScanObservation(q.m)
        BY DEF ScanObservation
      <3>7. QED
        BY <2>2, <3>1, <3>4, <3>5, <3>6 DEF Undisturbed, FromMachine
    <2>4. TiersPassed(q)' /\ HitsSoFar(q)' /\ ReadIsCurrent(q)'
      BY <1>2, <2>2 DEF Undisturbed, TiersPassed, HitsSoFar, ReadIsCurrent, HitsOf,
         TokenOwners, Owners, Rows
    <2>5. QED
      BY <2>2, <2>3, <2>4 DEF Undisturbed
  <1>9. OneRowPerAgent' /\ AnswersStand'
    BY <1>4 DEF OneRowPerAgent, AnswersStand
  <1>10. QED
    BY <1>6, <1>8, <1>9 DEF SerialStep, Serial!Next

LEMMA WorkStep ==
    ASSUME NEW w \in Worker, Alone(w), StepsInv, Requests', Undisturbed(req[w]),
           OneRowPerAgent, AnswersStand, Work(w)
    PROVE  SerialStep(w)
  <1>1. Requests /\ RecordedSoFar
    BY DEF StepsInv, RowInv
  <1>2. CASE FindByToken(w) \/ FindByAgent(w) \/ FindByMac(w)
    BY <1>2, StrongTiersStep
  <1>3. CASE FindWeakHits(w)
    BY <1>1, <1>3, QuietWeak, QuietIsSerial
  <1>4. CASE MergeIntoConfident(w)
    BY <1>4, ConfidentStep
  <1>5. CASE \E d \in Device : InsertRow(w, d)
    BY <1>5, InsertStep
  <1>6. CASE TouchIdentity(w)
    BY <1>1, <1>6, QuietTouch, QuietIsSerial
  <1>7. CASE TouchDevice(w)
    BY <1>1, <1>7, QuietTouchDevice, QuietIsSerial
  <1>8. CASE CreatePendingMerge(w)
    BY <1>1, <1>8, QuietPending, QuietIsSerial
  <1>9. CASE Get(w)
    BY <1>1, <1>9, QuietGet, QuietIsSerial
  <1>10. CASE UpsertRegister(w)
    BY <1>1, <1>10, QuietUpsert, QuietIsSerial
  <1>11. CASE UpsertPatch(w)
    BY <1>1, <1>11, PatchWrites DEF SerialStep
  <1>12. QED
    BY <1>2, <1>3, <1>4, <1>5, <1>6, <1>7, <1>8, <1>9, <1>10, <1>11 DEF Work

LEMMA OneRequestStep ==
    ASSUME NEW w \in Worker, Alone(w), StepsInv, Requests', SerialInv, [NextSteps]_allVars
    PROVE  SerialStep(w)
  <1>1. Undisturbed(req[w]) /\ OneRowPerAgent /\ AnswersStand /\ Requests
    BY DEF SerialInv, StepsInv
  <1>2. ASSUME NEW v \in Worker,
               \/ \E m \in Machine : StartObserve(v, m) \/ StartRegister(v, m)
               \/ \E d \in Device : StartPatch(v, d)
               \/ Work(v)
               \/ Fail(v)
        PROVE  SerialStep(w)
    <2>1. v = w
      BY DEF Alone
    <2>2. ~Fail(w)
      BY DEF Fail, Alone
    <2>3. CASE \E m \in Machine : StartObserve(w, m)
      BY <1>1, <2>3, QuietObserve, QuietIsSerial
    <2>4. CASE \E m \in Machine : StartRegister(w, m)
      BY <1>1, <2>4, QuietRegister, QuietIsSerial
    <2>5. CASE \E d \in Device : StartPatch(w, d)
      BY <1>1, <2>5, QuietPatch, QuietIsSerial
    <2>6. CASE Work(w)
      BY <1>1, <2>6, WorkStep
    <2>7. QED
      BY <1>2, <2>1, <2>2, <2>3, <2>4, <2>5, <2>6
  <1>3. CASE \E d \in Device : CreateByHand(d)
    BY <1>1, <1>3, CreateStep
  <1>4. CASE \E m \in Machine : DeliverReply(m)
    BY <1>1, <1>4, DeliverStep
  <1>5. CASE UNCHANGED allVars
    <2>1. UNCHANGED <<state, token, idents, merges, replies, holds, req>>
      BY <1>5 DEF allVars
    <2>2. PICK q : q = req[w]
      OBVIOUS
    <2>3. Undisturbed(q)'
      BY <1>1, <2>1, <2>2, UndisturbedStays DEF rows
    <2>4. Quiet(w)
      BY <2>1 DEF Quiet, TokenWith, IdentsWith, MergesWith, RepliesWith
    <2>5. Undisturbed(req[w])'
      BY <2>1, <2>2, <2>3
    <2>6. QED
      BY <1>1, <2>4, <2>5, QuietIsSerial
  <1>6. QED
    BY <1>2, <1>3, <1>4, <1>5 DEF NextSteps

LEMMA SerialInvInit ==
    ASSUME NEW w \in Worker, Alone(w), InitSteps
    PROVE  Serial!Init /\ SerialInv
  <1>1. req[w] = Idle /\ Init /\ TypeOK
    BY TypeInit DEF InitSteps
  <1>2. /\ SettledToken = token /\ SettledIdents = idents
        /\ merges \union PendingMerges = merges /\ SettledReplies = replies
    BY <1>1, IdleIsUndisturbed, SerialSeesRows
  <1>3. Serial!Init
    BY <1>1, <1>2 DEF Init, Serial!Init
  <1>4. OneRowPerAgent /\ AnswersStand
    BY <1>1, <1>2 DEF Init, OneRowPerAgent, AnswersStand
  <1>5. \A v \in Worker : Undisturbed(req[v])
    BY <1>1, IdleIsUndisturbed DEF Alone
  <1>6. QED
    BY <1>3, <1>4, <1>5 DEF SerialInv

\* One request at a time, none of whose statements fails, is a request of
\* Registry's: it takes effect at the lookup that finds its row or the INSERT
\* that makes it, and what is left to write changes nothing any more.
THEOREM OneAtATimeIsSerial ==
    ASSUME NEW w, Worker = {w}, MayFail = FALSE
    PROVE  SpecSteps => SerialSpec
  <1>1. w \in Worker /\ Alone(w)
    BY DEF Alone
  <1>2. InitSteps => Serial!Init /\ SerialInv
    BY <1>1, SerialInvInit
  <1>3. StepsInv /\ StepsInv' /\ SerialInv /\ [NextSteps]_allVars
          => [Serial!Next]_Serial!vars /\ SerialInv'
    <2>1. SUFFICES ASSUME StepsInv, StepsInv', SerialInv, [NextSteps]_allVars
                   PROVE  [Serial!Next]_Serial!vars /\ SerialInv'
      OBVIOUS
    <2>2. SerialStep(w)
      BY <1>1, <2>1, OneRequestStep DEF StepsInv
    <2>3. \A v \in Worker : Undisturbed(req[v])'
      BY <1>1, <2>2 DEF SerialStep, Alone
    <2>4. QED
      BY <2>2, <2>3 DEF SerialStep, SerialInv
  <1>4. QED
    BY <1>2, <1>3, StepsInvariant, PTL DEF SpecSteps, SerialSpec, Serial!Spec

===============================================================================
