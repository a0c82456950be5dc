----------------------------- MODULE RegistrySteps -----------------------------
(***************************************************************************)
(* The handlers of Registry taken apart into the SQL statements they       *)
(* execute.  internal/device runs no transaction: every lookup, INSERT and *)
(* UPDATE is committed on its own, HTTP handlers and the scanner run       *)
(* concurrently, and any statement may fail (SQLITE_BUSY, a cancelled      *)
(* request, the process killed), which ends the request and leaves what it *)
(* had already written.                                                    *)
(*                                                                         *)
(* With one worker and no failure this implements Registry (Serial, below).*)
(***************************************************************************)
EXTENDS Registry, Naturals

CONSTANTS
    Worker,     \* the goroutines that serve requests
    MayFail,    \* whether statements may fail
    MaxRequests \* bound: the number of requests that ever arrive

\* What Get returns of a row.
Row == [state : DeviceState, token : Token \union {None}]

ASSUME StepsAssumption ==
    /\ MayFail \in BOOLEAN /\ MaxRequests \in Nat
    /\ None \notin Row

VARIABLES
    req,        \* [Worker -> Request]: the request each worker is serving
    arrived     \* the number of requests that have arrived

rows == <<state, token, idents, merges>>
allVars == <<state, token, idents, merges, replies, holds, req, arrived>>

(***************************************************************************)
(* A request is at the statement pc names.  d is the row it works on; hits *)
(* is what the weak lookups returned, as pairs <<signal, row>>; todo holds *)
(* the weak signals still to look up, or the identities still to insert;   *)
(* read is the row as Get returned it, which Upsert writes back.           *)
(***************************************************************************)
PC == {"idle", "byToken", "byAgent", "byMac", "weak", "touch", "pending", "get",
       "upsert"}

Request ==
    [pc : PC, kind : {"none", "observe", "register", "patch"},
     m : Machine \union {None}, obs : Observation \union {None},
     mint : Token \union {None}, to : DeviceState \union {"none"},
     d : Device \union {None}, hits : SUBSET (Identity \X Device),
     todo : SUBSET Identity, read : Row \union {None}]

Idle ==
    [pc |-> "idle", kind |-> "none", m |-> None, obs |-> None, mint |-> None,
     to |-> "none", d |-> None, hits |-> {}, todo |-> {}, read |-> None]

\* The first statement of Reconcile: a tier whose field is absent is not asked.
AfterAgent(obs) == IF obs.mac \in UniversalMac THEN "byMac" ELSE "weak"
AfterToken(obs) == IF obs.agent # None THEN "byAgent" ELSE AfterAgent(obs)
FirstTier(obs)  == IF obs.token # None THEN "byToken" ELSE AfterToken(obs)

\* The order in which mergeObservation inserts, and findWeakHits asks.
FirstOf(obs, S) ==
    IF obs.agent \in S THEN obs.agent
    ELSE IF obs.mac \in S THEN obs.mac
    ELSE IF obs.ip \in S THEN obs.ip
    ELSE obs.host

FirstWeakOf(obs, S) ==
    IF obs.ip \in S THEN obs.ip
    ELSE IF obs.host \in S THEN obs.host
    ELSE obs.mac

\* A bug the run must catch: a single hit is taken for enough.
OneHitIn(hits) == {d \in Device : \E h \in hits : h[2] = d}

\* The rows with two hits or more.
ConfidentIn(hits) ==
    {d \in Device : \E h, k \in hits : h[1] # k[1] /\ h[2] = d /\ k[2] = d}

InitSteps == Init /\ req = [w \in Worker |-> Idle] /\ arrived = 0

Go(w, r)  == req' = [req EXCEPT ![w] = r]
At(w, pc) == req[w].pc = pc
Done(w)   == Go(w, Idle)

-------------------------------------------------------------------------------
(***************************************************************************)
(* Requests arrive.                                                        *)
(***************************************************************************)

\* The random token a Register would issue is drawn when it starts.
Undrawn(t) ==
    /\ Unissued(t)
    /\ \A w \in Worker : /\ req[w].mint # t
                         /\ req[w].read # None => req[w].read.token # t

Arrive(w) == At(w, "idle") /\ arrived < MaxRequests /\ arrived' = arrived + 1

\* findWeakHits starts with every weak signal still to look up.
Reconciling(r) == [r EXCEPT !.pc = FirstTier(r.obs), !.todo = WeakSignals(r.obs)]

StartObserve(w, m) ==
    /\ Arrive(w)
    /\ \E obs \in ScanObservation(m) \union CheckinObservation(m) :
         Go(w, Reconciling([Idle EXCEPT !.kind = "observe", !.m = m, !.obs = obs]))
    /\ UNCHANGED <<rows, replies, holds>>

StartRegister(w, m) ==
    /\ Arrive(w)
    /\ \E obs \in RegisterObservation(m), t \in Token :
         /\ Undrawn(t)
         /\ Go(w, Reconciling([Idle EXCEPT !.kind = "register", !.m = m, !.obs = obs,
                                           !.mint = t]))
    /\ UNCHANGED <<rows, replies, holds>>

\* "none": a patch of the label or the person, which leaves the state out.
StartPatch(w, d) ==
    /\ Arrive(w)
    /\ d \in Rows
    /\ \E s \in PatchState \union {"none"} :
         Go(w, [Idle EXCEPT !.pc = "get", !.kind = "patch", !.d = d, !.to = s])
    /\ UNCHANGED <<rows, replies, holds>>

-------------------------------------------------------------------------------
(***************************************************************************)
(* Reconcile.                                                              *)
(***************************************************************************)

\* A bug the run must catch: the observation's identities are not recorded.
MergeNothing(w, d) == Go(w, [req[w] EXCEPT !.pc = "touch", !.d = d, !.todo = {}])

MergeInto(w, d) ==
    Go(w, [req[w] EXCEPT !.pc = "touch", !.d = d, !.todo = Signals(req[w].obs)])

\* A lookup of the strong tiers: one of the owners is read, or none and the
\* next statement follows.
Lookup(w, owners, next) ==
    /\ \/ \E d \in owners : MergeInto(w, d)
       \/ owners = {} /\ Go(w, [req[w] EXCEPT !.pc = next])
    /\ UNCHANGED <<rows, replies, holds, arrived>>

FindByToken(w) ==
    /\ At(w, "byToken")
    /\ Lookup(w, TokenOwners(req[w].obs.token), AfterToken(req[w].obs))

FindByAgent(w) ==
    /\ At(w, "byAgent")
    /\ Lookup(w, Owners(req[w].obs.agent), AfterAgent(req[w].obs))

FindByMac(w) ==
    /\ At(w, "byMac")
    /\ Lookup(w, Owners(req[w].obs.mac), "weak")

\* findWeakHits, one query per weak signal.
FindWeakHits(w) ==
    /\ At(w, "weak")
    /\ req[w].todo # {}
    /\ LET s == FirstWeakOf(req[w].obs, req[w].todo)
       IN  Go(w, [req[w] EXCEPT !.todo = @ \ {s}, !.hits = @ \union ({s} \X Owners(s))])
    /\ UNCHANGED <<rows, replies, holds, arrived>>

\* All asked: the single confident row, or else the INSERT of a new one.
Asked(w) == At(w, "weak") /\ req[w].todo = {}

\* A bug the run must catch: any of several confident rows is merged into.
MergeIntoAny(w) ==
    /\ Asked(w)
    /\ \E d \in ConfidentIn(req[w].hits) : MergeInto(w, d)
    /\ UNCHANGED <<rows, replies, holds, arrived>>

MergeIntoConfident(w) ==
    /\ Asked(w)
    /\ \E d \in Device : ConfidentIn(req[w].hits) = {d} /\ MergeInto(w, d)
    /\ UNCHANGED <<rows, replies, holds, arrived>>

\* A bug the run must catch: the row is never inserted.
InsertNothing(w, d) ==
    /\ Asked(w)
    /\ ~ Single(ConfidentIn(req[w].hits))
    /\ d \notin Rows
    /\ MergeInto(w, d)
    /\ UNCHANGED <<rows, replies, holds, arrived>>

InsertRow(w, d) ==
    /\ Asked(w)
    /\ ~ Single(ConfidentIn(req[w].hits))
    /\ d \notin Rows
    /\ state' = [state EXCEPT ![d] = IF req[w].obs.source = "scan" THEN "discovered" ELSE "active"]
    /\ MergeInto(w, d)
    /\ UNCHANGED <<token, idents, merges, replies, holds, arrived>>

\* mergeObservation: one INSERT per identity, in its fixed order.
TouchIdentity(w) ==
    /\ At(w, "touch")
    /\ req[w].todo # {}
    /\ LET i == FirstOf(req[w].obs, req[w].todo)
       IN  /\ idents' = [idents EXCEPT ![req[w].d] = @ \union {i}]
           /\ Go(w, [req[w] EXCEPT !.todo = @ \ {i}])
    /\ UNCHANGED <<state, token, merges, replies, holds, arrived>>

\* The UPDATE of last_seen ends it; an ambiguous observation still has its
\* pending merge to insert, a Register its token to issue.
AfterReconcile(w) ==
    IF req[w].kind = "register" THEN Go(w, [req[w] EXCEPT !.pc = "get", !.hits = {}]) ELSE Done(w)

TouchDevice(w) ==
    /\ At(w, "touch")
    /\ req[w].todo = {}
    /\ IF Single(ConfidentIn(req[w].hits)) \/ ConfidentIn(req[w].hits) = {}
         THEN AfterReconcile(w)
         ELSE Go(w, [req[w] EXCEPT !.pc = "pending"])
    /\ UNCHANGED <<rows, replies, holds, arrived>>

CreatePendingMerge(w) ==
    /\ At(w, "pending")
    /\ merges' = merges \union
                   {[source |-> req[w].d, candidates |-> ConfidentIn(req[w].hits)]}
    /\ AfterReconcile(w)
    /\ UNCHANGED <<state, token, idents, replies, holds, arrived>>

-------------------------------------------------------------------------------
(***************************************************************************)
(* Register and Patch: Get, then Upsert of the whole row as it was read.   *)
(***************************************************************************)

\* Register answers at once with the token the row has.
Get(w) ==
    /\ At(w, "get")
    /\ LET d == req[w].d
       IN  IF req[w].kind = "register" /\ token[d] # None
             THEN replies' = replies \union {<<req[w].m, token[d]>>} /\ Done(w)
             ELSE /\ Go(w, [req[w] EXCEPT !.pc = "upsert",
                                          !.read = [state |-> state[d], token |-> token[d]]])
                  /\ UNCHANGED replies
    /\ UNCHANGED <<rows, holds, arrived>>

\* The identities that Upsert inserts again are those Get read: rows never
\* lose any, so that changes nothing.
UpsertRegister(w) ==
    /\ At(w, "upsert")
    /\ req[w].kind = "register"
    /\ state' = [state EXCEPT ![req[w].d] = req[w].read.state]
    /\ token' = [token EXCEPT ![req[w].d] = req[w].mint]
    /\ replies' = replies \union {<<req[w].m, req[w].mint>>}
    /\ Done(w)
    /\ UNCHANGED <<idents, merges, holds, arrived>>

UpsertPatch(w) ==
    /\ At(w, "upsert")
    /\ req[w].kind = "patch"
    /\ state' = [state EXCEPT ![req[w].d] = IF req[w].to = "none" THEN req[w].read.state
                                            ELSE req[w].to]
    /\ token' = [token EXCEPT ![req[w].d] = req[w].read.token]
    /\ Done(w)
    /\ UNCHANGED <<idents, merges, replies, holds, arrived>>

\* A statement fails: the handler returns its error, nothing is undone.
Fail(w) ==
    /\ MayFail
    /\ ~ At(w, "idle")
    /\ Done(w)
    /\ UNCHANGED <<rows, replies, holds, arrived>>

-------------------------------------------------------------------------------

\* POST /devices is one statement that matters: it is served as it arrives.
CreateByHand(d) ==
    /\ arrived < MaxRequests
    /\ arrived' = arrived + 1
    /\ Create(d)
    /\ UNCHANGED req

DeliverReply(m) == Deliver(m) /\ UNCHANGED <<req, arrived>>

Work(w) ==
    \/ FindByToken(w) \/ FindByAgent(w) \/ FindByMac(w) \/ FindWeakHits(w)
    \/ MergeIntoConfident(w)
    \/ \E d \in Device : InsertRow(w, d)
    \/ TouchIdentity(w) \/ TouchDevice(w) \/ CreatePendingMerge(w)
    \/ Get(w) \/ UpsertRegister(w) \/ UpsertPatch(w)

NextSteps ==
    \/ \E w \in Worker :
         \/ \E m \in Machine : StartObserve(w, m) \/ StartRegister(w, m)
         \/ \E d \in Device : StartPatch(w, d)
         \/ Work(w)
         \/ Fail(w)
    \/ \E d \in Device : CreateByHand(d)
    \/ \E m \in Machine : DeliverReply(m)

SpecSteps == InitSteps /\ [][NextSteps]_allVars

-------------------------------------------------------------------------------
(***************************************************************************)
(* Properties.                                                             *)
(***************************************************************************)

\* Registry's TypeOK, and well-formed requests.
TypeOKSteps ==
    /\ TypeOK
    /\ req \in [Worker -> Request] /\ arrived \in 0 .. MaxRequests
    /\ \A w \in Worker : req[w].pc \in {"touch", "pending", "get", "upsert"} => req[w].d \in Rows

\* Whatever the interleaving of requests and wherever they fail, the row that
\* has the token an agent retains is the agent's own: with NoFalseMerge, no
\* agent ever authenticates as another child's device.
TokenNeverCrosses ==
    \A m \in Machine, d \in Device : token[d] # None /\ holds[m] = token[d] => IsOf(d, m)

\* agent.go: "This makes register idempotent - re-running an installer doesn't
\* rotate the token."  A Register never replaces a token that has been issued.
RegisterKeepsToken ==
    [][\A w \in Worker : UpsertRegister(w) =>
          \A d \in Device : token[d] # None => token'[d] = token[d]]_allVars

(***************************************************************************)
(* With one worker and no failure, the steps implement Registry: a request *)
(* takes effect as a whole at the statement that settles its row, the      *)
(* lookup that finds it or the INSERT that creates it.                     *)
(***************************************************************************)

Settled(w) == req[w].kind # "patch" /\ req[w].pc \in {"touch", "pending", "get", "upsert"}
Settling(d) == {w \in Worker : Settled(w) /\ req[w].d = d}
Registering(d) == {w \in Settling(d) : req[w].kind = "register"}

SettledToken ==
    [d \in Device |->
        IF token[d] = None /\ Registering(d) # {}
          THEN req[CHOOSE w \in Registering(d) : TRUE].mint ELSE token[d]]

SettledIdents ==
    [d \in Device |-> idents[d] \union UNION {Signals(req[w].obs) : w \in Settling(d)}]

PendingMerges ==
    {[source |-> req[w].d, candidates |-> ConfidentIn(req[w].hits)] :
        w \in {v \in Worker : /\ Settled(v)
                              /\ ConfidentIn(req[v].hits) # {}
                              /\ ~ Single(ConfidentIn(req[v].hits))}}

SettledReplies ==
    replies \union {<<req[w].m, SettledToken[req[w].d]>> :
                       w \in {v \in Worker : Settled(v) /\ req[v].kind = "register"}}

Serial == INSTANCE Registry WITH
    token <- SettledToken, idents <- SettledIdents,
    merges <- merges \union PendingMerges, replies <- SettledReplies

SerialSpec == Serial!Spec

===============================================================================
