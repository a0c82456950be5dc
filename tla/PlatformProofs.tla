----------------------------- MODULE PlatformProofs -----------------------------
(***************************************************************************)
(* What Platform guarantees for any number of processes, versions,         *)
(* migrations, handlers and devices.                                       *)
(*                                                                         *)
(* Migrate decides from the names it read at first, so that its invariant  *)
(* has to say how far these may be trusted: all files that a process has   *)
(* skipped or applied are recorded, whoever else has recorded more, and    *)
(* who has found a file's name free has it to itself until the commit,     *)
(* because it holds the write lock.                                        *)
(***************************************************************************)
EXTENDS Platform, TLAPS

\* Transactions exclude each other.
HoldsLock == \A p \in Process : InTransaction(p) => lock = p

\* What a process has put behind it is recorded.
RestIsRecorded ==
    \A p \in Process :
      mig[p].pc \in {"next", "record", "commit", "done"} =>
        /\ mig[p].todo \subseteq 1 .. Has[p]
        /\ (1 .. Has[p]) \ mig[p].todo \subseteq recorded

\* Files are applied in order.
InOrder ==
    \A p \in Process :
      InTransaction(p) => mig[p].file \in mig[p].todo /\ \A g \in mig[p].todo : mig[p].file <= g

\* Nobody takes a name between the record and the commit.
NameIsFree == \A p \in Process : MigAt(p, "commit") => mig[p].file \notin recorded

\* Who is done has put everything behind it.
NothingLeft == \A p \in Process : MigAt(p, "done") => mig[p].todo = {}

MigInv ==
    /\ MigTypeOK /\ SchemaIsPrefix
    /\ HoldsLock /\ RestIsRecorded /\ InOrder /\ NameIsFree /\ NothingLeft

-------------------------------------------------------------------------------

Call == [pc : MigPC, todo : SUBSET File, file : 0 .. Last]

\* A step of one process that leaves the database alone keeps the invariant if
\* the process itself ends up as the invariant says and takes nobody's lock.
LEMMA MigMoves ==
    ASSUME MigInv, NEW p \in Process, NEW r \in Call,
           mig' = [mig EXCEPT ![p] = r], recorded' = recorded, applied' = applied,
           lock' \in Process \union {Nobody},
           \A q \in Process \ {p} : lock = q => lock' = q,
           r.pc \in {"record", "commit"} =>
             lock' = p /\ r.file \in r.todo /\ \A g \in r.todo : r.file <= g,
           r.pc \in {"next", "record", "commit", "done"} =>
             r.todo \subseteq 1 .. Has[p] /\ (1 .. Has[p]) \ r.todo \subseteq recorded,
           r.pc = "commit" => r.file \notin recorded,
           r.pc = "done" => r.todo = {}
    PROVE  MigInv'
  <1> USE DEF MigAt, InTransaction
  <1>1. mig \in [Process -> Call]
    BY DEF MigInv, MigTypeOK, Call
  <1>2. \A q \in Process : mig'[q] = IF q = p THEN r ELSE mig[q]
    BY <1>1
  <1>3. MigTypeOK'
    BY <1>1 DEF MigInv, MigTypeOK, Call
  <1>4. SchemaIsPrefix'
    BY DEF MigInv, SchemaIsPrefix
  <1>5. HoldsLock'
    BY <1>2 DEF MigInv, HoldsLock
  <1>6. RestIsRecorded'
    BY <1>2 DEF MigInv, RestIsRecorded
  <1>7. InOrder'
    BY <1>2 DEF MigInv, InOrder
  <1>8. NameIsFree' /\ NothingLeft'
    BY <1>2 DEF MigInv, NameIsFree, NothingLeft
  <1>9. QED
    BY <1>3, <1>4, <1>5, <1>6, <1>7, <1>8 DEF MigInv

\* What MigMoves asks of a step holds of every step of one process but the
\* commit.
LEMMA MigKeeps ==
    ASSUME MigInv, NEW p \in Process,
           \/ MigBegin(p) /\ UNCHANGED <<recorded, applied, lock>>
           \/ LoadApplied(p) \/ ApplyBody(p) \/ RecordName(p) \/ Collide(p)
           \/ MigrateFails(p) \/ MigrateDone(p) \/ MigGone(p)
    PROVE  MigInv'
  <1> USE MigrateAssumption DEF MigAt, InTransaction
  <1>t. /\ mig[p] \in Call /\ lock \in Process \union {Nobody}
        /\ recorded \subseteq File /\ 1 .. Has[p] \subseteq File
        /\ Unlocked(p) \in Process \union {Nobody}
        /\ \A q \in Process \ {p} : lock = q => Unlocked(p) = q
    BY DEF MigInv, MigTypeOK, Call, File, Unlocked
  <1>r. mig[p].pc \in {"next", "record", "commit", "done"} =>
          /\ mig[p].todo \subseteq 1 .. Has[p]
          /\ (1 .. Has[p]) \ mig[p].todo \subseteq recorded
    BY DEF MigInv, RestIsRecorded
  <1>1. CASE MigBegin(p) /\ UNCHANGED <<recorded, applied, lock>>
    <2> DEFINE r == [Away EXCEPT !.pc = "load"]
    <2>1. r \in Call /\ r.pc = "load"
      BY DEF Call, Away, MigPC
    <2>2. mig' = [mig EXCEPT ![p] = r]
      BY <1>1 DEF MigBegin
    <2> HIDE DEF r
    <2>3. QED
      BY <1>1, <1>t, <2>1, <2>2, MigMoves
  <1>2. CASE LoadApplied(p)
    <2> DEFINE r == [mig[p] EXCEPT !.pc = "next", !.todo = (1 .. Has[p]) \ recorded]
    <2>1. r \in Call /\ r.pc = "next" /\ r.todo = (1 .. Has[p]) \ recorded
      BY <1>t DEF Call, MigPC
    <2>2. mig' = [mig EXCEPT ![p] = r]
      BY <1>2 DEF LoadApplied, Read
    <2>3. UNCHANGED <<recorded, applied, lock>>
      BY <1>2 DEF LoadApplied
    <2> HIDE DEF r
    <2>4. r.todo \subseteq 1 .. Has[p] /\ (1 .. Has[p]) \ r.todo \subseteq recorded
      BY <2>1
    <2>5. QED
      BY <1>t, <2>1, <2>2, <2>3, <2>4, MigMoves
  <1>3. CASE ApplyBody(p)
    <2>1. PICK f \in mig[p].todo :
            /\ \A g \in mig[p].todo : f <= g
            /\ mig' = [mig EXCEPT ![p].pc = "record", ![p].file = f]
      BY <1>3 DEF ApplyBody
    <2> DEFINE r == [mig[p] EXCEPT !.pc = "record", !.file = f]
    <2>2. f \in 0 .. Last
      BY <1>t DEF Call, File
    <2>3. r \in Call /\ r.pc = "record" /\ r.file = f /\ r.todo = mig[p].todo
      BY <1>t, <2>2 DEF Call, MigPC
    <2>4. mig' = [mig EXCEPT ![p] = r]
      BY <2>1
    <2>5. /\ lock' = p /\ lock = Nobody /\ recorded' = recorded /\ applied' = applied
          /\ mig[p].pc = "next"
      BY <1>3 DEF ApplyBody
    <2> HIDE DEF r
    <2>6. QED
      BY <1>r, <2>1, <2>3, <2>4, <2>5, MigMoves
  <1>4. CASE RecordName(p)
    <2> DEFINE r == [mig[p] EXCEPT !.pc = "commit"]
    <2>1. r \in Call /\ r.pc = "commit" /\ r.file = mig[p].file /\ r.todo = mig[p].todo
      BY <1>t DEF Call, MigPC
    <2>2. mig' = [mig EXCEPT ![p] = r]
      BY <1>4 DEF RecordName
    <2>3. /\ UNCHANGED <<recorded, applied, lock>>
          /\ mig[p].pc = "record" /\ mig[p].file \notin recorded
      BY <1>4 DEF RecordName, Conflicts
    <2>4. lock = p /\ mig[p].file \in mig[p].todo /\ \A g \in mig[p].todo : mig[p].file <= g
      BY <2>3 DEF MigInv, HoldsLock, InOrder
    <2> HIDE DEF r
    <2>5. QED
      BY <1>r, <2>1, <2>2, <2>3, <2>4, MigMoves
  <1>5. CASE Collide(p) \/ MigrateFails(p)
    <2> DEFINE r == [mig[p] EXCEPT !.pc = "failed"]
    <2>1. r \in Call /\ r.pc = "failed"
      BY <1>t DEF Call, MigPC
    <2>2. mig' = [mig EXCEPT ![p] = r]
      BY <1>5 DEF Collide, MigrateFails
    <2>3. recorded' = recorded /\ applied' = applied /\ lock' = Unlocked(p)
      BY <1>5 DEF Collide, MigrateFails
    <2> HIDE DEF r
    <2>4. QED
      BY <1>t, <2>1, <2>2, <2>3, MigMoves
  <1>6. CASE MigrateDone(p)
    <2> DEFINE r == [mig[p] EXCEPT !.pc = "done"]
    <2>1. r \in Call /\ r.pc = "done" /\ r.todo = mig[p].todo
      BY <1>t DEF Call, MigPC
    <2>2. mig' = [mig EXCEPT ![p] = r]
      BY <1>6 DEF MigrateDone
    <2>3. /\ UNCHANGED <<recorded, applied, lock>>
          /\ mig[p].pc = "next" /\ mig[p].todo = {}
      BY <1>6 DEF MigrateDone
    <2> HIDE DEF r
    <2>4. QED
      BY <1>t, <1>r, <2>1, <2>2, <2>3, MigMoves
  <1>7. CASE MigGone(p)
    <2>1. Away \in Call /\ Away.pc = "away"
      BY DEF Call, Away, MigPC
    <2>2. QED
      BY <1>7, <1>t, <2>1, MigMoves DEF MigGone
  <1>8. QED
    BY <1>1, <1>2, <1>3, <1>4, <1>5, <1>6, <1>7

\* The action that changes it.
LEMMA CommitKeepsMigInv ==
    ASSUME MigInv, NEW p \in Process, CommitFile(p)
    PROVE  MigInv'
  <1> DEFINE f == mig[p].file
  <1> USE MigrateAssumption DEF MigAt, InTransaction
  <1>1. /\ f \in File /\ f \in 1 .. Has[p] /\ f \notin recorded
        /\ \A g \in mig[p].todo : f <= g
    BY DEF MigInv, MigTypeOK, CommitFile, InOrder, NameIsFree, RestIsRecorded, File
  <1>2. /\ recorded' = recorded \union {f}
        /\ applied' = [applied EXCEPT ![f] = @ + 1]
        /\ mig' = [mig EXCEPT ![p].pc = "next", ![p].todo = @ \ {f}]
        /\ lock' = Nobody /\ lock = p
    BY DEF MigInv, CommitFile, HoldsLock
  <1>3. MigTypeOK'
    <2>1. recorded \subseteq File /\ applied \in [File -> Nat] /\ mig \in [Process -> Call]
      BY DEF MigInv, MigTypeOK, Call
    <2>2. recorded' \subseteq File /\ applied' \in [File -> Nat]
      BY <1>1, <1>2, <2>1
    <2>3. [mig[p] EXCEPT !.pc = "next", !.todo = @ \ {f}] \in Call
      BY <2>1 DEF Call, MigPC
    <2>4. mig' \in [Process -> Call]
      BY <1>2, <2>1, <2>3
    <2>5. QED
      BY <1>2, <2>2, <2>4 DEF MigTypeOK, Call
  <1>4. SchemaIsPrefix'
    <2>1. \A g \in File : applied'[g] = IF g \in recorded' THEN 1 ELSE 0
      BY <1>1, <1>2 DEF MigInv, MigTypeOK, SchemaIsPrefix
    <2>2. \A g \in 1 .. f : g \in recorded'
      <3>1. (1 .. Has[p]) \ mig[p].todo \subseteq recorded
        BY DEF MigInv, RestIsRecorded, CommitFile
      <3>2. \A g \in 1 .. f : g \in 1 .. Has[p] /\ (g = f \/ ~(f <= g))
        BY <1>1
      <3>3. QED
        BY <1>1, <1>2, <3>1, <3>2
    <2>3. QED
      BY <1>1, <1>2, <2>1, <2>2 DEF MigInv, SchemaIsPrefix
  <1>5. HoldsLock'
    BY <1>2 DEF MigInv, MigTypeOK, HoldsLock
  <1>6. RestIsRecorded'
    BY <1>1, <1>2 DEF MigInv, MigTypeOK, RestIsRecorded, CommitFile
  <1>7. InOrder' /\ NameIsFree' /\ NothingLeft'
    BY <1>2 DEF MigInv, MigTypeOK, InOrder, NameIsFree, NothingLeft, HoldsLock
  <1>8. QED
    BY <1>3, <1>4, <1>5, <1>6, <1>7 DEF MigInv

LEMMA MigUnchanged ==
    ASSUME MigInv, UNCHANGED migVars
    PROVE  MigInv'
  BY DEF migVars, MigInv, MigTypeOK, SchemaIsPrefix, HoldsLock, RestIsRecorded, InOrder,
     NameIsFree, NothingLeft, MigAt, InTransaction

-------------------------------------------------------------------------------

\* A handler that is not idle serves a device.
HandlersServe ==
    \A h \in Handler : IF At(h, "idle") THEN handler[h] = Idle ELSE handler[h].d \in Device

ServeInv == DeliveryTypeOK /\ HandlersServe

\* What a handler that pulls now gets.
Pulled(queue, d) == IF queue[d] = None THEN {} ELSE queue[d]

\* What AnswersOfTheirTime says of the capabilities of an answer.
Fits(r, caps) ==
    \/ IF caps = {} THEN r.shared ELSE caps \in r.since
    \/ {} \in r.during

\* The answer that a handler is going to give, from what is in force and what
\* is queued: once it has queued its own slice, whatever is queued fits.
Timely(r, inForce, pulled) ==
    /\ inForce \in r.during /\ r.during \subseteq r.since
    /\ r.checkin => r.d \in Enrolled
    /\ r.pc \in {"resolveAgain", "pull", "respond"} => r.checkin
    /\ r.pc = "apply" => r.need \in r.during
    /\ r.pc \in {"pull", "respond"} => r.policy \in r.during
    /\ r.pc \in {"resolveAgain", "pull"} => Fits(r, pulled)
    /\ r.pc = "respond" => Fits(r, r.caps)

\* Handlers of one device know of each other.
Beside(r, s) == r.during \subseteq s.since /\ (r.checkin /\ s.checkin => s.shared)

AnswersInv ==
    \A d \in Device :
      /\ \A h \in AtWork(d) : Timely(handler[h], policy[d], Pulled(pending, d))
      /\ \A g, h \in AtWork(d) : g # h => Beside(handler[g], handler[h])

DeliveryInv == ServeInv /\ AnswersInv

\* A step keeps the types if the handler that moves ends up as they say and
\* still serves whoever waits for it, and no other one moves.
LEMMA HandlersMove ==
    ASSUME ServeInv, NEW h \in Handler, handler' \in [Handler -> Serving],
           \A k \in Handler \ {h} :
             /\ handler'[k].pc = handler[k].pc /\ handler'[k].d = handler[k].d
             /\ handler'[k].checkin = handler[k].checkin
             /\ handler[k] = Idle => handler'[k] = Idle,
           policy' \in [Device -> SUBSET Cap],
           pending' \in [Device -> {None} \union SUBSET Cap],
           agent' \in [Device -> Agent], trouble' \in 0 .. MaxTrouble,
           IF handler'[h].pc = "idle" THEN handler'[h] = Idle ELSE handler'[h].d \in Device,
           \A d \in Device :
             /\ agent'[d].waits \in {agent[d].waits, None, h}
             /\ agent'[d].waits = h => handler'[h].checkin /\ handler'[h].d = d
    PROVE  ServeInv'
  <1>1. ASSUME NEW d \in Device, agent'[d].waits # None
        PROVE  handler'[agent'[d].waits].checkin /\ handler'[agent'[d].waits].d = d
    <2>1. CASE agent'[d].waits = h
      BY <2>1
    <2>2. CASE agent'[d].waits # h
      <3>1. agent'[d].waits = agent[d].waits /\ agent'[d].waits \in Handler
        BY <1>1, <2>2 DEF Agent
      <3>2. QED
        BY <1>1, <2>2, <3>1 DEF ServeInv, DeliveryTypeOK
    <2>3. QED
      BY <2>1, <2>2
  <1>2. DeliveryTypeOK'
    BY <1>1 DEF DeliveryTypeOK
  <1>3. HandlersServe'
    BY DEF ServeInv, HandlersServe, At
  <1>4. QED
    BY <1>2, <1>3 DEF ServeInv

LEMMA HandlerMoves ==
    ASSUME ServeInv, NEW h \in Handler, NEW r \in Serving, Go(h, r),
           policy' \in [Device -> SUBSET Cap],
           pending' \in [Device -> {None} \union SUBSET Cap],
           agent' \in [Device -> Agent], trouble' \in 0 .. MaxTrouble,
           IF r.pc = "idle" THEN r = Idle ELSE r.d \in Device,
           \A d \in Device :
             /\ agent'[d].waits \in {agent[d].waits, None, h}
             /\ agent'[d].waits = h => r.checkin /\ r.d = d
    PROVE  ServeInv'
  <1>1. handler \in [Handler -> Serving]
    BY DEF ServeInv, DeliveryTypeOK
  <1>2. /\ handler' \in [Handler -> Serving]
        /\ \A k \in Handler : handler'[k] = IF k = h THEN r ELSE handler[k]
    BY <1>1 DEF Go
  <1>3. QED
    BY <1>2, HandlersMove

\* An answer stays timely if the handler that moves keeps to what it remembers
\* and what is queued then fits all that work.
LEMMA HandlerTimely ==
    ASSUME DeliveryInv, NEW h \in Handler, NEW r, Go(h, r), policy' = policy,
           \/ r.d = None
           \/ /\ r.d = handler[h].d /\ r.checkin = handler[h].checkin
              /\ r.during = handler[h].during /\ r.since = handler[h].since
              /\ r.shared = handler[h].shared
              /\ Timely(r, policy[r.d], Pulled(pending', r.d)),
           \A d \in Device : \A g \in AtWork(d) \ {h} : Timely(handler[g], policy[d], Pulled(pending', d))
    PROVE  AnswersInv'
  <1> USE DeliveryAssumption
  <1>1. \A k \in Handler : handler'[k] = IF k = h THEN r ELSE handler[k]
    BY DEF Go, DeliveryInv, ServeInv, DeliveryTypeOK
  <1>2. ASSUME NEW d \in Device
        PROVE  /\ AtWork(d)' \subseteq AtWork(d)
               /\ h \in AtWork(d)' => r.d = d /\ r.d # None
    BY <1>1 DEF AtWork
  <1>3. ASSUME NEW d \in Device, NEW k \in AtWork(d)'
        PROVE  Timely(handler'[k], policy'[d], Pulled(pending', d))
    <2>1. CASE k = h
      BY <1>1, <1>2, <1>3, <2>1
    <2>2. CASE k # h
      BY <1>1, <1>2, <1>3, <2>2 DEF AtWork
    <2>3. QED
      BY <2>1, <2>2
  <1>4. ASSUME NEW d \in Device, NEW k \in AtWork(d)', NEW g \in AtWork(d)', k # g
        PROVE  Beside(handler'[k], handler'[g])
    <2>1. Beside(handler[k], handler[g])
      BY <1>2, <1>4 DEF DeliveryInv, AnswersInv
    <2>2. \A j \in {k, g} :
            /\ handler'[j].during = handler[j].during /\ handler'[j].since = handler[j].since
            /\ handler'[j].shared = handler[j].shared /\ handler'[j].checkin = handler[j].checkin
      BY <1>1, <1>2, <1>4 DEF AtWork
    <2>3. QED
      BY <2>1, <2>2 DEF Beside
  <1>5. QED
    BY <1>3, <1>4 DEF AnswersInv

\* Where the queue stays as it is.
LEMMA SameQueue ==
    ASSUME DeliveryInv, pending' = pending
    PROVE  \A d \in Device : \A g \in AtWork(d) : Timely(handler[g], policy[d], Pulled(pending', d))
  BY DEF DeliveryInv, AnswersInv, Pulled

\* The steps of handlers.
LEMMA ServeKeeps ==
    ASSUME DeliveryInv, NEW h \in Handler, Serve(h)
    PROVE  DeliveryInv'
  <1> USE DeliveryAssumption DEF At
  <1>t. /\ ServeInv
        /\ handler[h] \in Serving /\ policy \in [Device -> SUBSET Cap]
        /\ pending \in [Device -> {None} \union SUBSET Cap]
        /\ agent \in [Device -> Agent] /\ trouble \in 0 .. MaxTrouble
        /\ \A d \in Device : agent[d].waits = h => handler[h].checkin /\ handler[h].d = d
        /\ h # None
    BY DEF DeliveryInv, ServeInv, DeliveryTypeOK
  <1>s. handler[h].pc # "idle" /\ handler[h].d \in Device
    BY DEF DeliveryInv, ServeInv, HandlersServe, Serve, EnforceResolve, EnforceApply,
           CheckinResolve, PullPending, Respond
  <1>i. Idle \in Serving /\ Idle.pc = "idle" /\ Idle.d = None
    BY DEF Idle, Serving, Past, PC
  <1>o. /\ h \in AtWork(handler[h].d)
        /\ Timely(handler[h], policy[handler[h].d], Pulled(pending, handler[h].d))
    BY <1>s DEF AtWork, DeliveryInv, AnswersInv
  <1>1. CASE EnforceResolve(h)
    <2> DEFINE r == [handler[h] EXCEPT !.pc = "apply", !.need = policy[handler[h].d]]
    <2>1. /\ r \in Serving /\ r.pc = "apply" /\ r.d = handler[h].d
          /\ r.checkin = handler[h].checkin /\ r.need = policy[handler[h].d]
          /\ r.during = handler[h].during /\ r.since = handler[h].since
          /\ r.shared = handler[h].shared
      BY <1>t, <1>s DEF Serving, PC
    <2>2. Go(h, r) /\ UNCHANGED <<policy, pending, agent, trouble>>
      BY <1>1 DEF EnforceResolve
    <2> HIDE DEF r
    <2>3. ServeInv'
      BY <1>t, <1>s, <2>1, <2>2, HandlerMoves
    <2>4. Timely(r, policy[r.d], Pulled(pending', r.d))
      BY <1>o, <2>1 DEF Timely
    <2>5. AnswersInv'
      BY <2>1, <2>2, <2>4, SameQueue, HandlerTimely
    <2>6. QED
      BY <2>3, <2>5 DEF DeliveryInv
  <1>2. CASE EnforceApply(h)
    <2> DEFINE d0 == handler[h].d
               need == handler[h].need
               r == IF handler[h].checkin
                      THEN [handler[h] EXCEPT !.pc = "resolveAgain", !.need = {}] ELSE Idle
    <2>1. /\ r \in Serving
          /\ IF handler[h].checkin
               THEN /\ r.pc = "resolveAgain" /\ r.d = d0 /\ r.checkin
                    /\ r.during = handler[h].during /\ r.since = handler[h].since
                    /\ r.shared = handler[h].shared
               ELSE r = Idle
      BY <1>t, <1>i DEF Serving, PC
    <2>2. Go(h, r) /\ Queue(d0, need) /\ UNCHANGED <<policy, agent, trouble>>
      BY <1>2 DEF EnforceApply
    <2>3. /\ pending' \in [Device -> {None} \union SUBSET Cap]
          /\ \A d \in Device \ {d0} : pending'[d] = pending[d]
          /\ \/ need # {} /\ pending'[d0] = need /\ need # None
             \/ pending'[d0] = pending[d0] /\ (need = {} \/ d0 \notin Enrolled)
      <3>1. CASE need # {} /\ d0 \in Enrolled
        <4>1. pending' = [pending EXCEPT ![d0] = need]
          BY <2>2, <3>1 DEF Queue, Pick
        <4>2. need \in SUBSET Cap
          BY <1>t DEF Serving
        <4> HIDE DEF need, d0, r
        <4>3. d0 \in Device
          BY <1>s DEF d0
        <4>4. /\ pending' \in [Device -> {None} \union SUBSET Cap]
              /\ pending'[d0] = need /\ \A d \in Device \ {d0} : pending'[d] = pending[d]
          BY <1>t, <4>1, <4>2, <4>3
        <4>5. need # None
          BY <4>2
        <4>6. QED
          BY <3>1, <4>4, <4>5
      <3>2. CASE need = {} \/ d0 \notin Enrolled
        <4>1. pending' = pending
          BY <2>2, <3>2 DEF Queue, Pick
        <4>2. QED
          BY <1>t, <3>2, <4>1
      <3>3. QED
        BY <3>1, <3>2
    <2>4. /\ need \in handler[h].during
          /\ handler[h].during \subseteq handler[h].since
          /\ handler[h].checkin => d0 \in Enrolled
      BY <1>2, <1>o DEF EnforceApply, Timely
    <2>5. Pulled(pending', d0) = Pulled(pending, d0) \/ (need # {} /\ Pulled(pending', d0) = need)
      BY <2>3 DEF Pulled
    <2>6. handler[h].checkin => need = {} \/ Pulled(pending', d0) = need
      BY <2>3, <2>4 DEF Pulled
    <2>7. \A d \in Device \ {d0} : Pulled(pending', d) = Pulled(pending, d)
      BY <2>3 DEF Pulled
    <2> HIDE DEF r, d0, need
    <2>8. ServeInv'
      BY <1>t, <1>s, <1>i, <2>1, <2>2, <2>3, HandlerMoves DEF d0
    <2>9. ASSUME NEW d \in Device, NEW g \in AtWork(d) \ {h}
          PROVE  Timely(handler[g], policy[d], Pulled(pending', d))
      <3>1. Timely(handler[g], policy[d], Pulled(pending, d))
        BY <2>9 DEF DeliveryInv, AnswersInv
      <3>2. CASE Pulled(pending', d) = Pulled(pending, d)
        BY <3>1, <3>2
      <3>3. CASE Pulled(pending', d) # Pulled(pending, d)
        <4>1. d = d0 /\ need # {} /\ Pulled(pending', d) = need
          BY <2>5, <2>7, <3>3
        <4>2. Beside(handler[h], handler[g])
          BY <1>s, <1>o, <2>9, <4>1 DEF DeliveryInv, AnswersInv, d0
        <4>3. Fits(handler[g], Pulled(pending', d))
          BY <2>4, <4>1, <4>2 DEF Beside, Fits
        <4>4. QED
          BY <3>1, <4>3 DEF Timely
      <3>4. QED
        BY <3>2, <3>3
    <2>10. CASE handler[h].checkin
      <3>1. Fits(r, Pulled(pending', d0))
        BY <2>1, <2>4, <2>6, <2>10 DEF Fits
      <3>2. Timely(r, policy[r.d], Pulled(pending', r.d))
        BY <1>o, <2>1, <2>10, <3>1 DEF Timely, d0
      <3>3. AnswersInv'
        BY <2>1, <2>2, <2>9, <2>10, <3>2, HandlerTimely DEF d0
      <3>4. QED
        BY <2>8, <3>3 DEF DeliveryInv
    <2>11. CASE ~handler[h].checkin
      <3>1. AnswersInv'
        BY <1>i, <2>1, <2>2, <2>9, <2>11, HandlerTimely
      <3>2. QED
        BY <2>8, <3>1 DEF DeliveryInv
    <2>12. QED
      BY <2>10, <2>11
  <1>3. CASE CheckinResolve(h)
    <2> DEFINE r == [handler[h] EXCEPT !.pc = "pull", !.policy = policy[handler[h].d]]
    <2>1. /\ r \in Serving /\ r.pc = "pull" /\ r.d = handler[h].d
          /\ r.checkin = handler[h].checkin /\ r.policy = policy[handler[h].d]
          /\ r.during = handler[h].during /\ r.since = handler[h].since
          /\ r.shared = handler[h].shared
      BY <1>t, <1>s DEF Serving, PC
    <2>2. Go(h, r) /\ UNCHANGED <<policy, pending, agent, trouble>> /\ handler[h].pc = "resolveAgain"
      BY <1>3 DEF CheckinResolve
    <2> HIDE DEF r
    <2>3. ServeInv'
      BY <1>t, <1>s, <2>1, <2>2, HandlerMoves
    <2>4. Pulled(pending', r.d) = Pulled(pending, handler[h].d)
      BY <2>1, <2>2 DEF Pulled
    <2>5. Timely(r, policy[r.d], Pulled(pending', r.d))
      BY <1>o, <2>1, <2>2, <2>4 DEF Timely, Fits
    <2>6. AnswersInv'
      BY <2>1, <2>2, <2>5, SameQueue, HandlerTimely
    <2>7. QED
      BY <2>3, <2>6 DEF DeliveryInv
  <1>4. CASE PullPending(h)
    <2> DEFINE d0 == handler[h].d
               r == [handler[h] EXCEPT !.pc = "respond", !.caps = Pulled(pending, d0)]
    <2>1. Pulled(pending, d0) \in SUBSET Cap
      BY <1>t, <1>s DEF Pulled
    <2>2. /\ r \in Serving /\ r.pc = "respond" /\ r.d = d0
          /\ r.checkin = handler[h].checkin /\ r.caps = Pulled(pending, d0)
          /\ r.policy = handler[h].policy
          /\ r.during = handler[h].during /\ r.since = handler[h].since
          /\ r.shared = handler[h].shared
      BY <1>t, <1>s, <2>1 DEF Serving, PC
    <2>3. Go(h, r) /\ Take(d0) /\ UNCHANGED <<policy, agent, trouble>> /\ handler[h].pc = "pull"
      BY <1>4 DEF PullPending, Pulled
    <2>4. /\ pending' \in [Device -> {None} \union SUBSET Cap]
          /\ pending'[d0] = None
          /\ \A e \in Device \ {d0} : pending'[e] = pending[e]
      BY <1>t, <1>s, <2>3 DEF Take
    <2>5. Pulled(pending', d0) = {} /\ \A e \in Device \ {d0} : Pulled(pending', e) = Pulled(pending, e)
      BY <2>4 DEF Pulled
    <2> HIDE DEF r, d0
    <2>6. ServeInv'
      BY <1>t, <1>s, <2>2, <2>3, <2>4, HandlerMoves DEF d0
    <2>7. Timely(r, policy[r.d], Pulled(pending', r.d))
      BY <1>o, <2>2, <2>3 DEF Timely, Fits, d0
    <2>8. ASSUME NEW d \in Device, NEW g \in AtWork(d) \ {h}
          PROVE  Timely(handler[g], policy[d], Pulled(pending', d))
      <3>1. Timely(handler[g], policy[d], Pulled(pending, d))
        BY <2>8 DEF DeliveryInv, AnswersInv
      <3>2. CASE d # d0
        BY <2>5, <3>1, <3>2
      <3>3. CASE d = d0
        <4>1. Beside(handler[h], handler[g]) /\ handler[h].checkin
          BY <1>s, <1>o, <2>3, <2>8, <3>3 DEF DeliveryInv, AnswersInv, Timely, d0
        <4>2. handler[g].checkin => Fits(handler[g], {})
          BY <4>1 DEF Beside, Fits
        <4>3. QED
          BY <2>5, <3>1, <3>3, <4>2 DEF Timely
      <3>4. QED
        BY <3>2, <3>3
    <2>9. AnswersInv'
      BY <2>2, <2>3, <2>7, <2>8, HandlerTimely DEF d0
    <2>10. QED
      BY <2>6, <2>9 DEF DeliveryInv
  <1>5. CASE Respond(h)
    <2>1. Go(h, Idle) /\ UNCHANGED <<policy, pending, trouble>>
      BY <1>5 DEF Respond
    <2>2. /\ agent' \in [Device -> Agent]
          /\ \A d \in Device : agent'[d].waits \in {agent[d].waits, None} /\ agent'[d].waits # h
      BY <1>5, <1>t, <1>s DEF Respond, Agent, Serving
    <2>3. ServeInv'
      BY <1>t, <1>i, <2>1, <2>2, HandlerMoves
    <2>4. AnswersInv'
      BY <1>i, <2>1, SameQueue, HandlerTimely
    <2>5. QED
      BY <2>3, <2>4 DEF DeliveryInv
  <1>6. QED
    BY <1>1, <1>2, <1>3, <1>4, <1>5 DEF Serve

\* A handler begins with what is in force, and with what was while the others
\* were at work.
LEMMA Begins ==
    ASSUME DeliveryInv, NEW d \in Device
    PROVE  /\ Begun(d) \in Serving /\ Begun(d).pc = "resolve" /\ Begun(d).d = d
           /\ ~Begun(d).checkin /\ ~Begun(d).shared
           /\ Begun(d).during = {policy[d]} /\ policy[d] \in Begun(d).since
           /\ \A g \in AtWork(d) : /\ handler[g].during \subseteq Begun(d).since
                                   /\ policy[d] \in handler[g].since
  <1>t. handler \in [Handler -> Serving] /\ policy[d] \in SUBSET Cap
    BY DEF DeliveryInv, ServeInv, DeliveryTypeOK
  <1> DEFINE before == {policy[d]} \union UNION {handler[g].during : g \in AtWork(d)}
  <1>1. before \in Past
    <2>1. \A g \in AtWork(d) : handler[g].during \subseteq SUBSET Cap
      BY <1>t DEF AtWork, Serving, Past
    <2>2. QED
      BY <1>t, <2>1 DEF Past
  <1>2. \A g \in AtWork(d) : handler[g].during \subseteq before
    OBVIOUS
  <1>3. policy[d] \in before
    OBVIOUS
  <1>4. Begun(d) = [Idle EXCEPT !.pc = "resolve", !.d = d, !.during = {policy[d]}, !.since = before]
    BY DEF Begun
  <1> HIDE DEF before
  <1>5. Begun(d) = [pc |-> "resolve", checkin |-> FALSE, d |-> d, need |-> {}, policy |-> {},
                    caps |-> {}, during |-> {policy[d]}, since |-> before, shared |-> FALSE]
    BY <1>4 DEF Idle
  <1>6. Begun(d) \in Serving
    <2>1. {policy[d]} \in Past
      BY <1>t DEF Past
    <2> DEFINE during == {policy[d]}
    <2>2. Begun(d) = [pc |-> "resolve", checkin |-> FALSE, d |-> d, need |-> {}, policy |-> {},
                      caps |-> {}, during |-> during, since |-> before, shared |-> FALSE]
      BY <1>5
    <2>3. during \in Past
      BY <2>1
    <2> HIDE DEF during
    <2>4. QED
      BY <1>1, <2>2, <2>3 DEF Serving, PC
  <1>7. \A g \in AtWork(d) : policy[d] \in handler[g].since
    BY DEF DeliveryInv, AnswersInv, Timely
  <1>8. QED
    BY <1>2, <1>3, <1>5, <1>6, <1>7

LEMMA ShareIt ==
    ASSUME NEW r \in Serving, NEW s, s = [r EXCEPT !.shared = TRUE]
    PROVE  /\ s \in Serving /\ s.pc = r.pc /\ s.d = r.d /\ s.checkin = r.checkin
           /\ s.need = r.need /\ s.policy = r.policy /\ s.caps = r.caps
           /\ s.during = r.during /\ s.since = r.since /\ s.shared = TRUE
  BY DEF Serving

LEMMA CallIt ==
    ASSUME NEW r \in Serving, NEW b \in BOOLEAN, NEW s,
           s = [r EXCEPT !.checkin = TRUE, !.shared = b]
    PROVE  /\ s \in Serving /\ s.pc = r.pc /\ s.d = r.d /\ s.checkin = TRUE
           /\ s.during = r.during /\ s.since = r.since /\ s.shared = b
  BY DEF Serving

\* A check-in begins: the others of its device now share the queue with it.
LEMMA CheckinKeeps ==
    ASSUME DeliveryInv, NEW h \in Handler, NEW d \in Device, StartCheckin(h, d)
    PROVE  DeliveryInv'
  <1> USE DeliveryAssumption DEF At
  <1>t. /\ handler \in [Handler -> Serving] /\ policy \in [Device -> SUBSET Cap]
        /\ pending \in [Device -> {None} \union SUBSET Cap]
        /\ agent \in [Device -> Agent] /\ trouble \in 0 .. MaxTrouble
        /\ h # None /\ ServeInv
    BY DEF DeliveryInv, ServeInv, DeliveryTypeOK
  <1>i. handler[h] = Idle /\ Idle.d = None /\ ~Idle.checkin
    BY DEF StartCheckin, DeliveryInv, ServeInv, HandlersServe, Idle
  <1>n. \A e \in Device : agent[e].waits # h
    BY <1>t, <1>i DEF ServeInv, DeliveryTypeOK
  <1> DEFINE r == [Begun(d) EXCEPT !.checkin = TRUE, !.shared = Checkins(d) # {}]
             s(g) == IF g \in Checkins(d) THEN [handler[g] EXCEPT !.shared = TRUE] ELSE handler[g]
  <1>r. /\ r \in Serving /\ r.pc = "resolve" /\ r.d = d /\ r.checkin
        /\ (r.shared <=> Checkins(d) # {})
        /\ r.during = {policy[d]} /\ policy[d] \in r.since
        /\ \A g \in AtWork(d) : /\ handler[g].during \subseteq r.since
                                /\ policy[d] \in handler[g].since
    <2> DEFINE c == Begun(d)
               b == Checkins(d) # {}
    <2>1. r = [c EXCEPT !.checkin = TRUE, !.shared = b] /\ b \in BOOLEAN
      OBVIOUS
    <2>2. c \in Serving
      BY Begins
    <2> HIDE DEF c, b, r
    <2>3. /\ r \in Serving /\ r.pc = c.pc /\ r.d = c.d /\ r.checkin = TRUE
          /\ r.during = c.during /\ r.since = c.since /\ r.shared = b
      BY <2>1, <2>2, CallIt
    <2>4. r.shared <=> Checkins(d) # {}
      BY <2>3 DEF b
    <2>5. QED
      BY <2>3, <2>4, Begins DEF c
  <1>s. ASSUME NEW g \in Handler
        PROVE  /\ s(g) \in Serving /\ s(g).pc = handler[g].pc /\ s(g).d = handler[g].d
               /\ s(g).checkin = handler[g].checkin /\ s(g).need = handler[g].need
               /\ s(g).policy = handler[g].policy /\ s(g).caps = handler[g].caps
               /\ s(g).during = handler[g].during /\ s(g).since = handler[g].since
               /\ (s(g).shared <=> handler[g].shared \/ g \in Checkins(d))
    <2>1. handler[g] \in Serving
      BY <1>t
    <2>2. CASE g \in Checkins(d)
      <3> DEFINE t == s(g)
      <3>1. t = [handler[g] EXCEPT !.shared = TRUE]
        BY <2>2
      <3> HIDE DEF t
      <3>2. /\ t \in Serving /\ t.pc = handler[g].pc /\ t.d = handler[g].d
            /\ t.checkin = handler[g].checkin /\ t.need = handler[g].need
            /\ t.policy = handler[g].policy /\ t.caps = handler[g].caps
            /\ t.during = handler[g].during /\ t.since = handler[g].since
            /\ t.shared = TRUE
        BY <2>1, <3>1, ShareIt
      <3>3. t.shared <=> handler[g].shared \/ g \in Checkins(d)
        BY <2>2, <3>2
      <3>4. QED
        BY <3>2, <3>3 DEF t
    <2>3. CASE g \notin Checkins(d)
      BY <2>1, <2>3
    <2>4. QED
      BY <2>2, <2>3
  <1>g. handler' = [g \in Handler |-> IF g = h THEN r ELSE s(g)]
    BY DEF StartCheckin
  <1>k. ASSUME NEW g \in Handler, handler[g] = Idle
        PROVE  s(g) = Idle
    <2>1. g \notin Checkins(d)
      BY <1>k, <1>i DEF Checkins
    <2>2. QED
      BY <1>k, <2>1
  <1>1. /\ UNCHANGED <<policy, pending, trouble>> /\ d \in Enrolled
        /\ agent' = [agent EXCEPT ![d].waits = h]
    BY DEF StartCheckin
  <1>2. /\ agent' \in [Device -> Agent]
        /\ \A e \in Device : agent'[e].waits = IF e = d THEN h ELSE agent[e].waits
    BY <1>t, <1>1 DEF Agent
  <1> HIDE DEF r, s
  <1>3. \A g \in Handler : handler'[g] = IF g = h THEN r ELSE s(g)
    BY <1>g
  <1>4. ServeInv'
    <2>1. handler' \in [Handler -> Serving]
      BY <1>g, <1>r, <1>s
    <2>2. \A k \in Handler \ {h} :
            /\ handler'[k].pc = handler[k].pc /\ handler'[k].d = handler[k].d
            /\ handler'[k].checkin = handler[k].checkin
            /\ handler[k] = Idle => handler'[k] = Idle
      BY <1>3, <1>s, <1>k
    <2>3. handler'[h] = r
      BY <1>3
    <2>4. QED
      BY <1>t, <1>n, <1>r, <1>1, <1>2, <2>1, <2>2, <2>3, HandlersMove
  <1>5. ASSUME NEW e \in Device
        PROVE  /\ Pulled(pending', e) = Pulled(pending, e)
               /\ AtWork(e)' = IF e = d THEN AtWork(d) \union {h} ELSE AtWork(e)
               /\ h \notin AtWork(e)
    BY <1>1, <1>3, <1>r, <1>s, <1>i DEF Pulled, AtWork
  <1>6. ASSUME NEW e \in Device, NEW g \in AtWork(e)'
        PROVE  Timely(handler'[g], policy'[e], Pulled(pending', e))
    <2>1. CASE g = h
      <3>1. e = d
        BY <1>5, <1>6, <2>1
      <3>2. QED
        BY <1>1, <1>3, <1>r, <2>1, <3>1 DEF Timely
    <2>2. CASE g # h
      <3>1. g \in AtWork(e) /\ g \in Handler
        BY <1>5, <1>6, <2>2 DEF AtWork
      <3>2. Timely(handler[g], policy[e], Pulled(pending, e))
        BY <3>1 DEF DeliveryInv, AnswersInv
      <3>3. handler'[g] = s(g)
        BY <1>3, <2>2, <3>1
      <3>4. QED
        BY <1>1, <1>5, <1>s, <3>1, <3>2, <3>3 DEF Timely, Fits
    <2>3. QED
      BY <2>1, <2>2
  <1>7. ASSUME NEW e \in Device, NEW f \in AtWork(e)', NEW g \in AtWork(e)', f # g
        PROVE  Beside(handler'[f], handler'[g])
    <2>t. f \in Handler /\ g \in Handler
      BY <1>7 DEF AtWork
    <2>1. CASE f = h
      <3>1. e = d /\ g \in AtWork(d) /\ g # h
        BY <1>5, <1>7, <2>1
      <3>2. s(g).checkin => s(g).shared
        BY <1>s, <2>t, <3>1 DEF Checkins
      <3>3. policy[d] \in s(g).since
        BY <1>r, <1>s, <2>t, <3>1
      <3>4. QED
        BY <1>3, <1>r, <2>1, <2>t, <3>1, <3>2, <3>3 DEF Beside
    <2>2. CASE g = h
      <3>1. e = d /\ f \in AtWork(d) /\ f # h
        BY <1>5, <1>7, <2>2
      <3>2. s(f).checkin => r.shared
        BY <1>r, <1>s, <2>t, <3>1 DEF Checkins
      <3>3. s(f).during \subseteq r.since
        BY <1>r, <1>s, <2>t, <3>1
      <3>4. QED
        BY <1>3, <1>r, <2>2, <2>t, <3>1, <3>2, <3>3 DEF Beside
    <2>3. CASE f # h /\ g # h
      <3>1. f \in AtWork(e) /\ g \in AtWork(e)
        BY <1>5, <1>7, <2>3
      <3>2. Beside(handler[f], handler[g])
        BY <1>7, <3>1 DEF DeliveryInv, AnswersInv
      <3>3. QED
        BY <1>3, <1>s, <2>3, <2>t, <3>2 DEF Beside
    <2>4. QED
      BY <2>1, <2>2, <2>3
  <1>8. AnswersInv'
    BY <1>6, <1>7 DEF AnswersInv
  <1>9. QED
    BY <1>4, <1>8 DEF DeliveryInv

LEMMA TriggerKeeps ==
    ASSUME DeliveryInv, NEW h \in Handler, NEW d \in Device, Trigger(h, d)
    PROVE  DeliveryInv'
  <1> USE DeliveryAssumption DEF At
  <1>t. /\ handler \in [Handler -> Serving] /\ policy \in [Device -> SUBSET Cap]
        /\ pending \in [Device -> {None} \union SUBSET Cap]
        /\ agent \in [Device -> Agent] /\ trouble \in 0 .. MaxTrouble
        /\ h # None /\ ServeInv
    BY DEF DeliveryInv, ServeInv, DeliveryTypeOK
  <1>i. handler[h] = Idle /\ Idle.d = None /\ ~Idle.checkin
    BY DEF Trigger, DeliveryInv, ServeInv, HandlersServe, Idle
  <1>n. \A e \in Device : agent[e].waits # h
    BY <1>t, <1>i DEF ServeInv, DeliveryTypeOK
  <1> DEFINE r == Begun(d)
  <1>r. /\ r \in Serving /\ r.pc = "resolve" /\ r.d = d /\ ~r.checkin
        /\ r.during = {policy[d]} /\ policy[d] \in r.since
        /\ \A g \in AtWork(d) : /\ handler[g].during \subseteq r.since
                                /\ policy[d] \in handler[g].since
    BY Begins
  <1>1. Go(h, r) /\ UNCHANGED <<policy, pending, agent>> /\ Trouble
    BY DEF Trigger
  <1> HIDE DEF r
  <1>2. trouble' \in 0 .. MaxTrouble
    BY <1>t, <1>1 DEF Trouble
  <1>3. ServeInv'
    BY <1>t, <1>n, <1>r, <1>1, <1>2, HandlerMoves
  <1>4. \A g \in Handler : handler'[g] = IF g = h THEN r ELSE handler[g]
    BY <1>t, <1>1 DEF Go
  <1>5. ASSUME NEW e \in Device
        PROVE  /\ Pulled(pending', e) = Pulled(pending, e)
               /\ AtWork(e)' = IF e = d THEN AtWork(d) \union {h} ELSE AtWork(e)
               /\ h \notin AtWork(e)
    BY <1>1, <1>4, <1>r, <1>i DEF Pulled, AtWork
  <1>6. ASSUME NEW e \in Device, NEW g \in AtWork(e)'
        PROVE  Timely(handler'[g], policy'[e], Pulled(pending', e))
    <2>1. CASE g = h
      <3>1. e = d
        BY <1>5, <1>6, <2>1
      <3>2. QED
        BY <1>1, <1>4, <1>r, <2>1, <3>1 DEF Timely
    <2>2. CASE g # h
      <3>1. g \in AtWork(e) /\ handler'[g] = handler[g]
        BY <1>4, <1>5, <1>6, <2>2 DEF AtWork
      <3>2. QED
        BY <1>1, <1>5, <3>1 DEF DeliveryInv, AnswersInv
    <2>3. QED
      BY <2>1, <2>2
  <1>7. ASSUME NEW e \in Device, NEW f \in AtWork(e)', NEW g \in AtWork(e)', f # g
        PROVE  Beside(handler'[f], handler'[g])
    <2>t. f \in Handler /\ g \in Handler
      BY <1>7 DEF AtWork
    <2>1. CASE f = h
      <3>1. e = d /\ g \in AtWork(d) /\ g # h
        BY <1>5, <1>7, <2>1
      <3>2. QED
        BY <1>4, <1>r, <2>1, <2>t, <3>1 DEF Beside
    <2>2. CASE g = h
      <3>1. e = d /\ f \in AtWork(d) /\ f # h
        BY <1>5, <1>7, <2>2
      <3>2. QED
        BY <1>4, <1>r, <2>2, <2>t, <3>1 DEF Beside
    <2>3. CASE f # h /\ g # h
      <3>1. f \in AtWork(e) /\ g \in AtWork(e)
        BY <1>5, <1>7, <2>3
      <3>2. QED
        BY <1>4, <1>7, <2>3, <2>t, <3>1 DEF DeliveryInv, AnswersInv
    <2>4. QED
      BY <2>1, <2>2, <2>3
  <1>8. AnswersInv'
    BY <1>6, <1>7 DEF AnswersInv
  <1>9. QED
    BY <1>3, <1>8 DEF DeliveryInv

\* A new policy is in force for all that are at work for the device.
LEMMA PutPolicyKeeps ==
    ASSUME DeliveryInv, NEW d \in Device, PutPolicy(d)
    PROVE  DeliveryInv'
  <1> USE DeliveryAssumption DEF At
  <1>t. /\ handler \in [Handler -> Serving] /\ policy \in [Device -> SUBSET Cap]
        /\ trouble \in 0 .. MaxTrouble /\ ServeInv
    BY DEF DeliveryInv, ServeInv, DeliveryTypeOK
  <1>1. PICK need \in Need : policy' = [policy EXCEPT ![d] = need] /\ Remember(d, need)
    BY DEF PutPolicy
  <1>2. UNCHANGED <<pending, agent>> /\ trouble' \in 0 .. MaxTrouble
    BY <1>t DEF PutPolicy, Trouble
  <1> DEFINE s(g) == [handler[g] EXCEPT !.during = @ \union {need}, !.since = @ \union {need}]
  <1>s. ASSUME NEW g \in Handler
        PROVE  /\ s(g) \in Serving /\ s(g).pc = handler[g].pc /\ s(g).d = handler[g].d
               /\ s(g).checkin = handler[g].checkin /\ s(g).need = handler[g].need
               /\ s(g).policy = handler[g].policy /\ s(g).caps = handler[g].caps
               /\ s(g).shared = handler[g].shared
               /\ s(g).during = handler[g].during \union {need}
               /\ s(g).since = handler[g].since \union {need}
    <2>1. need \in SUBSET Cap
      BY <1>1
    <2>2. handler[g] \in Serving
      BY <1>t
    <2>3. handler[g].during \union {need} \in Past
      BY <2>1, <2>2 DEF Serving, Past
    <2>4. handler[g].since \union {need} \in Past
      BY <2>1, <2>2 DEF Serving, Past
    <2>5. QED
      BY <2>2, <2>3, <2>4 DEF Serving
  <1>3. handler' = [g \in Handler |-> IF g \in AtWork(d) THEN s(g) ELSE handler[g]]
    BY <1>1 DEF Remember
  <1>4. \A e \in Device : policy'[e] = IF e = d THEN need ELSE policy[e]
    BY <1>1, <1>t
  <1> HIDE DEF s
  <1>5. \A g \in Handler : handler'[g] = IF g \in AtWork(d) THEN s(g) ELSE handler[g]
    BY <1>3
  <1>6. ServeInv'
    <2>1. handler' \in [Handler -> Serving] /\ policy' \in [Device -> SUBSET Cap]
      BY <1>t, <1>1, <1>3, <1>s DEF AtWork
    <2>2. \A g \in Handler : /\ handler'[g].pc = handler[g].pc /\ handler'[g].d = handler[g].d
                             /\ handler'[g].checkin = handler[g].checkin
      BY <1>5, <1>s
    <2>3. \A g \in Handler : handler[g] = Idle => handler'[g] = Idle
      <3>1. Idle.d \notin Device
        BY DEF Idle
      <3>2. QED
        BY <1>5, <3>1 DEF AtWork
    <2>4. DeliveryTypeOK'
      <3>1. \A e \in Device : agent[e].waits # None => agent[e].waits \in Handler
        BY DEF DeliveryInv, ServeInv, DeliveryTypeOK, Agent
      <3>2. QED
        BY <1>2, <1>t, <2>1, <2>2, <3>1 DEF ServeInv, DeliveryTypeOK
    <2>5. HandlersServe'
      BY <1>t, <2>2, <2>3 DEF ServeInv, HandlersServe
    <2>6. QED
      BY <2>4, <2>5 DEF ServeInv
  <1>7. ASSUME NEW e \in Device
        PROVE  Pulled(pending', e) = Pulled(pending, e) /\ AtWork(e)' = AtWork(e)
    BY <1>2, <1>5, <1>s DEF Pulled, AtWork
  <1>8. ASSUME NEW e \in Device, NEW g \in AtWork(e)
        PROVE  Timely(handler'[g], policy'[e], Pulled(pending', e))
    <2>1. Timely(handler[g], policy[e], Pulled(pending, e)) /\ g \in Handler /\ (g \in AtWork(d) <=> e = d)
      BY <1>8 DEF DeliveryInv, AnswersInv, AtWork
    <2>2. CASE e = d
      <3>1. Timely(s(g), need, Pulled(pending, e))
        <4>1. \A caps : Fits(handler[g], caps) => Fits(s(g), caps)
          BY <1>s, <2>1 DEF Fits
        <4>2. s(g).caps = handler[g].caps
          BY <1>s, <2>1
        <4>3. QED
          BY <1>s, <2>1, <4>1, <4>2 DEF Timely
      <3>2. QED
        BY <1>4, <1>5, <1>7, <2>1, <2>2, <3>1
    <2>3. CASE e # d
      BY <1>4, <1>5, <1>7, <2>1, <2>3
    <2>4. QED
      BY <2>2, <2>3
  <1>9. ASSUME NEW e \in Device, NEW f \in AtWork(e), NEW g \in AtWork(e), f # g
        PROVE  Beside(handler'[f], handler'[g])
    <2>1. /\ Beside(handler[f], handler[g]) /\ f \in Handler /\ g \in Handler
          /\ (f \in AtWork(d) <=> e = d) /\ (g \in AtWork(d) <=> e = d)
      BY <1>9 DEF DeliveryInv, AnswersInv, AtWork
    <2>2. Beside(s(f), s(g))
      BY <1>s, <2>1 DEF Beside
    <2>3. QED
      BY <1>5, <2>1, <2>2
  <1>10. AnswersInv'
    BY <1>7, <1>8, <1>9 DEF AnswersInv
  <1>11. QED
    BY <1>6, <1>10 DEF DeliveryInv

LEMMA WorldKeeps ==
    ASSUME DeliveryInv,
           \/ \E h \in Handler :
                \/ StatementFails(h) /\ trouble' \in 0 .. MaxTrouble
                \/ \E d \in Device : StartCheckin(h, d) \/ Trigger(h, d)
           \/ \E d \in Device : PutPolicy(d) \/ GiveUp(d)
           \/ LoseQueue /\ trouble' \in 0 .. MaxTrouble
    PROVE  DeliveryInv'
  <1> USE DeliveryAssumption DEF At
  <1>t. /\ handler \in [Handler -> Serving] /\ policy \in [Device -> SUBSET Cap]
        /\ pending \in [Device -> {None} \union SUBSET Cap]
        /\ agent \in [Device -> Agent] /\ trouble \in 0 .. MaxTrouble
        /\ ServeInv /\ \A h \in Handler : h # None
    BY DEF DeliveryInv, ServeInv, DeliveryTypeOK
  <1>i. Idle \in Serving /\ Idle.pc = "idle" /\ ~Idle.checkin /\ Idle.d = None
    BY DEF Idle, Serving, Past, PC
  <1>1. ASSUME NEW h \in Handler, StatementFails(h), trouble' \in 0 .. MaxTrouble
        PROVE  DeliveryInv'
    <2>1. Go(h, Idle) /\ UNCHANGED <<policy, pending>>
      BY <1>1 DEF StatementFails
    <2>2. /\ agent' \in [Device -> Agent]
          /\ \A d \in Device : agent'[d].waits \in {agent[d].waits, None} /\ agent'[d].waits # h
      BY <1>1, <1>t DEF StatementFails, StopWaiting, Agent
    <2>3. ServeInv'
      BY <1>1, <1>t, <1>i, <2>1, <2>2, HandlerMoves
    <2>4. AnswersInv'
      BY <1>i, <2>1, SameQueue, HandlerTimely
    <2>5. QED
      BY <2>3, <2>4 DEF DeliveryInv
  <1>2. ASSUME NEW d \in Device, GiveUp(d)
        PROVE  DeliveryInv'
    <2>1. /\ UNCHANGED <<policy, pending, handler>> /\ trouble' \in 0 .. MaxTrouble
          /\ agent' \in [Device -> Agent]
          /\ \A e \in Device : agent'[e].waits = IF e = d THEN None ELSE agent[e].waits
      BY <1>2, <1>t DEF GiveUp, Trouble, Agent
    <2>2. ServeInv'
      BY <1>t, <2>1 DEF ServeInv, DeliveryTypeOK, HandlersServe
    <2>3. AnswersInv'
      BY <2>1 DEF DeliveryInv, AnswersInv, AtWork, Pulled
    <2>4. QED
      BY <2>2, <2>3 DEF DeliveryInv
  <1>3. ASSUME LoseQueue, trouble' \in 0 .. MaxTrouble
        PROVE  DeliveryInv'
    <2>1. /\ policy' = policy
          /\ pending' = [d \in Device |-> None]
          /\ handler' = [h \in Handler |-> Idle]
          /\ agent' \in [Device -> Agent] /\ \A d \in Device : agent'[d].waits = None
      <3>1. /\ policy' = policy
            /\ pending' = [d \in Device |-> None]
            /\ handler' = [h \in Handler |-> Idle]
            /\ agent' = [d \in Device |-> [agent[d] EXCEPT !.waits = None]]
        BY <1>3 DEF LoseQueue
      <3>2. ASSUME NEW d \in Device
            PROVE  [agent[d] EXCEPT !.waits = None] \in Agent /\ [agent[d] EXCEPT !.waits = None].waits = None
        BY <1>t DEF Agent
      <3>3. QED
        BY <3>1, <3>2
    <2>2. ServeInv'
      BY <1>3, <1>t, <1>i, <2>1 DEF ServeInv, DeliveryTypeOK, HandlersServe
    <2>3. \A d \in Device : AtWork(d)' = {}
      BY <1>i, <2>1 DEF AtWork
    <2>4. QED
      BY <2>2, <2>3 DEF DeliveryInv, AnswersInv
  <1>4. QED
    BY <1>1, <1>2, <1>3, CheckinKeeps, TriggerKeeps, PutPolicyKeeps

LEMMA DeliveryUnchanged ==
    ASSUME DeliveryInv, UNCHANGED <<policy, pending, handler, agent>>,
           trouble' \in 0 .. MaxTrouble
    PROVE  DeliveryInv'
  BY DEF DeliveryInv, ServeInv, DeliveryTypeOK, HandlersServe, AnswersInv, AtWork, Pulled, At

-------------------------------------------------------------------------------

\* Where the server is and what its process has behind it.
LifeInv ==
    /\ phase \in [Process -> Phase] /\ cancelled \subseteq Process
    /\ server \in Process \union {None}
    /\ server = None => Quiet
    /\ server # None => /\ phase[server] \in {"serve", "drain", "returned"}
                        /\ MigAt(server, "done")

IInv == MigInv /\ DeliveryInv /\ LifeInv

LEMMA IInvImplies == IInv => TypeOK /\ AnswersOfTheirTime /\ SchemaIsPrefix /\ ServedWhole
  <1> SUFFICES ASSUME IInv
               PROVE  TypeOK /\ AnswersOfTheirTime /\ SchemaIsPrefix /\ ServedWhole
    OBVIOUS
  <1>1. TypeOK /\ SchemaIsPrefix
    BY DEF IInv, MigInv, DeliveryInv, ServeInv, LifeInv, TypeOK
  <1>2. ServedWhole
    <2> SUFFICES ASSUME \E h \in Handler : ~At(h, "idle")
                 PROVE  1 .. Has[server] \subseteq recorded
      BY DEF ServedWhole
    <2>1. server \in Process /\ MigAt(server, "done")
      BY DEF IInv, LifeInv, Quiet
    <2>2. QED
      BY <2>1 DEF IInv, MigInv, RestIsRecorded, NothingLeft, MigAt
  <1>3. AnswersOfTheirTime
    <2> SUFFICES ASSUME NEW h \in Handler, At(h, "respond")
                 PROVE  handler[h].policy \in handler[h].during /\ Fits(handler[h], handler[h].caps)
      BY DEF AnswersOfTheirTime, Fits
    <2>1. handler[h].d \in Device
      BY DEF IInv, DeliveryInv, ServeInv, HandlersServe, At
    <2>2. Timely(handler[h], policy[handler[h].d], Pulled(pending, handler[h].d))
      BY <2>1 DEF IInv, DeliveryInv, AnswersInv, AtWork
    <2>3. QED
      BY <2>2 DEF Timely, At
  <1>4. QED
    BY <1>1, <1>2, <1>3

LEMMA InitIInv == Init => IInv
  <1> SUFFICES ASSUME Init PROVE IInv
    OBVIOUS
  <1> USE MigrateAssumption, DeliveryAssumption DEF At, MigAt
  <1>1. MigInv
    <2>1. Away \in Call /\ Away.pc = "away"
      BY DEF Away, Call, MigPC
    <2>2. MigTypeOK
      BY <2>1 DEF Init, MigInit, MigTypeOK, Call, File
    <2>3. SchemaIsPrefix
      BY DEF Init, MigInit, SchemaIsPrefix
    <2>4. QED
      BY <2>1, <2>2, <2>3 DEF Init, MigInit, MigInv, HoldsLock, RestIsRecorded, InOrder, NameIsFree,
           NothingLeft, InTransaction
  <1>2. DeliveryInv
    <2>1. Idle \in Serving /\ Idle.pc = "idle"
      BY DEF Idle, Serving, Past, PC
    <2>2. ServeInv
      BY <2>1 DEF Init, DeliveryInit, ServeInv, DeliveryTypeOK, HandlersServe, Agent
    <2>3. \A d \in Device : AtWork(d) = {}
      BY DEF Init, DeliveryInit, AtWork, Idle
    <2>4. QED
      BY <2>2, <2>3 DEF DeliveryInv, AnswersInv
  <1>3. LifeInv
    BY DEF Init, DeliveryInit, LifeInv, Phase, Quiet, Idle
  <1>4. QED
    BY <1>1, <1>2, <1>3 DEF IInv

\* What stays of the processes when only a handler or an agent has moved.
LEMMA LifeUnchanged ==
    ASSUME IInv, UNCHANGED <<migVars, lifeVars>>, server # None \/ handler' = handler
    PROVE  MigInv' /\ LifeInv'
  <1>1. MigInv'
    BY MigUnchanged DEF IInv
  <1>2. LifeInv'
    BY DEF IInv, LifeInv, migVars, lifeVars, MigAt, Quiet, At
  <1>3. QED
    BY <1>1, <1>2

\* Every step of the platform keeps all of it.
LEMMA NextIInv == IInv /\ [Next]_vars => IInv'
  <1> SUFFICES ASSUME IInv, [Next]_vars PROVE IInv'
    OBVIOUS
  <1> USE PlatformAssumption, DeliveryAssumption DEF In, Enter
  <1>t. /\ MigInv /\ DeliveryInv /\ LifeInv
        /\ trouble \in 0 .. MaxTrouble /\ (Trouble => trouble' \in 0 .. MaxTrouble)
        /\ mig \in [Process -> Call] /\ phase \in [Process -> Phase]
    BY DEF IInv, DeliveryInv, ServeInv, DeliveryTypeOK, Trouble, MigInv, MigTypeOK, LifeInv, Call
  <1>1. ASSUME NEW p \in Process, Start(p)
        PROVE  IInv'
    <2>1. MigInv'
      BY <1>1, <1>t, MigKeeps DEF Start
    <2>2. DeliveryInv'
      BY <1>1, <1>t, DeliveryUnchanged DEF Start
    <2>3. server # p
      BY <1>1, <1>t DEF Start, LifeInv
    <2>4. LifeInv'
      BY <1>1, <1>t, <2>3 DEF Start, LifeInv, MigBegin, MigAt, Phase, Quiet, At
    <2>5. QED
      BY <2>1, <2>2, <2>4 DEF IInv
  <1>2. ASSUME NEW p \in Process, Migrating(p)
        PROVE  IInv'
    <2>1. MigInv'
      BY <1>2, <1>t, MigKeeps, CommitKeepsMigInv DEF Migrating, MigrateStep
    <2>2. DeliveryInv'
      BY <1>2, <1>t, DeliveryUnchanged DEF Migrating
    <2>3. server # p
      BY <1>2, <1>t DEF Migrating, LifeInv
    <2>4. \A q \in Process \ {p} : mig'[q] = mig[q]
      BY <1>2, <1>t DEF Migrating, MigrateStep, MigrateFails, LoadApplied, ApplyBody, RecordName,
           CommitFile, Collide, MigrateDone
    <2>5. LifeInv'
      BY <1>2, <1>t, <2>3, <2>4 DEF Migrating, LifeInv, lifeVars, MigAt, Quiet, At
    <2>6. QED
      BY <2>1, <2>2, <2>5 DEF IInv
  <1>3. ASSUME NEW p \in Process, GiveUpMigrating(p) \/ ListenFails(p) \/ Shutdown(p) \/ Stop(p)
        PROVE  IInv'
    <2>1. MigInv'
      BY <1>3, <1>t, MigUnchanged DEF GiveUpMigrating, ListenFails, Shutdown, Stop
    <2>2. DeliveryInv'
      BY <1>3, <1>t, DeliveryUnchanged DEF GiveUpMigrating, ListenFails, Shutdown, Stop, deliveryVars
    <2>3. LifeInv'
      BY <1>3, <1>t DEF GiveUpMigrating, ListenFails, Shutdown, Stop, deliveryVars, migVars,
           LifeInv, MigAt, Phase, Quiet, At
    <2>4. QED
      BY <2>1, <2>2, <2>3 DEF IInv
  <1>4. ASSUME NEW p \in Process, Listen(p)
        PROVE  IInv'
    <2>1. MigInv'
      BY <1>4, <1>t, MigUnchanged DEF Listen
    <2>2. DeliveryInv'
      BY <1>4, <1>t, DeliveryUnchanged DEF Listen, deliveryVars
    <2>3. LifeInv'
      BY <1>4, <1>t DEF Listen, Migrated, deliveryVars, migVars, LifeInv, MigAt, Phase
    <2>4. QED
      BY <2>1, <2>2, <2>3 DEF IInv
  <1>5. ASSUME NEW p \in Process, Drained(p)
        PROVE  IInv'
    <2>1. MigInv'
      BY <1>5, <1>t, MigUnchanged DEF Drained
    <2>2. DeliveryInv'
      BY <1>5, <1>t, DeliveryUnchanged DEF Drained
    <2>3. LifeInv'
      BY <1>5, <1>t DEF Drained, migVars, LifeInv, MigAt, Phase, Quiet, At
    <2>4. QED
      BY <2>1, <2>2, <2>3 DEF IInv
  <1>6. ASSUME NEW p \in Process, Exit(p) \/ Crash(p)
        PROVE  IInv'
    <2>1. Ends(p) /\ trouble' \in 0 .. MaxTrouble /\ UNCHANGED cancelled
      BY <1>6, <1>t DEF Exit, Crash
    <2>2. MigInv'
      BY <2>1, <1>t, MigKeeps DEF Ends
    <2>3. DeliveryInv'
      BY <2>1, <1>t, DeliveryUnchanged, WorldKeeps DEF Ends
    <2>4. LifeInv'
      <3>1. CASE server = p
        BY <2>1, <3>1, <1>t DEF Ends, LoseQueue, LifeInv, Phase, Quiet, At, Idle
      <3>2. CASE server # p
        BY <2>1, <3>2, <1>t DEF Ends, LifeInv, MigGone, Phase, Quiet, At, MigAt
      <3>3. QED
        BY <3>1, <3>2
    <2>5. QED
      BY <2>2, <2>3, <2>4 DEF IInv
  <1>7. ASSUME NEW h \in Handler, Handle(h)
        PROVE  IInv'
    <2>1. DeliveryInv'
      BY <1>7, <1>t, ServeKeeps DEF Handle
    <2>2. server # None
      BY <1>7, <1>t DEF Handle, Serve, EnforceResolve, EnforceApply, CheckinResolve, PullPending,
           Respond, LifeInv, Quiet, At
    <2>3. QED
      BY <1>7, <2>1, <2>2, LifeUnchanged DEF Handle, IInv
  <1>8. ASSUME NEW h \in Handler, Fail(h)
        PROVE  IInv'
    <2>1. DeliveryInv'
      BY <1>8, <1>t, WorldKeeps DEF Fail
    <2>2. server # None
      BY <1>8, <1>t DEF Fail, StatementFails, LifeInv, Quiet, At
    <2>3. QED
      BY <1>8, <2>1, <2>2, LifeUnchanged DEF Fail, IInv
  <1>9. ASSUME NEW h \in Handler, NEW d \in Device, Accept(h, d)
        PROVE  IInv'
    <2>1. DeliveryInv'
      BY <1>9, <1>t, WorldKeeps DEF Accept
    <2>2. QED
      BY <1>9, <2>1, LifeUnchanged DEF Accept, Listening, IInv
  <1>10. ASSUME NEW d \in Device, Disturb(d)
         PROVE  IInv'
    <2>1. DeliveryInv'
      BY <1>10, <1>t, WorldKeeps DEF Disturb
    <2>2. server # None \/ handler' = handler
      BY <1>10 DEF Disturb, GiveUp
    <2>3. QED
      BY <1>10, <2>1, <2>2, LifeUnchanged DEF Disturb, IInv
  <1>11. CASE UNCHANGED vars
    <2>1. DeliveryInv'
      BY <1>11, <1>t, DeliveryUnchanged DEF vars, deliveryVars
    <2>2. QED
      BY <1>11, <2>1, LifeUnchanged DEF vars, deliveryVars, IInv
  <1>12. QED
    BY <1>1, <1>2, <1>3, <1>4, <1>5, <1>6, <1>7, <1>8, <1>9, <1>10, <1>11 DEF Next, Live

-------------------------------------------------------------------------------

\* Types, of the queue, the migrations and the processes.
THEOREM TypeCorrect == Spec => []TypeOK
  BY InitIInv, NextIInv, IInvImplies, PTL DEF Spec

\* Every answer is of its time: its policy was in force during the check-in,
\* its capabilities while a handler that overlapped it worked, and they are
\* missing only beside another check-in, unless a policy required nothing.
THEOREM AnswersAreOfTheirTime == Spec => []AnswersOfTheirTime
  BY InitIInv, NextIInv, IInvImplies, PTL DEF Spec

\* However many processes of whatever versions start at once, fail and are
\* killed, each migration is applied once and none before an earlier one.
THEOREM MigrateCorrect == Spec => []SchemaIsPrefix
  BY InitIInv, NextIInv, IInvImplies, PTL DEF Spec

\* No request meets a schema that lacks a migration of its process's version.
THEOREM ServedCorrect == Spec => []ServedWhole
  BY InitIInv, NextIInv, IInvImplies, PTL DEF Spec

===============================================================================
