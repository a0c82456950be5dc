------------------------------- MODULE Delivery -------------------------------
(***************************************************************************)
(* How a policy reaches the agent on a device: the check-in handler        *)
(* (internal/api/agent.go), the enforcement coordinator and the agent      *)
(* backend with its in-memory queue of one slice per device                *)
(* (internal/enforce), the trigger endpoint of the dashboard, and the      *)
(* agent that checks in again and again.                                   *)
(*                                                                         *)
(* Handlers run concurrently; between two of their steps the parent may    *)
(* store another policy, another handler may queue or pull a slice, the    *)
(* process may end (which empties the queue), and the agent may give up    *)
(* waiting and check in again while the old handler is still running.      *)
(* Platform composes this with the processes' lives.                       *)
(*                                                                         *)
(* Of a resolved policy only the required capabilities are kept here: they *)
(* are what the coordinator splits and caps_assigned reports.              *)
(***************************************************************************)
EXTENDS Naturals

CONSTANTS
    Device,         \* registered devices
    Enrolled,       \* those with an agent token
    Handler,        \* goroutines serving check-ins and triggers
    Cap,            \* enforcement capabilities
    Need,           \* the sets of them that the parent's policies require
    None,
    MaxTrouble      \* bound: policy changes, triggers, failures, time-outs and
                    \* restarts, all together

ASSUME DeliveryAssumption ==
    /\ Enrolled \subseteq Device
    /\ None \notin Handler \union Device
    /\ \A caps \in SUBSET Cap : caps # None
    /\ Need \subseteq SUBSET Cap
    /\ MaxTrouble \in Nat

VARIABLES
    policy,     \* [Device -> required caps of the policy in force]
    pending,    \* [Device -> the queued slice's caps, or None]: agent.Backend
    handler,    \* [Handler -> what it is serving]
    agent,      \* [Device -> what the agent waits for and last learnt]
    trouble     \* how many disturbances there have been

deliveryVars == <<policy, pending, handler, agent, trouble>>

PC == {"idle", "resolve", "apply", "resolveAgain", "pull", "respond"}

Idle == [pc |-> "idle", checkin |-> FALSE, d |-> None, need |-> {}, policy |-> {}, caps |-> {},
         during |-> {}, since |-> {}, shared |-> FALSE]

Past == SUBSET SUBSET Cap

\* History: the policies in force during the handler's work, those in force
\* since the oldest of the device's handlers at work when it began did, and
\* whether another check-in of the device has been at work meanwhile.
Serving ==
    [pc : PC, checkin : BOOLEAN, d : Device \union {None}, need : SUBSET Cap,
     policy : SUBSET Cap, caps : SUBSET Cap,
     during : Past, since : Past, shared : BOOLEAN]

Agent == [waits : Handler \union {None}, policy : SUBSET Cap, caps : SUBSET Cap]

DeliveryInit ==
    /\ policy = [d \in Device |-> {}]
    /\ pending = [d \in Device |-> None]
    /\ handler = [h \in Handler |-> Idle]
    /\ agent = [d \in Device |-> [waits |-> None, policy |-> {}, caps |-> {}]]
    /\ trouble = 0

At(h, pc) == handler[h].pc = pc
Go(h, r)  == handler' = [handler EXCEPT ![h] = r]
Trouble   == trouble < MaxTrouble /\ trouble' = trouble + 1

AtWork(d)   == {g \in Handler : handler[g].d = d}
Checkins(d) == {g \in AtWork(d) : handler[g].checkin}

Begun(d) ==
    [Idle EXCEPT !.pc = "resolve", !.d = d, !.during = {policy[d]},
                 !.since = {policy[d]} \union UNION {handler[g].during : g \in AtWork(d)}]

-------------------------------------------------------------------------------
(***************************************************************************)
(* Coordinator.Enforce: resolve, pick backends, apply.                     *)
(***************************************************************************)

EnforceResolve(h) ==
    /\ At(h, "resolve")
    /\ Go(h, [handler[h] EXCEPT !.pc = "apply", !.need = policy[handler[h].d]])
    /\ UNCHANGED <<policy, pending, agent, trouble>>

\* The agent backend handles devices that have a token; all others fall
\* through to the no-op backend, which offers every capability.
Pick(d) == IF d \in Enrolled THEN "agent" ELSE "noop"

\* A bug the run must catch: LoadOrStore, the first slice queued stays.
QueueFirst(d, need) ==
    IF need # {} /\ Pick(d) = "agent" /\ pending[d] = None
      THEN pending' = [pending EXCEPT ![d] = need]
      ELSE UNCHANGED pending

\* A backend is only called when it is assigned a capability: a policy that
\* requires none queues nothing and revokes nothing.
Queue(d, need) ==
    IF need # {} /\ Pick(d) = "agent"
      THEN pending' = [pending EXCEPT ![d] = need]
      ELSE UNCHANGED pending

EnforceApply(h) ==
    /\ At(h, "apply")
    /\ Queue(handler[h].d, handler[h].need)
    /\ Go(h, IF handler[h].checkin THEN [handler[h] EXCEPT !.pc = "resolveAgain", !.need = {}]
             ELSE Idle)
    /\ UNCHANGED <<policy, agent, trouble>>

-------------------------------------------------------------------------------
(***************************************************************************)
(* Checkin, once the token is accepted.                                    *)
(***************************************************************************)

\* The agent checks in whenever it is not waiting for an answer.
StartCheckin(h, d) ==
    /\ d \in Enrolled
    /\ agent[d].waits = None
    /\ At(h, "idle")
    /\ handler' = [g \in Handler |->
         IF g = h THEN [Begun(d) EXCEPT !.checkin = TRUE, !.shared = Checkins(d) # {}]
         ELSE IF g \in Checkins(d) THEN [handler[g] EXCEPT !.shared = TRUE]
         ELSE handler[g]]
    /\ agent' = [agent EXCEPT ![d].waits = h]
    /\ UNCHANGED <<policy, pending, trouble>>

CheckinResolve(h) ==
    /\ At(h, "resolveAgain")
    /\ Go(h, [handler[h] EXCEPT !.pc = "pull", !.policy = policy[handler[h].d]])
    /\ UNCHANGED <<policy, pending, agent, trouble>>

\* A bug the run must catch: the slice stays queued after it was pulled.
TakeNothing(d) == UNCHANGED pending

\* PullPending: LoadAndDelete.
Take(d) == pending' = [pending EXCEPT ![d] = None]

PullPending(h) ==
    /\ At(h, "pull")
    /\ LET d == handler[h].d
       IN  /\ Go(h, [handler[h] EXCEPT !.pc = "respond",
                                       !.caps = IF pending[d] = None THEN {} ELSE pending[d]])
           /\ Take(d)
    /\ UNCHANGED <<policy, agent, trouble>>

\* The answer reaches the agent if it is still waiting for this handler.
Respond(h) ==
    /\ At(h, "respond")
    /\ LET d == handler[h].d
       IN  agent' = IF agent[d].waits = h
                      THEN [agent EXCEPT ![d] = [waits |-> None, policy |-> handler[h].policy,
                                                 caps |-> handler[h].caps]]
                      ELSE agent
    /\ Go(h, Idle)
    /\ UNCHANGED <<policy, pending, trouble>>

-------------------------------------------------------------------------------
(***************************************************************************)
(* The rest of the world.                                                  *)
(***************************************************************************)

Remember(d, need) ==
    handler' = [g \in Handler |->
      IF g \in AtWork(d)
        THEN [handler[g] EXCEPT !.during = @ \union {need}, !.since = @ \union {need}]
        ELSE handler[g]]

\* PUT of a policy or an override.
PutPolicy(d) ==
    /\ Trouble
    /\ \E need \in Need : policy' = [policy EXCEPT ![d] = need] /\ Remember(d, need)
    /\ UNCHANGED <<pending, agent>>

\* POST /devices/{id}/enforce: Enforce alone.
Trigger(h, d) ==
    /\ Trouble
    /\ At(h, "idle")
    /\ Go(h, Begun(d))
    /\ UNCHANGED <<policy, pending, agent>>

\* A bug the run must catch: the error is returned without an answer.
StopNothing(h) == agent

StopWaiting(h) ==
    [d \in Device |-> IF agent[d].waits = h THEN [agent[d] EXCEPT !.waits = None] ELSE agent[d]]

\* A statement of Enforce or Resolve fails and the handler answers with an
\* error; a queued slice stays queued.
StatementFails(h) ==
    /\ \E pc \in {"resolve", "resolveAgain"} : At(h, pc)
    /\ Go(h, Idle)
    /\ agent' = StopWaiting(h)
    /\ UNCHANGED <<policy, pending>>

\* The agent times out; its handler does not know.
GiveUp(d) ==
    /\ Trouble
    /\ agent[d].waits # None
    /\ agent' = [agent EXCEPT ![d].waits = None]
    /\ UNCHANGED <<policy, pending, handler>>

\* The process ends; the queue lives in memory only.
LoseQueue ==
    /\ pending' = [d \in Device |-> None]
    /\ handler' = [h \in Handler |-> Idle]
    /\ agent' = [d \in Device |-> [agent[d] EXCEPT !.waits = None]]
    /\ UNCHANGED policy

Serve(h) ==
    EnforceResolve(h) \/ EnforceApply(h) \/ CheckinResolve(h) \/ PullPending(h) \/ Respond(h)

-------------------------------------------------------------------------------
(***************************************************************************)
(* Properties.                                                             *)
(***************************************************************************)

\* Types, and an agent only waits for a handler that is serving it.
DeliveryTypeOK ==
    /\ policy \in [Device -> SUBSET Cap]
    /\ pending \in [Device -> {None} \union SUBSET Cap]
    /\ handler \in [Handler -> Serving]
    /\ agent \in [Device -> Agent]
    /\ trouble \in 0 .. MaxTrouble
    /\ \A d \in Device :
         agent[d].waits # None =>
             handler[agent[d].waits].checkin /\ handler[agent[d].waits].d = d

\* The agent knows the policy in force and is assigned exactly the capabilities
\* it requires.
UpToDate(d) == agent[d].policy = policy[d] /\ agent[d].caps = policy[d]

\* An answer is of its time, whatever else is queued and pulled meanwhile.  Its
\* policy was in force during the check-in.  Its capabilities may be of another
\* policy, but of one in force while this or an overlapping handler worked:
\* older slices are overwritten by the check-in's own.  They are missing only if
\* another check-in of the device overlapped, which may have pulled them.  The
\* capabilities may be others only where a policy in force meanwhile required
\* nothing: then Enforce calls no backend, and what was queued before stays queued.
AnswersOfTheirTime ==
    \A h \in Handler :
      At(h, "respond") =>
        /\ handler[h].policy \in handler[h].during
        /\ \/ IF handler[h].caps = {} THEN handler[h].shared
                                     ELSE handler[h].caps \in handler[h].since
           \/ {} \in handler[h].during

===============================================================================
