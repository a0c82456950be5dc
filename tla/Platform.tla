------------------------------- MODULE Platform --------------------------------
(***************************************************************************)
(* The processes of the service (cmd/platform/main.go) from start to exit, *)
(* around the migrations they begin with and the deliveries they serve.    *)
(* The service manager runs one process; another may be started by hand or *)
(* be what is left of a version before an upgrade.                         *)
(*                                                                         *)
(* One process at a time can have the port.  A second one returns from     *)
(* runService, as one does whose migrations failed, and lives on without a *)
(* server until it is stopped.  Handlers that outlive the server's drain   *)
(* run on a closed database until the process exits.  The port's next      *)
(* owner is taken to come up only after those handlers have gone.          *)
(***************************************************************************)
EXTENDS Delivery, Migrate

ASSUME PlatformAssumption == None \notin Process

VARIABLES
    phase,      \* [Process -> how far its runService is]
    cancelled,  \* those whose context Stop has cancelled
    server      \* the process that the handlers belong to, or None

Phase == {"down", "migrate", "serve", "drain", "returned"}

lifeVars == <<phase, cancelled, server>>
vars == <<deliveryVars, migVars, lifeVars>>

Init ==
    /\ DeliveryInit /\ MigInit
    /\ phase = [p \in Process |-> "down"]
    /\ cancelled = {}
    /\ server = None

In(p, s)   == phase[p] = s
Enter(p, s) == phase' = [phase EXCEPT ![p] = s]
Quiet      == \A h \in Handler : At(h, "idle")

\* The server takes connections.
Listening == server # None /\ In(server, "serve")

\* runService has closed the database behind its handlers.
Closed == server # None /\ In(server, "returned")

-------------------------------------------------------------------------------
(***************************************************************************)
(* program.Start, runService, program.Stop.                                *)
(***************************************************************************)

Start(p) ==
    /\ In(p, "down")
    /\ Enter(p, "migrate")
    /\ MigBegin(p)
    /\ cancelled' = cancelled \ {p}
    /\ IF \A q \in Process : In(q, "down") THEN UNCHANGED trouble ELSE Trouble
    /\ UNCHANGED <<policy, pending, handler, agent, recorded, applied, lock, server>>

\* Migrate does not look at the context.
Migrating(p) ==
    /\ In(p, "migrate")
    /\ \/ MigrateStep(p) /\ UNCHANGED trouble
       \/ MigrateFails(p) /\ Trouble
    /\ UNCHANGED <<policy, pending, handler, agent, lifeVars>>

\* A bug the run must catch: the error of Migrate is logged and forgotten.
AnyOutcome(p) == MigAt(p, "done") \/ MigAt(p, "failed")

Migrated(p) == MigAt(p, "done")

GiveUpMigrating(p) ==
    /\ In(p, "migrate") /\ MigAt(p, "failed")
    /\ Enter(p, "returned")
    /\ UNCHANGED <<deliveryVars, migVars, cancelled, server>>

\* ListenAndServe gets the port.
Listen(p) ==
    /\ In(p, "migrate") /\ Migrated(p)
    /\ server = None
    /\ Enter(p, "serve")
    /\ server' = p
    /\ UNCHANGED <<deliveryVars, migVars, cancelled>>

\* It does not, or Shutdown is faster.
ListenFails(p) ==
    /\ In(p, "migrate") /\ Migrated(p)
    /\ Listening \/ p \in cancelled
    /\ Enter(p, "returned")
    /\ UNCHANGED <<deliveryVars, migVars, cancelled, server>>

Stop(p) ==
    /\ ~In(p, "down") /\ p \notin cancelled
    /\ Trouble
    /\ cancelled' = cancelled \union {p}
    /\ UNCHANGED <<policy, pending, handler, agent, migVars, phase, server>>

Shutdown(p) ==
    /\ In(p, "serve") /\ p \in cancelled
    /\ Enter(p, "drain")
    /\ UNCHANGED <<deliveryVars, migVars, cancelled, server>>

\* Shutdown waits for the handlers, five seconds at most.
Drained(p) ==
    /\ In(p, "drain")
    /\ IF Quiet THEN UNCHANGED trouble ELSE Trouble
    /\ Enter(p, "returned")
    /\ UNCHANGED <<policy, pending, handler, agent, migVars, cancelled, server>>

Ends(p) ==
    /\ Enter(p, "down")
    /\ MigGone(p)
    /\ IF server = p THEN LoseQueue /\ server' = None
                     ELSE UNCHANGED <<policy, pending, handler, agent, server>>

\* Stop returns when runService has, after ten seconds at most.
Exit(p) ==
    /\ ~In(p, "down") /\ p \in cancelled
    /\ IF In(p, "returned") THEN UNCHANGED trouble ELSE Trouble
    /\ Ends(p)
    /\ UNCHANGED cancelled

Crash(p) ==
    /\ ~In(p, "down")
    /\ Trouble
    /\ Ends(p)
    /\ UNCHANGED cancelled

Live(p) ==
    Migrating(p) \/ GiveUpMigrating(p) \/ Listen(p) \/ ListenFails(p) \/ Shutdown(p)
      \/ Drained(p) \/ Exit(p)

-------------------------------------------------------------------------------
(***************************************************************************)
(* What is delivered meanwhile.                                            *)
(***************************************************************************)

\* The statements of these two need the database.
Handle(h) ==
    /\ At(h, "resolve") \/ At(h, "resolveAgain") => ~Closed
    /\ Serve(h)
    /\ UNCHANGED <<migVars, lifeVars>>

\* They fail now and then, on a closed database, and when net/http has
\* cancelled the context of a check-in whose agent has given up.
GivenUp(h) == handler[h].checkin /\ \A d \in Device : agent[d].waits # h

Fail(h) ==
    /\ StatementFails(h)
    /\ IF Closed \/ GivenUp(h) THEN UNCHANGED trouble ELSE Trouble
    /\ UNCHANGED <<migVars, lifeVars>>

Accept(h, d) ==
    /\ Listening
    /\ StartCheckin(h, d) \/ Trigger(h, d)
    /\ UNCHANGED <<migVars, lifeVars>>

Checkin(d) ==
    /\ Listening
    /\ \E h \in Handler : StartCheckin(h, d)
    /\ UNCHANGED <<migVars, lifeVars>>

Disturb(d) ==
    /\ (server # None /\ ~Closed /\ PutPolicy(d)) \/ GiveUp(d)
    /\ UNCHANGED <<migVars, lifeVars>>

Next ==
    \/ \E p \in Process : Start(p) \/ Live(p) \/ Stop(p) \/ Crash(p)
    \/ \E h \in Handler : Handle(h) \/ Fail(h) \/ \E d \in Device : Accept(h, d)
    \/ \E d \in Device : Disturb(d)

\* What has begun goes on; an agent that is idle checks in again (every
\* checkin_interval_seconds).  Nobody is obliged to start a process.
Spec ==
    /\ Init /\ [][Next]_vars
    /\ \A p \in Process : WF_vars(Live(p))
    /\ \A h \in Handler : WF_vars(Handle(h))
    /\ \A d \in Enrolled : WF_vars(Checkin(d))

-------------------------------------------------------------------------------
(***************************************************************************)
(* Properties.                                                             *)
(***************************************************************************)

\* Types; a handler that works belongs to a process, and a server to one that
\* has started it.
TypeOK ==
    /\ DeliveryTypeOK /\ MigTypeOK
    /\ phase \in [Process -> Phase] /\ cancelled \subseteq Process
    /\ server \in Process \union {None}
    /\ server = None => Quiet
    /\ server # None => phase[server] \in {"serve", "drain", "returned"}

\* Every request is served with all the tables that its process knows of, also
\* when an older process has the database open or one is upgraded half-way.
ServedWhole ==
    (\E h \in Handler : ~At(h, "idle")) => 1 .. Has[server] \subseteq recorded

\* Once the disturbances end and a server stays up, every agent learns the
\* policy in force and is assigned what it requires, and keeps both: slices
\* lost with a process, pulled by a handler whose agent gave up, or queued from
\* a policy that has changed since are all made good by later check-ins.
Converges == <>[]Listening => \A d \in Enrolled : <>[]UpToDate(d)

\* A process that starts while no other is alive comes up and serves, whatever
\* earlier ones left in the database, unless it is disturbed itself.
ComesUp ==
    \A p \in Process, n \in 0 .. MaxTrouble :
      ( /\ MigAt(p, "load") /\ p \notin cancelled
        /\ trouble = n
        /\ \A q \in Process \ {p} : In(q, "down") )
      ~> (In(p, "serve") \/ trouble > n \/ \E q \in Process \ {p} : ~In(q, "down"))

===============================================================================
