-------------------------------- MODULE Activity --------------------------------
(***************************************************************************)
(* The scanner and the agents' check-ins feeding the event log through the *)
(* registry's observe hook (cmd/platform/main.go), while the service stops *)
(* and starts, the retention worker sweeps and the parent changes levels.  *)
(* Each MAC address is a device; a device with an agent reports by the     *)
(* device's clock what it missed to report before.                         *)
(***************************************************************************)
EXTENDS EventLog, FiniteSetsExt

CONSTANTS
    Mac, Spelling, Norm, Nobody, MinCycles,
    Agent,          \* devices that check in
    Interval,       \* between two scans
    Skew,           \* by how much a device's clock may be ahead
    Late,           \* how old what it reports may be
    Stored,         \* levels that may be stored at the beginning: pairs of
                    \* the person's and the override's
    MaxTrouble      \* bound: check-ins, policies stored, failures and stops,
                    \* all together

VARIABLES seen, cycles, reconciled,
    up,         \* whether the service runs
    scanAt,     \* when the scanner's next cycle is
    since,      \* [Mac -> the first of an unbroken run of cycles that saw it
                \* and recorded what they should, or None] (history)
    trouble     \* how much has happened of all that is bounded

S == INSTANCE Scanner

\* A scan interval above the gap makes every device's usage nothing, and a
\* window shorter than a day hands spent time out again: both are flags of the
\* command line, far from these bounds by default.
ASSUME ActivityAssumption ==
    /\ IsFiniteSet(Device) /\ Nobody \notin Mac /\ Norm \in [Spelling -> Mac \union {Nobody}]
    /\ MinCycles \in Nat \ {0}
    /\ Device = Mac \union Agent
    /\ Stored \subseteq LevelSet \X LevelSet
    /\ Interval \in 1 .. (Gap - 1)
    /\ Skew \in Nat /\ Late \in Nat
    /\ Window >= DayLen + Skew - 1

vars == <<logVars, seen, cycles, reconciled, up, scanAt, since, trouble>>
restVars == <<up, scanAt, since, trouble>>

Init ==
    /\ \E s \in Stored : LogInit(s[1], s[2])
    /\ S!ScanInit
    /\ up = TRUE /\ scanAt = 0
    /\ since = [m \in Mac |-> None]
    /\ trouble = 0

Trouble == trouble < MaxTrouble /\ trouble' = trouble + 1

\* Scanner.cycle, with the observe hook for every address it reconciles: the
\* hook reads the row and appends; when one of these fails nothing is logged.
Scan ==
    /\ up /\ now = scanAt
    /\ \E snapshot \in SUBSET Spelling :
         \E logged \in SUBSET S!Due(snapshot) :
           /\ S!Cycle(snapshot, S!Due(snapshot))
           /\ IF logged = S!Due(snapshot) THEN UNCHANGED trouble ELSE Trouble
           /\ AppendSeen({Seen(m, now) : m \in logged})
           /\ since' = [m \in Mac |->
                IF m \in S!Hosts(snapshot) \ (S!Due(snapshot) \ logged)
                  THEN IF since[m] = None THEN now ELSE since[m]
                  ELSE None]
    /\ scanAt' = now + Interval
    /\ UNCHANGED <<person, override, append, sweepAt, skipped, now, up>>

\* A check-in is a sighting, and brings what the agent has recorded.
Checkin(d) ==
    /\ up /\ append = None
    /\ Trouble
    /\ \E at \in (now - Late) .. (now + Skew) :
         /\ at >= 0
         /\ \/ AppendSeen({Seen(d, now), Seen(d, at)})
               /\ UNCHANGED <<person, override, append, sweepAt, skipped, now>>
            \/ AppendSeen({Seen(d, now)}) /\ \E owned \in BOOLEAN : StartBlock(d, at, owned)
    /\ UNCHANGED <<seen, cycles, reconciled, up, scanAt, since>>

Put ==
    /\ up /\ Trouble
    /\ \E l \in LevelSet : SetPerson(l) \/ SetOverride(l)
    /\ UNCHANGED <<seen, cycles, reconciled, up, scanAt, since>>

\* What the service does of its own accord.
Step ==
    /\ up
    /\ \/ ReadPolicy \/ ReadOverride \/ InsertBlock
    /\ UNCHANGED <<seen, cycles, reconciled, restVars>>

Retain ==
    /\ up
    /\ Sweep
    /\ IF skipped' = 0 THEN UNCHANGED trouble ELSE Trouble
    /\ UNCHANGED <<seen, cycles, reconciled, up, scanAt, since>>

Stop ==
    /\ up /\ Trouble
    /\ up' = FALSE
    /\ append' = None
    /\ skipped' = None
    /\ since' = [m \in Mac |-> None]
    /\ seen' = S!Nothing /\ cycles' = S!Nothing /\ reconciled' = {}
    /\ UNCHANGED <<events, person, override, sweepAt, now, scanAt>>

\* A bug the run must catch: the workers go on where they stopped.
StartGoesOn ==
    /\ ~up
    /\ up' = TRUE
    /\ UNCHANGED <<events, person, override, append, sweepAt, skipped, now, seen, cycles,
                   reconciled, scanAt, since, trouble>>

\* Both workers begin with a pass of their own.
Start ==
    /\ ~up
    /\ up' = TRUE
    /\ scanAt' = now /\ sweepAt' = now
    /\ UNCHANGED <<events, person, override, append, skipped, now, seen, cycles, reconciled,
                   since, trouble>>

\* The tickers are on time, and an append takes less than a unit of time.
Tick ==
    /\ now < MaxNow /\ append = None
    /\ up => now < scanAt /\ now < sweepAt
    /\ now' = now + 1
    /\ UNCHANGED <<events, person, override, append, sweepAt, skipped,
                   seen, cycles, reconciled, restVars>>

Next ==
    \/ Scan \/ (\E d \in Agent : Checkin(d)) \/ Put \/ Step \/ Retain
    \/ Stop \/ Start \/ Tick

Spec == Init /\ [][Next]_vars

-------------------------------------------------------------------------------
(***************************************************************************)
(* Properties.                                                             *)
(***************************************************************************)

\* Types; the workers' next passes are never in the past.
TypeOK ==
    /\ LogTypeOK
    /\ seen \in [Mac -> 0 .. MinCycles] /\ reconciled \subseteq Mac
    /\ up => scanAt \in now .. (now + Interval) /\ sweepAt \in now .. (now + Every)

\* See EventLog and Scanner.
NothingFinerIsStored == [][NoFinerThanAsked]_vars
SpentTimeStaysSpent  == [][BudgetNeverRefunded]_vars
ReconciledLate       == S!ReconciledAfterMinCycles

\* A device that every cycle sees is charged for all of the time since the
\* cycle that counted it enough, or since midnight: the scanner, the registry's
\* hook, the log and the usage query lose none of it.
PresenceCounts ==
    \A m \in Mac :
      since[m] # None /\ up =>
        UsageSince(m, Midnight) >=
          (scanAt - Interval) - Max({since[m] + (MinCycles - 1) * Interval, Midnight + Interval - 1})

===============================================================================
