# SafePlay Guardian: a verification project in TLA+

SafePlay Guardian (the *platform*) runs at home. It learns which devices are on
the network from network scans and from agents installed on the devices, lets
the parent attach policies to children, and hands each agent the policy it has
to enforce. This directory holds TLA+ models of that program, the TLC
configurations that check them on small instances, and proofs checked by TLAPS.

    tlc -workers 2 -config MCRegistry.cfg MCRegistry      # one run
    tlapm RegistryProofs.tla                              # the proofs of a module

`PROJECT.json` lists the components, the runs with their properties, a seeded bug
(*mutant*) for each property that the run must catch, the lines of code each
definition translates, what was found, the hazards and the theorems.

## 1. The system

| Component | State | Operations | Interacts with |
|---|---|---|---|
| device registry (`internal/device`) | `devices`, `network_identities`, `pending_merges` in SQLite; no transactions | `Reconcile`, `Upsert`, `Get`, `List` | called by the scanner, the agent API and the device API concurrently; calls the observe hook |
| discovery scanner (`internal/discovery`) | how often each MAC was seen | scan cycle: snapshot sources, blend by MAC, enrich by IP, reconcile | registry |
| agent API (`internal/api/agent.go`) | none | `Register`, `Checkin` | registry, events, coordinator, resolver, agent backend |
| device API (`internal/api/devices.go`) | none | `Create`, `Patch`, `List`, `Get` | registry |
| policy (`internal/policy`, `internal/api/policy.go`) | one policy per person, one override per device, as JSON | PUT, `Merge`, `Resolve`, `RequiredCaps` | registry (owner), event log (usage) |
| schedule editor (`web/dist/js/policy-schedule.js`) | a grid of hours, the policy as loaded | load, paint, save | policy API; its blocks go to the resolver |
| enforcement (`internal/enforce`) | one queued slice per device, in memory | `Enforce`, `Apply`, `PullPending` | resolver, agent backend, no-op backend, events |
| event log (`internal/event`) | `events` | append with redaction, retention, usage and report queries | registry hook, coordinator hook, check-in, resolver |
| authentication (`internal/auth`, `internal/api/auth.go`) | users, sessions; the browsers' cookies | setup, login, logout, me, verify, purge | every dashboard request |
| other dashboard pages (`web/dist/js`) | what each tab shows, the policy as loaded | guard, first-run, login, load, save | authentication, policy API, people |
| migrations (`internal/store`) | `_migrations`, the write lock | apply the files not recorded | every start of the service |
| service lifecycle (`cmd/platform`) | goroutines, the port, the database handle | start, listen, drain, stop | everything |
| people, router, static files | `people` | insert, list, serve | first-run page |

What makes the code hard: HTTP handlers, the scanner and the retention worker
run concurrently over a database used without transactions; any statement may
fail half-way through a handler; answers to agents get lost and agents retry;
parents have several tabs open, whose pages are left, answered late and loaded before a change
they overwrite; two processes may open one database, and each is stopped with
time-outs in the middle of what it does;
the registry must infer which physical machine it hears of from signals that
move from one machine to another; the slices queued for agents are lost with the
process; and the schedule passes through two representations and two numberings
of the weekdays before it is enforced.

What makes each component correct:

* registry: two machines are never one row; one install is one row; what the
  parent is asked to merge is one machine; tokens stay with the row of the agent
  that holds them, under concurrency and failure.
* policy: the schedule means the same to the resolver at every minute of the
  week, across midnight and across the end of the week; whatever locks a screen has its
  capability required; what the editor shows is what is enforced.
* enforcement: what an answer brings was in force while it was prepared, whatever
  overlaps; whatever is lost, once things are calm every agent has the policy in force.
* event log: nothing finer than the monitoring levels allow reaches the disk;
  retention removes what is old and never what the budget still counts; usage is
  what the sightings cover, and is all of a device's presence.
* scanner: what it hands to the registry is of one machine; no device for a stray
  entry of a single cycle, whatever the spellings, failures and restarts.
* authentication and pages: accounts come from first setups only; nobody is in
  another's session; a parent who has the password gets in, whatever was lost before;
  what a page does not edit survives its save.
* migrations and lifecycle: the schema is a prefix of the migrations, each
  applied once; no request is served without its tables; an undisturbed start comes up.

## 2. Modules and their correspondence to the code

* `Registry` - the registry with one handler per atomic action. `state`, `token`, `idents`
  and `merges` are the tables; `replies` and `holds` are the answers to
  `Register` and what each agent retained. `Reconcile(obs, d)` says that the observation may be
  reconciled with row `d`: `Merge` into a `StrongMatch` or into the one
  `Confident` row, or `CreateFromObservation`. The lookups in the code have no
  `ORDER BY`, so when several rows own an identity any may be the one read.
  The physical machines are constants: each has its own agent id, MAC addresses
  and hostname; IP addresses belong to nobody. Scans and agents produce
  every observation a machine can give. Merging changes identities only; labels,
  kinds, device capabilities and `last_seen` decide nothing and are left out.
* `RegistrySteps` - the same handlers statement by statement, with `Worker`
  goroutines, a failure possible at each statement, and `Upsert` writing back
  the whole row that `Get` read. `Serial == INSTANCE Registry WITH ...` is the
  refinement mapping: a request takes effect at the statement that settles
  its row, so a settled request's remaining writes count as already done.
* `Delivery` - check-in after the token is accepted, the trigger endpoint,
  `Coordinator.Enforce`, the agent backend's queue and the agent that waits for
  an answer. Of a policy it keeps the required capabilities; `Need` are the sets of them
  that the parent's policies require. `during`, `since` and `shared` of a handler are history:
  which policies were in force while it worked, which since the oldest handler of the device that
  it met began, and whether it met another check-in of the device. It has no
  specification of its own: its actions are taken in `Platform`.
* `Migrate` - `store.Migrate` by any number of processes: read what is
  recorded, then per file the body, the record, the commit; SQLite's one writer
  is `lock`, and as neither the DSN nor the code asks for a busy time-out, who
  finds it taken fails. Files are numbers; a version `Has` the first so many.
* `Platform` composes both: `phase` is how far a process's `runService` is,
  `cancelled` whose context `Stop` has cancelled, `server` whose handlers run.
  A process that fails to migrate or to get the port stays "returned" without a
  server until it is stopped, since nothing else ends it; handlers that outlive
  the drain run on a closed database (`Closed`): their statements fail.
  `Exit` before the process is "returned" is the ten-second time-out of `Stop`,
  `Drained` before the handlers are quiet the five-second one of `Shutdown`.
* `Auth` - accounts and sessions, and each handler of `/api/auth/`, the gate and the
  redirect of `/` statement by statement. `serving[h]` is the request that
  goroutine `h` serves: where it is, from which tab, with which cookie. A password
  is represented by the browser whose parent chose it.
* `Dashboard` extends `Auth` with the browsers: `tab[t]` is the page a tab
  shows, whether it waits, and the policy as it loaded it; `Goes`, `GoesOnWith`
  and `Left` are what the scripts make of an answer. Behind the gate it has the policy API and
  `POST /api/people`. A policy is the save that last edited each rule.
* `EventLog` - `Logger.Append` with its two reads before the insert, the
  retention sweep, and `UsageSince`, the loop the budget is charged by. Sightings and blocks
  stand for all kinds.
* `Scanner` - one scan cycle over a snapshot of MAC addresses as the sources
  spell them. `cycles` is history, for the property.
* `Discovery` extends `Registry` with the scanner: `Begin` reads a table of lines, blends
  them and counts (`Scanner!Cycle`), `Visit` is one turn of the loop, with `Reconcile`, and
  requests, a failing `Reconcile` and a stop come in between. `todo` has every observation
  that the unknown order of the lines leaves open, of which one per address is reconciled.
  `established` and `called` are history. `Spec` of `Registry` is its abstract specification.
* `Activity` composes `EventLog` and an instance of `Scanner` through the
  registry's observe hook, with check-ins, stops and starts of the service.
* `Policy` - `Merge`, `evalSchedule`, the budget and `RequiredCaps`, and the PUTs
  that change their inputs. Local time is the input of `Resolve`; the timezone
  lookup, the monitoring level and the contents of the block lists are left out.
* `ScheduleEditor` extends `Policy` with the schedule page: `BlocksToGrid`,
  `PaintDay`, `GridToBlocks`, `Save`. Schedules are sets of blocks: the order
  matters only to blocks that overlap in the grid, which neither one block nor the
  blocks of a grid do. Equal runs of consecutive days, which the page groups into one block
  with several weekdays, are kept as separate blocks.

`RegistryProofs`, `RegistryStepsProofs`, `DiscoveryProofs`, `PlatformProofs`,
`ScheduleEditorProofs`, `DashboardProofs` and `ActivityProofs` hold the theorems (section 4);
`Arithmetic` has the facts about integers that several of them use.
The modules whose names begin with MC give the constants their values for TLC. The definitions introduced
by "A bug the run must catch" are the mutants: nothing in the models uses them.

## 3. The runs

| Run | Checks | Bounds |
|---|---|---|
| `registry` | `TypeOK`, `NoFalseMerge`, `AgentOwnedOnce`, `OneDevicePerSteadyMachine`, `MergeCandidatesAreOneMachine` | a laptop and a phone, 3 rows, 2 tokens, 1 IP address, 2 randomized MACs, patches to one state |
| `registry_steps` | `TypeOKSteps`, `NoFalseMerge`, `TokenNeverCrosses`, `MergeCandidatesAreOneMachine` | 2 workers, `MaxRequests` = 3, statements may fail |
| `registry_serial` | `SerialSpec` | 1 worker, no failure, one phone, `MaxRequests` = 4 |
| `discovery` | `DiscoveryTypeOK`, `RowsAreEarned`, `RegistrySpec` | a laptop and a phone behind one IP address, 5 table lines of which two spell the phone's MAC differently, 2 rows, 1 token, `MinCycles` = 2, `MaxTrouble` = 1 |
| `delivery` | `TypeOK`, `AnswersOfTheirTime`, `SchemaIsPrefix`, `ServedWhole`, `Converges`, `ComesUp` | processes of two versions with 1 and 2 migrations, an enrolled device, 2 handlers, 2 capabilities and policies that require none or one of them, `MaxTrouble` = 3 |
| `schedule_editor` | `TypeOK`, `ScheduleIsWeekly`, `LocksAreRequired`, `GridRoundTrips`, `EnforcesOtherDays` | a week of 3 days of 3 hours of 2 minutes, `MaxWrites` = 2, `MaxStrokes` = 1 |
| `dashboard` | `TypeOK`, `SessionsAreOwn`, `NoDuplicateChild`, `OneChance`, `ParentGetsIn`, `OnlyStalePagesUndo` | 2 tabs of one or of two parents, 3 goroutines, 2 names and one with a blank, 2 rules, `Lifetime` = 1, `MaxSaves` = 2, `MaxTrouble` = 1 |
| `activity` | `TypeOK`, `AgeBounded`, `UsageIsCovered`, `ReconciledLate`, `PresenceCounts`, `NothingFinerIsStored`, `SpentTimeStaysSpent` | a device the scanner sees in two spellings and one with an agent, days of 4 units, `Gap` = 3, `Window` = 4, `Every` = 2, `Interval` = 2, `MinCycles` = 2, clocks 1 ahead or behind, `MaxNow` = 7, `MaxTrouble` = 2 |

Why these bounds are enough to be interesting. Three rows are what a pending
merge needs (a source and two candidates), one IP address means every machine
has had it, and the phone's MAC rotates, which is what makes weak matches
ambiguous; a third machine adds no new kind of conflict, since every conflict is
between two. When all rows are used no observation that needs one is served:
that, and the limits on requests, is why these runs do not check deadlock. In
`registry_steps` two requests prepare the state in which the third interleaves
with the second. In `discovery` the one disturbance is a
restart or a failed `Reconcile`; two lines of the phone in one cycle, or one on either side of the
restart, are what could wrongly add up to `MinCycles`. Three days are the fewest in which the day before and the day
after differ; three hours give a run that touches neither midnight; two minutes
give a block that does not start on the hour. Painting changes one day at a time: runs
never cross midnight, so days are independent in the editor, and the loaded
schedules already differ from day to day.
In `delivery`, three disturbances are what it takes to start a second process
beside the first, stop one of them and have a statement fail; they are also two changes of
the policy and a trigger, or a change, a trigger and an agent that gives up, which is how a
slice comes to be older than the answer that hands it out. One device is enough for that: the queue is kept
per device, handlers of different devices have nothing in common, and for a device without an
agent nothing is queued; the theorems are for any number. The older process has one migration,
so that each may find the database behind, up to date or ahead. In `dashboard`
two saves are a change and one that overwrites it; two parents who type the same
name, different names or a name with a blank are the ways two setups can
collide; one disturbance (a failed statement, a lost answer, a page left, an
expiry, a logout, a restart) can meet every state of two concurrent requests, and a
third goroutine serves what a page that was left had asked for. In `activity`
the window is a day, as short as it may be; a day has two scans, `MaxNow` ends in
the second day, so that midnight, a sweep that deletes and a clock on the wrong
side of midnight all happen, and two disturbances are a check-in with a change of levels
during it, a failure followed by a stop, or two check-ins.
Symmetry is used for rows, tokens and workers, in runs that check safety only.

`delivery`, `dashboard` and `activity` do not check deadlock either: a service that
has been stopped, a parent who is in, and time that has reached its bound may stay so.

Fairness. `Platform`: a process that has begun goes on (`WF` on `Live`), so does
a handler (`WF` on `Handle`): Go schedules every goroutine, and none of
these steps waits for another request. An enrolled agent that is not waiting checks in again
while a server listens (`WF`): the check-in interval is part of every answer
and its only purpose. Nobody is obliged to start a process, and nothing is assumed
of policy changes, failures, time-outs, stops and crashes except that there are
finitely many (`MaxTrouble`): `Converges` speaks of what happens after, if a
server stays up, and `ComesUp` of a start that none of them meets. `Dashboard`:
a handler goes on and its answer arrives, a page runs its script when it is
opened, and a parent fills in a form that is shown (`WF`); a parent whom a page has refused,
again and again, starts over at the dashboard's address at some time (`SF`). A
parent who only ever resubmits a refused first-run form never gets in, and so
the stronger fairness is stated of `StartOver` and of nothing else. `Activity`,
`Discovery` and the registry have safety properties only.

What the properties do not say is as important. `AnswersOfTheirTime` says what the agent is told,
and not that policy and capabilities of an answer belong together: handlers of one device that overlap may
hand each other their slices. Its exception is what the code does, too: a policy that requires
nothing makes `Enforce` call no backend, so it neither replaces nor revokes a slice
that a trigger or a failed check-in has left in the queue, and the next check-in hands
it out however old it is. `Converges` says that this does not last. `OneChance` says that
accounts come from setups that arrived when there was none; two of those can both
succeed. `OnlyStalePagesUndo` says that a save undoes another rule only if that was
changed after the page was loaded; from a stale page it does.
`NothingFinerIsStored` says that a block has nothing that no level set during its
append allows; which of these levels decides, when one cannot be read, it leaves open.
`ParentGetsIn` excepts a parent whose name somebody else's first setup took, and names
typed with blanks around them: setup creates the account under the trimmed name and
then signs in under the untrimmed one.

Abstractions in them. The tickers of the scanner and of the retention worker are
on time, and an append takes less than a unit of time. The port's next owner comes
up only after the handlers of the last one have gone. A request that only reads
ends when nobody waits for it any more; one that writes runs on, and each of its
statements may fail at no cost in disturbances, because net/http cancels the context of a
request whose client has gone (so does a check-in that its agent has given up). `Verify` and
`HasUsers` of one request are one step, and so are the two statements of `Login`:
nothing that happens in between changes what they find. Times are compared as
instants, although the database compares the text the driver makes of them.

Four runs end in a violation, each of one property that a comment, a test or a
migration of the repository states and the code does not keep:

* `strong_identifiers`: a universal MAC ends up with two rows, although
  `migrations/002_phase2.sql` calls it effectively unique.
* `replay`: repeating an ambiguous observation is no no-op, as
  `registry_test.go` has it, but adds a row and a pending merge every time.
* `register_token`: two concurrent registrations rotate the token, which
  `agent.go` says registering does not.
* `full_day`: a day painted in one kind is saved as 00:00-00:00 and not
  enforced; `policy-schedule.js` says the resolver evaluates its blocks identically.

One more is one guard, which needs no run: `resolver.go:90` takes a budget of zero minutes for no
limit (`BudgetSpent`), where `model.go:18` says "Zero means no time allowed that day".

## 4. What is proved

`RegistryProofs` proves, for any number of rows, machines, tokens and
identities, of the specification `Registry!Spec`:

* `TypeCorrect`: `Spec => []TypeOK`.
* `NeverFalselyMerged`: `Spec => []NoFalseMerge`. `NoFalseMerge` alone is
  not inductive: the token tier merges into whatever row has the token presented,
  so the proof needs that the row with a token an agent was ever answered with is
  that agent's own (`TokensAreOwn`), and for that no two rows may have
  the same token (`TokensAreUnique`). The inductive invariant is
  `IInv == TypeOK /\ NoFalseMerge /\ TokensAreOwn /\ TokensAreUnique`.
  The heart of it is `ConfidentIsOwn`: of two different weak signals of one
  observation at most one is an IP address, so the other one is a signal of
  the machine itself.
* `AgentNeverSplit`, `SteadyNeverSplit`, `MergesOfferOneMachine`: the other three
  invariants of the run, each from `IInv` and what it adds.

Assumptions: the kinds of identities are disjoint, every machine has signals, and no
two machines share a signal other than an IP address (`MachinesAreDistinct`): a
household with two devices of the same hostname is outside these theorems, and
so are agents that report somebody else's identity.

`RegistryStepsProofs` proves of `SpecSteps`, under the same assumptions, for any number of
workers and with a failure possible at every statement:

* `StepsTypeCorrect`, `StepsNeverFalselyMerge`, `TokensNeverCross` and
  `StepsMergesOfferOneMachine`, one for each invariant of `registry_steps`. Here
  a row changes between the statements of a request, and `Upsert` may write a token
  back that another request has replaced. The invariant rests on what is never taken
  back: a row never loses an identity, and an answer that was sent is sent. So
  `RowInv` can say that the row a request has settled on is its machine's and stays so, with
  every hit of its weak lookups still true (`HitsAreReal`), and `TokenInv` that a token belongs to
  one row, counting the rows to which some request is about to write it back (`HasOrGets`).
  A token that has been drawn and not yet stored is nobody else's (`DrawnAreFresh`).

* `OneAtATimeIsSerial`: `SpecSteps => SerialSpec` for one worker whose statements do not
  fail. `Registry` sees the rows together with what the request still owes them (`SettledToken`,
  `SettledIdents`), so the statement that settles on a row is the whole operation, and the lookups
  before it and the writes after it are stutters. That needs to know what a request has behind it:
  `SerialInv` says that the tiers passed still have no owner (`TiersPassed`), that the hits so far are
  those the whole lookup would give (`HitsSoFar`), and that the row read for a write-back is still as
  it was read (`ReadIsCurrent`). Each fails as soon as another request runs between two
  statements: what goes wrong in `RegistrySteps` and not in `Registry` is due to interleaving or
  failure. An answer that arrives in between is the token the agent has, as an agent owns one row
  (`OneRowPerAgent`) and that row keeps its token (`AnswersStand`).

`DiscoveryProofs` proves of `DiscoverySpec`, for any table, threshold, number of restarts and
household that `Registry` is proved for:

* `ScannerImplementsScan`: `DiscoverySpec => RegistrySpec`, and so what `RegistryProofs` says of
  `Registry` holds with the real scanner (`ScannerNeverFalselyMerges`). The lines that a cycle blends have one
  MAC address, hence one machine (`BlendIsOfOneMachine`); `DiscoveryInv` keeps that
  of what the loop has still to do.
* `DiscoveryTypeCorrect`, and `RowsAlwaysEarned`: `DiscoverySpec => []RowsAreEarned`. It needs that what is
  to do was in enough tables (`CycleCounts`), and, of the registry, that reconciling an observation of one
  machine adds nothing of another's to any row (`ReconcileAddsOwn`, from `IInv`, which the implementation
  theorem brings over).

They rest on `LinesAreOfMachines`: every address in a table is some machine's, and the name in a line is
that machine's. The system's resolver looks names up by IP address; with one it remembers
for an address that has changed hands, IP address and name are a single signal that counts
as two, and these theorems say nothing.

`PlatformProofs` proves of `Platform!Spec`, for any number of processes,
versions, migrations, handlers and devices:

* `TypeCorrect`, `AnswersAreOfTheirTime`, `MigrateCorrect` and `ServedCorrect`, one for each safety
  invariant of the run. `AnswersOfTheirTime` follows from what the queue may hold
  while a check-in is at work: once its own slice is queued, whatever is queued, by itself or a handler
  that overlaps, was in force since the oldest of them began, or it has been pulled by another
  check-in (`Timely`). For that, handlers of one device that are at work together
  must know of each other's policies (`Beside`) (a handler that begins
  takes those of whoever it meets into `since`). `SchemaIsPrefix` needs to know how far a process may trust
  the names it read at first, while others record more: `MigInv` says that
  whatever it has behind it is recorded (`RestIsRecorded`), that it goes by the order of the
  files (`InOrder`), that whoever is in a transaction has the write lock
  (`HoldsLock`), and that a name found free stays free until the commit
  (`NameIsFree`). `ServedWhole` follows because nobody is served by a
  process that was not "done" (`LifeInv`), and records are never taken back.

`ScheduleEditorProofs` proves of `ScheduleEditor!Spec`, which includes the PUTs of `Policy`, for a
week of any number of days (two at least), hours and minutes:

* `EditorTypeCorrect`; `LocksAreAlwaysRequired`, by cases on what each rule is merged from.
* `SchedulesAreWeekly`: `evalSchedule` looks at the weekday and the one before and compares
  times of day; `ScheduleIsWeekly` goes round the circle of the whole week. The proof
  (`BlockIsWeekly`) takes the three ways apart in which a block can lie: within its day, past
  midnight, and past the end of the week.
* `GridAlwaysRoundTrips` and `OtherDaysAreEnforced`: an hour of a grid lies in exactly one
  block that is saved, that of its run (`SavedBlocks`), which needs that every hour has a
  first and a last hour of its run: the least, and the greatest, of a set of naturals
  (`Arithmetic!LeastNatural`, from the well-foundedness of `<`).
  `OtherDaysAreEnforced` is proved for a `None` that is not itself a set of blocks.

`DashboardProofs` proves of `Dashboard!Spec`, for any number of browsers, tabs, handlers,
names, rules and disturbances:

* `DashboardTypeCorrect`, `SessionsAlwaysOwn`, `NeverADuplicateChild`, and the action properties
  `SetupHasOneChance` and `OnlyStalePagesEverUndo`. The invariant `DashInv` says what a request on
  its way stands for: it is of the parent whose tab sent it and whose tab waits for it (`WaitInv`);
  an answer that signs in brings a token of that parent's account (`OwnInv`); a setup
  that still may create an account came when there was none (`EarlyInv`); and the children
  and the requests that may still add one (`Owing`) are together no more than the accounts
  (`ChildInv`). The steps of the handlers are first classified by what they do to the
  request (`StepKinds`), so that each part of the invariant looks at a few kinds of
  step and not at every statement of every handler.
* They hold under `TokensLast`: browsers and handlers are finitely many and tokens are not.
  The code draws 32 random bytes and never looks whether a token is
  taken, so that "there is always one that nobody has" is what it, too, relies on.

`ActivityProofs` proves of `Activity!Spec`, for any lengths of day, window, interval and
skew, and any levels and attributes:

* `AgeCorrect`: `Spec => []AgeBounded`. How old an event gets is decided at the next
  sweep, so the invariant `AgeInv` speaks of `sweepAt`, not of `now`.
* `RedactionCorrect`: `Spec => NothingFinerIsStored`, an action property. `LevelInv`: the
  level that an append has arrived at allows nothing that no level set since it began allows.
  It needs that the least level allows no more than any other (`LogAssumption`).
* `ActivityTypeCorrect`, `NeverReconciledEarly`: what the scanner counts of an address is the number of
  cycles that had it, whatever spellings and repetitions (`ScanInv`).

and, in its second half, of the usage query:

* `UsageCountsCovered`: for every finite set of times, the loop of `UsageSince` over the
  sorted rows computes the size of the set of moments that lie between two
  sightings less than the gap apart. That the rows have an order is that as many ranks
  are taken as there are rows (`RankIsTaken`); that the running total is what it should
  be is shown by looking at the first row where it is not (`TotalIsUnique`), which
  takes the place of an induction.
* `UsageAlwaysCovered`: so it is in every state, the log being finite (`SightInv`).
* `SpentTimeIsNotRefunded`: `Spec => SpentTimeStaysSpent`. More sightings never cover less, and
  retention takes none of today's away: a sighting's clock is ahead by `Skew` at
  most (`SightInv`), and the window is no shorter than a day and that
  (`ActivityAssumption`).
* `PresenceAlwaysCounts`: `Spec => []PresenceCounts`. `PresenceInv` says of a device that every cycle since
  `since[m]` has seen where those cycles were, how often it has been counted, and that each
  cycle from the `MinCycles`-th on is in the log unless it was a day ago.
  It assumes an interval shorter than the gap.

`Activity` has an assumption that these proofs made explicit: devices are finitely many.

Only model-checked: the liveness properties `Converges`, `ComesUp` and `ParentGetsIn` (liveness
and ENABLED are out of the prover's reach). Every other property of a run that passes is a theorem.

## 5. What is not modelled, and the plan

Nothing of the plan is left. Not modelled, and why:

* Password hashing, JSON, HTTP routing, static files, flags, logging, the
  subcommands that talk to the service manager: no state of the platform's own.
* How the ARP parser takes a line apart, and the ping sweep: input from the operating system. The
  enrichment by mDNS: `main.go` builds the source without a lookup, so it adds nothing. With one,
  names would be joined to MAC addresses by IP address alone, which is what the mutant of
  `RegistrySpec` does.
* The reports' `ScreenTimePerDay` and `UsageByDevice`. They group by `date(at)`, which is the UTC day,
  where the budget starts at midnight in the policy's time zone; they add up
  differences of `julianday()`, floating-point numbers made of the text the driver stores, and
  truncate the sums with `int()`. What a report shows may so differ from what the budget charges by the
  zone and by the rounding, and a model on one grid of integers would hide just that.
* `Recent` and `TopBlocks`: they list and count rows.
* The home, child, devices and reports pages: they show data, and each PATCH they send is
  `Patch` of the device API, which `Registry` and `RegistrySteps` have.
* The text in which the SQLite driver stores and compares times: not part of the
  repository.
* What becomes of the service manager's view of a process that lives on without a server.
