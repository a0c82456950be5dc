------------------------------- MODULE EventLog -------------------------------
(***************************************************************************)
(* The event log (internal/event): what Logger.Append lets reach the disk  *)
(* under the monitoring level in force, what the retention worker takes    *)
(* away, and what UsageSince makes of the sightings.                       *)
(*                                                                         *)
(* An append reads the person's policy, then the device's override, then   *)
(* inserts: the parent may store other levels between these statements.    *)
(* Sightings (device_seen) and blocks stand for all kinds: only sightings  *)
(* count as usage, and only blocks are redacted.                           *)
(***************************************************************************)
EXTENDS Integers, FiniteSets

CONSTANTS
    Device,
    Level,          \* monitoring levels
    Attr,           \* attributes of a block
    Allows,         \* [Level -> the attributes that Redact leaves]
    Least,          \* the level when none is set: enforcement_only
    None,
    DayLen,         \* units of time in a day
    Gap,            \* sightings further apart do not count: 5 minutes
    Window, Every,  \* of the retention worker
    MaxNow          \* bound on time

ASSUME LogAssumption ==
    /\ Least \in Level /\ None \notin Level
    /\ Allows \in [Level -> SUBSET Attr]
    /\ \A l \in Level : Allows[Least] \subseteq Allows[l]
    /\ DayLen \in Nat \ {0} /\ Gap \in Nat \ {0}
    /\ Window \in Nat \ {0} /\ Every \in Nat \ {0}
    /\ MaxNow \in Nat

VARIABLES
    events,     \* the table
    person,     \* the level of the person's policy, None: not set
    override,   \* the level of the reporting device's override, None: not set
    append,     \* the append of a block that is under way, or None
    sweepAt,    \* when the retention worker sweeps next
    skipped,    \* sweeps failed since one succeeded; None: none has, so far
    now

logVars == <<events, person, override, append, sweepAt, skipped, now>>

LevelSet == {None} \union Level

LogInit(ofPerson, ofDevice) ==
    /\ events = {}
    /\ person = ofPerson /\ override = ofDevice
    /\ append = None
    /\ sweepAt = 0 /\ skipped = None
    /\ now = 0

-------------------------------------------------------------------------------
(***************************************************************************)
(* Logger.Append.                                                          *)
(***************************************************************************)

Seen(d, at) == [kind |-> "device_seen", device |-> d, at |-> at, recorded |-> now, attrs |-> {}]

\* Redact leaves the sightings alone, so whatever level is read for them.
AppendSeen(seen) == events' = events \union seen

\* asked: the levels set at some time during the append (history).
StartBlock(d, at, owned) ==
    /\ append = None
    /\ append' = [pc |-> IF owned THEN "policy" ELSE "insert", device |-> d, at |-> at,
                  level |-> Least, asked |-> {person, override}]
    /\ UNCHANGED <<person, override, sweepAt, skipped, now>>

Appending(pc) == append # None /\ append.pc = pc

\* A failed read of the policy leaves the least level.
ReadPolicy ==
    /\ Appending("policy")
    /\ \/ append' = [append EXCEPT !.pc = "override", !.level = IF person = None THEN Least ELSE person]
       \/ append' = [append EXCEPT !.pc = "insert"]
    /\ UNCHANGED <<events, person, override, sweepAt, skipped, now>>

\* A failed read of the override is ignored: the person's level stands.
ReadOverride ==
    /\ Appending("override")
    /\ \/ append' = [append EXCEPT !.pc = "insert", !.level = IF override = None THEN @ ELSE override]
       \/ append' = [append EXCEPT !.pc = "insert"]
    /\ UNCHANGED <<events, person, override, sweepAt, skipped, now>>

\* A bug the run must catch: metadata is not redacted.
RedactLeast(attrs, level) == IF level = Least THEN attrs \intersect Allows[level] ELSE attrs

Redact(attrs, level) == attrs \intersect Allows[level]

Block(a) == [kind |-> "block", device |-> a.device, at |-> a.at, recorded |-> now,
             attrs |-> Redact(Attr, a.level)]

InsertBlock ==
    /\ Appending("insert")
    /\ \/ events' = events \union {Block(append)}
       \/ UNCHANGED events
    /\ append' = None
    /\ UNCHANGED <<person, override, sweepAt, skipped, now>>

\* PUT of a policy, of an override.
Ask == append' = IF append = None THEN None
                 ELSE [append EXCEPT !.asked = @ \union {person', override'}]

SetPerson(l) ==
    /\ person' = l /\ UNCHANGED override /\ Ask
    /\ UNCHANGED <<events, sweepAt, skipped, now>>

SetOverride(l) ==
    /\ override' = l /\ UNCHANGED person /\ Ask
    /\ UNCHANGED <<events, sweepAt, skipped, now>>

-------------------------------------------------------------------------------
(***************************************************************************)
(* RunRetention.                                                           *)
(***************************************************************************)

\* A bug the run must catch: what is kept goes by the clock of the device.
KeptByDeviceClock == {e \in events : e.at >= now - Window}

\* A bug the run must catch: RunRetention's two durations swapped.
KeptSwapped == {e \in events : e.recorded >= now - Every}

\* DeleteOlderThan.
Kept == {e \in events : e.recorded >= now - Window}

Sweep ==
    /\ now = sweepAt
    /\ \/ events' = Kept /\ skipped' = 0
       \/ UNCHANGED events /\ skipped' = IF skipped = None THEN None ELSE skipped + 1
    /\ sweepAt' = now + Every
    /\ UNCHANGED <<person, override, append, now>>

-------------------------------------------------------------------------------
(***************************************************************************)
(* Queries.                                                                *)
(***************************************************************************)

Times(d, since) ==
    {e.at : e \in {x \in events : x.kind = "device_seen" /\ x.device = d /\ x.at >= since}}

\* A bug the run must catch: a gap of exactly five minutes counts.
ChainsTo(d) == d > 0 /\ d <= Gap

Chains(d) == d > 0 /\ d < Gap

\* ORDER BY at.
InOrder(times) ==
    [i \in 1 .. Cardinality(times) |->
       CHOOSE t \in times : Cardinality({x \in times : x < t}) = i - 1]

\* One pass over the rows, in order: from the second on, each adds its gap.
Usage(times) ==
    LET at == InOrder(times)
        gap(i) == IF i > 1 /\ Chains(at[i] - at[i - 1]) THEN at[i] - at[i - 1] ELSE 0
        total[i \in 0 .. Cardinality(times)] == IF i = 0 THEN 0 ELSE total[i - 1] + gap(i)
    IN  total[Cardinality(times)]

UsageSince(d, start) == Usage(Times(d, start))

\* In the policy's timezone, which time is counted in here.
Midnight == now - (now % DayLen)

-------------------------------------------------------------------------------
(***************************************************************************)
(* Properties.                                                             *)
(***************************************************************************)

LogTypeOK ==
    /\ \A e \in events :
         /\ e.kind \in {"device_seen", "block"} /\ e.device \in Device
         /\ e.recorded \in 0 .. now /\ e.attrs \subseteq Attr
    /\ person \in LevelSet /\ override \in LevelSet
    /\ append = None \/ (append.level \in Level /\ append.pc \in {"policy", "override", "insert"})

\* What a block is stored with is allowed by a level that the person's policy
\* or the override had at some time during the append.  (Not by the level in
\* force at one moment: the two are read one after the other, and when the
\* override cannot be read the person's level stands in for it.)  Redact and
\* Logger.effectiveLevel: nothing finer than was ever asked for is stored.
NoFinerThanAsked ==
    \A e \in events' \ events :
      \A x \in e.attrs :
        \E l \in append.asked : x \in Allows[IF l = None THEN Least ELSE l]

\* No event stays longer than the window and one interval, plus an interval
\* for each sweep that failed: the "maximum age" of retention.go.
AgeBounded ==
    skipped # None => \A e \in events : now - e.recorded <= Window + Every * (1 + skipped)

\* What the time budget is charged with never shrinks before midnight, with
\* late and early device clocks and the retention worker at work: time spent
\* is not handed out again.  UsageSince, DeleteOlderThan, Resolver.
BudgetNeverRefunded ==
    \A d \in Device :
      Midnight' = Midnight => UsageSince(d, Midnight)' >= UsageSince(d, Midnight)

\* UsageSince, a loop over sorted rows, counts exactly the units of time with
\* a sighting before and one after them that are less than the gap apart.
Covered(times) ==
    UNION {p[1] .. p[2] - 1 : p \in {q \in times \X times : q[2] - q[1] < Gap}}

UsageIsCovered ==
    \A d \in Device :
      UsageSince(d, Midnight) = Cardinality(Covered(Times(d, Midnight)))

===============================================================================
