-------------------------------- MODULE Policy --------------------------------
(***************************************************************************)
(* What a device may do now (internal/policy): the person's policy, the    *)
(* device's override, and the resolver that merges them and decides at a   *)
(* local time whether the screen is locked and which enforcement           *)
(* capabilities a backend must offer.                                      *)
(*                                                                         *)
(* A week has Days days of Hours hours of HourMins minutes (7, 24 and 60   *)
(* in the code).  The resolver's input is the local weekday and minute;    *)
(* timezone, monitoring level and the content lists themselves are left    *)
(* out, but for the capabilities the lists require.                        *)
(***************************************************************************)
EXTENDS Integers

CONSTANTS
    Days, Hours, HourMins,
    None,           \* an absent rule, a nil pointer
    Bad,            \* a time of day that parseHM refuses
    PutPolicies,    \* the policies and overrides the API is sent: every value
    PutOverrides,   \* of Rules in the code, a bound in TLC
    MaxWrites       \* bound: the number of PUTs

Day    == 0 .. Days - 1
Hour   == 0 .. Hours - 1
DayLen == Hours * HourMins
Minute == 0 .. DayLen - 1

Kind       == {"free", "school", "blocked", "bedtime"}
Block      == [kind : Kind, weekdays : SUBSET Day, start : Minute \union {Bad},
               end : Minute \union {Bad}]
ContentCap == {"domain_block", "app_block"}

\* A policy, an override or the merge of both: None for a rule that is absent.
\* The order of the blocks does not matter to the resolver.
Rules == [schedule : {None} \union SUBSET Block, budget : {None} \union [Day -> Nat],
          content : {None} \union SUBSET ContentCap]

ASSUME PolicyAssumption ==
    /\ Days \in Nat \ {0, 1} /\ Hours \in Nat \ {0} /\ HourMins \in Nat \ {0}
    /\ Bad \notin Minute
    /\ PutPolicies \subseteq Rules /\ PutOverrides \subseteq Rules
    /\ MaxWrites \in Nat

VARIABLES
    assigned,   \* whether the device belongs to the person
    policy,     \* the person's policy, or None
    override,   \* the device's override, or None
    writes      \* the number of PUTs so far

-------------------------------------------------------------------------------
(***************************************************************************)
(* The resolver.                                                           *)
(***************************************************************************)

\* A rule the override sets replaces the policy's.
Merge(p, o) ==
    IF p = None /\ o = None THEN None
    ELSE [rule \in {"schedule", "budget", "content"} |->
             IF o # None /\ o[rule] # None THEN o[rule]
             ELSE IF p # None THEN p[rule] ELSE None]

Locks(kind) == kind \in {"blocked", "bedtime"}

\* evalSchedule skips a block it cannot read, and one that starts when it ends.
Evaluated(b) == Locks(b.kind) /\ b.start # Bad /\ b.end # Bad /\ b.start # b.end

\* A bug the run must catch: the early hours are looked up on the same day.
CoversSameDay(b, wd, cur) ==
    IF b.start < b.end
      THEN wd \in b.weekdays /\ b.start <= cur /\ cur < b.end
      ELSE wd \in b.weekdays /\ (b.start <= cur \/ cur < b.end)

\* A block that ends before it starts wraps past midnight, into the next day.
Covers(b, wd, cur) ==
    IF b.start < b.end
      THEN wd \in b.weekdays /\ b.start <= cur /\ cur < b.end
      ELSE \/ wd \in b.weekdays /\ b.start <= cur
           \/ (wd + Days - 1) % Days \in b.weekdays /\ cur < b.end

EvalSchedule(s, wd, cur) == s # None /\ \E b \in s : Evaluated(b) /\ Covers(b, wd, cur)

\* A budget of zero minutes is no budget, although model.go says "no time
\* allowed that day".
BudgetSpent(budget, wd, used) == budget # None /\ budget[wd] > 0 /\ used >= budget[wd]

\* A bug the run must catch: only the first weekday is looked at.
RequiredCapsOfSunday(rules) ==
    {c \in {"schedule_block"} : rules.schedule \notin {None, {}}}
    \union {c \in {"time_budget"} : rules.budget # None /\ rules.budget[0] > 0}
    \union IF rules.content = None THEN {} ELSE rules.content

RequiredCaps(rules) ==
    {c \in {"schedule_block"} : rules.schedule \notin {None, {}}}
    \union {c \in {"time_budget"} : rules.budget # None /\ \E d \in Day : rules.budget[d] > 0}
    \union IF rules.content = None THEN {} ELSE rules.content

Free == [locked |-> FALSE, reason |-> "", caps |-> {}]

\* At local weekday wd and minute cur, when the device has been used for used
\* minutes since midnight.
Resolve(wd, cur, used) ==
    LET rules == Merge(policy, override)
    IN  IF ~ assigned \/ rules = None THEN Free
        ELSE LET reason == IF EvalSchedule(rules.schedule, wd, cur) THEN "schedule"
                           ELSE IF BudgetSpent(rules.budget, wd, used) THEN "time_budget_exceeded"
                           ELSE ""
             IN  [locked |-> reason # "", reason |-> reason, caps |-> RequiredCaps(rules)]

-------------------------------------------------------------------------------
(***************************************************************************)
(* The handlers that change its inputs.                                    *)
(***************************************************************************)

InitPolicy == assigned = FALSE /\ policy = None /\ override = None /\ writes = 0

Write == writes < MaxWrites /\ writes' = writes + 1

\* PUT /people/{id}/policy stores the body as it is.
PutPersonPolicy(p) ==
    /\ Write
    /\ policy' = p
    /\ UNCHANGED <<assigned, override>>

\* PUT /devices/{id}/override.
PutDeviceOverride(o) ==
    /\ Write
    /\ override' = o
    /\ UNCHANGED <<assigned, policy>>

\* PATCH /devices/{id} with the person.
Assign ==
    /\ assigned' = TRUE
    /\ UNCHANGED <<policy, override, writes>>

NextPolicy ==
    \/ \E p \in PutPolicies : PutPersonPolicy(p)
    \/ \E o \in PutOverrides : PutDeviceOverride(o)
    \/ Assign

-------------------------------------------------------------------------------
(***************************************************************************)
(* Properties.                                                             *)
(***************************************************************************)

TypeOKPolicy ==
    /\ assigned \in BOOLEAN
    /\ policy \in {None} \union Rules
    /\ override \in {None} \union Rules
    /\ writes \in 0 .. MaxWrites

\* What a block says on the circle of the week: from its start on each of its
\* weekdays, for as long as it takes the clock to get from start to end.
Length(b) == (b.end - b.start) % DayLen

InBlock(b, wd, cur) ==
    \E d \in b.weekdays : ((wd - d) * DayLen + cur - b.start) % (Days * DayLen) < Length(b)

\* evalSchedule, which looks at one weekday and the one before, agrees with
\* that at every minute of the week: across midnight and across the week's end.
ScheduleIsWeekly ==
    policy # None /\ policy.schedule # None =>
        \A wd \in Day, cur \in Minute :
            EvalSchedule(policy.schedule, wd, cur) <=>
                \E b \in policy.schedule :
                    /\ Locks(b.kind) /\ b.start # Bad /\ b.end # Bad
                    /\ InBlock(b, wd, cur)

\* model.go: RequiredCaps is "derived from rule presence (not 'is the rule
\* firing right now')".  Whatever fires has its capability required, whichever
\* of policy and override it comes from: the coordinator hands it to a backend
\* or reports the gap.
LocksAreRequired ==
    \A wd \in Day, cur \in Minute, used \in 0 .. 2 :
        LET r == Resolve(wd, cur, used)
        IN  /\ r.reason = "schedule" => "schedule_block" \in r.caps
            /\ r.reason = "time_budget_exceeded" => "time_budget" \in r.caps

===============================================================================
