CONSTANTS
    Days = 3
    Hours = 3
    HourMins = 2
    None = None
    Bad = Bad
    Paint = {"free", "school", "blocked"}
    PutPolicies <- MCPolicies
    PutOverrides <- MCOverrides
    MaxWrites = 2
    MaxStrokes = 1
    Meanwhile <- FewPolicies
SPECIFICATION Spec
INVARIANTS
    TypeOK
    ScheduleIsWeekly
    LocksAreRequired
    GridRoundTrips
PROPERTY
    EnforcesOtherDays
CHECK_DEADLOCK FALSE
