SPECIFICATION Spec
CONSTANTS
    None = None
    Nobody = Nobody
    Device = {"tv", "tablet"}
    Mac = {"tv"}
    Agent = {"tablet"}
    Spelling = {"tv", "TV", "broadcast"}
    Norm <- Normalised
    Level = {"enforcement_only", "metadata", "granular"}
    Attr = {"capability", "category", "value"}
    Allows <- Allowed
    Least = "enforcement_only"
    DayLen = 4
    Gap = 3
    Window = 4
    Every = 2
    Interval = 2
    MinCycles = 2
    Skew = 1
    Late = 1
    MaxNow = 7
    Stored <- InitialLevels
    MaxTrouble = 2
INVARIANTS
    TypeOK
    AgeBounded
    UsageIsCovered
    ReconciledLate
    PresenceCounts
PROPERTIES
    NothingFinerIsStored
    SpentTimeStaysSpent
CHECK_DEADLOCK FALSE
