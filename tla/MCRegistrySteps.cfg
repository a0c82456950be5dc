CONSTANTS
    laptop = laptop
    phone = phone
    aLaptop = aLaptop
    aPhone = aPhone
    uMac = uMac
    r1 = r1
    r2 = r2
    hLaptop = hLaptop
    hPhone = hPhone
    Device = {d1, d2, d3}
    Worker = {w1, w2}
    MayFail = TRUE
    MaxRequests = 3
    Machine = {laptop, phone}
    Token = {t1, t2}
    AgentId = {aLaptop, aPhone}
    UniversalMac = {uMac}
    RandomMac = {r1, r2}
    IP = {ip}
    Hostname = {hLaptop, hPhone}
    None = None
    Stale = Stale
    AgentIdOf <- MCAgentIdOf
    ScanMacs <- MCScanMacsOne
    AgentMacs <- MCAgentMacs
    HostnameOf <- MCHostnameOf
    PatchState = {"retired"}
SPECIFICATION SpecSteps
SYMMETRY Symmetry
INVARIANTS
    TypeOKSteps
    NoFalseMerge
    TokenNeverCrosses
    MergeCandidatesAreOneMachine
CHECK_DEADLOCK FALSE
