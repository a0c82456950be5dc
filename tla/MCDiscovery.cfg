CONSTANTS
    laptop = laptop
    phone = phone
    aLaptop = aLaptop
    aPhone = aPhone
    uLaptop = uLaptop
    r1 = r1
    hLaptop = hLaptop
    hPhone = hPhone
    ip = ip
    Device = {d1, d2}
    Machine = {laptop, phone}
    Token = {t1}
    AgentId = {aLaptop, aPhone}
    UniversalMac = {uLaptop}
    RandomMac = {r1}
    IP = {ip}
    Hostname = {hLaptop, hPhone}
    None = None
    Stale = Stale
    Nobody = Nobody
    AgentIdOf <- MCAgentIdOf
    ScanMacs <- MCScanMacs
    AgentMacs <- MCAgentMacs
    HostnameOf <- MCHostnameOf
    PatchState = {"active"}
    Spelling = {"lower", "UPPER", "laptop", "broadcast"}
    Norm <- MCNorm
    Line <- MCLine
    MinCycles = 2
    MaxTrouble = 1
SPECIFICATION DiscoverySpec
SYMMETRY Symmetry
INVARIANTS
    DiscoveryTypeOK
    RowsAreEarned
PROPERTIES
    RegistrySpec
