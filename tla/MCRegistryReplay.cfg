CONSTANTS
    laptop = laptop
    phone = phone
    aLaptop = aLaptop
    aPhone = aPhone
    uLaptop = uLaptop
    r1 = r1
    r2 = r2
    hLaptop = hLaptop
    hPhone = hPhone
    Device = {d1, d2, d3}
    Machine = {laptop, phone}
    Token = {t1, t2}
    AgentId = {aLaptop, aPhone}
    UniversalMac = {uLaptop}
    RandomMac = {r1, r2}
    IP = {ip}
    Hostname = {hLaptop, hPhone}
    None = None
    Stale = Stale
    AgentIdOf <- MCAgentIdOf
    ScanMacs <- MCScanMacs
    AgentMacs <- MCAgentMacs
    HostnameOf <- MCHostnameOf
    PatchState = {"retired"}
SPECIFICATION Spec
SYMMETRY Symmetry
PROPERTY
    ReplayIsNoOp
CHECK_DEADLOCK FALSE
