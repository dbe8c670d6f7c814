SPECIFICATION FairSpec
CONSTANTS
    branch = branch
    leaf = leaf
    host = host
    a = a
    b = b
    Path <- MCPath
    Ancestors <- MCAncestors
    Grouped = {leaf}
    Proc = {a, b}
    KernelPid <- MCKernelPid
    InnerPid <- TwinPids
    Nodes <- MCNodes
    MaxProcesses = 1
    RingSlots = 1
    Buffer = 1
    MaxInode = 3
    MaxFaults = 1
    NoPath = nopath
    Nobody = nobody
    Dashed <- MCDashed
    Pods <- MCPods
    Layouts <- MCLayouts
INVARIANTS
    NeverAnotherCgroup
    SurvivorsSurvived
    ReportIdentifies
    VictimLeavesListing
PROPERTIES
    TracedToContainer
    KillsSent
CHECK_DEADLOCK FALSE
