CONSTANTS
    N = 2
    Weight <- Ascending
    GuardReplaces = {1}
    RequestThreshold = 1
    TransientThreshold = 1
    StallThreshold = 1
    RecoveryThreshold = 1
    ProbeOutcomes = {"ok"}
    AgentSignals = {"polluted"}
    StartMayFail = TRUE
    SlowTicks = FALSE
    Commands = {}
    GuardedAtStart = {1}
    MaybeOff = {}
SPECIFICATION FairSpec
PROPERTIES AgentRegained HeaviestRegained TickFinishes
