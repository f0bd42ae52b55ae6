CONSTANTS
    N = 1
    Weight <- Ascending
    GuardReplaces = {1}
    RequestThreshold = 1
    TransientThreshold = 1
    StallThreshold = 1
    RecoveryThreshold = 1
    ProbeOutcomes = {"ok"}
    AgentSignals = {}
    StartMayFail = FALSE
    SlowTicks = TRUE
    Commands = {}
    GuardedAtStart = {1}
    MaybeOff = {}
SPECIFICATION FairSpec
PROPERTIES GuardRestored
