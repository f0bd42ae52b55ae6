CONSTANTS
    N = 1
    Weight <- Ascending
    GuardReplaces = {}
    RequestThreshold = 1
    TransientThreshold = 1
    StallThreshold = 1
    RecoveryThreshold = 1
    ProbeOutcomes = {"ok"}
    AgentSignals = {}
    StartMayFail = TRUE
    SlowTicks = FALSE
    Commands = {}
    GuardedAtStart = {}
    MaybeOff = {}
SPECIFICATION FairSpec
PROPERTIES KeepsAgentRunning
