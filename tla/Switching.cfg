CONSTANTS
    N = 2
    Weight <- Ascending
    GuardReplaces = {1}
    RequestThreshold = 1
    TransientThreshold = 1
    StallThreshold = 1
    RecoveryThreshold = 1
    ProbeOutcomes = {"ok", "bad"}
    AgentSignals = {"polluted"}
    StartMayFail = TRUE
    SlowTicks = TRUE
    Commands = {"fork", "new", "restart", "stop", "config", "pause"}
    GuardedAtStart = {1}
    MaybeOff = {}
SPECIFICATION Spec
INVARIANTS TypeOK AgentPaired SelectionUsable
PROPERTIES SelectionHeaviest ForkSurvives NoStrayAgent
