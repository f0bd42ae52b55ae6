CONSTANTS
    N = 2
    Weight <- Equal
    GuardReplaces = {}
    RequestThreshold = 1
    TransientThreshold = 1
    StallThreshold = 1
    RecoveryThreshold = 1
    ProbeOutcomes = {"ok", "bad"}
    AgentSignals = {"polluted"}
    StartMayFail = TRUE
    SlowTicks = TRUE
    Commands = {"fix", "full", "prefer"}
    GuardedAtStart = {}
    MaybeOff = {}
SPECIFICATION Spec
PROPERTIES FixedObeyed
