CONSTANTS
    N = 1
    Weight <- Ascending
    GuardReplaces = {1}
    RequestThreshold = 2
    TransientThreshold = 1
    StallThreshold = 1
    RecoveryThreshold = 1
    ProbeOutcomes = {"ok", "bad", "polluted", "quota", "retry"}
    AgentSignals = {"polluted", "pause", "failure", "limited", "transient", "stalled"}
    StartMayFail = TRUE
    SlowTicks = TRUE
    Commands = {"guard", "probe", "confirm", "direct", "enable", "stop"}
    GuardedAtStart = {}
    MaybeOff = {1}
SPECIFICATION Spec
PROPERTIES PollutionEvicts OverdrawnReleased KeepsQuarantine
