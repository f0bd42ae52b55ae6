CONSTANTS
    Prompt = {}
    Goal = {g1}
    NoPrompt = NoPrompt
    NoGoal = NoGoal
    Imported = {}
    SyncOnNewSession = TRUE
    InitialPrompt = "text"
    Users = {"goal", "trigger", "pause", "relaunch"}
    Faults = {"write", "send"}
    MaxBudget = 2
SPECIFICATION Spec
INVARIANTS GoalNotRepeated TriggerOnce
