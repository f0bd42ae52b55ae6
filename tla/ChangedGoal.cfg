CONSTANTS
    Prompt = {}
    Goal = {g1, g2}
    NoPrompt = NoPrompt
    NoGoal = NoGoal
    Imported = {}
    SyncOnNewSession = TRUE
    InitialPrompt = "text"
    Users = {"goal", "edit", "relaunch"}
    Faults = {}
    MaxBudget = 3
SPECIFICATION Spec
PROPERTIES ChangedGoalNotResumed
