CONSTANTS
    Prompt = {p1}
    Goal = {g1, g2}
    NoPrompt = NoPrompt
    NoGoal = NoGoal
    Imported = {}
    SyncOnNewSession = TRUE
    InitialPrompt = "blank"
    Users = {"pause", "type", "failure", "relaunch", "edit"}
    Faults = {"write", "send", "read", "lost", "crash"}
    MaxBudget = 2
SPECIFICATION Spec
INVARIANTS TypeOK ManualPromptOnce PauseStops
PROPERTIES DeliversOnce NoStackedPrompts
