SPECIFICATION Spec
CONSTANTS
    logs = logs
    status = status
    Calls = {logs, status}
    KeepList = {status}
    KeepRecent = 1
    Submit = Submit
    Malformed = Malformed
    Prompt = 1
    Outputs = {1, 4}
    Reply = 1
    MaxTokens = 40
    MaxCost = 36
    Cooldown = 2
    Window = 2
    Scenes <- MCScenes
CHECK_DEADLOCK FALSE
INVARIANTS
    HistoryPaired
    ConcedesOneRequest
    CompletesOnce
PROPERTY
    SuppressionEarned
