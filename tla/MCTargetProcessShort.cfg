CONSTANTS
    app = app
    Services = {app}
    Checked = {app}
    IdleTimeout = 1
    CheckRetry = 3
    RetryCooldown = 2
    LaunchTimeout = 2
    RetryAfter = 2
    StartTime = 2
    ExitTime = 1
    RestartTime = 1
    MaxTries = 21
    Visits = 1
    Faults = 0
SPECIFICATION Spec
INVARIANTS
    RetriesReachTheService
