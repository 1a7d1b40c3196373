CONSTANTS
    app = app
    worker = worker
    r1 = r1
    r2 = r2
    none = none
    Services = {app}
    Checked = {app}
    Requests = {r1, r2}
    NoService = none
    IdleTimeout = 2
    CheckRetry = 2
    RetryCooldown = 2
    ProbeTimeout = 1
    DrainTimeout = 2
    Timely = FALSE
SPECIFICATION FairSpec
INVARIANTS
    NoStopUnderRequest
    CleanupDecidesEveryService
PROPERTIES
    NothingArrivesAfterDrain
    ShutdownCompletes
