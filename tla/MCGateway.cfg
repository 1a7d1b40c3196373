CONSTANTS
    app = app
    worker = worker
    r1 = r1
    r2 = r2
    none = none
    Services = {app, worker}
    Checked = {app}
    Requests = {r1, r2}
    NoService = none
    IdleTimeout = 2
    CheckRetry = 1
    RetryCooldown = 1
    ProbeTimeout = 1
    DrainTimeout = 2
    Timely = TRUE
SPECIFICATION Spec
SYMMETRY MCSymmetry
INVARIANTS
    NoStopUnderRequest
    LeasesMatchRequests
    AdmissionsDrainInTime
    CleanupDecidesEveryService
    OneKickstart
PROPERTIES
    KeepsWakeContract
