CONSTANTS
    app = app
    worker = worker
    r1 = r1
    r2 = r2
    none = none
    Services = {app}
    Checked = {app}
    Requests = {r1, r2}
    NoService = none
    IdleTimeout = 2
    CheckRetry = 1
    RetryCooldown = 1
    ProbeTimeout = 1
    DrainTimeout = 2
    Timely = TRUE
SPECIFICATION Spec
INVARIANTS
    QuiescentServicesAreDecided
