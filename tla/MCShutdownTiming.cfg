CONSTANTS
    app = app
    worker = worker
    Services <- MCServices
    Checked = {app}
    Drain = 3
    Poll = 1
    Check = 3
    Stop = 2
    Terminate = 2
    Ceiling <- MCCeiling
SPECIFICATION Spec
INVARIANTS
    CleanupWithinBound
    CeilingNeverMet
