CONSTANTS
    app = app
    worker = worker
    Services <- MCServices
    Checked <- MCChecked
    IdleTimeout = 2
    CheckRetry = 2
    MaxGeneration = 3
SPECIFICATION FairSpec
INVARIANTS
    TypeOK
    OneAttemptPerService
    StopOnlyWhenQuiet
    AtMostOneStop
PROPERTIES
    ImplementsStopPolicy
    StopsAreRetried
