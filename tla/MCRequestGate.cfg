CONSTANTS
    c1 = c1
    c2 = c2
    c3 = c3
    signal = signal
    monitor = monitor
    Contexts <- MCContexts
    Closers <- MCClosers
    DrainWaiter <- monitor
SPECIFICATION FairSpec
INVARIANTS
    CountsOutstanding
    NoLostWakeup
    DrainIsFinal

    
