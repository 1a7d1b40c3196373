CONSTANTS
    c1 = c1
    RawConfigs <- MCRawConfigs
    Authorities <- MCAuthorities
    Connections = {c1}
    PeekTimeout = 1
SPECIFICATION FairSpec
INVARIANTS
    ServesOnlyWhatIsSound
    
    NoRequestFromABody
PROPERTIES
    NoTlsInPlainHttp
    PeekEnds
