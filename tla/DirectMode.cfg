SPECIFICATION FairSpec
CONSTANTS
    proxy = proxy
    HDHR = HDHR
    Host = {HDHR, proxy}
    NoHost = NoHost
    Flag = {"-direct"}
    Slot = {q1, q2, q3}
    AppArgs <- MCAppArgs
    TunerArgs <- MCTunerArgs
INVARIANTS
    TypeOK
PROPERTIES
    QuietShowsNone
    HealthRecovers
