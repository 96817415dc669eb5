SPECIFICATION FairSpec
CONSTANTS
    Count = 2
    Request = {r1, r2, r3}
    Number = {n1}
    NoChannel = NoChannel
    NoClient = NoClient
INVARIANTS
    TypeOK
    OneStreamPerTuner
    TunersAccountedFor
    EnoughForAll
PROPERTIES
    ClientGoneFreesTuner
