SPECIFICATION FairSpec
CONSTANTS
    Radix = 2
    Message <- MCMessage
    MaxMessages = 3
INVARIANTS
    TypeOK
    NothingHeldBack
    NoByteLost
PROPERTIES
    ImplementsPipe
    AllDelivered
CHECK_DEADLOCK FALSE
