SPECIFICATION FairSpec
CONSTANTS
    c1 = c1
    c2 = c2
    c3 = c3
    Channel = {c1, c2, c3}
    NoNumber = NoNumber
    Lists <- MixedLists
    ChannelStart = 7
    App = {a1}
    None = None
INVARIANTS
    TypeOK
    LineupPlayable
    HealthHasEvidence
    NothingDropped
    GivenAsListed
PROPERTIES
    CatalogConverges
