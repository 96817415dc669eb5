SPECIFICATION Spec
CONSTANTS
    Conn = {c1, c2}
    Query = {q1, q2}
    Tuner = {t1}
    TunarrOn = TRUE
    Cap = 2
    Faults = {"cut", "dial", "tp", "ap"}
    Tunarr = Tunarr
    None = None
SYMMETRY Symmetry
INVARIANTS
    TypeOK
    NoLeakedConnection
    TransportHasReader
    TransportIsServed
    LinkPeerIsServed
    OneWriter
PROPERTIES
    ImplementsRelay
