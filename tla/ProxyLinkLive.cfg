\* A quiet pair rests once every answer is given and no fault is left: the
\* ticker finds the transport set, and both processes wait for a broadcast.
SPECIFICATION LiveSpec
CONSTANTS
    Conn = {c1, c2}
    Query = {q1, q2}
    q1 = q1
    q2 = q2
    Tuner = {t1}
    TunarrOn = FALSE
    Cap = 1
    Faults = {"cut", "dial", "tp", "ap"}
    Tunarr = Tunarr
    None = None
PROPERTIES
    TunerProxyRecovers
    HandlersEnd
    AnswersArrive
    BridgeRecovers
    LinkStatusSettles
CHECK_DEADLOCK FALSE
