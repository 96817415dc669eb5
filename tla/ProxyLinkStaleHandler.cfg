SPECIFICATION FairSpec
CONSTANTS
    Conn = {c1, c2}
    Query = {q1}
    Tuner = {t1}
    TunarrOn = FALSE
    Cap = 1
    Faults = {"cut", "dial", "tp", "ap"}
    Tunarr = Tunarr
    None = None
PROPERTIES
    LiveLinkAnswers
