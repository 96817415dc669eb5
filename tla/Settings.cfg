SPECIFICATION Spec
CONSTANTS
    d1 = d1
    p1 = p1
    g1 = g1
    g2 = g2
    Device = {d1}
    NoDevice = NoDevice
    Chosen = {p1}
    NoPass = NoPass
    Generated = {g1, g2}
    Flags <- MCFlags
    Body <- MCBody
    Saver = {s1, s2}
    Main = Main
    HasFile = TRUE
    Absent = Absent
    Torn = Torn
    None = None
SYMMETRY Symmetry
INVARIANTS
    TypeOK
    FileIsMemory
PROPERTIES
    SaveAloneKeepsUnnamed
    PasswordSurvives
