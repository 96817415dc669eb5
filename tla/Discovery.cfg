SPECIFICATION Spec
CONSTANTS
    Half = 4
    Word = 2
    Model <- MCModel
    DefaultModel = "HDFX-4K"
    RealisticID <- MCRealisticID
    LocalBase <- MCLocalBase
    LineupPath <- MCLineupPath
    Slash = 6
    NoAuth <- MCNoAuth
    Device <- MCDevice
    Packet <- MCPacket
INVARIANTS
    ParseAgrees
    SameDevice
