SPECIFICATION Spec
CONSTANTS
    Client = {a, b}
    Timer = {t1, t2}
    Role <- RankedRoles
    NoClient = NoClient
    NoTimer = NoTimer
    NoTX = NoTX
    TOTEnabled = TRUE
SYMMETRY Perms
INVARIANTS TypeOK AtMostOneLatePacket
PROPERTIES UsesChannel
