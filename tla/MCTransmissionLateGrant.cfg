SPECIFICATION Spec
CONSTANTS
    Client = {a, b}
    Timer = {t1, t2}
    Role <- RankedRoles
    NoClient = NoClient
    NoTimer = NoTimer
    NoTX = NoTX
    TOTEnabled = FALSE
INVARIANT LastWordIsTrue
