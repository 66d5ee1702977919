SPECIFICATION ChannelSpec
CONSTANTS
    Client = {a, b, c}
    Timer = {t1, t2, t3}
    Role <- MCRole
    NoClient = NoClient
    NoTimer = NoTimer
    TOTEnabled = TRUE
PROPERTY TimeoutEndsItsOwn
