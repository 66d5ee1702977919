SPECIFICATION Spec
CONSTANTS
    Client = {a, b, c}
    Timer = {t1}
    Role <- FlatRoles
    NoClient = NoClient
    NoTimer = NoTimer
    NoTX = NoTX
    TOTEnabled = FALSE
INVARIANTS LastWordIsTrue RecordingIsOfSpeaker NoPhantomBusy
