SPECIFICATION FairChannelSpec
CONSTANTS
    Client = {a, b, c}
    Timer = {t1, t2, t3}
    Role <- MCRole
    NoClient = NoClient
    NoTimer = NoTimer
    TOTEnabled = TRUE
INVARIANTS ChannelTypeOK SpeakerIsTuned SpeakerIsTimed
PROPERTIES OnlyExpiryOrphans PreemptionNeedsRank ImplementsFloor NoHotMic
