SPECIFICATION PartsSpec
CONSTANTS
    Console = {1, 2}
    Patient = TRUE
    MaxMoves = 4
    Careful = TRUE
    MaxUploads = 3
    MaxBubbles = 1
    NChannels = 2
    Private = {2}
    Answers = {"right"}
    Handler = {h1, h2}
    MaxTurns = 2
    MaxInbox = 0
    MaxStreams = 3
    Channel = {1, 2}
    Callsign = {alpha}
    NoBuffer = NoBuffer
    MinAudio = 1
    MaxBuffer = 1
    MaxHistory = 2
    MaxSaves = 4
    MaxClock = 1
    MaxRestarts = 1
INVARIANTS
    PartsTypeOK CandidatesAreUsed CancelledIsNotSent RxLightIsTrue
    DarkWhenOver OnlyFocusSticks ListedFilesExist NewestAreListed
PROPERTIES OfferIsSettled ComposerRecovers ScanFindsTraffic
CHECK_DEADLOCK FALSE
