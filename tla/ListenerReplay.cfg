SPECIFICATION FairListenerSpec
CONSTANTS
    NChannels = 3
    Private = {2}
    Answers = {"right"}
    Handler = {h1, h2}
    MaxTurns = 2
    MaxInbox = 0
PROPERTY ReplayIsKept
CHECK_DEADLOCK FALSE
