SPECIFICATION Spec
CONSTANTS
    ChannelID = {1}
    PTTMode = {"hold"}
    PreBuffer = 1
    MaxInFlight = 3
    MaxAstray = 3
PROPERTY HoldToSpeak
