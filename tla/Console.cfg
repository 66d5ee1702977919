SPECIFICATION FairSpec
CONSTANTS
    ChannelID = {1, 2}
    PTTMode = {"hold", "toggle"}
    PreBuffer = 1
    MaxInFlight = 3
    MaxAstray = 2
INVARIANTS TypeOK OnAirIsTrue FloorIsKnown
PROPERTIES PatientHoldToSpeak RequestIsAnswered
