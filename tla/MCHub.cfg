SPECIFICATION FairSpec
CONSTANTS
    Client = {a, b}
    DefaultChannels = 1
    MaxChannels = 2
    Password = {p1}
    NoPassword = NoPassword
    HistoryLimit = 1
    MaxMessages = 2
    Requests <- AllRequests
INVARIANTS TypeOK TunedToOne PrivateNeedsPassword NoChatGap VideoSenderIsPresent
PROPERTY LeavesNothingBehind
