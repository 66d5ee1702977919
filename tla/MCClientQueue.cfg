SPECIFICATION FairSpec
CONSTANTS
    Producer = {p1, p2}
    Capacity = 2
    MaxSends = 3
INVARIANTS TypeOK NoSendOnClosed OrderIsKept OvertakenOnce
PROPERTY PumpsEndTogether
CHECK_DEADLOCK FALSE
