SPECIFICATION FairSpec
CONSTANTS
    r1 = r1
    r2 = r2
    User = User
    NoOne = NoOne
    Requests = {r1}
    MaxKeys = 2
    MaxChunks = 3
    ChannelCap = 2
    MayStall = FALSE
PROPERTY KeyboardComesBack
CHECK_DEADLOCK FALSE
