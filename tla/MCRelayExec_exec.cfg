SPECIFICATION Spec
CONSTANTS
    r1 = r1
    r2 = r2
    User = User
    NoOne = NoOne
    Requests = {r1, r2}
    MaxKeys = 0
    MaxChunks = 1
    ChannelCap = 1
    MayStall = TRUE
SYMMETRY RequestSymmetry
INVARIANT TypeOK
INVARIANT TapBelongsToHolder
INVARIANT StartsAsAsked
PROPERTY CommandsAsPromised
INVARIANT OverlapNeedsHangUp
CHECK_DEADLOCK FALSE
