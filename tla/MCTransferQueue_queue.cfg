SPECIFICATION FairSpec
CONSTANTS
    up = up
    down = down
    tab = tab
    None = None
    Jobs = {up, down}
    Uploads = {up}
    Sessions = {tab}
    SessionOf <- OneTab
    Limit = 1
    MaxAttempts = 2
    Retried = 1
    MaxConns = 1
    Chunks = 1
INVARIANTS TypeOK CancelReaches  ClientNeedsSession
PROPERTIES QueuedMoves
CHECK_DEADLOCK FALSE
