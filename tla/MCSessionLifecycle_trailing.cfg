SPECIFICATION Spec
CONSTANTS
    c1 = c1
    c2 = c2
    Attempts = {c1, c2}
    NumOps = 0
    HasScript = FALSE
    Nobody = Nobody
PROPERTY TrailingDisconnectIdempotent
CHECK_DEADLOCK FALSE
