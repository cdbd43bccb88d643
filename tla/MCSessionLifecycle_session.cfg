SPECIFICATION FairSpec
CONSTANTS
    c1 = c1
    c2 = c2
    Attempts = {c1, c2}
    NumOps = 1
    HasScript = TRUE
    Nobody = Nobody
INVARIANTS TypeOK ConnectedIsHonest RegistryIsOneConnection
PROPERTY ReconnectSettles
PROPERTY DeadConnectionNoticed
CHECK_DEADLOCK FALSE
