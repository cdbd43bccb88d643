SPECIFICATION Spec
CONSTANTS
    typed = typed
    suggested = suggested
    Nobody = Nobody
    Commands = {typed, suggested}
    Compound = {suggested}
    Dangerous = {typed}
    Suggested = {suggested}
    MaxPending = 2
    MaxBatch = 2
    MaxBacklog = 1
    MaxChan = 3
    MaxOthers = 1
    MaxReconnects = 1
INVARIANT TypeOK
 
 
CONSTRAINT MCConstraint
CHECK_DEADLOCK FALSE
