SPECIFICATION ReplaySpec
CONSTANTS
    h1 = h1
    h2 = h2
    sudo = sudo
    Hosts = {h1, h2}
    Contexts = {sudo}
    REPLAY_MAX_OPS = 2
    MaxTabs = 2
    MaxInputs = 3
    MaxStarts = 1
    MaxFaults = 1
CONSTRAINT MCConstraint
SYMMETRY HostSymmetry
INVARIANT ReplayTypeOK
 
 
CHECK_DEADLOCK FALSE
