SPECIFICATION Spec
CONSTANTS
    c1 = c1
    c2 = c2
    k1 = k1
    Connections <- MCConnections
    Keys <- MCKeys
    Missing = Missing
    Torn = Torn
    Nothing = Nothing
    MaxStarts = 2
    MaxFaults = 1
    MaxChanges = 2
INVARIANTS TypeOK NothingIsLost PreferencesResolve
PROPERTY SessionsRemembered
CHECK_DEADLOCK FALSE
CONSTRAINT MCConstraint
SYMMETRY MCSymmetry
