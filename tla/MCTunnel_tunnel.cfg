SPECIFICATION FairSpec
CONSTANTS
    a = a
    t1 = t1
    t2 = t2
    Ids = {a}
    Ports = {1}
    Kinds = {"socks", "remote"}
    AutoStarts = {TRUE}
    AutoReconnects = {TRUE, FALSE}
    Tasks = {t1, t2}
    NoConfig = NoConfig
    NoTask = NoTask
INVARIANTS TypeOK NoOrphanSupervisor NoFalseGreen 
PROPERTIES StopTakesEffect
