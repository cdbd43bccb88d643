SPECIFICATION Spec
CONSTANTS
    r1 = r1
    r2 = r2
    r3 = r3
    ip = ip
    root = root
    user = user
    None = None
    Requests = {r1, r2, r3}
    Ips = {ip}
    Accounts = {root, user}
    Admins = {root}
    AuthFailureBudget = 1
    PerAccountRateLimit = 1
    Window = 2
    MaxNow = 2
SYMMETRY RequestSymmetry
INVARIANTS TypeOK  
CHECK_DEADLOCK FALSE
