CONSTANTS
    c1 = c1
    c2 = c2
    t1 = t1
    t2 = t2
    t3 = t3
    p1 = p1
    p2 = p2
    Clients = {c1}
    Threads = {t1, t2}
    ClientOf <- MCClientOf
    Proxies = {p1, p2}
    Stock = {p1, p2}
    Blocked = {p1}
    proxy_max_error_times = 1
    MaxErrors = 2
    bili_api_type = 0
    MaxAdds = 1
SPECIFICATION LiveSpec
INVARIANTS  PoolSeenWhole
PROPERTIES  ForcedClientEnds
CHECK_DEADLOCK FALSE
