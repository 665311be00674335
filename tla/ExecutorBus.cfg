SPECIFICATION FairSpec
CONSTANTS
    d1 = d1
    d2 = d2
    d3 = d3
    r1 = r1
    r2 = r2
    v1 = v1
    v2 = v2
    Proc = {p1, p2}
    Device = {d1, d2, d3}
    Resource = {r1, r2}
    Driver = {v1, v2}
    ResOf <- BusRes
    DrvOf <- BusDrv
    Net = {}
    Mutex = {m1, m2}
    MaxAdmin = 0
    None = None
PROPERTIES ExecutionReturns
