SPECIFICATION Spec
CONSTANTS
    d1 = d1
    d2 = d2
    d3 = d3
    r1 = r1
    r2 = r2
    v1 = v1
    v2 = v2
    Proc = {p1, p2}
    Device = {d1, d2, d3}
    Resource = {r1, r2}
    Driver = {v1}
    ResOf <- BusRes
    DrvOf <- SharedDrv
    Net = {r2}
    Mutex = {m1, m2, m3, m4, m5}
    MaxAdmin = 2
    None = None
SYMMETRY Symmetry
CHECK_DEADLOCK FALSE
INVARIANTS ExecutionsTidy BusSerialised
