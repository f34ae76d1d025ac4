CONSTANTS
    p1 = p1
    p2 = p2
    b1 = b1
    transfer = transfer
    compute = compute
    x = x
    y = y
    Streams = {transfer, compute}
    Programs = {p1, p2}
    Pooled = {p1, p2}
    Buffers = {b1}
    Payloads = {x, y}
    Events <- MCEvents
    MaxTasks = 3
    NoTask = NoTask
    Torn = Torn
    Pool = Pool

SPECIFICATION ScarceSpec
SYMMETRY Symmetry
INVARIANT ReadersSeeTheirPayload
CHECK_DEADLOCK FALSE
