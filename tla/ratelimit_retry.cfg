\* A client that waits as long as it was told; a tick is half a second.
SPECIFICATION Spec
CONSTANTS
    r1 = r1
    r2 = r2
    m1 = m1
    m2 = m2
    m3 = m3
    m4 = m4
    m5 = m5
    Requests = {r1, r2}
    Members = {m1, m2, m3, m4, m5}
    Limit = 2
    Second = 2
    Window = 6
    MaxLag = 0
    Backend = "redis"
SYMMETRY Symmetry
INVARIANTS
    RetryAfterIsEnough
CHECK_DEADLOCK FALSE
