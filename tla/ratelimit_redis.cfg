\* One bucket in Redis, pipelines that run up to half a second (a tick) late.
SPECIFICATION Spec
CONSTANTS
    r1 = r1
    r2 = r2
    m1 = m1
    m2 = m2
    m3 = m3
    m4 = m4
    m5 = m5
    Requests = {r1, r2}
    Members = {m1, m2, m3, m4, m5}
    Limit = 2
    Second = 2
    Window = 6
    MaxLag = 1
    Backend = "redis"
SYMMETRY Symmetry
INVARIANTS
    TypeOK
    LetThroughBound
    WaitIsNeeded
    Forgives
CHECK_DEADLOCK FALSE
