\* The deque of one worker, on a clock that may be stepped and on one that is not;
\* a tick is half a second.
SPECIFICATION Spec
CONSTANTS
    m1 = m1
    m2 = m2
    m3 = m3
    m4 = m4
    m5 = m5
    Members = {m1, m2, m3, m4, m5}
    Limit = 2
    Second = 2
    Window = 4
    MaxStep = 2
SYMMETRY Symmetry
INVARIANTS
    TypeOK
    BoundDespiteSteps
    NoneOverstays
PROPERTY WindowSpec
CHECK_DEADLOCK FALSE
