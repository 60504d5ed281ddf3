\* Three handlers on three rows: the order in which the flushes lock them.
SPECIFICATION Spec
CONSTANTS
    r1 = r1
    r2 = r2
    r3 = r3
    Requests <- Three
    NumProducts = 3
    Menu <- SharedByThree
    Editable <- NoRow
    MaxQuantity = 1
    MaxStock = 1
    Prices <- OnePrice
    MaxSold = 1
INVARIANT NoWaitCycle
PROPERTY FlushEnds
CHECK_DEADLOCK FALSE
