\* Two orders for the last unit of one product.
SPECIFICATION Spec
CONSTANTS
    r1 = r1
    r2 = r2
    r3 = r3
    Requests <- Two
    NumProducts = 1
    Menu <- SharedByTwo
    Editable <- NoRow
    MaxQuantity = 1
    MaxStock = 1
    Prices <- OnePrice
    MaxSold = 2
INVARIANT NeverOversold
CHECK_DEADLOCK FALSE
