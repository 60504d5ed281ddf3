\* Two handlers that may name the same rows, but never contend for one.
SPECIFICATION UncontendedSpec
CONSTANTS
    r1 = r1
    r2 = r2
    r3 = r3
    Requests <- Two
    NumProducts = 2
    Menu <- SharedByTwo
    Editable <- SecondRow
    MaxQuantity = 2
    MaxStock = 2
    Prices <- TwoPrices
    MaxSold = 2
PROPERTY LedgerSpec
CHECK_DEADLOCK FALSE
