\* Two handlers, any of them an order or a PATCH of any row.
SPECIFICATION Spec
CONSTANTS
    r1 = r1
    r2 = r2
    r3 = r3
    Requests <- Two
    NumProducts = 2
    Menu <- SharedByTwo
    Editable <- SecondRow
    MaxQuantity = 2
    MaxStock = 2
    Prices <- TwoPrices
    MaxSold = 2
SYMMETRY Symmetry
INVARIANTS
    TypeOK
    StockNeverNegative
    LedgerUnlessRaced
    UnitsNeverVanish
CHECK_DEADLOCK FALSE
