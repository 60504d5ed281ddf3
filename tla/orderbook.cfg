\* Two handlers, the seed script, and a manager who sets prices and adds a product.
SPECIFICATION Spec
CONSTANTS
    r1 = r1
    r2 = r2
    u1 = u1
    Requests = {r1, r2}
    Users = {u1}
    Rows = {1, 2, 3}
    Stocked = {1, 2}
    Payloads <- Baskets
    Prices = {10, 12}
    Opening <- TenEach
    Statuses = {"pending", "paid"}
    MaxTotal = 34
    MaxOrders = 1
    MaxQuotes = 3
SYMMETRY Symmetry
CHECK_DEADLOCK FALSE
INVARIANTS
    TypeOK
    BilledTogether
    BilledInFull
    ListedWhole
    AnsweredStatusHeld
PROPERTY SeedSparesOrders
