\* One reader's fill and one writer's invalidation.
SPECIFICATION Spec
CONSTANTS
    r1 = r1
    r2 = r2
    w1 = w1
    w2 = w2
    s1 = s1
    s2 = s2
    Readers = {r1}
    Writers = {w1}
    Stores = {s1}
    Home <- OneStore
    Backend = "redis"
    Categories = {}
    NoCategory = NoCategory
    Windows = {1}
    Items = {7}
    NoPage = NoPage
    TTL = 2
    MaxVersion = 1
CHECK_DEADLOCK FALSE
INVARIANT NoStalePrices
