\* Two workers, each with a dictionary of its own.
SPECIFICATION Spec
CONSTANTS
    r1 = r1
    r2 = r2
    w1 = w1
    w2 = w2
    s1 = s1
    s2 = s2
    Readers = {r1, r2}
    Writers = {w1, w2}
    Stores = {s1, s2}
    Home <- TwoStores
    Backend = "memory"
    Categories = {}
    NoCategory = NoCategory
    Windows = {1}
    Items = {7}
    NoPage = NoPage
    TTL = 2
    MaxVersion = 2
CHECK_DEADLOCK FALSE
PROPERTY EventuallyCoherent
