\* One Redis for two readers and two writers; one category is named like the word
\* list_key writes for no category.
SPECIFICATION Spec
CONSTANTS
    r1 = r1
    r2 = r2
    w1 = w1
    w2 = w2
    s1 = s1
    s2 = s2
    Readers = {r1, r2}
    Writers = {w1, w2}
    Stores = {s1}
    Home <- OneStore
    Backend = "redis"
    Categories = {"all", "tea"}
    NoCategory = NoCategory
    Windows = {1}
    Items = {7}
    NoPage = NoPage
    TTL = 2
    MaxVersion = 2
SYMMETRY Symmetry
INVARIANTS
    TypeOK
    StaleOnlyIfRaced
    RightPage
PROPERTY StaleFades
CHECK_DEADLOCK FALSE
