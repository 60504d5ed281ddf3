\* Two requests, two workers with one connection each; one e-mail address, one SKU.
SPECIFICATION FairPipeSpec
CONSTANTS
    r1 = r1
    r2 = r2
    w1 = w1
    w2 = w2
    e1 = e1
    s1 = s1
    Requests = {r1, r2}
    Workers = {w1, w2}
    Emails = {e1}
    Skus = {s1}
    PoolSize = 1
    Opening <- OneOfEach
    MaxRequests = 2
CHECK_DEADLOCK FALSE
INVARIANTS
    TypeOK
    WireTypeOK
    TokensArePersonal
    WaitsEmptyHanded
    SomebodyProceeds
    CountersAgree
    HeadersUnlessCutShort
PROPERTIES
    DirectorySpec
    RequestsEnd
