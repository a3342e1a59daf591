SPECIFICATION ReadersSpec
CONSTANTS
    i1 = i1
    Items = {i1}
    Orders = {a}
    Workers = {w1, w2}
    Readers = {r1, r2}
    GetCap = 2
    item_id <- OneItem
    quantity <- OneEach
    InitStock <- StockOfOne
    Deltas <- NoDeltas
    IntMax = 1
    AdjustCap = 0
    EnableCache = TRUE
    OnHttpError = "commit"
    Aborts = FALSE
    RedisFails = TRUE
    NoItem = NoItem   NoOrder = NoOrder   NoWorker = NoWorker
    NoMovement = NoMovement   NoValue = NoValue
SYMMETRY WorkerSymmetry
INVARIANTS ReadersTypeOK CacheWasTrue
PROPERTIES WriteBackWasTrue OnlyReadersBreakLedger
