SPECIFICATION ReadersSpec
CONSTANTS
    i1 = i1
    Items = {i1}
    Orders = {a}
    Workers = {w1}
    Readers = {r1}
    GetCap = 1
    item_id <- OneItem
    quantity <- OneEach
    InitStock <- StockOfOne
    Deltas <- NoDeltas
    IntMax = 2
    AdjustCap = 0
    EnableCache = TRUE
    OnHttpError = "commit"
    Aborts = FALSE
    RedisFails = FALSE
    NoItem = NoItem   NoOrder = NoOrder   NoWorker = NoWorker
    NoMovement = NoMovement   NoValue = NoValue
INVARIANTS Ledger
