SPECIFICATION ReportsSpec
CONSTANTS
    a = a   b = b   i1 = i1
    Items = {i1}
    Orders = {a}
    Workers = {w1}
    item_id <- OneItem
    quantity <- OneEach
    InitStock <- StockOfOne
    Deltas <- NoDeltas
    IntMax = 2
    AdjustCap = 0
    EnableCache = FALSE
    OnHttpError = "commit"
    Aborts = FALSE
    RedisFails = FALSE
    NoItem = NoItem   NoOrder = NoOrder   NoWorker = NoWorker
    NoMovement = NoMovement   NoValue = NoValue   NothingRead = NothingRead
    PageLimit = 2
    Days = 1
    ClockCap = 1
SYMMETRY WorkerSymmetry
PROPERTIES RefundsOnlyDeducted
