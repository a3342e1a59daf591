SPECIFICATION FairSpec
CONSTANTS
    a = a   b = b   i1 = i1
    Items = {i1}
    Orders = {a}
    Workers = {w1, w2}
    item_id <- OneItem
    quantity <- OneEach
    InitStock <- StockOfOne
    Deltas <- Plus1
    IntMax = 2
    AdjustCap = 2
    EnableCache = TRUE
    OnHttpError = "commit"
    Aborts = TRUE
    RedisFails = TRUE
    NoItem = NoItem   NoOrder = NoOrder   NoWorker = NoWorker
    NoMovement = NoMovement   NoValue = NoValue
PROPERTIES EveryRequestEnds
