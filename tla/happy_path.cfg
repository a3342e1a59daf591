SPECIFICATION ClientSpec
CONSTANTS
    a = a   b = b   d = d   i1 = i1   c1 = c1   c2 = c2
    Items = {i1}
    Orders = {a}
    Workers = {w1, w2}
    Clients = {c1}
    Script <- HappyPath
    item_id <- OneItem
    quantity <- OneOneFour
    InitStock <- StockOfTwo
    Deltas <- NoDeltas
    IntMax = 3
    AdjustCap = 0
    EnableCache = FALSE
    OnHttpError = "commit"
    Aborts = FALSE
    RedisFails = FALSE
    NoItem = NoItem   NoOrder = NoOrder   NoWorker = NoWorker
    NoMovement = NoMovement   NoValue = NoValue
CHECK_DEADLOCK FALSE
INVARIANTS AnswersAsScripted
