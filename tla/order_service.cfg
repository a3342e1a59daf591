SPECIFICATION Spec
CONSTANTS
    a = a   b = b   i1 = i1
    Items = {i1}
    Orders = {a, b}
    Workers = {w1, w2}
    item_id <- OneItem
    quantity <- OneAndTwo
    InitStock <- StockOfTwo
    Deltas <- NoDeltas
    IntMax = 3
    AdjustCap = 0
    EnableCache = TRUE
    OnHttpError = "commit"
    Aborts = TRUE
    RedisFails = FALSE
    NoItem = NoItem   NoOrder = NoOrder   NoWorker = NoWorker
    NoMovement = NoMovement   NoValue = NoValue
SYMMETRY WorkerSymmetry
INVARIANTS TypeOK Ledger
PROPERTIES CommitLeavesCacheRight LifecycleSpec LeakyInventorySpec OnlyConflictsUnbalance
