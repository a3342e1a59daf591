SPECIFICATION ReportsSpec
CONSTANTS
    a = a   b = b   i1 = i1
    Items = {i1}
    Orders = {a}
    Workers = {w1, w2}
    item_id <- OneItem
    quantity <- OneEach
    InitStock <- StockOfOne
    Deltas <- Plus1
    IntMax = 1
    AdjustCap = 2
    EnableCache = FALSE
    OnHttpError = "commit"
    Aborts = TRUE
    RedisFails = FALSE
    NoItem = NoItem   NoOrder = NoOrder   NoWorker = NoWorker
    NoMovement = NoMovement   NoValue = NoValue   NothingRead = NothingRead
    PageLimit = 2
    Days = 1
    ClockCap = 2
SYMMETRY WorkerSymmetry
INVARIANTS DetailShowsDeduction TotalsCoverCounts TerminalListStands
PROPERTIES TornOnlyByRace PageIsGapless DeductionsCoverCounts DashboardAgrees
