SPECIFICATION FairServerSpec
CONSTANTS
    r1 = r1   r2 = r2   r3 = r3   r4 = r4   n1 = n1   n2 = n2
    Requests = {r1, r2, r3, r4}
    Names = {n1, n2}
    name <- TwoAndOne
    Oversized = {r3}
    RequireAuth = TRUE
    key <- OneKeyless
    PoolSize = 2
    Aborts = TRUE
INVARIANTS CatalogOK UniqueNames OpeningMovement ServesOnlyMigrated AcknowledgedIsKept
PROPERTIES EveryCreateEnds ServesAgain
