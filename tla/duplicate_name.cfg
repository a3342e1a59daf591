SPECIFICATION ServerSpec
CONSTANTS
    r1 = r1   r2 = r2   r3 = r3   r4 = r4   n1 = n1   n2 = n2
    Requests = {r1, r2}
    Names = {n1}
    name <- SameName
    Oversized = {}
    RequireAuth = FALSE
    key <- NoKeys
    PoolSize = 2
    Aborts = FALSE
INVARIANTS DuplicateIs409
