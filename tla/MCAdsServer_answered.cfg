SPECIFICATION FairServerSpec
CONSTANTS
    u1 = u1  v1 = v1  v2 = v2
    s1 = s1  r1 = r1  r2 = r2  r3 = r3
    Null = Null  Gone = Gone  None = None
    Users = {u1}
    Values <- MCValues
    Contents <- MCContents
    Seeded <- MCSeeded
    Rank <- MCRank
    Keys = {}
    Requests = {r1, r2, r3}
    Bodies <- PoolBodies
    Overlap = 3
    Faults = TRUE
    Crashes = FALSE
    Expiry = FALSE
    PoolSize = 1
    MaxOverflow = 1
    MaxRestarts = 1
INVARIANTS
    ConnectionsBounded
    OnlyDeletesDeadlock
PROPERTIES
    StaleHandedOnce
    ConnectionsReturned
    EveryRequestAnswered
    AnsweredDeletesHappen
