SPECIFICATION TurnsSpec
CONSTANTS
    u1 = u1  u2 = u2  v1 = v1  v2 = v2  k1 = k1  k2 = k2
    s1 = s1  r1 = r1  r2 = r2  r3 = r3  r4 = r4
    Null = Null  Gone = Gone  None = None
    Users <- MCUsers
    Values <- MCValues
    Contents <- MCContents
    Seeded <- MCSeeded
    Rank <- MCRank
    Keys = {k1, k2}
    Requests = {r1, r2, r3, r4}
    Bodies <- TurnsBodies
    Overlap = 2
    Faults = TRUE
    Crashes = FALSE
    Expiry = FALSE
SYMMETRY Symmetric
INVARIANTS
    OneAdPerKey
    PriorStateRecorded
    PatchEchoed
    CreatedIsFound
PROPERTIES
    ImplementsStrictHistory
