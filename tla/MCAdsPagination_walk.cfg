SPECIFICATION FairSpec
CONSTANTS
    me = me  other = other
    Ids = {1, 2, 3}
    Times = {1, 2}
    Users = {me, other}
    Walker = me
    Limits = {1, 2}
    None = None
INVARIANTS
    TypeOK
    WalkComplete
PROPERTIES
    NothingTwice
    CursorIffMore
    WalkEnds
CHECK_DEADLOCK FALSE
