SPECIFICATION Spec
CONSTANTS
    me = me  other = other
    Ids = {1, 2, 3}
    Times = {1, 2}
    Users = {me, other}
    Walker = me
    Limits = {1, 2}
    None = None
PROPERTIES
    SubsequentPage
CHECK_DEADLOCK FALSE
