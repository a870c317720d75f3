SPECIFICATION Spec
CONSTANTS
    a = a  b = b
    Kids = {a, b}
    NoKid = NoKid
    NoToken = NoToken
    Tokens <- MCTokens
    TTL = 2
INVARIANTS
    OutageTolerated
