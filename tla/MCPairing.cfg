CONSTANTS
    Gateways = {g1, g2}
    Visitors = {v1, v2}
    Readers = {v1}
    Codes = {k1, k2}
    None = None
    Limit = 1
    MaxDeaths = 1
SPECIFICATION Spec
INVARIANT DrivesWhatItRead
INVARIANT MissesBounded
PROPERTY LockoutEnds
PROPERTY ShowsLiveCode
