SPECIFICATION CacheSpec
CONSTANTS
    Request = {r1, r2}
    Local = {phone}
    Remote = {rented}
    Tethered = {phone}
    NoId = NoId
    MaxCopies = 2
    MaxMishaps = 1
SYMMETRY Requests
CHECK_DEADLOCK FALSE
INVARIANTS OneInstance
