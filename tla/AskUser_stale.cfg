SPECIFICATION Spec
CONSTANTS
    Requests = {r1, r2}
    Answers = {s1, s2}
    NoAnswer = NoAnswer
    NoRequest = NoRequest
    MaxTurn = 2
SYMMETRY Symmetry
PROPERTIES ListingDropsOnlyStale
CHECK_DEADLOCK FALSE
