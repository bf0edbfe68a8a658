SPECIFICATION Spec
CONSTANTS
    Requests = {r1, r2}
    Answers = {s1, s2}
    NoAnswer = NoAnswer
    NoRequest = NoRequest
    MaxTurn = 2
SYMMETRY Symmetry
INVARIANTS TypeOK OneCommitter ClaimHeld OkNeverRevoked
PROPERTIES RevokedIsStale ImplementsContract
CHECK_DEADLOCK FALSE
