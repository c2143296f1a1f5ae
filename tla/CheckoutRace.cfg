SPECIFICATION Spec
CONSTANTS
    Requests = {q1, q2}
    Sessions = {s1, s2, s3}
    Intents = {i1, i2}
    NoSession = NoSession
    NoIntent = NoIntent
SYMMETRY Symmetry
INVARIANTS TypeOK OneSessionForSale KeyMeansOneIntent
