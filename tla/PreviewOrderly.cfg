\* One worker, both execution modes, requests about one fragment in sequence.
CONSTANTS
    Fragments = {f1}
    Ranges = {a, b}
    Scores = {old, new}
    Requests = {r1, r2}
    Workers = {w1}
    MaxRetries = 1
    MaxQueue = 0
SPECIFICATION OrderlySpec
INVARIANTS
    TypeOK
    PreviewFresh
    KeyHasObject
PROPERTY PreviewsSettle
