\* Two uploads in flight, one worker, both execution modes, any failure.
CONSTANTS
    Uploads = {c1, c2}
    WithHarmonies = {c1, c2}
    WithKey = {c2}
    Uploaders = {u1, u2}
    Workers = {w1}
    MaxRetries = 1
    MaxQueue = 0
SYMMETRY UploaderSymmetry
SPECIFICATION Spec
INVARIANTS
    TypeOK
    FlagTruthful
    PendingExplained
    GivenKeyKept
    ObjectsMatchRow
    IncipitFresh
