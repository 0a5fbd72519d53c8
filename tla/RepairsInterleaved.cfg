\* Two bars of 3/8, one fragment from before and one from after.
CONSTANTS
    Declarations <- MC38
    Wholes = {"w1", "w2"}
    Legacy = {"w1"}
    OldTaggings <- MCOldTaggings
    NewTaggings <- MCNewTaggings
    Meters <- MCMeters
    MaxSaves = 1
    MaxRuns = 4
CHECK_DEADLOCK FALSE
SPECIFICATION Spec
INVARIANTS
    PositionsKept
PROPERTIES
    RerunsChangeNothing
