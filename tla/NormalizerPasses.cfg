\* Families of small scores, normalized until nothing changes.
CONSTANTS
    Scores <- MCScores
    MaxRounds = 6
CHECK_DEADLOCK FALSE
SPECIFICATION NormalizerSpec
INVARIANTS
    ComesToRest
    PlaysAsPrinted
    CorrectionsSettle
    ClefsKeepMeaning
