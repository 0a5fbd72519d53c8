\* Two edit requests and one analysis task, every interleaving.
CONSTANTS
    I = I
    V = V
    Label <- MCLabel
    Beats <- MCBeats
    Chords <- MCChords
    Tsvs <- MCTsvs
    Clients = {c1, c2}
    Tasks = {t1}
    MaxEvents = 3
    Sent <- MCSent
SYMMETRY ClientSymmetry
SPECIFICATION Spec
INVARIANTS
    TypeOK
    MergeFollowsPolicy
PROPERTY EditsAreIsolated
