\* An edit commits between the read and the upsert of an analysis task.
CONSTANTS
    I = I
    V = V
    Label <- MCLabel
    Beats <- MCBeats
    Chords <- MCChords
    Tsvs <- MCTsvs
    Clients = {c1}
    Tasks = {t1}
    MaxEvents = 3
    Sent <- MCSent
SPECIFICATION Spec
PROPERTY ReviewsSurviveAnalysis
