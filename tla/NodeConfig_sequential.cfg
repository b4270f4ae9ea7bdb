CONSTANTS
    Inbounds = {i1, i2}
    Clients = {c1, c2}
    Fields = {on, off}
    Off = {off}
    Editors = {e1}
    None = None
    Blips = TRUE
    LostReplies = TRUE
    NodeBulkPushThreshold = 1
    MaxEdits = 2
    MaxLocal = 0
    MaxFaults = 2
SPECIFICATION PlainSpec
INVARIANTS CleanMeansSame
PROPERTIES EditSurvives ClearMeansHeld
