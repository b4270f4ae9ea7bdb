CONSTANTS
    Inbounds = {i1, i2}
    Clients = {c1}
    Fields = {on}
    Off = {}
    Editors = {e1}
    None = None
    Blips = FALSE
    LostReplies = TRUE
    NodeBulkPushThreshold = 2
    MaxEdits = 2
    MaxLocal = 0
    MaxFaults = 1
SPECIFICATION Spec
INVARIANTS TypeOK
PROPERTIES ClearCovers OnboardingSafe
