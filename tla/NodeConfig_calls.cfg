CONSTANTS
    Inbounds = {i1, i2}
    Clients = {c1, c2}
    Fields = {f1, f2}
    Off = {}
    Editors = {e1, e2}
    None = None
    Blips = FALSE
    LostReplies = FALSE
    NodeBulkPushThreshold = 1
    MaxEdits = 3
    MaxLocal = 0
    MaxFaults = 1
SPECIFICATION CallsSpec
PROPERTIES ClientEditsKept
