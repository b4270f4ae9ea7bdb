CONSTANTS
    Inbounds = {i1, i2}
    Clients = {c1}
    Fields = {on, off}
    Off = {off}
    Editors = {e1}
    None = None
    Blips = TRUE
    LostReplies = FALSE
    NodeBulkPushThreshold = 2
    MaxEdits = 2
    MaxLocal = 0
    MaxFaults = 1
SPECIFICATION Spec
PROPERTIES OnboardingSafe
