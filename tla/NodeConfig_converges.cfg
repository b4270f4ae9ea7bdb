CONSTANTS
    Inbounds = {i1, i2}
    Clients = {c1}
    Fields = {on, off}
    Off = {off}
    Editors = {e1}
    None = None
    Blips = FALSE
    LostReplies = TRUE
    NodeBulkPushThreshold = 2
    MaxEdits = 1
    MaxLocal = 1
    MaxFaults = 1
SPECIFICATION FairSpec
PROPERTIES Convergence
