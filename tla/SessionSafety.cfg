CONSTANTS
    MaxQueued = 3
    MaxControls = 1
    MaxReplyBytes = 2
    ReplySizes = {0, 2}
    ReadFrames = 2
    MaxCommands = 5
SPECIFICATION Spec
INVARIANTS RepliesKept PlacesRespected EndsClean
PROPERTY SideEffectsSerial
