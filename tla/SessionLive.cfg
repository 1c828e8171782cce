CONSTANTS
    MaxQueued = 3
    MaxControls = 1
    MaxReplyBytes = 2
    ReplySizes = {1}
    ReadFrames = 1
    MaxCommands = 3
SPECIFICATION LiveSpec
PROPERTIES StopHonoured CommandsServed
