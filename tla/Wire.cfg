CONSTANTS
    MAX_FRAME_LEN = 2
    MaxChunk = 4
    MaxStream = 7
    MaxSessions = 2
    MAX_DEPTH = 1
    MAX_STRING_BYTES = 2
    MaxText = 6
    MaxMembers = 3
    MAX_METHOD_BYTES = 5
    MaxMethod = 5
    LastDay = 146097
SPECIFICATION Spec
INVARIANTS DecoderExact ProtocolExact
CHECK_DEADLOCK FALSE
