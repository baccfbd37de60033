\* translate_files on an existing target that cannot be read.
CONSTANTS
    k1 = k1  k2 = k2  k3 = k3  k4 = k4
    Keys <- MCKeys
    TopOf <- MCTopOf
    MaxRetries = 3
    ChunkSize = 2
    Calls <- MCCallsUnreadable
    NoContent = NoContent
    Unreadable <- MCUnreadable
SPECIFICATION Spec
PROPERTY ImplementsTranslateFiles
\* translate_files ends; its final states are the returned and raised ones.
CHECK_DEADLOCK FALSE
