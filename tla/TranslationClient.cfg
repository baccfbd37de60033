\* translate_files as bootstrap.py calls it (no write-back).
CONSTANTS
    k1 = k1  k2 = k2  k3 = k3  k4 = k4
    Keys <- MCKeys
    TopOf <- MCTopOf
    MaxRetries = 3
    ChunkSize = 2
    Calls <- MCCalls
    NoContent = NoContent
    Unreadable = Unreadable
SPECIFICATION Spec
INVARIANT TypeOK
INVARIANT ChunksCoverItems
INVARIANT IncrementalKeepsTranslations
PROPERTY ImplementsTranslateFiles
\* translate_files returns; its final states are the returned ones.
CHECK_DEADLOCK FALSE
