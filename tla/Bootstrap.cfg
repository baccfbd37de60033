\* Safety of the create path of bootstrap.py over real file-name shapes.
CONSTANTS
    Locales <- MCLocales
    Default = "en"
    ScanRoots <- MCScanRoots
    Universe <- MCUniverse
    InitialTrees <- MCInitialTrees
    ChangeArgs <- MCChangeArgs
    NoArg = NoArg
    NoDiff = NoDiff
    NoFamily = NoFamily
SPECIFICATION Spec
INVARIANT TypeOK
INVARIANT CreatedFilesStayInFamily
INVARIANT WritesFollowSourcePolicy
\* The script ends: done, exit 0 with nothing to do, or the update crash.
CHECK_DEADLOCK FALSE
