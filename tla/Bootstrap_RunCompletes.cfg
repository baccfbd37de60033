\* Does every run reach the end of main()?
CONSTANTS
    Locales <- MCLocales
    Default = "en"
    ScanRoots <- MCScanRoots
    NoArg = NoArg
    NoDiff = NoDiff
    NoFamily = NoFamily
    Universe <- MCUniverse
    InitialTrees <- MCInitialTrees
    ChangeArgs <- MCChangeArgs
SPECIFICATION Spec
PROPERTY RunCompletes
\* The script ends: done, exit 0 with nothing to do, or the update crash.
CHECK_DEADLOCK FALSE
