\* Cached diffs in git's unified format, headers included.
CONSTANTS
    Locales <- MCLocales
    Default = "en"
    ScanRoots <- MCScanRoots
    NoArg = NoArg
    NoDiff = NoDiff
    NoFamily = NoFamily
    Universe <- MCUniverse
    InitialTrees <- MCInitialTrees
    ChangeArgs <- MCChangeArgsGit
SPECIFICATION Spec
INVARIANT BlankDiffIgnored
\* The script ends: done, exit 0 with nothing to do, or the update crash.
CHECK_DEADLOCK FALSE
