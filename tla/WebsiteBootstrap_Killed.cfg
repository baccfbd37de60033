\* A run killed while writing a file, then clean create runs.
CONSTANTS
    Locales <- MCLocales
    Default = "en"
    ScanRoots <- MCScanRoots
    Universe <- MCUniverse
    InitialTrees <- MCInitialTrees
    Modes = {FALSE, TRUE}
    SupportedLocales <- MCSupportedLocales
    MaxRuns = 3
    MaxKills = 1
    NoFamily = NoFamily
SPECIFICATION Spec
\* After the last run only edits remain possible; the script is not run again.
CHECK_DEADLOCK FALSE
INVARIANT KilledRunsRepaired
