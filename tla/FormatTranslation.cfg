\* Format and --check runs of format_translation.py over two catalogues.
CONSTANTS
    x = x
    y = y
    p1 = p1
    p2 = p2
    Invalid = Invalid
    TypeError = TypeError
    Leaves <- MCLeaves
    CharOrder <- MCCharOrder
    Paths <- MCPaths
    Contents <- MCContents
    MaxRuns = 3
SPECIFICATION Spec
\* Between runs nothing happens unless a developer edits a file; after the
\* last run the script is not started again.
CHECK_DEADLOCK FALSE
INVARIANT FormattedFilesPassCheck
