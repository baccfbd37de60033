\* A source string reworded between two runs of one JSON catalogue.
CONSTANTS
    Str = Str
    Trans = Trans
    Num = Num
    Str2 = Str2
    Trans2 = Trans2
    Human = Human
    NoFile = NoFile
    TypeError = TypeError
    Leaves <- MCLeaves
    StrLeaves <- MCStrLeaves
    Translate <- MCTranslate
    CharOrder <- MCCharOrder
    Sources <- MCSourcesReworded
    ChunkSize = 1
    MaxRetries = 3
    MaxRuns = 3
SPECIFICATION Spec
\* After the last run only edits remain possible; the tool is not run again.
CHECK_DEADLOCK FALSE
INVARIANT TranslationsCurrent
