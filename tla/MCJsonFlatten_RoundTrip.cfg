\* The specification's round-trip law, for keys without the separator.
CONSTANTS
    x = x
    Leaves <- MCLeaves
    CharOrder <- MCCharOrder
    TypeError = TypeError
    NonWord <- MCNonWord
SPECIFICATION Spec
\* Each document is one call of the helpers, which then return.
CHECK_DEADLOCK FALSE
INVARIANT RoundTripLaw
