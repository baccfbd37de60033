\* Flatten and round-trip of the JSON helpers over all small objects, and
\* the config loader over every layout of small registries.
CONSTANTS
    x = x
    Leaves <- MCLeaves
    CharOrder <- MCCharOrder
    TypeError = TypeError
    NonWord <- MCNonWord
SPECIFICATION Spec
\* Each input is one call of a helper, which then returns.
CHECK_DEADLOCK FALSE
INVARIANT FlattenMatchesReference
INVARIANT RoundTripForPlainKeys
INVARIANT ConfigLoadedAsDeclared
