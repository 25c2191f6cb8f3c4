SPECIFICATION Spec
CONSTANTS
    Fields = {A, B}
    Bad = Bad
    MaxTokens = 7
CHECK_DEADLOCK FALSE
INVARIANTS
    VerdictsAreRight
