SPECIFICATION Spec
CONSTANTS
    Fields = {A, B}
    Bad = Bad
    MaxTokens = 6
CHECK_DEADLOCK FALSE
INVARIANTS
    SupportedConditionsAreDecided
