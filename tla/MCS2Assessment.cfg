\* Every list of up to two values, with at most one runtime value.
SPECIFICATION Spec
CONSTANTS
    Rows <- MCRows
    Unresolved = {"nowhere"}
    RequiredRows <- MCRequired
    Origin <- MCOrigin
    Layer <- MCLayer
    Condition <- MCCondition
    DerivedFrom <- MCDerivedFrom
    Rules <- MCRules
    Units = {"kg", "t"}
    MaxValues = 2
CHECK_DEADLOCK FALSE
INVARIANTS
    StagesAgree
    UnknownConditionsStayOpen
    GapsAreDistinct
