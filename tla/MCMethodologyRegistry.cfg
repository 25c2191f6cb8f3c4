\* Workbooks of one or two rows with everything that can be wrong in them.
SPECIFICATION RegistrySpec
CONSTANTS
    Workbooks <- MCWorkbooks
    Seeds <- MCSeeds
    ScopeBlocks <- MCScopeBlocks
    ExpectedCount <- MCExpectedCount
CHECK_DEADLOCK FALSE
INVARIANTS
    CheckedReferencesAreFound
    JoinsStayInOneScope
