SPECIFICATION Spec
CONSTANTS
    MaxSnippet = 2
    Documents <- MCDocuments
    Settings <- MCSettings
    Vocabulary <- MCVocabulary
    Configs <- MCConfigs
CHECK_DEADLOCK FALSE
INVARIANTS
    ValueIsWhereCited
    TargetsAreWarranted
    UnitsDoNotConflict
    FlagsTellTheTruth
    
    ReportedQuantityIsKept
