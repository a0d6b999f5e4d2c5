SPECIFICATION Spec
CONSTANTS
    TableOrder <- MCTables
    Ids <- MCIds
    Null = Null
    Unsaved <- MCUnsaved
    SysOrder <- MCKinds
    ArrayKinds <- MCArrayKinds
    References <- MCReferences
    RuleKind = "validation_rules"
    Jobs = {j1, j2}
    NoArchive = NoArchive
    Scenarios <- MCScenarios
    MaxFaults = 1
SYMMETRY JobSymmetry
INVARIANTS
    DbTypeOK
    TableWholeExplained
PROPERTIES
    VersionsExplained
    RollbackExplained
    RestoreFaithful
    UniqueRuleExplained
CHECK_DEADLOCK FALSE
