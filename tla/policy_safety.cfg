\* Every pack of up to two rules, for five kinds of spec.
SPECIFICATION Spec
CONSTANTS
    Paths <- MCPaths
    Globs <- MCGlobs
    Commands <- MCCommands
    Covers <- MCCovers
    Prefix <- MCPrefix
    Kind <- MCKind
    Specs <- MCSpecs
    Packs <- MCPacks
    EditedPacks <- MCEditedPacks
\* A run ends when it is stopped or audited.
CHECK_DEADLOCK FALSE
INVARIANTS
    TypeOK
    AllowIsExplicit
    AllowedCommandsAreUncontested
    ForbiddenChangeIsBreach
    PartialEvidenceNeverAccuses
    DoingLessIsNoStricter
