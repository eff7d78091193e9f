SPECIFICATION AllSpec
CONSTANTS
    Rules = {r1}
    CorrectedRules = {r1, r2}
    Contents = {blank, edited}
    Blank = blank
    NoContent = noContent
    MaxPackages = 2
    MaxDocuments = 2
    MaxDocVersion = 2
INVARIANTS
    TypeOK
    IInv
    CompletionSound
    OpenRequestMirrorsRun
    WhoseTurn
    RunsExamineNewVersions
    ReviewedFileIntact
    RecheckedByItsResponse
    RoundsHold
PROPERTIES
    DecidedRunsFrozen
    HandoffRefined
CHECK_DEADLOCK FALSE
