SPECIFICATION Spec
CONSTANTS
    Rules = {r1}
    Contents = {blank}
    Blank = blank
    NoContent = noContent
    MaxPackages = 2
    MaxDocuments = 2
    MaxDocVersion = 2
INVARIANT ResubmittedIsRecheckable
CHECK_DEADLOCK FALSE
