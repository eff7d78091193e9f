SPECIFICATION Spec
CONSTANTS
    Rules = {r1}
    Contents = {blank}
    Blank = blank
    NoContent = noContent
    MaxPackages = 2
    MaxDocuments = 2
    MaxDocVersion = 2
INVARIANT ResolvedMeansEvaluated
CHECK_DEADLOCK FALSE
