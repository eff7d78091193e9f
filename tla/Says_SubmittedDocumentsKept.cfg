SPECIFICATION Spec
CONSTANTS
    Rules = {r1}
    Contents = {blank, edited}
    Blank = blank
    NoContent = noContent
    MaxPackages = 2
    MaxDocuments = 2
    MaxDocVersion = 2
INVARIANT SubmittedDocumentsKept
CHECK_DEADLOCK FALSE
