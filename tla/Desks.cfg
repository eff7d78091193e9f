SPECIFICATION AllSpec
CONSTANTS
    MaxVersion = 3
    MaxAttempts = 4
    Rules = {"r1"}
    MaxSubmissions = 2
    Readiness = {TRUE, FALSE}
    Sessions = {"s1", "s2"}
    Reviewers = {"ann"}
    Generations = {"g1"}
    MaxReports = 2
    Users = {"valuation_demo", "review_demo"}
    Appraiser = "valuation_demo"
    Inspectors = {}
    Permissions = {"case.read", "knowledge.read", "report.export"}
    Dynamic = {"case.read", "knowledge.read"}
    Assistant = "assistant.use"
    Tool = "app"
    Invocations = {"c1", "c2"}
    Overlap = TRUE
    Objects = 2
    Faults = {"put", "write", "commit", "remove", "crash"}
    MaxActivity = 1
    None = None
CHECK_DEADLOCK FALSE
INVARIANTS
    AllTyped
    NothingTwice
    ToldIsTrue
    OpenItemsBlock
    ReportsAreConsistent
    
    SwapIsWhole
    ObjectsAccounted
    StoredIsUsable
    AnswersHold
PROPERTIES
    RetriesRefineHandoff
    CompletionStays
    SubmissionStays
