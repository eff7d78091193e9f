SPECIFICATION AllSpec
CONSTANTS
    Workers = {"w1", "w2"}
    UserNames = {"n1", "n2"}
    Mails = {"m1", "m2"}
    MailServer = TRUE
    MaxRequests = 2
    MaxTokens = 2
    None = None
    Nothing = Nothing
    Values = {"v1"}
    Places = {"p1"}
    Maps = {"m1"}
    Factors = {"f1", "f2"}
    Candidates = {"f2"}
    Benchmarks = {}
    Skipped = {"f2"}
    Targets = {"t1"}
    Balanced = {"t1"}
    Bases = {"b1"}
    Applicable = {"b1"}
    Requests = {}
    Acks = {{"F02_RF_CALCULATION_REQUIRED", "F02_CALCULATION_REQUIRED", "F02_TARGETS_REQUIRED",
             "FORMAL_CALCULATION_STALE", "FORMAL_REFERENCES_REQUIRED",
             "FORMAL_RULE_VERSION_REQUIRED", "FORMAL_RULE_INVALID"}}
    MaxDocuments = 1
    Unset = None
    Edits <- FormEdits
    Documents = {"inventory"}
    RequestIds = {"r1", "r2"}
    MaxTime = 4
    MaxOpen = 2
    Changes = {}
    FileContents = {"a", "b"}
    Faults = {"put", "write", "cleanup", "remove", "commit", "crash"}
    Workbooks = 2
    MaxRows = 3
    MaxKeys = 3
    MaxVersion = 3
CHECK_DEADLOCK FALSE
INVARIANTS
    AllTyped
    LinksSetOnePassword
    FilesKeepTheirBytes
    CandidatesAgree
    
    ReportsAddUp
    ResultsAreTrue
PROPERTIES
    ReportsKeepTheirObjects
    ConfirmedReachesForms
    ReportsShowWhatWasChecked
