-------------------------------- MODULE MCDesks --------------------------------
(*****************************************************************************)
(* The submit view of a case (SubmitRetries), the desk and the reports of    *)
(* the reviewers (ReviewDesk, ReviewReports), the demonstration accounts     *)
(* (DemoAccounts) and the data of app.demo (DemoData), all extended here,    *)
(* the inputs of the review's runs, the editors of the rule versions, the    *)
(* questions to the knowledge and the other demonstrations: several people   *)
(* at the same rows and objects.  A behaviour is of one instance, which of   *)
(* names, and what belongs to the others does not move; one run checks them  *)
(* all.                                                                      *)
(*****************************************************************************)
EXTENDS SubmitRetries, ReviewDesk, ReviewReports, DemoAccounts, DemoData

CONSTANTS None

VARIABLES
    of,   \* the instance this behaviour is of
    district, fields, report, checked, published, usable, editable, status, snapshot,
    sent, failure, inputRuns,
    demoRows, demoStore, demoKey, demoCommand,
    ruleRows, levels, ruleSources, ruleFiles, ruleStore, ruleKey, ruleSession,
    texts, removed, row, importer, facts, rights, messages, tx, asked, changes

deskOnlyVars == <<reviewer, priority, notified, session>>

reportOnlyVars == <<reports, reportStore, reportKey, generation>>

inputVars ==
    <<district, fields, report, checked, published, usable, editable, status, snapshot,
    sent, failure, inputRuns>>

otherDemoVars == <<demoRows, demoStore, demoKey, demoCommand>>

ruleVars == <<ruleRows, levels, ruleSources, ruleFiles, ruleStore, ruleKey, ruleSession>>

questionVars ==
    <<texts, removed, row, importer, facts, rights, messages, tx, asked, changes>>

instanceVars == <<inputVars, otherDemoVars, ruleVars, questionVars>>

allVars == <<of, vars, deskVars, demoVars, dataVars, reportOnlyVars, instanceVars>>

---------------------------------------------------------------------------

\* Applied fields of a submission.
Numeral(x) == [type |-> "numeral", amount |-> x]
Text(x) == [type |-> "text", amount |-> x]

Applied(rate, grade, w, v) ==
    [adjustment_rate |-> rate, expert_grade |-> grade, comparison_weight |-> w,
     income_weight |-> v]

RuleDataOfRuns ==
    [rate  |-> [code |-> "ADJUSTMENT_RATE", system |-> -45, tolerance |-> 20, severity |-> "LOW"],
     grade |-> [code |-> "EXPERT_GRADE", system |-> 1, tolerance |-> 0, severity |-> "LOW"],
     sum   |-> [code |-> "F03_WEIGHT_SUM", system |-> 0, tolerance |-> 0, severity |-> "LOW"]]

\* Rates within, on and beyond the tolerance; good and bad weights.
Fields ==
    {Applied(<<Numeral(-45)>>, <<Text(1)>>, <<Numeral(6)>>, <<Numeral(4)>>),
     Applied(<<Numeral(-66)>>, <<Text(2)>>, <<Numeral(12)>>, <<Numeral(-2)>>),
     Applied(<<Numeral(-71)>>, <<Text(2), Text(1)>>, <<Numeral(6)>>, <<Numeral(5)>>),
     Applied(<<Numeral(-34), Numeral(-45)>>, <<>>, <<Text(6)>>, <<Numeral(4)>>)}

OneRate == {Applied(<<Numeral(-45)>>, <<>>, <<>>, <<>>)}

\* Rates around the edge of the tolerance.
Edges == {Applied(<<Numeral(x)>>, <<Text(1)>>, <<Numeral(6)>>, <<Numeral(4)>>) :
             x \in {-80, -45, -20} \cup -76 .. -73 \cup -27 .. -24}

Version(d, p, pair, rules) == [district |-> d, priority |-> p, pair |-> pair, rules |-> rules]

\* A pair of versions of district d1, and a newer one of d1.
Pair ==
    [v1 |-> Version("d1", 1, "v2", {"rate", "grade", "sum"}),
     v2 |-> Version("d1", 2, "v1", {"rate", "sum"})]

\* The same pair with one version for all districts.
WholeCity ==
    [v1 |-> Version("d1", 1, "v2", {"rate"}), v2 |-> Version(None, 2, "v1", {"rate"})]

Single == [v1 |-> Version("d1", 1, None, {"rate"})]

---------------------------------------------------------------------------
(* The instances: the extended modules themselves, and *)

\* two submissions under two rule versions,
Inputs == INSTANCE RunInputs WITH
    Rules <- {"rate", "grade", "sum"}, RuleData <- RuleDataOfRuns,
    Districts <- {"d1"}, Versions <- {"v1", "v2"}, VersionData <- Pair,
    FieldSets <- Fields, Handoffs <- {"pdf"}, MaxReports <- 2, MaxRuns <- 2,
    runs <- inputRuns

\* one submission with every rate around the tolerance,
EdgeInputs == INSTANCE RunInputs WITH
    Rules <- {"rate", "grade", "sum"}, RuleData <- RuleDataOfRuns,
    Districts <- {"d1"}, Versions <- {"v1"}, VersionData <- Single,
    FieldSets <- Edges, Handoffs <- {"pdf", "excel"}, MaxReports <- 1, MaxRuns <- 1,
    runs <- inputRuns

\* a case of either district, handed over as PDF or Excel, with a version for all,
Districts == INSTANCE RunInputs WITH
    Rules <- {"rate", "grade", "sum"}, RuleData <- RuleDataOfRuns,
    Districts <- {"d1", "d2"}, Versions <- {"v1", "v2"}, VersionData <- WholeCity,
    FieldSets <- OneRate, Handoffs <- {"pdf", "excel"}, MaxReports <- 2, MaxRuns <- 1,
    runs <- inputRuns

\* two commands of the reviewers' demonstration, which may overlap,
ReviewDemo == INSTANCE DemoData WITH
    Tool <- "review", Invocations <- {"c1", "c2"}, Overlap <- TRUE, Objects <- 2,
    Faults <- {"put", "write", "commit", "remove", "crash"}, MaxActivity <- 1,
    rows <- demoRows, store <- demoStore, lastKey <- demoKey, command <- demoCommand

\* three commands of the history, one after another,
HistoryDemo == INSTANCE DemoData WITH
    Tool <- "history", Invocations <- {"c1", "c2", "c3"}, Overlap <- FALSE,
    Objects <- 2, Faults <- {"put", "write", "commit", "remove", "crash"},
    MaxActivity <- 1,
    rows <- demoRows, store <- demoStore, lastKey <- demoKey, command <- demoCommand

\* two editors of one version, files of two contents,
Editors == INSTANCE RulePacks WITH
    Sessions <- {"s1", "s2"}, Bytes <- {"a", "b"}, Uses <- {"u"}, Factors <- {"f"},
    LastDay <- 1, MaxRules <- 1, MaxKeys <- 2,
    rules <- ruleRows, sources <- ruleSources, documents <- ruleFiles,
    store <- ruleStore, lastKey <- ruleKey, session <- ruleSession

\* two editors of one version for two land uses,
Imports == INSTANCE RulePacks WITH
    Sessions <- {"s1", "s2"}, Bytes <- {"a"}, Uses <- {"u", "v"}, Factors <- {"f"},
    LastDay <- 1, MaxRules <- 1, MaxKeys <- 2,
    rules <- ruleRows, sources <- ruleSources, documents <- ruleFiles,
    store <- ruleStore, lastKey <- ruleKey, session <- ruleSession

\* one editor of two versions, over two days,
RuleVersions == INSTANCE RulePacks WITH
    Sessions <- {"s1"}, Bytes <- {"a"}, Uses <- {"u"}, Factors <- {"f"},
    LastDay <- 2, MaxRules <- 2, MaxKeys <- 2,
    rules <- ruleRows, sources <- ruleSources, documents <- ruleFiles,
    store <- ruleStore, lastKey <- ruleKey, session <- ruleSession

\* an editor and somebody who publishes, over two versions of one day,
Publishers == INSTANCE RulePacks WITH
    Sessions <- {"s1", "s2"}, Bytes <- {"a"}, Uses <- {"u"}, Factors <- {"f"},
    LastDay <- 1, MaxRules <- 2, MaxKeys <- 2,
    rules <- ruleRows, sources <- ruleSources, documents <- ruleFiles,
    store <- ruleStore, lastKey <- ruleKey, session <- ruleSession

EditorAndPublisher ==
    \/ Publishers!Takes("s1")
    \/ \E r \in DOMAIN ruleRows : Publishers!Publish("s2", r)
    \/ \E s \in {"s1", "s2"} : Publishers!Proceeds(s)

\* a question to three objects while an import runs,
Knowledge == INSTANCE Questions WITH
    Slots <- {"t1"}, Conversations <- {"general"}, Scope <- [general |-> "NONE"],
    Objects <- {"law", "rule", "example"},
    Nature <- [law |-> "OFFICIAL", rule |-> "RULE", example |-> "EXAMPLE"],
    Provider <- "ollama", Importers <- {"i1"}, MaxAsked <- 1, MaxBytes <- 2,
    MaxFacts <- 1, MaxChanges <- 0, store <- texts, rows <- messages

\* two questions in conversations about a session and about the history,
Turns == INSTANCE Questions WITH
    Slots <- {"t1", "t2"}, Conversations <- {"history", "session"},
    Scope <- [history |-> "HISTORY", session |-> "SESSION"], Objects <- {"note"},
    Nature <- [note |-> "OTHER"], Provider <- "bedrock", Importers <- {}, MaxAsked <- 2,
    MaxBytes <- 1, MaxFacts <- 2, MaxChanges <- 1, store <- texts, rows <- messages

\* and in one about a case, while the case and the rights change.
CaseTurns == INSTANCE Questions WITH
    Slots <- {"t1", "t2"}, Conversations <- {"case"}, Scope <- [case |-> "CASE"],
    Objects <- {"note"}, Nature <- [note |-> "OTHER"], Provider <- "bedrock",
    Importers <- {}, MaxAsked <- 2, MaxBytes <- 1, MaxFacts <- 2, MaxChanges <- 1,
    store <- texts, rows <- messages

\* The constants are as the modules expect them.
ASSUME InstancesAssumption ==
    /\ BoundAssumption
    /\ RoundAssumption /\ DeskAssumption /\ ReportAssumption
    /\ DemoAssumption
    /\ DataAssumption
    /\ Inputs!RunAssumption
    /\ EdgeInputs!RunAssumption
    /\ Districts!RunAssumption
    /\ ReviewDemo!DataAssumption /\ HistoryDemo!DataAssumption
    /\ Editors!RuleAssumption /\ Imports!RuleAssumption
    /\ RuleVersions!RuleAssumption /\ Publishers!RuleAssumption
    /\ Knowledge!QuestionsAssumption
    /\ Turns!QuestionsAssumption /\ CaseTurns!QuestionsAssumption

---------------------------------------------------------------------------
(* What does not move: a case nobody submits, an external case nobody works  *)
(* on, a demonstration that is not there                                     *)

NoRetries == Init

DeskOnlyIdle == priority = FALSE /\ notified = FALSE /\ session = [s \in Sessions |-> Idle]

NoDesk == ExternalInit /\ DeskOnlyIdle

NoPeople == DemoInit /\ \A r \in Formal : grants[r] = {}

NoData == DataInit /\ rows = NoRows

NoReports ==
    /\ reports = <<>> /\ reportStore = {} /\ reportKey = 0
    /\ generation = [s \in Generations |-> NotBegun]

NoInputs ==
    /\ district = None /\ fields = None /\ report = None /\ checked = None
    /\ published = None /\ usable = None /\ editable = None /\ status = None
    /\ snapshot = None /\ sent = None /\ failure = None /\ inputRuns = None

NoOtherDemo ==
    demoRows = None /\ demoStore = None /\ demoKey = None /\ demoCommand = None

NoRules ==
    /\ ruleRows = None /\ levels = None /\ ruleSources = None /\ ruleFiles = None
    /\ ruleStore = None /\ ruleKey = None /\ ruleSession = None

NoQuestions ==
    /\ texts = None /\ removed = None /\ row = None /\ importer = None /\ facts = None
    /\ rights = None /\ messages = None /\ tx = None /\ asked = None /\ changes = None

NoInstance == NoInputs /\ NoOtherDemo /\ NoRules /\ NoQuestions

NoExtended == NoRetries /\ NoDesk /\ NoPeople /\ NoData /\ NoReports

ExtendedInit ==
    /\ NoInstance
    /\ \/ of = "retries" /\ Init /\ NoDesk /\ NoPeople /\ NoData /\ NoReports
       \/ of = "desk" /\ DeskInit /\ NoRetries /\ NoPeople /\ NoData /\ NoReports
       \/ of = "demo" /\ DemoInit /\ NoRetries /\ NoDesk /\ NoData /\ NoReports
       \/ of = "app" /\ DataInit /\ NoRetries /\ NoDesk /\ NoPeople /\ NoReports
       \/ /\ of = "reports" /\ ReportsInit /\ reviewer = Nobody /\ DeskOnlyIdle
          /\ NoRetries /\ NoPeople /\ NoData

InstanceInit ==
    /\ NoExtended
    /\ \/ /\ \/ of = "inputs" /\ Inputs!Init
             \/ of = "edges" /\ EdgeInputs!Init
             \/ of = "districts" /\ Districts!Init
          /\ NoOtherDemo /\ NoRules /\ NoQuestions
       \/ /\ \/ of = "review demo" /\ ReviewDemo!DataInit
             \/ of = "history demo" /\ HistoryDemo!DataInit
          /\ NoInputs /\ NoRules /\ NoQuestions
       \/ /\ \/ of = "editors" /\ Editors!Init
             \/ of = "imports" /\ Imports!Init
             \/ of = "versions" /\ RuleVersions!Init
             \/ of = "publishers" /\ Publishers!Init
          /\ NoInputs /\ NoOtherDemo /\ NoQuestions
       \/ /\ \/ of = "knowledge" /\ Knowledge!Init
             \/ of = "turns" /\ Turns!Init
             \/ of = "case turns" /\ CaseTurns!Init
          /\ NoInputs /\ NoOtherDemo /\ NoRules

AllInit == ExtendedInit \/ InstanceInit

ExtendedNext ==
    \/ of = "retries" /\ Next /\ UNCHANGED <<deskVars, demoVars, dataVars, reportOnlyVars>>
    \/ of = "desk" /\ DeskNext /\ UNCHANGED <<vars, demoVars, dataVars, reportOnlyVars>>
    \/ of = "demo" /\ DemoNext /\ UNCHANGED <<vars, deskVars, dataVars, reportOnlyVars>>
    \/ of = "app" /\ DataNext /\ UNCHANGED <<vars, deskVars, demoVars, reportOnlyVars>>
    \/ /\ of = "reports" /\ ReportsNext
       /\ UNCHANGED <<vars, deskOnlyVars, demoVars, dataVars>>

InputsNext ==
    \/ of = "inputs" /\ Inputs!Next
    \/ of = "edges" /\ EdgeInputs!Next
    \/ of = "districts" /\ Districts!Next

OtherDemoNext ==
    \/ of = "review demo" /\ ReviewDemo!DataNext
    \/ of = "history demo" /\ HistoryDemo!DataNext

RulesNext ==
    \/ of = "editors" /\ Editors!Next
    \/ of = "imports" /\ Imports!Next
    \/ of = "versions" /\ RuleVersions!Next
    \/ of = "publishers" /\ EditorAndPublisher

QuestionsNext ==
    \/ of = "knowledge" /\ Knowledge!Next
    \/ of = "turns" /\ Turns!Next
    \/ of = "case turns" /\ CaseTurns!Next

AllNext ==
    /\ UNCHANGED of
    /\ \/ ExtendedNext /\ UNCHANGED instanceVars
       \/ /\ \/ InputsNext /\ UNCHANGED <<otherDemoVars, ruleVars, questionVars>>
             \/ OtherDemoNext /\ UNCHANGED <<inputVars, ruleVars, questionVars>>
             \/ RulesNext /\ UNCHANGED <<inputVars, otherDemoVars, questionVars>>
             \/ QuestionsNext /\ UNCHANGED <<inputVars, otherDemoVars, ruleVars>>
          /\ UNCHANGED <<vars, deskVars, demoVars, dataVars, reportOnlyVars>>

AllSpec == AllInit /\ [][AllNext]_allVars

---------------------------------------------------------------------------
(* Properties *)

\* The variables of the instance have their types.
AllTyped ==
    /\ of = "retries" => TypeOK
    /\ of = "desk" => DeskTypeOK
    /\ of = "reports" => ReportsTypeOK
    /\ of = "demo" => DemoTypeOK
    /\ of = "app" => DataTypeOK
    /\ of = "inputs" => Inputs!TypeOK
    /\ of = "edges" => EdgeInputs!TypeOK
    /\ of = "districts" => Districts!TypeOK
    /\ of = "review demo" => ReviewDemo!DataTypeOK
    /\ of = "history demo" => HistoryDemo!DataTypeOK
    /\ of = "editors" => Editors!TypeOK
    /\ of = "imports" => Imports!TypeOK
    /\ of = "versions" => RuleVersions!TypeOK
    /\ of = "publishers" => Publishers!TypeOK
    /\ of = "knowledge" => Knowledge!TypeOK
    /\ of = "turns" => Turns!TypeOK
    /\ of = "case turns" => CaseTurns!TypeOK

\* A run decides the rules of the version that was submitted on fields that were
\* applied exactly once, counts every rule once and continues the findings of the run
\* before.  What the submission accepted is refused by the review only for the district
\* or for an Excel workbook of another form; a rate at the edge of the tolerance is
\* decided by its rounding alone.  Reports that are made one after another have
\* increasing versions.
RunsAccountForSubmissions ==
    /\ Cardinality(Generations) = 1 => VersionsIncrease
    /\ of = "inputs" =>
          /\ Inputs!RunReadsItsSubmission
          /\ Inputs!RunAccounts
          /\ Inputs!EvidenceIsUnambiguous
          /\ Inputs!SupersedesItsRule
          /\ Inputs!RefusedForDistrictOrWorkbook
    /\ of = "edges" =>
          /\ EdgeInputs!RunReadsItsSubmission
          /\ EdgeInputs!RunAccounts
          /\ EdgeInputs!RefusedForDistrictOrWorkbook
          /\ EdgeInputs!RoundingDecidesTheEdge
    /\ of = "districts" =>
          /\ Districts!RunReadsItsSubmission
          /\ Districts!RunAccounts
          /\ Districts!RefusedForDistrictOrWorkbook

\* What is stored can be used. Rows of a demonstration name objects that exist,
\* whatever fails and however commands interleave. The sources of a rule version have
\* their objects and no upload repeats the content of another; its levels cover the
\* uses it declares. A published version is complete, whoever edited it meanwhile, and
\* two published versions overlap only where both would answer.
StoredIsUsable ==
    /\ of = "review demo" => ReviewDemo!ObjectsAccounted
    /\ of = "history demo" => HistoryDemo!ObjectsAccounted
    /\ of = "editors" =>
          /\ Editors!UploadsAreNew
          /\ Editors!SourcesHaveObjects
          /\ Editors!PublishedIsBacked
    /\ of = "imports" =>
          /\ Imports!UploadsAreNew
          /\ Imports!SourcesHaveObjects
          /\ Imports!LevelsCoverUses
          /\ Imports!PublishedIsBacked
    /\ of = "versions" =>
          /\ RuleVersions!SourcesHaveObjects
          /\ RuleVersions!PublishedIsBacked
          /\ RuleVersions!OverlapIsAmbiguity
    /\ of = "publishers" =>
          /\ Publishers!SourcesHaveObjects
          /\ Publishers!LevelsCoverUses
          /\ Publishers!PublishedIsBacked
          /\ Publishers!OverlapIsAmbiguity

\* An answer tells of the case or of the knowledge only what the user had the right
\* to when he asked, or what an answer of the same conversation told before; it cites
\* only sources that exist, open and were given, and stands with its question in the
\* order of the conversation, although objects, rights and the case change meanwhile.
AnswersHold ==
    /\ of = "knowledge" =>
          /\ Knowledge!Grounded
          /\ Knowledge!CitationsOpen
          /\ Knowledge!IndexIsOfItsText
    /\ of = "turns" => Turns!Paired /\ Turns!WithinRights /\ Turns!LaterTellsLater
    /\ of = "case turns" => CaseTurns!Paired /\ CaseTurns!WithinRights

---------------------------------------------------------------------------
(* What the repository says and the code does not do: each is refuted by a   *)
(* run of one instance                                                       *)

DistrictsSpec == (of = "districts" /\ AllInit) /\ [][AllNext]_allVars

PublishersSpec == (of = "publishers" /\ AllInit) /\ [][AllNext]_allVars

\* What the submission accepted can be reviewed: a rule version without a district
\* applies to every district (trusted inputs design).
AcceptedCanBeRun == Districts!AcceptedCanRun

\* At most one published version answers for a land use on a day: publishing a
\* version that overlaps another is forbidden (RULE_COVERAGE_OVERLAP).
OneVersionAnswers == Publishers!NeverAmbiguous

\* What a published version says is not changed any more (RULE_VERSION_LOCKED).
PublishedStaysAsItIs == [][Publishers!PublishedFrozen]_ruleVars

================================================================================
