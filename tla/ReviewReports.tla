---------------------------- MODULE ReviewReports ----------------------------
(***************************************************************************)
(* The documents a review generates (app/review/router.py, build_report):  *)
(* the report of the latest run, as PDF, XLSX or DOCX, and the notice of a *)
(* correction request.  A generation locks nothing: it reads the run, its  *)
(* findings, the decision log and the requests in statements of their own, *)
(* draws a version, stores the object and inserts the row, while the       *)
(* review goes on.                                                         *)
(***************************************************************************)
EXTENDS ReviewRounds, FiniteSets

CONSTANTS
    Generations,  \* requests for a report, one database session each
    MaxReports    \* bound: object keys ever drawn

VARIABLES
    reports,      \* the generated documents, in order of insertion
    reportStore,  \* the object keys in the bucket
    reportKey,    \* the last of them that was drawn
    generation    \* the sessions

reportsVars == <<roundVars, reports, reportStore, reportKey, generation>>

ReportAssumption == MaxReports \in Nat /\ Generations # {}

---------------------------------------------------------------------------

Types == {"review-report", "correction-request"}

\* A request as a report shows it.
Shown == [request : Nat, status : CorrectionStatuses, items : ItemSets]

\* What build_report has read so far.
Content == [run : Nat, findings : FindingSets, triaged : SUBSET TriageRows,
            verdicts : SUBSET {"RETURNED_FOR_REVISION", "APPROVED"},
            requests : SUBSET Shown]

Reports == [type : Types, version : Nat, key : Nat, content : Content]

GenerationStates ==
    [pc : {"idle", "findings", "decisions", "requests", "version", "put", "insert", "undo"},
     type : Types, request : Nat, status : CorrectionStatuses,
     content : Content, version : Nat, key : Nat]

ReportsTypeOK ==
    /\ RoundsTypeOK
    /\ reports \in Seq(Reports)
    /\ reportStore \subseteq 1..reportKey
    /\ generation \in [Generations -> GenerationStates]

NoContent == [run |-> 0, findings |-> NoFindings, triaged |-> {}, verdicts |-> {},
              requests |-> {}]

NotBegun == [pc |-> "idle", type |-> "review-report", request |-> 0, status |-> "DRAFT",
         content |-> NoContent, version |-> 0, key |-> 0]

ReportsInit ==
    /\ RoundsInit
    /\ reports = <<>>
    /\ reportStore = {} /\ reportKey = 0
    /\ generation = [s \in Generations |-> NotBegun]

---------------------------------------------------------------------------
(* A generation, statement by statement *)

Goto(s, pc) == generation' = [generation EXCEPT ![s].pc = pc]

Leave(s) == generation' = [generation EXCEPT ![s] = NotBegun]

Kept == UNCHANGED <<reports, reportStore, reportKey>>

\* _require_reportable_run; a run is only ever committed COMPLETED.
Reportable(run) == run = review.latestRun

BeginReport(s, run) ==
    /\ generation[s].pc = "idle"
    /\ Reportable(run)
    /\ generation' = [generation EXCEPT ![s].pc = "findings", ![s].content.run = run]
    /\ Kept

\* The request of a notice is read here, and not again in this session.
BeginNotice(s, i) ==
    /\ generation[s].pc = "idle"
    /\ corrections[i].status \in {"SENT", "RESUBMITTED", "RECHECKED"}
    /\ generation' = [generation EXCEPT ![s] =
          [pc |-> "findings", type |-> "correction-request", request |-> i,
           status |-> corrections[i].status,
           content |-> [NoContent EXCEPT !.run = corrections[i].run],
           version |-> 0, key |-> 0]]
    /\ Kept

\* What has been read is remembered.
GoOn(s, pc, content) ==
    generation' = [generation EXCEPT ![s].pc = pc, ![s].content = content]

ReadFindings(s) ==
    LET content == generation[s].content
    IN  /\ generation[s].pc = "findings"
        /\ GoOn(s, "decisions", [content EXCEPT !.findings = findings[content.run]])
        /\ Kept

\* list_decisions, filtered to the findings of the run and to the case-level
\* decisions that name the run.
DecisionsOf(run) == {t \in triaged : t.run = run}

VerdictsOf(run) == {decisions[k].decision : k \in {j \in DOMAIN decisions : decisions[j].run = run}}

ReadDecisions(s) ==
    LET content == generation[s].content
    IN  /\ generation[s].pc = "decisions"
        /\ GoOn(s, "requests", [content EXCEPT !.triaged = DecisionsOf(content.run),
                                               !.verdicts = VerdictsOf(content.run)])
        /\ Kept

\* A request belongs to the run it is based on and to the run of the document
\* that answered it.
BelongsTo(i, run) ==
    \/ corrections[i].run = run
    \/ corrections[i].response = submissions[runs[run].submission].document

\* The items are read with the request, except for the request of a notice,
\* whose row is as it was at the beginning.
Show(s, i) ==
    [request |-> i,
     status  |-> IF generation[s].request = i THEN generation[s].status
                 ELSE corrections[i].status,
     items   |-> corrections[i].items]

RequestsOf(s, run) ==
    {Show(s, i) : i \in {j \in DOMAIN corrections : BelongsTo(j, run)}}

\* Mutant: the findings are read again with the requests.
ReadRequestsRefreshed(s) ==
    LET content == generation[s].content
    IN  /\ generation[s].pc = "requests"
        /\ GoOn(s, "version", [content EXCEPT !.findings = findings[content.run],
                                              !.requests = RequestsOf(s, content.run)])
        /\ Kept

ReadRequests(s) ==
    LET content == generation[s].content
    IN  /\ generation[s].pc = "requests"
        /\ GoOn(s, "version", [content EXCEPT !.requests = RequestsOf(s, content.run)])
        /\ Kept

OfType(type) == {k \in DOMAIN reports : reports[k].type = type}

\* next_report_version, next_generated_version
NextVersion(type) ==
    CHOOSE v \in 1..Len(reports) + 1 :
        /\ \A k \in OfType(type) : reports[k].version < v
        /\ v = 1 \/ \E k \in OfType(type) : reports[k].version = v - 1

DrawVersion(s) ==
    /\ generation[s].pc = "version"
    /\ generation' = [generation EXCEPT ![s].pc = "put",
                                        ![s].version = NextVersion(generation[s].type)]
    /\ Kept

PutReport(s) ==
    /\ generation[s].pc = "put" /\ reportKey < MaxReports
    /\ reportKey' = reportKey + 1
    /\ reportStore' = reportStore \cup {reportKey + 1}
    /\ generation' = [generation EXCEPT ![s].pc = "insert", ![s].key = reportKey + 1]
    /\ UNCHANGED reports

Insert(s) ==
    /\ generation[s].pc = "insert"
    /\ reports' = Append(reports,
          [type |-> generation[s].type, version |-> generation[s].version,
           key |-> generation[s].key, content |-> generation[s].content])
    /\ Leave(s) /\ UNCHANGED <<reportStore, reportKey>>

InsertFails(s) ==
    /\ generation[s].pc = "insert"
    /\ Goto(s, "undo") /\ Kept

\* Only the exact object just uploaded is removed.
UndoPut(s) ==
    /\ generation[s].pc = "undo"
    /\ reportStore' = reportStore \ {generation[s].key}
    /\ Leave(s) /\ UNCHANGED <<reports, reportKey>>

\* A failed commit or a dead process: nothing is removed.
GenerationDies(s) ==
    /\ generation[s].pc # "idle"
    /\ Leave(s) /\ Kept

Generation ==
    \E s \in Generations :
        \/ \E run \in DOMAIN runs : BeginReport(s, run)
        \/ \E i \in DOMAIN corrections : BeginNotice(s, i)
        \/ ReadFindings(s) \/ ReadDecisions(s) \/ ReadRequests(s) \/ DrawVersion(s)
        \/ PutReport(s) \/ Insert(s) \/ InsertFails(s) \/ UndoPut(s) \/ GenerationDies(s)

ReportsNext ==
    \/ RoundStep /\ UNCHANGED <<reports, reportStore, reportKey, generation>>
    \/ Generation /\ UNCHANGED roundVars

ReportsSpec == ReportsInit /\ [][ReportsNext]_reportsVars

---------------------------------------------------------------------------
(* What must hold *)

\* A decided finding of a report comes with the decision that was taken on
\* it, although triage goes on between the statements that read the two
\* (build_report reads the findings first).
DecidedFindingsExplained ==
    \A k \in DOMAIN reports : \A r \in Rules :
        LET c == reports[k].content
        IN  c.findings[r] \in TriageDecisions =>
               [run |-> c.run, rule |-> r, decision |-> c.findings[r]] \in c.triaged

\* A report shows the requests of its own round: those made of its run and
\* those its run rechecked, of no other round.
OwnRoundOnly ==
    \A k \in DOMAIN reports : \A q \in reports[k].content.requests :
        corrections[q.request].run \in {reports[k].content.run, reports[k].content.run - 1}

\* Every report in the table can be downloaded, whatever failed beside it.
ReportsHaveObjects == \A k \in DOMAIN reports : reports[k].key \in reportStore

\* A report shows the findings of one run with the decisions taken on them and
\* the requests of that round alone, and can be downloaded, although triage and
\* rechecks go on between the statements that read it.
ReportsAreConsistent == DecidedFindingsExplained /\ OwnRoundOnly /\ ReportsHaveObjects

\* Of those that are made one after another, a later one has a higher version
\* than those of its type.
VersionsIncrease ==
    \A k \in DOMAIN reports : \A j \in OfType(reports[k].type) :
        j < k => reports[j].version < reports[k].version
=============================================================================
