---------------------------- MODULE PlatformReview ----------------------------
(***************************************************************************)
(* A platform case from its first draft to the end of its review: the      *)
(* owner's report packages and generated documents (app/valuation), the    *)
(* handoff of a version for review (app/valuation/submissions), and the    *)
(* review with its correction loop (ReviewWorkflow).                       *)
(*                                                                         *)
(* One action is one committed transaction.  Every owner operation locks   *)
(* the case row first, so do the review operations that change the case,   *)
(* and all review operations lock the review row.                          *)
(***************************************************************************)
EXTENDS ReviewWorkflow

CONSTANTS
    Contents,       \* what the fingerprint of a report package may cover
    Blank,          \* the content of a new package
    NoContent,      \* "never validated"
    MaxPackages,    \* bound: report packages of the case
    MaxDocuments,   \* bound: document rows of the case
    MaxDocVersion   \* bound: version_no of a document

VARIABLE packages   \* the report packages, by version_no of their three forms

vars == <<caseStatus, documents, submissions, review, runs, findings,
          corrections, decisions, packages>>

ASSUME ContentAssumption == Blank \in Contents /\ NoContent \notin Contents

ASSUME BoundAssumption ==
    MaxPackages \in Nat /\ MaxDocuments \in Nat /\ MaxDocVersion \in Nat

---------------------------------------------------------------------------
(* Types *)

\* The bytes of a document.  They depend on the time and on words of the pages
\* that the fingerprint does not cover: k = 0 is a rendering that any equal
\* content repeats byte by byte, k > 0 one that only the k-th document row has.
Bytes == [kind : {"pdf", "xlsx"}, content : Contents, stamp : Nat]

Pdf(content, k) == [kind |-> "pdf", content |-> content, stamp |-> k]

Xlsx(content) == [kind |-> "xlsx", content |-> content, stamp |-> 0]

\* Version groups: a group drawn with uuid4 is named by its first document,
\* the uuid5 group of the templates of package p is named -p.
DocumentRows ==
    [type : {"report", "template"}, group : Int, version : Nat,
     active : BOOLEAN, bytes : Bytes]

\* final is form_status = FINAL of the three forms; the statuses DRAFT, READY
\* and CHECKED differ in no guard of the modelled operations.
PackageRows ==
    [content : Contents, final : BOOLEAN, output : Nat,
     validated : Contents \cup {NoContent}]

SubmissionRows ==
    [version : Nat, document : Nat, docVersion : Nat, bytes : Bytes,
     readiness : {"READY", "INCOMPLETE", "INVALID"}, outcome : RuleOutcomes]

ReviewRows ==
    [status : ReviewStatuses, latestSubmission : Nat, latestRun : Nat,
     openMissing : BOOLEAN]

CorrectionRows ==
    [status : CorrectionStatuses, run : Nat, base : Nat, baseVersion : Nat,
     response : Nat, items : ItemSets]

TypeOK ==
    /\ caseStatus \in CaseStatuses
    /\ packages \in Seq(PackageRows)
    /\ documents \in Seq(DocumentRows)
    /\ submissions \in Seq(SubmissionRows)
    /\ review \in ReviewRows
    /\ runs \in Seq([submission : Nat, evaluated : SUBSET Rules])
    /\ findings \in Seq(FindingSets)
    /\ corrections \in Seq(CorrectionRows)
    /\ decisions \in Seq([decision : {"RETURNED_FOR_REVISION", "APPROVED"},
                          run : Nat])

Init ==
    /\ caseStatus = "DRAFT"
    /\ packages = <<>>
    /\ documents = <<>>
    /\ submissions = <<>>
    /\ review = [status |-> "NONE", latestSubmission |-> 0, latestRun |-> 0,
                 openMissing |-> FALSE]
    /\ runs = <<>>
    /\ findings = <<>>
    /\ corrections = <<>>
    /\ decisions = <<>>

---------------------------------------------------------------------------
(* The owner's case and report packages *)

\* Mutant: a case in review can still be edited.
EditableInReview == caseStatus \notin {"REVIEW_COMPLETED", "ARCHIVED"}

\* EDITABLE_CASE_STATUSES; no operation ever sets the status CORRECTION.
Editable == caseStatus \in {"DRAFT", "PROCESSING", "REVISION_REQUIRED"}

Started == IF caseStatus = "DRAFT" THEN "PROCESSING" ELSE caseStatus

\* create_parcel and create_form move a DRAFT case on.
BeginWork ==
    /\ caseStatus = "DRAFT"
    /\ caseStatus' = Started
    /\ UNCHANGED <<packages, documents, submissions, reviewVars>>

\* archive_case checks the owner and nothing of the review.
ArchiveCase ==
    /\ caseStatus # "ARCHIVED"
    /\ caseStatus' = "ARCHIVED"
    /\ UNCHANGED <<packages, documents, submissions, reviewVars>>

CreatePackage ==
    /\ Editable
    /\ Len(packages) < MaxPackages
    /\ packages' = Append(packages, [content |-> Blank, final |-> FALSE,
                                     output |-> 0, validated |-> NoContent])
    /\ caseStatus' = Started
    /\ UNCHANGED <<documents, submissions, reviewVars>>

\* A page update; only FINAL (and VOID) packages refuse it.
EditPackage(p, c) ==
    /\ Editable
    /\ ~packages[p].final
    /\ packages' = [packages EXCEPT ![p].content = c]
    /\ UNCHANGED <<caseStatus, documents, submissions, reviewVars>>

\* save_manual_fields on the newest package: a new value reopens the report
\* and forgets its output document.
ReopenPackage(c) ==
    /\ Editable
    /\ packages # <<>>
    /\ packages' = [packages EXCEPT ![Len(packages)] =
                       [@ EXCEPT !.content = c, !.final = FALSE, !.output = 0]]
    /\ UNCHANGED <<caseStatus, documents, submissions, reviewVars>>

\* validate reads the case with a lock but does not ask for an editable one;
\* every problem is a WARNING, so the forms always become CHECKED.
ValidatePackage(p) ==
    /\ packages' = [packages EXCEPT ![p].validated = packages[p].content,
                                    ![p].final = FALSE]
    /\ UNCHANGED <<caseStatus, documents, submissions, reviewVars>>

---------------------------------------------------------------------------
(* Documents *)

InGroup(g) == {i \in DOMAIN documents : documents[i].group = g}

\* v is the highest version of the group plus one (next_version).
IsNextVersion(g, v) ==
    /\ \A i \in InGroup(g) : documents[i].version < v
    /\ v = 1 \/ \E i \in InGroup(g) : documents[i].version = v - 1

Deactivated(g) ==
    [i \in DOMAIN documents |->
        IF documents[i].group = g THEN [documents[i] EXCEPT !.active = FALSE]
                                  ELSE documents[i]]

ActiveWith(bytes) ==
    {i \in DOMAIN documents : documents[i].active /\ documents[i].bytes = bytes}

\* get_by_checksum: of the active rows with these bytes, one of the highest
\* version.
Identical(bytes) ==
    {i \in ActiveWith(bytes) :
        \A j \in ActiveWith(bytes) : documents[j].version <= documents[i].version}

Finalised(p, d) == [packages EXCEPT ![p].final = TRUE, ![p].output = d]

\* generate, when the PDF already exists: the package adopts that document.
ReuseReport(p, d) ==
    /\ Editable
    /\ packages[p].validated = packages[p].content
    /\ documents[d].type = "report"
    /\ d \in Identical(Pdf(packages[p].content, 0))
    /\ packages' = Finalised(p, d)
    /\ UNCHANGED <<caseStatus, documents, submissions, reviewVars>>

\* generate, otherwise: the next version in the group of the package's
\* current output, or the first version of a group of its own.
GenerateReport(p, k) ==
    LET d     == Len(documents) + 1
        group == IF packages[p].output = 0 THEN d
                 ELSE documents[packages[p].output].group
        bytes == Pdf(packages[p].content, k)
    IN  /\ Editable
        /\ packages[p].validated = packages[p].content
        /\ ActiveWith(bytes) = {}
        /\ d <= MaxDocuments
        /\ \E v \in 1..MaxDocVersion :
              /\ IsNextVersion(group, v)
              /\ documents' = Append(Deactivated(group),
                    [type |-> "report", group |-> group, version |-> v,
                     active |-> TRUE, bytes |-> bytes])
        /\ packages' = Finalised(p, d)
        /\ UNCHANGED <<caseStatus, submissions, reviewVars>>

\* generate_template_exports: one row per package, created as version 1 and
\* from then on overwritten in place.  (Six workbooks of the code are one
\* document here.)
ExportTemplates(p) ==
    /\ Editable
    /\ IF InGroup(-p) = {}
       THEN /\ Len(documents) < MaxDocuments
            /\ documents' = Append(documents,
                  [type |-> "template", group |-> -p, version |-> 1,
                   active |-> TRUE, bytes |-> Xlsx(packages[p].content)])
       ELSE documents' = [i \in DOMAIN documents |->
               IF i \in InGroup(-p)
               THEN [documents[i] EXCEPT !.bytes = Xlsx(packages[p].content)]
               ELSE documents[i]]
    /\ UNCHANGED <<caseStatus, packages, submissions, reviewVars>>

\* The most recent removed row with these bytes.
Removed(bytes) ==
    {i \in DOMAIN documents :
        /\ ~documents[i].active /\ documents[i].bytes = bytes
        /\ \A j \in DOMAIN documents :
              (~documents[j].active /\ documents[j].bytes = bytes) => j <= i}

\* DocumentService.upload of a file of category complete-valuation-report,
\* g # 0 when the caller names a version group.
UploadReport(bytes, g) ==
    LET removed == Removed(bytes)
        group   == IF g # 0 THEN g
                   ELSE IF removed # {} THEN documents[CHOOSE i \in removed : TRUE].group
                   ELSE Len(documents) + 1
    IN  /\ Editable
        /\ ActiveWith(bytes) = {}
        /\ g # 0 => \E i \in InGroup(g) : documents[i].type = "report"
        /\ \E v \in 1..MaxDocVersion :
              /\ IsNextVersion(group, v)
              /\ \/ /\ removed = {}
                    /\ Len(documents) < MaxDocuments
                    /\ documents' = Append(Deactivated(group),
                          [type |-> "report", group |-> group, version |-> v,
                           active |-> TRUE, bytes |-> bytes])
                 \/ \E i \in removed :
                       /\ \A j \in InGroup(documents[i].group) \ {i} :
                             documents[j].version # v
                       /\ documents' = [Deactivated(group) EXCEPT
                                           ![i].version = v, ![i].active = TRUE]
        /\ UNCHANGED <<caseStatus, packages, submissions, reviewVars>>

---------------------------------------------------------------------------
(* Handoff to the review *)

\* Mutant: a revision need not be newer than what was submitted.
SubmittableAgain == caseStatus \in {"PROCESSING", "REVISION_REQUIRED"}

\* The statuses of the case and the versions submit accepts: a revision must
\* be newer than the version submitted before it.
Submittable ==
    /\ caseStatus \in {"PROCESSING", "REVISION_REQUIRED"}
    /\ caseStatus = "REVISION_REQUIRED" =>
          /\ review.latestSubmission # 0
          /\ Len(packages) > submissions[review.latestSubmission].version

\* Everything submit does once the inputs are found valid; d is the source
\* document of the submission.
SubmitVersion(d, readiness, outcome) ==
    LET revision == caseStatus = "REVISION_REQUIRED"
    IN  /\ Submittable
        /\ submissions' = Append(submissions,
              [version |-> Len(packages), document |-> d,
               docVersion |-> documents[d].version, bytes |-> documents[d].bytes,
               readiness |-> readiness, outcome |-> outcome])
        /\ IF revision THEN \E i \in ActiveCorrections : Registers(i, d)
                       ELSE UNCHANGED corrections
        /\ review' = [review EXCEPT !.latestSubmission = Len(submissions) + 1,
                                    !.status = IF revision THEN @ ELSE "RECEIVED"]
        /\ caseStatus' = "IN_REVIEW"
        /\ UNCHANGED <<packages, documents, runs, findings, decisions>>

\* The PDF handoff: the newest package must be FINAL, its output must be the
\* submitted document and a validation of it the source run.
SubmitReport(readiness, outcome) ==
    LET p == Len(packages)
        d == packages[p].output
    IN  /\ packages # <<>>
        /\ packages[p].final
        /\ packages[p].validated # NoContent
        /\ d # 0
        /\ documents[d].active /\ documents[d].type = "report"
        /\ readiness \in {"READY", "INCOMPLETE"}
        /\ SubmitVersion(d, readiness, outcome)

\* The Excel handoff: any active template document and any completed
\* validation of the case will do.  A snapshot whose source run belongs to
\* another package than the newest one is refused later, by the review.
SubmitTemplates(d, q, readiness, outcome) ==
    /\ documents[d].active /\ documents[d].type = "template"
    /\ packages[q].validated # NoContent
    /\ IF q = Len(packages) THEN readiness \in {"READY", "INCOMPLETE"}
                            ELSE readiness = "INVALID"
    /\ SubmitVersion(d, readiness, outcome)

---------------------------------------------------------------------------
(* The review of the latest submission *)

Latest == submissions[review.latestSubmission]

\* A platform review reads the frozen snapshot only, so whether it is
\* complete and what its rules find is decided at submission; an INVALID
\* snapshot makes every operation that loads it raise.
Loadable == review.latestSubmission # 0 /\ Latest.readiness # "INVALID"

Complete == Latest.readiness = "READY"

BaseDocument == [document |-> Latest.document, version |-> Latest.docVersion]

ReviewStep ==
    \/ Loadable /\ Preflight(Complete)
    \/ Loadable /\ StartReview(Complete, Latest.outcome)
    \/ Loadable /\ CreateRun(Complete, Latest.outcome)
    \/ \E target \in MutableStatuses \cup {"PENDING_MATERIALS"} : UpdateReview(target)
    \/ \E r \in Rules, decision \in TriageDecisions : TriageFinding(r, decision)
    \/ review.latestSubmission # 0 /\ CreateCorrectionDraft(BaseDocument)
    \/ \E i \in DOMAIN corrections :
          \/ SendCorrection(i)
          \/ \E d \in DOMAIN documents : RegisterResubmission(i, d)
          \/ Loadable /\ ~Complete /\ RecheckIncomplete(i)
          \/ Loadable /\ Complete /\ RecheckComplete(i, Latest.outcome)
    \/ CompleteReview

Review == ReviewStep /\ UNCHANGED <<documents, submissions, packages>>

Owner ==
    \/ BeginWork \/ ArchiveCase \/ CreatePackage
    \/ \E c \in Contents : ReopenPackage(c)
    \/ \E p \in DOMAIN packages :
          \/ \E c \in Contents : EditPackage(p, c)
          \/ ValidatePackage(p)
          \/ \E d \in DOMAIN documents : ReuseReport(p, d)
          \/ \E k \in {0, Len(documents) + 1} : GenerateReport(p, k)
          \/ ExportTemplates(p)
    \/ \E g \in {0} \cup {documents[i].group : i \in DOMAIN documents} :
          \/ \E c \in Contents : UploadReport(Pdf(c, 0), g)
          \/ \E i \in DOMAIN documents :
                documents[i].type = "report" /\ UploadReport(documents[i].bytes, g)
    \/ \E outcome \in RuleOutcomes, readiness \in {"READY", "INCOMPLETE", "INVALID"} :
          \/ SubmitReport(readiness, outcome)
          \/ \E d \in DOMAIN documents, q \in DOMAIN packages :
                SubmitTemplates(d, q, readiness, outcome)

Next == Owner \/ Review

Spec == Init /\ [][Next]_vars

---------------------------------------------------------------------------
(* What must hold *)

\* A completed review was earned: its newest run examined the newest version,
\* left no finding standing, no request is open, and the one approval in the
\* log is the last decision and is about that run (complete_review, whose
\* gates read four tables, against everything that may happen after it).
CompletionSound ==
    review.status = "REVIEW_COMPLETED" =>
        /\ HasRun
        /\ runs[review.latestRun].submission = review.latestSubmission
        /\ \A r \in Rules : LatestFindings[r] \in {"NONE", "DISMISSED_FALSE_POSITIVE"}
        /\ ActiveCorrections = {}
        /\ caseStatus \in {"REVIEW_COMPLETED", "ARCHIVED"}
        /\ decisions # <<>>
        /\ decisions[Len(decisions)] = [decision |-> "APPROVED",
                                       run      |-> review.latestRun]

\* There is never more than one open correction request; it is the newest, it
\* is about the newest run, and its frozen items are exactly the findings of
\* that run that are confirmed now, so what the owner was asked to correct is
\* what the reviewer confirmed (create_draft, send, recheck, triage).
OpenRequestMirrorsRun ==
    \A i \in ActiveCorrections :
        /\ i = Len(corrections)
        /\ corrections[i].run = review.latestRun
        /\ corrections[i].items = ItemsFor(LatestFindings)

\* The three statuses agree on whose turn it is: a case under revision has a
\* returned review and a request that was sent; a case in review has no sent
\* request the owner should be answering (send, submit, archive).
WhoseTurn ==
    /\ caseStatus = "REVISION_REQUIRED" =>
          /\ review.status = "RETURNED_FOR_REVISION"
          /\ \E i \in ActiveCorrections : corrections[i].status # "DRAFT"
    /\ caseStatus = "IN_REVIEW" =>
          \A i \in DOMAIN corrections : corrections[i].status # "SENT"
    /\ caseStatus \in {"DRAFT", "PROCESSING"} => submissions = <<>>

\* Each run examines a version no earlier run examined: a review cannot be
\* analysed twice until the findings come out right (create_run, recheck).
RunsExamineNewVersions ==
    \A i, j \in DOMAIN runs : i < j => runs[i].submission < runs[j].submission

\* A request counts as rechecked only by the run that followed its own, over
\* a later submission, of the very document registered as the response, in a
\* version later than the one the request was about (registration, submit and
\* recheck, in three requests of two users).
RecheckedByItsResponse ==
    \A i \in DOMAIN corrections : ~Active(i) =>
        LET c == corrections[i]
        IN  /\ c.run + 1 \in DOMAIN runs
            /\ LET s == submissions[runs[c.run + 1].submission]
               IN  /\ runs[c.run + 1].submission > runs[c.run].submission
                   /\ s.document = c.response
                   /\ s.docVersion > c.baseVersion

\* While the reviewer works on a version, and when it is approved, the stored
\* document is the one that was frozen: no owner operation replaces, hides
\* or renumbers it (exports, uploads and generation against submit).
ReviewedFileIntact ==
    caseStatus \in {"IN_REVIEW", "REVIEW_COMPLETED"} =>
        LET d == documents[Latest.document]
        IN  d.active /\ d.bytes = Latest.bytes /\ d.version = Latest.docVersion

\* Once a run was the ground of a decision, its findings are never triaged
\* differently, and no decision is taken back (triage against send and
\* complete_review).
DecidedRunsFrozen ==
    [][/\ \A k \in DOMAIN decisions :
             /\ k \in DOMAIN decisions' /\ decisions'[k] = decisions[k]
             /\ findings'[decisions[k].run] = findings[decisions[k].run]
       /\ \A k \in DOMAIN decisions' :
             decisions'[k].run = review'.latestRun \/ k \in DOMAIN decisions]_vars

---------------------------------------------------------------------------
(* The refinement to VersionVerdicts *)

\* The decisions taken on the runs of submission n.
DecisionsOn(n) ==
    {k \in DOMAIN decisions : runs[decisions[k].run].submission = n}

Rounds ==
    [n \in DOMAIN submissions |->
        [version |-> submissions[n].version,
         verdict |-> IF DecisionsOn(n) = {} THEN "NONE"
                     ELSE decisions[CHOOSE k \in DecisionsOn(n) : TRUE].decision]]

Handoff == INSTANCE VersionVerdicts WITH rounds <- Rounds, Versions <- 1..MaxPackages

\* The whole workflow implements the handoff: one verdict for each version,
\* never revised; a new version only after a return; none after an approval.
HandoffRefined == Handoff!Spec
=============================================================================
