---------------------------- MODULE ReviewWorkflow ----------------------------
(***************************************************************************)
(* The review aggregate: one valuation case, its review, the runs and      *)
(* findings of that review, its correction requests and its case-level     *)
(* decisions.  Every action is one committed transaction of a service      *)
(* operation of app/review: the operation locks the review (and the case,  *)
(* where it changes it) with SELECT ... FOR UPDATE before it reads what it *)
(* decides on, and the request's transaction commits as a whole or not at  *)
(* all, so an operation that raises is no step.                            *)
(*                                                                         *)
(* The module is a library of actions: PlatformReview composes it with the *)
(* owner's side of the case and gives the specification.                   *)
(***************************************************************************)
EXTENDS ReviewPolicy

VARIABLES
    caseStatus,     \* valuation.cases.case_status
    documents,      \* valuation.documents, in order of creation
    submissions,    \* app_review.review_submissions, by submission_no
    review,         \* the row of app_review.reviews
    runs,           \* the review's validation runs, by run_no
    findings,       \* the findings of each run
    corrections,    \* correction requests, by request_no
    decisions       \* case-level rows of the review decision log

reviewVars == <<review, runs, findings, corrections, decisions>>

---------------------------------------------------------------------------

CaseStatuses ==
    {"DRAFT", "PROCESSING", "IN_REVIEW", "REVISION_REQUIRED",
     "REVIEW_COMPLETED", "ARCHIVED"}

\* Every correction request is in one of these; RECHECKED is the only one
\* that is not "active".  RECHECKING is written and overwritten inside one
\* transaction and is never committed.
CorrectionStatuses == {"DRAFT", "SENT", "RESUBMITTED", "RECHECKED"}

Active(i) == corrections[i].status # "RECHECKED"

ActiveCorrections == {i \in DOMAIN corrections : Active(i)}

HasRun == review.latestRun # 0

LatestFindings == IF HasRun THEN findings[review.latestRun] ELSE NoFindings

\* ensure_transition, as a conjunct of the actions that call it
Moves(target) == CanMove(review.status, target)

---------------------------------------------------------------------------
(* Completeness and runs *)

\* The effect of check_completeness once the review is PREPROCESSING: the
\* open missing items are synchronised with the result.
Checked(ready) ==
    [review EXCEPT !.status = IF ready THEN "READY_FOR_REVIEW"
                                       ELSE "PENDING_MATERIALS",
                   !.openMissing = ~ready]

\* The workbench preflight; POST completeness-check is the same step from
\* fewer statuses.
Preflight(ready) ==
    /\ review.status \in StartableStatuses
    /\ review' = Checked(ready)
    /\ UNCHANGED <<caseStatus, runs, findings, corrections, decisions>>

\* create_run: the run is created RUNNING and completed in one transaction.
RunCreated(outcome) ==
    /\ runs' = Append(runs, [submission |-> review.latestSubmission,
                             evaluated  |-> {r \in Rules : outcome[r] # "NOT_RUN"}])
    /\ findings' = Append(findings, FindingsOf(outcome))

\* The review after a run was created on it.
Analysed(rv) == [rv EXCEPT !.status = "REVIEW_REQUIRED",
                           !.latestRun = Len(runs) + 1]

\* The workbench start: preflight, and a run when nothing is missing.
StartReview(ready, outcome) ==
    /\ ready
    /\ review.status \in StartableStatuses
    /\ review' = Analysed(Checked(TRUE))
    /\ RunCreated(outcome)
    /\ UNCHANGED <<caseStatus, corrections, decisions>>

\* Mutant: a run may be repeated on a review that has been analysed.
CreateRunAgain(ready, outcome) ==
    /\ ready
    /\ review.status \in {"READY_FOR_REVIEW", "REVIEW_REQUIRED"}
    /\ review' = Analysed(review)
    /\ RunCreated(outcome)
    /\ UNCHANGED <<caseStatus, corrections, decisions>>

\* POST runs and POST rerun: no completeness check of their own, but the
\* evidence of the run is resolved again and its problems are raised.
CreateRun(ready, outcome) ==
    /\ ready
    /\ Moves("ANALYZING")
    /\ review' = Analysed(review)
    /\ RunCreated(outcome)
    /\ UNCHANGED <<caseStatus, corrections, decisions>>

\* PATCH of the review status.
UpdateReview(target) ==
    /\ review.status \in MutableStatuses
    /\ target \notin DecisionOnlyStatuses
    /\ Moves(target)
    /\ review' = [review EXCEPT !.status = target]
    /\ UNCHANGED <<caseStatus, runs, findings, corrections, decisions>>

\* Mutant: a finding may be triaged again, whatever the review's status.
TriageFindingAgain(r, decision) ==
    /\ HasRun
    /\ findings[review.latestRun][r] # "NONE"
    /\ findings' = [findings EXCEPT ![review.latestRun][r] = decision]
    /\ UNCHANGED <<caseStatus, review, runs, corrections, decisions>>

\* Triage of one OPEN finding of the latest run.
TriageFinding(r, decision) ==
    /\ review.status \in TriageStatuses
    /\ HasRun
    /\ findings[review.latestRun][r] = "OPEN"
    /\ findings' = [findings EXCEPT ![review.latestRun][r] = decision]
    /\ UNCHANGED <<caseStatus, review, runs, corrections, decisions>>

---------------------------------------------------------------------------
(* Correction requests *)

\* Mutant: drafts are not refused while another request is open.
CreateCorrectionDraftTwice(base) ==
    /\ review.status \in CorrectionRequestStatuses
    /\ SendGate(HasRun, LatestFindings)
    /\ corrections' = Append(corrections,
          [status      |-> "DRAFT",
           run         |-> review.latestRun,
           base        |-> base.document,
           baseVersion |-> base.version,
           response    |-> 0,
           items       |-> ItemsFor(LatestFindings)])
    /\ UNCHANGED <<caseStatus, review, runs, findings, decisions>>

\* base is the document the request is about: the one frozen in the latest
\* submission, or the latest original of a case without submissions.
CreateCorrectionDraft(base) ==
    /\ review.status \in CorrectionRequestStatuses
    /\ SendGate(HasRun, LatestFindings)
    /\ ActiveCorrections = {}
    /\ corrections' = Append(corrections,
          [status      |-> "DRAFT",
           run         |-> review.latestRun,
           base        |-> base.document,
           baseVersion |-> base.version,
           response    |-> 0,
           items       |-> ItemsFor(LatestFindings)])
    /\ UNCHANGED <<caseStatus, review, runs, findings, decisions>>

SendCorrection(i) ==
    /\ review.status \in CorrectionRequestStatuses
    /\ corrections[i].status = "DRAFT"
    /\ corrections[i].run = review.latestRun
    /\ SendGate(HasRun, LatestFindings)
    /\ Moves("RETURNED_FOR_REVISION")
    /\ corrections' = [corrections EXCEPT ![i].status = "SENT"]
    /\ review' = [review EXCEPT !.status = "RETURNED_FOR_REVISION"]
    /\ caseStatus' = "REVISION_REQUIRED"
    /\ decisions' = Append(decisions, [decision |-> "RETURNED_FOR_REVISION",
                                       run      |-> review.latestRun])
    /\ UNCHANGED <<runs, findings>>

\* Mutant: the same version answers the request (>= for >).
ValidResubmissionSame(c, d) ==
    /\ documents[d].active
    /\ documents[d].version >= c.baseVersion
    /\ documents[d].group = documents[c.base].group

\* valid_resubmission_document: an active, later version of the base
\* document's version group.
ValidResubmission(c, d) ==
    /\ documents[d].active
    /\ documents[d].version > c.baseVersion
    /\ documents[d].group = documents[c.base].group

\* Mutant: the response is stored and the status is left behind.
RegistersSilently(i, d) ==
    /\ corrections[i].status = "SENT"
    /\ review.status \in RecheckStatuses
    /\ ValidResubmission(corrections[i], d)
    /\ corrections' = [corrections EXCEPT ![i].response = d]

\* _register_locked_resubmission, for a platform case
Registers(i, d) ==
    /\ corrections[i].status = "SENT"
    /\ review.status \in RecheckStatuses
    /\ ValidResubmission(corrections[i], d)
    /\ corrections' = [corrections EXCEPT ![i].status = "RESUBMITTED",
                                          ![i].response = d]

\* The reviewers' endpoint that registers a response document by itself.
RegisterResubmission(i, d) ==
    /\ Registers(i, d)
    /\ UNCHANGED <<caseStatus, review, runs, findings, decisions>>

\* The guards of recheck on the lineage between the request, its run, the
\* latest submission and the registered response.
RecheckLineage(c) ==
    LET previous == runs[c.run].submission
        latest   == review.latestSubmission
    IN  /\ previous # 0 => latest \notin {0, previous}
        /\ latest # 0 => submissions[latest].document = c.response

\* Mutant: the intermediate status is committed.
RecheckIncompleteRechecking(i) ==
    /\ review.status \in RecheckStatuses
    /\ corrections[i].status = "RESUBMITTED"
    /\ RecheckLineage(corrections[i])
    /\ review' = Checked(FALSE)
    /\ corrections' = [corrections EXCEPT ![i].status = "RECHECKING"]
    /\ UNCHANGED <<caseStatus, runs, findings, decisions>>

\* Mutant: the items are opened and the status is left behind.
RecheckIncompleteReturned(i) ==
    /\ review.status \in RecheckStatuses
    /\ corrections[i].status = "RESUBMITTED"
    /\ RecheckLineage(corrections[i])
    /\ review' = [review EXCEPT !.openMissing = TRUE]
    /\ UNCHANGED <<caseStatus, runs, findings, corrections, decisions>>

\* recheck of an incomplete version: the missing items and the request's
\* RESUBMITTED status are committed although the caller sees an error.
RecheckIncomplete(i) ==
    /\ review.status \in RecheckStatuses
    /\ corrections[i].status = "RESUBMITTED"
    /\ RecheckLineage(corrections[i])
    /\ review' = Checked(FALSE)
    /\ UNCHANGED <<caseStatus, runs, findings, corrections, decisions>>

\* recheck of a complete version: a new run supersedes the previous one and
\* decides the request's items.
RecheckComplete(i, outcome) ==
    /\ review.status \in RecheckStatuses
    /\ corrections[i].status = "RESUBMITTED"
    /\ RecheckLineage(corrections[i])
    /\ review' = Analysed(Checked(TRUE))
    /\ RunCreated(outcome)
    /\ corrections' =
          [corrections EXCEPT
             ![i].status = "RECHECKED",
             ![i].items  = RecheckItems(@, corrections[i].run = review.latestRun,
                                        outcome)]
    /\ UNCHANGED <<caseStatus, decisions>>

---------------------------------------------------------------------------
(* Completion *)

CompleteReview ==
    /\ review.status \in CompletionStatuses
    /\ HasRun => runs[review.latestRun].submission = review.latestSubmission
    /\ FindingsAllowCompletion(HasRun, LatestFindings)
    /\ ~review.openMissing
    /\ ActiveCorrections = {}
    /\ \A i \in DOMAIN corrections : ~Some(corrections[i].items, "NOT_EVALUATED")
    /\ decisions' = Append(decisions, [decision |-> "APPROVED",
                                       run      |-> review.latestRun])
    /\ review' = [review EXCEPT !.status = "REVIEW_COMPLETED"]
    /\ caseStatus' = "REVIEW_COMPLETED"
    /\ UNCHANGED <<runs, findings, corrections>>
=============================================================================
