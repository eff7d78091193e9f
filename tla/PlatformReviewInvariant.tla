----------------------- MODULE PlatformReviewInvariant -----------------------
(***************************************************************************)
(* The inductive invariant behind the safety properties of PlatformReview: *)
(* what the rows of the owner, the review and the correction requests say  *)
(* about each other between any two operations.  TLC checks it on the      *)
(* small instances, PlatformReviewProofs proves it.                        *)
(***************************************************************************)
EXTENDS PlatformReview

---------------------------------------------------------------------------
(* Rows and references *)

\* The rows name rows that exist: the output of a package is a document, the
\* latest pointers of the review name the newest submission and run, and each
\* run has its findings.
References ==
    /\ \A p \in DOMAIN packages : packages[p].output \in 0..Len(documents)
    /\ review.latestSubmission = Len(submissions)
    /\ review.latestRun = Len(runs)
    /\ Len(findings) = Len(runs)

TypeInv == TypeOK /\ References

---------------------------------------------------------------------------
(* Statuses, runs, requests *)

\* Statuses of a review that was never analysed.
Unanalysed ==
    {"NONE", "RECEIVED", "PREPROCESSING", "READY_FOR_REVIEW", "ANALYZING"}

\* The newest run examined the newest submission.
Examined == runs[review.latestRun].submission = review.latestSubmission

\* Where the statuses of case and review can be together, and what runs and
\* requests there are then.
Phases ==
    /\ review.status \notin {"EXPERT_REVIEW", "APPROVED", "SUPPLEMENT_REQUIRED"}
    /\ review.status = "NONE" <=> submissions = <<>>
    /\ caseStatus \in {"DRAFT", "PROCESSING"} => submissions = <<>>
    /\ caseStatus = "IN_REVIEW" => submissions # <<>>
    /\ caseStatus = "REVISION_REQUIRED" =>
          /\ review.status = "RETURNED_FOR_REVISION"
          /\ Examined
          /\ corrections # <<>>
          /\ corrections[Len(corrections)].status \in {"SENT", "RESUBMITTED"}
    /\ caseStatus = "REVIEW_COMPLETED" => review.status = "REVIEW_COMPLETED"
    /\ review.status \in Unanalysed => ~HasRun
    /\ review.status \in {"RETURNED_FOR_REVISION", "REVIEW_COMPLETED"} => HasRun
    /\ review.status = "PENDING_MATERIALS" /\ HasRun => Loadable /\ ~Complete
    /\ review.status = "REVIEW_REQUIRED" /\ HasRun => Examined

\* Runs examine submissions, in order.
RunOrder ==
    /\ \A i \in DOMAIN runs : runs[i].submission \in 1..Len(submissions)
    /\ RunsExamineNewVersions

\* The submission s answers the request c.
Answers(s, c) == s.document = c.response /\ s.docVersion > c.baseVersion

\* What each status of a request says of the review, the runs and the latest
\* submission.
RequestOK(i) ==
    LET c == corrections[i]
    IN  /\ c.run \in DOMAIN runs
        /\ c.status # "RECHECKED" =>
              /\ i = Len(corrections)
              /\ c.run = review.latestRun
              /\ c.items = ItemsFor(findings[review.latestRun])
              /\ ~Some(findings[review.latestRun], "OPEN")
        /\ c.status = "DRAFT" => review.status = "REVIEW_REQUIRED"
        /\ c.status = "SENT" =>
              /\ review.status = "RETURNED_FOR_REVISION"
              /\ caseStatus # "IN_REVIEW"
              /\ Examined
        /\ c.status = "RESUBMITTED" =>
              /\ review.status \in {"RETURNED_FOR_REVISION", "PENDING_MATERIALS"}
              /\ ~Examined => Answers(Latest, c)
        /\ c.status = "RECHECKED" =>
              /\ c.run + 1 \in DOMAIN runs
              /\ runs[c.run + 1].submission > runs[c.run].submission
              /\ Answers(submissions[runs[c.run + 1].submission], c)

Requests == \A i \in DOMAIN corrections : RequestOK(i)

\* Decisions rest on runs all of whose findings were decided.
Decided ==
    \A k \in DOMAIN decisions :
        /\ decisions[k].run \in DOMAIN runs
        /\ ~Some(findings[decisions[k].run], "OPEN")

\* From its submission until it is returned, also while the case is archived,
\* the stored document is the frozen one.
Intact ==
    /\ Latest.document \in DOMAIN documents
    /\ LET d == documents[Latest.document]
       IN  d.active /\ d.bytes = Latest.bytes /\ d.version = Latest.docVersion

FrozenFile ==
    \/ review.status = "NONE"
    \/ review.status = "RETURNED_FOR_REVISION" /\ caseStatus # "IN_REVIEW" /\ Examined
    \/ Intact

\* What the rows of both sides say about each other between any two operations
\* (every operation of app/review and app/valuation that the actions model).
IInv ==
    /\ TypeInv /\ Phases /\ RunOrder /\ Requests /\ Decided
    /\ CompletionSound /\ FrozenFile

---------------------------------------------------------------------------
(* The decision log, as the refinement to VersionVerdicts reads it *)

\* Versions stay within their bound. Decisions follow the order of the runs, at
\* most one for each; the newest run has none while it is reviewed and was
\* returned by the last one while the review is returned.
DecisionLog ==
    /\ Len(packages) <= MaxPackages
    /\ \A k, l \in DOMAIN decisions : k < l => decisions[k].run < decisions[l].run
    /\ review.status = "REVIEW_REQUIRED" =>
          \A k \in DOMAIN decisions : decisions[k].run # review.latestRun
    /\ review.status = "RETURNED_FOR_REVISION" =>
          /\ decisions # <<>>
          /\ decisions[Len(decisions)] = [decision |-> "RETURNED_FOR_REVISION",
                                          run      |-> review.latestRun]

LogInv == IInv /\ DecisionLog
=============================================================================
