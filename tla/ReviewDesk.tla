------------------------------ MODULE ReviewDesk ------------------------------
(***************************************************************************)
(* What reviewers do beside the decisions: assignment, priority, the       *)
(* request for missing material, and the intake of external cases          *)
(* (app/review/service.py, workbench_service.py).  These operations look   *)
(* at the status of an unlocked read and write in a later statement, while *)
(* the review goes on.                                                     *)
(***************************************************************************)
EXTENDS ReviewRounds

CONSTANTS
    Sessions,    \* requests of the reviewers, one database session each
    Reviewers    \* who a review may be assigned to

VARIABLES
    reviewer,    \* reviews.assigned_reviewer_id
    priority,    \* reviews.manual_priority is set
    notified,    \* the open missing items have been asked for
    session      \* the sessions

deskVars == <<roundVars, reviewer, priority, notified, session>>

DeskAssumption == Sessions # {} /\ Reviewers # {}

---------------------------------------------------------------------------

Nobody == "nobody"

Ops == {"assign", "prioritize", "supplement", "upload", "extract", "confirm"}

IntakeOps == {"upload", "extract", "confirm"}

SupplementStatuses == {"PENDING_MATERIALS", "SUPPLEMENT_REQUIRED"}

IntakeStatuses ==
    {"RECEIVED", "PREPROCESSING", "PENDING_MATERIALS", "READY_FOR_REVIEW",
     "RETURNED_FOR_REVISION", "SUPPLEMENT_REQUIRED"}

\* seen is the row of the review the status was read from.
SessionStates ==
    [pc : {"idle", "write", "error"}, op : Ops, reviewer : Reviewers \cup {Nobody},
     seen : [status : ReviewStatuses, latestSubmission : Nat, latestRun : Nat,
             openMissing : BOOLEAN]]

DeskTypeOK ==
    /\ RoundsTypeOK
    /\ reviewer \in Reviewers \cup {Nobody}
    /\ priority \in BOOLEAN /\ notified \in BOOLEAN
    /\ session \in [Sessions -> SessionStates]

NewReview == [status |-> "RECEIVED", latestSubmission |-> 0, latestRun |-> 0,
              openMissing |-> FALSE]

Idle == [pc |-> "idle", op |-> "assign", reviewer |-> Nobody, seen |-> NewReview]

\* create_external_case: the case is in review from the beginning and has
\* neither documents nor submissions; its reviewer is who created it.
ExternalInit ==
    /\ caseStatus = "IN_REVIEW"
    /\ documents = <<>> /\ submissions = <<>>
    /\ review = NewReview
    /\ runs = <<>> /\ findings = <<>> /\ corrections = <<>> /\ decisions = <<>>
    /\ triaged = {}
    /\ reviewer \in Reviewers

DeskInit ==
    /\ \/ RoundsInit /\ reviewer = Nobody
       \/ ExternalInit
    /\ priority = FALSE /\ notified = FALSE
    /\ session = [s \in Sessions |-> Idle]

External == submissions = <<>>

---------------------------------------------------------------------------
(* The review goes on *)

\* Without a document a case is never complete.
Progress ==
    /\ \/ ~External /\ RoundStep
       \/ /\ UNCHANGED <<documents, submissions, triaged>>
          /\ \/ External /\ Preflight(FALSE)
             \/ \E target \in MutableStatuses : UpdateReview(target)
    /\ notified' = (notified /\ review'.openMissing)
    /\ UNCHANGED <<reviewer, priority, session>>

---------------------------------------------------------------------------
(* The operations of the desk *)

\* The statuses an operation is allowed in (status_policy.py).
AllowedIn(op) ==
    CASE op \in {"assign", "prioritize"} -> MutableStatuses
      [] op = "supplement"               -> SupplementStatuses
      [] OTHER                           -> IntakeStatuses

\* The status is read and checked.
Begin(s, op, who) ==
    /\ session[s].pc # "write"
    /\ review.status \in AllowedIn(op)
    /\ op \in IntakeOps => External
    /\ who # Nobody <=> op = "assign"
    /\ session' = [session EXCEPT ![s] = [pc |-> "write", op |-> op, reviewer |-> who,
                                          seen |-> review]]
    /\ UNCHANGED <<roundVars, reviewer, priority, notified>>

End(s) == session' = [session EXCEPT ![s] = Idle]

Writes(s, op) == session[s].pc = "write" /\ session[s].op = op

\* Mutant: every column of the row that was read is written.
AssignWhole(s) ==
    /\ Writes(s, "assign")
    /\ reviewer' = session[s].reviewer
    /\ review' = [session[s].seen EXCEPT !.openMissing = review.openMissing]
    /\ End(s)
    /\ UNCHANGED <<caseStatus, documents, submissions, runs, findings, corrections,
                   decisions, triaged, priority, notified>>

\* The row is locked and read again; only the reviewer is written.
Assign(s) ==
    /\ Writes(s, "assign")
    /\ reviewer' = session[s].reviewer
    /\ End(s) /\ UNCHANGED <<roundVars, priority, notified>>

SetPriority(s) ==
    /\ Writes(s, "prioritize")
    /\ priority' = TRUE
    /\ End(s) /\ UNCHANGED <<roundVars, reviewer, notified>>

\* The items that are still open get a date and a pending notification.
RequestSupplement(s) ==
    /\ Writes(s, "supplement")
    /\ notified' = (notified \/ review.openMissing)
    /\ End(s) /\ UNCHANGED <<roundVars, reviewer, priority>>

\* The services of the valuation side are called with arguments they do not
\* have (_skip_case_access, _apply_for_review): a TypeError.
Intake(s) ==
    /\ session[s].pc = "write" /\ session[s].op \in IntakeOps
    /\ session' = [session EXCEPT ![s].pc = "error", ![s].seen = NewReview]
    /\ UNCHANGED <<roundVars, reviewer, priority, notified>>

Desk ==
    \E s \in Sessions :
        \/ \E op \in Ops, who \in Reviewers \cup {Nobody} : Begin(s, op, who)
        \/ Assign(s) \/ SetPriority(s) \/ RequestSupplement(s) \/ Intake(s)

DeskNext == Progress \/ Desk

DeskSpec == DeskInit /\ [][DeskNext]_deskVars

---------------------------------------------------------------------------
(* What must hold *)

\* A review with open missing items waits for material, whatever a request
\* for supplements that was read earlier writes later.
OpenItemsBlock == review.openMissing => review.status = "PENDING_MATERIALS"

\* No operation that read the review before takes its completion back.
CompletedStays ==
    review.status = "REVIEW_COMPLETED" => review' = review

\* So it is after every step.
CompletionStays == [][CompletedStays]_deskVars
=============================================================================
