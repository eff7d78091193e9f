----------------------------- MODULE ReviewPolicy -----------------------------
(***************************************************************************)
(* The tables and the pure gates of the review workflow: the transition    *)
(* table of app/review/service.py, the per-operation status sets of        *)
(* app/review/status_policy.py, and the two gates of                       *)
(* app/review/corrections.py.  A constant module: it has no state.         *)
(***************************************************************************)
EXTENDS Integers, Sequences

CONSTANT Rules      \* identities of the validation rules (validation_rule_id)

---------------------------------------------------------------------------

\* "NONE" stands for a case that has no row in app_review.reviews yet.
ReviewStatuses ==
    {"NONE", "RECEIVED", "PREPROCESSING", "PENDING_MATERIALS",
     "READY_FOR_REVIEW", "ANALYZING", "REVIEW_REQUIRED",
     "RETURNED_FOR_REVISION", "SUPPLEMENT_REQUIRED", "EXPERT_REVIEW",
     "APPROVED", "REVIEW_COMPLETED"}

AllowedTransitions ==
    {<<"RECEIVED", "PREPROCESSING">>,
     <<"PREPROCESSING", "PENDING_MATERIALS">>,
     <<"PREPROCESSING", "READY_FOR_REVIEW">>,
     <<"PENDING_MATERIALS", "PREPROCESSING">>,
     <<"READY_FOR_REVIEW", "PREPROCESSING">>,
     <<"READY_FOR_REVIEW", "ANALYZING">>,
     <<"ANALYZING", "REVIEW_REQUIRED">>,
     <<"REVIEW_REQUIRED", "RETURNED_FOR_REVISION">>,
     <<"REVIEW_REQUIRED", "SUPPLEMENT_REQUIRED">>,
     <<"REVIEW_REQUIRED", "EXPERT_REVIEW">>,
     <<"REVIEW_REQUIRED", "APPROVED">>,
     <<"RETURNED_FOR_REVISION", "PREPROCESSING">>,
     <<"SUPPLEMENT_REQUIRED", "PREPROCESSING">>,
     <<"EXPERT_REVIEW", "REVIEW_REQUIRED">>,
     <<"APPROVED", "REVIEW_COMPLETED">>}

CanMove(current, target) == <<current, target>> \in AllowedTransitions

\* Mutant: a returned review can be patched on.
MutableStatusesReturned ==
    {"RECEIVED", "PREPROCESSING", "READY_FOR_REVIEW", "ANALYZING",
     "REVIEW_REQUIRED", "EXPERT_REVIEW", "RETURNED_FOR_REVISION"}

MutableStatuses ==
    {"RECEIVED", "PREPROCESSING", "READY_FOR_REVIEW", "ANALYZING",
     "REVIEW_REQUIRED", "EXPERT_REVIEW"}

StartableStatuses ==
    {"RECEIVED", "PREPROCESSING", "PENDING_MATERIALS", "READY_FOR_REVIEW"}

TriageStatuses == {"REVIEW_REQUIRED", "EXPERT_REVIEW"}

CorrectionRequestStatuses == {"REVIEW_REQUIRED"}

CompletionStatuses == {"REVIEW_REQUIRED"}

RecheckStatuses == {"RETURNED_FOR_REVISION"}

\* Targets the PATCH endpoint leaves to the decision operations.
DecisionOnlyStatuses ==
    {"RETURNED_FOR_REVISION", "SUPPLEMENT_REQUIRED", "EXPERT_REVIEW",
     "APPROVED", "REVIEW_COMPLETED"}

---------------------------------------------------------------------------

\* What a submitted snapshot says of each rule.  A rule without usable
\* evidence is skipped, and a rule of another rule version is not there at
\* all: neither is evaluated, which is "NOT_RUN".
RuleOutcomes == [Rules -> {"NOT_RUN", "PASSED", "FAILED"}]

TriageDecisions == {"CONFIRMED_ISSUE", "DISMISSED_FALSE_POSITIVE", "EXPERT_REVIEW"}

\* The findings of one run: at most one for each rule, "NONE" where the rule
\* raised none.
FindingSets == [Rules -> {"NONE", "OPEN"} \cup TriageDecisions]

NoFindings == [r \in Rules |-> "NONE"]

\* One finding for each rule that failed; rules that passed or did not run
\* leave nothing.
FindingsOf(outcome) ==
    [r \in Rules |-> IF outcome[r] = "FAILED" THEN "OPEN" ELSE "NONE"]

Some(findings, status) == \E r \in Rules : findings[r] = status

\* validate_correction_send, without the clause on other active requests.
SendGate(hasRun, findings) ==
    /\ hasRun
    /\ ~Some(findings, "OPEN")
    /\ ~Some(findings, "EXPERT_REVIEW")
    /\ Some(findings, "CONFIRMED_ISSUE")

\* Mutant: the gate forgets confirmed findings nobody corrected.
FindingsAllowCompletionConfirmed(hasRun, findings) ==
    /\ hasRun
    /\ ~Some(findings, "OPEN")
    /\ ~Some(findings, "EXPERT_REVIEW")

\* validate_review_completion, the clauses on the run and its findings.
FindingsAllowCompletion(hasRun, findings) ==
    /\ hasRun
    /\ ~Some(findings, "OPEN")
    /\ ~Some(findings, "CONFIRMED_ISSUE")
    /\ ~Some(findings, "EXPERT_REVIEW")

\* The items of a correction request and what the recheck made of each;
\* "NONE" for a rule the request has no item for.
ItemSets ==
    [Rules -> {"NONE", "PENDING", "RESOLVED", "STILL_PRESENT", "NOT_EVALUATED"}]

ItemsFor(findings) ==
    [r \in Rules |-> IF findings[r] = "CONFIRMED_ISSUE" THEN "PENDING" ELSE "NONE"]

\* The outcome of each item after a new run.  rerun links a new finding to
\* the finding of the same rule in the review's previous run; an item none of
\* whose findings was superseded is RESOLVED.
RecheckItems(items, sameRun, outcome) ==
    [r \in Rules |->
        IF items[r] = "NONE" THEN "NONE"
        ELSE IF sameRun /\ outcome[r] = "FAILED" THEN "STILL_PRESENT"
        ELSE "RESOLVED"]
=============================================================================
