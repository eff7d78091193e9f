----------------------------- MODULE ReviewRounds -----------------------------
(***************************************************************************)
(* The rounds of a review as its own operations see them: every action of  *)
(* ReviewWorkflow, and of the owner only the next report version and its   *)
(* submission.  The base of the modules about what reviewers do beside the *)
(* decisions.                                                              *)
(***************************************************************************)
EXTENDS ReviewWorkflow

CONSTANTS
    MaxSubmissions,     \* bound: versions submitted
    Readiness           \* whether a submitted version may be complete, or not

VARIABLE triaged    \* finding-level rows of the review decision log

roundVars == <<caseStatus, documents, submissions, review, runs, findings,
               corrections, decisions, triaged>>

RoundAssumption == MaxSubmissions \in Nat \ {0} /\ Readiness \subseteq BOOLEAN

---------------------------------------------------------------------------

TriageRows == [run : Nat, rule : Rules, decision : TriageDecisions]

RoundsTypeOK ==
    /\ caseStatus \in CaseStatuses
    /\ documents \in Seq([group : {1}, version : Nat, active : BOOLEAN])
    /\ submissions \in Seq([document : Nat, ready : BOOLEAN, outcome : RuleOutcomes])
    /\ review \in [status : ReviewStatuses, latestSubmission : Nat, latestRun : Nat,
                   openMissing : BOOLEAN]
    /\ runs \in Seq([submission : Nat, evaluated : SUBSET Rules])
    /\ findings \in Seq(FindingSets)
    /\ triaged \subseteq TriageRows

\* The first version has been submitted.
RoundsInit ==
    /\ caseStatus = "IN_REVIEW"
    /\ documents = <<[group |-> 1, version |-> 1, active |-> TRUE]>>
    /\ submissions \in {<<[document |-> 1, ready |-> b, outcome |-> o]>> :
                          b \in Readiness, o \in RuleOutcomes}
    /\ review = [status |-> "RECEIVED", latestSubmission |-> 1, latestRun |-> 0,
                 openMissing |-> FALSE]
    /\ runs = <<>> /\ findings = <<>> /\ corrections = <<>> /\ decisions = <<>>
    /\ triaged = {}

Latest == submissions[review.latestSubmission]

Base == [document |-> Latest.document, version |-> documents[Latest.document].version]

\* A new version of the report replaces the one before.
NewDocument ==
    /\ caseStatus = "REVISION_REQUIRED"
    /\ Len(documents) = Len(submissions) /\ Len(documents) < MaxSubmissions
    /\ documents' = Append([d \in DOMAIN documents |-> [documents[d] EXCEPT !.active = FALSE]],
                           [group |-> 1, version |-> Len(documents) + 1, active |-> TRUE])
    /\ UNCHANGED <<caseStatus, submissions, reviewVars>>

\* submit: the newest document answers the request that was sent.
Resubmit(ready, outcome) ==
    LET d == Len(documents)
    IN  /\ caseStatus = "REVISION_REQUIRED"
        /\ d = Len(submissions) + 1
        /\ submissions' = Append(submissions, [document |-> d, ready |-> ready, outcome |-> outcome])
        /\ \E i \in ActiveCorrections : Registers(i, d)
        /\ review' = [review EXCEPT !.latestSubmission = d]
        /\ caseStatus' = "IN_REVIEW"
        /\ UNCHANGED <<documents, runs, findings, decisions>>

\* triage_finding and the row it adds to the log.
Triage(r, decision) ==
    /\ TriageFinding(r, decision)
    /\ triaged' = triaged \cup {[run |-> review.latestRun, rule |-> r, decision |-> decision]}
    /\ UNCHANGED <<documents, submissions>>

RoundStep ==
    \/ \E r \in Rules, decision \in TriageDecisions \ {"EXPERT_REVIEW"} : Triage(r, decision)
    \/ /\ UNCHANGED triaged
       /\ \/ NewDocument
          \/ \E ready \in Readiness, outcome \in RuleOutcomes : Resubmit(ready, outcome)
          \/ /\ UNCHANGED <<documents, submissions>>
             /\ \/ Preflight(Latest.ready)
                \/ StartReview(Latest.ready, Latest.outcome)
                \/ CreateRun(Latest.ready, Latest.outcome)
                \/ CreateCorrectionDraft(Base)
                \/ \E i \in DOMAIN corrections :
                      \/ SendCorrection(i)
                      \/ Latest.ready /\ RecheckComplete(i, Latest.outcome)
                      \/ ~Latest.ready /\ RecheckIncomplete(i)
                \/ CompleteReview
=============================================================================
