--------------------------- MODULE MCPlatformReview ---------------------------
(***************************************************************************)
(* What documents and comments of the repository say of a case, and the    *)
(* code does not do: each is refuted by a run on a small instance.         *)
(***************************************************************************)
EXTENDS PlatformReviewInvariant

\* A request whose corrected version was received can be rechecked: a review
\* that found the version incomplete waits for the next one (section 5 of the
\* correction workflow design; the router keeps RESUBMITTED for that purpose).
ResubmittedIsRecheckable ==
    \A i \in DOMAIN corrections :
        corrections[i].status = "RESUBMITTED" => review.status \in RecheckStatuses

\* An owner who answered a return with a new package, validated and generated,
\* has a report that submit accepts as the response.
NewVersionIsAccepted ==
    LET p == Len(packages)
    IN  /\ caseStatus = "REVISION_REQUIRED"
        /\ Submittable
        /\ packages[p].final
        /\ documents[packages[p].output].active
        => \A i \in ActiveCorrections :
              ValidResubmission(corrections[i], packages[p].output)

\* The documents of older submissions are never overwritten.
SubmittedDocumentsKept ==
    \A n \in DOMAIN submissions :
        documents[submissions[n].document].bytes = submissions[n].bytes

\* An item counts as RESOLVED only when its rule was evaluated again; what
\* cannot be determined blocks the completion.
ResolvedMeansEvaluated ==
    \A i \in DOMAIN corrections, r \in Rules :
        corrections[i].items[r] = "RESOLVED" =>
            r \in runs[corrections[i].run + 1].evaluated

\* An archived case stays archived.
ArchivedForGood == [][caseStatus = "ARCHIVED" => caseStatus' = "ARCHIVED"]_vars
=============================================================================
