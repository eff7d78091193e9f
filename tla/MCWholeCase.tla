----------------------------- MODULE MCWholeCase -----------------------------
(***************************************************************************)
(* A platform case for TLC: every operation on a small case, which is      *)
(* PlatformReview itself with the constants of the configuration, and      *)
(* several rounds of correction on a larger one. The two share no state,   *)
(* so a behaviour is of one of them, which of names.                       *)
(***************************************************************************)
EXTENDS PlatformReviewInvariant

CONSTANT CorrectedRules   \* the rules of the larger case

VARIABLES
    of,   \* the instance this behaviour is of
    roundsCase, roundsDocuments, roundsSubmissions, roundsReview, roundsRuns,
    roundsFindings, roundsCorrections, roundsDecisions, roundsPackages

roundsVars ==
    <<roundsCase, roundsDocuments, roundsSubmissions, roundsReview, roundsRuns,
      roundsFindings, roundsCorrections, roundsDecisions, roundsPackages>>

allVars == <<of, vars, roundsVars>>

---------------------------------------------------------------------------

\* What a run may find of the rules of the larger case.
Policy == INSTANCE ReviewPolicy WITH Rules <- CorrectedRules

\* Two rounds of correction need three packages and three versions of one
\* document; two rules let one issue stay while another disappears.
Corrected == INSTANCE PlatformReview WITH
    Rules <- CorrectedRules, Contents <- {Blank}, MaxPackages <- 3, MaxDocuments <- 3,
    MaxDocVersion <- 3, caseStatus <- roundsCase, documents <- roundsDocuments,
    submissions <- roundsSubmissions, review <- roundsReview, runs <- roundsRuns,
    findings <- roundsFindings, corrections <- roundsCorrections,
    decisions <- roundsDecisions, packages <- roundsPackages

\* The owner is bounded to the PDF path that reaches them: no uploads, no Excel
\* exports, no edits, no archiving, and every rule is evaluated.
CorrectedOwner ==
    \/ Corrected!CreatePackage
    \/ \E p \in DOMAIN roundsPackages :
          \/ Corrected!ValidatePackage(p)
          \/ \E d \in DOMAIN roundsDocuments : Corrected!ReuseReport(p, d)
          \/ \E k \in {0, Len(roundsDocuments) + 1} : Corrected!GenerateReport(p, k)
    \/ \E outcome \in Policy!RuleOutcomes, readiness \in {"READY", "INCOMPLETE"} :
          /\ \A r \in CorrectedRules : outcome[r] # "NOT_RUN"
          /\ Corrected!SubmitReport(readiness, outcome)

AllInit == of \in {"whole", "rounds"} /\ Init /\ Corrected!Init

AllNext ==
    \/ of = "whole" /\ Next /\ UNCHANGED <<of, roundsVars>>
    \/ of = "rounds" /\ (CorrectedOwner \/ Corrected!Review) /\ UNCHANGED <<of, vars>>

AllSpec == AllInit /\ [][AllNext]_allVars

---------------------------------------------------------------------------
(* Properties *)

\* Over two complete rounds with two rules: a recheck is over a later submission of
\* the response, in a later version, a completed review was earned, an open request
\* mirrors the newest run, and the statuses agree on whose turn it is.
RoundsHold ==
    of = "rounds" =>
        /\ Corrected!TypeOK
        /\ Corrected!RecheckedByItsResponse
        /\ Corrected!CompletionSound
        /\ Corrected!OpenRequestMirrorsRun
        /\ Corrected!WhoseTurn
        /\ Corrected!RunsExamineNewVersions

================================================================================
