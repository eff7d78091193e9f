------------------------------- MODULE MCValues -------------------------------
(*****************************************************************************)
(* The account service (Accounts), the files of a case (DocumentStore), the  *)
(* complete report (FormalReport) and the requests to the F03 form           *)
(* (FormRequests), all extended here, and the other modules about the values *)
(* of forms and pages: candidates, the price of the report and the forms of  *)
(* parcels. The modules share no state here, so a behaviour is of one        *)
(* instance, which of names; one run checks them all.                        *)
(*****************************************************************************)
EXTENDS Accounts, DocumentStore, FormalReport, FormRequests, FiniteSets

VARIABLES
    of,   \* the instance this behaviour is of
    active, uploaded, extractions, candidates, forms, manual, clock, targets,
    outcome, question, answer, base, verified, f01, f04

others ==
    <<active, uploaded, extractions, candidates, forms, manual, clock, targets,
    outcome, question, answer, base, verified, f01, f04>>

allVars == <<of, vars, storeVars, reportVars, formVars, others>>

---------------------------------------------------------------------------

\* Everything acknowledged.
Everything ==
    {{"F02_RF_CALCULATION_REQUIRED", "F02_CALCULATION_REQUIRED", "F02_TARGETS_REQUIRED",
      "FORMAL_CALCULATION_STALE", "FORMAL_REFERENCES_REQUIRED",
      "FORMAL_RULE_VERSION_REQUIRED", "FORMAL_RULE_INVALID"}}

\* What may be saved of an F03 form: prices of two methods, alone and weighted.
Prices == {[comparison |-> 10], [comparison |-> 15]}
FormEdits == Prices \cup {[comparisonWeight |-> 1, incomeWeight |-> 1, income |-> 20]}

---------------------------------------------------------------------------
(* The instances *)

\* The account service, the files, the report and the F03 form keep an initial
\* state in the other instances.
NoAccounts == Init
NoFiles == StoreInit /\ request.bytes = "a" /\ reader.bytes = "a"
NoReport == ReportInit
NoForm == FormInit

\* Two fields of one place of the F01 form, from two extractions of a document.
F01 == INSTANCE Candidates WITH
    Documents <- {"d1"}, Comparable <- {}, Forms <- {"F01"}, MaxExtractions <- 2,
    MaxDecisions <- 2

\* One name in two forms, from two extractions of a document.
F03F04 == INSTANCE Candidates WITH
    Documents <- {"d1"}, Comparable <- {}, Forms <- {"F03", "F04"},
    MaxExtractions <- 2, MaxDecisions <- 2

\* Two fields of one place of the S01 page.
S01 == INSTANCE Candidates WITH
    Documents <- {"d1"}, Comparable <- {}, Forms <- {"S01"}, MaxExtractions <- 2,
    MaxDecisions <- 2

\* A field of the benchmark and of a comparable location.
Regional == INSTANCE Candidates WITH
    Documents <- {"d1", "d2"}, Comparable <- {"d2"}, Forms <- {"F02-RF"},
    MaxExtractions <- 2, MaxDecisions <- 2

\* The complete report while its pages change and candidates are applied is
\* FormalReport itself; its constants are in the configuration.

\* Two versions of a report without a comparison.
ReportPages == INSTANCE FormalReport WITH
    Values <- {"v1", "v2"}, Places <- {"p1"}, Maps <- {"m1"}, Factors <- {},
    Candidates <- {}, Benchmarks <- {TRUE}, Skipped <- {}, Targets <- {},
    Balanced <- {}, Bases <- {"b1"}, Applicable <- {"b1"}, Requests <- {},
    Acks <- Everything, MaxDocuments <- 2

\* The report while the case changes under it.
ReportBasis == INSTANCE FormalReport WITH
    Values <- {"v1"}, Places <- {"p1"}, Maps <- {"m1"}, Factors <- {"f1"},
    Candidates <- {}, Benchmarks <- {}, Skipped <- {}, Targets <- {"t1"},
    Balanced <- {"t1"}, Bases <- {"b1", "b2"}, Applicable <- {"b1"}, Requests <- {},
    Acks <- Everything, MaxDocuments <- 1

\* Requests that are sent again, while the maps change.
ReportRequests == INSTANCE FormalReport WITH
    Values <- {"v1"}, Places <- {"p1"}, Maps <- {"m1", "m2"}, Factors <- {},
    Candidates <- {}, Benchmarks <- {}, Skipped <- {}, Targets <- {"t1"},
    Balanced <- {"t1"}, Bases <- {"b1"}, Applicable <- {"b1"}, Requests <- {"q1"},
    Acks <- Everything, MaxDocuments <- 1

\* Prices, rates and scores on both sides of what is accepted.
Price == INSTANCE FormalPrice WITH
    R <- 3, C <- 2, Normals <- {-1, 1, 5}, Rates <- {-3, -1, 1}, Weights <- 0 .. 3,
    MaxTargets <- 2, Scores <- {-2, 0, 1, 3}, Bounds <- {3, 5}, MaxLevels <- 3,
    Numbers <- {7, 8, 11, 12, 20, 50, 59, 60, 80, 180, 259, 260, 460}

\* Two requests for the F03 form in four transactions are FormRequests itself.

\* What is around the F03 form changes between the requests.
FormChanges == INSTANCE FormRequests WITH
    Edits <- Prices, Documents <- {"inventory"}, RequestIds <- {"r1"}, MaxTime <- 4,
    MaxOpen <- 1, Changes <- {"case", "documents", "rules"}

\* The forms of parcels, prices at the edges of the magnitudes.
Parcels == INSTANCE ParcelForms WITH
    Totals <- {100}, Areas <- {3}, BasePrices <- {98, 1002, 99999},
    Rates <- {-4, 0, 3}, MaxResults <- 2, Raw <- FALSE

\* The same with the edit of a whole form.
ParcelEdits == INSTANCE ParcelForms WITH
    Totals <- {100}, Areas <- {3}, BasePrices <- {98, 1002}, Rates <- {-4, 0, 3},
    MaxResults <- 2, Raw <- TRUE

\* The constants are as the modules expect them.
ASSUME InstancesAssumption ==
    /\ F01!CandidatesAssumption
    /\ F03F04!CandidatesAssumption
    /\ S01!CandidatesAssumption
    /\ Regional!CandidatesAssumption
    /\ FormalAssumption
    /\ ReportPages!FormalAssumption
    /\ ReportBasis!FormalAssumption
    /\ ReportRequests!FormalAssumption
    /\ Price!PriceAssumption
    /\ FormAssumption
    /\ FormChanges!FormAssumption
    /\ Parcels!ParcelAssumption
    /\ ParcelEdits!ParcelAssumption

---------------------------------------------------------------------------

NoCandidates ==
    /\ active = None /\ uploaded = None /\ extractions = None
    /\ candidates = None /\ forms = None /\ manual = None
    /\ clock = None /\ targets = None /\ outcome = None

NoPrice == question = None /\ answer = None

NoParcels == base = None /\ verified = None /\ f01 = None /\ f04 = None

NoOthers == NoCandidates /\ NoPrice /\ NoParcels

\* All that is not of the report, of the F03 form, of Candidates and the like.
NotReports == NoAccounts /\ NoFiles /\ NoForm /\ NoOthers

NotForms == NoAccounts /\ NoFiles /\ NoReport /\ NoOthers

NoExtended == NoAccounts /\ NoFiles /\ NoReport /\ NoForm

\* The variables that are not of Candidates, of FormalPrice, of ParcelForms.
WithoutCandidates ==
    <<vars, storeVars, reportVars, formVars, question, answer, base, verified, f01,
    f04>>

WithoutPrice ==
    <<vars, storeVars, reportVars, formVars, active, uploaded, extractions, candidates,
    forms, manual, clock, targets, outcome, base, verified, f01, f04>>

WithoutParcels ==
    <<vars, storeVars, reportVars, formVars, active, uploaded, extractions, candidates,
    forms, manual, clock, targets, outcome, question, answer>>

AllInit ==
    \/ of = "accounts" /\ Init /\ NoFiles /\ NoReport /\ NoForm /\ NoOthers
    \/ of = "files" /\ StoreInit /\ NoAccounts /\ NoReport /\ NoForm /\ NoOthers
    \/ of = "F01" /\ F01!Init /\ NoExtended /\ NoPrice /\ NoParcels
    \/ of = "F03 and F04" /\ F03F04!Init /\ NoExtended /\ NoPrice /\ NoParcels
    \/ of = "S01" /\ S01!Init /\ NoExtended /\ NoPrice /\ NoParcels
    \/ of = "regional" /\ Regional!Init /\ NoExtended /\ NoPrice /\ NoParcels
    \/ of = "report inputs" /\ ReportInit /\ NotReports
    \/ of = "report pages" /\ ReportPages!ReportInit /\ NotReports
    \/ of = "report basis" /\ ReportBasis!ReportInit /\ NotReports
    \/ of = "report requests" /\ ReportRequests!ReportInit /\ NotReports
    \/ of = "price" /\ Price!Init /\ NoExtended /\ NoCandidates /\ NoParcels
    \/ of = "form" /\ FormInit /\ NotForms
    \/ of = "form changes" /\ FormChanges!FormInit /\ NotForms
    \/ of = "parcels" /\ Parcels!Init /\ NoExtended /\ NoCandidates /\ NoPrice
    \/ of = "parcel edits" /\ ParcelEdits!Init /\ NoExtended /\ NoCandidates /\ NoPrice

AllNext ==
    /\ UNCHANGED of
    /\ \/ of = "accounts" /\ Next /\ UNCHANGED <<storeVars, reportVars, formVars, others>>
       \/ of = "files" /\ StoreNext /\ UNCHANGED <<vars, reportVars, formVars, others>>
       \/ /\ \/ of = "F01" /\ F01!Next
             \/ of = "F03 and F04" /\ F03F04!Next
             \/ of = "S01" /\ S01!Next
             \/ of = "regional" /\ Regional!Next
          /\ UNCHANGED WithoutCandidates
       \/ /\ \/ of = "report inputs" /\ ReportNext
             \/ of = "report pages" /\ ReportPages!ReportNext
             \/ of = "report basis" /\ ReportBasis!ReportNext
             \/ of = "report requests" /\ ReportRequests!ReportNext
          /\ UNCHANGED <<vars, storeVars, formVars, others>>
       \/ of = "price" /\ Price!Next /\ UNCHANGED WithoutPrice
       \/ /\ \/ of = "form" /\ FormNext
             \/ of = "form changes" /\ FormChanges!FormNext
          /\ UNCHANGED <<vars, storeVars, reportVars, others>>
       \/ /\ \/ of = "parcels" /\ Parcels!Next
             \/ of = "parcel edits" /\ ParcelEdits!Next
          /\ UNCHANGED WithoutParcels

AllSpec == AllInit /\ [][AllNext]_allVars

---------------------------------------------------------------------------
(* Properties *)

\* The variables of the instance have their types.
AllTyped ==
    /\ of = "accounts" => TypeOK
    /\ of = "files" => StoreTypeOK
    /\ of = "F01" => F01!TypeOK
    /\ of = "F03 and F04" => F03F04!TypeOK
    /\ of = "S01" => S01!TypeOK
    /\ of = "regional" => Regional!TypeOK
    /\ of = "report inputs" => ReportTypeOK
    /\ of = "report pages" => ReportPages!ReportTypeOK
    /\ of = "report basis" => ReportBasis!ReportTypeOK
    /\ of = "report requests" => ReportRequests!ReportTypeOK
    /\ of = "price" => Price!TypeOK
    /\ of = "form" => FormTypeOK
    /\ of = "form changes" => FormChanges!FormTypeOK
    /\ of = "parcels" => Parcels!TypeOK
    /\ of = "parcel edits" => ParcelEdits!TypeOK

\* At most one candidate of a name is applied, and a candidate has a value exactly
\* while a person stands by it, through extraction, reopening, rejection and
\* replacement.
CandidatesAgree ==
    /\ of = "F01" => F01!ValueWhileConfirmed
    /\ of = "F03 and F04" => F03F04!ValueWhileConfirmed /\ F03F04!OneAppliedPerName
    /\ of = "S01" => S01!ValueWhileConfirmed /\ S01!OneAppliedPerName
    /\ of = "regional" =>
          /\ Regional!ValueWhileConfirmed
          /\ Regional!OneAppliedPerName

\* Only what a person confirmed is applied, what was rejected comes back only by a
\* new decision, and a form changes only to what was entered by hand in the step or
\* to a value of the place that stands confirmed.  A confirmation leaves the newest
\* confirmed candidate in the F01 and F04 forms, over a newer manual value too.  What
\* a submitted form of a parcel shows stays.
ConfirmedReachesForms ==
    [][/\ of = "F01" =>
             /\ F01!OnlyConfirmedApplied
             /\ F01!FormsChangeToDecisions
             /\ F01!NewestInF01F04
       /\ of = "F03 and F04" =>
             /\ F03F04!OnlyConfirmedApplied
             /\ F03F04!FormsChangeToDecisions
             /\ F03F04!NewestInF01F04
       /\ of = "S01" => S01!OnlyConfirmedApplied /\ S01!FormsChangeToDecisions
       /\ of = "regional" => Regional!OnlyConfirmedApplied /\ Regional!FormsChangeToDecisions
       /\ of = "parcels" => Parcels!SubmittedResultsStay]_allVars

\* The price lies between its trial prices and is that of exact arithmetic up to the
\* units of rounding; the levels a rule may have always give a rate, of the right
\* sign and size.  A calculated form of a parcel shows the result of its present
\* data, rounded as Article 21 says, and its history ends with it.
ResultsAreTrue ==
    /\ of = "price" =>
          /\ Price!PriceBetweenTrials
          /\ Price!PriceNearExact
          /\ Price!UsableLevelsAdjust
          /\ Price!AdjustmentCountsLowerEnds
    /\ of = "parcels" =>
          /\ Parcels!ResultsAreOfTheData
          /\ Parcels!RoundingFollowsTheArticle
          /\ Parcels!HistoryEndsWithResult
    /\ of = "parcel edits" => ParcelEdits!HistoryEndsWithResult

================================================================================
