----------------------------- MODULE Candidates -----------------------------
(***************************************************************************)
(* How a value gets from a document into the draft forms: extraction and   *)
(* AI analysis write candidates, a person confirms or rejects them, and    *)
(* the simplified workflow applies what is confirmed                       *)
(* (app/valuation/extraction, app/valuation/automation/service.py and      *)
(* page_service.py).  Every operation holds the row of the case, so each   *)
(* is one step.  The case is commercial and its three-page report exists.  *)
(*                                                                         *)
(* Decisions are numbered in the order of confirmed_at.  The number stands *)
(* for the value that was decided; 0 stands for none.                      *)
(***************************************************************************)
EXTENDS Naturals, Sequences, FiniteSets, SequencesExt

CONSTANTS
    Documents,       \* documents of the case
    Comparable,      \* those that belong to a comparable location
    Forms,           \* the forms that are looked at
    MaxExtractions,  \* bound on the extractions of the case
    MaxDecisions     \* bound on confirmations, rejections and manual values

VARIABLES
    active,       \* documents.is_active
    uploaded,     \* documents there have been
    extractions,  \* document_extractions, in the order of created_at
    candidates,   \* extracted_fields
    forms,        \* the value each place of a draft form shows
    manual,       \* the decisions that were entered by hand
    clock,        \* the last decision
    targets,      \* comparison_targets of the F02 page are set up
    outcome       \* how the last confirmation ended

vars == <<active, uploaded, extractions, candidates, forms, manual, clock,
          targets, outcome>>

---------------------------------------------------------------------------
(* Fields and places *)

\* The fields whose names meet: two of one place, or one name of two forms.
Catalogue ==
    {[form |-> "F01", name |-> "registered_building_area", place |-> "building_area_sqm"],
     [form |-> "F01", name |-> "calculation_building_area", place |-> "building_area_sqm"],
     [form |-> "F03", name |-> "valuation_base_date", place |-> "valuation_base_date"],
     [form |-> "F04", name |-> "valuation_base_date", place |-> "valuation_base_date"],
     [form |-> "S01", name |-> "building_restriction_status", place |-> "restricted_building"],
     [form |-> "S01", name |-> "building_restriction_details", place |-> "restricted_building"],
     [form |-> "F02-RF", name |-> "drainage", place |-> "drainage"]}

CandidatesAssumption ==
    /\ Comparable \subseteq Documents
    /\ Forms \subseteq {field.form : field \in Catalogue}
    /\ MaxExtractions \in Nat /\ MaxDecisions \in Nat

Fields == {field \in Catalogue : field.form \in Forms}

\* A candidate is known by its extraction and its form and field.
CandidateKeys == (1..MaxExtractions) \X Fields

Keys == DOMAIN candidates

DocumentOf(k) == extractions[k[1]].document

\* There is one F01 form of a document, and one column of F02-RF for the
\* benchmark and one for the comparable location; the other forms are shared.
OwnerOf(d, field) ==
    CASE field.form = "F01"    -> d
      [] field.form = "F02-RF" -> IF d \in Comparable THEN "comparable" ELSE "benchmark"
      [] OTHER                 -> "case"

PlaceIn(d, field) == [form |-> field.form, owner |-> OwnerOf(d, field), name |-> field.place]

PlaceOf(k) == PlaceIn(DocumentOf(k), k[2])

FormPlaces == {PlaceIn(d, field) : d \in Documents, field \in Fields}

Numbers == 0..MaxDecisions

Statuses == {"none", "NEEDS_CONFIRMATION", "CONFIRMED", "REJECTED", "APPLIED"}

\* at is confirmed_at, value confirmed_value, touched updated_at; a value that
\* is not valid is refused by the schema of its form.
CandidateRows ==
    [status : Statuses, at : Numbers, value : Numbers, valid : BOOLEAN, touched : Numbers]

TypeOK ==
    /\ active \subseteq uploaded /\ uploaded \subseteq Documents
    /\ extractions \in Seq([document : uploaded, completed : BOOLEAN])
    /\ Len(extractions) <= MaxExtractions
    /\ candidates \in [CandidateKeys -> CandidateRows]
    /\ forms \in [FormPlaces -> Numbers]
    /\ clock \in Numbers /\ manual \subseteq 1..clock
    /\ targets \in BOOLEAN
    /\ outcome \in {"none", "confirmed", "error"}

\* Only F02-RF looks at updated_at.
Touch(k, t) == IF k[2].form = "F02-RF" THEN t ELSE 0

NoCandidate == [status |-> "none", at |-> 0, value |-> 0, valid |-> TRUE, touched |-> 0]

Init ==
    /\ active = {} /\ uploaded = {}
    /\ extractions = <<>>
    /\ candidates = [k \in CandidateKeys |-> NoCandidate]
    /\ forms = [p \in FormPlaces |-> 0]
    /\ manual = {} /\ clock = 0
    /\ targets = FALSE
    /\ outcome = "none"

---------------------------------------------------------------------------
(* Extraction and analysis *)

Latest(d) ==
    LET ofDocument == {n \in DOMAIN extractions : extractions[n].document = d}
    IN  CHOOSE n \in ofDocument : \A m \in ofDocument : m <= n

Extracted(d) == \E n \in DOMAIN extractions : extractions[n].document = d

\* latest_for_document, and its extraction_status.
Completed(d) == Extracted(d) /\ extractions[Latest(d)].completed

\* Mutant: they get the default of the column.
ProposeDefault(n, found) ==
    candidates' = [k \in Keys |->
        IF k[1] = n /\ k[2] \in found
        THEN [NoCandidate EXCEPT !.status = "EXTRACTED", !.touched = Touch(k, clock)]
        ELSE candidates[k]]

\* New candidates wait for a person, at most one of a form and field.
Propose(n, found) ==
    candidates' = [k \in Keys |->
        IF k[1] = n /\ k[2] \in found
        THEN [NoCandidate EXCEPT !.status = "NEEDS_CONFIRMATION", !.touched = Touch(k, clock)]
        ELSE candidates[k]]

\* A document without text, or one the provider fails on, has no candidates.
Extract(d, completed, found) ==
    /\ Len(extractions) < MaxExtractions
    /\ completed \/ found = {}
    /\ extractions' = Append(extractions, [document |-> d, completed |-> completed])
    /\ Propose(Len(extractions) + 1, found)

Start(d) ==
    /\ d \in active
    /\ \E completed \in BOOLEAN, found \in SUBSET Fields : Extract(d, completed, found)
    /\ UNCHANGED <<active, uploaded, forms, manual, clock, targets, outcome>>

\* The intake uploads a document and extracts it at once.
Intake(d) ==
    /\ d \notin uploaded
    /\ uploaded' = uploaded \cup {d} /\ active' = active \cup {d}
    /\ \/ \E completed \in BOOLEAN, found \in SUBSET Fields : Extract(d, completed, found)
       \/ UNCHANGED <<extractions, candidates>>
    /\ UNCHANGED <<forms, manual, clock, targets, outcome>>

\* The fields of a form that have no candidate in the extraction yet.
Remaining(n, form) ==
    {field \in Fields : field.form = form /\ candidates[<<n, field>>].status = "none"}

\* What _candidate_records takes of an answer: fields of the form that have no
\* candidate yet, each once, and at least one.
Fresh(n, form) == SUBSET Remaining(n, form) \ {{}}

\* analyze and import_codex_candidates.
Analyze(d) ==
    /\ Completed(d)
    /\ \E form \in Forms :
         \E found \in Fresh(Latest(d), form) : Propose(Latest(d), found)
    /\ UNCHANGED <<active, uploaded, extractions, forms, manual, clock, targets, outcome>>

\* A new version of the document, or its deletion.
Deactivate(d) ==
    /\ d \in active
    /\ active' = active \ {d}
    /\ UNCHANGED <<uploaded, extractions, candidates, forms, manual, clock, targets, outcome>>

SetUpComparison ==
    /\ ~targets /\ targets' = TRUE
    /\ UNCHANGED <<active, uploaded, extractions, candidates, forms, manual, clock, outcome>>

---------------------------------------------------------------------------
(* Confirmation *)

\* Applied candidates are opened again; a rejected one has no value.
Decide(k, decision) ==
    [candidates EXCEPT ![k] =
        [status |-> IF decision = "REJECT" THEN "REJECTED" ELSE "CONFIRMED",
         at |-> clock + 1, touched |-> Touch(k, clock + 1),
         value |-> IF decision = "REJECT" THEN 0 ELSE clock + 1,
         valid |-> decision # "CONFIRM_INVALID"]]

Decisions == {"CONFIRM", "CONFIRM_INVALID", "REJECT"}

\* The candidates of the latest extraction of a document, when it completed.
Confirmable == {k \in Keys : /\ k[1] \in DOMAIN extractions
                             /\ k[1] = Latest(DocumentOf(k)) /\ Completed(DocumentOf(k))
                             /\ candidates[k].status # "none"}

\* The confirm endpoint of a document: nothing is applied.
Confirm(k, decision) ==
    /\ clock < MaxDecisions /\ k \in Confirmable
    /\ candidates' = Decide(k, decision)
    /\ clock' = clock + 1
    /\ UNCHANGED <<active, uploaded, extractions, forms, manual, targets, outcome>>

---------------------------------------------------------------------------
(* Application.  s has the candidates and the forms as they are being      *)
(* written; t is the decision the transaction belongs to.                  *)

\* Mutant: only the candidates of the same form are replaced.
ReplaceInForm(c, k, t) ==
    [j \in Keys |->
        IF j = k THEN [c[j] EXCEPT !.status = "APPLIED", !.touched = Touch(j, t)]
        ELSE IF j[2] = k[2] /\ c[j].status = "APPLIED"
        THEN [c[j] EXCEPT !.status = "CONFIRMED", !.touched = Touch(j, t)]
        ELSE c[j]]

\* Whatever the form, every other applied candidate of the name goes back to
\* CONFIRMED.
Replace(c, k, t) ==
    [j \in Keys |->
        IF j = k THEN [c[j] EXCEPT !.status = "APPLIED", !.touched = Touch(j, t)]
        ELSE IF j[2].name = k[2].name /\ c[j].status = "APPLIED"
        THEN [c[j] EXCEPT !.status = "CONFIRMED", !.touched = Touch(j, t)]
        ELSE c[j]]

ApplyCandidate(s, k, t) ==
    [candidates |-> Replace(s.candidates, k, t),
     forms      |-> [s.forms EXCEPT ![PlaceOf(k)] = s.candidates[k].value]]

ApplyAll(s, order, t) == FoldLeft(LAMBDA x, k : ApplyCandidate(x, k, t), s, order)

Of(s, form, statuses) ==
    {k \in Keys : k[2].form = form /\ s.candidates[k].status \in statuses}

Newer(s, j, k) == s.candidates[j].at > s.candidates[k].at

Newest(s, ks, Same(_, _)) == {k \in ks : \A j \in ks : Same(j, k) => ~Newer(s, j, k)}

Valid(s, ks) == {k \in ks : s.candidates[k].valid}

\* F03: the newest of a name, when the schema takes it.
ApplyF03(s, t) ==
    LET newest == Newest(s, Of(s, "F03", {"CONFIRMED"}), LAMBDA j, k : j[2] = k[2])
    IN  ApplyAll(s, SetToSortSeq(Valid(s, newest), LAMBDA j, k : Newer(s, j, k)), t)

\* F01 and F04 take what is applied again.
Reapplied == {"CONFIRMED", "APPLIED"}

\* Mutant: the first candidate that was confirmed is taken.
FirstOfPlace(s, ks) == {k \in ks : \A j \in ks : PlaceOf(j) = PlaceOf(k) => ~Newer(s, k, j)}

\* The newest of a place; one that is refused is not replaced by an older one.
NewestOfPlace(s, ks) == Newest(s, ks, LAMBDA j, k : PlaceOf(j) = PlaceOf(k))

\* The documents come in the order of their newest candidate.
NewestOf(s, ks, d) ==
    CHOOSE k \in ks : DocumentOf(k) = d
                      /\ \A j \in ks : DocumentOf(j) = d => ~Newer(s, j, k)

ApplyF01(s, t) ==
    LET all == Of(s, "F01", Reapplied)
        First(j, k) ==
            IF DocumentOf(j) = DocumentOf(k) THEN Newer(s, j, k)
            ELSE Newer(s, NewestOf(s, all, DocumentOf(j)), NewestOf(s, all, DocumentOf(k)))
    IN  ApplyAll(s, SetToSortSeq(Valid(s, NewestOfPlace(s, all)), First), t)

ApplyF04(s, t) ==
    LET newest == NewestOfPlace(s, Of(s, "F04", Reapplied))
    IN  ApplyAll(s, SetToSortSeq(Valid(s, newest), LAMBDA j, k : Newer(s, j, k)), t)

\* S01: every candidate is written over the newer ones before it.
ApplyS01(s, t) ==
    ApplyAll(s, SetToSortSeq(Valid(s, Of(s, "S01", {"CONFIRMED"})),
                             LAMBDA j, k : Newer(s, j, k)), t)

\* F02-RF: the last updated first, then the last created.  A comparable
\* location without a target is skipped, yet its candidate counts as applied.
ApplyF02RF(s, t) ==
    LET Before(j, k) ==
            IF s.candidates[j].touched = s.candidates[k].touched THEN j[1] > k[1]
            ELSE s.candidates[j].touched > s.candidates[k].touched
        Written(x, k) ==
            IF OwnerOf(DocumentOf(k), k[2]) = "comparable" /\ ~targets
            THEN [x EXCEPT !.candidates = Replace(@, k, t)]
            ELSE ApplyCandidate(x, k, t)
    IN  FoldLeft(Written, s,
                 SetToSortSeq(Valid(s, Of(s, "F02-RF", {"CONFIRMED"})), Before))

\* A target row that is not on the page yet is looked up by the wrong id:
\* KeyError.  Only a value entered by hand brings the row there.
TargetRowMissing(s) ==
    /\ targets
    /\ \E k \in Valid(s, Of(s, "F02-RF", {"CONFIRMED"})) :
         OwnerOf(DocumentOf(k), k[2]) = "comparable" /\ s.forms[PlaceOf(k)] = 0

ApplyOthers(s, t) == ApplyS01(ApplyF04(ApplyF01(ApplyF03(s, t), t), t), t)

\* The confirmation of the simplified workflow.  ruleReady says whether the
\* formal rule has been published; without it the regional page is skipped.
Applied(decided, t, ruleReady) ==
    LET others == ApplyOthers([candidates |-> decided, forms |-> forms], t)
    IN  IF ruleReady /\ ~TargetRowMissing(others) THEN ApplyF02RF(others, t) ELSE others

Workflow(decided, t, ruleReady) ==
    LET others == ApplyOthers([candidates |-> decided, forms |-> forms], t)
        result == Applied(decided, t, ruleReady)
    IN  IF ruleReady /\ TargetRowMissing(others)
        THEN outcome' = "error" /\ UNCHANGED <<candidates, forms>>
        ELSE /\ outcome' = "confirmed"
             /\ candidates' = result.candidates /\ forms' = result.forms

ConfirmAndApply ==
    /\ clock < MaxDecisions
    /\ clock' = clock + 1
    /\ \E ruleReady \in BOOLEAN :
         \/ Workflow(candidates, clock + 1, ruleReady)
         \/ \E k \in Confirmable, decision \in Decisions :
              Workflow(Decide(k, decision), clock + 1, ruleReady)
    /\ UNCHANGED <<active, uploaded, extractions, manual, targets>>

\* save_manual_fields: the value is written, no candidate is looked at.  The
\* target columns of F02-RF need targets.
SaveManual(p) ==
    /\ clock < MaxDecisions
    /\ p.owner = "comparable" => targets
    /\ forms' = [forms EXCEPT ![p] = clock + 1]
    /\ manual' = manual \cup {clock + 1}
    /\ clock' = clock + 1
    /\ UNCHANGED <<active, uploaded, extractions, candidates, targets, outcome>>

Next ==
    \/ \E d \in Documents : Start(d) \/ Intake(d) \/ Analyze(d) \/ Deactivate(d)
    \/ SetUpComparison
    \/ \E k \in Keys, decision \in Decisions : Confirm(k, decision)
    \/ ConfirmAndApply
    \/ \E p \in DOMAIN forms : SaveManual(p)

Spec == Init /\ [][Next]_vars

---------------------------------------------------------------------------
(* Properties *)

WithValue == {"CONFIRMED", "APPLIED"}

\* Of all candidates of a case with one name, at most one is APPLIED, over
\* documents, extractions, forms and locations: what a handover takes is
\* unambiguous.
OneAppliedPerName ==
    \A j, k \in Keys :
        /\ candidates[j].status = "APPLIED" /\ candidates[k].status = "APPLIED"
        /\ j[2].name = k[2].name
        => j = k

\* A candidate has a confirmed value exactly while it is confirmed or applied,
\* through reopening, rejection and replacement.
ValueWhileConfirmed ==
    \A k \in Keys : candidates[k].value # 0 <=> candidates[k].status \in WithValue

\* A step applies only what a person confirmed, before it or in it, and what
\* was rejected comes back only by a new decision on it.
OnlyConfirmedApplied ==
    \A k \in Keys :
        candidates'[k].status = "APPLIED" /\ candidates[k].status \notin WithValue
            => candidates'[k].at > candidates[k].at

\* A place of a form changes only to a value a person has just entered by hand,
\* or to that of a candidate of this very place, owner and document, which a
\* person confirmed and nobody has rejected since.
FormsChangeToDecisions ==
    \A p \in DOMAIN forms :
        forms'[p] # forms[p] =>
            \/ forms'[p] \in manual' \ manual
            \/ \E k \in Keys : /\ PlaceOf(k)' = p
                              /\ candidates'[k].status \in WithValue
                              /\ candidates'[k].value = forms'[p]

\* After a confirmation the F01 form of a document and the F04 form show, of the
\* confirmed candidates, the newest, whatever was extracted, replaced or reopened
\* before, unless the schema refuses its value.  They show it although a newer
\* value was entered by hand: every confirmation writes the candidates of these
\* two forms again and takes the value of save_manual_fields back.  It does not
\* hold of S01, which writes the older value over the newer one (ApplyS01).
NewestInF01F04 ==
    ConfirmAndApply /\ outcome' = "confirmed" =>
        LET confirmed == {k \in Keys : /\ k[2].form \in {"F01", "F04"}
                                       /\ candidates'[k].status \in WithValue}
        IN  \A k \in confirmed :
                \/ ~candidates'[k].valid
                \/ \E j \in confirmed : /\ PlaceOf(j) = PlaceOf(k)
                                        /\ candidates'[j].at > candidates'[k].at
                \/ forms'[PlaceOf(k)] = candidates'[k].value
=============================================================================
