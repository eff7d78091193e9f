------------------------------ MODULE FormalReport ------------------------------
(***************************************************************************)
(* The complete report of a case: its three pages, the formal calculation, *)
(* the validation and the generated document                               *)
(* (app/valuation/report_packages/page_service.py and formal_service.py),  *)
(* next to documents a user uploads as reports (documents/service.py).     *)
(* Every operation holds the row of the case to its commit, so each is one *)
(* step; what can go wrong is their order.  The three pages change status  *)
(* together and are one stage here.                                        *)
(***************************************************************************)
EXTENDS Integers, Sequences, FiniteSets

CONSTANTS
    Nothing,         \* nothing there
    Values, Places, Maps,  \* what S01, the locations of the case and the maps may say
    Factors,         \* confirmed levels of the regional page, all rows filled in
    Candidates,      \* those of Factors extraction may propose
    Skipped,         \* those of Factors in which a level was left out
    Benchmarks,      \* whether a location may be the benchmark of the case
    Targets,         \* targets, weights and time rates of F02
    Balanced,        \* those of Targets whose weights add up to one
    Bases,           \* base date, district and land use of the case
    Applicable,      \* those of Bases the published rule covers
    Requests,        \* X-Request-ID of validations and generations
    Acks,            \* sets of warning codes a generation may acknowledge
    MaxDocuments     \* documents of the category complete-valuation-report

VARIABLES
    case,            \* [basis, editable]
    place,           \* values of the locations, and whether one is the benchmark
    waiting,         \* confirmed candidates of the regional page, not applied yet
    stage,           \* form_status of the three pages
    output,          \* output_document_id of the pages
    s01, regional, comparison, maps,
    validation,      \* the latest validation_run of the report
    ran,             \* how many validation_runs carry a request id
    documents,       \* documents of the category complete-valuation-report
    generated        \* how many COMPLETE_REPORT_GENERATED events carry a request id

pages == <<s01, regional, comparison>>

reportVars == <<case, place, waiting, stage, output, s01, regional, comparison, maps,
                validation, ran, documents, generated>>

NoRows == "no rows"
NoTargets == "no targets"
NoRequest == "no request"

WarningCodes ==
    {"F02_RF_CALCULATION_REQUIRED", "F02_CALCULATION_REQUIRED", "F02_TARGETS_REQUIRED",
     "FORMAL_CALCULATION_STALE", "FORMAL_REFERENCES_REQUIRED",
     "FORMAL_RULE_VERSION_REQUIRED", "FORMAL_RULE_INVALID"}

---------------------------------------------------------------------------
(* Inputs, snapshots and fingerprints *)

\* What the calculation reads; prices are the normal prices of the targets.
\* A fingerprint is the inputs themselves.
Fingerprints ==
    [basis : Bases, rule : BOOLEAN, analysis : BOOLEAN, factors : Factors \cup {NoRows},
     targets : Targets \cup {NoTargets}, prices : BOOLEAN]

FormalAssumption ==
    /\ Candidates \subseteq Factors /\ Benchmarks \subseteq BOOLEAN
    /\ Skipped \subseteq Factors /\ Balanced \subseteq Targets
    /\ Applicable \subseteq Bases
    /\ Nothing \notin Fingerprints /\ MaxDocuments \in Nat

\* _input_snapshot.
Inputs(r, c) ==
    [basis |-> case.basis, rule |-> r.rule, analysis |-> r.analysis,
     factors |-> r.factors, targets |-> c.targets,
     prices |-> c.enabled /\ c.targets # NoTargets]

\* _fingerprint.
Fingerprint(r, c) == Inputs(r, c)

Current == Fingerprint(regional, comparison)

\* A page keeps the fingerprint of its last calculation; price is the inputs
\* its price was calculated from.
RegionalPages ==
    [rule : BOOLEAN, analysis : BOOLEAN, factors : Factors \cup {NoRows},
     calculated : Fingerprints \cup {Nothing}]

ComparisonPages ==
    [enabled : BOOLEAN, analysis : BOOLEAN, targets : Targets \cup {NoTargets},
     calculated : Fingerprints \cup {Nothing}, price : Fingerprints \cup {Nothing}]

\* _invalidate_f02_rf_calculation and _invalidate_f02_calculation.
InvalidRegional(r) == [r EXCEPT !.calculated = Nothing]
InvalidComparison(c) == [c EXCEPT !.calculated = Nothing, !.price = Nothing]

\* What the generated PDF shows: of a comparison that is off, nothing.
Contents ==
    [s01 : Values, place : Places, maps : Maps, basis : Bases,
     factors : Factors \cup {NoRows}, enabled : BOOLEAN,
     targets : Targets \cup {NoTargets}, price : Fingerprints \cup {Nothing}]

Content ==
    [s01 |-> s01, place |-> place.values, maps |-> maps, basis |-> case.basis,
     factors |-> regional.factors, enabled |-> comparison.enabled,
     targets |-> IF comparison.enabled THEN comparison.targets ELSE NoTargets,
     price |-> IF comparison.enabled THEN comparison.price ELSE Nothing]

\* A row of a document: bytes that are no generated report are Nothing.
DocumentRows ==
    [content : Contents \cup {Nothing}, group : Nat, active : BOOLEAN, uploaded : BOOLEAN]

Validations ==
    [fingerprint : Fingerprints, warnings : SUBSET WarningCodes, s01 : Values,
     maps : Maps]

ReportTypeOK ==
    /\ case \in [basis : Bases, editable : BOOLEAN]
    /\ place \in [values : Places, benchmark : BOOLEAN]
    /\ waiting \in Factors \cup {Nothing}
    /\ stage \in {"DRAFT", "READY", "CHECKED", "FINAL"}
    /\ output \in 0 .. Len(documents)
    /\ s01 \in Values /\ maps \in Maps
    /\ regional \in RegionalPages /\ comparison \in ComparisonPages
    /\ validation \in Validations \cup {Nothing}
    /\ documents \in Seq(DocumentRows)
    /\ ran \in [Requests -> Nat] /\ generated \in [Requests -> Nat]

ReportInit ==
    /\ case \in [basis : Applicable, editable : {TRUE}]
    /\ place \in [values : Places, benchmark : {FALSE}]
    /\ waiting = Nothing /\ stage = "DRAFT" /\ output = 0
    /\ s01 \in Values /\ maps \in Maps
    /\ regional = [rule |-> FALSE, analysis |-> FALSE, factors |-> NoRows,
                   calculated |-> Nothing]
    /\ comparison = [enabled |-> TRUE, analysis |-> FALSE, targets |-> NoTargets,
                     calculated |-> Nothing, price |-> Nothing]
    /\ validation = Nothing /\ documents = <<>>
    /\ ran = [q \in Requests |-> 0] /\ generated = [q \in Requests |-> 0]

records == <<validation, ran, documents, generated>>

---------------------------------------------------------------------------
(* The case and its locations *)

\* update_case; the pages are not told.
UpdateCase(basis) ==
    /\ case.editable
    /\ case' = [case EXCEPT !.basis = basis]
    /\ UNCHANGED <<place, waiting, stage, output, pages, maps, records>>

\* A location is added, renamed or archived (or a candidate of one confirmed);
\* the pages are not told.
UpdatePlace(v) ==
    /\ case.editable
    /\ place' = [place EXCEPT !.values = v]
    /\ UNCHANGED <<case, waiting, stage, output, pages, maps, records>>

SelectBenchmark(chosen) ==
    /\ case.editable
    /\ place' = [place EXCEPT !.benchmark = chosen]
    /\ UNCHANGED <<case, waiting, stage, output, pages, maps, records>>

UploadMap(v) ==
    /\ case.editable
    /\ maps' = v
    /\ UNCHANGED <<case, place, waiting, stage, output, pages, records>>

ConfirmCandidates(f) ==
    /\ case.editable /\ waiting = Nothing
    /\ waiting' = f
    /\ UNCHANGED <<case, place, stage, output, pages, maps, records>>

\* SubmissionService.submit needs the FINAL pages and their document in force;
\* the reviewer returns the case.
Submit ==
    /\ case.editable /\ stage = "FINAL" /\ output # 0 /\ documents[output].active
    /\ case' = [case EXCEPT !.editable = FALSE]
    /\ UNCHANGED <<place, waiting, stage, output, pages, maps, records>>

Return ==
    /\ ~case.editable
    /\ case' = [case EXCEPT !.editable = TRUE]
    /\ UNCHANGED <<place, waiting, stage, output, pages, maps, records>>

---------------------------------------------------------------------------
(* The pages *)

\* Mutant: the status of the pages is not looked at.
EditableAlways == case.editable

\* _editable_records: a page that is FINAL is refused, DRAFT becomes READY.
Editable == case.editable /\ stage # "FINAL"

Promoted(st) == IF st = "DRAFT" THEN "READY" ELSE st

\* Whether select_default_formal_rule finds the one rule there is.
DefaultRule == case.basis \in Applicable

\* _ensure_default_formal_rule.
WithRule(r) == [r EXCEPT !.rule = r.rule \/ DefaultRule]

\* _validate_rule, for the one rule there is.
RuleApplies(r) == r.rule /\ case.basis \in Applicable

SetS01(v) ==
    /\ s01' = v
    /\ UNCHANGED <<regional, comparison>>

\* Rows of comparison targets need an analysis, a rule must fit the case.
SetRegional(f) ==
    LET r == WithRule(regional) IN
    /\ regional.analysis
    /\ r.rule => RuleApplies(r)
    /\ regional' = InvalidRegional([r EXCEPT !.factors = f])
    /\ UNCHANGED <<s01, comparison>>

SetComparison(t, on) ==
    /\ t # NoTargets => comparison.analysis
    /\ comparison' = InvalidComparison([comparison EXCEPT !.targets = t, !.enabled = on])
    /\ UNCHANGED <<s01, regional>>

\* confirm_manual_walking_distance writes both pages and needs the rule; one
\* row alone is not yet the full set.
SetDistance(v, f) ==
    LET r == WithRule(regional) IN
    /\ RuleApplies(r)
    /\ s01' = v
    /\ regional' = InvalidRegional(
           [r EXCEPT !.factors = IF regional.factors = NoRows THEN NoRows ELSE f])
    /\ UNCHANGED comparison

\* ComparisonSetupService.create and apply.
SetUp(t) ==
    /\ regional' = InvalidRegional([regional EXCEPT !.analysis = TRUE])
    /\ comparison' = InvalidComparison([comparison EXCEPT !.analysis = TRUE, !.targets = t])
    /\ UNCHANGED s01

PageUpdate ==
    \/ \E v \in Values : SetS01(v)
    \/ \E f \in Factors : SetRegional(f)
    \/ \E t \in Targets \cup {NoTargets}, on \in BOOLEAN : SetComparison(t, on)
    \/ \E v \in Values, f \in Factors : SetDistance(v, f)
    \/ \E t \in Targets : SetUp(t)

UpdatePage ==
    /\ Editable
    /\ PageUpdate
    /\ stage' = Promoted(stage)
    /\ UNCHANGED <<case, place, waiting, output, maps, records>>

\* save_manual_fields: whatever the pages were, they are opened again; a
\* value of a location goes to no page, one the page refuses is kept aside.
SaveManual ==
    /\ case.editable
    /\ output' = 0
    /\ \/ \E v \in Places : place' = [place EXCEPT !.values = v] /\ stage' = "DRAFT"
          /\ UNCHANGED pages
       \/ /\ UNCHANGED place /\ stage' = "READY"
          /\ \/ \E v \in Values : SetS01(v)
             \/ \E f \in Factors : SetRegional(f)
             \/ \E t \in Targets : SetComparison(t, comparison.enabled)
             \/ UNCHANGED pages
    /\ UNCHANGED <<case, waiting, maps, records>>

---------------------------------------------------------------------------
(* The calculation *)

\* The confirmed candidates are applied first.
WithCandidates ==
    IF waiting = Nothing THEN regional
    ELSE InvalidRegional([regional EXCEPT !.factors = waiting])

\* _use_selected_location_benchmark: the comparison is switched off.
Switched == place.benchmark /\ comparison.enabled

RegionalInput ==
    WithRule([WithCandidates EXCEPT !.analysis = @ /\ ~Switched])

ComparisonInput ==
    IF Switched
    THEN [comparison EXCEPT !.enabled = FALSE, !.analysis = FALSE, !.targets = NoTargets,
                            !.price = Nothing]
    ELSE comparison

\* What the calculation asks for; without the comparison only the rule.
Calculable(r, c) ==
    /\ RuleApplies(r)
    /\ c.enabled => r.analysis /\ c.targets \in Balanced /\ r.factors # NoRows

\* A level that was left out, before the weights are added up.
Breaks(r, c) ==
    /\ RuleApplies(r) /\ r.analysis
    /\ c.enabled /\ c.targets # NoTargets /\ r.factors \in Skipped

\* Both pages get the same snapshot.
Calculated(r, c) ==
    LET print == Fingerprint(r, c) IN
    /\ regional' = [r EXCEPT !.calculated = print]
    /\ comparison' =
           [c EXCEPT !.calculated = print, !.price = IF c.enabled THEN Inputs(r, c) ELSE Nothing]

\* A calculation that is refused, or that fails on a level that was left out
\* (FactorAdjustment is built with a field it does not have), writes nothing.
Calculate ==
    /\ Editable
    /\ Calculable(RegionalInput, ComparisonInput)
    /\ ~Breaks(RegionalInput, ComparisonInput)
    /\ Calculated(RegionalInput, ComparisonInput)
    /\ waiting' = Nothing /\ stage' = Promoted(stage)
    /\ UNCHANGED <<case, place, output, s01, maps, records>>

---------------------------------------------------------------------------
(* The validation *)

\* The findings; every one of them is a WARNING, so no validation fails.
Warnings ==
    {code \in WarningCodes :
        CASE code = "F02_RF_CALCULATION_REQUIRED" ->
                 comparison.enabled /\ regional.calculated = Nothing
          [] code = "F02_CALCULATION_REQUIRED" ->
                 comparison.enabled /\ comparison.calculated = Nothing
          [] code = "F02_TARGETS_REQUIRED" ->
                 comparison.enabled /\ comparison.targets = NoTargets
          [] code = "FORMAL_CALCULATION_STALE" -> comparison.calculated # Current
          [] code = "FORMAL_REFERENCES_REQUIRED" ->
                 comparison.enabled /\ ~regional.analysis
          [] code = "FORMAL_RULE_VERSION_REQUIRED" -> ~regional.rule
          [] OTHER -> regional.rule /\ ~RuleApplies(regional)}

Counted(count, q) == [r \in Requests |-> count[r] + IF r = q THEN 1 ELSE 0]

\* validation_for_request and event_for_request; a request without an id is
\* never known.
Known(count, q) == q \in Requests /\ count[q] > 0

\* Who may read the case may validate, in every status of case and pages.
Validate(q) ==
    /\ ~Known(ran, q)
    /\ validation' = [fingerprint |-> Current, warnings |-> Warnings, s01 |-> s01,
                      maps |-> maps]
    /\ ran' = Counted(ran, q)
    /\ stage' = "CHECKED"
    /\ UNCHANGED <<case, place, waiting, output, pages, maps, documents,
                   generated>>

---------------------------------------------------------------------------
(* The generated report *)

\* Mutant: the inputs are compared with the calculation.
UpToDateCalculation(v) == comparison.calculated = Current /\ v.maps = maps

\* FORMAL_VALIDATION_STALE.
UpToDate(v) == v.fingerprint = Current /\ v.maps = maps

\* get_by_checksum: the same bytes, still active.
Identical == {i \in DOMAIN documents : documents[i].active /\ documents[i].content = Content}

NewGroup == Cardinality({documents[i].group : i \in DOMAIN documents}) + 1

\* The group of the output of the pages, or a new one.
Group == IF output # 0 THEN documents[output].group ELSE NewGroup

\* deactivate_group.
Deactivated(g) ==
    [i \in DOMAIN documents |-> [documents[i] EXCEPT !.active = @ /\ documents[i].group # g]]

\* deactivate_group, then the new version.
Store(version) == Append(Deactivated(version.group), version)

Generated(g) == [content |-> Content, group |-> g, active |-> TRUE, uploaded |-> FALSE]

\* _finalize_report_document.
Finalize(d, q) ==
    /\ output' = d
    /\ stage' = "FINAL"
    /\ generated' = Counted(generated, q)

Generate(ack, q) ==
    /\ case.editable
    /\ ~Known(generated, q)
    /\ validation # Nothing
    /\ validation.warnings \subseteq ack
    /\ UpToDate(validation)
    /\ \/ \E d \in Identical : Finalize(d, q) /\ UNCHANGED documents
       \/ /\ Identical = {} /\ Len(documents) < MaxDocuments
          /\ documents' = Store(Generated(Group))
          /\ Finalize(Len(documents'), q)
    /\ UNCHANGED <<case, place, waiting, pages, maps, validation, ran>>

---------------------------------------------------------------------------
(* Uploads *)

\* get_inactive_by_checksum.
Removed(bytes) ==
    LET rows == {i \in DOMAIN documents : ~documents[i].active /\ documents[i].content = bytes}
    IN  {i \in rows : \A j \in rows : j =< i}

Uploaded(bytes, g) == [content |-> bytes, group |-> g, active |-> TRUE, uploaded |-> TRUE]

\* DocumentService.upload of a file of the category complete-valuation-report, as
\* a version of the group named if any: a report that was generated before, whose
\* row comes back, or a file of the user's.  The pages are not told.
UploadReport(bytes, named) ==
    /\ case.editable
    /\ \A i \in DOMAIN documents : documents[i].active => documents[i].content # bytes
    /\ \/ /\ Removed(bytes) = {} /\ Len(documents) < MaxDocuments
          /\ documents' = Store(Uploaded(bytes, IF named # 0 THEN named ELSE NewGroup))
       \/ \E i \in Removed(bytes) :
          documents' = [Deactivated(IF named # 0 THEN named ELSE documents[i].group)
                            EXCEPT ![i].active = TRUE, ![i].uploaded = TRUE]
    /\ UNCHANGED <<case, place, waiting, stage, output, pages, maps, validation, ran,
                   generated>>

Uploads == {Nothing} \cup {documents[i].content : i \in DOMAIN documents}

Groups == {0} \cup {documents[i].group : i \in DOMAIN documents}

---------------------------------------------------------------------------

ReportNext ==
    \/ \E basis \in Bases : UpdateCase(basis)
    \/ \E v \in Places : UpdatePlace(v)
    \/ \E v \in Maps : UploadMap(v)
    \/ \E chosen \in Benchmarks : SelectBenchmark(chosen)
    \/ \E f \in Candidates : ConfirmCandidates(f)
    \/ \E bytes \in Uploads, g \in Groups : UploadReport(bytes, g)
    \/ Submit \/ Return
    \/ UpdatePage \/ SaveManual \/ Calculate
    \/ \E q \in Requests \cup {NoRequest} : Validate(q)
    \/ \E ack \in Acks, q \in Requests \cup {NoRequest} : Generate(ack, q)

ReportSpec == ReportInit /\ [][ReportNext]_reportVars

---------------------------------------------------------------------------
(* Properties *)

\* A step that makes a document the output of the pages.
Generation == stage' = "FINAL" /\ (stage # "FINAL" \/ output' # output)

\* What the calculation reads is in the report as the validation saw it, and
\* so are the maps, whatever was changed and changed back in between.
ReportIsOfItsValidation ==
    Generation =>
           LET c == documents'[output'].content
               print == validation.fingerprint
           IN  /\ c.maps = validation.maps /\ c.basis = print.basis
               /\ c.factors = print.factors
               /\ c.enabled => c.targets = print.targets

\* The document of the pages shows what they say.
PagesAreShown ==
    /\ output # 0
    /\ LET c == documents[output].content IN
          /\ c.s01 = s01 /\ c.factors = regional.factors
          /\ c.enabled = comparison.enabled
          /\ c.enabled => c.targets = comparison.targets /\ c.price = comparison.price

\* FINAL pages are what their document shows: nothing writes one of the three
\* pages and leaves it FINAL.  (The document need not be in force: an upload into
\* its group takes it out and tells no page.)
FinalPagesAreShown == stage = "FINAL" => PagesAreShown

\* As long as a version is with the reviewers its document is in force and shows
\* the pages, although a validation takes FINAL from them meanwhile.
HandedOverIsShown == ~case.editable => PagesAreShown /\ documents[output].active

\* A price that no warning calls stale is the price of what the pages say
\* now; update_f02_rf leaves the price of F02 alone.
FreshPriceIsTrue ==
    comparison.calculated = Current /\ comparison.enabled =>
        /\ comparison.price # Nothing
        /\ comparison.price.factors = regional.factors
        /\ comparison.price.targets = comparison.targets
        /\ comparison.price.basis = case.basis

\* One validation, and one report, for a request that is sent again.
OncePerRequest ==
    /\ \A q \in DOMAIN ran : ran[q] =< 1
    /\ \A q \in DOMAIN generated : generated[q] =< 1

\* No two versions of one group are in force as generated: of two, a user brought
\* one back, naming another group.
OneActiveVersion ==
    \A i, j \in DOMAIN documents :
        documents[i].active /\ documents[j].active /\ documents[i].group = documents[j].group =>
            i = j \/ documents[i].uploaded \/ documents[j].uploaded

\* A price no warning calls stale is that of the pages, final pages are what
\* their document shows, and so are those the reviewers have, by a document in
\* force; generation leaves one version in force, and a request sent again makes
\* nothing twice.
PagesAreTrue ==
    /\ FreshPriceIsTrue /\ FinalPagesAreShown /\ HandedOverIsShown
    /\ OneActiveVersion /\ OncePerRequest

\* What a generated report shows is what its validation saw.
ReportsShowWhatWasChecked == [][ReportIsOfItsValidation]_reportVars
================================================================================
