-------------------------------- MODULE RunInputs --------------------------------
(***************************************************************************)
(* What a review run is made from: the rule version a submission selects,  *)
(* the snapshot it freezes, the checks the review makes of the snapshot,   *)
(* and the evaluation of the rules on its trusted fields                   *)
(* (submissions/repository.py, review/rule_selection.py, review/service.py *)
(* and review/trusted_inputs.py).  The operations hold the row of the case *)
(* or of the review, so each is one step.                                  *)
(***************************************************************************)
EXTENDS Integers, Sequences, FiniteSets

CONSTANTS
    None,          \* no district: a rule version for every district
    Versions,      \* rule versions
    VersionData,   \* their [district, priority, pair, rules]
    Rules,         \* validation rules
    RuleData,      \* their [code, system, tolerance, severity]
    Districts,     \* districts of the case
    FieldSets,     \* what may be applied: values by field name
    Handoffs,      \* kinds of submission, "pdf" and "excel"
    MaxReports,    \* versions of the report form
    MaxRuns        \* runs of the review

VARIABLES
    district,      \* of the case
    fields,        \* values of the applied fields, by name
    report,        \* version of the authoritative report form
    checked,       \* COMPLETED source runs: <<rule version, report version>>
    published,     \* rule versions in force
    usable,        \* rule versions whose source document is published
    editable,      \* the case is with its owner
    status,        \* review_status
    snapshot,      \* input_snapshot of the latest submission, or None
    sent,          \* what was true when each submission was made
    runs,          \* review runs
    failure        \* how the last request failed

vars == <<district, fields, report, checked, published, usable, editable, status,
          snapshot, sent, runs, failure>>

RateField == {"adjustment_rate"}
GradeField == {"expert_grade"}
WeightFields == {"comparison_weight", "income_weight"}
Names == RateField \cup GradeField \cup WeightFields

\* The rules the review can evaluate, with the fields they need.
Required == [ADJUSTMENT_RATE |-> RateField, EXPERT_GRADE |-> GradeField,
             F03_WEIGHT_SUM |-> WeightFields]

RunAssumption ==
    /\ VersionData \in [Versions -> [district : Districts \cup {None}, priority : Nat,
                                     pair : Versions \cup {None}, rules : SUBSET Rules]]
    /\ RuleData \in [Rules -> [code : DOMAIN Required \cup {"OTHER"}, system : Int,
                               tolerance : Nat, severity : {"LOW", "MEDIUM", "HIGH"}]]
    /\ \A f \in FieldSets : DOMAIN f = Names

---------------------------------------------------------------------------
(* The arithmetic of the rules; rates in thousandths, weights in tenths *)

\* quantize(0.01, ROUND_HALF_UP): halves go away from zero.
Hundredths(x) == IF x >= 0 THEN 10 * ((x + 5) \div 10) ELSE -(10 * ((5 - x) \div 10))

Distance(a, b) == IF a > b THEN a - b ELSE b - a

\* recalculate_adjustment_rate.
WithinTolerance(rule, reported) ==
    Distance(Hundredths(reported), Hundredths(rule.system)) =< rule.tolerance

\* validate_weight_sum, with total 1 and less than a tenth of tolerance.
WeightsValid(w, v) == w \in 0 .. 10 /\ v \in 0 .. 10 /\ w + v = 10

Numeral(value) == value.type = "numeral"

\* A confirmed number of JSON is a float and no Decimal.
Readable(code, value) ==
    IF code = "EXPERT_GRADE" THEN value.type \in {"numeral", "text"} ELSE Numeral(value)

---------------------------------------------------------------------------
(* Evaluation *)

\* trusted_fields_by_code: a name applied twice is not trusted.
Trusted(fs, n) == Len(fs[n]) = 1

Value(fs, n) == fs[n][Len(fs[n])]

\* prepare_available_rules: without trusted, readable fields it is skipped.
Available(rule, fs) ==
    \A n \in Required[rule.code] : Trusted(fs, n) /\ Readable(rule.code, Value(fs, n))

Holds(rule, fs) ==
    CASE rule.code = "ADJUSTMENT_RATE" ->
             WithinTolerance(rule, Value(fs, "adjustment_rate").amount)
      [] rule.code = "EXPERT_GRADE" -> Value(fs, "expert_grade").amount = rule.system
      [] OTHER -> WeightsValid(Value(fs, "comparison_weight").amount,
                               Value(fs, "income_weight").amount)

Outcome(rule, fs) ==
    IF ~Available(rule, fs) THEN "SKIPPED"
    ELSE IF Holds(rule, fs) THEN "PASSED"
    ELSE IF rule.code = "EXPERT_GRADE" THEN "WARNING" ELSE "FAILED"

Findings == {"WARNING", "FAILED"}

\* risk_level_for_findings: a rate that is off is HIGH, a grade is MEDIUM.
Severity(rule) ==
    CASE rule.code = "ADJUSTMENT_RATE" -> "HIGH"
      [] rule.code = "EXPERT_GRADE"    -> "MEDIUM"
      [] OTHER                         -> rule.severity

---------------------------------------------------------------------------
(* Selection and the handoff *)

Eligible == {v \in published : VersionData[v].district \in {None, district}}

\* select_effective_rule; several of the highest priority are a conflict.
Selected ==
    {v \in Eligible : \A u \in Eligible : VersionData[v].priority >= VersionData[u].priority}

Compatible(source, selected) ==
    \/ source = selected
    \/ VersionData[source].pair = selected /\ VersionData[selected].pair = source

\* _build_execution_context and _validate_readiness; the handoff of the
\* workbooks asks nothing of the report the source run was made for.
Ready(kind, check) ==
    /\ Cardinality(Selected) = 1
    /\ \A v \in Selected : Compatible(check[1], v) /\ v \in usable
    /\ kind = "pdf" => check[2] = report /\ \E n \in Names : fields[n] # <<>>

\* normalize_snapshot_value raises a TypeError for a float.
Freezable == \A n \in Names : \A i \in DOMAIN fields[n] : fields[n][i].type # "float"

Snapshot(kind, check) ==
    [kind |-> kind, version |-> CHOOSE v \in Selected : TRUE, source |-> check[1],
     district |-> district, fields |-> fields, report |-> report, run |-> check[2]]

\* validate_rule_version_snapshot: the district must be the one of the case,
\* where the selection also took a version for every district.
RightDistrict(s) ==
    \A v \in {s.version, s.source} : VersionData[v].district = s.district

\* The report, its form and its document are those of the source run.
RightReport(s) == s.run = s.report

\* _snapshot_trusted_run_context.
Accepted(s) == RightDistrict(s) /\ Compatible(s.source, s.version) /\ RightReport(s)

\* validate_rule_contracts.
Supported(s) == \A r \in VersionData[s.version].rules : RuleData[r].code \in DOMAIN Required

---------------------------------------------------------------------------

Snapshots ==
    [kind : Handoffs, version : Versions, source : Versions, district : Districts,
     fields : FieldSets, report : 1 .. MaxReports, run : 1 .. MaxReports]

Outcomes == {"ABSENT", "SKIPPED", "PASSED", "WARNING", "FAILED"}

TypeOK ==
    /\ district \in Districts /\ fields \in FieldSets /\ report \in 1 .. MaxReports
    /\ checked \subseteq Versions \X (1 .. MaxReports)
    /\ published \subseteq Versions /\ usable \subseteq Versions
    /\ editable \in BOOLEAN
    /\ status \in {"NONE", "RECEIVED", "PENDING_MATERIALS", "READY_FOR_REVIEW",
                   "REVIEW_REQUIRED", "RETURNED_FOR_REVISION"}
    /\ snapshot \in Snapshots \cup {None}
    /\ sent \in Seq(Snapshots)
    /\ runs \in Seq([submission : Nat, version : Versions, outcome : [Rules -> Outcomes],
                     passed : Nat, warnings : Nat, failed : Nat, skipped : SUBSET Rules,
                     risk : {"LOW", "MEDIUM", "HIGH"}, supersedes : [Rules -> Nat]])
    /\ failure \in {None, "REFUSED", "INTERNAL_ERROR", "SUBMISSION_SNAPSHOT_INVALID"}

Init ==
    /\ district \in Districts /\ fields \in FieldSets /\ report = 1
    /\ checked = {} /\ published \in SUBSET Versions /\ usable = Versions
    /\ editable = TRUE /\ status = "NONE" /\ snapshot = None
    /\ sent = <<>> /\ runs = <<>> /\ failure = None

review == <<status, snapshot, sent, runs>>

---------------------------------------------------------------------------
(* The owner and the rules *)

Edit ==
    /\ editable
    /\ \/ \E d \in Districts : district' = d /\ UNCHANGED <<fields, report>>
       \/ \E f \in FieldSets : fields' = f /\ UNCHANGED <<district, report>>
       \/ report < MaxReports /\ report' = report + 1 /\ UNCHANGED <<district, fields>>
    /\ failure' = None
    /\ UNCHANGED <<checked, published, usable, editable, review>>

\* The rule version and the version of the report a source run was made with.
SourceOf(v) == <<v, report>>

\* FormalReportService.validate, with the rule of the report.
Validate(v) ==
    /\ editable /\ v \in published
    /\ checked' = checked \cup {SourceOf(v)}
    /\ failure' = None
    /\ UNCHANGED <<district, fields, report, published, usable, editable, review>>

\* A version is published with its source; operators withdraw either.
ChangeRules(v) ==
    /\ \/ published' = (published \ {v}) \cup ({v} \ published) /\ UNCHANGED usable
       \/ usable' = (usable \ {v}) \cup ({v} \ usable) /\ UNCHANGED published
    /\ failure' = None
    /\ UNCHANGED <<district, fields, report, checked, editable, review>>

\* SubmissionService.submit; a resubmission has a newer report.
Submit(kind, check) ==
    /\ editable /\ check \in checked
    /\ snapshot # None => report > snapshot.report
    /\ \/ /\ Ready(kind, check) /\ Freezable
          /\ snapshot' = Snapshot(kind, check)
          /\ sent' = Append(sent, Snapshot(kind, check))
          /\ status' = IF status = "NONE" THEN "RECEIVED" ELSE status
          /\ editable' = FALSE /\ failure' = None
          /\ UNCHANGED runs
       \/ /\ Ready(kind, check) /\ ~Freezable
          /\ failure' = "INTERNAL_ERROR" /\ UNCHANGED <<review, editable>>
       \/ /\ ~Ready(kind, check)
          /\ failure' = "REFUSED" /\ UNCHANGED <<review, editable>>
    /\ UNCHANGED <<district, fields, report, checked, published, usable>>

---------------------------------------------------------------------------
(* The review *)

\* Mutant: the rules and fields of the case as they are now.
InputNow(s) ==
    [s EXCEPT !.version = IF Selected = {} THEN @ ELSE CHOOSE v \in Selected : TRUE]

\* _resolve_trusted_run_context, of a review that has a submission.
Input(s) == s

Checkable == {"RECEIVED", "PENDING_MATERIALS"}

\* check_completeness: what is refused leaves the review where it was.
CheckCompleteness ==
    /\ status \in Checkable
    /\ \/ /\ Accepted(Input(snapshot))
          /\ status' = IF Supported(Input(snapshot)) THEN "READY_FOR_REVIEW"
                       ELSE "PENDING_MATERIALS"
          /\ failure' = None
       \/ /\ ~Accepted(Input(snapshot))
          /\ failure' = "SUBMISSION_SNAPSHOT_INVALID" /\ UNCHANGED status
    /\ UNCHANGED <<district, fields, report, checked, published, usable, editable,
                   snapshot, sent, runs>>

Passed(outcome) == {r \in Rules : outcome[r] = "PASSED"}

\* rerun: the finding of the same rule in the latest run.
Superseded(r) ==
    IF runs # <<>> /\ runs[Len(runs)].outcome[r] \in Findings THEN Len(runs) ELSE 0

\* create_run, and rerun.
NewRun(s) ==
    LET rules == VersionData[s.version].rules
        outcome == [r \in Rules |->
            IF r \in rules THEN Outcome(RuleData[r], s.fields) ELSE "ABSENT"]
        found == {r \in Rules : outcome[r] \in Findings}
        severities == {Severity(RuleData[r]) : r \in found}
    IN  [submission |-> Len(sent), version |-> s.version, outcome |-> outcome,
         passed |-> Cardinality(Passed(outcome)),
         warnings |-> Cardinality({r \in Rules : outcome[r] = "WARNING"}),
         failed |-> Cardinality({r \in Rules : outcome[r] = "FAILED"}),
         skipped |-> {r \in Rules : outcome[r] = "SKIPPED"},
         risk |-> IF "HIGH" \in severities THEN "HIGH"
                  ELSE IF "MEDIUM" \in severities THEN "MEDIUM" ELSE "LOW",
         supersedes |-> [r \in Rules |-> IF r \in found THEN Superseded(r) ELSE 0]]

Run ==
    /\ status = "READY_FOR_REVIEW" /\ Len(runs) < MaxRuns
    /\ runs' = Append(runs, NewRun(Input(snapshot)))
    /\ status' = "REVIEW_REQUIRED" /\ failure' = None
    /\ UNCHANGED <<district, fields, report, checked, published, usable, editable,
                   snapshot, sent>>

\* A correction request is sent.
SendBack ==
    /\ status = "REVIEW_REQUIRED" /\ ~editable
    /\ status' = "RETURNED_FOR_REVISION" /\ editable' = TRUE /\ failure' = None
    /\ UNCHANGED <<district, fields, report, checked, published, usable,
                   snapshot, sent, runs>>

\* recheck: completeness and run in one transaction.
Recheck ==
    /\ status = "RETURNED_FOR_REVISION" /\ ~editable /\ Len(runs) < MaxRuns
    /\ \/ /\ Accepted(Input(snapshot)) /\ Supported(Input(snapshot))
          /\ runs' = Append(runs, NewRun(Input(snapshot)))
          /\ status' = "REVIEW_REQUIRED" /\ failure' = None
       \/ /\ Accepted(Input(snapshot)) /\ ~Supported(Input(snapshot))
          /\ status' = "PENDING_MATERIALS" /\ failure' = None /\ UNCHANGED runs
       \/ /\ ~Accepted(Input(snapshot))
          /\ failure' = "SUBMISSION_SNAPSHOT_INVALID" /\ UNCHANGED <<status, runs>>
    /\ UNCHANGED <<district, fields, report, checked, published, usable, editable,
                   snapshot, sent>>

Next ==
    \/ Edit
    \/ \E v \in Versions : Validate(v) \/ ChangeRules(v)
    \/ \E kind \in Handoffs, check \in Versions \X (1 .. MaxReports) : Submit(kind, check)
    \/ CheckCompleteness \/ Run \/ SendBack \/ Recheck

Spec == Init /\ [][Next]_vars

---------------------------------------------------------------------------
(* Properties *)

\* A run evaluates the version and the fields of its submission, whatever was
\* published, archived or applied since (the copied context of the snapshot).
RunReadsItsSubmission ==
    \A k \in DOMAIN runs :
        LET s == sent[runs[k].submission]
        IN  /\ runs[k].version = s.version
            /\ \A r \in Rules : runs[k].outcome[r] \in Findings =>
                   \A n \in Required[RuleData[r].code] : s.fields[n] # <<>>

\* The counters of a run and its skipped rules account for every rule of its
\* version once: what was not evaluated is never counted as passed.
RunAccounts ==
    \A k \in DOMAIN runs :
        LET r == runs[k]
        IN  r.passed + r.warnings + r.failed + Cardinality(r.skipped)
                = Cardinality(VersionData[r.version].rules)

\* No rule is decided on a field that was applied twice.
EvidenceIsUnambiguous ==
    \A k \in DOMAIN runs : \A r \in Rules :
        runs[k].outcome[r] \in {"PASSED"} \cup Findings =>
            \A n \in Required[RuleData[r].code] :
                Cardinality(DOMAIN sent[runs[k].submission].fields[n]) = 1

\* A finding continues the finding of its own rule in the run before, and the
\* chain never skips a run.
SupersedesItsRule ==
    \A k \in DOMAIN runs : \A r \in Rules :
        LET p == runs[k].supersedes[r]
        IN  /\ p # 0 => p = k - 1 /\ runs[p].outcome[r] \in Findings
            /\ runs[k].outcome[r] \in Findings /\ k > 1
                   /\ runs[k - 1].outcome[r] \in Findings => p = k - 1

\* Rounding both rates to hundredths fails no rate that is within the tolerance
\* and passes none that is more than a hundredth beyond it, for negative rates
\* as for positive ones (recalculate_adjustment_rate).
RoundingDecidesTheEdge ==
    \A k \in DOMAIN runs : \A r \in Rules :
        RuleData[r].code = "ADJUSTMENT_RATE" =>
            LET fs == sent[runs[k].submission].fields
                off == Distance(Value(fs, "adjustment_rate").amount, RuleData[r].system)
            IN  /\ runs[k].outcome[r] = "FAILED" => off >= RuleData[r].tolerance
                /\ runs[k].outcome[r] = "PASSED" => off =< RuleData[r].tolerance + 10

\* What the submission made sure of holds for the review: it refuses an accepted
\* submission only for a version that is not of the case's own district (the source
\* run's, or a selected one that is for every district), or, of the workbooks, for
\* a source run of another report.  In particular no report that is handed over as
\* a PDF is refused for its run, and no pair of versions for its pairing.
RefusedForDistrictOrWorkbook ==
    failure = "SUBMISSION_SNAPSHOT_INVALID" =>
        LET s == snapshot IN
        \/ VersionData[s.source].district # s.district
        \/ VersionData[s.version].district = None
        \/ s.kind = "excel" /\ s.run # s.report

\* What the selection says of a version without a district, that it is for every
\* one, would mean of the review: a submission that was accepted is never refused
\* as invalid.
AcceptedCanRun == failure # "SUBMISSION_SNAPSHOT_INVALID"
================================================================================
