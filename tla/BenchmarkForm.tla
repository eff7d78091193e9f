----------------------------- MODULE BenchmarkForm -----------------------------
(***************************************************************************)
(* The F03 form of a case: its draft, the calculation of the price of the  *)
(* benchmark land, the check before production and the PDF                 *)
(* (valuation/f03_service.py and valuation/operations/).  Each operation   *)
(* is an operator from a book, the rows of the form, to an answer that     *)
(* holds the book it leaves.  The row of the case is locked throughout, so *)
(* what calls them may take each as one step.                              *)
(***************************************************************************)
EXTENDS Integers, Sequences, FiniteSets

CONSTANTS
    Unset,         \* no value, no row
    Edits,         \* what a request may set: functions on some of Names
    Documents      \* the required documents

Names == {"comparison", "comparisonWeight", "income", "incomeWeight"}

Weights == {"comparisonWeight", "incomeWeight"}

\* Weights are counted in halves.
Whole == 2

\* What a name may be set to: a weight is never null (F03DraftUpdate).
Settings(n) == IF n \in Weights THEN 0 .. Whole ELSE Nat \cup {Unset}

FormAssumption ==
    \A e \in Edits : /\ DOMAIN e \subseteq Names /\ DOMAIN e # {}
                     /\ \A n \in DOMAIN e : e[n] \in Settings(n)

---------------------------------------------------------------------------
(* The calculation *)

WeightsAddUp(d) == d.comparisonWeight + d.incomeWeight = Whole

MethodsPriced(d) ==
    /\ d.comparisonWeight > 0 => d.comparison # Unset
    /\ d.incomeWeight > 0 => d.income # Unset

Priceable(d) == WeightsAddUp(d) /\ MethodsPriced(d)

Amount(price, weight) == IF price = Unset THEN 0 ELSE price * weight

\* calculate_f03_price; the tail digits are rounded up.
Result(d) ==
    (Amount(d.comparison, d.comparisonWeight) + Amount(d.income, d.incomeWeight) + Whole - 1)
        \div Whole

---------------------------------------------------------------------------
(* The book *)

Drafts == {d \in [Names -> Nat \cup {Unset}] : \A n \in Weights : d[n] \in 0 .. Whole}

NewBook ==
    [editable |-> TRUE, status |-> "DRAFT", draft |-> Unset, price |-> Unset,
     covered |-> TRUE, active |-> Documents, readable |-> Documents,
     calcs |-> <<>>, runs |-> <<>>, reports |-> <<>>]

Done(book, row) == [ok |-> TRUE, book |-> book, row |-> row]
Refused(book) == [ok |-> FALSE, book |-> book, row |-> 0]

\* The row a request has made already, if any.
RowOf(rows, request) == {i \in DOMAIN rows : rows[i].request = request}

---------------------------------------------------------------------------
(* Draft and submission *)

\* A new draft has the weights 1 and 0 unless they are given.
Blank == [n \in Names |-> CASE n = "comparisonWeight" -> Whole
                            [] n = "incomeWeight"     -> 0
                            [] OTHER                  -> Unset]

Merged(d, edit) == [n \in Names |-> IF n \in DOMAIN edit THEN edit[n] ELSE d[n]]

\* Mutant: a form that was submitted can still be edited.
SaveDraftAlways(b, edit) ==
    LET d == Merged(IF b.draft = Unset THEN Blank ELSE b.draft, edit)
    IN IF b.editable /\ WeightsAddUp(d)
       THEN Done([b EXCEPT !.draft = d], 0) ELSE Refused(b)

\* F03Service.update_draft; the price of an earlier calculation stays.
SaveDraft(b, edit) ==
    LET d == Merged(IF b.draft = Unset THEN Blank ELSE b.draft, edit)
    IN IF b.editable /\ b.status = "DRAFT" /\ WeightsAddUp(d)
       THEN Done([b EXCEPT !.draft = d], 0) ELSE Refused(b)

\* ValuationService.submit_form.
SubmitForm(b) ==
    IF b.editable /\ b.status \in {"DRAFT", "READY"}
    THEN Done([b EXCEPT !.status = "READY"], 0) ELSE Refused(b)

---------------------------------------------------------------------------
(* Calculation *)

\* What is stored of a calculation; "ready" is kept for the properties.
Calculation(b, request, time) ==
    [request |-> request, time |-> time, inputs |-> b.draft, result |-> Result(b.draft),
     ready |-> b.status = "READY"]

\* The row is stored and the draft takes the result over.
CalculatedForm(b, request, time) ==
    [b EXCEPT !.calcs = Append(@, Calculation(b, request, time)), !.price = Result(b.draft)]

\* CalculationService.run_f03: the answer to a repeated request is its row,
\* once the case, the form and the rules have been looked at again.
CalculateForm(b, request, time) ==
    IF ~(b.editable /\ b.covered) THEN Refused(b)
    ELSE IF RowOf(b.calcs, request) # {}
         THEN Done(b, CHOOSE i \in RowOf(b.calcs, request) : TRUE)
    ELSE IF b.draft # Unset /\ Priceable(b.draft)
         THEN Done(CalculatedForm(b, request, time), Len(b.calcs) + 1) ELSE Refused(b)

\* latest_calculation: by calculated_at, the time the transaction began.
Latest(b) ==
    IF b.calcs = <<>> THEN 0
    ELSE CHOOSE i \in DOMAIN b.calcs :
             \A j \in DOMAIN b.calcs : b.calcs[i].time >= b.calcs[j].time

---------------------------------------------------------------------------
(* The check before production *)

\* The latest calculation is the one of the present inputs.
Matches(b) ==
    /\ b.draft # Unset /\ Latest(b) # 0
    /\ b.calcs[Latest(b)].inputs = b.draft
    /\ b.price = b.calcs[Latest(b)].result

Failures(b) ==
    {c \in {"F03_REQUIRED_FIELDS", "F03_REQUIRED_DOCUMENTS", "F03_METHOD_INPUTS",
            "F03_CALCULATION_MATCH", "F03_MINIO_OBJECTS"} :
        CASE c = "F03_REQUIRED_FIELDS"    -> b.draft = Unset
          [] c = "F03_REQUIRED_DOCUMENTS" -> b.active # Documents
          [] c = "F03_METHOD_INPUTS"      -> b.draft # Unset /\ ~MethodsPriced(b.draft)
          [] c = "F03_CALCULATION_MATCH"  -> ~Matches(b)
          [] c = "F03_MINIO_OBJECTS"      -> \E d \in b.active : d \notin b.readable}

\* optional_f03_codes: found, and then not counted.
Optional == {"F03_REQUIRED_FIELDS", "F03_METHOD_INPUTS", "F03_CALCULATION_MATCH"}

\* What is stored of a check: the calculation it looked at, what it found.
CheckRun(b, request) ==
    [request |-> request, calc |-> Latest(b), failed |-> Failures(b) \ Optional]

\* ValidationService.run_f03.
ValidateForm(b, request) ==
    IF ~b.editable THEN Refused(b)
    ELSE IF RowOf(b.runs, request) # {}
         THEN Done(b, CHOOSE i \in RowOf(b.runs, request) : TRUE)
    ELSE Done([b EXCEPT !.runs = Append(@, CheckRun(b, request))], Len(b.runs) + 1)

---------------------------------------------------------------------------
(* The PDF *)

\* The last run found nothing and looked at the latest calculation.
Checked(b) ==
    /\ Latest(b) # 0 /\ b.runs # <<>>
    /\ b.runs[Len(b.runs)].failed = {}
    /\ b.runs[Len(b.runs)].calc = Latest(b)

\* The inputs printed are those of the draft, the result is that of the latest
\* calculation; "made" is kept for the properties.
Pdf(b, request) ==
    [request |-> request, inputs |-> b.draft, calc |-> Latest(b), run |-> Len(b.runs),
     made |-> Len(b.calcs), result |-> b.calcs[Latest(b)].result]

\* ReportService.generate_f03.  A request id is known to the case, not to the form:
\* sent for another F03 form of the case it gets this form's document; one form is
\* modelled.  The object of the PDF is left out.
Report(b, request) ==
    IF ~(b.editable /\ b.status = "READY") THEN Refused(b)
    ELSE IF RowOf(b.reports, request) # {}
         THEN Done(b, CHOOSE i \in RowOf(b.reports, request) : TRUE)
    ELSE IF b.draft = Unset \/ ~Checked(b) THEN Refused(b)
    ELSE Done([b EXCEPT !.reports = Append(@, Pdf(b, request))], Len(b.reports) + 1)
================================================================================
