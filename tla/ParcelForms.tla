------------------------------- MODULE ParcelForms -------------------------------
(***************************************************************************)
(* The F01 and F04 forms of a case (valuation/f01_f04_service.py): the     *)
(* normal price of a transaction, and the price of a parcel that follows   *)
(* from the price of the benchmark land in the F03 form.  Each request     *)
(* holds the row of the case.                                              *)
(***************************************************************************)
EXTENDS Integers, Sequences

CONSTANTS
    None,          \* no value
    Totals,        \* total prices of a transaction
    Areas,         \* areas of land
    BasePrices,    \* prices an F03 calculation gives
    Rates,         \* adjustment rates of a parcel, in percent
    MaxResults,    \* results kept in a form
    Raw            \* the content of a form is also edited as a whole

ParcelAssumption ==
    /\ Totals \subseteq Nat /\ Areas \subseteq Nat \ {0} /\ BasePrices \subseteq Nat
    /\ Rates \subseteq -99 .. 100 /\ Raw \in BOOLEAN

VARIABLES
    base,          \* the F03 valuation: its price and valuation_status
    verified,      \* the rule version is published and verified
    f01,           \* data and status of the F01 form
    f04            \* data and status of the F04 form

vars == <<base, verified, f01, f04>>

---------------------------------------------------------------------------
(* Calculations *)

HalfUp(a, b) == (2 * a + b) \div (2 * b)

Quantum(v) == CASE v =< 100    -> 1
                [] v =< 1000   -> 10
                [] v =< 100000 -> 100
                [] OTHER       -> 1000

\* Mutant: the tail is rounded to the nearest.
RoundNearest(v) == HalfUp(v, Quantum(v)) * Quantum(v)

\* round_up_land_unit_price.
RoundUp(v) == ((v + Quantum(v) - 1) \div Quantum(v)) * Quantum(v)

\* calculate_f01, in cents.
NormalPrice(d) == HalfUp(100 * d.total, d.area)

\* calculate_f04: a trial price, then the tail.
ParcelPrice(d) == RoundUp(HalfUp(d.price * (100 + d.rate), 100))

---------------------------------------------------------------------------

F01Data == [total : Totals \cup {None}, area : Areas \cup {None}]
F04Data == [price : BasePrices \cup {None}, rate : Rates]

\* A form: its data, and what the last calculation left.
Forms(data) ==
    [status : {"DRAFT", "READY"}, data : data, calculated : BOOLEAN,
     result : Nat \cup {None}, history : Seq(Nat)]

NewForm(data) ==
    [status |-> "DRAFT", data |-> data, calculated |-> FALSE, result |-> None,
     history |-> <<>>]

TypeOK ==
    /\ base \in [price : BasePrices \cup {None}, status : {"DRAFT", "FINAL"}]
    /\ verified \in BOOLEAN
    /\ f01 \in Forms(F01Data) /\ f04 \in Forms(F04Data)

\* The valuation row of the API is a DRAFT; the demo data has a FINAL one.
Init ==
    /\ base \in [price : {None}, status : {"DRAFT"}] \cup [price : BasePrices, status : {"FINAL"}]
    /\ verified = TRUE
    /\ f01 = NewForm([total |-> None, area |-> None])
    /\ f04 \in {NewForm([price |-> None, rate |-> r]) : r \in Rates}

\* update: an edit drops the result, the history stays (_invalidate).
Edited(form, data) == [form EXCEPT !.data = data, !.calculated = FALSE, !.result = None]

Stored(form, result) ==
    [form EXCEPT !.calculated = TRUE, !.result = result, !.history = Append(@, result)]

EditableForm(form) == form.status = "DRAFT"

---------------------------------------------------------------------------

\* CalculationService.run_f03, which leaves valuation_status alone.
CalculateF03 ==
    /\ \E p \in BasePrices : base' = [base EXCEPT !.price = p]
    /\ UNCHANGED <<verified, f01, f04>>

UpdateF01 ==
    /\ EditableForm(f01)
    /\ \E t \in Totals, a \in Areas : f01' = Edited(f01, [total |-> t, area |-> a])
    /\ UNCHANGED <<base, verified, f04>>

\* The form is looked at, its status is not.
CalculateF01 ==
    /\ Len(f01.history) < MaxResults
    /\ f01.data.total # None /\ f01.data.area # None
    /\ f01' = Stored(f01, NormalPrice(f01.data))
    /\ UNCHANGED <<base, verified, f04>>

\* F04DraftUpdate has no benchmark_land_price.
UpdateF04 ==
    /\ EditableForm(f04)
    /\ \E r \in Rates : f04' = Edited(f04, [f04.data EXCEPT !.rate = r])
    /\ UNCHANGED <<base, verified, f01>>

\* A confirmed candidate brings the price of the benchmark land.
ApplyPrice ==
    /\ EditableForm(f04)
    /\ \E p \in BasePrices : f04' = Edited(f04, [f04.data EXCEPT !.price = p])
    /\ UNCHANGED <<base, verified, f01>>

\* ValuationService.update_form_draft: the data as read, with another rate,
\* and whatever it says of the calculation.
OverwriteF04 ==
    /\ Raw /\ EditableForm(f04)
    /\ \E r \in Rates : f04' = [f04 EXCEPT !.data.rate = r]
    /\ UNCHANGED <<base, verified, f01>>

\* _missing_f04.
MissingF04 ==
    {c \in {"price", "calculated_result_required", "must_match_f03", "rule"} :
        CASE c = "price" -> f04.data.price = None
          [] c = "calculated_result_required" -> base.status = "DRAFT"
          [] c = "must_match_f03" -> /\ base.status # "DRAFT" /\ f04.data.price # None
                                     /\ base.price # f04.data.price
          [] c = "rule" -> ~verified}

\* F01F04Service.calculate.
CalculateF04 ==
    /\ Len(f04.history) < MaxResults
    /\ MissingF04 = {}
    /\ f04' = Stored(f04, ParcelPrice(f04.data))
    /\ UNCHANGED <<base, verified, f01>>

Submit ==
    /\ \/ f01' = [f01 EXCEPT !.status = "READY"] /\ UNCHANGED f04
       \/ f04' = [f04 EXCEPT !.status = "READY"] /\ UNCHANGED f01
    /\ UNCHANGED <<base, verified>>

RulesChange == verified' = ~verified /\ UNCHANGED <<base, f01, f04>>

Next == \/ CalculateF03 \/ UpdateF01 \/ CalculateF01 \/ UpdateF04 \/ ApplyPrice
        \/ OverwriteF04 \/ CalculateF04 \/ Submit \/ RulesChange

Spec == Init /\ [][Next]_vars

---------------------------------------------------------------------------
(* Properties *)

\* A form that is calculated shows the result of its present data.
ResultsAreOfTheData ==
    /\ f01.calculated => f01.result = NormalPrice(f01.data)
    /\ f04.calculated => f04.result = ParcelPrice(f04.data)

\* The history of a calculated form ends with the result it shows, whatever
\* edits and failed calculations came in between.
HistoryEndsWithResult ==
    \A form \in {f01, f04} :
        form.calculated => /\ form.history # <<>>
                           /\ form.history[Len(form.history)] = form.result

\* What a submitted form shows never changes, although it may be calculated
\* again while F03 and the rules go on changing.
SubmittedResultsStay ==
    /\ f01.status = "READY" /\ f01.calculated => f01'.result = f01.result
    /\ f04.status = "READY" /\ f04.calculated => f04'.result = f04.result

\* The price a parcel shows is the least multiple of the unit of Article 21
\* that is not below its trial price, at the edges of the magnitudes too.
RoundingFollowsTheArticle ==
    LET unit(v) == CASE v < 100 -> 1 [] v < 1000 -> 10 [] v < 100000 -> 100 [] OTHER -> 1000
        trial == HalfUp(f04.data.price * (100 + f04.data.rate), 100)
    IN f04.calculated => /\ f04.result >= trial /\ f04.result - trial < unit(trial)
                         /\ f04.result % unit(trial) = 0
================================================================================
