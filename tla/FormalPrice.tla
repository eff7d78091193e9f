------------------------------ MODULE FormalPrice ------------------------------
(***************************************************************************)
(* The arithmetic of the formal report: adjustments from the levels of a   *)
(* rule, trial prices and the weighted price of the benchmark              *)
(* (report_packages/formal_calculation.py), and the regional adjustments   *)
(* of a case with several locations (multi_location_regional.py).  A       *)
(* behaviour picks one question and answers it.                            *)
(***************************************************************************)
EXTENDS Integers, Sequences, FiniteSets, FiniteSetsExt, SequencesExt

CONSTANTS
    R,          \* a rate of one; the code keeps rates in millionths
    C,          \* a price of one; the code keeps prices in hundredths
    Normals, Rates, Weights,  \* normal prices, adjustment rates, weights
    MaxTargets,
    Scores, Bounds,           \* of the levels of a rule
    MaxLevels,
    Numbers     \* widths and percentages a location may have

VARIABLES question, answer

vars == <<question, answer>>

PriceAssumption ==
    /\ R \in Nat \ {0} /\ C \in Nat \ {0}
    /\ Normals \subseteq Int /\ Rates \subseteq Int /\ Weights \subseteq Int
    /\ Scores \subseteq Int /\ Bounds \subseteq Nat
    /\ MaxTargets \in Nat /\ MaxLevels \in Nat

Pending == [kind |-> "pending"]
Refused(code) == [kind |-> "refused", code |-> code]

---------------------------------------------------------------------------
(* Levels of a published rule *)

Levels == [score : Scores, bound : Bounds]

Span(levels) ==
    Max({levels[i].score : i \in DOMAIN levels}) - Min({levels[i].score : i \in DOMAIN levels})

\* _formal_rule_and_levels: what the levels of one factor must satisfy.
Usable(levels) ==
    /\ Len(levels) >= 2
    /\ Cardinality({levels[i].bound : i \in DOMAIN levels}) = 1
    /\ Span(levels) =< levels[1].bound

\* calculate_level_adjustment: the comparable is adjusted to the benchmark.
Adjustment(benchmark, comparable) == benchmark.score - comparable.score

Magnitude(x) == IF x < 0 THEN -x ELSE x

LevelAdjustment(benchmark, comparable) ==
    IF benchmark.bound # comparable.bound THEN Refused("RULE_FACTOR_BOUND_INCONSISTENT")
    ELSE IF Magnitude(Adjustment(benchmark, comparable)) > benchmark.bound
    THEN Refused("FACTOR_ADJUSTMENT_OUT_OF_RANGE")
    ELSE [kind |-> "rate", rate |-> Adjustment(benchmark, comparable)]

---------------------------------------------------------------------------
(* Prices *)

\* Mutant: ROUND_DOWN.
Truncated(a, b) == a \div b

\* quantize(ROUND_HALF_UP) of a quotient that is not negative.
HalfUp(a, b) == (2 * a + b) \div (2 * b)

TargetInputs == [normal : Normals, time : Rates, regional : Rates, individual : Rates,
                 weight : Weights]

\* The normal price times the three factors, before any rounding.
Exact(t) == t.normal * (R + t.time) * (R + t.regional) * (R + t.individual)

\* calculate_target_price.
TrialPrice(t) == HalfUp(Exact(t), R * R * R)

TargetRefusal(t) ==
    IF t.normal < 0 THEN "COMPARISON_PRICE_RANGE"
    ELSE IF t.time =< -R \/ t.regional =< -R \/ t.individual =< -R
    THEN "COMPARISON_ADJUSTMENT_RANGE"
    ELSE IF t.weight < 0 \/ t.weight > R THEN "COMPARISON_WEIGHT_RANGE" ELSE ""

Total(f(_), n) == FoldSet(LAMBDA i, sum : sum + f(i), 0, 1 .. n)

WeightTotal(targets) == Total(LAMBDA i : targets[i].weight, Len(targets))

Weighed(targets) == WeightTotal(targets) = R

\* calculate_benchmark_comparison_price, over the targets in display order.
Price(targets) ==
    LET refused == {i \in DOMAIN targets : TargetRefusal(targets[i]) # ""}
    IN  IF refused # {} THEN Refused(TargetRefusal(targets[Min(refused)]))
        ELSE IF Len(targets) \notin 1 .. 3 THEN Refused("COMPARISON_TARGET_COUNT")
        ELSE IF ~Weighed(targets) THEN Refused("COMPARISON_WEIGHT_SUM")
        ELSE [kind |-> "price",
              price |-> HalfUp(Total(LAMBDA i : TrialPrice(targets[i]) * targets[i].weight,
                                     Len(targets)), R * C)]

---------------------------------------------------------------------------
(* Regional levels from the values of a location *)

\* A text is the set of the terms it contains, in English here; a clause is
\* tried in order.
Clause(terms, level) == [terms |-> terms, level |-> level]

Clauses ==
    [urban_plan_status |-> <<Clause({"in plan"}, 1), Clause({"outside plan"}, 5)>>,
     prohibited_building |-> <<Clause({"none", "no"}, 1), Clause({"there is", "yes"}, 5)>>,
     restricted_building |-> <<Clause({"none", "no"}, 1), Clause({"whole development"}, 5),
                               Clause({"restricted", "height", "area"}, 3)>>,
     road_plan |-> <<Clause({"all planned", "all opened"}, 1), Clause({"most part"}, 2),
                     Clause({"part"}, 3), Clause({"gravel"}, 4), Clause({"none at all"}, 5)>>,
     drainage |-> <<Clause({"extremely good"}, 1), Clause({"very good"}, 2),
                    Clause({"fairly good"}, 3), Clause({"bad"}, 4),
                    Clause({"extremely bad"}, 5)>>,
     terrain |-> <<Clause({"extremely flat"}, 1), Clause({"flat"}, 2),
                   Clause({"gentle slope"}, 3), Clause({"low"}, 4), Clause({"isolated"}, 5)>>]

Unknown == 0
NoNumber == [number |-> -1]

\* level_for_value for a text; a text no clause knows has no level.
TextLevel(factor, terms) ==
    LET known == {i \in DOMAIN Clauses[factor] :
                      Clauses[factor][i].terms \intersect terms # {}}
    IN  IF known = {} THEN Unknown ELSE Clauses[factor][Min(known)].level

\* The lower ends of the levels 1 to 4.
LowerEnds ==
    [building_coverage_rate |-> <<80, 70, 60, 50>>, floor_area_ratio |-> <<460, 360, 260, 180>>,
     main_road_width |-> <<28, 20, 12, 8>>, average_road_width |-> <<20, 15, 10, 8>>]

\* _level_for_number.
NumberLevel(factor, n) ==
    LET reached == {i \in 1 .. 4 : n >= LowerEnds[factor][i]}
    IN  IF reached = {} THEN 5 ELSE Min(reached)

\* _STEPS, in hundredths of a percentage point.
Step ==
    [urban_plan_status |-> 2000, building_coverage_rate |-> 250, floor_area_ratio |-> 625,
     prohibited_building |-> 5000, restricted_building |-> 2500, main_road_width |-> 375,
     average_road_width |-> 300, road_plan |-> 250, drainage |-> 250, terrain |-> 250]

\* _score: level 3 is the middle.
Score(factor, level) == (3 - level) * Step[factor]

\* level_for_value; no value, no level.
LevelOf(factor, value) ==
    CASE value = NoNumber             -> Unknown
      [] factor \in DOMAIN LowerEnds  -> NumberLevel(factor, value.number)
      [] factor \in DOMAIN Clauses    -> TextLevel(factor, value.terms)

\* One factor of a comparable location: what only one side knows stays blank.
RegionalRate(factor, benchmark, comparable) ==
    LET b == LevelOf(factor, benchmark)
        c == LevelOf(factor, comparable)
    IN  IF b = Unknown \/ c = Unknown THEN [kind |-> "blank"]
        ELSE [kind |-> "regional", rate |-> Score(factor, b) - Score(factor, c)]

---------------------------------------------------------------------------

NumberValues == [number : Numbers] \cup {NoNumber}

\* The wordings of field_rules.md, by the terms of the code they contain.
Wordings ==
    {[factor |-> "drainage", terms |-> {"extremely good"}, level |-> 1],
     [factor |-> "drainage", terms |-> {"very good"}, level |-> 2],
     [factor |-> "drainage", terms |-> {"fairly good"}, level |-> 3],
     [factor |-> "drainage", terms |-> {"bad"}, level |-> 4],
     [factor |-> "drainage", terms |-> {"extremely bad", "bad"}, level |-> 5],
     [factor |-> "road_plan", terms |-> {"all planned"}, level |-> 1],
     [factor |-> "road_plan", terms |-> {"most part", "part"}, level |-> 2],
     [factor |-> "road_plan", terms |-> {"part"}, level |-> 3],
     [factor |-> "road_plan", terms |-> {"gravel"}, level |-> 4],
     [factor |-> "road_plan", terms |-> {"none at all"}, level |-> 5],
     [factor |-> "restricted_building", terms |-> {"none", "restricted"}, level |-> 1],
     [factor |-> "restricted_building", terms |-> {"part", "restricted", "height", "area"},
      level |-> 3],
     [factor |-> "restricted_building", terms |-> {"restricted", "whole development"},
      level |-> 5]}

Questions ==
    [kind : {"price"}, targets : BoundedSeq(TargetInputs, MaxTargets)]
        \cup [kind : {"levels"}, levels : BoundedSeq(Levels, MaxLevels)]
        \cup [kind : {"numbers"}, factor : DOMAIN LowerEnds,
              benchmark : NumberValues, comparable : NumberValues]
        \cup {q \in [kind : {"texts"}, factor : DOMAIN Clauses, benchmark : Wordings,
                     comparable : Wordings] :
                 q.benchmark.factor = q.factor /\ q.comparable.factor = q.factor}

Init == question \in Questions /\ answer = Pending

AnswerPrice ==
    /\ question.kind = "price"
    /\ answer' = Price(question.targets)

\* Every pair of levels a form may choose.
AnswerLevels ==
    /\ question.kind = "levels"
    /\ answer' = IF ~Usable(question.levels) THEN Refused("FORMAL_RULE_LEVELS_INCOMPLETE")
                 ELSE [kind |-> "pairs", pairs |->
                          [p \in (DOMAIN question.levels) \X (DOMAIN question.levels) |->
                              LevelAdjustment(question.levels[p[1]], question.levels[p[2]])]]

AnswerRegional ==
    /\ question.kind \in {"numbers", "texts"}
    /\ answer' = RegionalRate(question.factor, question.benchmark, question.comparable)

Next ==
    /\ answer = Pending
    /\ AnswerPrice \/ AnswerLevels \/ AnswerRegional
    /\ UNCHANGED question

Spec == Init /\ [][Next]_vars

---------------------------------------------------------------------------
(* Properties *)

TypeOK ==
    /\ question.kind \in {"price", "levels", "numbers", "texts"}
    /\ answer.kind \in {"pending", "refused", "price", "pairs", "blank", "regional"}
    /\ answer.kind = "price" => answer.price \in Nat
    /\ answer.kind = "regional" => answer.rate \in Int

\* The price of the benchmark lies between its trial prices, to half a unit.
PriceBetweenTrials ==
    answer.kind = "price" =>
        LET trials == {TrialPrice(question.targets[i]) : i \in DOMAIN question.targets}
        IN  /\ 2 * C * answer.price >= 2 * Min(trials) - C
            /\ 2 * C * answer.price =< 2 * Max(trials) + C

\* Rounding trial prices first and the price afterwards stays within half of
\* either unit of the price in exact arithmetic.
PriceNearExact ==
    answer.kind = "price" =>
        LET exact == Total(LAMBDA i : Exact(question.targets[i]) * question.targets[i].weight,
                           Len(question.targets))
        IN  2 * Magnitude(C * answer.price * R * R * R * R - exact) =< (C + 1) * R * R * R * R

\* The checks on the levels of a rule suffice: no pair of levels a form may
\* choose is refused afterwards, and exchanging the two lands negates the rate.
UsableLevelsAdjust ==
    answer.kind = "pairs" =>
        \A p \in DOMAIN answer.pairs :
            /\ answer.pairs[p].kind = "rate"
            /\ answer.pairs[p].rate = -answer.pairs[<<p[2], p[1]>>].rate

\* "≥80%／70%–<80%／..." (field_rules.md): the adjustment counts the lower ends
\* between the two numbers, and is upwards when the benchmark is better.
AdjustmentCountsLowerEnds ==
    question.kind = "numbers" /\ answer.kind = "regional" =>
        LET ends == LowerEnds[question.factor]
            Above(n) == Cardinality({i \in 1 .. 4 : n >= ends[i]})
        IN  answer.rate = Step[question.factor]
                * (Above(question.benchmark.number) - Above(question.comparable.number))
================================================================================
