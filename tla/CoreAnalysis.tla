---------------------------- MODULE CoreAnalysis ----------------------------
(***************************************************************************)
(* sitescore-core: from four category scores and the operator's own figures *)
(* to the location score, the financial result, the decision and the        *)
(* confidence.  Category scores are in tenths of a point, weights and       *)
(* ratios in percent; a ratio is compared by cross-multiplication and the   *)
(* multiplier of a penalty is rounded up to a thousandth.  What binary floating point adds to the  *)
(* location score is one bit, below: a final score that is exactly on a     *)
(* threshold may be computed a hair under it, and only the rounded copy is  *)
(* then on it.  The other thresholds are taken as exact.                    *)
(***************************************************************************)
EXTENDS Integers, FiniteSets, FiniteSetsExt

Sectors == {"coffee", "restaurant", "gym", "beauty"}
Categories == {"demand", "competition", "accessibility", "economics"}
Order == <<"demand", "competition", "accessibility", "economics">>

CategoryWeight ==
    [coffee |-> [demand |-> 40, competition |-> 30, accessibility |-> 20, economics |-> 10],
     restaurant |-> [demand |-> 25, competition |-> 20, accessibility |-> 30, economics |-> 25],
     gym |-> [demand |-> 30, competition |-> 15, accessibility |-> 30, economics |-> 25],
     beauty |-> [demand |-> 20, competition |-> 25, accessibility |-> 20, economics |-> 35]]

(* <<threshold, largest penalty>> in percent; a zero threshold never bites. *)
Dealbreaker ==
    [coffee |-> [demand |-> <<35, 45>>, competition |-> <<30, 40>>,
                 accessibility |-> <<30, 40>>, economics |-> <<0, 0>>],
     restaurant |-> [demand |-> <<30, 35>>, competition |-> <<20, 20>>,
                     accessibility |-> <<25, 30>>, economics |-> <<25, 30>>],
     gym |-> [demand |-> <<25, 30>>, competition |-> <<20, 25>>,
              accessibility |-> <<30, 40>>, economics |-> <<20, 25>>],
     beauty |-> [demand |-> <<20, 25>>, competition |-> <<25, 35>>,
                 accessibility |-> <<20, 20>>, economics |-> <<35, 45>>]]

CategoryScores(scores) == \A c \in Categories : scores[c] \in 0..1000

-----------------------------------------------------------------------------
(* The location engine: base score times the strongest penalty. *)

\* (mutant) The deficit is measured from the wrong side.
PenaltyInverted(score, rule) ==
    LET threshold == 10 * rule[1]
        deficit == score - threshold
    IN IF threshold = 0 \/ deficit <= 0 THEN 1000
       ELSE 1000 - ((10 * rule[2] * (deficit * deficit)) \div (threshold * threshold))
Penalty(score, rule) ==
    LET threshold == 10 * rule[1]
        deficit == threshold - score
    IN IF threshold = 0 \/ deficit <= 0 THEN 1000
       ELSE 1000 - ((10 * rule[2] * (deficit * deficit)) \div (threshold * threshold))

BaseScore(sector, scores) ==
    CategoryWeight[sector]["demand"] * scores["demand"]
    + CategoryWeight[sector]["competition"] * scores["competition"]
    + CategoryWeight[sector]["accessibility"] * scores["accessibility"]
    + CategoryWeight[sector]["economics"] * scores["economics"]

Multiplier(sector, scores) == Min({Penalty(scores[c], Dealbreaker[sector][c]) : c \in Categories})
FinalScore(sector, scores) == BaseScore(sector, scores) * Multiplier(sector, scores)

Point == 1000000       \* one point of a final score
StrongMin == 75 * Point
ConditionalMin == 50 * Point

StructuralBand(final, below) ==
    LET reaches(minimum) == final > minimum \/ (final = minimum /\ ~below)
    IN CASE reaches(StrongMin) -> "strong"
         [] ~reaches(StrongMin) /\ reaches(ConditionalMin) -> "conditional"
         [] OTHER -> "weak"

(* The first of the categories, in the order of the enumeration, that the strongest penalty names. *)
DominantRisk(sector, scores) ==
    LET strongest == {c \in Categories :
            Penalty(scores[c], Dealbreaker[sector][c]) = Multiplier(sector, scores)}
        before(c, d) == \E i, j \in 1..4 : i <= j /\ Order[i] = c /\ Order[j] = d
    IN IF Multiplier(sector, scores) = 1000 THEN "none"
       ELSE CHOOSE c \in strongest : \A d \in strongest : before(c, d)

Location(sector, scores, below) ==
    [base |-> BaseScore(sector, scores), multiplier |-> Multiplier(sector, scores),
     final |-> FinalScore(sector, scores),
     band |-> StructuralBand(FinalScore(sector, scores), below),
     risk |-> DominantRisk(sector, scores)]

-----------------------------------------------------------------------------
(* The revenue engines: rates in tenths, revenue in tenths of the currency. *)

Scenarios == {"conservative", "base", "optimistic"}
RatesOrdered(rate) ==
    /\ \A s \in Scenarios : rate[s] \in 0..10
    /\ rate["conservative"] <= rate["base"] /\ rate["base"] <= rate["optimistic"]

Positive(n) == n \in Nat \ {0}
CoffeeRevenueInput(i) ==
    i.population \in Nat /\ RatesOrdered(i.rate) /\ i.visits \in Nat /\ Positive(i.price)
RestaurantRevenueInput(i) ==
    Positive(i.seats) /\ i.turnover \in Nat /\ RatesOrdered(i.rate) /\ Positive(i.price) /\ Positive(i.days)
GymRevenueInput(i) ==
    i.population \in Nat /\ RatesOrdered(i.rate) /\ Positive(i.area) /\ Positive(i.members) /\ Positive(i.price)
BeautyRevenueInput(i) ==
    Positive(i.stations) /\ Positive(i.hours) /\ Positive(i.duration) /\ RatesOrdered(i.rate) /\ Positive(i.price)

RevenueInput(sector, i) ==
    /\ i.sector = sector
    /\ CASE sector = "coffee" -> CoffeeRevenueInput(i)
         [] sector = "restaurant" -> RestaurantRevenueInput(i)
         [] sector = "gym" -> GymRevenueInput(i)
         [] sector = "beauty" -> BeautyRevenueInput(i)

CoffeeRevenue(i, s) == i.population * i.rate[s] * i.visits * i.price
RestaurantRevenue(i, s) == i.seats * i.turnover * i.rate[s] * i.price * i.days
GymRevenue(i, s) == Min({i.population * i.rate[s], 10 * i.area * i.members}) * i.price
BeautyRevenue(i, s) == (i.stations * i.hours * i.rate[s] * i.price * 433) \div (100 * i.duration)

Revenue(i) ==
    [s \in Scenarios |->
        CASE i.sector = "coffee" -> CoffeeRevenue(i, s)
          [] i.sector = "restaurant" -> RestaurantRevenue(i, s)
          [] i.sector = "gym" -> GymRevenue(i, s)
          [] i.sector = "beauty" -> BeautyRevenue(i, s)]

-----------------------------------------------------------------------------
(* The financial engine *)

Infinite == -1     \* float("inf"): revenue covers no fixed cost, or rent burdens no revenue
VariableCost == [coffee |-> 30, restaurant |-> 35, gym |-> 5, beauty |-> 55]
RentWarning == [coffee |-> 15, restaurant |-> 12, gym |-> 25, beauty |-> 15]

OperatingCosts(costs) == costs.rent \in Nat /\ costs.labor \in Nat /\ costs.overhead \in Nat
FixedCosts(costs) == 10 * (costs.rent + costs.labor + costs.overhead)

(* Break-even coverage in percent, downwards: revenue * margin / fixed costs. *)
Coverage(sector, revenue, costs) ==
    IF FixedCosts(costs) = 0 THEN Infinite
    ELSE (revenue * (100 - VariableCost[sector])) \div FixedCosts(costs)
Covers(coverage, percent) == coverage = Infinite \/ coverage >= percent

RentBurden(revenue, costs) ==
    CASE costs.rent = 0 -> 0
      [] costs.rent > 0 /\ revenue = 0 -> Infinite
      [] OTHER -> (1000 * costs.rent) \div revenue

RentSeverity(sector, revenue, costs) ==
    LET within(quarters) == 4 * 1000 * costs.rent <= quarters * RentWarning[sector] * revenue
    IN CASE costs.rent = 0 \/ within(4) -> "normal"
         [] costs.rent > 0 /\ ~within(4) /\ within(5) -> "elevated"
         [] OTHER -> "severe"

MarginNegative(sector, revenue, costs) ==
    revenue > 0 /\ revenue * (100 - VariableCost[sector]) < 100 * FixedCosts(costs)

Financial(sector, revenue, costs) ==
    [bec_base |-> Coverage(sector, revenue["base"], costs),
     bec_conservative |-> Coverage(sector, revenue["conservative"], costs),
     rent_burden |-> RentBurden(revenue["base"], costs),
     rent_severity |-> RentSeverity(sector, revenue["base"], costs),
     negative_margin |-> MarginNegative(sector, revenue["base"], costs),
     stress_test_failed |-> ~Covers(Coverage(sector, revenue["conservative"], costs), 100)]

(* A result with an infinite figure has no JSON form that the database accepts. *)
Storable(financial) == Infinite \notin {financial.bec_base, financial.bec_conservative, financial.rent_burden}

-----------------------------------------------------------------------------
(* Decision and confidence *)

FinancialBand(coverage) ==
    CASE Covers(coverage, 150) -> "strong"
      [] ~Covers(coverage, 150) /\ Covers(coverage, 100) -> "thin"
      [] OTHER -> "non_viable"

(* The decision reads the rounded score: noise under a threshold is gone. *)
DecisionClass(final, coverage) ==
    LET money == FinancialBand(coverage)
    IN CASE final >= StrongMin ->
              [strong |-> "prime_opportunity", thin |-> "strong_site_thin_economics",
               non_viable |-> "tourist_trap"][money]
         [] final < StrongMin /\ final >= ConditionalMin ->
              [strong |-> "hidden_gem", thin |-> "conditional_site",
               non_viable |-> "weak_site_weak_economics"][money]
         [] OTHER -> IF money = "non_viable" THEN "dead_end" ELSE "structural_risk"

RiskFlags(financial) ==
    {f \in {"HIGH_RENT_BURDEN", "SEVERE_RENT_BURDEN", "STRESS_TEST_FAILED",
            "NEGATIVE_BASE_OPERATING_MARGIN"} :
        \/ f = "HIGH_RENT_BURDEN" /\ financial.rent_severity = "elevated"
        \/ f = "SEVERE_RENT_BURDEN" /\ financial.rent_severity = "severe"
        \/ f = "STRESS_TEST_FAILED" /\ financial.stress_test_failed
        \/ f = "NEGATIVE_BASE_OPERATING_MARGIN" /\ financial.negative_margin}

Decision(location, financial) ==
    [class |-> DecisionClass(location.final, financial.bec_base), band |-> location.band,
     financial_band |-> FinancialBand(financial.bec_base), flags |-> RiskFlags(financial)]

(* The score table knows zcta; the level of a ZIP is spelled zip and earns nothing. *)
PrecisionScore ==
    [block_group |-> 100, tract |-> 75, zcta |-> 50, county |-> 25, unknown |-> 0]
GeographicPrecision(level) == IF level \in DOMAIN PrecisionScore THEN PrecisionScore[level] ELSE 0
NoAge == -1        \* None: nobody says how old the data is
VintageScore(age) ==
    CASE age < 0 -> 0 [] age \in {0, 1} -> 100 [] age = 2 -> 90 [] age = 3 -> 75
      [] age = 4 -> 55 [] OTHER -> 30
CoverageScore == [full |-> 100, degraded |-> 60, missing |-> 0]
InputScore == [user |-> 100, default |-> 50, missing |-> 0]
InputWeight == [rent |-> 30, price |-> 30, capacity |-> 25, schedule |-> 15]

(* What nobody states is missing. *)
Stated(levels, key) == IF key \in DOMAIN levels THEN levels[key] ELSE "missing"
DataCoverage(sector, coverage) ==
    LET part(c) == CategoryWeight[sector][c] * CoverageScore[Stated(coverage, c)]
    IN part("demand") + part("competition") + part("accessibility") + part("economics")
InputCompleteness(qualities) ==
    LET part(n) == InputWeight[n] * InputScore[Stated(qualities, n)]
    IN part("rent") + part("price") + part("capacity") + part("schedule")

(* In hundredths of a percent of a percent: 1000000 is full confidence. *)
Confidence(sector, i) ==
    3000 * GeographicPrecision(i.level) + 2000 * VintageScore(i.age)
    + 25 * DataCoverage(sector, i.coverage) + 25 * InputCompleteness(i.qualities)
ConfidenceLabel(overall) ==
    CASE overall >= 850000 -> "high" [] overall \in 700000..849999 -> "moderate"
      [] overall \in 500000..699999 -> "limited" [] OTHER -> "low"

-----------------------------------------------------------------------------
AnalysisInput(i) ==
    /\ i.sector \in Sectors /\ CategoryScores(i.scores) /\ RevenueInput(i.sector, i.revenue)
    /\ OperatingCosts(i.costs) /\ i.age \in Nat \cup {NoAge}
    /\ DOMAIN i.coverage \subseteq Categories /\ DOMAIN i.qualities \subseteq DOMAIN InputWeight

Analyze(i, below) ==
    LET location == Location(i.sector, i.scores, below)
        financial == Financial(i.sector, Revenue(i.revenue), i.costs)
        confidence == Confidence(i.sector, i)
    IN [input |-> i, location |-> location, financial |-> financial,
        decision |-> Decision(location, financial),
        confidence |-> confidence, label |-> ConfidenceLabel(confidence)]
=============================================================================
