------------------------ MODULE CoreAnalysis_proofs ------------------------
(***************************************************************************)
(* Proofs about the engines of sitescore-core, for every input they accept. *)
(* What is better never counts as worse: a category score, a revenue, a     *)
(* bill.  Penalties and ratios are cut to whole shares on their way, the     *)
(* strongest of four penalties is taken, and what costs nothing is covered   *)
(* infinitely often: that the order survives all this is what is proved.     *)
(***************************************************************************)
EXTENDS CoreAnalysis, TLAPS

(* Integer division by what is positive never reverses an order. *)
LEMMA DivisionIsMonotone ==
    ASSUME NEW x \in Nat, NEW y \in Nat, x <= y, NEW n \in Nat \ {0}
    PROVE  x \div n \in Nat /\ x \div n <= y \div n
<1>1. /\ x \div n \in Int /\ y \div n \in Int
      /\ x = n * (x \div n) + (x % n) /\ x % n \in 0..(n - 1)
      /\ y = n * (y \div n) + (y % n) /\ y % n \in 0..(n - 1)
  BY SMT
<1>2. ASSUME NEW a \in Int, NEW b \in Int, a >= b + 1 PROVE n * a >= n * b + n
  BY <1>2, SMT
<1>3. x \div n >= 0
  <2>1. CASE x \div n <= -1
    BY <1>1, <1>2, <2>1, SMT
  <2>2. QED
    BY <1>1, <2>1
<1>4. x \div n <= y \div n
  BY <1>1, <1>2
<1>5. QED
  BY <1>1, <1>3, <1>4

(* Products of naturals grow with their factors. *)
LEMMA ProductIsMonotone ==
    ASSUME NEW a \in Nat, NEW b \in Nat, NEW x \in Nat, NEW y \in Nat, a <= b, x <= y
    PROVE  a * x \in Nat /\ a * x <= b * y
<1>1. a * x \in Nat /\ b * x \in Nat /\ b * y \in Nat
  BY SMT
<1>2. a * x <= b * x
  BY SMT
<1>3. b * x <= b * y
  BY SMT
<1>4. QED
  BY <1>1, <1>2, <1>3
(* What is cut from the score of a category: between nothing and everything, and less from a higher score. *)
LEMMA PenaltyGrowsWithTheScore ==
    ASSUME NEW low \in Nat, NEW high \in Nat, low <= high,
           NEW limit \in Nat, NEW most \in Nat, most <= 100
    PROVE  /\ Penalty(low, <<limit, most>>) \in Nat /\ Penalty(high, <<limit, most>>) \in Nat
           /\ Penalty(low, <<limit, most>>) <= Penalty(high, <<limit, most>>)
<1> DEFINE threshold == 10 * limit
           square == threshold * threshold
           part(e) == 10 * most * (e * e)
           cut(score) == part(threshold - score) \div square
<1>1. ASSUME NEW x \in 1..threshold, NEW y \in 1..threshold, x <= y
      PROVE  /\ part(x) \div square \in Nat /\ part(x) \div square <= 1000
             /\ part(x) \div square <= part(y) \div square
  <2>1. threshold \in Nat \ {0} /\ x \in Nat /\ y \in Nat /\ x <= threshold /\ 10 * most \in Nat /\ 10 * most <= 1000
    BY <1>1
  <2> HIDE DEF threshold
  <2>2. /\ x * x \in Nat /\ y * y \in Nat /\ square \in Nat \ {0}
        /\ x * x <= y * y /\ x * x <= square
    <3>1. x * x \in Nat /\ x * x <= y * y /\ y * y \in Nat /\ x * x <= threshold * threshold
      BY <1>1, <2>1, ProductIsMonotone
    <3>2. threshold * threshold \in Nat /\ threshold * threshold >= 1 * 1
      BY <2>1, ProductIsMonotone
    <3>3. QED
      BY <3>1, <3>2
  <2> DEFINE a == x * x
             b == y * y
             m == 10 * most
  <2> HIDE DEF a, b, m, square
  <2>3. a \in Nat /\ b \in Nat /\ m \in Nat /\ m <= 1000 /\ a <= b /\ a <= square /\ square \in Nat \ {0}
    BY <2>1, <2>2 DEF a, b, m
  <2>4. m * a \in Nat /\ m * b \in Nat /\ m * a <= m * b /\ m * a <= 1000 * square
    BY <2>3, ProductIsMonotone
  <2>5. (1000 * square) \div square = 1000 /\ 1000 * square \in Nat
    BY <2>3, SMT
  <2>6. /\ (m * a) \div square \in Nat /\ (m * a) \div square <= 1000
        /\ (m * a) \div square <= (m * b) \div square
    BY <2>3, <2>4, <2>5, DivisionIsMonotone
  <2>7. QED
    BY <2>6 DEF a, b, m
<1>2. threshold \in Nat
  OBVIOUS
<1>3. ASSUME NEW score \in {low, high}
      PROVE  Penalty(score, <<limit, most>>) =
                 IF threshold = 0 \/ threshold - score <= 0 THEN 1000 ELSE 1000 - cut(score)
  BY DEF Penalty
<1> HIDE DEF part, square
<1>4. CASE threshold = 0 \/ threshold - low <= 0
  BY <1>2, <1>3, <1>4
<1>5. CASE threshold # 0 /\ threshold - low > 0 /\ threshold - high <= 0
  <2>1. threshold - low \in 1..threshold
    BY <1>2, <1>5
  <2>2. cut(low) \in Nat /\ cut(low) <= 1000
    BY <1>1, <2>1
  <2>3. Penalty(low, <<limit, most>>) = 1000 - cut(low) /\ Penalty(high, <<limit, most>>) = 1000
    BY <1>2, <1>3, <1>5
  <2> HIDE DEF cut, threshold
  <2>4. QED
    BY <2>2, <2>3
<1>6. CASE threshold # 0 /\ threshold - low > 0 /\ threshold - high > 0
  <2>1. threshold - low \in 1..threshold /\ threshold - high \in 1..threshold
    BY <1>2, <1>6
  <2>2. threshold - high <= threshold - low
    BY <1>2
  <2>3. /\ cut(low) \in Nat /\ cut(low) <= 1000 /\ cut(high) \in Nat /\ cut(high) <= 1000
        /\ cut(high) <= cut(low)
    <3>1. cut(high) \in Nat /\ cut(high) <= 1000 /\ cut(high) <= cut(low)
      BY <1>1, <2>1, <2>2
    <3>2. cut(low) \in Nat /\ cut(low) <= 1000
      BY <1>1, <2>1
    <3>3. QED
      BY <3>1, <3>2
  <2>4. Penalty(low, <<limit, most>>) = 1000 - cut(low) /\ Penalty(high, <<limit, most>>) = 1000 - cut(high)
    BY <1>2, <1>3, <1>6
  <2> HIDE DEF cut, threshold
  <2>5. QED
    BY <2>3, <2>4
<1>7. QED
  BY <1>2, <1>4, <1>5, <1>6
(* The rules of the sectors, as they are configured. *)
LEMMA RulesAreSound ==
    ASSUME NEW sector \in Sectors, NEW c \in Categories
    PROVE  /\ CategoryWeight[sector][c] \in Nat
           /\ \E limit, most \in Nat : most <= 100 /\ Dealbreaker[sector][c] = <<limit, most>>
<1>1. CategoryWeight[sector][c] \in Nat
  BY DEF CategoryWeight, Sectors, Categories
<1>2. \E limit, most \in Nat : most <= 100 /\ Dealbreaker[sector][c] = <<limit, most>>
  BY DEF Dealbreaker, Sectors, Categories
<1>3. QED
  BY <1>1, <1>2

(* The strongest penalty is one of the penalties and none is stronger. *)
LEMMA TheStrongestPenalty ==
    ASSUME NEW sector \in Sectors, NEW scores,
           \A c \in Categories : Penalty(scores[c], Dealbreaker[sector][c]) \in Nat
    PROVE  /\ Multiplier(sector, scores) \in Nat
           /\ \E c \in Categories : Multiplier(sector, scores) = Penalty(scores[c], Dealbreaker[sector][c])
           /\ \A c \in Categories : Multiplier(sector, scores) <= Penalty(scores[c], Dealbreaker[sector][c])
<1> DEFINE cut(c) == Penalty(scores[c], Dealbreaker[sector][c])
           all == {cut(c) : c \in Categories}
<1>1. all = {cut("demand"), cut("competition"), cut("accessibility"), cut("economics")}
  BY DEF Categories
<1>2. /\ cut("demand") \in Nat /\ cut("competition") \in Nat
      /\ cut("accessibility") \in Nat /\ cut("economics") \in Nat
  BY DEF Categories
<1>3. Multiplier(sector, scores) = CHOOSE x \in all : \A y \in all : x <= y
  BY DEF Multiplier, Min
<1> HIDE DEF cut, all
<1>4. \E x \in all : \A y \in all : x <= y
  <2> DEFINE first == IF cut("demand") <= cut("competition") THEN cut("demand") ELSE cut("competition")
             second == IF cut("accessibility") <= cut("economics") THEN cut("accessibility")
                       ELSE cut("economics")
             least == IF first <= second THEN first ELSE second
  <2>1. /\ first \in Nat /\ first <= cut("demand") /\ first <= cut("competition")
        /\ first \in {cut("demand"), cut("competition")}
    BY <1>2
  <2>2. /\ second \in Nat /\ second <= cut("accessibility") /\ second <= cut("economics")
        /\ second \in {cut("accessibility"), cut("economics")}
    BY <1>2
  <2> HIDE DEF first, second
  <2>3. least \in {first, second} /\ least <= first /\ least <= second /\ least \in Nat
    BY <2>1, <2>2
  <2> HIDE DEF least
  <2>4. \A y \in all : least <= y
    BY <1>1, <1>2, <2>1, <2>2, <2>3
  <2>5. least \in all
    BY <1>1, <2>1, <2>2, <2>3
  <2>6. QED
    BY <2>4, <2>5
<1>5. Multiplier(sector, scores) \in all /\ \A y \in all : Multiplier(sector, scores) <= y
  BY <1>3, <1>4
<1>6. \A c \in Categories : cut(c) \in all /\ cut(c) \in Nat
  BY DEF cut, all
<1>7. QED
  BY <1>5, <1>6 DEF cut, all

(* With everything else as it was, a better category never makes the location worse. *)
THEOREM BetterScoresAreNeverWorse ==
    ASSUME NEW sector \in Sectors, NEW scores, NEW better,
           CategoryScores(scores), CategoryScores(better),
           \A c \in Categories : scores[c] <= better[c]
    PROVE  FinalScore(sector, scores) <= FinalScore(sector, better)
<1>0. ASSUME NEW c \in Categories PROVE scores[c] \in Nat /\ better[c] \in Nat
  <2>1. scores[c] \in Nat
    BY DEF CategoryScores
  <2>2. better[c] \in Nat
    BY DEF CategoryScores
  <2>3. QED
    BY <2>1, <2>2
<1>1. ASSUME NEW c \in Categories
      PROVE  /\ Penalty(scores[c], Dealbreaker[sector][c]) \in Nat
             /\ Penalty(better[c], Dealbreaker[sector][c]) \in Nat
             /\ Penalty(scores[c], Dealbreaker[sector][c]) <= Penalty(better[c], Dealbreaker[sector][c])
  <2>1. PICK limit \in Nat, most \in Nat : most <= 100 /\ Dealbreaker[sector][c] = <<limit, most>>
    BY RulesAreSound
  <2>2. scores[c] \in Nat /\ better[c] \in Nat
    BY <1>0
  <2>3. QED
    BY <2>1, <2>2, PenaltyGrowsWithTheScore
<1>2. /\ Multiplier(sector, scores) \in Nat /\ Multiplier(sector, better) \in Nat
      /\ Multiplier(sector, scores) <= Multiplier(sector, better)
  <2>1. /\ Multiplier(sector, scores) \in Nat
        /\ \A c \in Categories : Multiplier(sector, scores) <= Penalty(scores[c], Dealbreaker[sector][c])
    BY <1>1, TheStrongestPenalty
  <2>2. Multiplier(sector, better) \in Nat
    BY <1>1, TheStrongestPenalty
  <2>3. PICK c \in Categories : Multiplier(sector, better) = Penalty(better[c], Dealbreaker[sector][c])
    BY <1>1, TheStrongestPenalty
  <2>4. Multiplier(sector, scores) <= Penalty(scores[c], Dealbreaker[sector][c])
    BY <2>1
  <2>5. QED
    BY <1>1, <2>1, <2>2, <2>3, <2>4
<1>3. ASSUME NEW c \in Categories
      PROVE  /\ CategoryWeight[sector][c] * scores[c] \in Nat
             /\ CategoryWeight[sector][c] * better[c] \in Nat
             /\ CategoryWeight[sector][c] * scores[c] <= CategoryWeight[sector][c] * better[c]
  <2>1. CategoryWeight[sector][c] \in Nat /\ scores[c] \in Nat /\ better[c] \in Nat
    BY <1>0, RulesAreSound
  <2>2. CategoryWeight[sector][c] * better[c] \in Nat
    BY <2>1, ProductIsMonotone
  <2>3. QED
    BY <2>1, <2>2, ProductIsMonotone
<1>4. /\ BaseScore(sector, scores) \in Nat /\ BaseScore(sector, better) \in Nat
      /\ BaseScore(sector, scores) <= BaseScore(sector, better)
  <2> DEFINE worth(by, c) == CategoryWeight[sector][c] * by[c]
  <2>1. \A c \in {"demand", "competition", "accessibility", "economics"} :
           worth(scores, c) \in Nat /\ worth(better, c) \in Nat /\ worth(scores, c) <= worth(better, c)
    BY <1>3 DEF Categories
  <2>2. \A by : BaseScore(sector, by) =
           worth(by, "demand") + worth(by, "competition") + worth(by, "accessibility") + worth(by, "economics")
    BY DEF BaseScore
  <2> HIDE DEF worth
  <2>3. QED
    BY <2>1, <2>2
<1>5. QED
  BY <1>2, <1>4, ProductIsMonotone DEF FinalScore
-----------------------------------------------------------------------------
(* The operator's own figures: an accepted command has finite revenues, and a result that has no form *)
(* in the database has it for one of two reasons.                                                     *)

LEMMA ProductIsNatural ==
    ASSUME NEW x \in Nat, NEW y \in Nat PROVE x * y \in Nat
BY ProductIsMonotone

(* No accepted input gives a negative revenue, in any sector and scenario. *)
LEMMA RevenueIsNatural ==
    ASSUME NEW sector \in Sectors, NEW i, RevenueInput(sector, i), NEW s \in Scenarios
    PROVE  Revenue(i)[s] \in Nat
<1>1. i.sector = sector
  BY DEF RevenueInput
<1>2. CASE sector = "coffee"
  <2>1. /\ i.population \in Nat /\ i.rate[s] \in Nat /\ i.visits \in Nat /\ i.price \in Nat
    BY <1>2 DEF RevenueInput, CoffeeRevenueInput, RatesOrdered, Positive
  <2>2. Revenue(i)[s] = i.population * i.rate[s] * i.visits * i.price
    BY <1>1, <1>2 DEF Revenue, CoffeeRevenue
  <2>3. i.population * i.rate[s] \in Nat
    BY <2>1, ProductIsNatural
  <2>4. i.population * i.rate[s] * i.visits \in Nat
    BY <2>1, <2>3, ProductIsNatural
  <2>5. QED
    BY <2>1, <2>2, <2>4, ProductIsNatural
<1>3. CASE sector = "restaurant"
  <2>1. /\ i.seats \in Nat /\ i.turnover \in Nat /\ i.rate[s] \in Nat /\ i.price \in Nat /\ i.days \in Nat
    BY <1>3 DEF RevenueInput, RestaurantRevenueInput, RatesOrdered, Positive
  <2>2. Revenue(i)[s] = i.seats * i.turnover * i.rate[s] * i.price * i.days
    BY <1>1, <1>3 DEF Revenue, RestaurantRevenue
  <2>3. i.seats * i.turnover \in Nat
    BY <2>1, ProductIsNatural
  <2>4. i.seats * i.turnover * i.rate[s] \in Nat
    BY <2>1, <2>3, ProductIsNatural
  <2>5. i.seats * i.turnover * i.rate[s] * i.price \in Nat
    BY <2>1, <2>4, ProductIsNatural
  <2>6. QED
    BY <2>1, <2>2, <2>5, ProductIsNatural
<1>4. CASE sector = "gym"
  <2>1. /\ i.population \in Nat /\ i.rate[s] \in Nat /\ i.area \in Nat /\ i.members \in Nat /\ i.price \in Nat
    BY <1>4 DEF RevenueInput, GymRevenueInput, RatesOrdered, Positive
  <2> DEFINE demand == i.population * i.rate[s]
             capacity == 10 * i.area * i.members
  <2>2. Revenue(i)[s] = Min({demand, capacity}) * i.price
    BY <1>1, <1>4 DEF Revenue, GymRevenue
  <2>3. demand \in Nat
    BY <2>1, ProductIsNatural
  <2>4. capacity \in Nat
    <3>1. 10 * i.area \in Nat
      BY <2>1
    <3>2. QED
      BY <2>1, <3>1, ProductIsNatural
  <2> HIDE DEF demand, capacity
  <2>5. Min({demand, capacity}) \in Nat
    <3>1. \E x \in {demand, capacity} : \A y \in {demand, capacity} : x <= y
      BY <2>3, <2>4
    <3>2. QED
      BY <2>3, <2>4, <3>1 DEF Min
  <2>6. QED
    BY <2>1, <2>2, <2>5, ProductIsNatural
<1>5. CASE sector = "beauty"
  <2>1. /\ i.stations \in Nat /\ i.hours \in Nat /\ i.rate[s] \in Nat /\ i.price \in Nat
        /\ i.duration \in Nat \ {0}
    BY <1>5 DEF RevenueInput, BeautyRevenueInput, RatesOrdered, Positive
  <2>2. Revenue(i)[s] = (i.stations * i.hours * i.rate[s] * i.price * 433) \div (100 * i.duration)
    BY <1>1, <1>5 DEF Revenue, BeautyRevenue
  <2>3. i.stations * i.hours \in Nat
    BY <2>1, ProductIsNatural
  <2>4. i.stations * i.hours * i.rate[s] \in Nat
    BY <2>1, <2>3, ProductIsNatural
  <2>5. i.stations * i.hours * i.rate[s] * i.price \in Nat
    BY <2>1, <2>4, ProductIsNatural
  <2>6. i.stations * i.hours * i.rate[s] * i.price * 433 \in Nat /\ 100 * i.duration \in Nat \ {0}
    BY <2>1, <2>5
  <2>7. QED
    BY <2>2, <2>6, DivisionIsMonotone
<1>6. QED
  BY <1>2, <1>3, <1>4, <1>5 DEF Sectors

(* Only a business without fixed costs, or one that pays rent out of no revenue, has an infinite figure. *)
LEMMA InfiniteForCause ==
    ASSUME NEW sector \in Sectors, NEW revenue, \A s \in Scenarios : revenue[s] \in Nat, NEW costs,
           OperatingCosts(costs), ~Storable(Financial(sector, revenue, costs))
    PROVE  FixedCosts(costs) = 0 \/ (costs.rent > 0 /\ revenue["base"] = 0)
<1>1. /\ costs.rent \in Nat /\ FixedCosts(costs) \in Nat
      /\ revenue["base"] \in Nat /\ revenue["conservative"] \in Nat
  BY DEF OperatingCosts, FixedCosts, Scenarios
<1>2. ASSUME FixedCosts(costs) # 0, NEW r \in Nat PROVE Coverage(sector, r, costs) # Infinite
  <2>1. 100 - VariableCost[sector] \in Nat
    BY DEF VariableCost, Sectors
  <2>2. r * (100 - VariableCost[sector]) \in Nat
    BY <2>1, ProductIsNatural
  <2>3. Coverage(sector, r, costs) = (r * (100 - VariableCost[sector])) \div FixedCosts(costs)
    BY <1>2 DEF Coverage
  <2>4. Coverage(sector, r, costs) \in Nat
    BY <1>1, <1>2, <2>2, <2>3, DivisionIsMonotone
  <2>5. QED
    BY <2>4 DEF Infinite
<1>3. ASSUME costs.rent = 0 \/ revenue["base"] # 0 PROVE RentBurden(revenue["base"], costs) # Infinite
  <2>1. CASE costs.rent = 0
    BY <2>1 DEF RentBurden, Infinite
  <2>2. CASE costs.rent # 0
    <3>1. RentBurden(revenue["base"], costs) = (1000 * costs.rent) \div revenue["base"]
      BY <1>1, <1>3, <2>2 DEF RentBurden
    <3>2. 1000 * costs.rent \in Nat /\ revenue["base"] \in Nat \ {0}
      BY <1>1, <1>3, <2>2
    <3>3. RentBurden(revenue["base"], costs) \in Nat
      BY <3>1, <3>2, DivisionIsMonotone
    <3>4. QED
      BY <3>3 DEF Infinite
  <2>3. QED
    BY <2>1, <2>2
<1>4. QED
  BY <1>1, <1>2, <1>3 DEF Storable, Financial
-----------------------------------------------------------------------------
(* From the figures to the decision *)

(* A quotient grows with what is divided and with what it is divided by less. *)
LEMMA QuotientIsMonotone ==
    ASSUME NEW x \in Nat, NEW y \in Nat, x <= y, NEW n \in Nat \ {0}, NEW k \in Nat \ {0}, n <= k
    PROVE  x \div k \in Nat /\ x \div k <= y \div n
<1> DEFINE q == x \div k
           r == x \div n
<1>1. q \in Nat /\ r \in Nat /\ r <= y \div n
  BY DivisionIsMonotone
<1>2. y \div n \in Nat
  BY DivisionIsMonotone
<1>3. k * q <= x
  BY SMT
<1>4. x < n * (r + 1)
  BY SMT
<1> HIDE DEF q, r
<1>5. n * q <= k * q /\ n * q \in Nat
  <2>1. k * q \in Nat
    BY <1>1, ProductIsNatural
  <2>2. QED
    BY <1>1, <2>1, ProductIsMonotone
<1>6. q <= r
  <2>1. CASE q >= r + 1
    <3>1. n * (r + 1) \in Nat /\ n * (r + 1) <= n * q
      BY <1>1, <2>1, ProductIsMonotone
    <3>2. k * q \in Nat
      BY <1>1, ProductIsNatural
    <3>3. QED
      BY <1>3, <1>4, <1>5, <3>1, <3>2
  <2>2. QED
    BY <1>1, <2>1
<1>7. QED
  BY <1>1, <1>2, <1>6 DEF q

(* A scenario with a higher rate has no lower revenue, in any sector, capped by the place or not. *)
LEMMA RevenueGrowsWithTheRate ==
    ASSUME NEW sector \in Sectors, NEW i, RevenueInput(sector, i),
           NEW s \in Scenarios, NEW t \in Scenarios, i.rate[s] <= i.rate[t]
    PROVE  Revenue(i)[s] <= Revenue(i)[t]
<1>1. i.sector = sector
  BY DEF RevenueInput
<1>2. CASE sector = "coffee"
  <2>1. /\ i.population \in Nat /\ i.visits \in Nat /\ i.price \in Nat
        /\ i.rate[s] \in Nat /\ i.rate[t] \in Nat
    BY <1>2 DEF RevenueInput, CoffeeRevenueInput, RatesOrdered, Positive
  <2>2. \A u \in Scenarios : Revenue(i)[u] = i.population * i.rate[u] * i.visits * i.price
    BY <1>1, <1>2 DEF Revenue, CoffeeRevenue
  <2> DEFINE sold(u) == i.population * i.rate[u]
             bought(u) == sold(u) * i.visits
  <2>3. sold(s) \in Nat /\ sold(t) \in Nat /\ sold(s) <= sold(t)
    BY <2>1, ProductIsMonotone
  <2> HIDE DEF sold
  <2>4. bought(s) \in Nat /\ bought(t) \in Nat /\ bought(s) <= bought(t)
    BY <2>1, <2>3, ProductIsMonotone
  <2> HIDE DEF bought
  <2>5. bought(s) * i.price <= bought(t) * i.price
    BY <2>1, <2>4, ProductIsMonotone
  <2>6. QED
    BY <2>2, <2>5 DEF bought, sold
<1>3. CASE sector = "restaurant"
  <2>1. /\ i.seats \in Nat /\ i.turnover \in Nat /\ i.price \in Nat /\ i.days \in Nat
        /\ i.rate[s] \in Nat /\ i.rate[t] \in Nat
    BY <1>3 DEF RevenueInput, RestaurantRevenueInput, RatesOrdered, Positive
  <2>2. \A u \in Scenarios : Revenue(i)[u] = i.seats * i.turnover * i.rate[u] * i.price * i.days
    BY <1>1, <1>3 DEF Revenue, RestaurantRevenue
  <2> DEFINE covers == i.seats * i.turnover
             daily(u) == covers * i.rate[u]
             taken(u) == daily(u) * i.price
  <2>3. covers \in Nat
    BY <2>1, ProductIsNatural
  <2> HIDE DEF covers
  <2>4. daily(s) \in Nat /\ daily(t) \in Nat /\ daily(s) <= daily(t)
    BY <2>1, <2>3, ProductIsMonotone
  <2> HIDE DEF daily
  <2>5. taken(s) \in Nat /\ taken(t) \in Nat /\ taken(s) <= taken(t)
    BY <2>1, <2>4, ProductIsMonotone
  <2> HIDE DEF taken
  <2>6. taken(s) * i.days <= taken(t) * i.days
    BY <2>1, <2>5, ProductIsMonotone
  <2>7. QED
    BY <2>2, <2>6 DEF taken, daily, covers
<1>4. CASE sector = "gym"
  <2>1. /\ i.population \in Nat /\ i.area \in Nat /\ i.members \in Nat /\ i.price \in Nat
        /\ i.rate[s] \in Nat /\ i.rate[t] \in Nat
    BY <1>4 DEF RevenueInput, GymRevenueInput, RatesOrdered, Positive
  <2> DEFINE demand(u) == i.population * i.rate[u]
             capacity == 10 * i.area * i.members
             members(u) == Min({demand(u), capacity})
  <2>2. \A u \in Scenarios : Revenue(i)[u] = members(u) * i.price
    BY <1>1, <1>4 DEF Revenue, GymRevenue
  <2>3. demand(s) \in Nat /\ demand(t) \in Nat /\ demand(s) <= demand(t)
    BY <2>1, ProductIsMonotone
  <2>4. capacity \in Nat
    <3>1. 10 * i.area \in Nat
      BY <2>1
    <3>2. QED
      BY <2>1, <3>1, ProductIsNatural
  <2> HIDE DEF demand, capacity
  <2>5. ASSUME NEW u \in {s, t}
        PROVE  members(u) = IF demand(u) <= capacity THEN demand(u) ELSE capacity
    <3>1. demand(u) \in Nat
      BY <2>3
    <3>2. \E x \in {demand(u), capacity} : \A y \in {demand(u), capacity} : x <= y
      BY <2>4, <3>1
    <3>3. /\ members(u) \in {demand(u), capacity}
          /\ \A y \in {demand(u), capacity} : members(u) <= y
      BY <3>2 DEF Min
    <3> HIDE DEF members
    <3>4. QED
      BY <2>4, <3>1, <3>3
  <2>6. members(s) \in Nat /\ members(t) \in Nat /\ members(s) <= members(t)
    <3> HIDE DEF members
    <3>1. QED
      BY <2>3, <2>4, <2>5
  <2> HIDE DEF members
  <2>7. QED
    BY <2>1, <2>2, <2>6, ProductIsMonotone
<1>5. CASE sector = "beauty"
  <2>1. /\ i.stations \in Nat /\ i.hours \in Nat /\ i.price \in Nat /\ 100 * i.duration \in Nat \ {0}
        /\ i.rate[s] \in Nat /\ i.rate[t] \in Nat
    BY <1>5 DEF RevenueInput, BeautyRevenueInput, RatesOrdered, Positive
  <2>2. \A u \in Scenarios :
            Revenue(i)[u] = (i.stations * i.hours * i.rate[u] * i.price * 433) \div (100 * i.duration)
    BY <1>1, <1>5 DEF Revenue, BeautyRevenue
  <2> DEFINE open == i.stations * i.hours
             booked(u) == open * i.rate[u]
             taken(u) == booked(u) * i.price
             monthly(u) == taken(u) * 433
  <2>3. open \in Nat
    BY <2>1, ProductIsNatural
  <2> HIDE DEF open
  <2>4. booked(s) \in Nat /\ booked(t) \in Nat /\ booked(s) <= booked(t)
    BY <2>1, <2>3, ProductIsMonotone
  <2> HIDE DEF booked
  <2>5. taken(s) \in Nat /\ taken(t) \in Nat /\ taken(s) <= taken(t)
    BY <2>1, <2>4, ProductIsMonotone
  <2> HIDE DEF taken
  <2>6. monthly(s) \in Nat /\ monthly(t) \in Nat /\ monthly(s) <= monthly(t)
    BY <2>5
  <2> HIDE DEF monthly
  <2>7. monthly(s) \div (100 * i.duration) <= monthly(t) \div (100 * i.duration)
    BY <2>1, <2>6, DivisionIsMonotone
  <2>8. QED
    BY <2>2, <2>7 DEF monthly, taken, booked, open
<1>6. QED
  BY <1>2, <1>3, <1>4, <1>5 DEF Sectors

(* What a revenue engine computes from an accepted input is what RevenueScenarios accepts: no scenario is *)
(* negative and they are in order, also where a gym is full or a quotient is cut.                          *)
THEOREM ScenariosAreOrdered ==
    ASSUME NEW sector \in Sectors, NEW i, RevenueInput(sector, i)
    PROVE  /\ \A s \in Scenarios : Revenue(i)[s] \in Nat
           /\ Revenue(i)["conservative"] <= Revenue(i)["base"]
           /\ Revenue(i)["base"] <= Revenue(i)["optimistic"]
<1>1. \A s \in Scenarios : Revenue(i)[s] \in Nat
  BY RevenueIsNatural
<1>2. RatesOrdered(i.rate)
  BY DEF RevenueInput, CoffeeRevenueInput, RestaurantRevenueInput, GymRevenueInput, BeautyRevenueInput,
         Sectors
<1>3. /\ {"conservative", "base", "optimistic"} = Scenarios
      /\ i.rate["conservative"] <= i.rate["base"] /\ i.rate["base"] <= i.rate["optimistic"]
  BY <1>2 DEF RatesOrdered, Scenarios
<1>4. QED
  BY <1>1, <1>3, RevenueGrowsWithTheRate

-----------------------------------------------------------------------------
(* How good a decision is: what it says of the place and what it says of the money. Of a weak place it  *)
(* only says whether the money is viable.                                                               *)
SiteGrade(class) ==
    CASE class \in {"prime_opportunity", "strong_site_thin_economics", "tourist_trap"} -> 2
      [] class \in {"hidden_gem", "conditional_site", "weak_site_weak_economics"} -> 1
      [] class \in {"structural_risk", "dead_end"} -> 0
MoneyGrade(class) ==
    CASE class \in {"prime_opportunity", "hidden_gem"} -> 2
      [] class \in {"strong_site_thin_economics", "conditional_site", "structural_risk"} -> 1
      [] class \in {"tourist_trap", "weak_site_weak_economics", "dead_end"} -> 0
SeverityGrade == [normal |-> 0, elevated |-> 1, severe |-> 2]
BandGrade == [strong |-> 2, conditional |-> 1, weak |-> 0]

(* Costs are lower when no bill is higher, revenues higher when no scenario is lower. *)
Cheaper(less, costs) ==
    less.rent <= costs.rent /\ less.labor <= costs.labor /\ less.overhead <= costs.overhead
Revenues(revenue) == \A s \in Scenarios : revenue[s] \in Nat
Richer(more, revenue) == \A s \in Scenarios : revenue[s] <= more[s]

LEMMA CostsAreNatural ==
    ASSUME NEW costs, OperatingCosts(costs), NEW less, OperatingCosts(less), Cheaper(less, costs)
    PROVE  /\ costs.rent \in Nat /\ less.rent \in Nat /\ less.rent <= costs.rent
           /\ FixedCosts(costs) \in Nat /\ FixedCosts(less) \in Nat /\ FixedCosts(less) <= FixedCosts(costs)
BY DEF OperatingCosts, Cheaper, FixedCosts

LEMMA MarginsArePositive ==
    ASSUME NEW sector \in Sectors PROVE 100 - VariableCost[sector] \in Nat \ {0} /\ RentWarning[sector] \in Nat
BY DEF Sectors, VariableCost, RentWarning

(* Whatever threshold the old figures reach, cheaper and richer ones reach. *)
LEMMA CoverageGrows ==
    ASSUME NEW sector \in Sectors, NEW r \in Nat, NEW m \in Nat, r <= m, NEW costs, OperatingCosts(costs),
           NEW less, OperatingCosts(less), Cheaper(less, costs), NEW percent \in Nat,
           Covers(Coverage(sector, r, costs), percent)
    PROVE  Covers(Coverage(sector, m, less), percent)
<1> DEFINE share == 100 - VariableCost[sector]
           old == r * share
           new == m * share
<1>1. share \in Nat /\ FixedCosts(costs) \in Nat /\ FixedCosts(less) \in Nat
      /\ FixedCosts(less) <= FixedCosts(costs)
  BY CostsAreNatural, MarginsArePositive
<1>2. /\ Coverage(sector, r, costs) = IF FixedCosts(costs) = 0 THEN Infinite ELSE old \div FixedCosts(costs)
      /\ Coverage(sector, m, less) = IF FixedCosts(less) = 0 THEN Infinite ELSE new \div FixedCosts(less)
  BY DEF Coverage
<1> HIDE DEF share
<1>3. old \in Nat /\ new \in Nat /\ old <= new
  BY <1>1, ProductIsMonotone
<1> HIDE DEF old, new
<1>4. CASE FixedCosts(less) = 0
  BY <1>2, <1>4 DEF Covers
<1>5. CASE FixedCosts(less) # 0
  <2>1. FixedCosts(costs) \in Nat \ {0} /\ FixedCosts(less) \in Nat \ {0}
    BY <1>1, <1>5
  <2>2. /\ old \div FixedCosts(costs) \in Nat
        /\ old \div FixedCosts(costs) <= new \div FixedCosts(less)
    BY <1>1, <1>3, <2>1, QuotientIsMonotone
  <2>3. new \div FixedCosts(less) \in Nat
    BY <1>3, <2>1, DivisionIsMonotone
  <2>4. old \div FixedCosts(costs) >= percent
    BY <1>2, <2>1, <2>2 DEF Covers, Infinite
  <2>5. QED
    BY <1>2, <2>1, <2>2, <2>3, <2>4 DEF Covers
<1>6. QED
  BY <1>4, <1>5

(* The rent weighs no more. *)
LEMMA SeverityFalls ==
    ASSUME NEW sector \in Sectors, NEW r \in Nat, NEW m \in Nat, r <= m, NEW costs, OperatingCosts(costs),
           NEW less, OperatingCosts(less), Cheaper(less, costs)
    PROVE  SeverityGrade[RentSeverity(sector, m, less)] <= SeverityGrade[RentSeverity(sector, r, costs)]
<1> DEFINE within(quarters, rent, revenue) == 4 * 1000 * rent <= quarters * RentWarning[sector] * revenue
           limit(quarters) == quarters * RentWarning[sector]
<1>1. costs.rent \in Nat /\ less.rent \in Nat /\ less.rent <= costs.rent /\ RentWarning[sector] \in Nat
  BY CostsAreNatural, MarginsArePositive
<1>2. ASSUME NEW q \in {4, 5}, within(q, costs.rent, r) PROVE within(q, less.rent, m)
  <2>1. limit(q) \in Nat
    BY <1>1
  <2>2. within(q, costs.rent, r) = (4 * 1000 * costs.rent <= limit(q) * r)
        /\ within(q, less.rent, m) = (4 * 1000 * less.rent <= limit(q) * m)
    OBVIOUS
  <2> HIDE DEF limit
  <2>3. limit(q) * r \in Nat /\ limit(q) * m \in Nat /\ limit(q) * r <= limit(q) * m
    <3>1. limit(q) * m \in Nat
      BY <2>1, ProductIsNatural
    <3>2. QED
      BY <2>1, <3>1, ProductIsMonotone
  <2> DEFINE old == limit(q) * r
             new == limit(q) * m
  <2>4. 4 * 1000 * costs.rent <= old /\ old \in Nat /\ new \in Nat /\ old <= new
    BY <1>2, <2>2, <2>3
  <2> HIDE DEF old, new
  <2>5. 4 * 1000 * less.rent <= new
    BY <1>1, <2>4
  <2>6. QED
    BY <2>2, <2>5 DEF new
<1>3. ASSUME NEW rent \in Nat, NEW revenue, NEW bills, bills.rent = rent
      PROVE  RentSeverity(sector, revenue, bills) =
                 CASE rent = 0 \/ within(4, rent, revenue) -> "normal"
                   [] rent > 0 /\ ~within(4, rent, revenue) /\ within(5, rent, revenue) -> "elevated"
                   [] OTHER -> "severe"
  BY <1>3 DEF RentSeverity
<1> HIDE DEF within
<1>4. QED
  BY <1>1, <1>2, <1>3 DEF SeverityGrade

(* A coverage is a number, also the one of no fixed costs, which stands for the infinite. *)
LEMMA CoverageIsANumber ==
    ASSUME NEW sector \in Sectors, NEW r \in Nat, NEW costs, OperatingCosts(costs)
    PROVE  Coverage(sector, r, costs) \in Int
<1>1. FixedCosts(costs) \in Nat
  BY DEF OperatingCosts, FixedCosts
<1>2. r * (100 - VariableCost[sector]) \in Nat
  <2>1. 100 - VariableCost[sector] \in Nat
    BY MarginsArePositive
  <2>2. QED
    BY <2>1, ProductIsNatural
<1>3. QED
  BY <1>1, <1>2, DivisionIsMonotone DEF Coverage, Infinite

(* A score is never below nothing nor above a hundred points. *)
THEOREM ScoresStayWithinAHundredPoints ==
    ASSUME NEW sector \in Sectors, NEW scores, CategoryScores(scores)
    PROVE  FinalScore(sector, scores) \in 0..100 * Point
<1>1. \A c \in Categories : scores[c] \in Nat /\ scores[c] <= 1000
  BY DEF CategoryScores
<1>2. ASSUME NEW c \in Categories
      PROVE  /\ Penalty(scores[c], Dealbreaker[sector][c]) \in Nat
             /\ Penalty(scores[c], Dealbreaker[sector][c]) <= 1000
  <2>1. PICK limit \in Nat, most \in Nat : most <= 100 /\ Dealbreaker[sector][c] = <<limit, most>>
    BY RulesAreSound
  <2> DEFINE enough == scores[c] + 10 * limit
  <2>2. scores[c] \in Nat /\ enough \in Nat /\ scores[c] <= enough
    BY <1>1
  <2>3. Penalty(enough, <<limit, most>>) = 1000
    BY <2>2 DEF Penalty
  <2> HIDE DEF enough
  <2>4. QED
    BY <2>1, <2>2, <2>3, PenaltyGrowsWithTheScore
<1>3. Multiplier(sector, scores) \in Nat /\ Multiplier(sector, scores) <= 1000
  <2>1. PICK c \in Categories : Multiplier(sector, scores) = Penalty(scores[c], Dealbreaker[sector][c])
    BY <1>2, TheStrongestPenalty
  <2>2. QED
    BY <1>2, <2>1
<1>4. BaseScore(sector, scores) \in Nat /\ BaseScore(sector, scores) <= 100 * 1000
  <2> DEFINE weight(c) == CategoryWeight[sector][c]
             worth(c) == weight(c) * scores[c]
  <2>1. ASSUME NEW c \in Categories PROVE worth(c) \in Nat /\ worth(c) <= weight(c) * 1000 /\ weight(c) \in Nat
    <3>1. weight(c) \in Nat /\ scores[c] \in Nat /\ scores[c] <= 1000
      BY <1>1, RulesAreSound
    <3> HIDE DEF weight
    <3>2. QED
      BY <3>1, ProductIsMonotone
  <2>2. weight("demand") + weight("competition") + weight("accessibility") + weight("economics") = 100
    BY DEF CategoryWeight, Sectors
  <2>3. BaseScore(sector, scores) =
            worth("demand") + worth("competition") + worth("accessibility") + worth("economics")
    BY DEF BaseScore
  <2> HIDE DEF weight, worth
  <2>4. QED
    BY <2>1, <2>2, <2>3 DEF Categories
<1>5. /\ BaseScore(sector, scores) * Multiplier(sector, scores) \in Nat
      /\ BaseScore(sector, scores) * Multiplier(sector, scores) <= (100 * 1000) * 1000
  BY <1>3, <1>4, ProductIsMonotone
<1> DEFINE final == BaseScore(sector, scores) * Multiplier(sector, scores)
<1>6. final \in Nat /\ final <= (100 * 1000) * 1000 /\ FinalScore(sector, scores) = final
  BY <1>5 DEF FinalScore
<1> HIDE DEF final
<1>7. (100 * 1000) * 1000 = 100 * Point /\ 100 * Point \in Nat
  BY SMT DEF Point
<1>8. QED
  BY <1>6, <1>7, SMT

LEMMA FinalScoresAreNatural ==
    ASSUME NEW sector \in Sectors, NEW scores, CategoryScores(scores) PROVE FinalScore(sector, scores) \in Nat
<1>1. 100 * Point \in Nat
  BY SMT DEF Point
<1>2. FinalScore(sector, scores) \in 0..100 * Point
  BY ScoresStayWithinAHundredPoints
<1>3. QED
  BY <1>1, <1>2, SMT

(* A loss is not new, unless it is that of a business that had no revenue to lose any of. *)
LEMMA LossesAreNotNew ==
    ASSUME NEW sector \in Sectors, NEW r \in Nat \ {0}, NEW m \in Nat, r <= m, NEW costs,
           OperatingCosts(costs), NEW less, OperatingCosts(less), Cheaper(less, costs),
           MarginNegative(sector, m, less)
    PROVE  MarginNegative(sector, r, costs)
<1> DEFINE share == 100 - VariableCost[sector]
           old == r * share
           new == m * share
<1>1. share \in Nat /\ FixedCosts(costs) \in Nat /\ FixedCosts(less) \in Nat
      /\ FixedCosts(less) <= FixedCosts(costs)
  BY CostsAreNatural, MarginsArePositive
<1>2. new < 100 * FixedCosts(less)
  BY DEF MarginNegative
<1> HIDE DEF share
<1>3. old \in Nat /\ new \in Nat /\ old <= new
  BY <1>1, ProductIsMonotone
<1> HIDE DEF old, new
<1>4. old < 100 * FixedCosts(costs)
  BY <1>1, <1>2, <1>3
<1>5. QED
  BY <1>4 DEF MarginNegative, old, share

(* The class of a decision rises with the score and with what the money covers. *)
LEMMA DecisionRises ==
    ASSUME NEW final \in Nat, NEW higher \in Nat, final <= higher, NEW coverage, NEW wider,
           \A percent \in {100, 150} : Covers(coverage, percent) => Covers(wider, percent),
           Covers(wider, 150) => Covers(wider, 100)
    PROVE  /\ SiteGrade(DecisionClass(final, coverage)) <= SiteGrade(DecisionClass(higher, wider))
           /\ MoneyGrade(DecisionClass(final, coverage)) <= MoneyGrade(DecisionClass(higher, wider))
<1> DEFINE site(f) == IF f >= StrongMin THEN 2 ELSE IF f >= ConditionalMin THEN 1 ELSE 0
           money(c) == IF Covers(c, 150) THEN 2 ELSE IF Covers(c, 100) THEN 1 ELSE 0
<1>1. site(final) <= site(higher)
  BY DEF StrongMin, ConditionalMin, Point
<1>2. money(coverage) <= money(wider) /\ money(coverage) \in 0..2 /\ money(wider) \in 0..2
  OBVIOUS
<1>3. ASSUME NEW c PROVE FinancialBand(c) = CASE money(c) = 2 -> "strong" [] money(c) = 1 -> "thin"
                                              [] OTHER -> "non_viable"
  BY DEF FinancialBand
<1>4. ASSUME NEW f \in Nat, NEW c
      PROVE  /\ SiteGrade(DecisionClass(f, c)) = site(f)
             /\ MoneyGrade(DecisionClass(f, c)) = IF site(f) = 0 /\ money(c) = 2 THEN 1 ELSE money(c)
  <2>1. money(c) \in {0, 1, 2}
    OBVIOUS
  <2> HIDE DEF money
  <2>2. CASE f >= StrongMin
    BY <1>3, <2>1, <2>2 DEF DecisionClass, SiteGrade, MoneyGrade, StrongMin, ConditionalMin, Point
  <2>3. CASE f < StrongMin /\ f >= ConditionalMin
    BY <1>3, <2>1, <2>3 DEF DecisionClass, SiteGrade, MoneyGrade, StrongMin, ConditionalMin, Point
  <2>4. CASE f < ConditionalMin
    BY <1>3, <2>1, <2>4 DEF DecisionClass, SiteGrade, MoneyGrade, StrongMin, ConditionalMin, Point
  <2>5. QED
    BY <2>2, <2>3, <2>4 DEF StrongMin, ConditionalMin, Point
<1>5. site(final) \in 0..2 /\ site(higher) \in 0..2
  OBVIOUS
<1> HIDE DEF site, money
<1>6. QED
  BY <1>1, <1>2, <1>4, <1>5

(* A better site with no lower revenues and no higher bills never gets a worse decision: neither its     *)
(* place nor its money is graded down, the rent is not called heavier, and no stress test fails that     *)
(* passed.  Nor is there a new loss, but for one case that the code has: a business without any revenue  *)
(* is not said to lose money (its margin is set to zero), one with a little is.                          *)
THEOREM BetterPlansAreNeverWorse ==
    ASSUME NEW sector \in Sectors, NEW below, NEW scores, NEW better,
           CategoryScores(scores), CategoryScores(better), \A c \in Categories : scores[c] <= better[c],
           NEW revenue, NEW more, Revenues(revenue), Revenues(more), Richer(more, revenue),
           NEW costs, NEW less, OperatingCosts(costs), OperatingCosts(less), Cheaper(less, costs)
    PROVE  LET before == Financial(sector, revenue, costs)
               after == Financial(sector, more, less)
               old == Decision(Location(sector, scores, below), before)
               new == Decision(Location(sector, better, below), after)
           IN /\ SiteGrade(old.class) <= SiteGrade(new.class)
              /\ MoneyGrade(old.class) <= MoneyGrade(new.class)
              /\ SeverityGrade[after.rent_severity] <= SeverityGrade[before.rent_severity]
              /\ "STRESS_TEST_FAILED" \in new.flags => "STRESS_TEST_FAILED" \in old.flags
              /\ "NEGATIVE_BASE_OPERATING_MARGIN" \in new.flags =>
                     revenue["base"] = 0 \/ "NEGATIVE_BASE_OPERATING_MARGIN" \in old.flags
<1> DEFINE before == Financial(sector, revenue, costs)
           after == Financial(sector, more, less)
           old == Decision(Location(sector, scores, below), before)
           new == Decision(Location(sector, better, below), after)
<1>1. ASSUME NEW s \in {"base", "conservative"}
      PROVE  revenue[s] \in Nat /\ more[s] \in Nat /\ revenue[s] <= more[s]
  BY DEF Scenarios, Revenues, Richer
<1>2. ASSUME NEW s \in {"base", "conservative"}, NEW percent \in Nat, Covers(Coverage(sector, revenue[s], costs), percent)
      PROVE  Covers(Coverage(sector, more[s], less), percent)
  BY <1>1, <1>2, CoverageGrows
<1>3. /\ before.bec_base = Coverage(sector, revenue["base"], costs)
      /\ after.bec_base = Coverage(sector, more["base"], less)
      /\ before.rent_severity = RentSeverity(sector, revenue["base"], costs)
      /\ after.rent_severity = RentSeverity(sector, more["base"], less)
      /\ before.negative_margin = MarginNegative(sector, revenue["base"], costs)
      /\ after.negative_margin = MarginNegative(sector, more["base"], less)
      /\ before.stress_test_failed = ~Covers(Coverage(sector, revenue["conservative"], costs), 100)
      /\ after.stress_test_failed = ~Covers(Coverage(sector, more["conservative"], less), 100)
  BY DEF Financial
<1>4. /\ old.class = DecisionClass(FinalScore(sector, scores), before.bec_base)
      /\ new.class = DecisionClass(FinalScore(sector, better), after.bec_base)
      /\ old.flags = RiskFlags(before) /\ new.flags = RiskFlags(after)
  BY DEF Decision, Location
<1>5. ASSUME NEW financial
      PROVE  /\ "STRESS_TEST_FAILED" \in RiskFlags(financial) <=> financial.stress_test_failed
             /\ "NEGATIVE_BASE_OPERATING_MARGIN" \in RiskFlags(financial) <=> financial.negative_margin
  BY DEF RiskFlags
<1> HIDE DEF before, after, old, new
<1>6. /\ SiteGrade(old.class) <= SiteGrade(new.class)
      /\ MoneyGrade(old.class) <= MoneyGrade(new.class)
  <2>1. /\ FinalScore(sector, scores) \in Nat /\ FinalScore(sector, better) \in Nat
        /\ FinalScore(sector, scores) <= FinalScore(sector, better)
    BY FinalScoresAreNatural, BetterScoresAreNeverWorse
  <2>2. \A percent \in {100, 150} : Covers(before.bec_base, percent) => Covers(after.bec_base, percent)
    BY <1>2, <1>3
  <2>3. Covers(after.bec_base, 150) => Covers(after.bec_base, 100)
    <3>1. after.bec_base \in Int
      BY <1>1, <1>3, CoverageIsANumber
    <3>2. QED
      BY <3>1 DEF Covers
  <2>4. QED
    BY <1>4, <2>1, <2>2, <2>3, DecisionRises
<1>7. SeverityGrade[after.rent_severity] <= SeverityGrade[before.rent_severity]
  BY <1>1, <1>3, SeverityFalls
<1>8. "STRESS_TEST_FAILED" \in new.flags => "STRESS_TEST_FAILED" \in old.flags
  BY <1>2, <1>3, <1>4, <1>5
<1>9. "NEGATIVE_BASE_OPERATING_MARGIN" \in new.flags =>
          revenue["base"] = 0 \/ "NEGATIVE_BASE_OPERATING_MARGIN" \in old.flags
  <2>1. SUFFICES ASSUME MarginNegative(sector, more["base"], less), revenue["base"] # 0
                 PROVE  MarginNegative(sector, revenue["base"], costs)
    BY <1>3, <1>4, <1>5
  <2>2. revenue["base"] \in Nat \ {0} /\ more["base"] \in Nat /\ revenue["base"] <= more["base"]
    BY <1>1, <2>1
  <2>3. QED
    BY <2>1, <2>2, LossesAreNotNew
<1>10. QED
  BY <1>6, <1>7, <1>8, <1>9 DEF before, after, old, new

(* The band of a location and the class of its decision tell of the same grade of site, but for one case: *)
(* a score on a threshold that was computed a hair under it, as the band is taken from the computed score *)
(* and the class from the rounded one.  Then the class is a grade above the band.                          *)
THEOREM OneGradeButOnAThreshold ==
    ASSUME NEW final \in Nat, NEW below \in BOOLEAN, NEW coverage
    PROVE  LET band == BandGrade[StructuralBand(final, below)]
               grade == SiteGrade(DecisionClass(final, coverage))
           IN IF below /\ final \in {StrongMin, ConditionalMin} THEN grade = band + 1 ELSE grade = band
<1> DEFINE site == IF final >= StrongMin THEN 2 ELSE IF final >= ConditionalMin THEN 1 ELSE 0
<1>1. SiteGrade(DecisionClass(final, coverage)) = site
  <2>1. FinancialBand(coverage) \in {"strong", "thin", "non_viable"}
    BY DEF FinancialBand
  <2>2. QED
    BY <2>1 DEF DecisionClass, SiteGrade, StrongMin, ConditionalMin, Point
<1>2. BandGrade[StructuralBand(final, below)] =
          IF below /\ final \in {StrongMin, ConditionalMin} THEN site - 1 ELSE site
  BY DEF StructuralBand, BandGrade, StrongMin, ConditionalMin, Point
<1>3. QED
  BY <1>1, <1>2
=============================================================================
