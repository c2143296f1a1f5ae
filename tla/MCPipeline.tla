----------------------------- MODULE MCPipeline -----------------------------
(* An instance of AnalysisPipeline for TLC: what providers may answer, what   *)
(* deployments there are, and what one analysis is given.                     *)
EXTENDS AnalysisPipeline, TLC

Unusable(outcomes) == {[http |-> h, body |-> Garbage] : h \in outcomes}
Refused == Unusable(HttpOutcomes \ {"no_edges_near"})
Answered(bodies) == {[http |-> "answered", body |-> b] : b \in bodies}

(* Census *)
Match(type) == [at |-> "site", type |-> type]
Geocoded(candidates) == [benchmark |-> "B", candidates |-> candidates]
MCGeocodeReplies ==
    Refused \cup Answered(
        {Geocoded(c) : c \in {<<Match("exact")>>, <<Match("fuzzy")>>, <<>>,
                              <<Match("exact"), Match("fuzzy")>>}}
        \cup {[Geocoded(<<Match("exact")>>) EXCEPT !.benchmark = "other"]})

Geoid(id, length) == [id |-> id, numeric |-> TRUE, length |-> length, in_scope |-> id # "72"]
California == Geoid("06", 2)
PuertoRico == Geoid("72", 2)
Tract == Geoid("06-tract", 11)
BlockGroup == Geoid("06-block-group", 12)
Located(state, tracts, groups) ==
    [benchmark |-> "B", vintage |-> "V",
     records |-> [States |-> state, Tracts |-> tracts, BlockGroups |-> groups]]
MCGeographyReplies ==
    Refused \cup Answered(
        {Located(<<California>>, <<Tract>>, g) : g \in {<<>>, <<BlockGroup>>, <<BlockGroup, BlockGroup>>}}
        \cup {Located(<<PuertoRico>>, <<Tract>>, <<>>), Located(<<>>, <<Tract>>, <<>>),
              Located(<<California>>, <<>>, <<>>),
              [Located(<<California>>, <<Tract>>, <<>>) EXCEPT !.vintage = "other"]})

(* ACS *)
Keys == <<"age_old", "age_young", "household_income", "total_population">>
Cells(income, population) ==
    [age_old |-> "10", age_young |-> "10", household_income |-> income, total_population |-> population]
Table(geoid, income, population) ==
    [header |-> "exact", rows |-> <<[geoid |-> geoid, cells |-> Cells(income, population)]>>]
MCAcsReplies ==
    Refused \cup Answered(
        {Table(BlockGroup, i, "20") : i \in {"50", "null", "-999999999", "-888888888", "annotated", "text"}}
        \cup {Table(BlockGroup, "50", p) : p \in {"null", "negative", "fraction"}}
        \cup {Table(Tract, "50", "20"), [header |-> "exact", rows |-> <<>>],
              [Table(Tract, "50", "20") EXCEPT !.header = "other"]})

(* Walking *)
Contours(contours, points, warnings) == [contours |-> contours, points |-> points, warnings |-> warnings]
MCIsochroneReplies ==
    Unusable(HttpOutcomes) \cup Answered(
        {Contours(c, <<"exact", "snapped">>, FALSE) : c \in {<<10, 5>>, <<10>>, <<10, 10>>}}
        \cup {Contours(<<10, 5>>, p, FALSE) : p \in {<<"exact", "exact">>, <<"snapped">>}}
        \cup {Contours(<<10, 5>>, <<"exact", "snapped">>, TRUE)})
Areas(pinned, areas) == [network |-> [pinned |-> pinned], areas |-> areas]
MCNetworks ==
    {Areas(TRUE, 5 :> 1 @@ 10 :> 4), Areas(FALSE, 5 :> 1 @@ 10 :> 4), Areas(TRUE, 5 :> 0 @@ 10 :> 4),
     Areas(TRUE, 10 :> 4)}

(* Competition *)
Place(id, status, category) ==
    [id |-> id, release |-> "R", status |-> status, hierarchy |-> {}, primary |-> {category},
     basic_category |-> {"food"}]
Partition(artifact, places) == [artifact |-> artifact, intact |-> TRUE, places |-> places]
East == Partition("east", {Place("x1", "open", "cafe"), Place("x2", "permanently_closed", "cafe")})
West == Partition("west", {Place("x2", "permanently_closed", "cafe"), Place("x3", "open", "office"),
                           Place("x4", "open", "kiosk")})
Odd == Partition("odd", {Place("x1", "temporarily_closed", "cafe")})
MCPartitionSets ==
    {{}, {East}, {East, West}, {East, Odd}, {[East EXCEPT !.intact = FALSE]},
     {[East EXCEPT !.artifact = "lost"]},
     {[East EXCEPT !.places = {Place("x1", "open", "cafe"), Place("x1", "open", "office")}]},
     {[East EXCEPT !.places = {[Place("x1", "open", "cafe") EXCEPT !.release = "old"]}]}}
Rule(field, category, state) == [field |-> field, category |-> category, state |-> state, outcome |-> None]
Rules == {Rule("primary", "cafe", "included"), Rule("primary", "office", "excluded"),
          Rule("basic_category", "food", "conditional")}

(* Transit: a service day has three hours here, and hour 4 is the next day's hour 1. *)
Stops == [q |-> [type |-> "station", parent |-> "none"], p |-> [type |-> "platform", parent |-> "q"],
          far |-> [type |-> "platform", parent |-> "none"]]
At(stop, hour) == [stop |-> stop, departure |-> hour, pickup |-> "regular"]
Trip(service, calls, windows) == [service |-> service, calls |-> calls, windows |-> windows]
Daily == [weekdays |-> 0..6, start |-> 0, end |-> 27]
Every2 == [start |-> 0, end |-> 2, headway |-> 2, exact |-> FALSE]
Schedule(trips) ==
    [start |-> Untimed, end |-> Untimed, calendars |-> [day |-> Daily], exceptions |-> {},
     trips |-> trips, stops |-> Stops]
Night == Schedule([t |-> Trip("day", <<At("far", 3), At("p", 4)>>, {})])
Busy == [Schedule([t |-> Trip("day", <<At("p", 1), At("far", 2)>>, {}),
                   u |-> Trip("extra", <<At("p", 0)>>, {Every2})])
         EXCEPT !.exceptions = {[service |-> "extra", date |-> 8, added |-> TRUE],
                                [service |-> "day", date |-> 9, added |-> FALSE]}]
(* A trip that reaches the site in hour 3 of its own, and so runs there on the day after its window
   ends, and one that takes two days and some hours, with a window that lasts as long. *)
Shifted(hours, window) == Schedule([t |-> Trip("day", <<At("far", 0), At("p", hours)>>, {window})])
Overnight == Shifted(3, [start |-> 4, end |-> 5, headway |-> 1, exact |-> FALSE])
LongHaul == Shifted(7, [start |-> 6, end |-> 7, headway |-> 1, exact |-> FALSE])
Feed(pinned, feed) == [pinned |-> pinned, feed |-> feed, reach |-> {"q"}]
MCFeeds ==
    {Feed(TRUE, Night), Feed(TRUE, Busy), Feed(FALSE, Night),
     Feed(TRUE, Overnight), Feed(TRUE, LongHaul),
     Feed(TRUE, [Night EXCEPT !.start = 10, !.end = 20]),
     Feed(TRUE, [Night EXCEPT !.calendars = <<>>, !.trips = <<>>]),
     Feed(TRUE, [Night EXCEPT !.stops["p"].parent = "far"]),
     Feed(TRUE, Schedule([t |-> Trip("day", <<At("far", 3), At("p", Untimed)>>, {})])),
     [Feed(TRUE, Night) EXCEPT !.reach = {"nowhere"}]}

(* Deployments *)
Keeps(class) == [p \in {"census", "acs", "routing", "network", "overture"} |-> class]
ApiReach == 5 :> {} @@ 10 :> {}
FullFrame ==
    [id |-> "frame",
     cells |-> {[id |-> c, membership |-> IF c = "c4" THEN "outside" ELSE "member",
                 records |-> {[class |-> "zoning", disposition |-> "positive", applicability |-> "applicable"]}
                             \cup (IF c = "c3" THEN {[class |-> "zoning", disposition |-> "explicit_exclusion",
                                                     applicability |-> "applicable"]} ELSE {}),
                 diagnostic |-> [available |-> TRUE, cell |-> 4, intersection |-> 2]] :
                c \in {"c1", "c2", "c3", "c4"}}]
Api ==
    [benchmark |-> "B", vintage |-> "V", match_types |-> {"exact"},
     layers |-> {[type |-> "state", required |-> TRUE, keys |-> {"States"}],
                 [type |-> "tract", required |-> TRUE, keys |-> {"Tracts"}],
                 [type |-> "block_group", required |-> FALSE, keys |-> {"BlockGroups"}]},
     supported |-> {"tract", "block_group"}, versions |-> {"V"},
     keys |-> Keys, age_components |-> {"age_old", "age_young"}, income |-> 50,
     widths |-> [age_old |-> 2, age_young |-> 2, household_income |-> 4, total_population |-> 2],
     persistence |-> Keeps("persist"), pinned |-> {RawArtifact("east"), RawArtifact("west"), RawArtifact("odd")},
     budget |-> {5, 10}, scale |-> 10, coverage |-> "unknown", membership |-> ApiReach, release |-> "R",
     rules |-> Rules, lifecycle |-> [active |-> {"open"}, excluded |-> {"permanently_closed"}],
     definition |-> "definition", bundle |-> "bundle", pickups |-> {"regular"}, dates |-> 7..13,
     level |-> "tract", frame |-> FullFrame,
     policy |-> [positive |-> {"zoning"}, exclusion |-> {"zoning"}, conflict |-> "unknown",
                 insufficient |-> "unknown"],
     quality |-> [coverage |-> [demand |-> "full", competition |-> "degraded", accessibility |-> "full",
                                economics |-> "missing"],
                  qualities |-> [rent |-> "user", price |-> "user", capacity |-> "default",
                                 schedule |-> "missing"], age |-> 2]]
(* The caller of the builder that knows its catchments, and deployments set up otherwise. *)
Builder == [Api EXCEPT !.coverage = "sufficient", !.membership = 5 :> {"x1"} @@ 10 :> {"x1", "x2"}]
Narrow == [Api EXCEPT !.widths["age_young"] = 3, !.supported = {"tract"}, !.match_types = {}]
Gapped == [Api EXCEPT !.dates = 7..12 \cup {20}]
Others ==
    {[Api EXCEPT !.persistence["census"] = "do_not_persist"],
     [Api EXCEPT !.persistence["acs"] = "source_policy"], [Api EXCEPT !.budget = {10}],
     [Api EXCEPT !.persistence["network"] = "source_policy"],
     [Api EXCEPT !.persistence = Keeps("transient")]}

(* The report *)
Item(claim) == [claim |-> claim, echoes |-> TRUE]
Misquoted(claim) == [claim |-> claim, echoes |-> FALSE]
Pick(recommendations) ==
    [echoes |-> TRUE,
     sections |-> [executive_summary |-> <<Item("canonical_decision")>>, strength |-> <<>>, risk |-> <<>>,
                   recommendation |-> recommendations, caveat |-> <<Item("language_layer")>>]]
Plain == Pick(<<>>)
Drafts ==
    {Plain, Pick(<<Item("review_canonical_decision")>>), [Plain EXCEPT !.echoes = FALSE],
     Pick(<<Misquoted("review_canonical_decision")>>), Pick(<<Item("language_layer")>>),
     Pick(<<Item("review_canonical_decision"), Item("review_canonical_decision")>>),
     Pick(<<Item("review_downside")>>), [Plain EXCEPT !.sections["caveat"] = <<>>],
     [Plain EXCEPT !.sections["strength"] = <<Item("confidence_high")>>],
     [Plain EXCEPT !.sections["risk"] = <<Item("structural_weak"), Item("high_rent_burden")>>]}
MCNarrativeReplies ==
    {[model |-> m] : m \in {"unconfigured", "no_client", "provider_exception", "schema_invalid",
                            "provider_incomplete", "provider_refusal_or_empty"}}
    \cup {[model |-> "answered", draft |-> x] : x \in Drafts}

(* Site metrics and the measurements of the cells *)
Good(value) ==
    [value |-> value, availability |-> "available", quality |-> "full", eligibility |-> "eligible",
     calibration |-> "calibrated", is_proxy |-> FALSE, refs |-> {"survey"}, reasons |-> {}]
Down(availability, quality, state) ==
    [Good(NoValue) EXCEPT !.availability = availability, !.quality = quality, !.eligibility = state,
     !.calibration = IF state = "not_applicable" THEN state ELSE "uncalibrated"]
Site(value) == [key \in MetricKeys |-> Good(value)]
Cell3(metric, definition) == [metric |-> metric, definition |-> definition, bundle |-> "bundle"]
Measured2 ==
    [key \in MetricKeys |-> [c \in {"c1", "c2", "c3", "c4"} |->
        Cell3(Good(IF c = "c1" THEN 10 ELSE 20), "definition")]]
Income == "household_income"
Pressure == "competition_pressure"
Bus == "transit_service_departure_equivalents_per_hour"

Costs(rent, rest) == [rent |-> rent, labor |-> rest, overhead |-> 0]
Rates(base) == [conservative |-> 0, base |-> base, optimistic |-> 10]
Coffee(base) ==
    [sector |-> "coffee", population |-> 100, rate |-> Rates(base), visits |-> 2, price |-> 5]
Command(revenue, costs) == [sector |-> revenue.sector, revenue |-> revenue, costs |-> costs]
Usual == Command(Coffee(5), Costs(50, 100))
Steady == Command([Coffee(5) EXCEPT !.rate.conservative = 4], Costs(50, 100))
Commands ==
    {Command(Coffee(0), Costs(50, 100)), Command(Coffee(5), Costs(0, 0)), Command(Coffee(5), Costs(300, 0)),
     Command([sector |-> "restaurant", seats |-> 20, turnover |-> 2, rate |-> Rates(6), price |-> 3,
              days |-> 25], Costs(900, 500)),
     Command([sector |-> "gym", population |-> 500, rate |-> Rates(4), area |-> 4, members |-> 3,
              price |-> 9], Costs(10, 20)),
     Command([sector |-> "beauty", stations |-> 4, hours |-> 160, duration |-> 2, rate |-> Rates(7),
              price |-> 8], Costs(400, 100))}

Setup(source, command_, deployment, granted_, site, cells) ==
    [source |-> source, command |-> command_, d |-> deployment, granted |-> granted_, site |-> site,
     cells |-> cells]
Acquires(deployment, granted_) == Setup("provider", Usual, deployment, granted_, Site(20), Measured2)
Holds(command_, granted_, site, cells) == Setup("controlled", command_, Api, granted_, site, cells)
Certain == [Api EXCEPT !.quality = [coverage |-> [c \in Categories |-> "full"],
                                     qualities |-> [n \in DOMAIN InputWeight |-> "user"], age |-> 1]]
Sketchy == [Api EXCEPT !.quality = [coverage |-> [demand |-> "full"], qualities |-> [rent |-> "user"],
                                     age |-> NoAge]]
All(site, cells) == Holds(Usual, Authorities, site, cells)

MCSetups ==
    {Acquires(x, {}) : x \in {Api, Builder, Narrow, Gapped} \cup Others} \cup {Acquires(Api, Authorities)}
    \cup {Holds(Usual, g, Site(20), Measured2) : g \in SUBSET Authorities}
    \cup {Holds(c, Authorities, Site(20), Measured2) : c \in Commands}
    \cup {All(Site(v), Measured2) : v \in {5, 10, 15}}
    \cup {Setup("controlled", Steady, x, Authorities, Site(20), Measured2) : x \in {Certain, Sketchy}}
    \cup {All([Site(20) EXCEPT ![Income] = m], Measured2) :
             m \in {[Good(20) EXCEPT !.eligibility = "diagnostic_only"],
                    [Good(20) EXCEPT !.calibration = "uncalibrated"],
                    Down("missing", "missing", "ineligible"), Down("unknown", "degraded", "ineligible"),
                    Down("not_applicable", "not_applicable", "not_applicable")}}
    \cup {All(Site(15), [Measured2 EXCEPT ![Pressure]["c1"].definition = "old", ![Pressure]["c2"].definition = x]) :
             x \in {"old", "definition"}}
    \cup {All(Site(15), [Measured2 EXCEPT ![Bus]["c1"].bundle = "old", ![Bus]["c2"].bundle = "old"]),
          All(Site(15), [Measured2 EXCEPT ![Income]["c1"].metric.calibration = "uncalibrated",
                                          ![Income]["c2"].metric.eligibility = "diagnostic_only"])}
MCAcquiringSetups == {Acquires(Api, {})}
MCBenchmarkSets == {MetricKeys, MetricKeys \ {Income}}
=============================================================================
