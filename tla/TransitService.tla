--------------------------- MODULE TransitService ---------------------------
(***************************************************************************)
(* sitescore-providers, transit: from a GTFS feed and the stops in reach to  *)
(* the weekly profile of departures and its mean.  Dates are days counted    *)
(* from a Monday, times are whole hours of a service day, which may be past  *)
(* midnight; a departure counts Unit, and an hour served at a headway of h   *)
(* hours counts Unit \div h.  HoursPerDay is 24 in the program.              *)
(***************************************************************************)
EXTENDS Integers, SequencesExt

CONSTANT HoursPerDay
ASSUME HoursPerDayAssumption == HoursPerDay \in Nat \ {0}

Unit == 12
Untimed == -1          \* a stop time without a departure, a date the feed does not give
Weekday(date) == date % 7

-----------------------------------------------------------------------------
(* parse_gtfs_zip: what a feed must be before it is a feed *)

(* A feed is a file: its trips, their calls and their windows are finite, and no time is negative. *)
FiniteFeed(feed) ==
    /\ IsFiniteSet(DOMAIN feed.trips)
    /\ \A id \in DOMAIN feed.trips :
          /\ Len(feed.trips[id].calls) \in Nat
          /\ \A i \in 1..Len(feed.trips[id].calls) : feed.trips[id].calls[i].departure \in Nat \cup {Untimed}
          /\ IsFiniteSet(feed.trips[id].windows)
          /\ \A w \in feed.trips[id].windows : w.start \in Nat /\ w.end \in Nat /\ w.headway \in Int

StopHierarchy(stops) ==
    \A id \in DOMAIN stops :
        LET stop == stops[id]
        IN /\ stop.type = "station" => stop.parent = "none"
           /\ stop.type \in {"entrance", "node", "boarding_area"} => stop.parent # "none"
           /\ stop.parent # "none" =>
                  /\ stop.parent \in DOMAIN stops
                  /\ stops[stop.parent].type =
                         (IF stop.type = "boarding_area" THEN "platform" ELSE "station")

FrequencyWindows(windows) ==
    /\ \A w \in windows : w.headway > 0 /\ w.start < w.end
    /\ \A v, w \in windows : v = w \/ v.end <= w.start \/ w.end <= v.start

(* A service that no calendar establishes is established by an added date, never by a removed one. *)
Resolvable(feed) == DOMAIN feed.calendars \cup {x.service : x \in {y \in feed.exceptions : y.added}}

ParsedFeed(feed) ==
    /\ StopHierarchy(feed.stops)
    /\ \A x, y \in feed.exceptions : x.service = y.service /\ x.date = y.date => x = y
    /\ \A id \in DOMAIN feed.trips :
          /\ feed.trips[id].service \in Resolvable(feed)
          /\ FrequencyWindows(feed.trips[id].windows)
          /\ \A i \in 1..Len(feed.trips[id].calls) :
                LET stop == feed.trips[id].calls[i].stop
                IN stop \in DOMAIN feed.stops /\ feed.stops[stop].type = "platform"

FeedDates(feed) ==
    UNION {{feed.calendars[s].start, feed.calendars[s].end} : s \in DOMAIN feed.calendars}
    \cup {x.date : x \in feed.exceptions}
ValidityStart(feed) ==
    IF feed.start # Untimed \/ FeedDates(feed) = {} THEN feed.start ELSE Min(FeedDates(feed))
ValidityEnd(feed) ==
    IF feed.end # Untimed \/ FeedDates(feed) = {} THEN feed.end ELSE Max(FeedDates(feed))
FeedValidity(feed) ==
    CASE Untimed \notin {feed.start, feed.end} -> "valid"
      [] Untimed \in {feed.start, feed.end}
            /\ Untimed \notin {ValidityStart(feed), ValidityEnd(feed)} -> "derived_validity"
      [] OTHER -> "unknown"

Validity(feed, dates) ==
    CASE Untimed \in {ValidityStart(feed), ValidityEnd(feed)} -> "unknown"
      [] Untimed \notin {ValidityStart(feed), ValidityEnd(feed)}
            /\ \E d \in dates : d < ValidityStart(feed) \/ d > ValidityEnd(feed) -> "out_of_validity"
      [] OTHER -> FeedValidity(feed)

-----------------------------------------------------------------------------
(* Which service runs, from which platforms, when *)

Excepted(feed, service, date) == {x \in feed.exceptions : x.service = service /\ x.date = date}
InCalendar(feed, service, date) ==
    /\ service \in DOMAIN feed.calendars
    /\ LET c == feed.calendars[service]
       IN date \in c.start..c.end /\ Weekday(date) \in c.weekdays
ServiceActive(feed, service, date) ==
    IF Excepted(feed, service, date) = {} THEN InCalendar(feed, service, date)
    ELSE \E x \in Excepted(feed, service, date) : x.added

ReachKnown(feed, reach) == reach \subseteq DOMAIN feed.stops
Children(feed, station) ==
    {id \in DOMAIN feed.stops : feed.stops[id].type = "platform" /\ feed.stops[id].parent = station}
(* A station, or its entrance, reaches all its platforms; a boarding area its own. *)
Platforms(feed, reach) ==
    UNION {CASE feed.stops[id].type = "platform" -> {id}
             [] feed.stops[id].type = "station" -> Children(feed, id)
             [] feed.stops[id].type = "boarding_area" -> {feed.stops[id].parent}
             [] OTHER -> Children(feed, feed.stops[id].parent) : id \in reach}

Boardings(feed, trip, reach, pickups) ==
    {i \in 1..Len(feed.trips[trip].calls) :
        /\ feed.trips[trip].calls[i].stop \in Platforms(feed, reach)
        /\ feed.trips[trip].calls[i].pickup \in pickups}
DepartureOf(feed, trip, i) == feed.trips[trip].calls[i].departure
BoardingRaises(feed, trip, reach, pickups) ==
    \E i \in Boardings(feed, trip, reach, pickups) : DepartureOf(feed, trip, i) = Untimed

(* The earliest departure in reach, and its offset from the first timed call of the trip. *)
Boarding(feed, trip, reach, pickups) ==
    Min({DepartureOf(feed, trip, i) : i \in Boardings(feed, trip, reach, pickups)})
Offset(feed, trip, reach, pickups) ==
    LET timed == {i \in 1..Len(feed.trips[trip].calls) : DepartureOf(feed, trip, i) # Untimed}
    IN Boarding(feed, trip, reach, pickups) - DepartureOf(feed, trip, Min(timed))

(* What one service day adds: a run of its own, or the runs of its windows.  A trip that raises, if it
   ever runs, adds nothing. *)
Contributions(feed, trip, reach, pickups) ==
    LET shift == Offset(feed, trip, reach, pickups)
        hours(w) == (w.start + shift)..(w.end + shift - 1)
        run(t) == [at |-> t, weight |-> Unit, exact |-> TRUE]
        of(w) == IF w.exact
                 THEN {run(t) : t \in {u \in hours(w) : (u - w.start - shift) % w.headway = 0}}
                 ELSE {[at |-> t, weight |-> Unit \div w.headway, exact |-> FALSE] : t \in hours(w)}
        silent == Boardings(feed, trip, reach, pickups) = {} \/ BoardingRaises(feed, trip, reach, pickups)
    IN CASE silent -> {}
         [] ~silent /\ feed.trips[trip].windows = {} -> {run(Boarding(feed, trip, reach, pickups))}
         [] OTHER -> UNION {of(w) : w \in feed.trips[trip].windows}

-----------------------------------------------------------------------------
(* The weekly profile *)

Times(feed) ==
    {0} \cup UNION {{feed.trips[id].calls[i].departure : i \in 1..Len(feed.trips[id].calls)}
                    \cup {w.end : w \in feed.trips[id].windows} : id \in DOMAIN feed.trips}
\* (mutant) Only the days that a time of the feed reaches over: what a shifted window adds is forgotten.
LookBackShort(feed) == Max(Times(feed)) \div HoursPerDay
(* max_offset: the furthest day a time of the feed reaches, and one day more. *)
LookBack(feed) == Max(Times(feed)) \div HoursPerDay + 1

(* The days before the first reference date, and the reference dates themselves. *)
ServiceDates(feed, dates) == {Min(dates) - i : i \in 1..LookBack(feed)} \cup dates
(* Every service day that a trip would have a departure of on one of the dates. *)
EveryServiceDate(feed, reach, pickups, dates) ==
    LET added == UNION {Contributions(feed, trip, reach, pickups) : trip \in DOMAIN feed.trips}
    IN UNION {{date - x.at \div HoursPerDay : x \in added} : date \in dates}

(* What falls on one hour of one reference date, and how much that is: a set of units to be counted. *)
Running(feed, day) == {trip \in DOMAIN feed.trips : ServiceActive(feed, feed.trips[trip].service, day)}
Falling(feed, reach, pickups, day, trip, exact, date, hour) ==
    {x \in Contributions(feed, trip, reach, pickups) :
        /\ x.exact = exact
        /\ day + x.at \div HoursPerDay = date /\ x.at % HoursPerDay = hour}
Served(feed, reach, pickups, day, exact, date, hour) ==
    UNION {UNION {{<<day, trip, x>>} \X (1..x.weight) :
                     x \in Falling(feed, reach, pickups, day, trip, exact, date, hour)} :
              trip \in Running(feed, day)}
Count(feed, reach, pickups, days, exact, date, hour) ==
    Cardinality(UNION {Served(feed, reach, pickups, day, exact, date, hour) : day \in days})

(* The k-th smallest value, and twice the median of the same weekday and hour. *)
Ranked(count, k) ==
    Min({count[x] : x \in {y \in DOMAIN count :
                              Cardinality({z \in DOMAIN count : count[z] <= count[y]}) >= k}})
Median(count) ==
    LET size == Cardinality(DOMAIN count)
    IN Ranked(count, (size + 1) \div 2) + Ranked(count, (size + 2) \div 2)

Bins == (0..6) \X (0..HoursPerDay - 1)
MedianOf(feed, reach, pickups, dates, days, exact, bin) ==
    Median([date \in {d \in dates : Weekday(d) = bin[1]} |->
               Count(feed, reach, pickups, days, exact, date, bin[2])])

(* Exact runs and rates have a median each; a bin is the sum of the two. *)
Profile(feed, reach, pickups, dates, days) ==
    [bin \in Bins |-> MedianOf(feed, reach, pickups, dates, days, TRUE, bin)
                       + MedianOf(feed, reach, pickups, dates, days, FALSE, bin)]

WeeklyServiceProfile(feed, reach, pickups, dates) ==
    Profile(feed, reach, pickups, dates, ServiceDates(feed, dates))

(* A profile wants every weekday, timed boardings of what runs, and whole exact medians. *)
ProfileRaises(feed, reach, pickups, dates) ==
    \/ {Weekday(d) : d \in dates} # 0..6
    \/ \E trip \in DOMAIN feed.trips :
          /\ \E day \in ServiceDates(feed, dates) : ServiceActive(feed, feed.trips[trip].service, day)
          /\ BoardingRaises(feed, trip, reach, pickups)
    \/ \E bin \in Bins :
          MedianOf(feed, reach, pickups, dates, ServiceDates(feed, dates), TRUE, bin) % (2 * Unit) # 0

(* The mean of the bins, which hold twice their medians. *)
MeanDepartures(profile) ==
    Cardinality(UNION {{bin} \X (1..profile[bin]) : bin \in DOMAIN profile})
        \div (2 * Cardinality(DOMAIN profile))
=============================================================================
