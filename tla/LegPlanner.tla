----------------------------- MODULE LegPlanner -----------------------------
(***************************************************************************)
(* One leg (app/graph/leg_planner.py): which ways there are to go from the *)
(* origin to each place the destination may mean, what the weather does to *)
(* each of them, and which one is chosen.  Pure: what the capabilities     *)
(* answer is a record, a "world":                                          *)
(*   origin  is the origin's lookup answered with a place                  *)
(*   dests   the places the destination's lookup came to, in its order     *)
(*   km      straight-line distance of each place from the origin          *)
(*   sky     the forecast for each place on the day                        *)
(*   road    the time each road mode takes, or NoRoute, or Unavailable     *)
(*   trains  the trains to each place, in the order of the answer; <<>>    *)
(*           when the search failed or named none                          *)
(* The same question gets the same answer while one plan is built (answers *)
(* are cached).  Time is in quarters of an hour, penalties are in          *)
(* thousandths.                                                            *)
(***************************************************************************)
EXTENDS Integers, Sequences, FiniteSets, FiniteSetsExt, SequencesExt

CONSTANTS RailMinKm  \* RAIL_MIN_KM: from here on, rail is asked first

Unavailable == -1    \* the capability failed
NoRoute == -2        \* it answered, with nothing
Unknown == -3        \* a feature the answer does not carry

RoadModes == {"driving", "bicycling", "walking"}
MaxKm(mode) == IF mode = "driving" THEN 3000 ELSE IF mode = "bicycling" THEN 40 ELSE 8

-----------------------------------------------------------------------------
(* The weather, on its hard and its soft path (policy/weather_rules.py).   *)

Sky == {"unknown", "beyond", "fine", "downpour", "gale", "heat", "ice"}

DriveModes == {"drive", "car", "taxi"}
OutdoorModes == {"walk", "bike", "hike", "outdoor"}
AirModes == {"flight", "plane", "cable", "ferry"}

Vetoed(sky, mode) ==
    \/ sky \in {"downpour", "ice"} /\ mode \in DriveModes \cup OutdoorModes
    \/ sky = "gale" /\ mode \in AirModes
    \/ sky = "heat" /\ mode \in OutdoorModes

(* A veto is never folded into a penalty; wind counts for as much as the   *)
(* mode is exposed to it.                                                  *)
Penalty(sky, mode) ==
    IF Vetoed(sky, mode) \/ sky \in {"unknown", "beyond", "fine"} THEN 0
    ELSE IF sky = "gale" THEN IF mode \in OutdoorModes THEN 350 ELSE 70
    ELSE IF sky = "heat" THEN 800 ELSE 1000

-----------------------------------------------------------------------------
(* The candidates.  The mode a candidate is judged under is its own.       *)

Candidate(world, place, mode, minutes, price) ==
    [place |-> place, mode |-> mode, minutes |-> minutes, price |-> price,
     sky |-> world.sky[place], veto |-> Vetoed(world.sky[place], mode)]

RoadCandidates(world, place) ==
    { Candidate(world, place, mode, world.road[place][mode], Unknown) :
        mode \in {m \in RoadModes : /\ world.origin
                                    /\ world.km[place] <= MaxKm(m)
                                    /\ world.road[place][m] >= 0} }

TrainCandidate(world, place, i) ==
    LET train == world.trains[place][i]
    IN  Candidate(world, place, "train", train.minutes, train.price)

RailCandidates(world, place) == {TrainCandidate(world, place, i) : i \in DOMAIN world.trains[place]}

(* Rail replaces the road where the place is far and a train was found.    *)
(* haversine_km is 0 when the origin was not found, so nothing is far then.*)
CandidatesTo(world, place) ==
    IF world.origin /\ world.km[place] >= RailMinKm /\ world.trains[place] # <<>>
    THEN RailCandidates(world, place)
    ELSE RoadCandidates(world, place)

Candidates(world) == UNION {CandidatesTo(world, p) : p \in Range(world.dests)}

-----------------------------------------------------------------------------
(* A score compares a candidate with the others of its set: a value counts *)
(* by its share of the way from the best value known to the worst.         *)
Known(values) == values \ {Unknown, 0}

Span(values) ==
    IF Known(values) = {} THEN 1 ELSE Max({1, Max(Known(values)) - Min(Known(values))})

(* How far a value is from the best one, out of Span (_normalise).         *)
Beyond(value, values) == Max({0, value - Min(Known(values))})

FaultyGoodness(value, values) == Beyond(value, values)  \* slow and dear come first

Goodness(value, values) == Span(values) - Beyond(value, values)

(* Features without a value are left out and the others weigh more; some   *)
(* feature is always missing, so the uncertainty is at least that of D2.   *)
(* The scores of a set are whole numbers of its own smallest part; that    *)
(* the code rounds them to six decimals is left out.                       *)
Score(c, set) ==
    LET minutes == {d.minutes : d \in set}
        prices == {d.price : d \in set}
        timed == c.minutes # Unknown /\ Known(minutes) # {}
        priced == c.price # Unknown /\ Known(prices) # {}
        time == IF timed THEN Goodness(c.minutes, minutes) * Span(prices) ELSE 0
        cost == IF priced THEN Goodness(c.price, prices) * Span(minutes) ELSE 0
        features == IF timed /\ priced THEN time + cost ELSE 2 * (time + cost)
        uncertainty == IF c.sky = "beyond" THEN 75 ELSE 45
    IN  1000 * features
        - 2 * Span(minutes) * Span(prices) * (Penalty(c.sky, c.mode) + uncertainty)

(* build_leg: vetoed candidates rank below all others.  Among equals the   *)
(* code takes the first, which nothing here tells from the others.         *)
Ranks(c, d, set) ==
    \/ ~c.veto /\ d.veto
    \/ c.veto = d.veto /\ Score(c, set) >= Score(d, set)

Selected(set) == CHOOSE c \in set : \A d \in set : Ranks(c, d, set)
=============================================================================
