----------------------------- MODULE TripPlanner -----------------------------
(***************************************************************************)
(* A door-to-door chain (app/graph/trip_planner.py): a single leg where    *)
(* the road is the natural answer, otherwise a train with the way to its   *)
(* station and the way from it, laid out backwards from the departure and  *)
(* then judged by the cross-leg rules of policy/constraints.py.  A world   *)
(* has two more fields here:                                               *)
(*   access, egress   how long the way to the first station and from the   *)
(*                    last one takes; 0 when no such leg is built: the     *)
(*                    station was not found, is less than 1 km away, or    *)
(*                    no route was answered                                *)
(* and a train has depart and arrive, clock times of its day or NoClock.   *)
(***************************************************************************)
EXTENDS LegPlanner

CONSTANTS MaxChainAttempts  \* MAX_CHAIN_ATTEMPTS: trains tried before giving up

ASSUME AttemptsAssumption == MaxChainAttempts \in Nat \ {0}

NoClock == -1000
Day == 96                   \* quarters of an hour
Clock(time) == IF time = NoClock THEN NoClock ELSE time % Day
On(day, clock) == IF clock = NoClock THEN NoClock ELSE (day - 1) * Day + clock

(* Where a leg starts or ends: a city by its name, or its station's name.  *)
City(c) == <<"city", c>>
Station(c) == <<"station", c>>

Leg(kind, from, to, depart, arrive, minutes, price) ==
    [kind |-> kind, from |-> from, to |-> to, depart |-> depart, arrive |-> arrive,
     minutes |-> minutes, price |-> price, approx |-> kind = "road",
     options |-> {}, pick |-> {}]

(* What the capabilities may answer.  A way to a station takes less than   *)
(* nine days, so that no time of a chain is NoClock.                       *)
IsTrain(train, place) ==
    /\ {train.depart, train.arrive} \subseteq 0..Day - 1 \cup {NoClock}
    /\ {train.minutes, train.price} \subseteq Nat \cup {Unknown}
    /\ train.to \in {City(place), Station(place)}

IsPlace(world, place) ==
    /\ world.km[place] \in Nat /\ world.sky[place] \in Sky
    /\ \A mode \in RoadModes : world.road[place][mode] \in Nat \cup {NoRoute, Unavailable}
    /\ world.trains[place] \in Seq(Range(world.trains[place]))
    /\ \A train \in Range(world.trains[place]) : IsTrain(train, place)

IsWorld(world) ==
    /\ world.origin \in BOOLEAN
    /\ world.dests \in Seq(Range(world.dests))
    /\ \A place \in Range(world.dests) : IsPlace(world, place)
    /\ {world.access, world.egress} \subseteq 0..800

-----------------------------------------------------------------------------
(* build_leg: the leg carries its candidates and which one was selected,   *)
(* and no clock, duration or price of its own.                             *)
SingleLeg(world, from, to) ==
    LET set == Candidates(world)
        pick == IF set = {} THEN {} ELSE {Selected(set)}
        place == IF set = {} THEN to ELSE Selected(set).place
    IN  [Leg("single", City(from), City(place), NoClock, NoClock, Unknown, Unknown)
            EXCEPT !.options = set, !.pick = pick]

-----------------------------------------------------------------------------
(* Cross-leg rules (policy/constraints.py, policy/buffer.py).              *)

(* Minutes to spare before the next leg, by how this one travels: a drive  *)
(* has no bucket of its own and gets the default of a local transfer.      *)
Buffer(leg) == IF leg.kind = "rail" THEN 4 ELSE 3

Timed(leg) == leg.depart # NoClock /\ leg.arrive # NoClock

OutOfOrder(legs) ==
    \/ \E i \in DOMAIN legs : Timed(legs[i]) /\ legs[i].arrive < legs[i].depart
    \/ \E i \in 1..Len(legs) - 1 :
           /\ legs[i].arrive # NoClock /\ legs[i + 1].depart # NoClock
           /\ legs[i + 1].depart < legs[i].arrive

ShortOfTime(legs) ==
    \E i \in 1..Len(legs) - 1 :
        /\ legs[i].arrive # NoClock /\ legs[i + 1].depart # NoClock
        /\ legs[i + 1].depart - legs[i].arrive < Buffer(legs[i])

-----------------------------------------------------------------------------
(* The chain.                                                              *)

RailLeg(train, from, to, depart, arrive) ==
    Leg("rail", Station(from), train.to, depart, arrive, train.minutes, train.price)

FaultyChainFor(world, train, from, to, day) ==  \* no time to board
    LET depart == On(day, train.depart)
        access == Leg("road", City(from), Station(from), depart - world.access, depart,
                      world.access, Unknown)
    IN  IF NoClock \in {train.depart, train.arrive} THEN <<>>
        ELSE <<access, RailLeg(train, from, to, depart, On(day, train.arrive))>>

(* _chain_for_train: <<>> when the train has no timetable, or when the     *)
(* chain breaks a hard rule.  An arrival earlier than the departure is on  *)
(* the next day.                                                           *)
ChainFor(world, train, from, to, day) ==
    LET depart == On(day, train.depart)
        arrive == On(IF train.arrive < train.depart THEN day + 1 ELSE day, train.arrive)
        board == depart - 3
        alight == arrive + 4
        access == IF ~world.origin \/ world.access = 0 THEN <<>>
                  ELSE <<Leg("road", City(from), Station(from), board - world.access, board,
                             world.access, Unknown)>>
        egress == IF world.egress = 0 THEN <<>>
                  ELSE <<Leg("road", train.to, City(to), alight, alight + world.egress,
                             world.egress, Unknown)>>
        legs == access \o <<RailLeg(train, from, to, depart, arrive)>> \o egress
    IN  IF NoClock \in {train.depart, train.arrive} \/ OutOfOrder(legs) THEN <<>> ELSE legs

(* The trains by score; among equals in the answer's order.  None can be   *)
(* asked for without the origin's city.                                    *)
Trains(world, place) == IF world.origin THEN world.trains[place] ELSE <<>>

Precedes(world, place, i, j) ==
    LET set == RailCandidates(world, place)
        Points(k) == Score(TrainCandidate(world, place, k), set)
    IN  Points(i) > Points(j) \/ (Points(i) = Points(j) /\ i <= j)

First(world, place, some) ==
    CHOOSE i \in some : \A j \in some : Precedes(world, place, i, j)

(* The best trains, no more than MaxChainAttempts.                         *)
Attempts(world, place) ==
    LET trains == DOMAIN Trains(world, place)
    IN  {i \in trains : Cardinality({j \in trains : Precedes(world, place, j, i)}) <= MaxChainAttempts}

(* _build_rail_chain, to the first place found: the first train that       *)
(* chains; without one, the best train alone; without trains, a single leg.*)
(* build_leg is then asked for that place by its own name, which is taken  *)
(* to find it again and no other.                                          *)
Alone(world, place) == [world EXCEPT !.dests = <<place>>]

RailChain(world, from, day) ==
    LET to == Head(world.dests)
        trains == Trains(world, to)
        Chain(i) == ChainFor(world, trains[i], from, to, day)
        fits == {i \in Attempts(world, to) : Chain(i) # <<>>}
        best == trains[First(world, to, DOMAIN trains)]
    IN  IF trains = <<>> THEN <<SingleLeg(Alone(world, to), from, to)>>
        ELSE IF fits # {} THEN Chain(First(world, to, fits))
        ELSE <<RailLeg(best, from, to, On(day, best.depart), On(day, best.arrive))>>

(* build_trip.  The destination is disambiguated before any distance is    *)
(* measured; a hop between two cities asks for a train whatever the        *)
(* distance (force).                                                       *)
Intercity(world, force) ==
    \/ force
    \/ /\ world.origin /\ world.dests # <<>>
       /\ \A p \in Range(world.dests) : world.km[p] >= RailMinKm

BuildTrip(world, from, to, day, force) ==
    IF Intercity(world, force) THEN RailChain(world, from, day)
    ELSE <<SingleLeg(world, from, to)>>
=============================================================================
