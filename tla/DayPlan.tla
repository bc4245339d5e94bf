------------------------------ MODULE DayPlan ------------------------------
(***************************************************************************)
(* The shape of a trip (app/policy/segments.py, app/policy/day_plan.py):   *)
(* which cities, for how many days, which days are spent moving, what is   *)
(* on each day's clock and where each night is.  Pure.                     *)
(*   a token  [city, days]: what the request says of one stay; Unstated    *)
(*   a stay   [city, days, stated]                                         *)
(*   a window [city, stay, moving, sleeps, transfer, extra]: a calendar    *)
(*            day; transfer has the leg that brings the traveller over     *)
(***************************************************************************)
EXTENDS TripPlanner

CONSTANTS MaxSegments,  \* MAX_SEGMENTS: stays one trip may have
          Noise,        \* words prose leaves behind that are no place
          DayStart,     \* the rhythm's first and last clock time
          DayEnd

ASSUME RhythmAssumption ==
    MaxSegments \in Nat \ {0} /\ {DayStart, DayEnd} \subseteq 0..Day - 1

Unstated == 0

Total(s) == FoldLeft(LAMBDA a, b : a + b, 0, s)

(* The elements of s at the places K, in their order.                      *)
Kept(s, K) == FoldLeftDomain(LAMBDA kept, i : IF i \in K THEN Append(kept, s[i]) ELSE kept, <<>>, s)

-----------------------------------------------------------------------------
(* parse_segments, from the clauses on.                                    *)

(* Words without days are noise as soon as another clause states days.     *)
Denoised(tokens) ==
    IF \E i \in DOMAIN tokens : tokens[i].days # Unstated
    THEN Kept(tokens, {i \in DOMAIN tokens : \/ tokens[i].days # Unstated
                                             \/ tokens[i].city \notin Noise})
    ELSE tokens

(* "back to Beijing in the end" is not another stay.                       *)
Collapsed(tokens) ==
    FoldLeft(LAMBDA kept, t : IF /\ kept # <<>> /\ Last(kept).city = t.city
                                 /\ t.days = Unstated
                              THEN kept ELSE Append(kept, t), <<>>, tokens)

Parse(tokens) ==
    LET clauses == Collapsed(Denoised(tokens))
    IN  SubSeq(clauses, 1, Min({Len(clauses), MaxSegments}))

-----------------------------------------------------------------------------
(* complete_days, allocate_days: how many days each stay gets.             *)

EvenShare(n, total) == [i \in 1..n |-> total \div n + (IF i <= total % n THEN 1 ELSE 0)]

(* _scale: everybody gets the even share, unless rounding every weight's   *)
(* proportion up to one day more happens to come to the target.            *)
Scale(weights, target) ==
    LET n == Len(weights)
        floor == IF target >= n THEN target \div n ELSE 0
        fitted == [i \in 1..n |-> floor +
                      (IF weights[i] * target > floor * Total(weights) THEN 1 ELSE 0)]
    IN  IF target >= n /\ Total(fitted) = target THEN fitted
        ELSE EvenShare(n, target)

(* Position of index i among those of the set, 1 for the first.            *)
Rank(i, set) == Cardinality({j \in set : j <= i})

CompleteDays(tokens, target) ==
    LET days == [i \in DOMAIN tokens |-> tokens[i].days]
        open == {i \in DOMAIN tokens : days[i] = Unstated}
        share == EvenShare(Cardinality(open), target - Total(days))
        weights == [i \in DOMAIN tokens |-> IF i \in open THEN 1 ELSE days[i]]
    IN  IF open = {} \/ Total(days) > target THEN Scale(weights, target)
        ELSE [i \in DOMAIN tokens |-> IF i \in open THEN share[Rank(i, open)] ELSE days[i]]

(* Days stated for the whole trip are calendar days and are taken as they  *)
(* are; otherwise one day per hop is set aside for moving, as long as one  *)
(* is left to stay.                                                        *)
Literal(tokens, tripDays) == Total([i \in DOMAIN tokens |-> tokens[i].days]) = tripDays

TransferDays(tokens, tripDays) ==
    IF tokens = <<>> \/ Literal(tokens, tripDays) THEN 0
    ELSE Min({Len(tokens) - 1, tripDays - 1})

DaysOf(tokens, tripDays) ==
    IF Literal(tokens, tripDays) THEN [i \in DOMAIN tokens |-> tokens[i].days]
    ELSE CompleteDays(tokens, tripDays - TransferDays(tokens, tripDays))

(* Stays without a day are left out, and the traveller is told which.      *)
Allocate(tokens, tripDays) ==
    LET days == DaysOf(tokens, tripDays)
        all == [i \in DOMAIN tokens |-> [city |-> tokens[i].city, days |-> days[i],
                                         stated |-> tokens[i].days # Unstated]]
    IN  IF tokens = <<>> THEN <<>> ELSE Kept(all, {i \in DOMAIN tokens : days[i] > 0})

Dropped(tokens, tripDays) ==
    {tokens[i].city : i \in {j \in DOMAIN tokens : DaysOf(tokens, tripDays)[j] = 0}}

-----------------------------------------------------------------------------
(* assign_days_to_segments: a calendar day for every day of the trip.      *)

FaultyDistribute(desired, target) == EvenShare(Len(desired), target)  \* stated days lost

(* _distribute: an exact fit is left alone; otherwise days are handed out  *)
(* in proportion, the largest fractions first.                             *)
Distribute(desired, target) ==
    LET n == Len(desired)
        all == Total(desired)
        Whole(i) == (target * desired[i]) \div all
        Part(i) == (target * desired[i]) % all
        Before(j, i) == Part(j) > Part(i) \/ (Part(j) = Part(i) /\ j <= i)
        left == target - Total([i \in 1..n |-> Whole(i)])
    IN  IF target < n THEN [i \in 1..n |-> IF i <= target THEN 1 ELSE 0]
        ELSE IF target = all THEN desired
        ELSE [i \in 1..n |-> Whole(i) +
                 (IF Cardinality({j \in 1..n : Before(j, i)}) <= left THEN 1 ELSE 0)]

(* Day of the calendar on which stay i begins: the stays before it and the *)
(* moving days after them.                                                 *)
Begins(layout, reserved, i) == 1 + Total(SubSeq(layout, 1, i - 1)) + Min({i - 1, reserved})

AssignDays(stays, tripDays, transferDays) ==
    LET n == Len(stays)
        reserved == Min({transferDays, n - 1, tripDays - 1})
        layout == Distribute([i \in 1..n |-> stays[i].days], tripDays - reserved)
        Starts(i) == Begins(layout, reserved, i)
        Ends(i) == Starts(i) + layout[i]
        Within(d, i) == Starts(i) <= d /\ d < Ends(i)
        Window(d) ==
            LET here == {i \in 1..n : Within(d, i)}
                leaving == {i \in 1..reserved : d = Ends(i)}
                stay == IF leaving # {} THEN Min(leaving) ELSE IF here # {} THEN Min(here) ELSE n
                night == IF leaving # {} THEN stay + 1 ELSE stay
            IN  [city |-> stays[stay].city, stay |-> stay, moving |-> leaving # {},
                 sleeps |-> City(stays[night].city), transfer |-> <<>>,
                 extra |-> leaving \cup here = {}]
    IN  IF n = 0 THEN <<>> ELSE [d \in 1..tripDays |-> Window(d)]

FaultyLeavingDay(windows, stay) ==  \* the day of arrival instead
    LET own == {d \in DOMAIN windows : windows[d].stay = stay}
    IN  IF own # {} THEN {Min(own)} ELSE {}

(* _leaving_day: the day set aside for the move, or the stay's last one.   *)
LeavingDay(windows, stay) ==
    LET own == {d \in DOMAIN windows : windows[d].stay = stay}
        aside == {d \in own : windows[d].moving}
    IN  IF aside # {} THEN {Min(aside)} ELSE IF own # {} THEN {Max(own)} ELSE {}

-----------------------------------------------------------------------------
(* Cross-city legs on their day (content.py).                              *)

(* _retime_leg: the date is replaced and the clock kept; a leg without a   *)
(* timetable starts with the day and is marked as an estimate.             *)
RetimeLeg(leg, day) ==
    LET depart == IF leg.depart = NoClock THEN On(day, DayStart) ELSE On(day, Clock(leg.depart))
        arrive == IF leg.arrive # NoClock THEN On(day, Clock(leg.arrive))
                  ELSE IF leg.minutes \notin {Unknown, 0} THEN depart + leg.minutes ELSE NoClock
    IN  [leg EXCEPT !.depart = depart,
                    !.arrive = IF arrive # NoClock /\ arrive < depart THEN arrive + Day ELSE arrive,
                    !.approx = @ \/ leg.depart = NoClock]

(* estimate_transfer_minutes: 30 km/h and a quarter of an hour.            *)
Estimate(km) == (2 * km) \div 15 + 1

(* A leg that still has no arrival gets the estimated duration.            *)
Retimed(legs, day, km) ==
    LET Timeless(leg) == leg.arrive = NoClock /\ leg.minutes \in {Unknown, 0}
        Again(leg) == IF Timeless(leg)
                      THEN RetimeLeg([leg EXCEPT !.minutes = Estimate(km), !.approx = TRUE], day)
                      ELSE leg
    IN  [i \in DOMAIN legs |-> Again(RetimeLeg(legs[i], day))]

-----------------------------------------------------------------------------
(* pack_day: the arriving leg, the visits that still fit, the meals after  *)
(* them, the night.  Lodging takes the last half hour of the day.          *)

Visit == 8
Meal == 4
Settling == 2

ArrivesAt(window, d) ==
    IF window.transfer = <<>> \/ window.transfer[1].arrive = NoClock
       \/ (window.transfer[1].arrive) \div Day # d - 1
    THEN DayStart
    ELSE Max({DayStart, Clock(window.transfer[1].arrive)})

FaultyFitting(window, d, visits) ==  \* as if every day were a whole one
    Min({visits, (DayEnd - Settling - DayStart) \div Visit})

(* The number of visits of a day that fit, one after the other.            *)
Fitting(window, d, visits) ==
    Min({visits, Max({0, (DayEnd - Settling - ArrivesAt(window, d)) \div Visit})})

PackDay(window, d, visits) ==
    LET from == ArrivesAt(window, d)
        placed == Fitting(window, d, visits)
    IN  [city |-> window.city, stay |-> window.stay, sleeps |-> window.sleeps,
         moving |-> window.moving, transfer |-> window.transfer,
         visits |-> [i \in 1..placed |-> On(d, from + (i - 1) * Visit)],
         overflow |-> visits - placed,
         meals |-> IF visits = 0 THEN <<>>
                   ELSE [i \in 1..2 |-> On(d, from + placed * Visit + (i - 1) * Meal)]]

(* build_lodging_options: the stay a night's place belongs to, the last    *)
(* with that name, or the stay of the day when no stay is called that.     *)
LodgingFor(window, stays) ==
    LET named == {i \in DOMAIN stays : City(stays[i].city) = window.sleeps}
    IN  [area |-> window.sleeps, stay |-> IF named = {} THEN window.stay ELSE Max(named)]
=============================================================================
