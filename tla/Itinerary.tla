----------------------------- MODULE Itinerary -----------------------------
(***************************************************************************)
(* How a request becomes a plan: the nodes plan_draft, plan_content and    *)
(* content_render (app/graph/nodes/planning.py, content.py).  The door-to- *)
(* door legs are built first; then the cities get their days, every change *)
(* of city gets a chain of legs on the day it happens, the days are packed *)
(* and at last worded.  Every await is a step of its own.                  *)
(*   request [tokens, days, found]: the stays asked for, the length of the *)
(*           trip and the cities whose name resolves to a place            *)
(*   told    what the traveller is told did not work out                   *)
(***************************************************************************)
EXTENDS DayPlan

CONSTANTS Requests,         \* requests the slot gate lets through
          Home,             \* the origin
          DoorWorlds(_),    \* worlds plan_draft may meet, by request
          HopWorlds(_, _),  \* worlds a hop from one city to another may meet
          Renderings        \* what the model may answer: sets of [day, clean]

ASSUME RequestsAssumption ==
    \A r \in Requests : /\ r.days \in Nat \ {0}
                       /\ r.tokens \in Seq(Range(r.tokens))
                       /\ \A t \in Range(r.tokens) : t.days \in Nat

ASSUME WorldsAssumption ==
    /\ \A r \in Requests : \A world \in DoorWorlds(r) : IsWorld(world)
    /\ \A r \in Requests : \A from, to \in r.found : \A world \in HopWorlds(from, to) :
           IsWorld(world) /\ world.dests # <<>> /\ world.km[to] \in Nat

VARIABLES pc, request, door, stays, windows, hop, links, days, nights, cost, prose, told

vars == <<pc, request, door, stays, windows, hop, links, days, nights, cost, prose, told>>

Init ==
    /\ pc = "draft"
    /\ request \in Requests
    /\ door = <<>> /\ stays = <<>> /\ windows = <<>> /\ hop = 1 /\ links = <<>>
    /\ days = <<>> /\ nights = <<>> /\ cost = Unknown /\ prose = <<>> /\ told = {}

Destination == IF request.tokens = <<>> THEN Home ELSE Head(request.tokens).city

(* plan_draft: the legs from the traveller's door.                         *)
PlanDraft ==
    /\ pc = "draft"
    /\ \E world \in DoorWorlds(request) :
           door' = BuildTrip(world, Home, Destination, 1, FALSE)
    /\ pc' = "layout"
    /\ UNCHANGED <<request, stays, windows, hop, links, days, nights, cost, prose, told>>

(* plan_content up to its first hop: stays, calendar.  What was asked for  *)
(* and got no day is told; so is a request cut to MaxSegments stays.       *)
Stays == Parse(request.tokens)

Layout ==
    /\ pc = "layout"
    /\ stays' = Allocate(Stays, request.days)
    /\ windows' = AssignDays(stays', request.days, TransferDays(Stays, request.days))
    /\ told' = {<<"dropped", c>> : c \in Dropped(Stays, request.days)}
               \cup (IF Len(Stays) < Len(Collapsed(Denoised(request.tokens)))
                     THEN {<<"cut", "">>} ELSE {})
    /\ pc' = IF stays' = <<>> THEN "render" ELSE "hops"
    /\ UNCHANGED <<request, door, hop, links, days, nights, cost, prose>>

(* _build_transfers, one hop: the day the traveller leaves gets the legs,  *)
(* and the night moves to where the last of them ends.  The first leg is   *)
(* the one the day is packed behind.                                       *)
Linked(d, legs) ==
    [windows EXCEPT ![d].moving = TRUE, ![d].transfer = <<Head(legs)>>, ![d].sleeps = Last(legs).to]

BuildTransfer ==
    /\ pc = "hops" /\ hop < Len(stays)
    /\ LET from == stays[hop].city  to == stays[hop + 1].city
       IN  IF LeavingDay(windows, hop) = {}
           THEN links' = Append(links, <<>>) /\ UNCHANGED <<windows, told>>
           ELSE IF {from, to} \subseteq request.found
           THEN /\ \E world \in HopWorlds(from, to), d \in LeavingDay(windows, hop) :
                       LET legs == Retimed(BuildTrip(world, from, to, d, TRUE), d, world.km[to])
                       IN  links' = Append(links, legs) /\ windows' = Linked(d, legs)
                /\ UNCHANGED told
           ELSE /\ links' = Append(links, <<>>)
                /\ told' = told \cup {<<"unlinked", from>>}
                /\ UNCHANGED windows
    /\ hop' = hop + 1
    /\ UNCHANGED <<pc, request, door, stays, days, nights, cost, prose>>

(* The rest of plan_content.  The places to see are the cities themselves, *)
(* each on the first day of its stay.                                      *)
Visits(d) ==
    IF /\ windows[d].city \in request.found
       /\ \A e \in 1..d - 1 : windows[e].stay # windows[d].stay
    THEN 1 ELSE 0

Fare(legs) == Total([i \in DOMAIN legs |-> IF legs[i].price = Unknown THEN 0 ELSE legs[i].price])
Fares == Total([i \in DOMAIN links |-> Fare(links[i])])

PackDays ==
    /\ pc = "hops" /\ hop >= Len(stays)
    /\ days' = [d \in DOMAIN windows |-> PackDay(windows[d], d, Visits(d))]
    /\ nights' = [d \in DOMAIN windows |-> LodgingFor(windows[d], stays)]
    /\ cost' = IF Fares = 0 THEN Unknown ELSE Fares
    /\ pc' = "render"
    /\ UNCHANGED <<request, door, stays, windows, hop, links, prose, told>>

FaultyContentRender ==  \* whatever day the model names
    /\ pc = "render"
    /\ \E items \in Renderings :
           prose' = [d \in DOMAIN days \cup {item.day : item \in items} |->
                        IF [day |-> d, clean |-> TRUE] \in items THEN "model" ELSE "template"]
    /\ pc' = "done"
    /\ UNCHANGED <<request, door, stays, windows, hop, links, days, nights, cost, told>>

(* content_render: a template for every day, replaced by what the model    *)
(* wrote about that day unless a number is left out of it.  An answer that *)
(* does not parse is an empty one.                                         *)
ContentRender ==
    /\ pc = "render"
    /\ \E items \in Renderings :
           prose' = [d \in DOMAIN days |->
                        IF [day |-> d, clean |-> TRUE] \in items THEN "model" ELSE "template"]
    /\ pc' = "done"
    /\ UNCHANGED <<request, door, stays, windows, hop, links, days, nights, cost, told>>

(* The plan goes on to plan_finalize and the preview.                      *)
Finished == pc = "done" /\ UNCHANGED vars

Next == PlanDraft \/ Layout \/ BuildTransfer \/ PackDays \/ ContentRender \/ Finished

Spec == Init /\ [][Next]_vars

-----------------------------------------------------------------------------
(* Type invariant: every hop handled so far has its links, every day its   *)
(* night, and, once the plan is worded, its words.                         *)
TypeOK ==
    /\ pc \in {"draft", "layout", "hops", "render", "done"}
    /\ request \in Requests
    /\ \A leg \in Range(door) : leg.kind \in {"single", "road", "rail"}
    /\ \A d \in DOMAIN windows : windows[d].stay \in DOMAIN stays
    /\ hop = Len(links) + 1
    /\ days = <<>> \/ Len(days) = Len(windows)
    /\ DOMAIN nights = DOMAIN days
    /\ cost = Unknown \/ cost > 0
    /\ pc = "done" => prose \in [DOMAIN days -> {"template", "model"}]

DaysIn(i) == Cardinality({d \in DOMAIN windows : windows[d].stay = i})

(* The calendar agrees with the request.  Every day of the trip has a city,*)
(* in the order asked for; no stay is shorter than what it was allotted,   *)
(* and days stated for the whole trip are kept as they were stated.  Who   *)
(* asked for a city that got no day is told (segments.py allocate_days,    *)
(* day_plan.py assign_days_to_segments).                                   *)
EveryDayHasItsCity ==
    pc \in {"hops", "render", "done"} =>
        /\ Len(windows) = (IF Stays = <<>> THEN 0 ELSE request.days)
        /\ \A d \in 1..Len(windows) - 1 : windows[d].stay <= windows[d + 1].stay
        /\ \A i \in DOMAIN stays : DaysIn(i) >= stays[i].days
        /\ Literal(Stays, request.days) =>
               \A i \in DOMAIN stays : DaysIn(i) = stays[i].days
        /\ \A t \in Range(request.tokens) :
               \/ t.city \in {stays[i].city : i \in DOMAIN stays} \cup Noise
               \/ <<"dropped", t.city>> \in told \/ <<"cut", "">> \in told

(* Nobody is in another city the next morning without having been brought  *)
(* there: the day before is a moving day, whose legs follow each other     *)
(* from the one city to the other, or the traveller was told that the way  *)
(* could not be looked up (content.py _build_transfers).                   *)
Leads(legs, from, to) ==
    /\ legs # <<>>
    /\ Head(legs).from \in {City(from), Station(from)}
    /\ Last(legs).to \in {City(to), Station(to)}
    /\ \A i \in 1..Len(legs) - 1 : legs[i].to = legs[i + 1].from

CitiesAreLinked ==
    pc \in {"render", "done"} =>
        \A d \in 1..Len(windows) - 1 :
            LET i == windows[d].stay  j == windows[d + 1].stay
            IN  i # j =>
                  /\ j = i + 1
                  /\ \/ /\ Leads(links[i], stays[i].city, stays[j].city)
                        /\ windows[d].moving
                        /\ windows[d].transfer = <<Head(links[i])>>
                     \/ <<"unlinked", stays[i].city>> \in told

(* A chain that is offered can be travelled: no leg leaves before the one  *)
(* before it has arrived, with the time to change that it needs.  Moving a *)
(* chain to its day keeps this as long as no leg of it runs past midnight  *)
(* (trip_planner.py _chain_for_train, content.py _retime_leg).             *)
SameDay(legs) ==
    /\ \A i \in DOMAIN legs : Clock(legs[i].depart) <= Clock(legs[i].arrive)
    /\ \A i \in 1..Len(legs) - 1 : Clock(legs[i].arrive) <= Clock(legs[i + 1].depart)

ChainsAreFeasible ==
    /\ ~OutOfOrder(door) /\ ~ShortOfTime(door)
    /\ \A i \in DOMAIN links :
           SameDay(links[i]) => ~OutOfOrder(links[i]) /\ ~ShortOfTime(links[i])

(* Visits keep to the hours of their day: one begins neither before the    *)
(* day does nor before the arrival the day is packed behind, and ends in   *)
(* time for the meals and the night; what does not fit is counted, so that *)
(* every place of a stay is on exactly one of its days or told.  The day   *)
(* of a move is packed behind the first leg of the chain.  That leg is the *)
(* arrival in the next city only when it is the whole chain: behind a way  *)
(* to the station a visit may lie on the train, and meals may lie past the *)
(* day's end, of which nothing is claimed here (day_plan.py pack_day,      *)
(* assign_attractions).                                                    *)
VisitsKeepTheHours ==
    /\ \A d \in DOMAIN days : \A v \in Range(days[d].visits) :
           /\ v >= On(d, DayStart) /\ v + Visit <= On(d, DayEnd - Settling)
           /\ \A leg \in Range(days[d].transfer) :
                  leg.arrive \div Day = d - 1 => v >= leg.arrive
           /\ \A m \in Range(days[d].meals) : v + Visit <= m
    /\ \A d \in DOMAIN days, i \in DOMAIN links :
           days[d].moving /\ days[d].stay = i /\ Len(links[i]) = 1 =>
               \A v \in Range(days[d].visits) :
                   links[i][1].arrive \div Day = d - 1 => v >= links[i][1].arrive
    /\ days # <<>> =>
           \A i \in DOMAIN stays :
               Total([d \in DOMAIN days |-> IF days[d].stay # i THEN 0
                          ELSE Len(days[d].visits) + days[d].overflow])
               = (IF stays[i].city \in request.found THEN 1 ELSE 0)

(* The leg shown as chosen is never worse in every respect than another    *)
(* one: it is under a veto only if all are, and no other that is as free   *)
(* or as vetoed is as quick, as cheap and as little exposed to the weather *)
(* and better in one of the three.  What is zero counts as not known; of    *)
(* the names the planner gives its modes the rules of the weather know     *)
(* none, so that no leg is under a veto today (leg_planner.py build_leg,   *)
(* score_candidates).                                                      *)
Better(d, c) ==
    /\ {d.minutes, c.minutes} \cap {Unknown, 0} = {}
    /\ \/ d.price = Unknown /\ c.price = Unknown
       \/ {d.price, c.price} \cap {Unknown, 0} = {}
    /\ (d.sky = "beyond") = (c.sky = "beyond")
    /\ d.minutes <= c.minutes /\ d.price <= c.price
    /\ Penalty(d.sky, d.mode) <= Penalty(c.sky, c.mode)
    /\ \/ d.minutes < c.minutes \/ d.price < c.price
       \/ Penalty(d.sky, d.mode) < Penalty(c.sky, c.mode)

ChosenIsNotDominated ==
    \A leg \in Range(door) : \A c \in leg.pick, d \in leg.options :
        (c.veto => d.veto) /\ (d.veto = c.veto => ~Better(d, c))

(* On a moving day the night is in the city the traveller arrives in       *)
(* (day_plan.py build_lodging_options).                                    *)
NightsFollowTheTraveller ==
    \A d \in DOMAIN nights : windows[d].moving => nights[d].stay = windows[d].stay + 1
=============================================================================
