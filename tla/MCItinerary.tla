----------------------------- MODULE MCItinerary -----------------------------
(***************************************************************************)
(* Itinerary with three cities, trips of one to five days and requests of  *)
(* up to three stays.  A single stay meets many worlds at the door, a      *)
(* change of city all worlds of a hop.                                     *)
(***************************************************************************)
EXTENDS Itinerary

Token(c, n) == [city |-> c, days |-> n]
Request(tokens, n, found) == [tokens |-> tokens, days |-> n, found |-> found]

All == {"A", "B", "C"}
Words == {Token(c, n) : c \in {"A", "B"}, n \in {0, 1, 3}} \cup {Token("noise", 0)}
Threes == {<<Token("A", i), t, Token("C", j)>> : i \in 0..2, j \in {0, 1}, t \in Words}

MCRequests ==
    {Request(<<>>, 1, {})}
    \cup {Request(<<Token("A", i)>>, n, {"A"}) : i \in {0, 2}, n \in {2, 3}}
    \cup {Request(<<t, u>>, n, f) : t \in Words, u \in Words, n \in 1..5, f \in {All, {"A"}}}
    \cup {Request(s, n, All) : s \in Threes, n \in {2, 4, 5}}
    \cup {Request(<<Token("A", 1), Token("B", 1), Token("C", 1), Token("A", 1)>>, n, All) : n \in 4..5}

Train(depart, arrive, minutes, price, to) ==
    [depart |-> depart, arrive |-> arrive, minutes |-> minutes, price |-> price, to |-> to]
Morning(c) == Train(32, 44, 12, 5, Station(c))
Express(c) == Train(36, 44, 8, 9, City(c))
Evening(c) == Train(64, 76, 12, 4, Station(c))
Night(c) == Train(88, 8, 16, 3, Station(c))
Early(c) == Train(1, 10, 9, 20, Station(c))
Cancelled(c) == Train(NoClock, NoClock, Unknown, 3, Station(c))

Roads(driving, bicycling, walking) ==
    [m \in RoadModes |-> IF m = "driving" THEN driving ELSE IF m = "bicycling" THEN bicycling ELSE walking]

World(origin, dests, km, sky, road, trains, access, egress) ==
    [origin |-> origin, dests |-> dests, km |-> km, sky |-> sky, road |-> road, trains |-> trains,
     access |-> access, egress |-> egress]

(* The door: one place, or a name that stands for two of them, both far    *)
(* and without a train where the second is 601 km away.                    *)
OnePlace(c, km, sky, road, trains, origin, access, egress) ==
    World(origin, <<c>>, [p \in {c} |-> km], [p \in {c} |-> sky], [p \in {c} |-> road],
          [p \in {c} |-> trains], access, egress)

Plain(c) == OnePlace(c, 30, "fine", Roads(3, NoRoute, Unavailable), <<>>, TRUE, 0, 0)

TwoPlaces(c, km, sky, road, rail) ==
    World(TRUE, <<c, "other">>, [p \in {c, "other"} |-> IF p = c THEN km[1] ELSE km[2]],
          [p \in {c, "other"} |-> IF p = c THEN sky[1] ELSE sky[2]],
          [p \in {c, "other"} |-> IF p = c THEN road ELSE Roads(4, 9, NoRoute)],
          [p \in {c, "other"} |-> IF rail THEN <<Morning(p), Express(p)>> ELSE <<>>], 0, 0)

MCDoorWorlds(r) ==
    IF r.tokens = <<>> THEN {World(TRUE, <<>>, <<>>, <<>>, <<>>, <<>>, 0, 0)}
    ELSE LET c == Head(r.tokens).city
         IN  IF Len(r.tokens) > 1 \/ r.tokens[1].days = 2
             THEN {Plain(c)}
             ELSE {OnePlace(c, km, sky, road, trains, origin, access, egress) :
                       km \in {5, 600}, sky \in {"fine", "heat", "unknown"},
                       road \in {Roads(3, 6, NoRoute), Roads(NoRoute, 6, 9), Roads(Unavailable, NoRoute, 9)},
                       trains \in {<<>>, <<Morning(c), Express(c)>>, <<Cancelled(c), Cancelled(c), Early(c)>>,
                                   <<Night(c), Cancelled(c)>>, <<Evening(c), Early(c), Night(c)>>},
                       origin \in BOOLEAN, access \in {0, 6}, egress \in {0, 2}}
                  \cup {TwoPlaces(c, km, sky, road, km # <<600, 601>>) :
                       km \in {<<5, 30>>, <<5, 600>>, <<600, 600>>, <<600, 601>>},
                       sky \in Sky \X {"fine", "downpour", "gale", "beyond"},
                       road \in {Roads(3, 6, NoRoute), Roads(5, NoRoute, 9), Roads(4, 8, 12)}}

MCHopWorlds(from, to) ==
    LET Hop(trains, driving, access, egress) ==
            OnePlace(to, 120, "fine", Roads(driving, NoRoute, NoRoute), trains, TRUE, access, egress)
    IN  IF from = "B" /\ to = "C" THEN {Hop(<<Evening(to)>>, 6, 0, 0)}
        ELSE {Hop(<<Morning(to)>>, 6, 0, 0), Hop(<<Express(to), Evening(to)>>, 6, 2, 0),
              Hop(<<Night(to)>>, 6, 2, 3), Hop(<<>>, 6, 0, 0), Hop(<<>>, NoRoute, 0, 0),
              Hop(<<Cancelled(to)>>, 6, 2, 2)}

MCRenderings ==
    {{}, {[day |-> 1, clean |-> TRUE], [day |-> 2, clean |-> FALSE], [day |-> 9, clean |-> TRUE]}}
=============================================================================
