------------------------------ MODULE MCResolver ------------------------------
(* Small instances of Resolver: four calls of two registered capabilities. *)
EXTENDS Resolver

CONSTANTS p1, p2, b1, b2   \* place.resolve twice, booking.order.submit twice

\* As in app/capabilities/defaults.py, with the chains cut to what differs and the
\* times in ticks.
Registry ==
  [place  |-> [risk |-> 0, pool |-> "amap_lbs", units |-> 1, ttl |-> 1,
               ladder |-> <<"D1", "D2", "D3">>, chain |-> <<"amap", "open_meteo", "osm">>],
   submit |-> [risk |-> 2, pool |-> NoPool, units |-> 0, ttl |-> 0,
               ladder |-> <<"D1", "D2", "D3">>, chain |-> <<"browser">>]]

MonthlyLimit == [amap_lbs |-> 1]

Consent(token) == [plan |-> TRUE, action |-> TRUE, token |-> token, ref |-> TRUE]

Asks(cap, context) == [cap |-> cap, params |-> "same", context |-> context]

Requested == [c \in Call |-> CASE c \in {p1, p2} -> Asks("place", NoContext)
                               [] c = b1 -> Asks("submit", Consent(TRUE))
                               [] c = b2 -> Asks("submit", Consent(FALSE))]
=============================================================================
