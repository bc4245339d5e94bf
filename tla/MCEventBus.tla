------------------------------ MODULE MCEventBus ------------------------------
(* Small instances of EventBus: two streams of a session, one of another. *)
EXTENDS EventBus, TLC

CONSTANTS s1, s2, c1, c2

Sessions == {s1, s2}
Readers  == {c1, c2}
Tabs     == (c1 :> s1 @@ c2 :> s1)
Deltas   == {[type |-> "text_delta"]}
=============================================================================
