----------------------------- MODULE MCTripSession -----------------------------
(* Small instances of TripSession: the texts and replies a session receives. *)
EXTENDS TripSession, TLC

Says(scope, patch) == [scope |-> scope, patch |-> patch]

Hush     == Says("travel", "none")       \* nothing to extract
FullTrip == Says("travel", "full")       \* every required slot
YouPick  == Says("travel", "delegate")   \* "you decide"
Clashing == Says("travel", "clash")      \* return before departure
OffTopic == Says("off_topic", "none")
Abuse    == Says("abuse", "none")

Decides(d, target, patch, token) ==
  [decision |-> d, target |-> target, patch |-> patch, text |-> Hush, token |-> token]

Approve  == Decides("approve", "plan", "none", FALSE)
Confirm  == Decides("approve", "plan", "none", TRUE)
Reject   == Decides("reject", "plan", "none", FALSE)
EditPlan == Decides("edit", "plan", "none", FALSE)
EditDates == Decides("edit", "slots", "clash", FALSE)

PlanTexts    == {FullTrip, Clashing}
PlanReplies  == {Approve, Confirm, EditPlan}
YesNo        == {Approve, Reject}
EveryText    == {Hush, FullTrip, YouPick, Clashing, OffTopic, Abuse}
EveryReply   == {Approve, Reject, EditPlan, EditDates}

TurnSymmetry == Permutations(Turn)
=============================================================================
