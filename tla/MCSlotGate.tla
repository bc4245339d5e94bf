----------------------------- MODULE MCSlotGate -----------------------------
(***************************************************************************)
(* SlotGate with dates one to three and trips of two days at most.         *)
(***************************************************************************)
EXTENDS SlotGate, TLC

Trip(depart, return) ==
    "origin" :> "given" @@ "depart" :> depart @@ "return" :> return
    @@ "lodging" :> "need" @@ "intent" :> "booking"

Parts == {<<>>, "origin" :> "given" @@ "depart" :> 2, "return" :> 3, "return" :> 1,
          "depart" :> NoDate @@ "hint" :> 3, "lodging" :> "need" @@ "intent" :> "advice",
          "intent" :> "booking", "rider" :> "given"}

Says(patch, delegates) == [patch |-> patch, delegates |-> delegates]

MCMessages ==
    {Says(patch, FALSE) : patch \in Parts \cup {Trip(1, 2), Trip(1, 3), Trip(3, 1), Trip(1, NoDate)}}
    \cup {Says(patch, TRUE) : patch \in {<<>>, "intent" :> "booking", "return" :> 1,
                                         "lodging" :> "need" @@ "hint" :> 1}}

MCEdits == {<<>>, "return" :> 2, "depart" :> 3, "depart" :> NoDate, "intent" :> "booking", "hint" :> 2}
=============================================================================
