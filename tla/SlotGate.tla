------------------------------ MODULE SlotGate ------------------------------
(***************************************************************************)
(* The information gate (app/policy/slots.py with the nodes intake, ask,   *)
(* slot_validate, assume_fallback, plan_finalize and apply_edit): what the *)
(* traveller has said, what is still asked, what is assumed instead, and   *)
(* how long the trip that reaches the preview is.                          *)
(*   slots    what is known: origin stands for every required slot without *)
(*            a rule of its own (origin_address, destination, travelers)   *)
(*   rounds   questions asked so far; never reset                          *)
(*   missing  what slot_validate reported last                             *)
(*   derived  derived_slots["trip_days"], 0 when there is none             *)
(*   shown    the assumptions that will head the preview                   *)
(*   failed   the last message was not understood (the model call failed)  *)
(*   refused  the scope verdict in force                                   *)
(*   days     length of the plan under preview                             *)
(* A date is the number of its day; NoDate is a text no date can be read   *)
(* from, a slot's default among them.                                      *)
(***************************************************************************)
EXTENDS Integers, FiniteSets, FiniteSetsExt

CONSTANTS MaxRounds,    \* settings.question_max_rounds
          MaxTripDays,  \* MAX_TRIP_DAYS
          Messages,     \* what may be said: [patch, delegates]
          Edits,        \* slot patches of an edit at the preview
          MaxMessages   \* messages of one session (bounds the model only)

VARIABLES pc, input, said, slots, rounds, missing, derived, shown, failed, refused, days

vars == <<pc, input, said, slots, rounds, missing, derived, shown, failed, refused, days>>

Always == {"origin", "depart", "return", "lodging", "intent"}
Conditional == {"area", "rider"}
Optional == {"hint"}
Slots == Always \cup Conditional \cup Optional
NoDate == 0

Default(s) == IF s \in {"depart", "return", "hint"} THEN NoDate ELSE "default"
Missing(s) == [value |-> Default(s), status |-> "missing"]
Filled(value) == [value |-> value, status |-> "filled"]
Declined(s) == [value |-> Default(s), status |-> "declined"]

Resolved(table, s) == table[s].status # "missing"
Readable(table, s) == Resolved(table, s) /\ table[s].value # NoDate

Nothing == [patch |-> <<>>, delegates |-> FALSE]

(* What intake makes of a message: known slots, and dates and durations    *)
(* that are numbers (normalise_slot_value).                                *)
Sayable(patch) ==
    /\ DOMAIN patch \subseteq Slots
    /\ \A s \in DOMAIN patch : s \in {"depart", "return", "hint"} => patch[s] \in Nat

ASSUME BudgetAssumption ==
    MaxRounds \in Nat /\ MaxMessages \in Nat /\ MaxTripDays \in Nat \ {0}

ASSUME InputAssumption ==
    /\ \A m \in Messages : Sayable(m.patch) /\ m.delegates \in BOOLEAN
    /\ \A patch \in Edits : Sayable(patch)

Init ==
    /\ pc = "idle" /\ input = Nothing /\ said = 0
    /\ slots = [s \in Slots |-> Missing(s)]
    /\ rounds = 0 /\ missing = {} /\ derived = 0 /\ shown = {}
    /\ failed = FALSE /\ refused = FALSE /\ days = 0

-----------------------------------------------------------------------------
(* The rules.                                                              *)

(* active_required, by the values of the two slots conditions are on.      *)
Required(lodging, intent) ==
    Always \cup (IF lodging = "need" THEN {"area"} ELSE {})
           \cup (IF intent = "booking" THEN {"rider"} ELSE {})

(* context_from_slots, when the traveller delegates, knows the lodging and *)
(* finds all that the registry requires; _slot_context, at the gate, does  *)
(* not know it and never finds the lodging's area.                         *)
FaultyRequiredAtIntake(table) == Always  \* conditions are looked up under other names

RequiredAtIntake(table) == Required(table["lodging"].value, table["intent"].value)
RequiredAtGate(table) == Required("", table["intent"].value)

Unresolved(table, required) == {s \in required : ~Resolved(table, s)}

(* derive_trip_days, and the stated duration where the dates give none.    *)
Dated(table) == Readable(table, "depart") /\ Readable(table, "return")
Span(table) == table["return"].value - table["depart"].value + 1
Clash(table) == Dated(table) /\ Span(table) <= 0

Stated(table) ==
    IF Dated(table) THEN Span(table)
    ELSE IF Readable(table, "hint") THEN table["hint"].value ELSE 0

FaultyTripDays(table) == Stated(table)  \* not trimmed

TripDays(table) == Min({Stated(table), MaxTripDays})

(* A patch is merged into the table, never replaces it.                    *)
FaultyMerged(table, patch) ==  \* the table is replaced
    [s \in Slots |-> IF s \in DOMAIN patch THEN Filled(patch[s]) ELSE Missing(s)]

Merged(table, patch) ==
    [s \in Slots |-> IF s \in DOMAIN patch THEN Filled(patch[s]) ELSE table[s]]

Declining(table, which) ==
    [s \in Slots |-> IF s \in which THEN Declined(s) ELSE table[s]]

-----------------------------------------------------------------------------
(* The nodes.                                                              *)

(* A new turn of the session: start, send.                                 *)
Say ==
    /\ pc = "idle" /\ said < MaxMessages
    /\ \E m \in Messages : input' = m
    /\ said' = said + 1
    /\ pc' = "intake"
    /\ UNCHANGED <<slots, rounds, missing, derived, shown, failed, refused, days>>

(* ask, answered.                                                          *)
Answer ==
    /\ pc = "ask" /\ said < MaxMessages
    /\ \E m \in Messages : input' = m
    /\ said' = said + 1
    /\ rounds' = rounds + 1
    /\ pc' = "intake"
    /\ UNCHANGED <<slots, missing, derived, shown, failed, refused, days>>

(* intake, understood and in scope: the patch is merged, and a traveller   *)
(* who delegates declines whatever is left.                                *)
Delegated(table) == IF input.delegates THEN Unresolved(table, RequiredAtIntake(table)) ELSE {}

Understand ==
    /\ pc = "intake"
    /\ LET table == Merged(slots, input.patch)
       IN  /\ slots' = Declining(table, Delegated(table))
           /\ shown' = shown \cup Delegated(table)
    /\ failed' = FALSE /\ refused' = FALSE
    /\ pc' = "validate"
    /\ UNCHANGED <<input, said, rounds, missing, derived, days>>

(* intake, the model call failed: nothing changes, and the verdict of the  *)
(* message before decides whether the graph goes on.                       *)
Misunderstand ==
    /\ pc = "intake"
    /\ failed' = TRUE
    /\ pc' = IF refused THEN "idle" ELSE "validate"
    /\ UNCHANGED <<input, said, slots, rounds, missing, derived, shown, refused, days>>

(* intake, out of scope: refuse ends the turn.                             *)
Refuse ==
    /\ pc = "intake"
    /\ refused' = TRUE /\ failed' = FALSE
    /\ pc' = "idle"
    /\ UNCHANGED <<input, said, slots, rounds, missing, derived, shown, days>>

(* slot_validate and route_after_slots.  Dates that clash are reported as  *)
(* a missing return date and hide whatever else is missing.  The notes, if *)
(* there are any, replace the assumptions made so far.                     *)
Notes(unresolved, spent) ==
    IF Clash(slots) THEN {"clash"}
    ELSE (IF Stated(slots) > MaxTripDays THEN {"trimmed"} ELSE {})
         \cup (IF spent THEN unresolved ELSE {})
         \cup (IF spent /\ unresolved # {} /\ TripDays(slots) = 0 THEN {"one day"} ELSE {})

FaultySlotValidate ==  \* a length once found is kept
    /\ pc = "validate"
    /\ LET unresolved == Unresolved(slots, RequiredAtGate(slots))
       IN  /\ missing' = IF Clash(slots) THEN {"return"} ELSE unresolved
           /\ derived' = IF derived = 0 /\ ~Clash(slots) THEN TripDays(slots) ELSE derived
           /\ shown' = shown \cup Notes(unresolved, rounds >= MaxRounds)
    /\ pc' = IF missing' = {} THEN "plan" ELSE IF rounds >= MaxRounds THEN "assume" ELSE "ask"
    /\ UNCHANGED <<input, said, slots, rounds, failed, refused, days>>

SlotValidate ==
    /\ pc = "validate"
    /\ LET unresolved == Unresolved(slots, RequiredAtGate(slots))
           spent == rounds >= MaxRounds
           notes == Notes(unresolved, spent)
       IN  /\ missing' = IF Clash(slots) THEN {"return"} ELSE unresolved
           /\ derived' = IF Clash(slots) THEN derived
                         ELSE IF "one day" \in notes THEN 1
                         ELSE IF TripDays(slots) = 0 THEN derived ELSE TripDays(slots)
           /\ shown' = IF notes = {} THEN shown ELSE notes
           /\ pc' = IF missing' = {} THEN "plan" ELSE IF spent THEN "assume" ELSE "ask"
    /\ UNCHANGED <<input, said, slots, rounds, failed, refused, days>>

(* assume_fallback: what is reported missing, and is, gets its default.    *)
FaultyAssumeFallback ==  \* the gate opens, nothing is filled in
    /\ pc = "assume"
    /\ shown' = shown \cup missing
    /\ missing' = {}
    /\ pc' = "plan"
    /\ UNCHANGED <<input, said, slots, rounds, derived, failed, refused, days>>

AssumeFallback ==
    /\ pc = "assume"
    /\ LET assumed == {s \in missing : ~Resolved(slots, s)}
       IN  /\ slots' = Declining(slots, assumed)
           /\ shown' = shown \cup assumed
    /\ missing' = {}
    /\ pc' = "plan"
    /\ UNCHANGED <<input, said, rounds, derived, failed, refused, days>>

(* plan_draft to preview_render: the length comes from derived_slots, and  *)
(* the optional slots nobody spoke of join the assumptions.                *)
Plan ==
    /\ pc = "plan"
    /\ days' = IF derived = 0 THEN 1 ELSE derived
    /\ shown' = shown \cup {s \in Optional : ~Resolved(slots, s)}
    /\ pc' = "gate"
    /\ UNCHANGED <<input, said, slots, rounds, missing, derived, failed, refused>>

(* The preview is edited: values as they come, assumptions start anew, and *)
(* the gate is asked again.                                                *)
ApplyEdit ==
    /\ pc = "gate" /\ said < MaxMessages
    /\ \E patch \in Edits : slots' = Merged(slots, patch)
    /\ said' = said + 1
    /\ shown' = {}
    /\ pc' = "validate"
    /\ UNCHANGED <<input, rounds, missing, derived, failed, refused, days>>

(* Approved and carried out, or rejected: the turn ends.                   *)
EndTurn ==
    /\ pc = "gate"
    /\ pc' = "idle"
    /\ UNCHANGED <<input, said, slots, rounds, missing, derived, shown, failed, refused, days>>

Next ==
    \/ Say \/ Answer \/ Understand \/ Misunderstand \/ Refuse
    \/ SlotValidate \/ AssumeFallback \/ Plan \/ ApplyEdit \/ EndTurn

Spec == Init /\ [][Next]_vars

-----------------------------------------------------------------------------
(* Type invariant: only required slots are ever declined, dates and        *)
(* durations are numbers, and the length is one that can be planned.       *)
TypeOK ==
    /\ pc \in {"idle", "intake", "validate", "ask", "assume", "plan", "gate"}
    /\ input \in Messages \cup {Nothing} /\ said \in 0..MaxMessages
    /\ DOMAIN slots = Slots
    /\ \A s \in Slots :
           /\ slots[s].status \in {"missing", "filled", "declined"}
           /\ slots[s].status # "filled" => slots[s].value = Default(s)
           /\ slots[s].status = "declined" => s \notin Optional
    /\ rounds \in 0..MaxRounds
    /\ missing \subseteq Always \cup Conditional
    /\ derived \in 0..MaxTripDays /\ days \in 0..MaxTripDays
    /\ shown \subseteq Slots \cup {"clash", "trimmed", "one day"}
    /\ failed \in BOOLEAN /\ refused \in BOOLEAN

(* No preview without what the registry requires: each slot was given, was *)
(* declined by a traveller who delegated, or was assumed after the last    *)
(* question.  There are two ways past.  The lodging's area is required as  *)
(* soon as lodging is needed, but the gate, whose context lacks the        *)
(* lodging, neither asks for it nor assumes it.  And dates that clash after*)
(* the last question hide whatever is unresolved; then the clash heads the *)
(* preview (slots.py SLOT_REGISTRY, validate, planning.py _slot_context,   *)
(* slot_validate, assume_fallback).                                        *)
GateOpensComplete ==
    pc = "gate" =>
        \/ Unresolved(slots, RequiredAtIntake(slots)) \subseteq {"area"}
        \/ Clash(slots) /\ rounds = MaxRounds /\ "clash" \in shown

(* Who says "you decide", and is understood, has settled everything: the   *)
(* gate finds nothing to ask, except about dates that contradict each      *)
(* other.  Two evaluations of what is required have to agree for this: the *)
(* one that declines knows of the lodging, the one that asks does not      *)
(* (slots.py decline_remaining, planning.py _slot_context).                *)
SettlesAll ==
    pc = "intake" /\ pc' = "validate" /\ input.delegates /\ ~failed' =>
        Unresolved(slots', RequiredAtGate(slots')) = {}

DelegationSettlesAll == [][SettlesAll]_vars

(* The plan under preview is as long as the dates it is shown with, through*)
(* answers, edits and later turns, and who asked for more days than can be *)
(* planned is told (slots.py derive_trip_days).                            *)
LengthMatchesDates ==
    pc = "gate" /\ Dated(slots) /\ ~Clash(slots) =>
        /\ days = Min({Span(slots), MaxTripDays})
        /\ Span(slots) > MaxTripDays => "trimmed" \in shown

(* What the traveller said stays said: it changes only by a message or an  *)
(* edit that names it, and never back to missing or to an assumption       *)
(* (intake.py _merge_slots, slots.py apply_defaults, decline_remaining).   *)
KeepsAnswers ==
    \A s \in Slots : slots[s].status = "filled" =>
        /\ slots'[s].status = "filled"
        /\ slots'[s] # slots[s] => pc = "gate" \/ s \in DOMAIN input.patch

AnswersAreKept == [][KeepsAnswers]_vars
=============================================================================
