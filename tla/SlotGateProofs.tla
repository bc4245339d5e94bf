--------------------------- MODULE SlotGateProofs ---------------------------
(***************************************************************************)
(* Theorems of SlotGate, for any messages and edits, budget of questions   *)
(* and length of trip.  The inductive invariant Inv carries what           *)
(* slot_validate found over to the preview, through assume_fallback: what  *)
(* is filled in there is neither a date nor an answer.                     *)
(***************************************************************************)
EXTENDS SlotGate, TLAPS

Numbers == {"depart", "return", "hint"}

\* A slot table.
TableOK(table) ==
    /\ table = [s \in Slots |-> table[s]]
    /\ \A s \in Slots :
           /\ table[s] = [value |-> table[s].value, status |-> table[s].status]
           /\ table[s].status \in {"missing", "filled", "declined"}
           /\ table[s].status # "filled" => table[s].value = Default(s)
           /\ table[s].status = "declined" => s \notin Optional
    /\ \A s \in Numbers : table[s].value \in Nat

\* Questions are asked within the budget, and assumed is only past it.
RoundsInv ==
    /\ pc = "ask" => rounds < MaxRounds
    /\ pc = "assume" => rounds = MaxRounds
    /\ pc = "intake" => input \in Messages

\* The length found is that of the dates.
LengthHolds(table, length, told) ==
    Dated(table) /\ ~Clash(table) =>
        /\ length = Min({Span(table), MaxTripDays})
        /\ Span(table) > MaxTripDays => "trimmed" \in told

\* What is reported missing is what is, or the clash that hides it.
MissingHolds ==
    IF Clash(slots) THEN missing = {"return"} /\ "clash" \in shown
    ELSE missing = Unresolved(slots, RequiredAtGate(slots))

LengthInv ==
    /\ pc \in {"assume", "plan"} => LengthHolds(slots, derived, shown)
    /\ pc = "gate" => LengthHolds(slots, days, shown)

CompleteInv ==
    /\ pc = "assume" => MissingHolds
    /\ pc \in {"plan", "gate"} =>
           \/ Unresolved(slots, RequiredAtGate(slots)) = {}
           \/ Clash(slots) /\ rounds = MaxRounds /\ "clash" \in shown

Inv == TypeOK /\ TableOK(slots) /\ RoundsInv /\ LengthInv /\ CompleteInv

-----------------------------------------------------------------------------
(* Tables.                                                                 *)

\* The least of two numbers.
LEMMA LeastOfTwo ==
  ASSUME NEW a \in Int, NEW b \in Int
  PROVE  Min({a, b}) = IF a <= b THEN a ELSE b
<1>1. \E x \in {a, b} : \A y \in {a, b} : x <= y
  OBVIOUS
<1>2. Min({a, b}) \in {a, b} /\ \A y \in {a, b} : Min({a, b}) <= y
  BY <1>1 DEF Min
<1> QED  BY <1>2

\* A message or an edit leaves a table a table.
LEMMA MergedIsTable ==
  ASSUME NEW table, TableOK(table), NEW patch, Sayable(patch)
  PROVE  TableOK(Merged(table, patch))
<1> DEFINE new == Merged(table, patch)
<1>1. /\ new = [s \in Slots |-> new[s]]
      /\ \A s \in Slots : new[s] = IF s \in DOMAIN patch THEN Filled(patch[s]) ELSE table[s]
  BY DEF Merged
<1>2. Numbers \subseteq Slots
  BY DEF Numbers, Slots, Always, Optional
<1> HIDE DEF new
<1>3. ASSUME NEW s \in Slots
      PROVE  /\ new[s] = [value |-> new[s].value, status |-> new[s].status]
             /\ new[s].status \in {"missing", "filled", "declined"}
             /\ new[s].status # "filled" => new[s].value = Default(s)
             /\ new[s].status = "declined" => s \notin Optional
             /\ s \in Numbers => new[s].value \in Nat
  <2>1. CASE s \in DOMAIN patch
    BY <1>1, <2>1 DEF Filled, Sayable, Numbers
  <2>2. CASE s \notin DOMAIN patch
    BY <1>1, <2>2 DEF TableOK
  <2> QED  BY <2>1, <2>2
<1> QED  BY <1>1, <1>2, <1>3 DEF TableOK, new

\* So does declining slots that are required.
LEMMA DecliningIsTable ==
  ASSUME NEW table, TableOK(table), NEW which, which \cap Optional = {}
  PROVE  TableOK(Declining(table, which))
<1> DEFINE new == Declining(table, which)
<1>1. /\ new = [s \in Slots |-> new[s]]
      /\ \A s \in Slots : new[s] = IF s \in which THEN Declined(s) ELSE table[s]
  BY DEF Declining
<1>2. Numbers \subseteq Slots
  BY DEF Numbers, Slots, Always, Optional
<1> HIDE DEF new
<1>3. ASSUME NEW s \in Slots
      PROVE  /\ new[s] = [value |-> new[s].value, status |-> new[s].status]
             /\ new[s].status \in {"missing", "filled", "declined"}
             /\ new[s].status # "filled" => new[s].value = Default(s)
             /\ new[s].status = "declined" => s \notin Optional
             /\ s \in Numbers => new[s].value \in Nat
  <2>1. CASE s \in which
    BY <1>1, <2>1 DEF Declined, Default, NoDate, Numbers
  <2>2. CASE s \notin which
    BY <1>1, <2>2 DEF TableOK
  <2> QED  BY <2>1, <2>2
<1> QED  BY <1>1, <1>2, <1>3 DEF TableOK, new

\* What is required is never optional.
LEMMA RequiredIsAsked ==
  ASSUME NEW lodging, NEW intent
  PROVE  /\ Required(lodging, intent) \subseteq Always \cup Conditional
         /\ Required(lodging, intent) \subseteq Slots
         /\ Required(lodging, intent) \cap Optional = {}
         /\ Required("", intent) \subseteq Required(lodging, intent)
BY DEF Required, Always, Conditional, Optional, Slots

\* Declining what is unresolved adds no date and takes none away, and changes
\* neither what is required nor an answer.
LEMMA DecliningTouchesNoAnswer ==
  ASSUME NEW table, TableOK(table), NEW which, which \subseteq Slots,
         \A s \in which : ~Resolved(table, s)
  PROVE  LET new == Declining(table, which)
         IN  /\ Dated(new) <=> Dated(table)
             /\ Dated(table) => Span(new) = Span(table)
             /\ Clash(new) <=> Clash(table)
             /\ new["intent"].value = table["intent"].value
             /\ \A s \in Slots : Resolved(new, s) <=> s \in which \/ Resolved(table, s)
             /\ \A s \in Slots : Resolved(table, s) => new[s] = table[s]
<1> DEFINE new == Declining(table, which)
<1>1. \A s \in Slots : new[s] = IF s \in which THEN Declined(s) ELSE table[s]
  BY DEF Declining
<1>2. {"depart", "return", "intent"} \subseteq Slots
  BY DEF Slots, Always
<1> HIDE DEF new
<1>3. ASSUME NEW s \in Slots
      PROVE  /\ Resolved(new, s) <=> s \in which \/ Resolved(table, s)
             /\ Resolved(table, s) => new[s] = table[s]
             /\ new[s].value = table[s].value
  <2>1. CASE s \in which
    <3>1. new[s] = Declined(s) /\ ~Resolved(table, s)
      BY <1>1, <2>1
    <3>2. new[s].status = "declined" /\ new[s].value = Default(s)
      BY <3>1 DEF Declined
    <3>3. table[s].value = Default(s)
      BY <3>1 DEF Resolved, TableOK
    <3> QED  BY <2>1, <3>1, <3>2, <3>3 DEF Resolved
  <2>2. CASE s \notin which
    <3>1. new[s] = table[s]
      BY <1>1, <2>2
    <3> QED  BY <2>2, <3>1 DEF Resolved
  <2> QED  BY <2>1, <2>2
<1>4. \A s \in Slots : Resolved(table, s) => new[s] = table[s]
  BY <1>3
<1>5. \A s \in Slots : new[s].value = table[s].value
  BY <1>3
<1>6. ASSUME NEW s \in {"depart", "return"}
      PROVE  Readable(new, s) <=> Readable(table, s)
  <2>1. s \in Slots
    BY <1>2
  <2>2. CASE s \in which
    <3>1. table[s].value = NoDate
      BY <2>1, <2>2 DEF Resolved, TableOK, Default
    <3> QED  BY <1>5, <2>1, <3>1 DEF Readable
  <2>3. CASE s \notin which
    BY <1>3, <2>1, <2>3 DEF Readable
  <2> QED  BY <2>2, <2>3
<1>7. Dated(new) <=> Dated(table)
  BY <1>6 DEF Dated
<1>8. Span(new) = Span(table)
  BY <1>2, <1>5 DEF Span
<1>9. Clash(new) <=> Clash(table)
  BY <1>7, <1>8 DEF Clash
<1>10. \A s \in Slots : Resolved(new, s) <=> s \in which \/ Resolved(table, s)
  BY <1>3
<1>11. new["intent"].value = table["intent"].value
  BY <1>2, <1>5
<1> QED  BY <1>4, <1>7, <1>8, <1>9, <1>10, <1>11 DEF new

\* Unless the dates clash, the length they give can be planned.
LEMMA LengthCanBePlanned ==
  ASSUME TableOK(slots), ~Clash(slots)
  PROVE  /\ TripDays(slots) \in 0..MaxTripDays
         /\ Dated(slots) => /\ Stated(slots) = Span(slots)
                            /\ TripDays(slots) = Min({Span(slots), MaxTripDays})
                            /\ TripDays(slots) # 0
<1>1. /\ slots["depart"].value \in Nat
      /\ slots["return"].value \in Nat
      /\ slots["hint"].value \in Nat
  BY DEF TableOK, Numbers
<1>2. Span(slots) \in Int /\ (Dated(slots) => Span(slots) > 0)
  BY <1>1 DEF Span, Clash
<1>3. Stated(slots) \in Nat /\ (Dated(slots) => Stated(slots) = Span(slots))
  BY <1>1, <1>2 DEF Stated
<1>4. MaxTripDays \in Nat /\ MaxTripDays > 0
  BY BudgetAssumption
<1>5. TripDays(slots) = IF Stated(slots) <= MaxTripDays THEN Stated(slots) ELSE MaxTripDays
  BY <1>3, <1>4, LeastOfTwo DEF TripDays
<1>6. TripDays(slots) \in 0..MaxTripDays
  BY <1>3, <1>4, <1>5
<1>7. ASSUME Dated(slots)
      PROVE  TripDays(slots) = Min({Span(slots), MaxTripDays}) /\ TripDays(slots) # 0
  BY <1>2, <1>3, <1>4, <1>5, <1>7 DEF TripDays
<1> QED  BY <1>3, <1>6, <1>7

-----------------------------------------------------------------------------
(* The invariant.                                                          *)

LEMMA InitInv == Init => Inv
<1> SUFFICES ASSUME Init  PROVE Inv
  OBVIOUS
<1>1. /\ slots = [s \in Slots |-> slots[s]]
      /\ \A s \in Slots : slots[s] = [value |-> Default(s), status |-> "missing"]
  BY DEF Init, Missing
<1>2. \A s \in Numbers : s \in Slots /\ Default(s) \in Nat
  BY DEF Numbers, Slots, Always, Optional, Default, NoDate
<1>3. TableOK(slots)
  BY <1>1, <1>2 DEF TableOK
<1>4. TypeOK
  <2>1. DOMAIN slots = Slots
    BY DEF Init
  <2>2. \A s \in Slots : slots[s].status = "missing" /\ slots[s].value = Default(s)
    BY <1>1
  <2>3. 0 \in 0..MaxRounds /\ 0 \in 0..MaxMessages /\ 0 \in 0..MaxTripDays
    BY BudgetAssumption
  <2> QED  BY <2>1, <2>2, <2>3 DEF Init, TypeOK
<1>5. RoundsInv /\ LengthInv /\ CompleteInv
  BY DEF Init, RoundsInv, LengthInv, CompleteInv
<1> QED  BY <1>3, <1>4, <1>5 DEF Inv

\* What is said, asked or refused touches no slot and no length.
LEMMA TalkKeeps ==
  ASSUME Inv, Say \/ Answer \/ Misunderstand \/ Refuse \/ EndTurn \/ UNCHANGED vars
  PROVE  Inv'
<1>1. slots' = slots
  BY DEF Say, Answer, Misunderstand, Refuse, EndTurn, vars
<1>2. TableOK(slots')
  BY <1>1 DEF Inv
<1>3. /\ Dated(slots') <=> Dated(slots)
      /\ Span(slots') = Span(slots)
      /\ Clash(slots') <=> Clash(slots)
      /\ Unresolved(slots', RequiredAtGate(slots')) = Unresolved(slots, RequiredAtGate(slots))
  BY <1>1
<1>4. TypeOK'
  <2>1. said' \in 0..MaxMessages
    <3>1. said \in 0..MaxMessages /\ MaxMessages \in Nat
      BY BudgetAssumption DEF Inv, TypeOK
    <3>2. said' = said \/ (said < MaxMessages /\ said' = said + 1)
      BY DEF Say, Answer, Misunderstand, Refuse, EndTurn, vars
    <3> QED  BY <3>1, <3>2
  <2>2. rounds' \in 0..MaxRounds
    <3>1. rounds \in 0..MaxRounds /\ MaxRounds \in Nat
      BY BudgetAssumption DEF Inv, TypeOK
    <3>2. rounds' = rounds \/ (rounds < MaxRounds /\ rounds' = rounds + 1)
      BY DEF Inv, RoundsInv, Say, Answer, Misunderstand, Refuse, EndTurn, vars
    <3> QED  BY <3>1, <3>2
  <2>3. failed' \in BOOLEAN /\ refused' \in BOOLEAN
    BY Zenon DEF Inv, TypeOK, Say, Answer, Misunderstand, Refuse, EndTurn, vars
  <2>4. input' \in Messages \cup {Nothing}
    BY DEF Inv, TypeOK, Say, Answer, Misunderstand, Refuse, EndTurn, vars
  <2>5. pc' \in {"idle", "intake", "validate", "ask", "assume", "plan", "gate"}
    BY DEF Inv, TypeOK, Say, Answer, Misunderstand, Refuse, EndTurn, vars
  <2>6. UNCHANGED <<slots, missing, derived, shown, days>>
    BY DEF Say, Answer, Misunderstand, Refuse, EndTurn, vars
  <2> QED  BY <2>1, <2>2, <2>3, <2>4, <2>5, <2>6 DEF Inv, TypeOK
<1>5. RoundsInv'
  BY DEF Inv, RoundsInv, Say, Answer, Misunderstand, Refuse, EndTurn, vars
<1>6. CASE UNCHANGED vars
  BY <1>1, <1>2, <1>4, <1>5, <1>6 DEF Inv, LengthInv, CompleteInv, LengthHolds, MissingHolds, vars
<1>7. CASE Say \/ Answer \/ Misunderstand \/ Refuse \/ EndTurn
  <2>1. pc' \notin {"assume", "plan", "gate"}
    BY <1>7 DEF Say, Answer, Misunderstand, Refuse, EndTurn
  <2> QED  BY <1>2, <1>4, <1>5, <2>1 DEF Inv, LengthInv, CompleteInv
<1> QED  BY <1>6, <1>7

\* A message that is understood leaves a table.
LEMMA UnderstandKeeps ==
  ASSUME Inv, Understand
  PROVE  Inv'
<1> DEFINE table == Merged(slots, input.patch)
<1>1. TableOK(table)
  BY MergedIsTable, InputAssumption DEF Understand, Inv, RoundsInv
<1>2. Delegated(table) \subseteq Slots /\ Delegated(table) \cap Optional = {}
  BY RequiredIsAsked DEF Delegated, Unresolved, RequiredAtIntake
<1> HIDE DEF table
<1>3. slots' = Declining(table, Delegated(table)) /\ shown' = shown \cup Delegated(table)
  BY DEF Understand, table
<1>4. TableOK(slots')
  BY <1>1, <1>2, <1>3, DecliningIsTable
<1>5. DOMAIN slots' = Slots
  BY <1>4 DEF TableOK
<1>6. TypeOK'
  BY <1>2, <1>3, <1>4, <1>5 DEF Understand, Inv, TypeOK, TableOK
<1>7. RoundsInv' /\ LengthInv' /\ CompleteInv'
  BY DEF Understand, RoundsInv, LengthInv, CompleteInv
<1> QED  BY <1>4, <1>6, <1>7 DEF Inv

\* slot_validate finds the length of the dates, and all that is missing.
LEMMA ValidateKeeps ==
  ASSUME Inv, SlotValidate
  PROVE  Inv'
<1> DEFINE unresolved == Unresolved(slots, RequiredAtGate(slots))
           spent == rounds >= MaxRounds
           notes == Notes(unresolved, spent)
<1>1. unresolved \subseteq Always \cup Conditional /\ unresolved \subseteq Slots
  BY RequiredIsAsked DEF Unresolved, RequiredAtGate
<1>2. /\ missing' = IF Clash(slots) THEN {"return"} ELSE unresolved
      /\ derived' = IF Clash(slots) THEN derived
                    ELSE IF "one day" \in notes THEN 1
                    ELSE IF TripDays(slots) = 0 THEN derived ELSE TripDays(slots)
      /\ shown' = IF notes = {} THEN shown ELSE notes
      /\ pc' = IF missing' = {} THEN "plan" ELSE IF spent THEN "assume" ELSE "ask"
      /\ UNCHANGED <<input, said, slots, rounds, failed, refused, days>>
  BY DEF SlotValidate
<1>3. /\ Clash(slots) => "clash" \in notes
      /\ ~Clash(slots) /\ Stated(slots) > MaxTripDays => "trimmed" \in notes
      /\ "one day" \in notes /\ ~Clash(slots) => "one day" \in unresolved \/ TripDays(slots) = 0
      /\ notes \subseteq Slots \cup {"clash", "trimmed", "one day"}
  BY <1>1 DEF Notes
<1>4. "one day" \notin unresolved
  BY <1>1 DEF Slots, Always, Conditional, Optional
<1> HIDE DEF unresolved, spent, notes
<1>5. TableOK(slots')
  BY <1>2 DEF Inv
<1>6. rounds \in 0..MaxRounds /\ MaxRounds \in Nat /\ MaxTripDays \in Nat \ {0}
  BY BudgetAssumption DEF Inv, TypeOK
<1>7. derived' \in 0..MaxTripDays
  <2>1. derived \in 0..MaxTripDays /\ 1 \in 0..MaxTripDays
    <3>1. derived \in 0..MaxTripDays
      BY DEF Inv, TypeOK
    <3> QED  BY <1>6, <3>1
  <2>2. ~Clash(slots) => TripDays(slots) \in 0..MaxTripDays
    BY LengthCanBePlanned DEF Inv
  <2> QED  BY <1>2, <2>1, <2>2
<1>8. TypeOK'
  <2>1. missing' \subseteq Always \cup Conditional
    BY <1>1, <1>2 DEF Always
  <2>2. shown' \subseteq Slots \cup {"clash", "trimmed", "one day"}
    BY <1>2, <1>3 DEF Inv, TypeOK
  <2>3. pc' \in {"plan", "assume", "ask"}
    BY <1>2
  <2> QED  BY <1>2, <1>7, <2>1, <2>2, <2>3 DEF Inv, TypeOK
<1>9. RoundsInv'
  <2>1. /\ pc' = "assume" => rounds >= MaxRounds
        /\ pc' = "ask" => ~(rounds >= MaxRounds)
        /\ pc' \in {"plan", "assume", "ask"}
    BY <1>2 DEF spent
  <2>2. rounds' = rounds
    BY <1>2
  <2>3. /\ pc' = "assume" => rounds' = MaxRounds
        /\ pc' = "ask" => rounds' < MaxRounds
    BY <1>6, <2>1, <2>2
  <2> QED  BY <2>1, <2>3 DEF RoundsInv
<1>10. LengthHolds(slots, derived', shown')
  BY <1>2, <1>3, <1>4, LengthCanBePlanned DEF LengthHolds, Inv
<1>11. LengthInv'
  BY <1>2, <1>10 DEF LengthInv, LengthHolds
<1>12. CompleteInv'
  <2>1. Clash(slots) => "clash" \in shown'
    BY <1>2, <1>3
  <2>2. slots' = slots
    BY <1>2
  <2>3. missing' = {} => unresolved = {}
    BY <1>2
  <2>4. CASE pc' = "plan"
    <3>1. missing' = {}
      BY <1>2, <2>4
    <3> QED  BY <2>2, <2>3, <2>4, <3>1 DEF CompleteInv, unresolved
  <2>5. CASE pc' # "plan"
    BY <1>2, <2>1, <2>2, <2>5 DEF CompleteInv, MissingHolds, unresolved
  <2> QED  BY <2>4, <2>5
<1> QED  BY <1>5, <1>8, <1>9, <1>11, <1>12 DEF Inv

\* What is filled in by assumption leaves no gap, and no date.
LEMMA AssumeKeeps ==
  ASSUME Inv, AssumeFallback
  PROVE  Inv'
<1> DEFINE assumed == {s \in missing : ~Resolved(slots, s)}
<1>1. /\ slots' = Declining(slots, assumed)
      /\ shown' = shown \cup assumed
      /\ missing' = {} /\ pc' = "plan" /\ pc = "assume"
      /\ UNCHANGED <<input, said, rounds, derived, failed, refused, days>>
  BY DEF AssumeFallback
<1>2. /\ assumed \subseteq Slots /\ assumed \cap Optional = {}
      /\ \A s \in assumed : s \in missing /\ ~Resolved(slots, s)
      /\ \A s \in missing : ~Resolved(slots, s) => s \in assumed
  BY DEF Inv, TypeOK, Slots, Always, Conditional, Optional
<1> HIDE DEF assumed
<1>3. TableOK(slots) /\ MissingHolds /\ LengthHolds(slots, derived, shown) /\ rounds = MaxRounds
  BY <1>1 DEF Inv, CompleteInv, LengthInv, RoundsInv
<1>4. TableOK(slots')
  BY <1>1, <1>2, <1>3, DecliningIsTable
<1>5. /\ Dated(slots') <=> Dated(slots)
      /\ Dated(slots) => Span(slots') = Span(slots)
      /\ Clash(slots') <=> Clash(slots)
      /\ slots'["intent"].value = slots["intent"].value
      /\ \A s \in Slots : Resolved(slots', s) <=> s \in assumed \/ Resolved(slots, s)
  BY <1>1, <1>2, <1>3, DecliningTouchesNoAnswer
<1>6. TypeOK'
  <2>1. DOMAIN slots' = Slots
    BY <1>4 DEF TableOK
  <2>2. shown' \subseteq Slots \cup {"clash", "trimmed", "one day"}
    BY <1>1, <1>2 DEF Inv, TypeOK
  <2> QED  BY <1>1, <1>4, <2>1, <2>2 DEF Inv, TypeOK, TableOK
<1>7. RoundsInv'
  BY <1>1 DEF RoundsInv
<1>8. LengthHolds(slots', derived', shown')
  BY <1>1, <1>3, <1>5 DEF LengthHolds
<1>9. LengthInv'
  BY <1>1, <1>8 DEF LengthInv
<1>10. CompleteInv'
  <2>1. CASE Clash(slots)
    BY <1>1, <1>3, <1>5, <2>1 DEF CompleteInv, MissingHolds
  <2>2. CASE ~Clash(slots)
    <3>1. RequiredAtGate(slots') = RequiredAtGate(slots)
      BY <1>5 DEF RequiredAtGate
    <3>2. RequiredAtGate(slots) \subseteq Slots
      BY RequiredIsAsked DEF RequiredAtGate
    <3>3. missing = Unresolved(slots, RequiredAtGate(slots))
      BY <1>3, <2>2 DEF MissingHolds
    <3>4. \A s \in RequiredAtGate(slots) : Resolved(slots', s)
      BY <1>2, <1>5, <3>2, <3>3 DEF Unresolved
    <3>5. Unresolved(slots', RequiredAtGate(slots')) = {}
      BY <3>1, <3>4 DEF Unresolved
    <3> QED  BY <1>1, <3>5 DEF CompleteInv
  <2> QED  BY <2>1, <2>2
<1> QED  BY <1>4, <1>6, <1>7, <1>9, <1>10 DEF Inv

\* The preview takes the length that was found, and discloses more, not less.
LEMMA PlanKeeps ==
  ASSUME Inv, Plan
  PROVE  Inv'
<1>1. /\ pc = "plan" /\ pc' = "gate"
      /\ days' = IF derived = 0 THEN 1 ELSE derived
      /\ shown' = shown \cup {s \in Optional : ~Resolved(slots, s)}
      /\ UNCHANGED <<input, said, slots, rounds, missing, derived, failed, refused>>
  BY DEF Plan
<1>2. slots' = slots /\ rounds' = rounds /\ shown \subseteq shown'
  BY <1>1
<1>3. TypeOK'
  <2>1. days' \in 0..MaxTripDays
    <3>1. derived \in 0..MaxTripDays
      BY DEF Inv, TypeOK
    <3>2. 1 \in 0..MaxTripDays
      BY BudgetAssumption
    <3> QED  BY <1>1, <3>1, <3>2
  <2>2. shown' \subseteq Slots \cup {"clash", "trimmed", "one day"}
    BY <1>1 DEF Inv, TypeOK, Slots
  <2> QED  BY <1>1, <2>1, <2>2 DEF Inv, TypeOK
<1>4. TableOK(slots') /\ RoundsInv'
  BY <1>1, <1>2 DEF Inv, RoundsInv
<1>5. LengthHolds(slots, days', shown')
  <2>1. ASSUME Dated(slots), ~Clash(slots)
        PROVE  days' = Min({Span(slots), MaxTripDays})
    <3>1. derived = Min({Span(slots), MaxTripDays})
      BY <1>1, <2>1 DEF Inv, LengthInv, LengthHolds
    <3>2. derived = TripDays(slots) /\ TripDays(slots) # 0
      BY <2>1, <3>1, LengthCanBePlanned DEF Inv
    <3> QED  BY <1>1, <3>1, <3>2
  <2>2. LengthHolds(slots, derived, shown)
    BY <1>1 DEF Inv, LengthInv
  <2> QED  BY <1>2, <2>1, <2>2 DEF LengthHolds
<1>6. LengthInv'
  BY <1>1, <1>2, <1>5 DEF LengthInv, LengthHolds
<1>7. CompleteInv'
  BY <1>1, <1>2 DEF Inv, CompleteInv
<1> QED  BY <1>3, <1>4, <1>6, <1>7 DEF Inv

\* An edit leaves a table, and sends the plan back to be validated.
LEMMA EditKeeps ==
  ASSUME Inv, ApplyEdit
  PROVE  Inv'
<1>1. TableOK(slots')
  BY MergedIsTable, InputAssumption DEF ApplyEdit, Inv
<1>2. TypeOK'
  <2>1. said' \in 0..MaxMessages
    <3>1. said \in 0..MaxMessages /\ said < MaxMessages /\ said' = said + 1
      BY DEF Inv, TypeOK, ApplyEdit
    <3> QED  BY <3>1, BudgetAssumption
  <2>2. DOMAIN slots' = Slots
    BY <1>1 DEF TableOK
  <2> QED  BY <1>1, <2>1, <2>2 DEF ApplyEdit, Inv, TypeOK, TableOK
<1>3. RoundsInv' /\ LengthInv' /\ CompleteInv'
  BY DEF ApplyEdit, RoundsInv, LengthInv, CompleteInv
<1> QED  BY <1>1, <1>2, <1>3 DEF Inv

LEMMA NextInv == Inv /\ [Next]_vars => Inv'
BY TalkKeeps, UnderstandKeeps, ValidateKeeps, AssumeKeeps, PlanKeeps, EditKeeps DEF Next

LEMMA AlwaysInv == Spec => []Inv
BY InitInv, NextInv, PTL DEF Spec

-----------------------------------------------------------------------------
(* What no step does.                                                      *)

\* A message that delegates leaves nothing unresolved for the gate: what it
\* requires is among what was declined.
LEMMA StepSettles ==
  ASSUME Inv, [Next]_vars
  PROVE  SettlesAll
<1> SUFFICES ASSUME pc = "intake", pc' = "validate", input.delegates, ~failed'
             PROVE  Unresolved(slots', RequiredAtGate(slots')) = {}
  BY DEF SettlesAll
<1>1. Understand
  BY DEF Next, Say, Answer, Misunderstand, Refuse, SlotValidate, AssumeFallback, Plan,
         ApplyEdit, EndTurn, vars
<1> DEFINE table == Merged(slots, input.patch)
           which == Unresolved(table, RequiredAtIntake(table))
<1>2. TableOK(table)
  BY <1>1, MergedIsTable, InputAssumption DEF Understand, Inv, RoundsInv
<1>3. slots' = Declining(table, which)
  BY <1>1 DEF Understand, Delegated
<1>4. RequiredAtGate(table) \subseteq RequiredAtIntake(table) /\ RequiredAtIntake(table) \subseteq Slots
  BY RequiredIsAsked DEF RequiredAtGate, RequiredAtIntake
<1>5. /\ \A s \in which : ~Resolved(table, s)
      /\ \A s \in RequiredAtIntake(table) : Resolved(table, s) \/ s \in which
      /\ which \subseteq Slots
  BY <1>4 DEF Unresolved
<1> HIDE DEF table, which
<1>6. /\ slots'["intent"].value = table["intent"].value
      /\ \A s \in Slots : Resolved(slots', s) <=> s \in which \/ Resolved(table, s)
  BY <1>2, <1>3, <1>5, DecliningTouchesNoAnswer
<1>7. RequiredAtGate(slots') = RequiredAtGate(table)
  BY <1>6 DEF RequiredAtGate
<1>8. \A s \in RequiredAtGate(slots') : Resolved(slots', s)
  BY <1>4, <1>5, <1>6, <1>7
<1> QED  BY <1>8 DEF Unresolved

\* Only a message or an edit that names a slot changes what was said of it.
LEMMA StepKeepsAnswers ==
  ASSUME Inv, [Next]_vars
  PROVE  KeepsAnswers
<1> SUFFICES ASSUME NEW s \in Slots, slots[s].status = "filled"
             PROVE  /\ slots'[s].status = "filled"
                    /\ slots'[s] # slots[s] => pc = "gate" \/ s \in DOMAIN input.patch
  BY DEF KeepsAnswers
<1>1. Resolved(slots, s)
  BY DEF Resolved
<1>2. CASE slots' = slots
  BY <1>2
<1>3. CASE Understand
  <2> DEFINE table == Merged(slots, input.patch)
  <2>1. table[s] = IF s \in DOMAIN input.patch THEN Filled(input.patch[s]) ELSE slots[s]
    BY DEF Merged
  <2>2. Delegated(table) \subseteq Unresolved(table, RequiredAtIntake(table))
    BY DEF Delegated
  <2> HIDE DEF table
  <2>3. table[s].status = "filled"
    BY <2>1 DEF Filled
  <2>4. s \notin Delegated(table)
    BY <2>2, <2>3 DEF Unresolved, Resolved
  <2>5. slots' = Declining(table, Delegated(table))
    BY <1>3 DEF Understand, table
  <2>6. slots'[s] = table[s]
    BY <2>4, <2>5 DEF Declining
  <2> QED  BY <2>1, <2>3, <2>6
<1>4. CASE AssumeFallback
  <2>1. slots'[s] = slots[s]
    BY <1>1, <1>4 DEF AssumeFallback, Declining
  <2> QED  BY <2>1
<1>5. CASE ApplyEdit
  <2>1. PICK patch \in Edits : slots' = Merged(slots, patch)
    BY <1>5 DEF ApplyEdit
  <2>2. slots'[s] = IF s \in DOMAIN patch THEN Filled(patch[s]) ELSE slots[s]
    BY <2>1 DEF Merged
  <2>3. slots'[s].status = "filled"
    BY <2>2 DEF Filled
  <2> QED  BY <1>5, <2>3 DEF ApplyEdit
<1>6. Understand \/ AssumeFallback \/ ApplyEdit \/ slots' = slots
  BY DEF Next, Say, Answer, Misunderstand, Refuse, SlotValidate, Plan, EndTurn, vars
<1> QED  BY <1>2, <1>3, <1>4, <1>5, <1>6

-----------------------------------------------------------------------------
(* Theorems.                                                               *)

\* Whatever is said, declined and assumed, the gate's state is well formed, no
\* optional slot is declined and no question is asked past the budget.
THEOREM TypeCorrect == Spec => []TypeOK
<1>1. Inv => TypeOK
  BY DEF Inv
<1> QED  BY <1>1, AlwaysInv, PTL

\* The area of the lodging is all that the registry requires and the gate does
\* not.
LEMMA GateLacksTheArea ==
  ASSUME NEW table
  PROVE  RequiredAtIntake(table) \subseteq RequiredAtGate(table) \cup {"area"}
  BY DEF RequiredAtIntake, RequiredAtGate, Required

\* No preview without what the registry requires, but for the area of the
\* lodging, which the gate's context never asks for, and for a clash past the
\* budget that heads the preview (slot_validate, assume_fallback).
THEOREM GateAlwaysComplete == Spec => []GateOpensComplete
<1>1. Inv => GateOpensComplete
  <2>1. Unresolved(slots, RequiredAtGate(slots)) = {} =>
          Unresolved(slots, RequiredAtIntake(slots)) \subseteq {"area"}
    BY GateLacksTheArea DEF Unresolved
  <2> QED  BY <2>1 DEF Inv, CompleteInv, GateOpensComplete
<1> QED  BY <1>1, AlwaysInv, PTL

\* A plan under preview is as long as the dates it is shown with
\* (derive_trip_days, derived_slots).
THEOREM LengthAlwaysMatches == Spec => []LengthMatchesDates
<1>1. Inv => LengthMatchesDates
  BY DEF Inv, LengthInv, LengthHolds, LengthMatchesDates
<1> QED  BY <1>1, AlwaysInv, PTL

\* A traveller who delegates is asked for nothing more but a clash
\* (decline_remaining, _slot_context).
THEOREM DelegationAlwaysSettles == Spec => DelegationSettlesAll
<1>1. Inv /\ [Next]_vars => [SettlesAll]_vars
  BY StepSettles
<1> QED  BY <1>1, AlwaysInv, PTL DEF Spec, DelegationSettlesAll

\* An answer is changed only by the traveller (_merge_slots, apply_defaults,
\* decline_remaining).
THEOREM AnswersAlwaysKept == Spec => AnswersAreKept
<1>1. Inv /\ [Next]_vars => [KeepsAnswers]_vars
  BY StepKeepsAnswers
<1> QED  BY <1>1, AlwaysInv, PTL DEF Spec, AnswersAreKept
=============================================================================
