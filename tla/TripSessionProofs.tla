--------------------------- MODULE TripSessionProofs ---------------------------
(****************************************************************************)
(* Theorems of TripSession, for any number of turns, overlapping and lost   *)
(* as they may be, and any texts, replies, budgets and acts.  What a node   *)
(* takes for granted of the state it is given is Fits: it holds of a run's  *)
(* copy and of the checkpoint alike, so that a run may be resumed from a    *)
(* checkpoint another run wrote.  What the ledger says is taken over from   *)
(* ActionLedgerProofs, once the session is shown to use it by its rules.    *)
(****************************************************************************)
EXTENDS TripSession, FiniteSetTheorems, TLAPS

L == INSTANCE ActionLedgerProofs WITH Batch <- Turn

-----------------------------------------------------------------------------
(* The inductive invariant.                                                 *)

SessionTypeOK ==
  /\ ckpt \in [st : State, next : Node \cup {"end"}, gate : Gate]
  /\ head \subseteq Turn
  /\ at \in [Turn -> Live \cup Rest]
  /\ mem \in [Turn -> State]
  /\ inbox \in [Turn -> Body]
  /\ armed \in [Turn -> BOOLEAN]
  /\ plans \in Nat
  /\ dbPhase \in Phase
  /\ asked \in Nat

HasConsent(st) ==
  st.plan # 0 /\ st.consent.plan = st.plan /\ st.consent.asked \in {0, st.plan}

SlotsPassed(st) == st.req # "missing" \/ (st.clash = TRUE /\ RoundsSpent(st))

OnOffer(st) == st.phase = "AWAIT_CONSENT" /\ st.plan # 0 /\ st.shown = st.plan

Proposing == {"plan_draft", "plan_finalize", "preview_render", "consent_gate"}

\* What holds of the state a node is given.
Fits(node, st) ==
  /\ st.rounds <= MaxRounds
  /\ node \in {"clarify", "ask"} => st.rounds < MaxRounds
  /\ node = "assume_fallback" =>
       RoundsSpent(st) /\ (st.missing = "slots" \/ st.clash = TRUE)
  /\ node \in Proposing => SlotsPassed(st)
  /\ node \in {"preview_render", "consent_gate"} => st.plan # 0
  /\ node = "consent_gate" => OnOffer(st)
  /\ node \in Executing => HasConsent(st)

\* It holds of the thread's latest checkpoint, and of every run.
ThreadInv == /\ Fits(ckpt.next, ckpt.st)
             /\ ckpt.gate = "consent" => SlotsPassed(ckpt.st) /\ OnOffer(ckpt.st)

RunsInv == \A t \in Turn : Fits(at[t], mem[t])

\* A run in whose checkpoint an interrupt would be recorded has that state.
HeadInv == \A t \in head : at[t] \in Node => mem[t] = ckpt.st

GraphInv == SessionTypeOK /\ ThreadInv /\ RunsInv /\ HeadInv

\* Some request carried the second confirmation.
Confirms(body) == body.reply.decision = "approve" /\ body.reply.token = TRUE
TokenGiven == \E u \in Turn : Confirms(inbox[u])

\* An L2 act is consented, in any state, and granted to a run, only then.
TokenInv ==
  /\ \A t \in Turn : at[t] = "new" => inbox[t] = NoBody
  /\ ckpt.st.l2 = "consented" => TokenGiven
  /\ \A t \in Turn : mem[t].l2 = "consented" => TokenGiven
  /\ \A t \in Turn : granted[t] # {} => TokenGiven

\* Every act that needs no consent was tried by some run.
Tried(k) == \E u \in Turn : Exec!Engaged(u, k)
ActsTried == \A k \in Key \ Gated : Tried(k)

\* The batch of a run still has the act to do, or somebody tried it.
Covered(t) == /\ pc[t] # "new"
              /\ \A k \in Key \ Gated : k \in todo[t] \/ Tried(k)

\* The nodes behind a batch, and the phase they lead to.
Behind == {"assemble_itinerary", "remind"}

DoneInv ==
  /\ \A t \in Turn : at[t] = "in_batch" => Covered(t)
  /\ ckpt.next \in Behind \/ ckpt.st.phase = "DONE" => ActsTried
  /\ \A t \in Turn : at[t] \in Behind \/ mem[t].phase = "DONE" => ActsTried

\* The row of the session is behind the thread only while a turn is under way.
SyncInv == AtRest /\ NoneLost => dbPhase = ckpt.st.phase

LedgerInv == L!Inv /\ L!OwnersInv

Inv == GraphInv /\ TokenInv /\ DoneInv /\ SyncInv /\ LedgerInv

-----------------------------------------------------------------------------
(* The ledger.                                                              *)

LEMMA SameLedger == L!Next <=> Exec!Next
  BY DEF L!Next, Exec!Next, L!Begin, Exec!Begin, L!BatchStep,
       Exec!BatchStep, L!SkipUnconsented, Exec!SkipUnconsented, L!Claim,
       Exec!Claim, L!Duplicate, Exec!Duplicate, L!Invoke, Exec!Invoke,
       L!Return, Exec!Return, L!Settle, Exec!Settle, L!Finish,
       Exec!Finish, L!Perform, Exec!Perform, L!Abort, Exec!Abort,
       L!Receipt, Exec!Receipt, L!InsertInFlight, Exec!InsertInFlight,
       L!KeyTaken, Exec!KeyTaken, L!MayRun, Exec!MayRun, L!SettleRow,
       Exec!SettleRow, L!Succeeded, Exec!Succeeded, L!StatusOf,
       Exec!StatusOf, L!Answer, Exec!Answer, L!Degradable,
       Exec!Degradable, L!Refused, Exec!Refused, L!RowActionId,
       Exec!RowActionId, L!Working, Exec!Working

LEMMA LedgerBegins == Exec!Init => LedgerInv
<1>1. Exec!Init <=> L!Init
  BY DEF Exec!Init, L!Init
<1>. QED BY <1>1, L!InvInductive, L!OwnersInductive, ActsAssumption DEF LedgerInv

LEMMA LedgerStep ==
  LedgerInv /\ [Exec!Next]_execVars => LedgerInv' /\ L!EngagedStays /\ L!NothingSlips
<1>1. L!Inv /\ L!OwnersInv /\ [L!Next]_(L!vars)
        => L!Inv' /\ L!OwnersInv' /\ L!EngagedStays /\ L!NothingSlips
  BY L!InvInductive, L!OwnersInductive, ActsAssumption
<1>. QED BY <1>1, SameLedger DEF LedgerInv, L!vars, execVars

\* Whatever a run does, it does nothing to the ledger but what a batch may do.
LEMMA SessionStepsLedger == Next => [Exec!Next]_execVars
<1>1. ASSUME NEW t \in Turn, NEW m \in Message, Send(t, m)
      PROVE  UNCHANGED execVars
  BY <1>1 DEF Send
<1>2. ASSUME NEW t \in Turn, NEW r \in Reply, NEW h \in 0..plans, Resume(t, r, h)
      PROVE  UNCHANGED execVars
  BY <1>2 DEF Resume
<1>3. ASSUME NEW t \in Turn, TurnStep(t)
      PROVE  [Exec!Next]_execVars
  <2>1. CASE BatchBegin(t)
    <3>1. Exec!Begin(t, Pending(mem[t]), Consented(mem[t]))
      BY <2>1 DEF BatchBegin
    <3>2. Pending(mem[t]) \in SUBSET Key /\ Consented(mem[t]) \in SUBSET Gated
      BY ActsAssumption DEF Pending, Consented
    <3>. QED BY <3>1, <3>2 DEF Exec!Next
  <2>2. CASE BatchWork(t)
    <3>1. Exec!BatchStep(t)
      BY <2>2 DEF BatchWork, Exec!BatchStep
    <3>. QED BY <3>1 DEF Exec!Next
  <2>3. CASE BatchFinish(t)
    <3>1. Exec!BatchStep(t)
      BY <2>3 DEF BatchFinish, Exec!BatchStep
    <3>. QED BY <3>1 DEF Exec!Next
  <2>4. CASE ~(BatchBegin(t) \/ BatchWork(t) \/ BatchFinish(t))
    <3>1. UNCHANGED execVars
      BY <1>3, <2>4
         DEF TurnStep, Quiet, LaunchFresh, LaunchReply, Close, IntakeJudged, IntakeFailed,
             Refuse, SlotValidate, Clarify, Ask, AssumeFallback, Draft, PlanFinalize,
             PreviewRender, ConsentGate, ApplyEdit, PlanActions, Dispatch, ActionGate,
             AssembleItinerary, Remind
    <3>. QED BY <3>1
  <2>. QED BY <2>1, <2>2, <2>3, <2>4
<1>4. ASSUME NEW t \in Turn, Abort(t)
      PROVE  [Exec!Next]_execVars
  BY <1>4 DEF Abort, Exec!Next
<1>5. ASSUME Channel
      PROVE  [Exec!Next]_execVars
  BY <1>5 DEF Channel, Exec!Next
<1>. QED BY <1>1, <1>2, <1>3, <1>4, <1>5 DEF Next

LEMMA VarsSplit == UNCHANGED vars <=> UNCHANGED sessionVars /\ UNCHANGED execVars
  BY DEF vars, sessionVars, execVars

-----------------------------------------------------------------------------
(* What the nodes make of a state.                                          *)

LEMMA StateFields ==
  ASSUME NEW st \in State
  PROVE  /\ st.phase \in Phase /\ st.verdict \in Verdict /\ st.strikes \in Nat
         /\ st.req \in {"missing", "given", "assumed"} /\ st.clash \in BOOLEAN
         /\ st.missing \in {"none", "slots", "return_date"} /\ st.rounds \in Nat
         /\ st.plan \in Nat /\ st.shown \in Nat
         /\ st.consent \in [plan : Nat, asked : Nat]
         /\ st.payload \in [decision : {"none", "reject", "edit"}, patch : Patch]
         /\ st.l2 \in {"none", "pending", "consented", "skipped", "blocked"}
         /\ st.gated \in BOOLEAN /\ st.input \in Text
  BY DEF State, PlanId

LEMMA BodyFields ==
  ASSUME NEW body \in Body
  PROVE  /\ body.hash \in Nat
         /\ body.reply.decision \in {"approve", "reject", "edit", "none"}
         /\ body.reply.target \in {"plan", "slots"} /\ body.reply.patch \in Patch
         /\ body.reply.text \in Text /\ body.reply.token \in BOOLEAN
<1>1. body.hash \in Nat /\ body.reply \in Reply \cup {TextOnly(m) : m \in Text}
  BY DEF Body, PlanId
<1>2. CASE body.reply \in Reply
  BY <1>1, <1>2, InputAssumption
<1>3. ASSUME NEW m \in Text, body.reply = TextOnly(m)
      PROVE  /\ body.reply.decision \in {"approve", "reject", "edit", "none"}
             /\ body.reply.target \in {"plan", "slots"} /\ body.reply.patch \in Patch
             /\ body.reply.text \in Text /\ body.reply.token \in BOOLEAN
  BY <1>3 DEF TextOnly, Patch
<1>. QED BY <1>1, <1>2, <1>3

LEMMA InitialState ==
  /\ initial_state \in State
  /\ initial_state.rounds = 0 /\ initial_state.l2 = "none" /\ initial_state.phase = "COLLECT"
<1>1. initial_state.rounds = 0 /\ initial_state.l2 = "none" /\ initial_state.phase = "COLLECT"
  BY DEF initial_state
<1>2. initial_state \in State
  BY Zenon, InputAssumption
     DEF State, initial_state, Phase, Verdict, PlanId, NoPayload, NoConsent, Patch, Text
<1>. QED BY <1>1, <1>2

LEMMA EmptyBody == NoBody \in Body /\ ~Confirms(NoBody)
  BY InputAssumption DEF NoBody, Body, TextOnly, PlanId, Confirms, Text

\* The same state but for the slots.
SameBut(st, new) ==
  /\ new.phase = st.phase /\ new.rounds = st.rounds /\ new.plan = st.plan
  /\ new.l2 = st.l2 /\ new.consent = st.consent /\ new.input = st.input

LEMMA PatchedState ==
  ASSUME NEW st \in State, NEW patch \in Patch
  PROVE  Patched(st, patch) \in State /\ SameBut(st, Patched(st, patch))
<1>1. Patched(st, patch) \in State
  BY Zenon DEF Patched, State
<1>2. Patched(st, patch) \in {[st EXCEPT !.req = "given", !.clash = FALSE],
                              [st EXCEPT !.clash = TRUE],
                              [st EXCEPT !.req = "assumed"], st}
  BY DEF Patched
<1>. QED BY <1>1, <1>2 DEF SameBut, State

LEMMA ValidatedState ==
  ASSUME NEW st \in State
  PROVE  /\ Validated(st) \in State /\ SameBut(st, Validated(st))
         /\ Validated(st).missing = "none" => SlotsPassed(Validated(st))
         /\ Validated(st).missing = "return_date" => Validated(st).clash = TRUE
<1> DEFINE m == CASE st.clash           -> "return_date"
                  [] st.req = "missing" -> "slots"
                  [] OTHER              -> "none"
<1>1. m \in {"none", "slots", "return_date"}
  OBVIOUS
<1>2. (m = "none" => st.req # "missing") /\ (m = "return_date" => st.clash)
  OBVIOUS
<1>3. st.clash \in BOOLEAN
  BY StateFields
<1>4. Validated(st) = [st EXCEPT !.missing = m]
  BY DEF Validated
<1> HIDE DEF m
<1>5. Validated(st) \in State
  BY Zenon, <1>1, <1>4 DEF State
<1>6. /\ Validated(st).missing = m /\ Validated(st).req = st.req
      /\ Validated(st).clash = st.clash
  BY <1>4 DEF State
<1>7. SameBut(st, Validated(st))
  BY <1>4 DEF State, SameBut
<1>. QED BY Zenon, <1>2, <1>3, <1>5, <1>6, <1>7 DEF SlotsPassed

\* The request approved the plan of the state, and the card showed it.
AsApproved(st, body) ==
  /\ body.reply.decision = "approve"
  /\ body.hash \in {0, st.plan}
  /\ st.consent = [plan |-> st.plan, asked |-> body.hash]
  /\ st.shown = st.plan

\* The decision at the consent gate: it goes to execution only with a consent to
\* the plan that is on offer.
LEMMA DecidedState ==
  ASSUME NEW st \in State, NEW body \in Body, OnOffer(st)
  PROVE  LET new == Decided(st, body)
         IN  /\ new \in State /\ new.rounds = st.rounds /\ new.l2 = st.l2
             /\ new.phase # "DONE"
             /\ new.phase = "EXECUTE" => HasConsent(new) /\ AsApproved(new, body)
<1> DEFINE new == Decided(st, body)
<1>1. /\ body.hash \in Nat /\ body.reply.patch \in Patch
      /\ body.reply.decision \in {"approve", "reject", "edit", "none"}
  BY BodyFields
<1>2. CASE body.reply.decision = "approve" /\ body.hash \notin {0, st.plan}
  <2>1. new = [st EXCEPT !.phase = "PREVIEW", !.payload = NoPayload]
    BY <1>2 DEF Decided
  <2> HIDE DEF new
  <2>2. new \in State
    BY Zenon, <2>1 DEF State, Phase, NoPayload, Patch
  <2>. QED BY <2>1, <2>2 DEF State, new
<1>3. CASE body.reply.decision = "approve" /\ body.hash \in {0, st.plan}
  <2> DEFINE c == [plan |-> st.plan, asked |-> body.hash]
  <2>1. new = [st EXCEPT !.phase = "EXECUTE", !.payload = NoPayload,
                         !.consent = c]
    BY <1>3 DEF Decided
  <2>2. c \in [plan : PlanId, asked : PlanId] /\ c.plan = st.plan /\ c.asked = body.hash
    BY <1>1, StateFields DEF PlanId
  <2>3. c = [plan |-> st.plan, asked |-> body.hash]
    OBVIOUS
  <2> HIDE DEF new, c
  <2>4. new \in State
    BY Zenon, <2>1, <2>2 DEF State, Phase, NoPayload, Patch
  <2>5. /\ new.rounds = st.rounds /\ new.l2 = st.l2 /\ new.phase = "EXECUTE"
        /\ new.plan = st.plan /\ new.shown = st.shown /\ new.consent = c
    BY <2>1 DEF State
  <2>6. st.plan # 0 /\ st.shown = st.plan
    BY DEF OnOffer
  <2>7. HasConsent(new)
    BY <1>3, <2>2, <2>5, <2>6 DEF HasConsent
  <2>8. AsApproved(new, body)
    BY <1>3, <2>3, <2>5, <2>6 DEF AsApproved
  <2>. QED BY <2>4, <2>5, <2>7, <2>8 DEF new
<1>4. CASE body.reply.decision = "edit"
  <2>1. new = [st EXCEPT !.phase = IF body.reply.target = "slots" THEN "COLLECT" ELSE "PREVIEW",
                         !.payload = [decision |-> "edit", patch |-> body.reply.patch]]
    BY <1>4 DEF Decided
  <2> HIDE DEF new
  <2>2. new \in State
    BY Zenon, <1>1, <2>1 DEF State, Phase
  <2>. QED BY <2>1, <2>2 DEF State, new
<1>5. CASE body.reply.decision \notin {"approve", "edit"}
  <2>1. new = [st EXCEPT !.phase = "COLLECT",
                         !.payload = [decision |-> "reject", patch |-> "none"]]
    BY <1>5 DEF Decided
  <2> HIDE DEF new
  <2>2. new \in State
    BY Zenon, <2>1 DEF State, Phase, Patch
  <2>. QED BY <2>1, <2>2 DEF State, new
<1>. QED BY <1>1, <1>2, <1>3, <1>4, <1>5

-----------------------------------------------------------------------------
(* The steps of a run, in three kinds: it moves on to the next node with a  *)
(* new state, it stops at an interrupt, or the graph is left alone.         *)

\* The state the node is given.
Given(t) == IF at[t] = "fresh" THEN ckpt.st ELSE mem[t]

\* The executing nodes change neither the plan, nor its card, nor its consent.
KeepsConsent(st, new) ==
  /\ new.rounds = st.rounds /\ new.plan = st.plan /\ new.consent = st.consent
  /\ new.shown = st.shown

\* What the history says of the new state.
MovesHonestly(t, st, next) ==
  /\ at[t] \notin {"reply", "closing"}
  /\ st.rounds = IF at[t] = "ask" THEN Given(t).rounds + 1 ELSE Given(t).rounds
  /\ st.l2 = "consented" => Given(t).l2 = "consented" \/ Confirms(inbox[t])
  /\ st.phase = "DONE" => Given(t).phase = "DONE" \/ at[t] = "remind"
  /\ next \in Behind => at[t] \in Behind \/ (at[t] = "in_batch" /\ todo[t] = {})
  /\ next \in Executing =>
       \/ at[t] \in Executing /\ KeepsConsent(mem[t], st)
       \/ AsApproved(st, inbox[t])
  /\ next = "action_gate" => GateDeclared = TRUE

Moves(t, st, next) ==
  /\ at[t] \in Live
  /\ Goto(t, st, next)
  /\ st \in State /\ next \in Node \cup {"end"}
  /\ Fits(next, st)
  /\ MovesHonestly(t, st, next)

LEMMA RunFacts ==
  ASSUME GraphInv, NEW t \in Turn
  PROVE  /\ mem[t] \in State /\ ckpt.st \in State /\ inbox[t] \in Body
         /\ Fits(at[t], mem[t]) /\ Fits(ckpt.next, ckpt.st)
  BY DEF GraphInv, SessionTypeOK, RunsInv, ThreadInv

LEMMA LaunchFreshMoves ==
  ASSUME GraphInv, NEW t \in Turn, LaunchFresh(t)
  PROVE  \E st, next : Moves(t, st, next) /\ UNCHANGED plans
<1> DEFINE st == [ckpt.st EXCEPT !.input = inbox[t].reply.text, !.payload = NoPayload]
<1>1. at[t] = "fresh" /\ Goto(t, st, "intake") /\ UNCHANGED plans
  BY DEF LaunchFresh, Quiet
<1>2. ckpt.st \in State /\ inbox[t].reply.text \in Text /\ ckpt.st.rounds <= MaxRounds
  BY RunFacts, BodyFields DEF Fits
<1>3. st \in State
  BY Zenon, <1>2 DEF State, NoPayload, Patch
<1>4. /\ st.rounds = ckpt.st.rounds /\ st.l2 = ckpt.st.l2 /\ st.phase = ckpt.st.phase
  BY <1>2 DEF State
<1> HIDE DEF st
<1>5. Fits("intake", st)
  BY <1>2, <1>4 DEF Fits, Proposing, Executing
<1>6. MovesHonestly(t, st, "intake")
  BY <1>1, <1>4 DEF MovesHonestly, Given, Behind, Executing
<1>. QED BY <1>1, <1>3, <1>5, <1>6 DEF Moves, Live, Node

LEMMA IntakeMoves ==
  ASSUME GraphInv, NEW t \in Turn, IntakeJudged(t) \/ IntakeFailed(t)
  PROVE  \E st, next : Moves(t, st, next) /\ UNCHANGED plans
<1>1. /\ mem[t] \in State /\ mem[t].rounds <= MaxRounds /\ mem[t].strikes \in Nat
      /\ mem[t].input \in Text
  BY RunFacts, StateFields DEF Fits
<1>2. mem[t].input.scope \in Verdict /\ mem[t].input.patch \in Patch
  BY <1>1, InputAssumption
<1>3. \E st : /\ st \in State /\ st.rounds = mem[t].rounds /\ st.l2 = mem[t].l2
              /\ st.phase = mem[t].phase
              /\ Goto(t, st, route_after_intake(st))
  <2>1. CASE IntakeFailed(t)
    BY <1>1, <2>1 DEF IntakeFailed
  <2>2. CASE IntakeJudged(t)
    <3> DEFINE s == [mem[t] EXCEPT !.verdict = mem[t].input.scope,
                                   !.strikes = IF mem[t].input.scope = "abuse" THEN @ + 1 ELSE @]
               n == IF mem[t].input.scope = "travel" THEN Patched(s, mem[t].input.patch) ELSE s
    <3>1. Goto(t, n, route_after_intake(n))
      BY <2>2 DEF IntakeJudged
    <3>2. (IF mem[t].input.scope = "abuse" THEN mem[t].strikes + 1 ELSE mem[t].strikes) \in Nat
      BY <1>1
    <3>3. s \in State
      BY Zenon, <1>1, <1>2, <3>2 DEF State
    <3>4. SameBut(mem[t], s)
      BY <1>1 DEF State, SameBut
    <3> HIDE DEF s
    <3>5. n \in State /\ SameBut(s, n)
      BY <1>2, <3>3, PatchedState DEF SameBut
    <3>. QED BY <3>1, <3>4, <3>5 DEF SameBut
  <2>. QED BY <2>1, <2>2
<1>4. PICK st : /\ st \in State /\ st.rounds = mem[t].rounds /\ st.l2 = mem[t].l2
                /\ st.phase = mem[t].phase
                /\ Goto(t, st, route_after_intake(st))
  BY <1>3
<1>5. at[t] = "intake" /\ UNCHANGED plans
  BY DEF IntakeJudged, IntakeFailed, Quiet
<1>6. route_after_intake(st) \in {"refuse", "slot_validate"}
  BY DEF route_after_intake
<1>7. Fits(route_after_intake(st), st)
  BY <1>1, <1>4, <1>6 DEF Fits, Proposing, Executing
<1>8. MovesHonestly(t, st, route_after_intake(st))
  BY <1>4, <1>5, <1>6 DEF MovesHonestly, Given, Behind, Executing
<1>. QED BY <1>4, <1>5, <1>6, <1>7, <1>8 DEF Moves, Live, Node

\* Nodes that leave the state as it is.
LEMMA PassingMoves ==
  ASSUME GraphInv, NEW t \in Turn,
         Clarify(t) \/ Draft(t) \/ AssembleItinerary(t) \/ BatchFinish(t)
  PROVE  \E st, next : Moves(t, st, next) /\ UNCHANGED plans
<1>1. mem[t] \in State /\ Fits(at[t], mem[t])
  BY RunFacts
<1>2. CASE Clarify(t)
  <2>1. at[t] = "clarify" /\ Goto(t, mem[t], "ask") /\ UNCHANGED plans
    BY <1>2 DEF Clarify, Quiet
  <2>. QED BY <1>1, <2>1
       DEF Moves, Fits, Proposing, Executing, MovesHonestly, KeepsConsent, Given, Behind, Live, Node
<1>3. CASE Draft(t)
  <2>1. at[t] = "plan_draft" /\ Goto(t, mem[t], "plan_finalize") /\ UNCHANGED plans
    BY <1>3 DEF Draft, Quiet
  <2>. QED BY <1>1, <2>1
       DEF Moves, Fits, Proposing, Executing, MovesHonestly, KeepsConsent, Given, Behind, Live, Node
<1>4. CASE AssembleItinerary(t)
  <2>1. at[t] = "assemble_itinerary" /\ Goto(t, mem[t], "remind") /\ UNCHANGED plans
    BY <1>4 DEF AssembleItinerary, Quiet
  <2>. QED BY <1>1, <2>1
       DEF Moves, Fits, Proposing, Executing, MovesHonestly, KeepsConsent, Given, Behind, Live, Node
<1>5. CASE BatchFinish(t)
  <2>1. at[t] = "in_batch" /\ Goto(t, mem[t], "assemble_itinerary") /\ UNCHANGED plans
    BY <1>5 DEF BatchFinish
  <2>2. todo[t] = {}
    BY <1>5 DEF BatchFinish, Exec!Finish
  <2>. QED BY <1>1, <2>1, <2>2
       DEF Moves, Fits, Proposing, Executing, MovesHonestly, KeepsConsent, Given, Behind, Live, Node
<1>. QED BY <1>2, <1>3, <1>4, <1>5

LEMMA RefuseMoves ==
  ASSUME GraphInv, NEW t \in Turn, Refuse(t)
  PROVE  \E st, next : Moves(t, st, next) /\ UNCHANGED plans
<1> DEFINE st == IF is_fused(mem[t]) THEN [mem[t] EXCEPT !.phase = "FAILED"] ELSE mem[t]
<1>1. at[t] = "refuse" /\ Goto(t, st, "end") /\ UNCHANGED plans
  BY DEF Refuse, Quiet
<1>2. mem[t] \in State /\ Fits(at[t], mem[t])
  BY RunFacts
<1>3. [mem[t] EXCEPT !.phase = "FAILED"] \in State
  BY Zenon, <1>2 DEF State, Phase
<1>4. st \in State
  BY <1>2, <1>3
<1>5. /\ st.rounds = mem[t].rounds /\ st.l2 = mem[t].l2
      /\ st.phase \in {mem[t].phase, "FAILED"}
  BY <1>2 DEF State
<1> HIDE DEF st
<1>. QED BY <1>1, <1>2, <1>4, <1>5
     DEF Moves, Fits, Proposing, Executing, MovesHonestly, Given, Behind, Live, Node

LEMMA SlotValidateMoves ==
  ASSUME GraphInv, NEW t \in Turn, SlotValidate(t)
  PROVE  \E st, next : Moves(t, st, next) /\ UNCHANGED plans
<1> DEFINE st == Validated(mem[t])
<1>1. at[t] = "slot_validate" /\ Goto(t, st, route_after_slots(st)) /\ UNCHANGED plans
  BY DEF SlotValidate, Quiet
<1>2. mem[t] \in State /\ Fits(at[t], mem[t])
  BY RunFacts
<1>3. /\ st \in State /\ SameBut(mem[t], st)
      /\ st.missing = "none" => SlotsPassed(st)
      /\ st.missing = "return_date" => st.clash = TRUE
  BY <1>2, ValidatedState
<1> HIDE DEF st
<1>4. st.rounds \in Nat /\ st.missing \in {"none", "slots", "return_date"} /\ MaxRounds \in Nat
  BY <1>3, StateFields, BoundsAssumption
<1>5. st.rounds <= MaxRounds
  BY <1>2, <1>3 DEF Fits, SameBut
<1>6. CASE st.missing = "none"
  <2>1. route_after_slots(st) = "plan_draft"
    BY <1>6 DEF route_after_slots
  <2>2. Fits("plan_draft", st)
    BY <1>3, <1>5, <1>6 DEF Fits, Proposing, Executing
  <2>. QED BY <1>1, <1>3, <2>1, <2>2
       DEF Moves, MovesHonestly, Given, SameBut, Behind, Executing, Live, Node
<1>7. CASE st.missing # "none" /\ RoundsSpent(st)
  <2>1. route_after_slots(st) = "assume_fallback"
    BY <1>7 DEF route_after_slots
  <2>2. Fits("assume_fallback", st)
    BY <1>3, <1>4, <1>5, <1>7 DEF Fits, Proposing, Executing
  <2>. QED BY <1>1, <1>3, <2>1, <2>2
       DEF Moves, MovesHonestly, Given, SameBut, Behind, Executing, Live, Node
<1>8. CASE st.missing # "none" /\ ~RoundsSpent(st)
  <2>1. route_after_slots(st) = "clarify"
    BY <1>8 DEF route_after_slots
  <2>2. st.rounds < MaxRounds
    BY <1>4, <1>8 DEF RoundsSpent
  <2>3. Fits("clarify", st)
    BY <1>5, <2>2 DEF Fits, Proposing, Executing
  <2>. QED BY <1>1, <1>3, <2>1, <2>3
       DEF Moves, MovesHonestly, Given, SameBut, Behind, Executing, Live, Node
<1>. QED BY <1>6, <1>7, <1>8

LEMMA AskMoves ==
  ASSUME GraphInv, NEW t \in Turn, Ask(t), armed[t]
  PROVE  \E st, next : Moves(t, st, next) /\ UNCHANGED plans
<1> DEFINE st == [mem[t] EXCEPT !.input = inbox[t].reply.text, !.rounds = @ + 1]
<1>1. at[t] = "ask" /\ Goto(t, st, "intake") /\ UNCHANGED plans
  BY DEF Ask, Quiet
<1>2. mem[t] \in State /\ Fits(at[t], mem[t]) /\ inbox[t].reply.text \in Text
  BY RunFacts, BodyFields
<1>3. mem[t].rounds \in Nat /\ MaxRounds \in Nat /\ mem[t].rounds < MaxRounds
  BY <1>1, <1>2, StateFields, BoundsAssumption DEF Fits
<1>4. mem[t].rounds + 1 \in Nat /\ mem[t].rounds + 1 <= MaxRounds
  BY <1>3
<1>5. st \in State
  BY Zenon, <1>2, <1>4 DEF State
<1>6. st.rounds = mem[t].rounds + 1 /\ st.l2 = mem[t].l2 /\ st.phase = mem[t].phase
  BY <1>2 DEF State
<1> HIDE DEF st
<1>7. Fits("intake", st)
  BY <1>4, <1>6 DEF Fits, Proposing, Executing
<1>. QED BY <1>1, <1>5, <1>6, <1>7 DEF Moves, MovesHonestly, Given, Behind, Executing, Live, Node

\* Past the budget: what was missing is assumed, or the dates clash.
LEMMA AssumeFallbackMoves ==
  ASSUME GraphInv, NEW t \in Turn, AssumeFallback(t)
  PROVE  \E st, next : Moves(t, st, next) /\ UNCHANGED plans
<1> DEFINE s == IF mem[t].missing = "slots" THEN [mem[t] EXCEPT !.req = "assumed"] ELSE mem[t]
           st == [s EXCEPT !.missing = "none"]
<1>1. at[t] = "assume_fallback" /\ Goto(t, st, "plan_draft") /\ UNCHANGED plans
  BY DEF AssumeFallback, Quiet
<1>2. mem[t] \in State /\ Fits(at[t], mem[t])
  BY RunFacts
<1>3. [mem[t] EXCEPT !.req = "assumed"] \in State
  BY Zenon, <1>2 DEF State
<1>4. s \in State
  BY <1>2, <1>3
<1>5. st \in State
  BY Zenon, <1>4 DEF State
<1>6. /\ st.rounds = mem[t].rounds /\ st.l2 = mem[t].l2 /\ st.phase = mem[t].phase
      /\ st.clash = mem[t].clash
      /\ mem[t].missing = "slots" => st.req = "assumed"
  BY <1>2 DEF State
<1> HIDE DEF st
<1>7. st.req # "missing" \/ (st.clash = TRUE /\ RoundsSpent(mem[t]))
  BY Zenon, <1>1, <1>2, <1>6 DEF Fits
<1>8. SlotsPassed(st)
  <2>1. RoundsSpent(mem[t]) => RoundsSpent(st)
    BY <1>6 DEF RoundsSpent
  <2>. QED BY Zenon, <1>7, <2>1 DEF SlotsPassed
<1>9. Fits("plan_draft", st)
  BY <1>2, <1>6, <1>8 DEF Fits, Proposing, Executing
<1>. QED BY <1>1, <1>5, <1>6, <1>9 DEF Moves, MovesHonestly, Given, Behind, Executing, Live, Node

LEMMA PlanFinalizeMoves ==
  ASSUME GraphInv, NEW t \in Turn, PlanFinalize(t)
  PROVE  \E st, next : Moves(t, st, next) /\ plans' = plans + 1
<1> DEFINE st == [mem[t] EXCEPT !.plan = plans + 1, !.phase = "PREVIEW"]
<1>1. at[t] = "plan_finalize" /\ Goto(t, st, "preview_render") /\ plans' = plans + 1
  BY DEF PlanFinalize
<1>2. mem[t] \in State /\ Fits(at[t], mem[t])
  BY RunFacts
<1>3. plans + 1 \in PlanId /\ plans + 1 # 0
  BY DEF GraphInv, SessionTypeOK, PlanId
<1>4. st \in State
  BY Zenon, <1>2, <1>3 DEF State, Phase
<1>5. /\ st.rounds = mem[t].rounds /\ st.l2 = mem[t].l2 /\ st.phase = "PREVIEW"
      /\ st.req = mem[t].req /\ st.clash = mem[t].clash /\ st.plan # 0
  BY <1>2, <1>3 DEF State
<1> HIDE DEF st
<1>6. SlotsPassed(mem[t])
  BY <1>1, <1>2 DEF Fits, Proposing
<1>7. SlotsPassed(st)
  <2>1. RoundsSpent(mem[t]) => RoundsSpent(st)
    BY <1>5 DEF RoundsSpent
  <2>. QED BY Zenon, <1>5, <1>6, <2>1 DEF SlotsPassed
<1>8. Fits("preview_render", st)
  BY <1>2, <1>5, <1>7 DEF Fits, Proposing, Executing
<1>. QED BY <1>1, <1>4, <1>5, <1>8 DEF Moves, MovesHonestly, Given, Behind, Executing, Live, Node

LEMMA PreviewRenderMoves ==
  ASSUME GraphInv, NEW t \in Turn, PreviewRender(t)
  PROVE  \E st, next : Moves(t, st, next) /\ UNCHANGED plans
<1> DEFINE st == [mem[t] EXCEPT !.shown = mem[t].plan, !.phase = "AWAIT_CONSENT"]
<1>1. at[t] = "preview_render" /\ Goto(t, st, "consent_gate") /\ UNCHANGED plans
  BY DEF PreviewRender, Quiet
<1>2. mem[t] \in State /\ Fits(at[t], mem[t])
  BY RunFacts
<1>3. mem[t].plan \in PlanId /\ mem[t].plan # 0
  BY <1>1, <1>2, StateFields DEF Fits, PlanId
<1>4. st \in State
  BY Zenon, <1>2, <1>3 DEF State, Phase
<1>5. /\ st.rounds = mem[t].rounds /\ st.l2 = mem[t].l2
      /\ st.req = mem[t].req /\ st.clash = mem[t].clash
      /\ st.plan = mem[t].plan /\ st.shown = mem[t].plan /\ st.phase = "AWAIT_CONSENT"
  BY <1>2 DEF State
<1> HIDE DEF st
<1>6. SlotsPassed(mem[t])
  BY <1>1, <1>2 DEF Fits, Proposing
<1>7. SlotsPassed(st)
  <2>1. RoundsSpent(mem[t]) => RoundsSpent(st)
    BY <1>5 DEF RoundsSpent
  <2>. QED BY Zenon, <1>5, <1>6, <2>1 DEF SlotsPassed
<1>8. Fits("consent_gate", st)
  BY <1>2, <1>3, <1>5, <1>7 DEF Fits, Proposing, Executing, OnOffer
<1>. QED BY <1>1, <1>4, <1>5, <1>8 DEF Moves, MovesHonestly, Given, Behind, Executing, Live, Node

LEMMA ConsentGateMoves ==
  ASSUME GraphInv, NEW t \in Turn, ConsentGate(t), armed[t]
  PROVE  \E st, next : Moves(t, st, next) /\ UNCHANGED plans
<1> DEFINE st == Decided(mem[t], inbox[t])
<1>1. at[t] = "consent_gate" /\ Goto(t, st, route_after_consent(st)) /\ UNCHANGED plans
  BY DEF ConsentGate, Quiet
<1>2. mem[t] \in State /\ Fits(at[t], mem[t]) /\ inbox[t] \in Body
  BY RunFacts
<1>3. /\ st \in State /\ st.rounds = mem[t].rounds /\ st.l2 = mem[t].l2
      /\ st.phase # "DONE"
      /\ st.phase = "EXECUTE" => HasConsent(st) /\ AsApproved(st, inbox[t])
  BY <1>1, <1>2, DecidedState DEF Fits
<1> HIDE DEF st
<1>4. CASE st.phase = "EXECUTE"
  <2>1. route_after_consent(st) = "plan_actions"
    BY <1>4 DEF route_after_consent
  <2>2. Fits("plan_actions", st)
    BY <1>2, <1>3, <1>4 DEF Fits, Proposing, Executing
  <2>. QED BY <1>1, <1>3, <1>4, <2>1, <2>2 DEF Moves, MovesHonestly, Given, Behind, Executing, Live, Node
<1>5. CASE st.phase # "EXECUTE"
  <2>1. route_after_consent(st) \in {"apply_edit", "end"}
    BY <1>5 DEF route_after_consent
  <2>2. Fits(route_after_consent(st), st)
    BY <1>2, <1>3, <2>1 DEF Fits, Proposing, Executing
  <2>. QED BY <1>1, <1>3, <2>1, <2>2 DEF Moves, MovesHonestly, Given, Behind, Executing, Live, Node
<1>. QED BY <1>4, <1>5

LEMMA ApplyEditMoves ==
  ASSUME GraphInv, NEW t \in Turn, ApplyEdit(t)
  PROVE  \E st, next : Moves(t, st, next) /\ UNCHANGED plans
<1> DEFINE st == Patched(mem[t], mem[t].payload.patch)
<1>1. at[t] = "apply_edit" /\ Goto(t, st, "slot_validate") /\ UNCHANGED plans
  BY DEF ApplyEdit, Quiet
<1>2. mem[t] \in State /\ Fits(at[t], mem[t])
  BY RunFacts
<1>3. mem[t].payload.patch \in Patch
  BY <1>2, StateFields
<1>4. st \in State /\ SameBut(mem[t], st)
  BY <1>2, <1>3, PatchedState
<1> HIDE DEF st
<1>5. Fits("slot_validate", st)
  BY <1>2, <1>4 DEF Fits, SameBut, Proposing, Executing
<1>. QED BY <1>1, <1>4, <1>5 DEF Moves, MovesHonestly, Given, SameBut, Behind, Executing, Live, Node

LEMMA ConsentKept ==
  ASSUME NEW st, NEW new, KeepsConsent(st, new), HasConsent(st)
  PROVE  HasConsent(new)
BY DEF KeepsConsent, HasConsent

LEMMA PlanActionsMoves ==
  ASSUME GraphInv, NEW t \in Turn, PlanActions(t)
  PROVE  \E st, next : Moves(t, st, next) /\ UNCHANGED plans
<1>1. at[t] = "plan_actions" /\ UNCHANGED plans
  BY DEF PlanActions, Quiet
<1>2. PICK l2 \in {"none", "pending"} : Goto(t, [mem[t] EXCEPT !.l2 = l2], "dispatch")
  BY DEF PlanActions
<1> DEFINE st == [mem[t] EXCEPT !.l2 = l2]
<1>3. mem[t] \in State /\ Fits(at[t], mem[t])
  BY RunFacts
<1>4. st \in State
  BY Zenon, <1>3 DEF State
<1>5. KeepsConsent(mem[t], st) /\ st.l2 # "consented" /\ st.phase = mem[t].phase
  BY <1>3 DEF State, KeepsConsent
<1>6. Goto(t, st, "dispatch")
  BY <1>2
<1> HIDE DEF st
<1>7. HasConsent(st)
  BY <1>1, <1>3, <1>5, ConsentKept DEF Fits, Executing
<1>8. Fits("dispatch", st)
  BY <1>3, <1>5, <1>7 DEF Fits, KeepsConsent, Proposing, Executing
<1>. QED BY <1>1, <1>4, <1>5, <1>6, <1>8 DEF Moves, MovesHonestly, KeepsConsent, Given, Behind, Executing, Live, Node

LEMMA DispatchMoves ==
  ASSUME GraphInv, NEW t \in Turn, Dispatch(t)
  PROVE  \E st, next : Moves(t, st, next) /\ UNCHANGED plans
<1> DEFINE f  == GateDeclared /\ mem[t].l2 = "pending"
           st == [mem[t] EXCEPT !.gated = f]
<1>1. at[t] = "dispatch" /\ Goto(t, st, route_after_dispatch(st)) /\ UNCHANGED plans
  BY DEF Dispatch, Dispatched, Quiet
<1>2. mem[t] \in State /\ Fits(at[t], mem[t])
  BY RunFacts
<1>3. f \in BOOLEAN
  BY GateAssumption
<1> HIDE DEF f
<1>4. st \in State
  BY Zenon, <1>2, <1>3 DEF State
<1>5. KeepsConsent(mem[t], st) /\ st.l2 = mem[t].l2 /\ st.phase = mem[t].phase
  BY <1>2 DEF State, KeepsConsent
<1>6. st.gated => GateDeclared = TRUE
  <2>1. st.gated = f
    BY Zenon, <1>2 DEF State
  <2>2. f => GateDeclared = TRUE
    BY GateAssumption DEF f
  <2>. QED BY Zenon, <2>1, <2>2
<1> HIDE DEF st
<1>7. HasConsent(st)
  BY <1>1, <1>2, <1>5, ConsentKept DEF Fits, Executing
<1>8. /\ route_after_dispatch(st) \in {"action_gate", "run_l0_batch"}
      /\ route_after_dispatch(st) = "action_gate" => GateDeclared = TRUE
  BY Zenon, <1>6 DEF route_after_dispatch
<1>9. Fits(route_after_dispatch(st), st)
  BY <1>2, <1>5, <1>7, <1>8 DEF Fits, KeepsConsent, Proposing, Executing
<1>. QED BY <1>1, <1>4, <1>5, <1>8, <1>9 DEF Moves, MovesHonestly, KeepsConsent, Given, Behind, Executing, Live, Node

\* The second confirmation is the only way to a consented L2 act.
LEMMA ActionGateMoves ==
  ASSUME GraphInv, NEW t \in Turn, ActionGate(t), armed[t]
  PROVE  \E st, next : Moves(t, st, next) /\ UNCHANGED plans
<1> DEFINE l2 == L2Outcome(inbox[t].reply)
           st == [mem[t] EXCEPT !.l2 = l2, !.gated = FALSE]
<1>1. at[t] = "action_gate" /\ Goto(t, st, "run_l0_batch") /\ UNCHANGED plans
  BY DEF ActionGate, Quiet
<1>2. mem[t] \in State /\ Fits(at[t], mem[t]) /\ inbox[t] \in Body
  BY RunFacts
<1>3. inbox[t].reply.token \in BOOLEAN
  BY <1>2, BodyFields
<1>4. /\ l2 \in {"consented", "blocked", "skipped"}
      /\ l2 = "consented" => Confirms(inbox[t])
  BY Zenon, <1>3 DEF L2Outcome, Confirms
<1> HIDE DEF l2
<1>5. st \in State
  BY Zenon, <1>2, <1>4 DEF State
<1>6. KeepsConsent(mem[t], st) /\ st.l2 = l2 /\ st.phase = mem[t].phase
  BY <1>2 DEF State, KeepsConsent
<1> HIDE DEF st
<1>7. HasConsent(st)
  BY <1>1, <1>2, <1>6, ConsentKept DEF Fits, Executing
<1>8. Fits("run_l0_batch", st)
  BY <1>2, <1>6, <1>7 DEF Fits, KeepsConsent, Proposing, Executing
<1>. QED BY <1>1, <1>4, <1>5, <1>6, <1>8 DEF Moves, MovesHonestly, KeepsConsent, Given, Behind, Executing, Live, Node

LEMMA RemindMoves ==
  ASSUME GraphInv, NEW t \in Turn, Remind(t)
  PROVE  \E st, next : Moves(t, st, next) /\ UNCHANGED plans
<1> DEFINE st == [mem[t] EXCEPT !.phase = "DONE"]
<1>1. at[t] = "remind" /\ Goto(t, st, "end") /\ UNCHANGED plans
  BY DEF Remind, Quiet
<1>2. mem[t] \in State /\ Fits(at[t], mem[t])
  BY RunFacts
<1>3. st \in State
  BY Zenon, <1>2 DEF State, Phase
<1>4. st.rounds = mem[t].rounds /\ st.l2 = mem[t].l2
  BY <1>2 DEF State
<1> HIDE DEF st
<1>. QED BY <1>1, <1>2, <1>3, <1>4
     DEF Moves, Fits, Proposing, Executing, MovesHonestly, Given, Behind, Live, Node

\* A run that stops at an interrupt.
Stops(t) ==
  \E gate \in {"question", "consent", "action"} :
    /\ Suspend(t, gate)
    /\ at[t] = [question |-> "ask", consent |-> "consent_gate", action |-> "action_gate"][gate]
    /\ ~armed[t]
    /\ UNCHANGED plans

\* Every step of a run is of one of these kinds.
LEMMA KindsOfSteps ==
  ASSUME GraphInv, NEW t \in Turn, TurnStep(t)
  PROVE  \/ \E st, next : Moves(t, st, next) /\ plans' \in {plans, plans + 1}
         \/ Stops(t)
         \/ LaunchReply(t) \/ Close(t) \/ BatchBegin(t) \/ BatchWork(t)
<1>1. CASE ~armed[t] /\ (Ask(t) \/ ConsentGate(t) \/ ActionGate(t))
  BY <1>1 DEF Ask, ConsentGate, ActionGate, Stops, Quiet, Node
<1>2. CASE armed[t] /\ (Ask(t) \/ ConsentGate(t) \/ ActionGate(t))
  BY <1>2, AskMoves, ConsentGateMoves, ActionGateMoves
<1>3. CASE PlanFinalize(t)
  BY <1>3, PlanFinalizeMoves
<1>4. CASE LaunchFresh(t) \/ IntakeJudged(t) \/ IntakeFailed(t) \/ Refuse(t) \/ SlotValidate(t)
  BY <1>4, LaunchFreshMoves, IntakeMoves, RefuseMoves, SlotValidateMoves
<1>5. CASE Clarify(t) \/ Draft(t) \/ AssembleItinerary(t) \/ BatchFinish(t) \/ AssumeFallback(t)
  BY <1>5, PassingMoves, AssumeFallbackMoves
<1>6. CASE PreviewRender(t) \/ ApplyEdit(t) \/ PlanActions(t) \/ Dispatch(t) \/ Remind(t)
  BY <1>6, PreviewRenderMoves, ApplyEditMoves, PlanActionsMoves, DispatchMoves, RemindMoves
<1>. QED BY <1>1, <1>2, <1>3, <1>4, <1>5, <1>6 DEF TurnStep

-----------------------------------------------------------------------------
(* What is offered, and what is executed.                                   *)

LEMMA FitsAnywhereElse ==
  ASSUME NEW node, NEW st, st.rounds <= MaxRounds,
         node \notin {"clarify", "ask", "assume_fallback"} \cup Proposing \cup Executing
  PROVE  Fits(node, st)
BY DEF Fits, Proposing

LEMMA NoneBelowZero == 0 <= MaxRounds
BY BoundsAssumption

\* A run that moves on leaves a checkpoint that fits, and is at a node it fits.
LEMMA MovesKeepGraph ==
  ASSUME GraphInv, NEW t \in Turn, NEW st, NEW next, Moves(t, st, next),
         plans' \in {plans, plans + 1}
  PROVE  GraphInv'
<1> DEFINE place == IF next = "end" THEN "closing" ELSE next
           kept  == IF next = "end" THEN initial_state ELSE st
<1>1. /\ ckpt' = [st |-> st, next |-> next, gate |-> "none"]
      /\ head' = {t}
      /\ at' = [at EXCEPT ![t] = place]
      /\ mem' = [mem EXCEPT ![t] = kept]
      /\ armed' = [armed EXCEPT ![t] = FALSE]
      /\ inbox' = inbox /\ dbPhase' = dbPhase /\ asked' = asked
  BY DEF Moves, Goto
<1>2. st \in State /\ next \in Node \cup {"end"} /\ Fits(next, st)
  BY DEF Moves
<1>3. place \in Live /\ kept \in State /\ (place \in Node => kept = st)
  BY <1>2, InitialState DEF Live, Node
<1>4. Fits(place, kept)
  <2>1. CASE next = "end"
    BY <2>1, InitialState, NoneBelowZero DEF Fits, Proposing, Executing
  <2>2. CASE next # "end"
    BY <1>2, <2>2
  <2>. QED BY <2>1, <2>2
<1> HIDE DEF place, kept
<1>5. SessionTypeOK'
  <2>1. at' \in [Turn -> Live \cup Rest] /\ mem' \in [Turn -> State]
    BY <1>1, <1>3 DEF GraphInv, SessionTypeOK
  <2>2. armed' \in [Turn -> BOOLEAN]
    BY Zenon, <1>1 DEF GraphInv, SessionTypeOK
  <2>3. ckpt' \in [st : State, next : Node \cup {"end"}, gate : Gate]
    BY <1>1, <1>2 DEF Gate
  <2>4. inbox' \in [Turn -> Body] /\ dbPhase' \in Phase /\ head' \subseteq Turn /\ plans' \in Nat
         /\ asked' \in Nat
    BY <1>1 DEF GraphInv, SessionTypeOK
  <2>. QED BY <2>1, <2>2, <2>3, <2>4 DEF SessionTypeOK
<1>6. ThreadInv'
  BY <1>1, <1>2 DEF ThreadInv
<1>7. RunsInv'
  <2>1. ASSUME NEW u \in Turn PROVE Fits(at'[u], mem'[u])
    BY <1>1, <1>4, RunFacts DEF GraphInv, SessionTypeOK
  <2>. QED BY <2>1 DEF RunsInv
<1>8. HeadInv'
  BY <1>1, <1>3 DEF GraphInv, SessionTypeOK, HeadInv
<1>. QED BY <1>5, <1>6, <1>7, <1>8 DEF GraphInv

\* An interrupt is recorded only on a checkpoint of the run's own state.
LEMMA StopsKeepGraph ==
  ASSUME GraphInv, NEW t \in Turn, Stops(t)
  PROVE  GraphInv'
<1>1. PICK gate \in {"question", "consent", "action"} :
        /\ Suspend(t, gate)
        /\ at[t] \in Node
        /\ gate = "consent" => at[t] = "consent_gate"
        /\ UNCHANGED plans
  BY DEF Stops, Node
<1>2. /\ ckpt' = IF t \in head THEN [ckpt EXCEPT !.gate = gate] ELSE ckpt
      /\ at' = [at EXCEPT ![t] = "closing"]
      /\ mem' = [mem EXCEPT ![t] = initial_state]
      /\ UNCHANGED <<head, inbox, armed, dbPhase, plans>>
      /\ asked' \in {asked, asked + 1}
  BY <1>1 DEF Suspend
<1>3. /\ ckpt' \in [st : State, next : Node \cup {"end"}, gate : Gate]
      /\ ckpt'.st = ckpt.st /\ ckpt'.next = ckpt.next
      /\ ckpt'.gate = "consent" => ckpt.gate = "consent" \/ (t \in head /\ gate = "consent")
  BY <1>2 DEF GraphInv, SessionTypeOK, Gate
<1>4. SessionTypeOK'
  BY <1>2, <1>3, InitialState DEF GraphInv, SessionTypeOK, Live
<1>5. ThreadInv'
  <2>1. ASSUME t \in head, gate = "consent" PROVE SlotsPassed(ckpt.st) /\ OnOffer(ckpt.st)
    <3>1. mem[t] = ckpt.st /\ Fits("consent_gate", mem[t])
      BY <1>1, <2>1, RunFacts DEF GraphInv, HeadInv
    <3>. QED BY <3>1 DEF Fits, Proposing
  <2>. QED BY <1>3, <2>1 DEF GraphInv, ThreadInv
<1>6. Fits("closing", initial_state)
  BY InitialState, NoneBelowZero DEF Fits, Proposing, Executing
<1>7. RunsInv'
  <2>1. ASSUME NEW u \in Turn PROVE Fits(at'[u], mem'[u])
    BY <1>2, <1>6, RunFacts DEF GraphInv, SessionTypeOK
  <2>. QED BY <2>1 DEF RunsInv
<1>8. HeadInv'
  BY <1>2, <1>3 DEF GraphInv, SessionTypeOK, HeadInv, Node
<1>. QED BY <1>4, <1>5, <1>7, <1>8 DEF GraphInv

\* A resumed run is given the checkpoint.
LEMMA LaunchReplyKeepsGraph ==
  ASSUME GraphInv, NEW t \in Turn, LaunchReply(t)
  PROVE  GraphInv'
<1>1. at[t] = "reply" /\ UNCHANGED <<ckpt, inbox, dbPhase, plans, asked>>
  BY DEF LaunchReply, Quiet
<1>2. CASE ckpt.next = "end"
  <2>1. at' = [at EXCEPT ![t] = "closing"] /\ UNCHANGED <<head, mem, armed>>
    BY <1>2 DEF LaunchReply
  <2>2. Fits("closing", mem[t])
    BY <1>1, RunFacts DEF Fits, Proposing, Executing
  <2>3. RunsInv'
    <3>1. ASSUME NEW u \in Turn PROVE Fits(at'[u], mem'[u])
      BY <2>1, <2>2, RunFacts DEF GraphInv, SessionTypeOK
    <3>. QED BY <3>1 DEF RunsInv
  <2>4. HeadInv'
    BY <1>1, <2>1 DEF GraphInv, SessionTypeOK, HeadInv, Node
  <2>5. SessionTypeOK' /\ ThreadInv'
    BY <1>1, <2>1 DEF GraphInv, SessionTypeOK, ThreadInv, Live
  <2>. QED BY <2>3, <2>4, <2>5 DEF GraphInv
<1>3. CASE ckpt.next # "end"
  <2>1. /\ at' = [at EXCEPT ![t] = ckpt.next] /\ mem' = [mem EXCEPT ![t] = ckpt.st]
        /\ armed' = [armed EXCEPT ![t] = TRUE] /\ head' = head \cup {t}
    BY <1>3 DEF LaunchReply
  <2>2. ckpt.next \in Node /\ ckpt.st \in State
    BY <1>3 DEF GraphInv, SessionTypeOK
  <2>3. armed' \in [Turn -> BOOLEAN]
    BY Zenon, <2>1 DEF GraphInv, SessionTypeOK
  <2>4. SessionTypeOK'
    BY <1>1, <2>1, <2>2, <2>3 DEF GraphInv, SessionTypeOK, Live
  <2>5. RunsInv'
    <3>1. ASSUME NEW u \in Turn PROVE Fits(at'[u], mem'[u])
      BY <2>1, RunFacts DEF GraphInv, SessionTypeOK
    <3>. QED BY <3>1 DEF RunsInv
  <2>6. HeadInv'
    BY <1>1, <2>1 DEF GraphInv, SessionTypeOK, HeadInv
  <2>7. ThreadInv'
    BY <1>1 DEF GraphInv, ThreadInv
  <2>. QED BY <2>4, <2>5, <2>6, <2>7 DEF GraphInv
<1>. QED BY <1>2, <1>3

\* Requests, ends, losses and the batch leave the thread as it is.
LEMMA OthersKeepGraph ==
  ASSUME GraphInv, NEW t \in Turn, NEW place,
         at' = [at EXCEPT ![t] = place], place \in Live \cup Rest, place \notin Node,
         place = "in_batch" => at[t] = "run_l0_batch",
         mem' \in {mem, [mem EXCEPT ![t] = initial_state]},
         place = "in_batch" => mem' = mem,
         inbox' \in [Turn -> Body], armed' \in [Turn -> BOOLEAN], dbPhase' \in Phase,
         UNCHANGED <<ckpt, head, plans, asked>>
  PROVE  GraphInv'
<1>1. SessionTypeOK'
  BY InitialState DEF GraphInv, SessionTypeOK
<1>2. ThreadInv'
  BY DEF GraphInv, ThreadInv
<1>3. Fits(place, mem'[t])
  <2>1. mem'[t].rounds <= MaxRounds
    BY RunFacts, InitialState, NoneBelowZero DEF GraphInv, SessionTypeOK, Fits
  <2>2. CASE place = "in_batch"
    BY <2>2, RunFacts DEF Fits, Proposing, Executing
  <2>3. CASE place # "in_batch"
    BY <2>1, <2>3, FitsAnywhereElse DEF Node, Live, Rest, Proposing, Executing
  <2>. QED BY <2>2, <2>3
<1>4. RunsInv'
  <2>1. ASSUME NEW u \in Turn PROVE Fits(at'[u], mem'[u])
    BY <1>3, RunFacts DEF GraphInv, SessionTypeOK
  <2>. QED BY <2>1 DEF RunsInv
<1>5. HeadInv'
  BY DEF GraphInv, SessionTypeOK, HeadInv
<1>. QED BY <1>1, <1>2, <1>4, <1>5 DEF GraphInv

LEMMA GraphStep == GraphInv /\ [Next]_vars => GraphInv'
<1> SUFFICES ASSUME GraphInv, [Next]_vars PROVE GraphInv'
  OBVIOUS
<1>1. inbox \in [Turn -> Body] /\ armed \in [Turn -> BOOLEAN] /\ dbPhase \in Phase
  BY DEF GraphInv, SessionTypeOK
<1>2. ASSUME NEW t \in Turn, NEW m \in Message, Send(t, m)
      PROVE  GraphInv'
  <2>1. [hash |-> 0, reply |-> TextOnly(m)] \in Body
    BY DEF Body, PlanId, Text
  <2>2. inbox' \in [Turn -> Body]
    BY <1>1, <1>2, <2>1 DEF Send
  <2>3. PICK place \in {"reply", "fresh"} : at' = [at EXCEPT ![t] = place]
    BY <1>2 DEF Send
  <2>4. UNCHANGED <<ckpt, head, mem, armed, plans, dbPhase, asked>>
    BY <1>2 DEF Send
  <2>. QED BY <1>1, <2>2, <2>3, <2>4, OthersKeepGraph DEF Live, Rest, Node
<1>3. ASSUME NEW t \in Turn, NEW r \in Reply, NEW h \in 0..plans, Resume(t, r, h)
      PROVE  GraphInv'
  <2>1. [hash |-> h, reply |-> r] \in Body
    BY DEF Body, PlanId, GraphInv, SessionTypeOK
  <2>2. inbox' \in [Turn -> Body]
    BY <1>1, <1>3, <2>1 DEF Resume
  <2>3. PICK place \in {"reply", "done"} : at' = [at EXCEPT ![t] = place]
    BY <1>3 DEF Resume
  <2>4. UNCHANGED <<ckpt, head, mem, armed, plans, dbPhase, asked>>
    BY <1>3 DEF Resume
  <2>. QED BY <1>1, <2>2, <2>3, <2>4, OthersKeepGraph DEF Live, Rest, Node
<1>4. ASSUME NEW t \in Turn, TurnStep(t)
      PROVE  GraphInv'
  <2>1. ASSUME NEW st, NEW next, Moves(t, st, next), plans' \in {plans, plans + 1}
        PROVE  GraphInv'
    BY <2>1, MovesKeepGraph
  <2>2. CASE Stops(t)
    BY <2>2, StopsKeepGraph
  <2>3. CASE LaunchReply(t)
    BY <2>3, LaunchReplyKeepsGraph
  <2>4. CASE Close(t)
    <3>1. /\ at' = [at EXCEPT ![t] = "done"] /\ dbPhase' = ckpt.st.phase
          /\ UNCHANGED <<ckpt, head, mem, inbox, armed, plans, asked>>
      BY <2>4 DEF Close, Quiet
    <3>2. ckpt.st.phase \in Phase
      BY RunFacts, StateFields
    <3>. QED BY <1>1, <3>1, <3>2, OthersKeepGraph DEF Live, Rest, Node
  <2>5. CASE BatchBegin(t)
    <3>1. /\ at[t] = "run_l0_batch" /\ at' = [at EXCEPT ![t] = "in_batch"]
          /\ UNCHANGED <<ckpt, head, mem, inbox, armed, plans, dbPhase, asked>>
      BY <2>5 DEF BatchBegin
    <3>. QED BY <1>1, <3>1, OthersKeepGraph DEF Live, Rest, Node
  <2>6. CASE BatchWork(t)
    <3>1. UNCHANGED sessionVars
      BY <2>6 DEF BatchWork
    <3>. QED BY <3>1 DEF sessionVars, GraphInv, SessionTypeOK, ThreadInv, RunsInv, HeadInv
  <2>. QED BY <1>4, <2>1, <2>2, <2>3, <2>4, <2>5, <2>6, KindsOfSteps
<1>5. ASSUME NEW t \in Turn, Abort(t)
      PROVE  GraphInv'
  <2>1. /\ at' = [at EXCEPT ![t] = "aborted"] /\ mem' = [mem EXCEPT ![t] = initial_state]
        /\ UNCHANGED <<ckpt, head, inbox, plans, dbPhase, asked>>
    BY <1>5 DEF Abort
  <2>2. armed' \in [Turn -> BOOLEAN]
    BY Zenon, <1>1, <1>5 DEF Abort
  <2>. QED BY <1>1, <2>1, <2>2, OthersKeepGraph DEF Live, Rest, Node
<1>6. CASE Channel \/ UNCHANGED vars
  <2>1. UNCHANGED sessionVars
    BY <1>6, VarsSplit DEF Channel
  <2>. QED BY <2>1 DEF sessionVars, GraphInv, SessionTypeOK, ThreadInv, RunsInv, HeadInv
<1>. QED BY <1>2, <1>3, <1>4, <1>5, <1>6 DEF Next

LEMMA GraphInit == Init => GraphInv
<1> SUFFICES ASSUME Init PROVE GraphInv
  OBVIOUS
<1>1. SessionTypeOK
  BY InitialState, EmptyBody DEF Init, SessionTypeOK, Node, Gate, Live, Rest, Phase
<1>2. ThreadInv /\ RunsInv /\ HeadInv
  BY InitialState, NoneBelowZero
     DEF Init, ThreadInv, RunsInv, HeadInv, Fits, Proposing, Executing, Node
<1>. QED BY <1>1, <1>2 DEF GraphInv

-----------------------------------------------------------------------------
(* The second confirmation, the acts that were tried, and the row of the    *)
(* session.                                                                 *)

LEMMA KindsOfChanges ==
  ASSUME GraphInv, [Next]_vars
  PROVE  \/ \E t \in Turn : \E st, next : Moves(t, st, next)
         \/ \E t \in Turn : Stops(t) \/ LaunchReply(t) \/ Close(t) \/ BatchBegin(t) \/ Abort(t)
         \/ \E t \in Turn, m \in Message : Send(t, m)
         \/ \E t \in Turn, r \in Reply, h \in 0..plans : Resume(t, r, h)
         \/ UNCHANGED sessionVars
<1>1. ASSUME NEW t \in Turn, TurnStep(t)
      PROVE  \/ \E st, next : Moves(t, st, next)
             \/ Stops(t) \/ LaunchReply(t) \/ Close(t) \/ BatchBegin(t)
             \/ UNCHANGED sessionVars
  BY <1>1, KindsOfSteps DEF BatchWork
<1>2. Channel \/ UNCHANGED vars => UNCHANGED sessionVars
  BY VarsSplit DEF Channel
<1>. QED BY <1>1, <1>2 DEF Next

LEMMA GrantedOnlyAtBegin ==
  ASSUME [Next]_vars
  PROVE  granted' = granted \/ \E t \in Turn : BatchBegin(t)
<1>1. ASSUME NEW t \in Turn, TurnStep(t), ~BatchBegin(t)
      PROVE  granted' = granted
  <2>1. CASE BatchWork(t) \/ BatchFinish(t)
    BY <2>1 DEF BatchWork, BatchFinish, Exec!SkipUnconsented, Exec!Claim, Exec!Duplicate,
                Exec!Invoke, Exec!Return, Exec!Settle, Exec!Finish
  <2>2. CASE ~BatchWork(t) /\ ~BatchFinish(t)
    <3>1. UNCHANGED execVars
      BY <1>1, <2>2
         DEF TurnStep, Quiet, LaunchFresh, LaunchReply, Close, IntakeJudged, IntakeFailed,
             Refuse, SlotValidate, Clarify, Ask, AssumeFallback, Draft, PlanFinalize,
             PreviewRender, ConsentGate, ApplyEdit, PlanActions, Dispatch, ActionGate,
             AssembleItinerary, Remind
    <3>. QED BY <3>1 DEF execVars
  <2>. QED BY <2>1, <2>2
<1>2. ASSUME NEW t \in Turn, Abort(t)
      PROVE  granted' = granted
  BY <1>2 DEF Abort, Exec!Abort, execVars
<1>3. ASSUME Channel
      PROVE  granted' = granted
  BY <1>3 DEF Channel, Exec!Perform
<1>4. ASSUME NEW t \in Turn, NEW m \in Message, Send(t, m)
      PROVE  granted' = granted
  BY <1>4 DEF Send, execVars
<1>5. ASSUME NEW t \in Turn, NEW r \in Reply, NEW h \in 0..plans, Resume(t, r, h)
      PROVE  granted' = granted
  BY <1>5 DEF Resume, execVars
<1>6. UNCHANGED vars => granted' = granted
  BY DEF vars, execVars
<1>. QED BY <1>1, <1>2, <1>3, <1>4, <1>5, <1>6 DEF Next

LEMMA TokenStep == GraphInv /\ TokenInv /\ [Next]_vars => TokenInv'
<1> SUFFICES ASSUME GraphInv, TokenInv, [Next]_vars PROVE TokenInv'
  OBVIOUS
<1>0. /\ ckpt.st \in State /\ at \in [Turn -> Live \cup Rest] /\ mem \in [Turn -> State]
      /\ inbox \in [Turn -> Body]
  BY DEF GraphInv, SessionTypeOK
\* What the rest of a step must leave alone, for the invariant to be kept.
<1>1. ASSUME \A u \in Turn : at'[u] = "new" => at[u] = "new" /\ inbox'[u] = inbox[u],
             \A u \in Turn : at[u] # "new" => inbox'[u] = inbox[u],
             ckpt'.st.l2 = "consented" => TokenGiven,
             \A u \in Turn : mem'[u].l2 = "consented" => TokenGiven
      PROVE  TokenInv'
  <2>1. TokenGiven => TokenGiven'
    <3>1. ASSUME NEW u \in Turn, Confirms(inbox[u])
          PROVE  Confirms(inbox'[u])
      <4>1. at[u] # "new"
        BY <3>1, EmptyBody DEF TokenInv
      <4>. QED BY <1>1, <3>1, <4>1
    <3>. QED BY <3>1 DEF TokenGiven
  <2>2. \A u \in Turn : granted'[u] # {} => TokenGiven
    <3>1. CASE granted' = granted
      BY <3>1 DEF TokenInv
    <3>2. ASSUME NEW t \in Turn, BatchBegin(t)
          PROVE  \A u \in Turn : granted'[u] # {} => TokenGiven
      <4>1. granted' = [granted EXCEPT ![t] = Consented(mem[t])]
        BY <3>2 DEF BatchBegin, Exec!Begin
      <4>2. Consented(mem[t]) # {} => TokenGiven
        BY DEF Consented, TokenInv
      <4>3. \A u \in Turn : u # t => granted'[u] = granted[u]
        BY <4>1
      <4>4. granted'[t] # {} => Consented(mem[t]) # {} \/ granted[t] # {}
        BY <4>1
      <4>. QED BY <4>2, <4>3, <4>4 DEF TokenInv
    <3>. QED BY <3>1, <3>2, GrantedOnlyAtBegin
  <2>3. \A u \in Turn : at'[u] = "new" => inbox'[u] = NoBody
    BY <1>1 DEF TokenInv
  <2>. QED BY <1>1, <2>1, <2>2, <2>3 DEF TokenInv
<1>2. ASSUME NEW t \in Turn, NEW st, NEW next, Moves(t, st, next)
      PROVE  TokenInv'
  <2>1. /\ ckpt'.st = st /\ inbox' = inbox /\ at[t] # "new"
        /\ at' = [at EXCEPT ![t] = IF next = "end" THEN "closing" ELSE next]
        /\ mem' = [mem EXCEPT ![t] = IF next = "end" THEN initial_state ELSE st]
        /\ next \in Node \cup {"end"}
    BY <1>2 DEF Moves, Goto, Live, Node
  <2>2. st.l2 = "consented" => TokenGiven
    <3>1. st.l2 = "consented" => Given(t).l2 = "consented" \/ Confirms(inbox[t])
      BY <1>2 DEF Moves, MovesHonestly
    <3>. QED BY <3>1 DEF Given, TokenInv, TokenGiven
  <2>3. \A u \in Turn : mem'[u].l2 = "consented" => TokenGiven
    BY <1>0, <2>1, <2>2, InitialState DEF TokenInv
  <2>4. \A u \in Turn : at'[u] = "new" => at[u] = "new"
    BY <1>0, <2>1 DEF Node
  <2>. QED BY <1>1, <2>1, <2>2, <2>3, <2>4
<1>3. ASSUME NEW t \in Turn, Stops(t) \/ LaunchReply(t) \/ Close(t) \/ BatchBegin(t) \/ Abort(t)
      PROVE  TokenInv'
  <2>1. /\ inbox' = inbox /\ ckpt'.st = ckpt.st
        /\ \E place \in Node \cup {"closing", "done", "in_batch", "aborted"} :
             at' = [at EXCEPT ![t] = place]
        /\ mem' \in {mem, [mem EXCEPT ![t] = initial_state], [mem EXCEPT ![t] = ckpt.st]}
    BY <1>0, <1>3 DEF Stops, Suspend, LaunchReply, Close, BatchBegin, Abort, Quiet,
                      GraphInv, SessionTypeOK
  <2>2. at[t] # "new"
    BY <1>3 DEF Stops, LaunchReply, Close, BatchBegin, Abort, Quiet, Node, Live
  <2>3. \A u \in Turn : mem'[u].l2 = "consented" => TokenGiven
    BY <1>0, <2>1, InitialState DEF TokenInv
  <2>4. \A u \in Turn : at'[u] = "new" => at[u] = "new"
    BY <1>0, <2>1 DEF Node
  <2>. QED BY <1>1, <2>1, <2>3, <2>4 DEF TokenInv
<1>4. ASSUME NEW t \in Turn,
             \/ \E m \in Message : Send(t, m)
             \/ \E r \in Reply, h \in 0..plans : Resume(t, r, h)
      PROVE  TokenInv'
  <2>1. /\ at[t] = "new" /\ UNCHANGED <<ckpt, mem>>
        /\ \E place \in {"reply", "fresh", "done"} : at' = [at EXCEPT ![t] = place]
        /\ \E body : inbox' = [inbox EXCEPT ![t] = body]
    BY <1>4 DEF Send, Resume, Arrives
  <2>2. \A u \in Turn : at'[u] = "new" => at[u] = "new" /\ inbox'[u] = inbox[u]
    BY <1>0, <2>1
  <2>3. \A u \in Turn : at[u] # "new" => inbox'[u] = inbox[u]
    BY <1>0, <2>1
  <2>. QED BY <1>1, <2>1, <2>2, <2>3 DEF TokenInv
<1>5. CASE UNCHANGED sessionVars
  BY <1>1, <1>5 DEF sessionVars, TokenInv
<1>. QED BY <1>2, <1>3, <1>4, <1>5, KindsOfChanges

LEMMA DoneStep == GraphInv /\ DoneInv /\ LedgerInv /\ [Next]_vars => DoneInv'
<1> SUFFICES ASSUME GraphInv, DoneInv, LedgerInv, [Next]_vars PROVE DoneInv'
  OBVIOUS
<1>0. /\ ckpt.st \in State /\ at \in [Turn -> Live \cup Rest] /\ mem \in [Turn -> State]
      /\ ckpt \in [st : State, next : Node \cup {"end"}, gate : Gate]
  BY DEF GraphInv, SessionTypeOK
<1>1. L!EngagedStays /\ L!NothingSlips
  BY SessionStepsLedger, VarsSplit, LedgerStep
<1>2. \A k \in Key : Tried(k) => Tried(k)'
  BY <1>1 DEF Tried, Exec!Engaged, L!EngagedStays, L!Engaged
<1>3. ActsTried => ActsTried'
  BY <1>2 DEF ActsTried
<1>4. \A u \in Turn : Covered(u) => Covered(u)'
  <2>1. ASSUME NEW u \in Turn, Covered(u)
        PROVE  /\ pc'[u] # "new"
               /\ \A k \in Key \ Gated : k \in todo'[u] \/ Tried(k)
    BY <1>1, <2>1 DEF Covered, L!NothingSlips, Tried, Exec!Engaged, L!Engaged
  <2>. QED BY <1>2, <2>1 DEF Covered
<1>5. ASSUME \A u \in Turn : at'[u] = "in_batch" => Covered(u) \/ Covered(u)',
             ckpt'.next \in Behind \/ ckpt'.st.phase = "DONE" => ActsTried,
             \A u \in Turn : at'[u] \in Behind \/ mem'[u].phase = "DONE" => ActsTried
      PROVE  DoneInv'
  BY <1>3, <1>4, <1>5 DEF DoneInv
<1>6. ASSUME NEW t \in Turn, NEW st, NEW next, Moves(t, st, next)
      PROVE  DoneInv'
  <2>1. /\ ckpt'.st = st /\ ckpt'.next = next
        /\ at' = [at EXCEPT ![t] = IF next = "end" THEN "closing" ELSE next]
        /\ mem' = [mem EXCEPT ![t] = IF next = "end" THEN initial_state ELSE st]
        /\ next \in Node \cup {"end"}
    BY <1>6 DEF Moves, Goto
  <2>2. st.phase = "DONE" => ActsTried
    <3>1. st.phase = "DONE" => Given(t).phase = "DONE" \/ at[t] \in Behind
      BY <1>6 DEF Moves, MovesHonestly, Behind
    <3>. QED BY <3>1 DEF Given, DoneInv
  <2>3. next \in Behind => ActsTried
    <3>1. next \in Behind => at[t] \in Behind \/ (at[t] = "in_batch" /\ todo[t] = {})
      BY <1>6 DEF Moves, MovesHonestly
    <3>2. at[t] = "in_batch" /\ todo[t] = {} => ActsTried
      BY DEF DoneInv, Covered, ActsTried
    <3>. QED BY <3>1, <3>2 DEF DoneInv
  <2>4. \A u \in Turn : at'[u] = "in_batch" => at[u] = "in_batch"
    BY <1>0, <2>1 DEF Node
  <2>5. \A u \in Turn : at'[u] \in Behind \/ mem'[u].phase = "DONE" => ActsTried
    <3>1. ASSUME NEW u \in Turn, u # t
          PROVE  at'[u] = at[u] /\ mem'[u] = mem[u]
      BY <1>0, <2>1, <3>1
    <3>2. /\ at'[t] = IF next = "end" THEN "closing" ELSE next
          /\ mem'[t] = IF next = "end" THEN initial_state ELSE st
      BY <1>0, <2>1
    <3>3. at'[t] \in Behind \/ mem'[t].phase = "DONE" => ActsTried
      BY <2>2, <2>3, <3>2, InitialState DEF Behind
    <3>. QED BY <3>1, <3>3 DEF DoneInv
  <2>. QED BY <1>5, <2>1, <2>2, <2>3, <2>4, <2>5 DEF DoneInv
<1>7. ASSUME NEW t \in Turn, Stops(t) \/ LaunchReply(t) \/ Close(t) \/ Abort(t)
      PROVE  DoneInv'
  <2>1. /\ ckpt'.st = ckpt.st /\ ckpt'.next = ckpt.next
        /\ \E place \in {ckpt.next, "closing", "done", "aborted"} :
             at' = [at EXCEPT ![t] = place] /\ (place = ckpt.next => place # "end")
        /\ mem' \in {mem, [mem EXCEPT ![t] = initial_state], [mem EXCEPT ![t] = ckpt.st]}
    <3>1. CASE Stops(t)
      BY <1>0, <3>1 DEF Stops, Suspend
    <3>2. CASE LaunchReply(t)
      BY <1>0, <3>2 DEF LaunchReply, Quiet
    <3>3. CASE Close(t) \/ Abort(t)
      BY <1>0, <3>3 DEF Close, Abort, Quiet
    <3>. QED BY <1>7, <3>1, <3>2, <3>3
  <2>2. \A u \in Turn : at'[u] = "in_batch" => at[u] = "in_batch"
    BY <1>0, <2>1 DEF Node
  <2>3. \A u \in Turn : mem'[u].phase = "DONE" => ActsTried
    BY <1>0, <2>1, InitialState DEF DoneInv
  <2>4. \A u \in Turn : at'[u] \in Behind => ActsTried
    BY <1>0, <2>1 DEF DoneInv, Behind
  <2>. QED BY <1>5, <2>1, <2>2, <2>3, <2>4 DEF DoneInv
<1>8. ASSUME NEW t \in Turn, BatchBegin(t)
      PROVE  DoneInv'
  <2>1. at' = [at EXCEPT ![t] = "in_batch"] /\ UNCHANGED <<ckpt, mem>>
    BY <1>8 DEF BatchBegin
  <2>2. pc[t] = "new" /\ pc' = [pc EXCEPT ![t] = "loop"] /\ todo' = [todo EXCEPT ![t] = Pending(mem[t])]
    BY <1>8 DEF BatchBegin, Exec!Begin
  <2>3. pc'[t] = "loop" /\ todo'[t] = Pending(mem[t])
    BY <2>2 DEF LedgerInv, L!Inv, L!TypeInv, L!TypeOK
  <2>4. Covered(t)'
    BY <2>3 DEF Covered, Pending
  <2>5. \A u \in Turn : u # t => at'[u] = at[u]
    BY <1>0, <2>1
  <2>6. at'[t] = "in_batch"
    BY <1>0, <2>1
  <2>7. \A u \in Turn : at'[u] = "in_batch" => Covered(u) \/ Covered(u)'
    BY <2>4, <2>5 DEF DoneInv
  <2>8. \A u \in Turn : at'[u] \in Behind \/ mem'[u].phase = "DONE" => ActsTried
    BY <2>1, <2>5, <2>6 DEF DoneInv, Behind
  <2>. QED BY <1>5, <2>1, <2>7, <2>8 DEF DoneInv
<1>9. ASSUME NEW t \in Turn,
             \/ \E m \in Message : Send(t, m)
             \/ \E r \in Reply, h \in 0..plans : Resume(t, r, h)
      PROVE  DoneInv'
  <2>1. /\ UNCHANGED <<ckpt, mem>>
        /\ \E place \in {"reply", "fresh", "done"} : at' = [at EXCEPT ![t] = place]
    BY <1>9 DEF Send, Resume
  <2>2. \A u \in Turn : at'[u] \in Behind \cup {"in_batch"} => at'[u] = at[u]
    BY <1>0, <2>1 DEF Behind
  <2>. QED BY <1>5, <2>1, <2>2 DEF DoneInv
<1>10. CASE UNCHANGED sessionVars
  BY <1>5, <1>10 DEF sessionVars, DoneInv
<1>. QED BY <1>6, <1>7, <1>8, <1>9, <1>10, KindsOfChanges

LEMMA SyncStep == GraphInv /\ SyncInv /\ [Next]_vars => SyncInv'
<1> SUFFICES ASSUME GraphInv, SyncInv, [Next]_vars PROVE SyncInv'
  OBVIOUS
<1>0. at \in [Turn -> Live \cup Rest]
  BY DEF GraphInv, SessionTypeOK
<1>1. ASSUME NEW t \in Turn, at'[t] \in Live \cup {"aborted"}
      PROVE  SyncInv'
  BY <1>1 DEF SyncInv, AtRest, NoneLost, Live, Node, Rest
<1>2. ASSUME NEW t \in Turn, NEW st, NEW next, Moves(t, st, next)
      PROVE  SyncInv'
  <2>1. /\ at' = [at EXCEPT ![t] = IF next = "end" THEN "closing" ELSE next]
        /\ next \in Node \cup {"end"}
    BY <1>2 DEF Moves, Goto
  <2>2. at'[t] \in Live
    BY <1>0, <2>1 DEF Live
  <2>. QED BY <1>1, <2>2
<1>3. ASSUME NEW t \in Turn, Stops(t) \/ LaunchReply(t) \/ BatchBegin(t) \/ Abort(t)
      PROVE  SyncInv'
  <2>1. at'[t] \in Live \cup {"aborted"}
    BY <1>0, <1>3 DEF Stops, Suspend, LaunchReply, BatchBegin, Abort, Live,
                      GraphInv, SessionTypeOK
  <2>. QED BY <1>1, <2>1
<1>4. ASSUME NEW t \in Turn, Close(t)
      PROVE  SyncInv'
  BY <1>4 DEF Close, Quiet, SyncInv
<1>5. ASSUME NEW t \in Turn,
             \/ \E m \in Message : Send(t, m)
             \/ \E r \in Reply, h \in 0..plans : Resume(t, r, h)
      PROVE  SyncInv'
  <2>1. /\ UNCHANGED <<ckpt, dbPhase>> /\ at[t] = "new"
        /\ \E place \in {"reply", "fresh", "done"} : at' = [at EXCEPT ![t] = place]
    BY <1>5 DEF Send, Resume, Arrives
  <2>2. \A u \in Turn : /\ at'[u] \in Rest => at[u] \in Rest
                        /\ at'[u] # "aborted" => at[u] # "aborted"
    BY <1>0, <2>1 DEF Rest
  <2>. QED BY <2>1, <2>2 DEF SyncInv, AtRest, NoneLost
<1>6. CASE UNCHANGED sessionVars
  BY <1>6 DEF sessionVars, SyncInv, AtRest, NoneLost
<1>. QED BY <1>2, <1>3, <1>4, <1>5, <1>6, KindsOfChanges

-----------------------------------------------------------------------------
(* The theorems.                                                            *)

LEMMA Inductive == (Init => Inv) /\ (Inv /\ [Next]_vars => Inv')
<1>1. ASSUME Init PROVE Inv
  <2>1. GraphInv /\ LedgerInv
    BY <1>1, GraphInit, LedgerBegins DEF Init
  <2>2. TokenInv
    BY <1>1, InitialState DEF Init, TokenInv, Exec!Init
  <2>3. DoneInv
    BY <1>1, InitialState DEF Init, DoneInv, Behind
  <2>4. SyncInv
    BY <1>1, InitialState DEF Init, SyncInv
  <2>. QED BY <2>1, <2>2, <2>3, <2>4 DEF Inv
<1>2. Inv /\ [Next]_vars => Inv'
  <2> SUFFICES ASSUME Inv, [Next]_vars PROVE Inv'
    OBVIOUS
  <2>1. LedgerInv'
    BY SessionStepsLedger, VarsSplit, LedgerStep DEF Inv
  <2>. QED BY <2>1, GraphStep, TokenStep, DoneStep, SyncStep DEF Inv
<1>. QED BY <1>1, <1>2

\* The invariant holds in every state of a session.
THEOREM Invariant == Spec => []Inv
BY Inductive, PTL DEF Spec

\* The thread, the runs, the requests and the ledger keep their types.
THEOREM TypeCorrect == Spec => []TypeOK
<1>1. Exec!TypeOK <=> L!TypeOK
  BY DEF Exec!TypeOK, L!TypeOK, Exec!RowStatus, L!RowStatus, Exec!Place, L!Place,
         Exec!Working, L!Working, Exec!ActStatus, L!ActStatus, Exec!Answer, L!Answer
<1>2. Inv => TypeOK
  BY <1>1 DEF Inv, GraphInv, SessionTypeOK, TypeOK, LedgerInv, L!Inv, L!TypeInv
<1>. QED BY Invariant, <1>2, PTL

\* What is offered, consented, confirmed and executed is one plan, and complete:
\* the consent gate and the checks around it (nodes/gates.py, nodes/planning.py,
\* runner.py resume), whatever runs overlap or are lost.
THEOREM ConsentAlwaysToThePlan == Spec => []ConsentIsToThePlan
<1>1. ASSUME Inv, TypeOK PROVE ConsentIsToThePlan
  <2>1. GateOffersCurrentPlan
    BY <1>1 DEF Inv, GraphInv, ThreadInv, OnOffer, GateOffersCurrentPlan
  <2>2. GateOnCompleteSlots
    BY <1>1 DEF Inv, GraphInv, ThreadInv, SlotsPassed, GateOnCompleteSlots
  <2>3. OnlyConsentedPlansRun
    <3>1. ASSUME NEW t \in Turn, at[t] \in Executing
          PROVE  HasConsent(mem[t])
      BY <1>1, <3>1 DEF Inv, GraphInv, RunsInv, Fits
    <3>. QED BY <3>1 DEF OnlyConsentedPlansRun, HasConsent
  <2>4. ConfirmedBeforeCall
    <3>1. ASSUME NEW t \in Turn, NEW k \in Gated, <<t, k>> \in sent
          PROVE  k \in granted[t]
      BY <1>1, <3>1 DEF Inv, LedgerInv, L!OwnersInv, L!GatedIsGranted, L!Engaged
    <3>2. ASSUME NEW t \in Turn, granted[t] # {}
          PROVE  \E u \in Turn : inbox[u].reply.decision = "approve" /\ inbox[u].reply.token
      BY <1>1, <3>2 DEF Inv, TokenInv, TokenGiven, Confirms
    <3>. QED BY <3>1, <3>2 DEF ConfirmedBeforeCall
  <2>. QED BY <1>1, <2>1, <2>2, <2>3, <2>4 DEF ConsentIsToThePlan
<1>. QED BY Invariant, TypeCorrect, <1>1, PTL

\* What a session leaves behind is so: each act called once, every act tried
\* when it says DONE, and its row in the sessions table the thread's.
THEOREM EndsAlwaysTrue == Spec => []EndsAreTrue
<1>1. Inv => NoActCalledTwice
  BY DEF Inv, LedgerInv, L!Inv, L!OneEngaged, L!Engaged, NoActCalledTwice, Exec!AtMostOneCall
<1>2. Inv => DoneMeansTried
  BY DEF Inv, DoneInv, ActsTried, Tried, DoneMeansTried
<1>3. Inv => PhaseSynced
  BY DEF Inv, SyncInv, PhaseSynced
<1>4. Inv => EndsAreTrue
  BY <1>1, <1>2, <1>3 DEF EndsAreTrue
<1>. QED BY Invariant, <1>4, PTL


-----------------------------------------------------------------------------
(* One request at a time.                                                   *)

\* One run at a time; any of them may be lost.
OneRun == \A t, u \in Turn : at[t] \in Live /\ at[u] \in Live => t = u

\* A run under way in a node has the thread's state, and the question that is
\* pending, if one is, it has come to answer.
RunsTheThread(t) ==
  /\ t \in head
  /\ mem[t].rounds = ckpt.st.rounds
  /\ at[t] \in Node => at[t] = ckpt.next
  /\ ckpt.gate = "question" => at[t] = "ask" /\ armed[t] = TRUE

\* What was asked is what was answered, and the question that is pending.
AskedInv ==
  /\ asked <= ckpt.st.rounds + (IF ckpt.gate = "question" THEN 1 ELSE 0)
  /\ ckpt.gate = "question" => ckpt.next = "ask"
  /\ \A t \in Turn : at[t] = "fresh" => ckpt.gate # "question"
  /\ \A t \in Turn : at[t] \in Node \cup {"in_batch"} => RunsTheThread(t)

\* The command line: the next request comes when the last is over, none is lost,
\* and the action gate is out of reach, as it is in the code.
OneAtATime == MaxLive = 1 /\ MaxAborts = 0 /\ GateDeclared = FALSE

\* Then a thread that is left in the middle of its execution has its run.
SoloInv ==
  /\ OneRun
  /\ \A t \in Turn : at[t] # "aborted"
  /\ \A t \in Turn : at[t] \in Executing => /\ at[t] # "action_gate"
                                            /\ AsApproved(mem[t], inbox[t])
  /\ ckpt.next \in Executing => \E t \in Turn : at[t] \in Executing

LEMMA ExecutingIsLive == Executing \subseteq Live
BY DEF Executing, Live, Node

LEMMA NobodyElse ==
  ASSUME MaxLive = 1, OneRun, NEW t \in Turn, Arrives(t)
  PROVE  \A u \in Turn : at[u] \notin Live
<1> DEFINE live == {u \in Turn : at[u] \in Live}
<1>1. Cardinality(live) < 1
  BY DEF Arrives
<1>2. ASSUME NEW u \in live PROVE FALSE
  <2>1. live = {u}
    BY DEF OneRun
  <2>2. Cardinality(live) = 1
    BY <2>1, FS_Singleton
  <2>. QED BY <1>1, <2>2
<1>. QED BY <1>2

\* What a step does to the places of the runs.
LEMMA OneRunStep ==
  ASSUME MaxLive = 1, GraphInv, OneRun, [Next]_vars
  PROVE  OneRun'
<1>0. at \in [Turn -> Live \cup Rest]
  BY DEF GraphInv, SessionTypeOK
<1>1. ASSUME NEW t \in Turn, at[t] \in Live \/ (\A u \in Turn : at[u] \notin Live),
             NEW place, at' = [at EXCEPT ![t] = place]
      PROVE  OneRun'
  BY <1>0, <1>1 DEF OneRun
<1>2. ASSUME NEW t \in Turn, NEW st, NEW next, Moves(t, st, next)
      PROVE  OneRun'
  BY <1>1, <1>2 DEF Moves, Goto
<1>3. ASSUME NEW t \in Turn, Stops(t) \/ LaunchReply(t) \/ Close(t) \/ BatchBegin(t) \/ Abort(t)
      PROVE  OneRun'
  <2>1. at[t] \in Live /\ \E place : at' = [at EXCEPT ![t] = place]
    BY <1>3 DEF Stops, Suspend, LaunchReply, Close, BatchBegin, Abort, Quiet, Live, Node
  <2>. QED BY <1>1, <2>1
<1>4. ASSUME NEW t \in Turn,
             \/ \E m \in Message : Send(t, m)
             \/ \E r \in Reply, h \in 0..plans : Resume(t, r, h)
      PROVE  OneRun'
  <2>1. Arrives(t) /\ \E place : at' = [at EXCEPT ![t] = place]
    BY <1>4 DEF Send, Resume
  <2>. QED BY <1>1, <2>1, NobodyElse
<1>5. CASE UNCHANGED sessionVars
  BY <1>5 DEF sessionVars, OneRun
<1>. QED BY <1>2, <1>3, <1>4, <1>5, KindsOfChanges

LEMMA RequestsKeepSolo ==
  ASSUME OneAtATime, GraphInv, SoloInv, NEW t \in Turn,
         \/ \E m \in Message : Send(t, m)
         \/ \E r \in Reply, h \in 0..plans : Resume(t, r, h)
  PROVE  SoloInv'
<1>1. at[t] = "new" /\ Arrives(t) /\ UNCHANGED <<ckpt, mem>>
  BY DEF Send, Resume, Arrives
<1>2. PICK place \in {"reply", "fresh", "done"} : at' = [at EXCEPT ![t] = place]
  BY DEF Send, Resume
<1>3. \A u \in Turn : u # t => inbox'[u] = inbox[u]
  BY DEF Send, Resume, GraphInv, SessionTypeOK
<1>4. \A u \in Turn : at[u] \notin Live
  BY <1>1, NobodyElse DEF SoloInv, OneAtATime
<1>5. \A u \in Turn : at[u] \notin Live /\ (u # t => at'[u] = at[u]) /\ at'[t] = place
  BY <1>2, <1>4 DEF GraphInv, SessionTypeOK
<1>6. place \notin Executing /\ place # "aborted"
  BY DEF Executing
<1>. QED BY <1>1, <1>5, <1>6, ExecutingIsLive DEF SoloInv, OneRun

\* A run that moves into the execution comes from it, or from an approval.
LEMMA MovesKeepSolo ==
  ASSUME OneAtATime, GraphInv, SoloInv, NEW t \in Turn, NEW st, NEW next, Moves(t, st, next)
  PROVE  SoloInv'
<1> DEFINE place == IF next = "end" THEN "closing" ELSE next
<1>1. /\ ckpt'.next = next /\ inbox' = inbox
      /\ at' = [at EXCEPT ![t] = place]
      /\ next \in Node \cup {"end"} /\ at[t] \in Live
  BY DEF Moves, Goto
<1>2. place \in Live /\ (place \in Executing <=> next \in Executing)
  BY <1>1 DEF Live, Executing
<1>3. next \in Executing => next # "action_gate" /\ AsApproved(st, inbox[t])
  <2>1. at[t] \in Executing => AsApproved(mem[t], inbox[t])
    BY DEF SoloInv
  <2>2. AsApproved(mem[t], inbox[t]) /\ KeepsConsent(mem[t], st) => AsApproved(st, inbox[t])
    BY DEF AsApproved, KeepsConsent
  <2>. QED BY <2>1, <2>2 DEF Moves, MovesHonestly, OneAtATime
<1>4. /\ \A u \in Turn : u # t => at'[u] = at[u] /\ mem'[u] = mem[u]
      /\ at'[t] = place
      /\ next \in Executing => mem'[t] = st
  BY <1>1 DEF Moves, Goto, GraphInv, SessionTypeOK, Executing
<1>5. place # "aborted" /\ (place \in Executing => place = next)
  BY <1>1 DEF Node, Executing
<1> HIDE DEF place
<1>. QED BY <1>1, <1>2, <1>3, <1>4, <1>5 DEF SoloInv, OneRun

\* The others leave the execution alone.
LEMMA OthersKeepSolo ==
  ASSUME OneAtATime, GraphInv, SoloInv, NEW t \in Turn,
         Stops(t) \/ LaunchReply(t) \/ Close(t) \/ BatchBegin(t)
  PROVE  SoloInv'
<1>1. inbox' = inbox /\ at[t] \in Live /\ ckpt'.next = ckpt.next
  BY DEF Stops, Suspend, LaunchReply, Close, BatchBegin, Quiet, Live, Node, GraphInv,
         SessionTypeOK
<1> DEFINE Harmless(place) ==
             /\ place \in Live \cup {"done"}
             /\ place \in Executing <=> at[t] \in Executing
             /\ place \in Executing => place # "action_gate" /\ mem' = mem
<1>2. PICK place : at' = [at EXCEPT ![t] = place] /\ Harmless(place)
  <2>1. CASE Stops(t)
    <3>1. at' = [at EXCEPT ![t] = "closing"] /\ at[t] \in {"ask", "consent_gate", "action_gate"}
      BY <2>1 DEF Stops, Suspend
    <3>2. Harmless("closing")
      BY <3>1 DEF Live, Executing, SoloInv
    <3>. QED BY <3>1, <3>2
  <2>2. CASE BatchBegin(t)
    <3>1. at' = [at EXCEPT ![t] = "in_batch"] /\ at[t] = "run_l0_batch" /\ mem' = mem
      BY <2>2 DEF BatchBegin
    <3>2. Harmless("in_batch")
      BY <3>1 DEF Live, Executing
    <3>. QED BY <3>1, <3>2
  <2>3. CASE Close(t)
    <3>1. at' = [at EXCEPT ![t] = "done"] /\ at[t] = "closing"
      BY <2>3 DEF Close, Quiet
    <3>2. Harmless("done")
      BY <3>1 DEF Executing
    <3>. QED BY <3>1, <3>2
  <2>4. CASE LaunchReply(t) /\ ckpt.next = "end"
    <3>1. at' = [at EXCEPT ![t] = "closing"] /\ at[t] = "reply"
      BY <2>4 DEF LaunchReply, Quiet
    <3>2. Harmless("closing")
      BY <3>1 DEF Live, Executing
    <3>. QED BY <3>1, <3>2
  <2>5. CASE LaunchReply(t) /\ ckpt.next # "end"
    <3>1. at' = [at EXCEPT ![t] = ckpt.next] /\ at[t] = "reply"
      BY <2>5 DEF LaunchReply, Quiet
    <3>2. ckpt.next \notin Executing
      BY <1>1, <3>1, ExecutingIsLive DEF SoloInv, OneRun, Executing
    <3>3. ckpt.next \in Live
      BY <2>5 DEF GraphInv, SessionTypeOK, Live
    <3>4. Harmless(ckpt.next)
      BY <3>1, <3>2, <3>3 DEF Executing
    <3>. QED BY <3>1, <3>4
  <2>. QED BY <2>1, <2>2, <2>3, <2>4, <2>5
<1>3. /\ \A u \in Turn : u # t => at'[u] = at[u]
      /\ at'[t] = place
  BY <1>2 DEF GraphInv, SessionTypeOK
<1>4. place # "aborted"
  BY <1>2 DEF Live, Node
<1>5. \A u \in Turn : u # t => mem'[u] = mem[u]
  BY DEF Stops, Suspend, LaunchReply, Close, BatchBegin, Quiet, GraphInv, SessionTypeOK
<1>. QED BY <1>1, <1>2, <1>3, <1>4, <1>5 DEF SoloInv, OneRun

LEMMA SoloStep ==
  ASSUME OneAtATime, GraphInv, SoloInv, [Next]_vars
  PROVE  SoloInv'
<1>1. ASSUME NEW t \in Turn, Abort(t)
      PROVE  FALSE
  <2>1. {u \in Turn : at[u] = "aborted"} = {}
    BY DEF SoloInv
  <2>. QED BY <1>1, <2>1, FS_EmptySet DEF Abort, OneAtATime
<1>2. CASE UNCHANGED sessionVars
  BY <1>2 DEF sessionVars, SoloInv, OneRun
<1>. QED BY <1>1, <1>2, KindsOfChanges, RequestsKeepSolo, MovesKeepSolo, OthersKeepSolo

LEMMA MovesKeepAsked ==
  ASSUME GraphInv, OneRun, AskedInv, NEW t \in Turn, NEW st, NEW next, Moves(t, st, next)
  PROVE  AskedInv'
<1> DEFINE place == IF next = "end" THEN "closing" ELSE next
<1>1. /\ ckpt' = [st |-> st, next |-> next, gate |-> "none"]
      /\ head' = {t} /\ asked' = asked
      /\ at' = [at EXCEPT ![t] = place]
      /\ mem' = [mem EXCEPT ![t] = IF next = "end" THEN initial_state ELSE st]
      /\ next \in Node \cup {"end"} /\ at[t] \in Live
  BY DEF Moves, Goto
<1>2. /\ \A u \in Turn : u # t => at'[u] = at[u] /\ at'[u] \notin Live
      /\ at'[t] = place
      /\ next \in Node => mem'[t] = st
  BY <1>1 DEF GraphInv, SessionTypeOK, OneRun, Node
<1>3. place \in Node => place = next
  BY DEF Node
<1>4. place # "fresh" /\ (place \in Node \cup {"in_batch"} => place \in Node)
  BY <1>1 DEF Node
<1> HIDE DEF place
<1>5. asked <= st.rounds
  <2>1. /\ st.rounds = IF at[t] = "ask" THEN Given(t).rounds + 1 ELSE Given(t).rounds
    BY DEF Moves, MovesHonestly
  <2>2. asked \in Nat /\ ckpt.st.rounds \in Nat
    BY StateFields DEF GraphInv, SessionTypeOK
  <2>3. CASE at[t] = "fresh"
    BY <2>1, <2>2, <2>3 DEF Given, AskedInv
  <2>4. CASE at[t] \in Node \cup {"in_batch"}
    <3>1. RunsTheThread(t) /\ at[t] # "fresh"
      BY <2>4 DEF AskedInv, Node
    <3>2. /\ st.rounds = IF at[t] = "ask" THEN ckpt.st.rounds + 1 ELSE ckpt.st.rounds
          /\ ckpt.gate = "question" => at[t] = "ask"
      BY <2>1, <3>1 DEF RunsTheThread, Given
    <3>. QED BY <2>2, <3>2 DEF AskedInv
  <2>5. CASE at[t] \in {"reply", "closing"}
    BY <2>5 DEF Moves, MovesHonestly
  <2>. QED BY <1>1, <2>3, <2>4, <2>5 DEF Live
<1>6. /\ ckpt'.gate = "none" /\ ckpt'.st = st /\ ckpt'.next = next
  BY <1>1
<1>7. ASSUME NEW u \in Turn, at'[u] \in Node \cup {"in_batch"}
      PROVE  RunsTheThread(u)'
  <2>1. u = t
    BY <1>2, <1>7 DEF Live
  <2>2. next \in Node /\ at'[t] = next
    BY <1>2, <1>3, <1>4, <1>7, <2>1
  <2>. QED BY <1>1, <1>2, <1>6, <2>1, <2>2 DEF RunsTheThread
<1>8. ASSUME NEW u \in Turn, at'[u] = "fresh"
      PROVE  FALSE
  BY <1>2, <1>4, <1>8 DEF Live
<1>9. asked <= st.rounds + 0
  BY <1>5, StateFields DEF Moves, GraphInv, SessionTypeOK
<1>. QED BY <1>1, <1>6, <1>7, <1>8, <1>9 DEF AskedInv

LEMMA StopsKeepAsked ==
  ASSUME GraphInv, OneRun, AskedInv, NEW t \in Turn, Stops(t)
  PROVE  AskedInv'
<1>1. PICK gate \in {"question", "consent", "action"} :
        /\ Suspend(t, gate)
        /\ at[t] \in Node /\ at[t] # "fresh" /\ ~armed[t]
        /\ gate = "question" <=> at[t] = "ask"
  BY DEF Stops, Node
<1>2. RunsTheThread(t)
  BY <1>1 DEF AskedInv
<1>3. t \in head /\ at[t] = ckpt.next /\ ckpt.gate # "question"
  BY <1>1, <1>2 DEF RunsTheThread
<1>4. /\ ckpt' = [ckpt EXCEPT !.gate = gate] /\ at' = [at EXCEPT ![t] = "closing"]
      /\ asked' = IF gate = "question" THEN asked + 1 ELSE asked
  BY <1>1, <1>3 DEF Suspend
<1>5. ckpt'.st = ckpt.st /\ ckpt'.next = ckpt.next /\ ckpt'.gate = gate
  BY <1>4 DEF GraphInv, SessionTypeOK
<1>6. \A u \in Turn : at'[u] \notin Node \cup {"in_batch", "fresh"}
  <2>1. \A u \in Turn : u # t => at'[u] = at[u] /\ at[u] \notin Live
    BY <1>1, <1>4 DEF GraphInv, SessionTypeOK, OneRun, Live
  <2>2. at'[t] = "closing"
    BY <1>4 DEF GraphInv, SessionTypeOK
  <2>. QED BY <2>1, <2>2 DEF Live, Node
<1>7. asked \in Nat /\ ckpt.st.rounds \in Nat /\ asked <= ckpt.st.rounds
  BY <1>3, StateFields DEF GraphInv, SessionTypeOK, AskedInv
<1>. QED BY <1>1, <1>3, <1>4, <1>5, <1>6, <1>7 DEF AskedInv

LEMMA LaunchReplyKeepsAsked ==
  ASSUME GraphInv, OneRun, AskedInv, NEW t \in Turn, LaunchReply(t)
  PROVE  AskedInv'
<1>1. at[t] = "reply" /\ ckpt' = ckpt /\ asked' = asked
  BY DEF LaunchReply, Quiet
<1>2. ASSUME NEW u \in Turn, u # t
      PROVE  at'[u] = at[u] /\ at[u] \notin Live
  BY <1>1, <1>2 DEF LaunchReply, GraphInv, SessionTypeOK, OneRun, Live
<1>3. CASE ckpt.next = "end"
  <2>1. at'[t] = "closing"
    BY <1>3 DEF LaunchReply, GraphInv, SessionTypeOK
  <2>. QED BY <1>1, <1>2, <2>1 DEF AskedInv, Live, Node
<1>4. CASE ckpt.next # "end"
  <2>1. /\ at'[t] = ckpt.next /\ mem'[t] = ckpt.st /\ t \in head'
        /\ ckpt.next \in Node
    BY <1>4 DEF LaunchReply, GraphInv, SessionTypeOK
  <2>2. armed'[t] = TRUE
    BY Zenon, <1>4 DEF LaunchReply, GraphInv, SessionTypeOK
  <2>3. RunsTheThread(t)'
    BY <1>1, <2>1, <2>2 DEF RunsTheThread, AskedInv
  <2>4. ASSUME NEW u \in Turn PROVE at'[u] # "fresh" /\ (at'[u] \in Node \cup {"in_batch"} => u = t)
    BY <1>2, <2>1 DEF Live, Node
  <2>. QED BY <1>1, <2>3, <2>4 DEF AskedInv
<1>. QED BY <1>3, <1>4

LEMMA OthersKeepAsked ==
  ASSUME GraphInv, AskedInv, NEW t \in Turn, NEW place,
         at' = [at EXCEPT ![t] = place],
         place \notin Node \cup {"fresh"}, place = "in_batch" => at[t] = "run_l0_batch",
         \A u \in Turn : at'[u] \in Node \cup {"in_batch"} =>
                           mem'[u] = mem[u] /\ armed'[u] = armed[u],
         UNCHANGED <<ckpt, head, asked>>
  PROVE  AskedInv'
<1>1. \A u \in Turn : at'[u] = IF u = t THEN place ELSE at[u]
  BY DEF GraphInv, SessionTypeOK
<1>2. ASSUME NEW u \in Turn, at'[u] \in Node \cup {"in_batch"}
      PROVE  RunsTheThread(u)'
  <2>1. RunsTheThread(u) /\ mem'[u] = mem[u] /\ armed'[u] = armed[u]
    BY <1>1, <1>2 DEF AskedInv, Node
  <2>2. ckpt.gate = "question" => at'[u] = "ask"
    <3>1. at'[u] # at[u] => at[u] = "run_l0_batch"
      BY <1>1, <1>2
    <3>. QED BY <2>1, <3>1 DEF RunsTheThread
  <2>3. at'[u] \in Node => at'[u] = ckpt.next
    BY <1>1, <2>1 DEF RunsTheThread
  <2>. QED BY <2>1, <2>2, <2>3 DEF RunsTheThread
<1>3. \A u \in Turn : at'[u] = "fresh" => at[u] = "fresh"
  BY <1>1
<1>. QED BY <1>2, <1>3 DEF AskedInv

LEMMA AskedStep ==
  ASSUME MaxLive = 1, GraphInv, OneRun, AskedInv, [Next]_vars
  PROVE  AskedInv'
<1>0. at \in [Turn -> Live \cup Rest] /\ mem \in [Turn -> State] /\ armed \in [Turn -> BOOLEAN]
  BY DEF GraphInv, SessionTypeOK
<1>1. ASSUME NEW t \in Turn, Close(t)
      PROVE  AskedInv'
  <2>1. at' = [at EXCEPT ![t] = "done"] /\ UNCHANGED <<ckpt, head, mem, armed, asked>>
    BY <1>1 DEF Close
  <2>. QED BY <2>1, OthersKeepAsked DEF Node
<1>2. ASSUME NEW t \in Turn, BatchBegin(t)
      PROVE  AskedInv'
  <2>1. /\ at' = [at EXCEPT ![t] = "in_batch"] /\ at[t] = "run_l0_batch"
        /\ UNCHANGED <<ckpt, head, mem, armed, asked>>
    BY <1>2 DEF BatchBegin
  <2>. QED BY <2>1, OthersKeepAsked DEF Node
<1>3. ASSUME NEW t \in Turn, Abort(t)
      PROVE  AskedInv'
  <2>1. /\ at' = [at EXCEPT ![t] = "aborted"] /\ mem' = [mem EXCEPT ![t] = initial_state]
        /\ armed' = [armed EXCEPT ![t] = FALSE] /\ UNCHANGED <<ckpt, head, asked>>
    BY <1>3 DEF Abort
  <2>2. ASSUME NEW u \in Turn, at'[u] \in Node \cup {"in_batch"}
        PROVE  mem'[u] = mem[u] /\ armed'[u] = armed[u]
    <3>1. u # t
      BY <1>0, <2>1, <2>2 DEF Node
    <3>2. mem'[u] = mem[u]
      BY <1>0, <2>1, <3>1
    <3>3. armed'[u] = armed[u]
      BY Zenon, <1>0, <2>1, <3>1
    <3>. QED BY <3>2, <3>3
  <2>. QED BY <2>1, <2>2, OthersKeepAsked DEF Node
<1>4. ASSUME NEW t \in Turn,
             \/ \E m \in Message : Send(t, m)
             \/ \E r \in Reply, h \in 0..plans : Resume(t, r, h)
      PROVE  AskedInv'
  <2>1. /\ Arrives(t) /\ UNCHANGED <<ckpt, head, mem, armed, asked>>
        /\ \E place \in {"reply", "fresh", "done"} :
             /\ at' = [at EXCEPT ![t] = place]
             /\ place = "fresh" => ckpt.gate # "question"
    BY <1>4 DEF Send, Resume
  <2>2. \A u \in Turn : at[u] \notin Live
    BY <2>1, NobodyElse
  <2>3. ASSUME NEW u \in Turn
        PROVE  /\ at'[u] \notin Node \cup {"in_batch"}
               /\ at'[u] = "fresh" => ckpt.gate # "question"
    BY <1>0, <2>1, <2>2 DEF Live, Node
  <2>. QED BY <2>1, <2>3 DEF AskedInv
<1>5. CASE UNCHANGED sessionVars
  BY <1>5 DEF sessionVars, AskedInv, RunsTheThread
<1>. QED BY <1>1, <1>2, <1>3, <1>4, <1>5, KindsOfChanges, MovesKeepAsked, StopsKeepAsked,
            LaunchReplyKeepsAsked

\* Where requests do not overlap, any of them lost, a session is put no more
\* questions than its budget of rounds (route_after_slots, ask, _drive).
THEOREM QuestionsBounded ==
  ASSUME MaxLive = 1
  PROVE  Spec => []QuestionsWithinBudget
<1>1. Init => OneRun /\ AskedInv
  <2> SUFFICES ASSUME Init PROVE OneRun /\ AskedInv
    OBVIOUS
  <2>1. /\ \A t \in Turn : at[t] = "new"
        /\ asked = 0 /\ ckpt.gate = "none" /\ ckpt.st.rounds = 0
    BY InitialState DEF Init
  <2>. QED BY <2>1 DEF OneRun, AskedInv, Live, Node
<1>2. Inv /\ OneRun /\ AskedInv /\ [Next]_vars => OneRun' /\ AskedInv'
  BY OneRunStep, AskedStep DEF Inv
<1>3. Inv /\ AskedInv => QuestionsWithinBudget
  <2> SUFFICES ASSUME Inv, AskedInv PROVE QuestionsWithinBudget
    OBVIOUS
  <2>1. /\ ckpt.st.rounds <= MaxRounds
        /\ ckpt.next = "ask" => ckpt.st.rounds < MaxRounds
    BY DEF Inv, GraphInv, ThreadInv, Fits
  <2>2. asked \in Nat /\ ckpt.st.rounds \in Nat /\ MaxRounds \in Nat
    BY StateFields, BoundsAssumption DEF Inv, GraphInv, SessionTypeOK
  <2>. QED BY <2>1, <2>2 DEF AskedInv, QuestionsWithinBudget
<1>. QED BY <1>1, <1>2, <1>3, Invariant, PTL DEF Spec

\* With one request at a time, a run executes only the plan its own request
\* approved, as the card showed it: nothing a user can say, and no order of
\* saying it, goes past the gate (consent_gate, route_after_consent,
\* GraphRunner._drive).
THEOREM OnlyApprovalsEverExecute ==
  ASSUME OneAtATime
  PROVE  Spec => []OnlyApprovalsExecute
<1>1. Init => SoloInv
  <2> SUFFICES ASSUME Init PROVE SoloInv
    OBVIOUS
  <2>1. ckpt.next = "intake" /\ \A t \in Turn : at[t] = "new"
    BY DEF Init
  <2>. QED BY <2>1 DEF SoloInv, OneRun, Executing, Live, Node
<1>2. Inv /\ SoloInv /\ [Next]_vars => SoloInv'
  BY SoloStep DEF Inv
<1>3. SoloInv => OnlyApprovalsExecute
  BY DEF SoloInv, OnlyApprovalsExecute, AsApproved
<1>. QED BY <1>1, <1>2, <1>3, Invariant, PTL DEF Spec
=============================================================================
