------------------------------ MODULE TripSession ------------------------------
(****************************************************************************)
(* One session: the graph of app/graph/trip_graph.py and its nodes, driven  *)
(* by GraphRunner (app/graph/runner.py) over a LangGraph thread.            *)
(*                                                                          *)
(* A turn is one HTTP request, a message or a resume.  Nothing serialises   *)
(* the turns of a session: each run carries its own copy of AgentState,     *)
(* awaits models and channels inside its nodes, and after every node writes *)
(* a checkpoint; the thread's state is whatever was written last.  A run    *)
(* stops at END or at an interrupt, which is recorded on the run's own      *)
(* checkpoint and so is pending only while that is the thread's latest.     *)
(* A turn may also be lost between any two steps (an exception, a crash).   *)
(*                                                                          *)
(* The node run_l0_batch is the batch of ActionLedger, step by step, with   *)
(* the turn as the batch: a run passes it at most once.                     *)
(*                                                                          *)
(* Abstracted: a message is what the intake makes of it; the required slots *)
(* are given, assumed or missing as a whole, and the two dates agree or     *)
(* clash; a plan is its number (leg ids are minted anew, so every plan has  *)
(* a hash of its own); all plans of the session are for one trip, so their  *)
(* acts have the same keys; plan_draft, plan_content and content_render are *)
(* one step, for they write the draft only and no edge leaves between them. *)
(****************************************************************************)
EXTENDS Naturals, FiniteSets

CONSTANTS
  Turn,           \* requests the session receives
  Message,        \* texts: [scope, patch]
  Reply,          \* resume bodies: [decision, target, patch, text, token]
  Silence,        \* the empty text
  MaxRounds,      \* settings.question_max_rounds
  StrikeLimit,    \* settings.scope_strike_limit
  GateDeclared,   \* extras_gated_action_id is a channel of AgentState
  MaxLive,        \* bound: turns under way at once; 1 is a polite client
  MaxAborts,      \* bound: turns that are lost
  Key, Gated, HasLedger, NoKey     \* as in ActionLedger

ASSUME BoundsAssumption ==
  {MaxRounds, StrikeLimit, MaxLive, MaxAborts} \subseteq Nat
ASSUME GateAssumption == GateDeclared \in BOOLEAN
ASSUME ActsAssumption ==
  /\ Key \ Gated # {}    \* checklist, export and share
  /\ Gated \subseteq Key /\ NoKey \notin Key /\ HasLedger \in BOOLEAN

VARIABLES
  ckpt,      \* the thread's latest checkpoint: [st, next, gate]
  head,      \* the runs whose own latest checkpoint it is
  at,        \* at[t]: where turn t is
  mem,       \* mem[t]: the run's copy of AgentState
  inbox,     \* inbox[t]: the body of the request
  armed,     \* armed[t]: the run still has its resume value to hand out
  plans,     \* plan versions frozen so far, by any run
  dbPhase,   \* sessions.phase
  asked,     \* history: the question interrupts sent to the user so far
  row, pc, todo, granted, cur, act, answer, sent, carried, receipts

sessionVars == <<ckpt, head, at, mem, inbox, armed, plans, dbPhase, asked>>
execVars    == <<row, pc, todo, granted, cur, act, answer, sent, carried, receipts>>
vars        == <<sessionVars, execVars>>

Exec == INSTANCE ActionLedger WITH Batch <- Turn

-----------------------------------------------------------------------------
(* AgentState, as far as control depends on it.                             *)

Phase   == {"COLLECT", "PREVIEW", "AWAIT_CONSENT", "EXECUTE", "DONE", "FAILED"}
Verdict == {"travel", "off_topic", "abuse"}      \* in_scope and ambiguous: travel
Patch   == {"none", "full", "clash", "delegate"}
Gate    == {"none", "question", "consent", "action"}
PlanId  == Nat                                   \* 0: no plan, or no hash sent
Text    == Message \cup {Silence}

ASSUME InputAssumption ==
  /\ Text \subseteq [scope : Verdict, patch : Patch]
  /\ Reply \subseteq [decision : {"approve", "reject", "edit", "none"},
                     target : {"plan", "slots"}, patch : Patch, text : Text,
                     token : BOOLEAN]

\* The body of a plain message, and of a request that says nothing.
TextOnly(m) == [decision |-> "none", target |-> "plan", patch |-> "none",
                text |-> m, token |-> FALSE]
Body        == [hash : PlanId, reply : Reply \cup {TextOnly(m) : m \in Text}]
NoBody      == [hash |-> 0, reply |-> TextOnly(Silence)]

State ==
  [phase : Phase, verdict : Verdict, strikes : Nat,
   req : {"missing", "given", "assumed"}, clash : BOOLEAN,
   missing : {"none", "slots", "return_date"}, rounds : Nat,
   plan : PlanId, shown : PlanId,
   consent : [plan : PlanId, asked : PlanId],
   payload : [decision : {"none", "reject", "edit"}, patch : Patch],
   l2 : {"none", "pending", "consented", "skipped", "blocked"}, gated : BOOLEAN,
   input : Text]

NoPayload == [decision |-> "none", patch |-> "none"]

\* Of state.consents nothing but the last entry is ever read: its plan, and the
\* hash the approval named.
NoConsent == [plan |-> 0, asked |-> 0]

initial_state ==
  [phase |-> "COLLECT", verdict |-> "travel", strikes |-> 0,
   req |-> "missing", clash |-> FALSE,
   missing |-> "none", rounds |-> 0,
   plan |-> 0, shown |-> 0, consent |-> NoConsent, payload |-> NoPayload,
   l2 |-> "none", gated |-> FALSE, input |-> Silence]

Node == {"intake", "refuse", "slot_validate", "clarify", "ask",
         "assume_fallback", "plan_draft", "plan_finalize", "preview_render",
         "consent_gate", "apply_edit", "plan_actions", "dispatch",
         "action_gate", "run_l0_batch", "assemble_itinerary", "remind"}
Live == Node \cup {"fresh", "reply", "in_batch", "closing"}
Rest == {"new", "done", "aborted"}

TypeOK ==
  /\ ckpt \in [st : State, next : Node \cup {"end"}, gate : Gate]
  /\ head \subseteq Turn
  /\ at \in [Turn -> Live \cup Rest]
  /\ mem \in [Turn -> State]
  /\ inbox \in [Turn -> Body]
  /\ armed \in [Turn -> BOOLEAN]
  /\ plans \in Nat
  /\ dbPhase \in Phase
  /\ asked \in Nat
  /\ Exec!TypeOK

\* GraphRunner.start: the session row, and initial_state written by
\* aupdate_state, which leaves the thread about to run the first node.
Init ==
  /\ ckpt = [st |-> initial_state, next |-> "intake", gate |-> "none"]
  /\ head = {}
  /\ at = [t \in Turn |-> "new"]
  /\ mem = [t \in Turn |-> initial_state]
  /\ inbox = [t \in Turn |-> NoBody]
  /\ armed = [t \in Turn |-> FALSE]
  /\ plans = 0
  /\ dbPhase = "COLLECT"
  /\ asked = 0
  /\ Exec!Init

-----------------------------------------------------------------------------
(* What LangGraph does around a node.                                       *)

\* A node returned: its update is in the run's state and in a new checkpoint.
Goto(t, st, next) ==
  /\ ckpt' = [st |-> st, next |-> next, gate |-> "none"]
  /\ head' = {t}
  /\ at' = [at EXCEPT ![t] = IF next = "end" THEN "closing" ELSE next]
  /\ mem' = [mem EXCEPT ![t] = IF next = "end" THEN initial_state ELSE st]
  /\ armed' = [armed EXCEPT ![t] = FALSE]
  /\ UNCHANGED <<inbox, dbPhase, asked>>

\* A node interrupted: the interrupt belongs to the run's own checkpoint, and
\* goes out on the event stream whether or not that is the thread's latest.
Suspend(t, gate) ==
  /\ ckpt' = IF t \in head THEN [ckpt EXCEPT !.gate = gate] ELSE ckpt
  /\ at' = [at EXCEPT ![t] = "closing"]
  /\ mem' = [mem EXCEPT ![t] = initial_state]
  /\ asked' = IF gate = "question" THEN asked + 1 ELSE asked
  /\ UNCHANGED <<head, inbox, armed, dbPhase>>

\* The node is next in t's run, and neither plans nor executes anything.
Quiet(t, node) == at[t] = node /\ UNCHANGED <<plans, execVars>>

-----------------------------------------------------------------------------
(* Requests.                                                                *)

\* A request arrives.
Arrives(t) == /\ at[t] = "new"
              /\ Cardinality({u \in Turn : at[u] \in Live}) < MaxLive

\* A definition named Faulty.. is a plausible bug, used by no other definition.

\* send: _drive first asks what is pending, and awaits the answer.  A text is
\* an answer when a question is open, and the input of a new run when not.
Send(t, m) ==
  /\ Arrives(t)
  /\ at' = [at EXCEPT ![t] = IF ckpt.gate = "question" THEN "reply" ELSE "fresh"]
  /\ inbox' = [inbox EXCEPT ![t] = [hash |-> 0, reply |-> TextOnly(m)]]
  /\ UNCHANGED <<ckpt, head, mem, armed, plans, dbPhase, asked, execVars>>

\* resume: a plan hash that is not the thread's is refused with a 409.
StaleHash(h) == h # 0 /\ ckpt.st.plan # 0 /\ h # ckpt.st.plan

Resume(t, r, h) ==
  /\ Arrives(t)
  /\ at' = [at EXCEPT ![t] = IF StaleHash(h) THEN "done" ELSE "reply"]
  /\ inbox' = [inbox EXCEPT ![t] = [hash |-> h, reply |-> r]]
  /\ UNCHANGED <<ckpt, head, mem, armed, plans, dbPhase, asked, execVars>>

\* astream with an input: the thread's state with the text, from START again;
\* whatever was pending is gone.
LaunchFresh(t) ==
  /\ Quiet(t, "fresh")
  /\ Goto(t, [ckpt.st EXCEPT !.input = inbox[t].reply.text, !.payload = NoPayload],
          "intake")

\* astream with Command(resume): the pending node runs with the value at hand.
\* A thread at END has none, and the run is over at once.
LaunchReply(t) ==
  /\ Quiet(t, "reply")
  /\ IF ckpt.next = "end"
     THEN /\ at' = [at EXCEPT ![t] = "closing"]
          /\ UNCHANGED <<head, mem, armed>>
     ELSE /\ at' = [at EXCEPT ![t] = ckpt.next]
          /\ mem' = [mem EXCEPT ![t] = ckpt.st]
          /\ armed' = [armed EXCEPT ![t] = TRUE]
          /\ head' = head \cup {t}
  /\ UNCHANGED <<ckpt, inbox, dbPhase, asked>>

\* _drive returns at an interrupt before it syncs the phase.
FaultyCloseAtEndOnly(t) ==
  /\ Quiet(t, "closing")
  /\ dbPhase' = IF ckpt.gate = "none" THEN ckpt.st.phase ELSE dbPhase
  /\ at' = [at EXCEPT ![t] = "done"]
  /\ UNCHANGED <<ckpt, head, mem, inbox, armed, asked>>

\* The end of _drive: the latest checkpoint's phase goes to the sessions table.
Close(t) ==
  /\ Quiet(t, "closing")
  /\ dbPhase' = ckpt.st.phase
  /\ at' = [at EXCEPT ![t] = "done"]
  /\ UNCHANGED <<ckpt, head, mem, inbox, armed, asked>>

\* The turn is lost; a crash is this for every live turn.
Abort(t) ==
  /\ at[t] \in Live
  /\ Cardinality({u \in Turn : at[u] = "aborted"}) < MaxAborts
  /\ at' = [at EXCEPT ![t] = "aborted"]
  /\ mem' = [mem EXCEPT ![t] = initial_state]
  /\ armed' = [armed EXCEPT ![t] = FALSE]
  /\ IF at[t] = "in_batch" THEN Exec!Abort(t) ELSE UNCHANGED execVars
  /\ UNCHANGED <<ckpt, head, inbox, plans, dbPhase, asked>>

-----------------------------------------------------------------------------
(* Intake and the information gate.                                         *)

\* What the slots of a text, an edit or a delegation do to the slot table.
Patched(st, patch) ==
  CASE patch = "full"     -> [st EXCEPT !.req = "given", !.clash = FALSE]
    [] patch = "clash"    -> [st EXCEPT !.clash = TRUE]
    [] patch = "delegate" -> IF st.req = "missing" THEN [st EXCEPT !.req = "assumed"]
                             ELSE st
    [] OTHER              -> st

route_after_intake(st) ==
  IF st.verdict \in {"off_topic", "abuse"} THEN "refuse" ELSE "slot_validate"

\* The verdict is in: by the prefilter, or by the model where it abstained.
IntakeJudged(t) ==
  LET m  == mem[t].input
      st == [mem[t] EXCEPT !.verdict = m.scope,
                           !.strikes = IF m.scope = "abuse" THEN @ + 1 ELSE @]
      next == IF m.scope = "travel" THEN Patched(st, m.patch) ELSE st
  IN /\ Quiet(t, "intake")
     /\ Goto(t, next, route_after_intake(next))

\* The model call failed: an error is reported and nothing else is written, so
\* the edge out reads the verdict of an earlier text.
IntakeFailed(t) ==
  /\ Quiet(t, "intake")
  /\ mem[t].input.scope = "travel"      \* else the prefilter had a veto
  /\ Goto(t, mem[t], route_after_intake(mem[t]))

is_fused(st) == st.strikes >= StrikeLimit

Refuse(t) ==
  /\ Quiet(t, "refuse")
  /\ Goto(t, IF is_fused(mem[t]) THEN [mem[t] EXCEPT !.phase = "FAILED"] ELSE mem[t],
          "end")

\* Off by one.
FaultyRoundsSpent(st) == st.rounds > MaxRounds

RoundsSpent(st) == st.rounds >= MaxRounds

\* validate: dates that clash are reported as the return date missing.
Validated(st) == [st EXCEPT !.missing = CASE st.clash           -> "return_date"
                                          [] st.req = "missing" -> "slots"
                                          [] OTHER              -> "none"]

route_after_slots(st) ==
  IF st.missing = "none" THEN "plan_draft"
  ELSE IF RoundsSpent(st) THEN "assume_fallback" ELSE "clarify"

SlotValidate(t) ==
  /\ Quiet(t, "slot_validate")
  /\ Goto(t, Validated(mem[t]), route_after_slots(Validated(mem[t])))

Clarify(t) ==
  /\ Quiet(t, "clarify")
  /\ Goto(t, mem[t], "ask")

Ask(t) ==
  /\ Quiet(t, "ask")
  /\ IF armed[t]
     THEN Goto(t, [mem[t] EXCEPT !.input = inbox[t].reply.text,
                                 !.rounds = @ + 1], "intake")
     ELSE Suspend(t, "question")

\* What was assumed is validated again.
FaultyAssumeRevalidates(t) ==
  LET st == IF mem[t].missing = "slots"
            THEN [mem[t] EXCEPT !.req = "assumed"]
            ELSE mem[t]
  IN /\ Quiet(t, "assume_fallback")
     /\ Goto(t, [st EXCEPT !.missing = "none"], "slot_validate")

\* apply_defaults fills the slots listed as missing that have no value; the
\* return date of a clash has one.
AssumeFallback(t) ==
  LET st == IF mem[t].missing = "slots"
            THEN [mem[t] EXCEPT !.req = "assumed"]
            ELSE mem[t]
  IN /\ Quiet(t, "assume_fallback")
     /\ Goto(t, [st EXCEPT !.missing = "none"], "plan_draft")

-----------------------------------------------------------------------------
(* Planning and consent.                                                    *)

Draft(t) ==
  /\ Quiet(t, "plan_draft")
  /\ Goto(t, mem[t], "plan_finalize")

PlanFinalize(t) ==
  /\ at[t] = "plan_finalize"
  /\ plans' = plans + 1
  /\ Goto(t, [mem[t] EXCEPT !.plan = plans + 1, !.phase = "PREVIEW"], "preview_render")
  /\ UNCHANGED execVars

PreviewRender(t) ==
  /\ Quiet(t, "preview_render")
  /\ Goto(t, [mem[t] EXCEPT !.shown = mem[t].plan, !.phase = "AWAIT_CONSENT"],
          "consent_gate")

\* The gate trusts the hash check made when the request came in.
FaultyDecidedUnchecked(st, body) ==
  CASE body.reply.decision = "approve" ->
         [st EXCEPT !.phase = "EXECUTE", !.payload = NoPayload,
                    !.consent = [plan |-> st.plan, asked |-> body.hash]]
    [] body.reply.decision = "edit" ->
         [st EXCEPT !.phase = "PREVIEW",
                    !.payload = [decision |-> "edit", patch |-> body.reply.patch]]
    [] OTHER ->
         [st EXCEPT !.phase = "COLLECT",
                    !.payload = [decision |-> "reject", patch |-> "none"]]

\* A hash that was not sent does not match.
FaultyDecidedNeedsHash(st, body) ==
  CASE body.reply.decision = "approve" /\ body.hash = st.plan ->
         [st EXCEPT !.phase = "EXECUTE", !.payload = NoPayload,
                    !.consent = [plan |-> st.plan, asked |-> body.hash]]
    [] body.reply.decision = "approve" /\ body.hash # st.plan ->
         [st EXCEPT !.phase = "PREVIEW", !.payload = NoPayload]
    [] OTHER ->
         [st EXCEPT !.phase = "COLLECT",
                    !.payload = [decision |-> "reject", patch |-> "none"]]

\* Whatever is no rejection is a yes.
FaultyDecidedUnlessRejected(st, body) ==
  CASE body.reply.decision = "reject" ->
         [st EXCEPT !.phase = "COLLECT",
                    !.payload = [decision |-> "reject", patch |-> "none"]]
    [] OTHER ->
         [st EXCEPT !.phase = "EXECUTE", !.payload = NoPayload,
                    !.consent = [plan |-> st.plan, asked |-> body.hash]]

\* The decision as consent_gate reads it: no decision is a rejection.
Decided(st, body) ==
  CASE body.reply.decision = "approve" /\ body.hash \notin {0, st.plan} ->
         [st EXCEPT !.phase = "PREVIEW", !.payload = NoPayload]
    [] body.reply.decision = "approve" /\ body.hash \in {0, st.plan} ->
         [st EXCEPT !.phase = "EXECUTE", !.payload = NoPayload,
                    !.consent = [plan |-> st.plan, asked |-> body.hash]]
    [] body.reply.decision = "edit" ->
         [st EXCEPT !.phase = IF body.reply.target = "slots" THEN "COLLECT" ELSE "PREVIEW",
                    !.payload = [decision |-> "edit", patch |-> body.reply.patch]]
    [] OTHER ->
         [st EXCEPT !.phase = "COLLECT",
                    !.payload = [decision |-> "reject", patch |-> "none"]]

route_after_consent(st) ==
  IF st.phase = "EXECUTE" THEN "plan_actions"
  ELSE IF st.payload.decision = "edit" THEN "apply_edit" ELSE "end"

ConsentGate(t) ==
  /\ Quiet(t, "consent_gate")
  /\ IF armed[t]
     THEN Goto(t, Decided(mem[t], inbox[t]), route_after_consent(Decided(mem[t], inbox[t])))
     ELSE Suspend(t, "consent")

\* The patch goes into the slots; the assumption list is in SlotGate.
ApplyEdit(t) ==
  /\ Quiet(t, "apply_edit")
  /\ Goto(t, Patched(mem[t], mem[t].payload.patch), "slot_validate")

-----------------------------------------------------------------------------
(* Execution.                                                               *)

\* The plan has an L2 act if the intent is a reservation.  Messages and edits
\* change the intent, which the model leaves open.
PlanActions(t) ==
  /\ Quiet(t, "plan_actions")
  /\ \E l2 \in {"none"} \cup {"pending" : k \in Gated} :
       Goto(t, [mem[t] EXCEPT !.l2 = l2], "dispatch")

\* dispatch names the first gated action that is pending.  The name survives
\* only if AgentState declares the channel, which it does not.
Dispatched(st) == [st EXCEPT !.gated = GateDeclared /\ st.l2 = "pending"]

route_after_dispatch(st) == IF st.gated THEN "action_gate" ELSE "run_l0_batch"

Dispatch(t) ==
  /\ Quiet(t, "dispatch")
  /\ Goto(t, Dispatched(mem[t]), route_after_dispatch(Dispatched(mem[t])))

\* An L2 action needs the approval and the second confirmation.
L2Outcome(reply) ==
  CASE reply.decision = "approve" /\ reply.token  -> "consented"
    [] reply.decision = "approve" /\ ~reply.token -> "blocked"
    [] OTHER                                      -> "skipped"

ActionGate(t) ==
  /\ Quiet(t, "action_gate")
  /\ IF armed[t]
     THEN Goto(t, [mem[t] EXCEPT !.l2 = L2Outcome(inbox[t].reply), !.gated = FALSE],
               "run_l0_batch")
     ELSE Suspend(t, "action")

\* What run_l0_batch finds pending, and what of it carries a consent_ref.
Pending(st)   == (Key \ Gated) \cup
                 (IF st.l2 \in {"pending", "consented"} THEN Gated ELSE {})
Consented(st) == IF st.l2 = "consented" THEN Gated ELSE {}

BatchBegin(t) ==
  /\ at[t] = "run_l0_batch"
  /\ Exec!Begin(t, Pending(mem[t]), Consented(mem[t]))
  /\ at' = [at EXCEPT ![t] = "in_batch"]
  /\ UNCHANGED <<ckpt, head, mem, inbox, armed, plans, dbPhase, asked>>

BatchWork(t) ==
  /\ at[t] = "in_batch"
  /\ \/ \E k \in Key : \/ Exec!SkipUnconsented(t, k)
                       \/ Exec!Claim(t, k)
                       \/ Exec!Duplicate(t, k)
     \/ Exec!Invoke(t)
     \/ \E result \in Exec!Answer : Exec!Return(t, result)
     \/ Exec!Settle(t)
  /\ UNCHANGED sessionVars

\* The loop is over and the statuses reach the checkpoint.
BatchFinish(t) ==
  /\ at[t] = "in_batch"
  /\ Exec!Finish(t)
  /\ Goto(t, mem[t], "assemble_itinerary")
  /\ UNCHANGED plans

Channel == /\ \E t \in Turn, k \in Key : Exec!Perform(t, k)
           /\ UNCHANGED sessionVars

AssembleItinerary(t) ==
  /\ Quiet(t, "assemble_itinerary")
  /\ Goto(t, mem[t], "remind")

Remind(t) ==
  /\ Quiet(t, "remind")
  /\ Goto(t, [mem[t] EXCEPT !.phase = "DONE"], "end")

-----------------------------------------------------------------------------

TurnStep(t) ==
  \/ LaunchFresh(t) \/ LaunchReply(t) \/ Close(t)
  \/ IntakeJudged(t) \/ IntakeFailed(t) \/ Refuse(t)
  \/ SlotValidate(t) \/ Clarify(t) \/ Ask(t) \/ AssumeFallback(t)
  \/ Draft(t) \/ PlanFinalize(t) \/ PreviewRender(t)
  \/ ConsentGate(t) \/ ApplyEdit(t)
  \/ PlanActions(t) \/ Dispatch(t) \/ ActionGate(t)
  \/ BatchBegin(t) \/ BatchWork(t) \/ BatchFinish(t)
  \/ AssembleItinerary(t) \/ Remind(t)

Next ==
  \/ \E t \in Turn, m \in Message : Send(t, m)
  \/ \E t \in Turn, r \in Reply, h \in 0..plans : Resume(t, r, h)
  \/ \E t \in Turn : TurnStep(t)
  \/ \E t \in Turn : Abort(t)
  \/ Channel

Spec == Init /\ [][Next]_vars

\* A turn that has begun is scheduled again as long as it can run: no node
\* waits for anything but its own model and channel calls, and those time out.
Fairness == \A t \in Turn : WF_vars(TurnStep(t))

FairSpec == Spec /\ Fairness

-----------------------------------------------------------------------------
(* Properties.                                                              *)

AtRest == \A t \in Turn : at[t] \in Rest
NoneLost == \A t \in Turn : at[t] # "aborted"

Executing == {"plan_actions", "dispatch", "action_gate", "run_l0_batch",
              "in_batch", "assemble_itinerary", "remind"}

\* A pending consent gate offers the plan that is current, and the card beside
\* it shows that plan, whichever runs have interleaved to bring it there.
GateOffersCurrentPlan ==
  ckpt.gate = "consent" => /\ ckpt.st.phase = "AWAIT_CONSENT"
                           /\ ckpt.st.plan # 0
                           /\ ckpt.st.shown = ckpt.st.plan

\* And no plan is offered before every required slot is given or assumed,
\* whichever answers were lost, delegated or overlapped on the way.  The one way
\* past is a clash of dates after the last question, as in SlotGate.
GateOnCompleteSlots ==
  ckpt.gate = "consent" =>
    \/ ckpt.st.req # "missing"
    \/ ckpt.st.clash /\ RoundsSpent(ckpt.st)

\* The consent an executing run would name on its acts, the last it was given,
\* is to the very plan it executes, and an approval that named a hash named that
\* plan's.
OnlyConsentedPlansRun ==
  \A t \in Turn : at[t] \in Executing =>
    /\ mem[t].plan # 0
    /\ mem[t].consent.plan = mem[t].plan
    /\ mem[t].consent.asked \in {0, mem[t].plan}

\* The runs of a session call no act twice: a double approval, a replan or a
\* resume after a crash included.
NoActCalledTwice == Exec!AtMostOneCall

\* A session that says DONE has tried every act of its plan.
DoneMeansTried ==
  ckpt.st.phase = "DONE" => \A k \in Key \ Gated :
                              \E t \in Turn : Exec!Engaged(t, k)

\* Once its turns are over, none of them lost, the sessions table shows the
\* phase of the thread.
PhaseSynced == AtRest /\ NoneLost /\ head # {} => dbPhase = ckpt.st.phase

\* The L2 act is called only in a run that was given the second confirmation.
ConfirmedBeforeCall ==
  \A t \in Turn, k \in Gated : <<t, k>> \in sent =>
    k \in granted[t] /\ \E u \in Turn : /\ inbox[u].reply.decision = "approve"
                                        /\ inbox[u].reply.token

\* What is offered, consented and executed is one plan, whichever runs overlap
\* or are lost.
ConsentIsToThePlan ==
  /\ TypeOK
  /\ GateOffersCurrentPlan
  /\ GateOnCompleteSlots
  /\ OnlyConsentedPlansRun
  /\ ConfirmedBeforeCall

\* What a session leaves behind is so: its acts were tried, and once, and its
\* row in the sessions table is the thread's.
EndsAreTrue == NoActCalledTwice /\ DoneMeansTried /\ PhaseSynced

\* Every request is answered, unless it is lost.
TurnsEnd == \A t \in Turn : at[t] \in Live ~> at[t] \in Rest

\* With one request at a time, a run executes nothing but the plan that was on
\* the card when its own request approved it: by the hash of that plan, or by no
\* hash, and with a consent that says so.
OnlyApprovalsExecute ==
  \A t \in Turn : at[t] \in Executing =>
    /\ inbox[t].reply.decision = "approve"
    /\ inbox[t].hash \in {0, mem[t].plan}
    /\ mem[t].consent = [plan |-> mem[t].plan, asked |-> inbox[t].hash]
    /\ mem[t].shown = mem[t].plan

\* And an approval of the plan that is offered is carried out to the end.
ApprovalIsCarriedOut ==
  \A t \in Turn :
    (/\ at[t] = "reply" /\ ckpt.gate = "consent"
     /\ inbox[t].reply.decision = "approve"
     /\ inbox[t].hash \in {0, ckpt.st.plan}) ~> ckpt.st.phase = "DONE"

\* With one request at a time, no session is put more questions than its budget
\* of rounds: what is counted is what went out to the user, not the counter that
\* the runs carry.  Overlapping runs do exceed it, as each carries its own.
QuestionsWithinBudget == asked <= MaxRounds

-----------------------------------------------------------------------------
(* What the documents say and the code does not do.                         *)

\* runner.py: a message sent while a question gate is open answers that
\* question; it decides nothing else.
TextDecidesNothing ==
  [][\A t \in Turn :
       at[t] = "consent_gate" /\ armed[t] /\ at'[t] # "aborted"
         => inbox[t].reply.decision # "none"]_vars
=============================================================================
