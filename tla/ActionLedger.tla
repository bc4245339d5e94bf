----------------------------- MODULE ActionLedger -----------------------------
(****************************************************************************)
(* Execution of a consented plan: run_l0_batch (app/graph/nodes/            *)
(* execution.py) over the idempotency ledger (LedgerRepo in app/store/      *)
(* repositories.py).                                                        *)
(*                                                                          *)
(* A batch is one execution of the node by one turn.  Several may exist for *)
(* one session: two resumes that overlap, a turn that re-runs the node after*)
(* a crash, a replan that arrives at the same business act.  A batch walks  *)
(* its actions one at a time; every action carries the idempotency key of   *)
(* its business act (plan_action_key), and the batch must own the key's row *)
(* before it calls the capability.  The await of the capability call is     *)
(* where batches interleave, and an exception or a crash of the process can *)
(* end a batch anywhere between two steps: the row survives, the batch's    *)
(* action statuses (a checkpoint not yet written) do not.                   *)
(*                                                                          *)
(* Abstracted: an action is its key, the order of a batch's list is left    *)
(* open, subjects and failure details are dropped, and a result is a        *)
(* deliverable or none.                                                     *)
(****************************************************************************)
EXTENDS Naturals

CONSTANTS Key,         \* idempotency keys (idem_key, the table's primary key)
          Gated,       \* the keys of L1/L2 actions, those with risk >= 1
          Batch,       \* executions of run_l0_batch
          HasLedger,   \* this deployment has repositories (deps.repositories)
          NoKey        \* no action in hand; also a NULL action_id column

ASSUME KeyAssumption == NoKey \notin Key
ASSUME GatedAssumption == Gated \subseteq Key
ASSUME LedgerAssumption == HasLedger \in BOOLEAN

VARIABLES
  row,        \* row[k]: status of the action_ledger row with primary key k
  pc,         \* pc[b]: where batch b is in its loop
  todo,       \* todo[b]: the pending actions the loop has not reached
  granted,    \* granted[b]: the L1/L2 actions that carry a consent_ref
  cur,        \* cur[b]: the action the batch has in hand
  act,        \* act[b][k]: the status the batch gives the action
  answer,     \* answer[b]: result of the awaited capability call
  sent,       \* calls made so far, as <<batch, key>>
  carried,    \* the calls a channel really carried out
  receipts    \* acts a user sent a "completed" receipt for

rowVars   == <<row>>
batchVars == <<pc, todo, granted, cur, act, answer>>
callVars  == <<sent, carried>>
vars      == <<row, pc, todo, granted, cur, act, answer, sent, carried, receipts>>

RowStatus == {"absent", "in_flight", "completed", "failed"}
ActStatus == {"pending", "skipped", "completed", "empty", "failed"}
             \* "empty": the status is completed and the result is None
Answer    == {"ok", "degraded", "error"}     \* ResultStatus, the last two in one
Working   == {"loop", "claimed", "calling", "answered"}
Place     == Working \cup {"new", "done", "aborted"}

TypeOK ==
  /\ row \in [Key -> RowStatus]
  /\ pc \in [Batch -> Place]
  /\ todo \in [Batch -> SUBSET Key]
  /\ granted \in [Batch -> SUBSET Gated]
  /\ cur \in [Batch -> Key \cup {NoKey}]
  /\ act \in [Batch -> [Key -> ActStatus]]
  /\ answer \in [Batch -> Answer \cup {"none"}]
  /\ sent \subseteq Batch \X Key
  /\ carried \subseteq Batch \X Key
  /\ receipts \subseteq Key

Init ==
  /\ row = [k \in Key |-> "absent"]
  /\ pc = [b \in Batch |-> "new"]
  /\ todo = [b \in Batch |-> {}]
  /\ granted = [b \in Batch |-> {}]
  /\ cur = [b \in Batch |-> NoKey]
  /\ act = [b \in Batch |-> [k \in Key |-> "pending"]]
  /\ answer = [b \in Batch |-> "none"]
  /\ sent = {}
  /\ carried = {}
  /\ receipts = {}

-----------------------------------------------------------------------------
(* The ledger's statements.                                                 *)

\* A definition named Faulty.. is a plausible bug in the code it stands next to.
\* Nothing uses it: it is there to show that a property notices the bug.

\* The insert takes over a row that failed (a retry that re-runs).
FaultyInsertRetries(k) == /\ row[k] \in {"absent", "failed"}
                          /\ row' = [row EXCEPT ![k] = "in_flight"]

\* insert_in_flight: INSERT .. ON CONFLICT DO NOTHING and the in_flight mark
\* share one transaction, so taking a free key is one step.
InsertInFlight(k) == /\ row[k] = "absent"
                     /\ row' = [row EXCEPT ![k] = "in_flight"]

\* The conflict: rowcount 0, whatever the status of the row that is there.
KeyTaken(k) == row[k] # "absent"

\* The failure is recorded on the action but not in the ledger.
FaultySettleOkOnly(k, ok) ==
  row' = IF HasLedger /\ ok THEN [row EXCEPT ![k] = "completed"] ELSE row

\* The outcome of the call is not looked at.
FaultySettleAlwaysOk(k, ok) ==
  row' = IF HasLedger THEN [row EXCEPT ![k] = "completed"] ELSE row

\* mark_completed and mark_failed, a no-op without a ledger.
SettleRow(k, ok) ==
  row' = IF HasLedger
         THEN [row EXCEPT ![k] = IF ok THEN "completed" ELSE "failed"]
         ELSE row

\* The action_id column _claim writes for k: it passes action_id=None.
RowActionId(k) == NoKey

\* The arbiter refuses an L1/L2 call that carries no call context, and
\* run_l0_batch passes call_context=None for every action.
Refused(k) == k \in Gated

\* The resolver's ladder, when every provider failed: a read is answered with a
\* skeleton, and a side effect is not.
Degradable(k) == k \notin Gated

-----------------------------------------------------------------------------
(* One batch.                                                               *)

\* The node starts: the actions of the plan that are still pending, and among
\* the L1/L2 ones those that passed action_gate.
Begin(b, keys, consented) ==
  /\ pc[b] = "new"
  /\ keys # {} /\ consented \subseteq keys
  /\ pc' = [pc EXCEPT ![b] = "loop"]
  /\ todo' = [todo EXCEPT ![b] = keys]
  /\ granted' = [granted EXCEPT ![b] = consented]
  /\ UNCHANGED <<row, cur, act, answer, sent, carried, receipts>>

\* The loop may run the action: it is L0, or it carries a consent_ref.
MayRun(b, k) == k \in Gated => k \in granted[b]

\* `if gated and not consent_ref: continue`: the action stays pending.
SkipUnconsented(b, k) ==
  /\ pc[b] = "loop" /\ k \in todo[b]
  /\ ~MayRun(b, k)
  /\ todo' = [todo EXCEPT ![b] = @ \ {k}]
  /\ UNCHANGED <<row, pc, granted, cur, act, answer, sent, carried, receipts>>

\* _claim returned True, or None because there is no ledger: the call goes on.
Claim(b, k) ==
  /\ pc[b] = "loop" /\ k \in todo[b]
  /\ MayRun(b, k)
  /\ IF HasLedger THEN InsertInFlight(k) ELSE UNCHANGED row
  /\ pc' = [pc EXCEPT ![b] = "claimed"]
  /\ cur' = [cur EXCEPT ![b] = k]
  /\ UNCHANGED <<todo, granted, act, answer, sent, carried, receipts>>

\* _claim returned False: skipped, and reported ok with duplicate set.
Duplicate(b, k) ==
  /\ pc[b] = "loop" /\ k \in todo[b]
  /\ MayRun(b, k)
  /\ HasLedger /\ KeyTaken(k)
  /\ act' = [act EXCEPT ![b][k] = "skipped"]
  /\ todo' = [todo EXCEPT ![b] = @ \ {k}]
  /\ UNCHANGED <<row, pc, granted, cur, answer, sent, carried, receipts>>

\* The await of call_capability begins.
Invoke(b) ==
  /\ pc[b] = "claimed"
  /\ sent' = sent \cup {<<b, cur[b]>>}
  /\ pc' = [pc EXCEPT ![b] = "calling"]
  /\ UNCHANGED <<row, todo, granted, cur, act, answer, carried, receipts>>

\* A channel carries the call out, perhaps after the batch has given up on it.
Perform(b, k) ==
  /\ <<b, k>> \in sent \ carried
  /\ ~Refused(k)
  /\ carried' = carried \cup {<<b, k>>}
  /\ UNCHANGED <<row, pc, todo, granted, cur, act, answer, sent, receipts>>

\* The call returns: ok if it was carried out, degraded from the ladder, or an
\* error (a refusal, a failed side effect, no resolver), whatever became of it.
Return(b, result) ==
  /\ pc[b] = "calling"
  /\ result = "ok" => <<b, cur[b]>> \in carried
  /\ result = "degraded" => Degradable(cur[b]) /\ ~Refused(cur[b])
  /\ pc' = [pc EXCEPT ![b] = "answered"]
  /\ answer' = [answer EXCEPT ![b] = result]
  /\ UNCHANGED <<row, todo, granted, cur, act, sent, carried, receipts>>

\* CapabilityResult.ok: a degraded result counts.
Succeeded(result) == result # "error"

\* The status an answer gives the action, and the deliverable it is kept with.
StatusOf == [ok |-> "completed", degraded |-> "empty", error |-> "failed"]

\* The statements after the await: the action's status and the row's.
Settle(b) ==
  /\ pc[b] = "answered"
  /\ SettleRow(cur[b], Succeeded(answer[b]))
  /\ act' = [act EXCEPT ![b][cur[b]] = StatusOf[answer[b]]]
  /\ todo' = [todo EXCEPT ![b] = @ \ {cur[b]}]
  /\ cur' = [cur EXCEPT ![b] = NoKey]
  /\ answer' = [answer EXCEPT ![b] = "none"]
  /\ pc' = [pc EXCEPT ![b] = "loop"]
  /\ UNCHANGED <<granted, sent, carried, receipts>>

\* The node returns and its actions reach the checkpoint.
Finish(b) ==
  /\ pc[b] = "loop" /\ todo[b] = {}
  /\ pc' = [pc EXCEPT ![b] = "done"]
  /\ UNCHANGED <<row, todo, granted, cur, act, answer, sent, carried, receipts>>

\* An exception leaves the node, the turn is cancelled or the process dies (a
\* crash is this step for every batch at work): rows stay as they are.
Abort(b) ==
  /\ pc[b] \in Working
  /\ pc' = [pc EXCEPT ![b] = "aborted"]
  /\ UNCHANGED <<row, todo, granted, cur, act, answer, sent, carried, receipts>>

\* POST /sessions/{id}/receipt with status "completed": the receipt is stored
\* and mark_completed_by_action updates the rows whose action_id matches.
Receipt(k) ==
  /\ receipts' = receipts \cup {k}
  /\ row' = [j \in Key |->
               IF row[j] # "absent" /\ RowActionId(j) = k
               THEN "completed" ELSE row[j]]
  /\ UNCHANGED <<pc, todo, granted, cur, act, answer, sent, carried>>

BatchStep(b) ==
  \/ \E k \in Key : SkipUnconsented(b, k) \/ Claim(b, k) \/ Duplicate(b, k)
  \/ Invoke(b)
  \/ \E result \in Answer : Return(b, result)
  \/ Settle(b)
  \/ Finish(b)

Next ==
  \/ \E b \in Batch, keys \in SUBSET Key, consented \in SUBSET Gated :
       Begin(b, keys, consented)
  \/ \E b \in Batch : BatchStep(b)
  \/ \E b \in Batch, k \in Key : Perform(b, k)
  \/ \E b \in Batch : Abort(b)
  \/ \E k \in Key : Receipt(k)

Spec == Init /\ [][Next]_vars

\* A batch that has begun keeps running, unless it aborts: the loop never waits
\* for anything but the call, and every channel attempt runs under a timeout.
Fairness == \A b \in Batch : WF_vars(BatchStep(b))

FairSpec == Spec /\ Fairness

-----------------------------------------------------------------------------
(* Properties.                                                              *)

\* Batch b has, or had, the act named k: it holds the key or has called.
Engaged(b, k) == cur[b] = k \/ <<b, k>> \in sent

\* With a ledger no business act is called by two batches, however turns
\* overlap, abort and are resumed: a retry never places a second booking.
AtMostOneCall ==
  HasLedger => \A k \in Key, b, c \in Batch :
                 <<b, k>> \in sent /\ <<c, k>> \in sent => b = c

\* The ledger and the reports agree for good: a row says of an act what the
\* batch that called it reported, whatever other batches and receipts do later.
RowsAgreeWithReports ==
  HasLedger => \A b \in Batch, k \in Key :
    /\ act[b][k] \in {"completed", "empty"} => row[k] = "completed"
    /\ act[b][k] = "failed" => row[k] = "failed"

\* A row is in flight exactly while one batch, alive or aborted, has the act in
\* hand: no row is left behind by a batch that ended in good order.
InFlightIsHeld ==
  HasLedger => \A k \in Key : row[k] = "in_flight" <=> \E b \in Batch : cur[b] = k

\* A batch reports an act completed, with what it delivers, only if its own call
\* was carried out.
OwnReportIsTrue ==
  \A b \in Batch, k \in Key : act[b][k] = "completed" => <<b, k>> \in carried

\* The refusal of an L1/L2 act is settled like any failed call: consented or
\* not, neither its row nor a batch ever says that it succeeded.
GatedNeverSucceeds ==
  \A k \in Gated : /\ row[k] # "completed"
                   /\ \A b \in Batch : act[b][k] \notin {"completed", "empty"}

\* The ledger and the reports tell the truth, whatever overlaps or is lost: rows
\* and reports agree, no row is left in flight, nothing is reported delivered
\* that was not carried out, and an L1/L2 act is never a success.
LedgerTellsTheTruth ==
  /\ TypeOK
  /\ RowsAgreeWithReports
  /\ InFlightIsHeld
  /\ OwnReportIsTrue
  /\ GatedNeverSucceeds

\* A row moves forward only: a settled row is never reopened or rewritten, and
\* none is deleted, so the key refuses every later attempt.
RowsOnlyAdvance ==
  [][\A k \in Key :
       /\ row[k] \in {"completed", "failed"} => row'[k] = row[k]
       /\ row[k] = "in_flight" => row'[k] # "absent"]_vars

\* A claimed row is settled, unless the batch that holds it aborted.
ClaimIsSettled ==
  \A k \in Key :
    row[k] = "in_flight" ~>
      \/ row[k] \in {"completed", "failed"}
      \/ \E b \in Batch : cur[b] = k /\ pc[b] = "aborted"

\* The ledger keeps the promise of ActOnce: an act has started once its row
\* exists, and takes effect when some call of it is carried out.
StageOfRow == [absent |-> "idle", in_flight |-> "started",
               completed |-> "ok", failed |-> "failed"]

AbstractAct(k) == StageOfRow[row[k]]

AbstractEffect(k) == \E b \in Batch : <<b, k>> \in carried

Abstract == INSTANCE ActOnce WITH Firm <- Gated,
                                  act <- [k \in Key |-> AbstractAct(k)],
                                  effect <- [k \in Key |-> AbstractEffect(k)]

ImplementsActOnce == Abstract!Spec

=============================================================================
