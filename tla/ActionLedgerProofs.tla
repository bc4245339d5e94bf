-------------------------- MODULE ActionLedgerProofs --------------------------
(****************************************************************************)
(* Theorems of ActionLedger, for any sets of keys and batches.  The         *)
(* inductive invariant Inv strengthens the invariants the runs check with   *)
(* what the loop knows about the act it has in hand.                        *)
(****************************************************************************)
EXTENDS ActionLedger, TLAPS

\* A batch has an act in hand exactly between its claim and its settlement.
HandInv ==
  \A b \in Batch :
    /\ pc[b] \in {"new", "loop", "done"} => cur[b] = NoKey
    /\ pc[b] \in {"claimed", "calling", "answered"} => cur[b] \in Key
    /\ pc[b] = "answered" => answer[b] \in Answer

TypeInv == TypeOK /\ HandInv

\* Whoever engaged with an act did so after its row came to be.
EngagedHasRow ==
  HasLedger => \A b \in Batch, k \in Key : Engaged(b, k) => row[k] # "absent"

\* And is alone with it.
OneEngaged ==
  HasLedger => \A k \in Key, b, c \in Batch :
                 Engaged(b, k) /\ Engaged(c, k) => b = c

\* Calls are carried out, answered and settled only after they are made; an ok
\* answer is of a call carried out, and no L1/L2 call is answered degraded.
CallInv ==
  /\ carried \subseteq sent
  /\ \A b \in Batch :
       /\ pc[b] \in {"calling", "answered"} => <<b, cur[b]>> \in sent
       /\ pc[b] = "answered" /\ answer[b] = "ok" => <<b, cur[b]>> \in carried
       /\ pc[b] = "answered" /\ answer[b] = "degraded" => cur[b] \notin Gated
  /\ \A b \in Batch, k \in Key :
       act[b][k] \in {"completed", "empty", "failed"} => <<b, k>> \in sent

\* No L1/L2 act reaches the outside world, with or without its consent.
NothingGatedCarriedOut == \A b \in Batch, k \in Gated : <<b, k>> \notin carried

\* Without a ledger there are no rows.
NoLedgerNoRow == ~HasLedger => \A k \in Key : row[k] = "absent"

\* A row is there because some batch engaged with its act; a gated act only by
\* one that was granted it.
RowHasOwner == \A k \in Key : row[k] # "absent" => \E b \in Batch : Engaged(b, k)

GatedIsGranted == \A b \in Batch : \A k \in Gated : Engaged(b, k) => k \in granted[b]

NewIsIdle == \A b \in Batch : pc[b] = "new" => \A k \in Key : ~Engaged(b, k)

OwnersInv == RowHasOwner /\ GatedIsGranted /\ NewIsIdle

\* As actions: nobody disengages, and an act that needs no consent leaves the
\* list of a batch only if some batch engaged with it.
EngagedStays == \A b \in Batch, k \in Key : Engaged(b, k) => Engaged(b, k)'

NothingSlips ==
  \A b \in Batch : pc[b] # "new" =>
    /\ pc'[b] # "new"
    /\ \A k \in todo[b] \ Gated : k \in todo'[b] \/ \E c \in Batch : Engaged(c, k)

Inv ==
  /\ TypeInv
  /\ EngagedHasRow
  /\ OneEngaged
  /\ CallInv
  /\ NoLedgerNoRow
  /\ RowsAgreeWithReports
  /\ InFlightIsHeld
  /\ OwnReportIsTrue
  /\ NothingGatedCarriedOut
  /\ GatedNeverSucceeds

-----------------------------------------------------------------------------

\* A receipt changes no row: no row has an action_id to match (_claim passes
\* action_id=None).
LEMMA ReceiptChangesNoRow ==
  ASSUME TypeOK, NEW k \in Key, Receipt(k)
  PROVE  row' = row
BY KeyAssumption DEF TypeOK, Receipt, RowActionId

\* Every variable keeps its type: each action of run_l0_batch, the channel and
\* the receipt route.
LEMMA TypeStep == TypeInv /\ [Next]_vars => TypeInv'
<1> SUFFICES ASSUME TypeInv, [Next]_vars PROVE TypeInv'
  OBVIOUS
<1> USE DEF TypeInv, TypeOK, HandInv, RowStatus, ActStatus, Place, Working
<1>1. ASSUME NEW b \in Batch, NEW keys \in SUBSET Key,
             NEW consented \in SUBSET Gated,
             Begin(b, keys, consented)
      PROVE  TypeInv'
  BY <1>1 DEF Begin
<1>2. ASSUME NEW b \in Batch, NEW k \in Key, SkipUnconsented(b, k)
      PROVE  TypeInv'
  BY <1>2 DEF SkipUnconsented
<1>3. ASSUME NEW b \in Batch, NEW k \in Key, Claim(b, k)
      PROVE  TypeInv'
  BY <1>3 DEF Claim, InsertInFlight
<1>4. ASSUME NEW b \in Batch, NEW k \in Key, Duplicate(b, k)
      PROVE  TypeInv'
  BY <1>4 DEF Duplicate, KeyTaken
<1>5. ASSUME NEW b \in Batch, Invoke(b)
      PROVE  TypeInv'
  BY <1>5 DEF Invoke
<1>6. ASSUME NEW b \in Batch, NEW k \in Key, Perform(b, k)
      PROVE  TypeInv'
  BY <1>6 DEF Perform, Refused
<1>7. ASSUME NEW b \in Batch, NEW result \in Answer, Return(b, result)
      PROVE  TypeInv'
  BY <1>7 DEF Return
<1>8. ASSUME NEW b \in Batch, Settle(b)
      PROVE  TypeInv'
  BY <1>8 DEF Settle, SettleRow, StatusOf, Answer
<1>9. ASSUME NEW b \in Batch, Finish(b)
      PROVE  TypeInv'
  BY <1>9 DEF Finish
<1>10. ASSUME NEW b \in Batch, Abort(b)
      PROVE  TypeInv'
  BY <1>10 DEF Abort
<1>11. ASSUME NEW k \in Key, Receipt(k)
      PROVE  TypeInv'
  BY <1>11, ReceiptChangesNoRow DEF Receipt
<1>12. CASE UNCHANGED vars
  BY <1>12 DEF vars
<1>. QED BY <1>1, <1>2, <1>3, <1>4, <1>5, <1>6, <1>7, <1>8, <1>9, <1>10, <1>11, <1>12 DEF Next, BatchStep

\* Once a batch has engaged with an act there is a row, and rows stay.
LEMMA EngagedHasRowStep == TypeInv /\ EngagedHasRow /\ [Next]_vars => EngagedHasRow'
<1> SUFFICES ASSUME TypeInv, EngagedHasRow, [Next]_vars PROVE EngagedHasRow'
  OBVIOUS
<1> USE DEF TypeInv, TypeOK, HandInv, EngagedHasRow, Engaged
<1>1. ASSUME NEW b \in Batch, NEW keys \in SUBSET Key,
             NEW consented \in SUBSET Gated,
             Begin(b, keys, consented)
      PROVE  EngagedHasRow'
  BY <1>1 DEF Begin
<1>2. ASSUME NEW b \in Batch, NEW k \in Key, SkipUnconsented(b, k)
      PROVE  EngagedHasRow'
  BY <1>2 DEF SkipUnconsented
<1>3. ASSUME NEW b \in Batch, NEW k \in Key, Claim(b, k)
      PROVE  EngagedHasRow'
  BY <1>3 DEF Claim, InsertInFlight
<1>4. ASSUME NEW b \in Batch, NEW k \in Key, Duplicate(b, k)
      PROVE  EngagedHasRow'
  BY <1>4 DEF Duplicate, KeyTaken
<1>5. ASSUME NEW b \in Batch, Invoke(b)
      PROVE  EngagedHasRow'
  BY <1>5 DEF Invoke
<1>6. ASSUME NEW b \in Batch, NEW k \in Key, Perform(b, k)
      PROVE  EngagedHasRow'
  BY <1>6 DEF Perform, Refused
<1>7. ASSUME NEW b \in Batch, NEW result \in Answer, Return(b, result)
      PROVE  EngagedHasRow'
  BY <1>7 DEF Return
<1>8. ASSUME NEW b \in Batch, Settle(b)
      PROVE  EngagedHasRow'
  <2>1. cur[b] \in Key
    BY <1>8 DEF Settle
  <2>2. \A k \in Key : row'[k] = "absent" => row[k] = "absent"
    BY <1>8, <2>1 DEF Settle, SettleRow
  <2>3. sent' = sent /\ \A c \in Batch : cur'[c] \in {cur[c], NoKey}
    BY <1>8 DEF Settle
  <2>. QED BY <2>2, <2>3, KeyAssumption
<1>9. ASSUME NEW b \in Batch, Finish(b)
      PROVE  EngagedHasRow'
  BY <1>9 DEF Finish
<1>10. ASSUME NEW b \in Batch, Abort(b)
      PROVE  EngagedHasRow'
  BY <1>10 DEF Abort
<1>11. ASSUME NEW k \in Key, Receipt(k)
      PROVE  EngagedHasRow'
  BY <1>11, ReceiptChangesNoRow DEF Receipt
<1>12. CASE UNCHANGED vars
  BY <1>12 DEF vars
<1>. QED BY <1>1, <1>2, <1>3, <1>4, <1>5, <1>6, <1>7, <1>8, <1>9, <1>10, <1>11, <1>12 DEF Next, BatchStep

\* Only a claim engages, and it needs a key with no row.
LEMMA OneEngagedStep == TypeInv /\ EngagedHasRow /\ OneEngaged /\ [Next]_vars => OneEngaged'
<1> SUFFICES ASSUME TypeInv, EngagedHasRow, OneEngaged, [Next]_vars PROVE OneEngaged'
  OBVIOUS
<1> USE DEF TypeInv, TypeOK, HandInv, EngagedHasRow, OneEngaged, Engaged
<1>1. ASSUME NEW b \in Batch, NEW keys \in SUBSET Key,
             NEW consented \in SUBSET Gated,
             Begin(b, keys, consented)
      PROVE  OneEngaged'
  BY <1>1 DEF Begin
<1>2. ASSUME NEW b \in Batch, NEW k \in Key, SkipUnconsented(b, k)
      PROVE  OneEngaged'
  BY <1>2 DEF SkipUnconsented
<1>3. ASSUME NEW b \in Batch, NEW k \in Key, Claim(b, k)
      PROVE  OneEngaged'
  BY <1>3 DEF Claim, InsertInFlight
<1>4. ASSUME NEW b \in Batch, NEW k \in Key, Duplicate(b, k)
      PROVE  OneEngaged'
  BY <1>4 DEF Duplicate, KeyTaken
<1>5. ASSUME NEW b \in Batch, Invoke(b)
      PROVE  OneEngaged'
  BY <1>5 DEF Invoke
<1>6. ASSUME NEW b \in Batch, NEW k \in Key, Perform(b, k)
      PROVE  OneEngaged'
  BY <1>6 DEF Perform, Refused
<1>7. ASSUME NEW b \in Batch, NEW result \in Answer, Return(b, result)
      PROVE  OneEngaged'
  BY <1>7 DEF Return
<1>8. ASSUME NEW b \in Batch, Settle(b)
      PROVE  OneEngaged'
  <2>1. sent' = sent /\ \A c \in Batch : cur'[c] \in {cur[c], NoKey}
    BY <1>8 DEF Settle
  <2>. QED BY <2>1, KeyAssumption
<1>9. ASSUME NEW b \in Batch, Finish(b)
      PROVE  OneEngaged'
  BY <1>9 DEF Finish
<1>10. ASSUME NEW b \in Batch, Abort(b)
      PROVE  OneEngaged'
  BY <1>10 DEF Abort
<1>11. ASSUME NEW k \in Key, Receipt(k)
      PROVE  OneEngaged'
  BY <1>11, ReceiptChangesNoRow DEF Receipt
<1>12. CASE UNCHANGED vars
  BY <1>12 DEF vars
<1> HIDE DEF TypeInv, OneEngaged, EngagedHasRow
<1>. QED BY <1>1, <1>2, <1>3, <1>4, <1>5, <1>6, <1>7, <1>8, <1>9, <1>10, <1>11, <1>12 DEF Next, BatchStep

\* An ok answer is of a call that was carried out.
LEMMA CallStep == TypeInv /\ CallInv /\ [Next]_vars => CallInv'
<1> SUFFICES ASSUME TypeInv, CallInv, [Next]_vars PROVE CallInv'
  OBVIOUS
<1> USE DEF TypeInv, TypeOK, HandInv, CallInv
<1>1. ASSUME NEW b \in Batch, NEW keys \in SUBSET Key,
             NEW consented \in SUBSET Gated,
             Begin(b, keys, consented)
      PROVE  CallInv'
  BY <1>1 DEF Begin
<1>2. ASSUME NEW b \in Batch, NEW k \in Key, SkipUnconsented(b, k)
      PROVE  CallInv'
  BY <1>2 DEF SkipUnconsented
<1>3. ASSUME NEW b \in Batch, NEW k \in Key, Claim(b, k)
      PROVE  CallInv'
  BY <1>3 DEF Claim, InsertInFlight
<1>4. ASSUME NEW b \in Batch, NEW k \in Key, Duplicate(b, k)
      PROVE  CallInv'
  BY <1>4 DEF Duplicate, KeyTaken
<1>5. ASSUME NEW b \in Batch, Invoke(b)
      PROVE  CallInv'
  BY <1>5 DEF Invoke
<1>6. ASSUME NEW b \in Batch, NEW k \in Key, Perform(b, k)
      PROVE  CallInv'
  BY <1>6 DEF Perform, Refused
<1>7. ASSUME NEW b \in Batch, NEW result \in Answer, Return(b, result)
      PROVE  CallInv'
  BY <1>7 DEF Return, Degradable
<1>8. ASSUME NEW b \in Batch, Settle(b)
      PROVE  CallInv'
  <2>1. cur[b] \in Key /\ <<b, cur[b]>> \in sent
    BY <1>8 DEF Settle
  <2> HIDE DEF CallInv
  <2>2. sent' = sent /\ carried' = carried
    BY <1>8 DEF Settle
  <2>3. ASSUME NEW c \in Batch
        PROVE  \/ pc'[c] = "loop"
               \/ /\ pc'[c] = pc[c]
                  /\ cur'[c] = cur[c]
                  /\ answer'[c] = answer[c]
    <3>1. CASE c = b
      BY <1>8, <3>1 DEF Settle
    <3>2. CASE c # b
      <4>1. pc'[c] = pc[c]
        BY <1>8, <3>2 DEF Settle
      <4>2. cur'[c] = cur[c]
        BY <1>8, <3>2 DEF Settle
      <4>3. answer'[c] = answer[c]
        BY <1>8, <3>2 DEF Settle
      <4>. QED BY <4>1, <4>2, <4>3
    <3>. QED BY <3>1, <3>2
  <2>4. ASSUME NEW c \in Batch, NEW j \in Key
        PROVE  act'[c][j] = act[c][j] \/ (c = b /\ j = cur[b])
    BY <1>8, <2>1 DEF Settle
  <2> HIDE DEF TypeInv, TypeOK, HandInv
  <2>. QED BY <2>1, <2>2, <2>3, <2>4 DEF CallInv
<1>9. ASSUME NEW b \in Batch, Finish(b)
      PROVE  CallInv'
  BY <1>9 DEF Finish
<1>10. ASSUME NEW b \in Batch, Abort(b)
      PROVE  CallInv'
  BY <1>10 DEF Abort
<1>11. ASSUME NEW k \in Key, Receipt(k)
      PROVE  CallInv'
  BY <1>11, ReceiptChangesNoRow DEF Receipt
<1>12. CASE UNCHANGED vars
  BY <1>12 DEF vars
<1>. QED BY <1>1, <1>2, <1>3, <1>4, <1>5, <1>6, <1>7, <1>8, <1>9, <1>10, <1>11, <1>12 DEF Next, BatchStep

\* Without a ledger no statement touches the table.
LEMMA NoLedgerStep == TypeInv /\ NoLedgerNoRow /\ [Next]_vars => NoLedgerNoRow'
<1> SUFFICES ASSUME TypeInv, NoLedgerNoRow, [Next]_vars PROVE NoLedgerNoRow'
  OBVIOUS
<1> USE DEF TypeInv, TypeOK, HandInv, NoLedgerNoRow
<1>1. ASSUME NEW b \in Batch, NEW keys \in SUBSET Key,
             NEW consented \in SUBSET Gated,
             Begin(b, keys, consented)
      PROVE  NoLedgerNoRow'
  BY <1>1 DEF Begin
<1>2. ASSUME NEW b \in Batch, NEW k \in Key, SkipUnconsented(b, k)
      PROVE  NoLedgerNoRow'
  BY <1>2 DEF SkipUnconsented
<1>3. ASSUME NEW b \in Batch, NEW k \in Key, Claim(b, k)
      PROVE  NoLedgerNoRow'
  BY <1>3 DEF Claim, InsertInFlight
<1>4. ASSUME NEW b \in Batch, NEW k \in Key, Duplicate(b, k)
      PROVE  NoLedgerNoRow'
  BY <1>4 DEF Duplicate, KeyTaken
<1>5. ASSUME NEW b \in Batch, Invoke(b)
      PROVE  NoLedgerNoRow'
  BY <1>5 DEF Invoke
<1>6. ASSUME NEW b \in Batch, NEW k \in Key, Perform(b, k)
      PROVE  NoLedgerNoRow'
  BY <1>6 DEF Perform, Refused
<1>7. ASSUME NEW b \in Batch, NEW result \in Answer, Return(b, result)
      PROVE  NoLedgerNoRow'
  BY <1>7 DEF Return
<1>8. ASSUME NEW b \in Batch, Settle(b)
      PROVE  NoLedgerNoRow'
  BY <1>8 DEF Settle, SettleRow
<1>9. ASSUME NEW b \in Batch, Finish(b)
      PROVE  NoLedgerNoRow'
  BY <1>9 DEF Finish
<1>10. ASSUME NEW b \in Batch, Abort(b)
      PROVE  NoLedgerNoRow'
  BY <1>10 DEF Abort
<1>11. ASSUME NEW k \in Key, Receipt(k)
      PROVE  NoLedgerNoRow'
  BY <1>11, ReceiptChangesNoRow DEF Receipt
<1>12. CASE UNCHANGED vars
  BY <1>12 DEF vars
<1>. QED BY <1>1, <1>2, <1>3, <1>4, <1>5, <1>6, <1>7, <1>8, <1>9, <1>10, <1>11, <1>12 DEF Next, BatchStep

\* A settlement writes the row and the report alike, and nobody else has sent a
\* call for that act, so no older report is contradicted.
LEMMA AgreeStep ==
  TypeInv /\ CallInv /\ EngagedHasRow /\ OneEngaged /\ RowsAgreeWithReports /\ [Next]_vars
    => RowsAgreeWithReports'
<1> SUFFICES ASSUME TypeInv, CallInv, EngagedHasRow, OneEngaged,
                    RowsAgreeWithReports, [Next]_vars
             PROVE  RowsAgreeWithReports'
  OBVIOUS
<1> USE DEF TypeInv, TypeOK, HandInv, RowsAgreeWithReports
<1>1. ASSUME NEW b \in Batch, NEW keys \in SUBSET Key,
             NEW consented \in SUBSET Gated,
             Begin(b, keys, consented)
      PROVE  RowsAgreeWithReports'
  BY <1>1 DEF Begin
<1>2. ASSUME NEW b \in Batch, NEW k \in Key, SkipUnconsented(b, k)
      PROVE  RowsAgreeWithReports'
  BY <1>2 DEF SkipUnconsented
<1>3. ASSUME NEW b \in Batch, NEW k \in Key, Claim(b, k)
      PROVE  RowsAgreeWithReports'
  <2>1. \A j \in Key : HasLedger /\ row[j] # "absent" => row'[j] = row[j]
    BY <1>3 DEF Claim, InsertInFlight
  <2>2. act' = act
    BY <1>3 DEF Claim
  <2>. QED BY <2>1, <2>2
<1>4. ASSUME NEW b \in Batch, NEW k \in Key, Duplicate(b, k)
      PROVE  RowsAgreeWithReports'
  BY <1>4 DEF Duplicate, KeyTaken
<1>5. ASSUME NEW b \in Batch, Invoke(b)
      PROVE  RowsAgreeWithReports'
  BY <1>5 DEF Invoke
<1>6. ASSUME NEW b \in Batch, NEW k \in Key, Perform(b, k)
      PROVE  RowsAgreeWithReports'
  BY <1>6 DEF Perform, Refused
<1>7. ASSUME NEW b \in Batch, NEW result \in Answer, Return(b, result)
      PROVE  RowsAgreeWithReports'
  BY <1>7 DEF Return
<1>8. ASSUME NEW b \in Batch, Settle(b)
      PROVE  RowsAgreeWithReports'
  <2>1. CASE ~HasLedger
    BY <2>1
  <2>2. CASE HasLedger
    <3>1. /\ cur[b] \in Key /\ answer[b] \in Answer
          /\ <<b, cur[b]>> \in sent
      BY <1>8 DEF Settle, CallInv
    <3>2. row' = [row EXCEPT ![cur[b]] =
                    IF answer[b] = "error" THEN "failed" ELSE "completed"]
      BY <1>8, <2>2 DEF Settle, SettleRow, Succeeded
    <3>3. act'[b][cur[b]] = StatusOf[answer[b]]
      BY <1>8, <3>1 DEF Settle
    <3>4. StatusOf[answer[b]] = "failed" <=> answer[b] = "error"
      BY <3>1 DEF StatusOf, Answer
    <3>5. ASSUME NEW c \in Batch, NEW j \in Key, ~(c = b /\ j = cur[b])
          PROVE  act'[c][j] = act[c][j]
      BY <1>8, <3>1, <3>5 DEF Settle
    <3>6. ASSUME NEW c \in Batch, c # b
          PROVE  act[c][cur[b]] \notin {"completed", "empty", "failed"}
      BY <2>2, <3>1, <3>6 DEF CallInv, OneEngaged, Engaged
    <3>7. ASSUME NEW c \in Batch, NEW j \in Key
          PROVE  /\ act'[c][j] \in {"completed", "empty"} => row'[j] = "completed"
                 /\ act'[c][j] = "failed" => row'[j] = "failed"
      <4>1. CASE j # cur[b]
        BY <2>2, <3>1, <3>2, <3>5, <4>1
      <4>2. CASE j = cur[b] /\ c = b
        BY <3>1, <3>2, <3>3, <3>4, <4>2
      <4>3. CASE j = cur[b] /\ c # b
        BY <3>5, <3>6, <4>3
      <4>. QED BY <4>1, <4>2, <4>3
    <3>. QED BY <3>7
  <2>. QED BY <2>1, <2>2
<1>9. ASSUME NEW b \in Batch, Finish(b)
      PROVE  RowsAgreeWithReports'
  BY <1>9 DEF Finish
<1>10. ASSUME NEW b \in Batch, Abort(b)
      PROVE  RowsAgreeWithReports'
  BY <1>10 DEF Abort
<1>11. ASSUME NEW k \in Key, Receipt(k)
      PROVE  RowsAgreeWithReports'
  BY <1>11, ReceiptChangesNoRow DEF Receipt
<1>12. CASE UNCHANGED vars
  BY <1>12 DEF vars
<1>. QED BY <1>1, <1>2, <1>3, <1>4, <1>5, <1>6, <1>7, <1>8, <1>9, <1>10, <1>11, <1>12 DEF Next, BatchStep

\* A claim puts the row in flight and the act in hand; a settlement undoes both.
LEMMA InFlightStep == TypeInv /\ EngagedHasRow /\ OneEngaged /\ InFlightIsHeld /\ [Next]_vars => InFlightIsHeld'
<1> SUFFICES ASSUME TypeInv, EngagedHasRow, OneEngaged, InFlightIsHeld, [Next]_vars PROVE InFlightIsHeld'
  OBVIOUS
<1> USE DEF TypeInv, TypeOK, HandInv, EngagedHasRow, OneEngaged, InFlightIsHeld, Engaged
<1>1. ASSUME NEW b \in Batch, NEW keys \in SUBSET Key,
             NEW consented \in SUBSET Gated,
             Begin(b, keys, consented)
      PROVE  InFlightIsHeld'
  BY <1>1 DEF Begin
<1>2. ASSUME NEW b \in Batch, NEW k \in Key, SkipUnconsented(b, k)
      PROVE  InFlightIsHeld'
  BY <1>2 DEF SkipUnconsented
<1>3. ASSUME NEW b \in Batch, NEW k \in Key, Claim(b, k)
      PROVE  InFlightIsHeld'
  <2>1. CASE ~HasLedger
    BY <2>1
  <2>2. CASE HasLedger
    <3>1. \A j \in Key : row'[j] = IF j = k THEN "in_flight" ELSE row[j]
      BY <1>3, <2>2 DEF Claim, InsertInFlight
    <3>2. cur[b] = NoKey /\ \A c \in Batch : cur[c] # k
      BY <1>3, <2>2 DEF Claim, InsertInFlight
    <3>3. \A c \in Batch : cur'[c] = IF c = b THEN k ELSE cur[c]
      BY <1>3 DEF Claim
    <3>. QED BY <2>2, <3>1, <3>2, <3>3, KeyAssumption
  <2>. QED BY <2>1, <2>2
<1>4. ASSUME NEW b \in Batch, NEW k \in Key, Duplicate(b, k)
      PROVE  InFlightIsHeld'
  BY <1>4 DEF Duplicate, KeyTaken
<1>5. ASSUME NEW b \in Batch, Invoke(b)
      PROVE  InFlightIsHeld'
  BY <1>5 DEF Invoke
<1>6. ASSUME NEW b \in Batch, NEW k \in Key, Perform(b, k)
      PROVE  InFlightIsHeld'
  BY <1>6 DEF Perform, Refused
<1>7. ASSUME NEW b \in Batch, NEW result \in Answer, Return(b, result)
      PROVE  InFlightIsHeld'
  BY <1>7 DEF Return
<1>8. ASSUME NEW b \in Batch, Settle(b)
      PROVE  InFlightIsHeld'
  <2>1. CASE ~HasLedger
    BY <2>1
  <2>2. CASE HasLedger
    <3>1. cur[b] \in Key
      BY <1>8 DEF Settle
    <3>2. \A j \in Key \ {cur[b]} : row'[j] = row[j]
      BY <1>8, <3>1 DEF Settle, SettleRow
    <3>3. row'[cur[b]] \in {"completed", "failed"}
      BY <1>8, <2>2, <3>1 DEF Settle, SettleRow
    <3>4. \A c \in Batch : c # b => cur[c] # cur[b]
      BY <2>2, <3>1
    <3>5. \A c \in Batch : cur'[c] = IF c = b THEN NoKey ELSE cur[c]
      BY <1>8 DEF Settle
    <3>6. \A c \in Batch : cur'[c] # cur[b]
      BY <3>1, <3>4, <3>5, KeyAssumption
    <3>7. ASSUME NEW j \in Key, j # cur[b]
          PROVE  \A c \in Batch : cur'[c] = j <=> cur[c] = j
      BY <3>5, <3>7, KeyAssumption
    <3>8. \A j \in Key : row[j] = "in_flight" <=> \E c \in Batch : cur[c] = j
      BY <2>2
    <3>. HIDE DEF TypeInv, EngagedHasRow, OneEngaged
    <3>9. ASSUME NEW j \in Key
          PROVE  row'[j] = "in_flight" <=> \E c \in Batch : cur'[c] = j
      BY <3>1, <3>2, <3>3, <3>6, <3>7, <3>8
    <3>. QED BY <3>9
  <2>. QED BY <2>1, <2>2
<1>9. ASSUME NEW b \in Batch, Finish(b)
      PROVE  InFlightIsHeld'
  BY <1>9 DEF Finish
<1>10. ASSUME NEW b \in Batch, Abort(b)
      PROVE  InFlightIsHeld'
  BY <1>10 DEF Abort
<1>11. ASSUME NEW k \in Key, Receipt(k)
      PROVE  InFlightIsHeld'
  BY <1>11, ReceiptChangesNoRow DEF Receipt
<1>12. CASE UNCHANGED vars
  BY <1>12 DEF vars
<1>. QED BY <1>1, <1>2, <1>3, <1>4, <1>5, <1>6, <1>7, <1>8, <1>9, <1>10, <1>11, <1>12 DEF Next, BatchStep

\* The status completed is given for an ok answer only.
LEMMA OwnReportStep == TypeInv /\ CallInv /\ OwnReportIsTrue /\ [Next]_vars => OwnReportIsTrue'
<1> SUFFICES ASSUME TypeInv, CallInv, OwnReportIsTrue, [Next]_vars PROVE OwnReportIsTrue'
  OBVIOUS
<1> USE DEF TypeInv, TypeOK, HandInv, CallInv, OwnReportIsTrue
<1>1. ASSUME NEW b \in Batch, NEW keys \in SUBSET Key,
             NEW consented \in SUBSET Gated,
             Begin(b, keys, consented)
      PROVE  OwnReportIsTrue'
  BY <1>1 DEF Begin
<1>2. ASSUME NEW b \in Batch, NEW k \in Key, SkipUnconsented(b, k)
      PROVE  OwnReportIsTrue'
  BY <1>2 DEF SkipUnconsented
<1>3. ASSUME NEW b \in Batch, NEW k \in Key, Claim(b, k)
      PROVE  OwnReportIsTrue'
  BY <1>3 DEF Claim, InsertInFlight
<1>4. ASSUME NEW b \in Batch, NEW k \in Key, Duplicate(b, k)
      PROVE  OwnReportIsTrue'
  BY <1>4 DEF Duplicate, KeyTaken
<1>5. ASSUME NEW b \in Batch, Invoke(b)
      PROVE  OwnReportIsTrue'
  BY <1>5 DEF Invoke
<1>6. ASSUME NEW b \in Batch, NEW k \in Key, Perform(b, k)
      PROVE  OwnReportIsTrue'
  BY <1>6 DEF Perform, Refused
<1>7. ASSUME NEW b \in Batch, NEW result \in Answer, Return(b, result)
      PROVE  OwnReportIsTrue'
  BY <1>7 DEF Return
<1>8. ASSUME NEW b \in Batch, Settle(b)
      PROVE  OwnReportIsTrue'
  <2>1. /\ cur[b] \in Key /\ answer[b] \in Answer
        /\ answer[b] = "ok" => <<b, cur[b]>> \in carried
    BY <1>8 DEF Settle
  <2>2. StatusOf[answer[b]] = "completed" => answer[b] = "ok"
    BY <2>1 DEF StatusOf, Answer
  <2>3. \A c \in Batch, j \in Key :
          act'[c][j] = IF c = b /\ j = cur[b] THEN StatusOf[answer[b]] ELSE act[c][j]
    BY <1>8, <2>1 DEF Settle
  <2>4. carried' = carried
    BY <1>8 DEF Settle
  <2> HIDE DEF TypeInv, TypeOK, HandInv, CallInv
  <2>. QED BY <2>1, <2>2, <2>3, <2>4
<1>9. ASSUME NEW b \in Batch, Finish(b)
      PROVE  OwnReportIsTrue'
  BY <1>9 DEF Finish
<1>10. ASSUME NEW b \in Batch, Abort(b)
      PROVE  OwnReportIsTrue'
  BY <1>10 DEF Abort
<1>11. ASSUME NEW k \in Key, Receipt(k)
      PROVE  OwnReportIsTrue'
  BY <1>11, ReceiptChangesNoRow DEF Receipt
<1>12. CASE UNCHANGED vars
  BY <1>12 DEF vars
<1>. QED BY <1>1, <1>2, <1>3, <1>4, <1>5, <1>6, <1>7, <1>8, <1>9, <1>10, <1>11, <1>12 DEF Next, BatchStep

\* A channel carries out no refused call.
LEMMA GatedStep == TypeInv /\ NothingGatedCarriedOut /\ [Next]_vars => NothingGatedCarriedOut'
<1> SUFFICES ASSUME TypeInv, NothingGatedCarriedOut, [Next]_vars PROVE NothingGatedCarriedOut'
  OBVIOUS
<1> USE DEF TypeInv, TypeOK, HandInv, NothingGatedCarriedOut
<1>1. ASSUME NEW b \in Batch, NEW keys \in SUBSET Key,
             NEW consented \in SUBSET Gated,
             Begin(b, keys, consented)
      PROVE  NothingGatedCarriedOut'
  BY <1>1 DEF Begin
<1>2. ASSUME NEW b \in Batch, NEW k \in Key, SkipUnconsented(b, k)
      PROVE  NothingGatedCarriedOut'
  BY <1>2 DEF SkipUnconsented
<1>3. ASSUME NEW b \in Batch, NEW k \in Key, Claim(b, k)
      PROVE  NothingGatedCarriedOut'
  BY <1>3 DEF Claim, InsertInFlight
<1>4. ASSUME NEW b \in Batch, NEW k \in Key, Duplicate(b, k)
      PROVE  NothingGatedCarriedOut'
  BY <1>4 DEF Duplicate, KeyTaken
<1>5. ASSUME NEW b \in Batch, Invoke(b)
      PROVE  NothingGatedCarriedOut'
  BY <1>5 DEF Invoke
<1>6. ASSUME NEW b \in Batch, NEW k \in Key, Perform(b, k)
      PROVE  NothingGatedCarriedOut'
  BY <1>6 DEF Perform, Refused
<1>7. ASSUME NEW b \in Batch, NEW result \in Answer, Return(b, result)
      PROVE  NothingGatedCarriedOut'
  BY <1>7 DEF Return
<1>8. ASSUME NEW b \in Batch, Settle(b)
      PROVE  NothingGatedCarriedOut'
  BY <1>8 DEF Settle, SettleRow
<1>9. ASSUME NEW b \in Batch, Finish(b)
      PROVE  NothingGatedCarriedOut'
  BY <1>9 DEF Finish
<1>10. ASSUME NEW b \in Batch, Abort(b)
      PROVE  NothingGatedCarriedOut'
  BY <1>10 DEF Abort
<1>11. ASSUME NEW k \in Key, Receipt(k)
      PROVE  NothingGatedCarriedOut'
  BY <1>11, ReceiptChangesNoRow DEF Receipt
<1>12. CASE UNCHANGED vars
  BY <1>12 DEF vars
<1>. QED BY <1>1, <1>2, <1>3, <1>4, <1>5, <1>6, <1>7, <1>8, <1>9, <1>10, <1>11, <1>12 DEF Next, BatchStep

\* An L1/L2 call is answered neither ok nor degraded, and settled accordingly.
LEMMA GatedFailStep ==
  TypeInv /\ CallInv /\ NothingGatedCarriedOut /\ GatedNeverSucceeds /\ [Next]_vars
    => GatedNeverSucceeds'
<1> SUFFICES ASSUME TypeInv, CallInv, NothingGatedCarriedOut,
                    GatedNeverSucceeds, [Next]_vars
             PROVE  GatedNeverSucceeds'
  OBVIOUS
<1> USE GatedAssumption DEF TypeInv, TypeOK, HandInv, GatedNeverSucceeds
<1>1. ASSUME NEW b \in Batch, NEW keys \in SUBSET Key,
             NEW consented \in SUBSET Gated,
             Begin(b, keys, consented)
      PROVE  GatedNeverSucceeds'
  BY <1>1 DEF Begin
<1>2. ASSUME NEW b \in Batch, NEW k \in Key, SkipUnconsented(b, k)
      PROVE  GatedNeverSucceeds'
  BY <1>2 DEF SkipUnconsented
<1>3. ASSUME NEW b \in Batch, NEW k \in Key, Claim(b, k)
      PROVE  GatedNeverSucceeds'
  BY <1>3 DEF Claim, InsertInFlight
<1>4. ASSUME NEW b \in Batch, NEW k \in Key, Duplicate(b, k)
      PROVE  GatedNeverSucceeds'
  BY <1>4 DEF Duplicate, KeyTaken
<1>5. ASSUME NEW b \in Batch, Invoke(b)
      PROVE  GatedNeverSucceeds'
  BY <1>5 DEF Invoke
<1>6. ASSUME NEW b \in Batch, NEW k \in Key, Perform(b, k)
      PROVE  GatedNeverSucceeds'
  BY <1>6 DEF Perform, Refused
<1>7. ASSUME NEW b \in Batch, NEW result \in Answer, Return(b, result)
      PROVE  GatedNeverSucceeds'
  BY <1>7 DEF Return
<1>8. ASSUME NEW b \in Batch, Settle(b)
      PROVE  GatedNeverSucceeds'
  <2>1. cur[b] \in Key /\ answer[b] \in Answer
    BY <1>8 DEF Settle
  <2>2. cur[b] \in Gated => answer[b] = "error"
    BY <1>8, <2>1 DEF Settle, CallInv, NothingGatedCarriedOut, Answer
  <2>3. \A k \in Gated : row'[k] # "completed"
    BY <1>8, <2>1, <2>2 DEF Settle, SettleRow, Succeeded
  <2>4. \A c \in Batch, k \in Key :
          act'[c][k] = IF c = b /\ k = cur[b] THEN StatusOf[answer[b]] ELSE act[c][k]
    BY <1>8, <2>1 DEF Settle
  <2>5. StatusOf["error"] = "failed"
    BY DEF StatusOf
  <2>. QED BY <2>2, <2>3, <2>4, <2>5
<1>9. ASSUME NEW b \in Batch, Finish(b)
      PROVE  GatedNeverSucceeds'
  BY <1>9 DEF Finish
<1>10. ASSUME NEW b \in Batch, Abort(b)
      PROVE  GatedNeverSucceeds'
  BY <1>10 DEF Abort
<1>11. ASSUME NEW k \in Key, Receipt(k)
      PROVE  GatedNeverSucceeds'
  BY <1>11, ReceiptChangesNoRow DEF Receipt
<1>12. CASE UNCHANGED vars
  BY <1>12 DEF vars
<1>. QED BY <1>1, <1>2, <1>3, <1>4, <1>5, <1>6, <1>7, <1>8, <1>9, <1>10, <1>11, <1>12 DEF Next, BatchStep

\* Who engaged with an act stays engaged: the act leaves the hand when its call is
\* made, and a call is not unmade.
LEMMA EngagedStaysStep == TypeInv /\ CallInv /\ [Next]_vars => EngagedStays
<1> SUFFICES ASSUME TypeInv, CallInv, [Next]_vars PROVE EngagedStays
  OBVIOUS
<1> USE KeyAssumption DEF TypeInv, TypeOK, HandInv, EngagedStays, Engaged
<1>1. ASSUME NEW b \in Batch, NEW keys \in SUBSET Key,
             NEW consented \in SUBSET Gated,
             Begin(b, keys, consented)
      PROVE  EngagedStays
  BY <1>1 DEF Begin
<1>2. ASSUME NEW b \in Batch, NEW k \in Key, SkipUnconsented(b, k)
      PROVE  EngagedStays
  BY <1>2 DEF SkipUnconsented, MayRun
<1>3. ASSUME NEW b \in Batch, NEW k \in Key, Claim(b, k)
      PROVE  EngagedStays
  BY <1>3 DEF Claim, InsertInFlight
<1>4. ASSUME NEW b \in Batch, NEW k \in Key, Duplicate(b, k)
      PROVE  EngagedStays
  BY <1>4 DEF Duplicate, KeyTaken
<1>5. ASSUME NEW b \in Batch, Invoke(b)
      PROVE  EngagedStays
  BY <1>5 DEF Invoke
<1>6. ASSUME NEW b \in Batch, NEW k \in Key, Perform(b, k)
      PROVE  EngagedStays
  BY <1>6 DEF Perform
<1>7. ASSUME NEW b \in Batch, NEW result \in Answer, Return(b, result)
      PROVE  EngagedStays
  BY <1>7 DEF Return
<1>8. ASSUME NEW b \in Batch, Settle(b)
      PROVE  EngagedStays
  BY <1>8 DEF Settle, SettleRow, CallInv
<1>9. ASSUME NEW b \in Batch, Finish(b)
      PROVE  EngagedStays
  BY <1>9 DEF Finish
<1>10. ASSUME NEW b \in Batch, Abort(b)
      PROVE  EngagedStays
  BY <1>10 DEF Abort
<1>11. ASSUME NEW k \in Key, Receipt(k)
      PROVE  EngagedStays
  BY <1>11, ReceiptChangesNoRow DEF Receipt
<1>12. CASE UNCHANGED vars
  BY <1>12 DEF vars
<1>. QED BY <1>1, <1>2, <1>3, <1>4, <1>5, <1>6, <1>7, <1>8, <1>9, <1>10, <1>11, <1>12 DEF Next, BatchStep

\* Only a claim makes a row.
LEMMA RowHasOwnerStep == TypeInv /\ CallInv /\ RowHasOwner /\ [Next]_vars => RowHasOwner'
<1> SUFFICES ASSUME TypeInv, CallInv, RowHasOwner, [Next]_vars PROVE RowHasOwner'
  OBVIOUS
<1> USE KeyAssumption DEF TypeInv, TypeOK, HandInv, RowHasOwner, Engaged
<1>1. ASSUME NEW b \in Batch, NEW keys \in SUBSET Key,
             NEW consented \in SUBSET Gated,
             Begin(b, keys, consented)
      PROVE  RowHasOwner'
  BY <1>1 DEF Begin
<1>2. ASSUME NEW b \in Batch, NEW k \in Key, SkipUnconsented(b, k)
      PROVE  RowHasOwner'
  BY <1>2 DEF SkipUnconsented, MayRun
<1>3. ASSUME NEW b \in Batch, NEW k \in Key, Claim(b, k)
      PROVE  RowHasOwner'
  BY <1>3 DEF Claim, InsertInFlight
<1>4. ASSUME NEW b \in Batch, NEW k \in Key, Duplicate(b, k)
      PROVE  RowHasOwner'
  BY <1>4 DEF Duplicate, KeyTaken
<1>5. ASSUME NEW b \in Batch, Invoke(b)
      PROVE  RowHasOwner'
  BY <1>5 DEF Invoke
<1>6. ASSUME NEW b \in Batch, NEW k \in Key, Perform(b, k)
      PROVE  RowHasOwner'
  BY <1>6 DEF Perform
<1>7. ASSUME NEW b \in Batch, NEW result \in Answer, Return(b, result)
      PROVE  RowHasOwner'
  BY <1>7 DEF Return
<1>8. ASSUME NEW b \in Batch, Settle(b)
      PROVE  RowHasOwner'
  BY <1>8 DEF Settle, SettleRow, CallInv
<1>9. ASSUME NEW b \in Batch, Finish(b)
      PROVE  RowHasOwner'
  BY <1>9 DEF Finish
<1>10. ASSUME NEW b \in Batch, Abort(b)
      PROVE  RowHasOwner'
  BY <1>10 DEF Abort
<1>11. ASSUME NEW k \in Key, Receipt(k)
      PROVE  RowHasOwner'
  BY <1>11, ReceiptChangesNoRow DEF Receipt
<1>12. CASE UNCHANGED vars
  BY <1>12 DEF vars
<1>. QED BY <1>1, <1>2, <1>3, <1>4, <1>5, <1>6, <1>7, <1>8, <1>9, <1>10, <1>11, <1>12 DEF Next, BatchStep

\* What was granted is not taken back, and claims look at it.
LEMMA GatedIsGrantedStep == TypeInv /\ NewIsIdle /\ GatedIsGranted /\ [Next]_vars => GatedIsGranted'
<1> SUFFICES ASSUME TypeInv, NewIsIdle, GatedIsGranted, [Next]_vars PROVE GatedIsGranted'
  OBVIOUS
<1> USE KeyAssumption, GatedAssumption DEF TypeInv, TypeOK, HandInv, GatedIsGranted, NewIsIdle, Engaged
<1>1. ASSUME NEW b \in Batch, NEW keys \in SUBSET Key,
             NEW consented \in SUBSET Gated,
             Begin(b, keys, consented)
      PROVE  GatedIsGranted'
  BY <1>1 DEF Begin
<1>2. ASSUME NEW b \in Batch, NEW k \in Key, SkipUnconsented(b, k)
      PROVE  GatedIsGranted'
  BY <1>2 DEF SkipUnconsented, MayRun
<1>3. ASSUME NEW b \in Batch, NEW k \in Key, Claim(b, k)
      PROVE  GatedIsGranted'
  BY <1>3 DEF Claim, InsertInFlight, MayRun
<1>4. ASSUME NEW b \in Batch, NEW k \in Key, Duplicate(b, k)
      PROVE  GatedIsGranted'
  BY <1>4 DEF Duplicate, KeyTaken
<1>5. ASSUME NEW b \in Batch, Invoke(b)
      PROVE  GatedIsGranted'
  BY <1>5 DEF Invoke
<1>6. ASSUME NEW b \in Batch, NEW k \in Key, Perform(b, k)
      PROVE  GatedIsGranted'
  BY <1>6 DEF Perform
<1>7. ASSUME NEW b \in Batch, NEW result \in Answer, Return(b, result)
      PROVE  GatedIsGranted'
  BY <1>7 DEF Return
<1>8. ASSUME NEW b \in Batch, Settle(b)
      PROVE  GatedIsGranted'
  BY <1>8 DEF Settle, SettleRow, CallInv
<1>9. ASSUME NEW b \in Batch, Finish(b)
      PROVE  GatedIsGranted'
  BY <1>9 DEF Finish
<1>10. ASSUME NEW b \in Batch, Abort(b)
      PROVE  GatedIsGranted'
  BY <1>10 DEF Abort
<1>11. ASSUME NEW k \in Key, Receipt(k)
      PROVE  GatedIsGranted'
  BY <1>11, ReceiptChangesNoRow DEF Receipt
<1>12. CASE UNCHANGED vars
  BY <1>12 DEF vars
<1>. QED BY <1>1, <1>2, <1>3, <1>4, <1>5, <1>6, <1>7, <1>8, <1>9, <1>10, <1>11, <1>12 DEF Next, BatchStep

\* A batch engages with nothing before it begins.
LEMMA NewIsIdleStep == TypeInv /\ NewIsIdle /\ [Next]_vars => NewIsIdle'
<1> SUFFICES ASSUME TypeInv, NewIsIdle, [Next]_vars PROVE NewIsIdle'
  OBVIOUS
<1> USE KeyAssumption DEF TypeInv, TypeOK, HandInv, NewIsIdle, Engaged
<1>1. ASSUME NEW b \in Batch, NEW keys \in SUBSET Key,
             NEW consented \in SUBSET Gated,
             Begin(b, keys, consented)
      PROVE  NewIsIdle'
  BY <1>1 DEF Begin
<1>2. ASSUME NEW b \in Batch, NEW k \in Key, SkipUnconsented(b, k)
      PROVE  NewIsIdle'
  BY <1>2 DEF SkipUnconsented, MayRun
<1>3. ASSUME NEW b \in Batch, NEW k \in Key, Claim(b, k)
      PROVE  NewIsIdle'
  BY <1>3 DEF Claim, InsertInFlight
<1>4. ASSUME NEW b \in Batch, NEW k \in Key, Duplicate(b, k)
      PROVE  NewIsIdle'
  BY <1>4 DEF Duplicate, KeyTaken
<1>5. ASSUME NEW b \in Batch, Invoke(b)
      PROVE  NewIsIdle'
  BY <1>5 DEF Invoke
<1>6. ASSUME NEW b \in Batch, NEW k \in Key, Perform(b, k)
      PROVE  NewIsIdle'
  BY <1>6 DEF Perform
<1>7. ASSUME NEW b \in Batch, NEW result \in Answer, Return(b, result)
      PROVE  NewIsIdle'
  BY <1>7 DEF Return
<1>8. ASSUME NEW b \in Batch, Settle(b)
      PROVE  NewIsIdle'
  BY <1>8 DEF Settle, SettleRow, CallInv
<1>9. ASSUME NEW b \in Batch, Finish(b)
      PROVE  NewIsIdle'
  BY <1>9 DEF Finish
<1>10. ASSUME NEW b \in Batch, Abort(b)
      PROVE  NewIsIdle'
  BY <1>10 DEF Abort
<1>11. ASSUME NEW k \in Key, Receipt(k)
      PROVE  NewIsIdle'
  BY <1>11, ReceiptChangesNoRow DEF Receipt
<1>12. CASE UNCHANGED vars
  BY <1>12 DEF vars
<1>. QED BY <1>1, <1>2, <1>3, <1>4, <1>5, <1>6, <1>7, <1>8, <1>9, <1>10, <1>11, <1>12 DEF Next, BatchStep

\* An act leaves the list of a batch by the hand of some batch.
LEMMA NothingSlipsStep == TypeInv /\ RowHasOwner /\ [Next]_vars => NothingSlips
<1> SUFFICES ASSUME TypeInv, RowHasOwner, [Next]_vars PROVE NothingSlips
  OBVIOUS
<1> USE DEF TypeInv, TypeOK, HandInv, NothingSlips, RowHasOwner, Engaged
<1>1. ASSUME NEW b \in Batch, NEW keys \in SUBSET Key,
             NEW consented \in SUBSET Gated,
             Begin(b, keys, consented)
      PROVE  NothingSlips
  BY <1>1 DEF Begin
<1>2. ASSUME NEW b \in Batch, NEW k \in Key, SkipUnconsented(b, k)
      PROVE  NothingSlips
  BY <1>2 DEF SkipUnconsented, MayRun
<1>3. ASSUME NEW b \in Batch, NEW k \in Key, Claim(b, k)
      PROVE  NothingSlips
  BY <1>3 DEF Claim, InsertInFlight
<1>4. ASSUME NEW b \in Batch, NEW k \in Key, Duplicate(b, k)
      PROVE  NothingSlips
  BY <1>4 DEF Duplicate, KeyTaken
<1>5. ASSUME NEW b \in Batch, Invoke(b)
      PROVE  NothingSlips
  BY <1>5 DEF Invoke
<1>6. ASSUME NEW b \in Batch, NEW k \in Key, Perform(b, k)
      PROVE  NothingSlips
  BY <1>6 DEF Perform
<1>7. ASSUME NEW b \in Batch, NEW result \in Answer, Return(b, result)
      PROVE  NothingSlips
  BY <1>7 DEF Return
<1>8. ASSUME NEW b \in Batch, Settle(b)
      PROVE  NothingSlips
  BY <1>8 DEF Settle, SettleRow, CallInv
<1>9. ASSUME NEW b \in Batch, Finish(b)
      PROVE  NothingSlips
  BY <1>9 DEF Finish
<1>10. ASSUME NEW b \in Batch, Abort(b)
      PROVE  NothingSlips
  BY <1>10 DEF Abort
<1>11. ASSUME NEW k \in Key, Receipt(k)
      PROVE  NothingSlips
  BY <1>11, ReceiptChangesNoRow DEF Receipt
<1>12. CASE UNCHANGED vars
  BY <1>12 DEF vars
<1>. QED BY <1>1, <1>2, <1>3, <1>4, <1>5, <1>6, <1>7, <1>8, <1>9, <1>10, <1>11, <1>12 DEF Next, BatchStep

-----------------------------------------------------------------------------

\* The invariant is inductive: it holds of the empty ledger and every step of
\* the batches, the channels and the receipt route keeps it.
LEMMA InvInductive == (Init => Inv) /\ (Inv /\ [Next]_vars => Inv')
<1>1. ASSUME Init PROVE Inv
  <2>1. TypeInv
    BY <1>1 DEF Init, TypeInv, TypeOK, HandInv, RowStatus, ActStatus, Place
  <2>2. EngagedHasRow /\ OneEngaged /\ InFlightIsHeld
    BY <1>1, KeyAssumption
       DEF Init, EngagedHasRow, OneEngaged, InFlightIsHeld, Engaged
  <2>3. CallInv /\ RowsAgreeWithReports /\ OwnReportIsTrue
    BY <1>1 DEF Init, CallInv, RowsAgreeWithReports, OwnReportIsTrue
  <2>4. NoLedgerNoRow /\ NothingGatedCarriedOut /\ GatedNeverSucceeds
    BY <1>1, GatedAssumption
       DEF Init, NoLedgerNoRow, NothingGatedCarriedOut, GatedNeverSucceeds
  <2>. QED BY <2>1, <2>2, <2>3, <2>4 DEF Inv
<1>2. Inv /\ [Next]_vars => Inv'
  BY TypeStep, EngagedHasRowStep, OneEngagedStep, CallStep, NoLedgerStep,
     AgreeStep, InFlightStep, OwnReportStep, GatedStep, GatedFailStep DEF Inv
<1>. QED BY <1>1, <1>2

\* Who owns what, beside Inv.
LEMMA OwnersInductive ==
  /\ Init => OwnersInv
  /\ Inv /\ OwnersInv /\ [Next]_vars => OwnersInv' /\ EngagedStays /\ NothingSlips
<1>1. Init => OwnersInv
  BY KeyAssumption, GatedAssumption
     DEF Init, OwnersInv, RowHasOwner, GatedIsGranted, NewIsIdle, Engaged
<1>2. Inv /\ OwnersInv /\ [Next]_vars => OwnersInv' /\ EngagedStays /\ NothingSlips
  BY EngagedStaysStep, RowHasOwnerStep, GatedIsGrantedStep, NewIsIdleStep, NothingSlipsStep
     DEF Inv, OwnersInv
<1>. QED BY <1>1, <1>2

\* A gated act is in the hand of, or called by, a batch that was granted it alone.
THEOREM GatedOnlyWhenGranted == Spec => []GatedIsGranted
<1>1. Init => Inv /\ OwnersInv
  BY InvInductive, OwnersInductive
<1>2. (Inv /\ OwnersInv) /\ [Next]_vars => (Inv /\ OwnersInv)'
  BY InvInductive, OwnersInductive
<1>3. Inv /\ OwnersInv => GatedIsGranted
  BY DEF OwnersInv
<1>. QED BY <1>1, <1>2, <1>3, PTL DEF Spec

\* Inv holds in every state the batches can reach.
THEOREM Invariant == Spec => []Inv
BY InvInductive, PTL DEF Spec

\* The ledger's columns and the batches' fields keep their types.
THEOREM TypeCorrect == Spec => []TypeOK
<1>1. Inv => TypeOK
  BY DEF Inv, TypeInv
<1>. QED BY Invariant, <1>1, PTL

\* P4: whatever overlaps, aborts and is resumed, no act is called twice.
THEOREM CalledAtMostOnce == Spec => []AtMostOneCall
<1>1. Inv => AtMostOneCall
  BY DEF Inv, OneEngaged, Engaged, AtMostOneCall
<1>. QED BY Invariant, <1>1, PTL

\* A row says what the batch that called reported; a completed report with a
\* deliverable is of a call carried out; an L1/L2 act never succeeds.
THEOREM ReportsAreTrue ==
  Spec => []RowsAgreeWithReports /\ []OwnReportIsTrue /\ []GatedNeverSucceeds
<1>1. Inv => RowsAgreeWithReports /\ OwnReportIsTrue /\ GatedNeverSucceeds
  BY DEF Inv
<1>. QED BY Invariant, <1>1, PTL

\* No row is left in flight by a batch that ended in good order.
THEOREM InFlightHeld == Spec => []InFlightIsHeld
<1>1. Inv => InFlightIsHeld
  BY DEF Inv
<1>. QED BY Invariant, <1>1, PTL

\* The three together, on well-typed states.
THEOREM LedgerIsTruthful == Spec => []LedgerTellsTheTruth
<1>1. TypeOK /\ RowsAgreeWithReports /\ InFlightIsHeld /\ OwnReportIsTrue /\ GatedNeverSucceeds
        => LedgerTellsTheTruth
  BY DEF LedgerTellsTheTruth
<1>. QED BY TypeCorrect, ReportsAreTrue, InFlightHeld, <1>1, PTL

\* What a step may do to a row, and to the abstract act it stands for.
LEMMA RowStep ==
  ASSUME Inv, [Next]_vars, NEW k \in Key
  PROVE  /\ row[k] \in {"completed", "failed"} => row'[k] = row[k]
         /\ row[k] = "in_flight" => row'[k] # "absent"
<1> USE DEF Inv, TypeInv, TypeOK
<1>1. ASSUME NEW b \in Batch, NEW j \in Key, Claim(b, j)
      PROVE  \A i \in Key : row[i] # "absent" => row'[i] = row[i]
  BY <1>1 DEF Claim, InsertInFlight
<1>2. ASSUME NEW b \in Batch, Settle(b)
      PROVE  \A i \in Key : \/ row'[i] = row[i]
                            \/ row[i] = "in_flight" /\ row'[i] # "absent"
  <2>1. cur[b] \in Key
    BY <1>2 DEF Settle, HandInv
  <2>2. HasLedger => row[cur[b]] = "in_flight"
    BY <2>1 DEF InFlightIsHeld
  <2>. QED BY <1>2, <2>1, <2>2 DEF Settle, SettleRow
<1>3. ASSUME NEW j \in Key, Receipt(j)
      PROVE  row' = row
  BY <1>3, ReceiptChangesNoRow
<1>4. CASE \E b \in Batch : Settle(b)
  BY <1>2, <1>4
<1>5. CASE \E b \in Batch, j \in Key : Claim(b, j)
  BY <1>1, <1>5
<1>6. CASE \E j \in Key : Receipt(j)
  BY <1>3, <1>6
<1>7. CASE row' = row
  BY <1>7
<1>. QED BY <1>4, <1>5, <1>6, <1>7 DEF Next, BatchStep, Begin,
        SkipUnconsented, Duplicate, Invoke, Perform, Return, Finish, Abort, vars

\* A settled row is never reopened, and no row disappears.
THEOREM RowsAdvance == Spec => RowsOnlyAdvance
<1>1. Inv /\ [Next]_vars =>
        [\A k \in Key :
           /\ row[k] \in {"completed", "failed"} => row'[k] = row[k]
           /\ row[k] = "in_flight" => row'[k] # "absent"]_vars
  BY RowStep
<1>. QED BY Invariant, <1>1, PTL DEF Spec, RowsOnlyAdvance

-----------------------------------------------------------------------------

\* Every step of the batches is a step of ActOnce or leaves the acts alone.
LEMMA StepImplements ==
  ASSUME HasLedger, Inv, Inv', [Next]_vars
  PROVE  [Abstract!Next]_(Abstract!vars)
<1> USE DEF Inv, TypeInv, TypeOK
<1>1. ASSUME NEW b \in Batch, NEW k \in Key, Claim(b, k)
      PROVE  Abstract!Start(k)
  <2>1. row[k] = "absent" /\ row' = [row EXCEPT ![k] = "in_flight"]
    BY <1>1 DEF Claim, InsertInFlight
  <2>2. carried' = carried
    BY <1>1 DEF Claim
  <2>3. AbstractAct(k) = "idle"
    BY <2>1 DEF AbstractAct, StageOfRow
  <2>4. \A j \in Key : AbstractAct(j)' = IF j = k THEN "started" ELSE AbstractAct(j)
    BY <2>1 DEF AbstractAct, StageOfRow
  <2>5. \A j \in Key : AbstractEffect(j)' = AbstractEffect(j)
    BY <2>2 DEF AbstractEffect
  <2>. QED BY <2>3, <2>4, <2>5 DEF Abstract!Start
<1>2. ASSUME NEW b \in Batch, NEW k \in Key, Perform(b, k)
      PROVE  Abstract!TakeEffect(k)
  <2>1. row' = row /\ carried' = carried \cup {<<b, k>>}
    BY <1>2 DEF Perform
  <2>2. <<b, k>> \in sent \ carried
    BY <1>2 DEF Perform
  <2>3. \A c \in Batch : <<c, k>> \notin carried
    BY <2>2 DEF OneEngaged, Engaged, CallInv
  <2>4. row[k] \in RowStatus \ {"absent"}
    BY <2>2 DEF EngagedHasRow, Engaged
  <2>5. /\ AbstractAct(k) # "idle"
        /\ ~AbstractEffect(k)
    <3>1. AbstractAct(k) # "idle"
      BY <2>4 DEF AbstractAct, StageOfRow, RowStatus
    <3>2. ~AbstractEffect(k)
      BY <2>3 DEF AbstractEffect
    <3>. QED BY <3>1, <3>2
  <2>6. \A j \in Key : AbstractAct(j)' = AbstractAct(j)
    BY <2>1 DEF AbstractAct
  <2>7. \A j \in Key : AbstractEffect(j)' = IF j = k THEN TRUE ELSE AbstractEffect(j)
    BY <2>1 DEF AbstractEffect
  <2>. QED BY <2>5, <2>6, <2>7 DEF Abstract!TakeEffect
<1>3. ASSUME NEW b \in Batch, Settle(b)
      PROVE  Abstract!Succeed(cur[b]) \/ Abstract!Fail(cur[b])
  <2>1. cur[b] \in Key /\ row[cur[b]] = "in_flight" /\ carried' = carried
    BY <1>3 DEF Settle, HandInv, InFlightIsHeld
  <2>2. AbstractAct(cur[b]) = "started"
    BY <2>1 DEF AbstractAct, StageOfRow
  <2>3. \A j \in Key : AbstractEffect(j)' = AbstractEffect(j)
    BY <2>1 DEF AbstractEffect
  <2>4. CASE answer[b] # "error"
    <3>1. row' = [row EXCEPT ![cur[b]] = "completed"]
      BY <1>3, <2>4 DEF Settle, SettleRow, Succeeded
    <3>2. cur[b] \in Gated => AbstractEffect(cur[b])
      BY <1>3, <2>4 DEF Settle, HandInv, CallInv, Answer, AbstractEffect
    <3>3. \A j \in Key : AbstractAct(j)' = IF j = cur[b] THEN "ok" ELSE AbstractAct(j)
      BY <2>1, <3>1 DEF AbstractAct, StageOfRow
    <3>. QED BY <2>1, <2>2, <2>3, <3>2, <3>3 DEF Abstract!Succeed
  <2>5. CASE answer[b] = "error"
    <3>1. row' = [row EXCEPT ![cur[b]] = "failed"]
      BY <1>3, <2>5 DEF Settle, SettleRow, Succeeded
    <3>2. \A j \in Key : AbstractAct(j)' = IF j = cur[b] THEN "failed" ELSE AbstractAct(j)
      BY <2>1, <3>1 DEF AbstractAct, StageOfRow
    <3>. QED BY <2>1, <2>2, <2>3, <3>2 DEF Abstract!Fail
  <2>. QED BY <2>4, <2>5
<1>4. ASSUME row' = row, carried' = carried
      PROVE  UNCHANGED Abstract!vars
  <2>1. \A k \in Key : /\ AbstractAct(k)' = AbstractAct(k)
                       /\ AbstractEffect(k)' = AbstractEffect(k)
    BY <1>4 DEF AbstractAct, AbstractEffect
  <2>. QED BY <2>1 DEF Abstract!vars
<1>5. CASE \E b \in Batch, k \in Key : Claim(b, k)
  BY <1>1, <1>5 DEF Abstract!Next
<1>6. CASE \E b \in Batch, k \in Key : Perform(b, k)
  BY <1>2, <1>6 DEF Abstract!Next
<1>7. CASE \E b \in Batch : Settle(b)
  <2>1. PICK b \in Batch : Settle(b)
    BY <1>7
  <2>2. cur[b] \in Key
    BY <2>1 DEF Settle, HandInv
  <2>3. Abstract!Succeed(cur[b]) \/ Abstract!Fail(cur[b])
    BY <1>3, <2>1
  <2> HIDE DEF Inv, TypeInv, TypeOK
  <2>. QED BY <2>2, <2>3 DEF Abstract!Next
<1>8. CASE \E k \in Key : Receipt(k)
  <2>1. row' = row
    BY <1>8, ReceiptChangesNoRow
  <2>2. carried' = carried
    BY <1>8 DEF Receipt
  <2>. QED BY <1>4, <2>1, <2>2
<1>9. CASE row' = row /\ carried' = carried
  BY <1>4, <1>9
<1> HIDE DEF Inv
<1>. QED BY <1>5, <1>6, <1>7, <1>8, <1>9 DEF Next, BatchStep, Begin,
        SkipUnconsented, Duplicate, Invoke, Return, Finish, Abort, vars

\* With a ledger, the batches keep the promise of ActOnce: one start, one
\* effect, one settlement, and of a side effect an ok one only after it happened.
THEOREM LedgerImplementsActOnce == HasLedger => (Spec => ImplementsActOnce)
<1> SUFFICES ASSUME HasLedger PROVE Spec => ImplementsActOnce
  OBVIOUS
<1>1. Init => Abstract!Init
  BY DEF Init, Abstract!Init, AbstractAct, AbstractEffect, StageOfRow
<1>2. Inv /\ Inv' /\ [Next]_vars => [Abstract!Next]_(Abstract!vars)
  BY StepImplements
<1>. QED BY Invariant, <1>1, <1>2, PTL DEF Spec, ImplementsActOnce, Abstract!Spec
=============================================================================
