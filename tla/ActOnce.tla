------------------------------- MODULE ActOnce -------------------------------
(****************************************************************************)
(* What the idempotency ledger promises about a business act, with nothing  *)
(* said of batches, rows or transactions: the act named by a key is started *)
(* at most once, takes effect at most once, and is settled at most once; an *)
(* act that changes the world is settled "ok" only when it did, while a     *)
(* read may be, with nothing to show for it.  An act whose attempt is lost  *)
(* may stay started for ever, and a settled attempt may still take effect   *)
(* late.  ActionLedger implements this (ActionLedger!Abstract).             *)
(****************************************************************************)

CONSTANTS Key,        \* idempotency keys, one per business act
          Firm        \* the acts that change the world

VARIABLES act,        \* act[k]: how far the act named k has got
          effect      \* effect[k]: the outside world has changed because of k

vars == <<act, effect>>

Stage == {"idle", "started", "ok", "failed"}

Init == /\ act = [k \in Key |-> "idle"]
        /\ effect = [k \in Key |-> FALSE]

Start(k) == /\ act[k] = "idle"
            /\ act' = [act EXCEPT ![k] = "started"]
            /\ UNCHANGED effect

TakeEffect(k) == /\ act[k] # "idle"
                 /\ ~effect[k]
                 /\ effect' = [effect EXCEPT ![k] = TRUE]
                 /\ UNCHANGED act

Succeed(k) == /\ act[k] = "started"
              /\ k \in Firm => effect[k]
              /\ act' = [act EXCEPT ![k] = "ok"]
              /\ UNCHANGED effect

Fail(k) == /\ act[k] = "started"
           /\ act' = [act EXCEPT ![k] = "failed"]
           /\ UNCHANGED effect

Next == \E k \in Key : Start(k) \/ TakeEffect(k) \/ Succeed(k) \/ Fail(k)

Spec == Init /\ [][Next]_vars
=============================================================================
