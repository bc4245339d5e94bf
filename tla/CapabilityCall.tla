---------------------------- MODULE CapabilityCall ----------------------------
(****************************************************************************)
(* What the channel layer promises about one capability call, with nothing  *)
(* said of providers, attempts, quota or caches.  A call that may change    *)
(* the world (Firm) changes it at most once, is reported "ok" only when it  *)
(* did and is never reported "degraded"; a call that is denied never        *)
(* changes anything.  A call can be lost, or reported failed, and still     *)
(* take effect later.  Resolver implements this (Resolver!Abstract), and    *)
(* ActionLedger is written against it: its Answer is an outcome here.       *)
(****************************************************************************)

CONSTANTS Call,       \* calls of CapabilityResolver.call
          Firm,       \* the calls of capabilities with side effects
          Attempt     \* the requests a call may send to providers

VARIABLES outcome,    \* outcome[c]: what the caller of c knows
          did         \* did[c]: the requests of c that changed the world

vars == <<outcome, did>>

Pending == {"idle", "asked"}
Outcome == Pending \cup {"ok", "degraded", "failed", "denied", "lost"}

Init == /\ outcome = [c \in Call |-> "idle"]
        /\ did = [c \in Call |-> {}]

Become(c, o) == /\ outcome' = [outcome EXCEPT ![c] = o]
                /\ UNCHANGED did

Ask(c) == outcome[c] = "idle" /\ Become(c, "asked")

Deny(c) == outcome[c] = "idle" /\ Become(c, "denied")

Succeed(c) == /\ outcome[c] \in Pending
              /\ c \in Firm => did[c] # {}
              /\ Become(c, "ok")

Degrade(c) == /\ outcome[c] \in Pending
              /\ c \notin Firm
              /\ Become(c, "degraded")

Fail(c) == outcome[c] \in Pending /\ Become(c, "failed")

\* A crash of the process loses every call in progress at once.
Lose(S) == /\ \A c \in S : outcome[c] = "asked"
           /\ outcome' = [c \in Call |-> IF c \in S THEN "lost" ELSE outcome[c]]
           /\ UNCHANGED did

TakeEffect(c, m) == /\ c \in Firm
                    /\ outcome[c] \notin {"idle", "denied"}
                    /\ did[c] = {}
                    /\ did' = [did EXCEPT ![c] = {m}]
                    /\ UNCHANGED outcome

Next ==
  \/ \E c \in Call : \/ Ask(c) \/ Deny(c) \/ Succeed(c) \/ Degrade(c) \/ Fail(c)
                     \/ \E m \in Attempt : TakeEffect(c, m)
  \/ \E S \in SUBSET Call : Lose(S)

Spec == Init /\ [][Next]_vars
=============================================================================
