---------------------------- MODULE ResolverProofs ----------------------------
(****************************************************************************)
(* Theorems of Resolver, for any catalogue, calls and limits the            *)
(* assumptions allow.  The inductive invariant Inv strengthens the          *)
(* invariants the run checks with what a call knows between two awaits.     *)
(****************************************************************************)
EXTENDS Resolver, FiniteSetTheorems, WellFoundedInduction, TLAPS

\* A call that waits for a provider was allowed, is at a position of its chain and
\* in an attempt that was counted; one with side effects is in its only attempt.
WaitInv ==
  \A c \in Call :
    /\ pc[c] \in Waiting => /\ at[c] \in DOMAIN Chain(c)
                           /\ tries[c] \in 1..MaxAttempts
                           /\ Allowed(c)
    /\ Gated(c) /\ pc[c] \in Waiting =>
         pc[c] = "invoking" /\ at[c] = 1 /\ tries[c] = 1

\* Only a call that was asked and allowed has sent requests.
SentInv == \A m \in sent : pc[m[1]] # "idle" /\ Allowed(m[1])

\* A call with side effects sends at most its first request to its one provider.
OnceInv == \A m \in sent : Gated(m[1]) => m[2] = 1 /\ m[3] = 1

\* A call has a reply exactly when it was answered, and is denied only when it
\* is not allowed.
ReplyInv ==
  \A c \in Call : /\ reply[c] = "none" <=> pc[c] # "answered"
                  /\ reply[c] = "denied" => ~Allowed(c)

\* A call has no row in the books before it is asked.
HoldInv == \A c \in Call : pc[c] = "idle" => hold[c] = NoHold

\* A call with side effects is never told less than that it was carried out.
GatedInv ==
  \A c \in Call : Gated(c) =>
    /\ reply[c] \notin Degraded
    /\ reply[c] = "live" => RequestsOf(c, carried) # {}

CarriedInv == \A m \in carried : Gated(m[1])

Inv ==
  /\ TypeOK
  /\ WaitInv
  /\ SentInv
  /\ OnceInv
  /\ ReplyInv
  /\ HoldInv
  /\ BooksBalance
  /\ GatedInv
  /\ CarriedInv

-----------------------------------------------------------------------------
(* Minima.                                                                  *)

LEMMA LeastOfWellFounded ==
  ASSUME NEW R, IsWellFoundedOn(R, Nat), \A x, y \in Nat : y < x => <<y, x>> \in R,
         NEW S, S \subseteq Nat, S # {}
  PROVE  \E x \in S : \A y \in S : x <= y
<1>1. PICK x \in S : \A y \in S : ~ (<<y, x>> \in R)
  BY WFMin
<1>2. \A y \in S : ~ (y < x)
  BY <1>1
<1>3. \A y \in S : x <= y
  BY <1>2
<1> QED BY <1>3

LEMMA HasLeast ==
  ASSUME NEW S, S \subseteq Nat, S # {}
  PROVE  \E x \in S : \A y \in S : x <= y
<1>1. IsWellFoundedOn(OpToRel(<, Nat), Nat)
  BY NatLessThanWellFounded
<1>2. \A x, y \in Nat : y < x => <<y, x>> \in OpToRel(<, Nat)
  BY DEF OpToRel
<1> QED BY <1>1, <1>2, LeastOfWellFounded

\* The least element the code takes by walking a list in order is in the set.
LEMMA MinIsLeast ==
  ASSUME NEW S, S \subseteq Nat, S # {}
  PROVE  /\ Min(S) \in S
         /\ \A y \in S : Min(S) <= y
<1>1. PICK x \in S : \A y \in S : x <= y
  BY HasLeast
<1> QED BY <1>1 DEF Min

-----------------------------------------------------------------------------
(* What the assumptions say of a call.                                      *)

LEMMA SpecOfCall ==
  ASSUME NEW c \in Call
  PROVE  /\ Request[c].cap \in Capability
         /\ Request[c].params \in Params
         /\ Request[c].context \in Context \cup {NoContext}
         /\ SpecOf(c) \in CapabilitySpec
         /\ Gated(c) => Len(Chain(c)) = 1 /\ SpecOf(c).ttl = 0
BY CatalogueAssumption, RequestAssumption DEF SpecOf, Gated, Chain

LEMMA ChainPositions ==
  ASSUME NEW c \in Call
  PROVE  /\ DOMAIN Chain(c) \subseteq Nat
         /\ Usable(c) \subseteq DOMAIN Chain(c)
         /\ Gated(c) => DOMAIN Chain(c) = {1}
<1>1. Chain(c) \in Seq(Adapter)
  BY SpecOfCall DEF Chain, CapabilitySpec
<1>2. DOMAIN Chain(c) = 1..Len(Chain(c))
  BY <1>1
<1>3. DOMAIN Chain(c) \subseteq Nat
  BY <1>2
<1>4. Gated(c) => DOMAIN Chain(c) = {1}
  BY <1>2, SpecOfCall, 1..1 = {1}
<1> QED BY <1>3, <1>4 DEF Usable

\* The next provider of the chain is one of the chain, and a call with side
\* effects has none after its first.
LEMMA NextPosition ==
  ASSUME NEW c \in Call, NEW i \in Nat, NextInChain(c, i) # {}
  PROVE  /\ Min(NextInChain(c, i)) \in DOMAIN Chain(c)
         /\ Min(NextInChain(c, i)) \in Nat
         /\ Gated(c) => i = 0 /\ Min(NextInChain(c, i)) = 1
<1>1. NextInChain(c, i) \subseteq DOMAIN Chain(c) /\ DOMAIN Chain(c) \subseteq Nat
  BY ChainPositions DEF NextInChain
<1>2. Min(NextInChain(c, i)) \in NextInChain(c, i)
  BY <1>1, MinIsLeast
<1>3. \A j \in NextInChain(c, i) : j > i
  BY DEF NextInChain
<1> QED BY <1>1, <1>2, <1>3, ChainPositions

\* The ladder gives nothing a caller could take for a live answer or a denial,
\* and to a side effect only an error.
LEMMA LadderReply ==
  ASSUME NEW c \in Call
  PROVE  /\ Ladder(c) \in {"error", "unavailable", "stale", "skeleton", "self_service"}
         /\ Gated(c) => Ladder(c) = "error"
<1> DEFINE rungs == {n \in DOMAIN SpecOf(c).ladder : Rung(c, SpecOf(c).ladder[n])}
<1>1. SpecOf(c).ladder \in Seq(Level)
  BY SpecOfCall DEF CapabilitySpec
<1>2. rungs \subseteq DOMAIN SpecOf(c).ladder /\ DOMAIN SpecOf(c).ladder \subseteq Nat
  BY <1>1
<1>3. CASE rungs # {}
  <2>1. Min(rungs) \in rungs
    <3> HIDE DEF rungs
    <3> QED BY <1>2, <1>3, MinIsLeast
  <2>2. SpecOf(c).ladder[Min(rungs)] \in Level
    <3> HIDE DEF rungs
    <3>1. Min(rungs) \in DOMAIN SpecOf(c).ladder
      BY <1>2, <2>1
    <3>2. \A n \in DOMAIN SpecOf(c).ladder : SpecOf(c).ladder[n] \in Level
      BY <1>1
    <3> QED BY <3>1, <3>2
  <2>3. RungReply[SpecOf(c).ladder[Min(rungs)]] \in {"stale", "skeleton", "self_service"}
    BY <2>2 DEF Level, RungReply
  <2>4. Ladder(c) = IF Gated(c) THEN "error" ELSE RungReply[SpecOf(c).ladder[Min(rungs)]]
    BY <1>3 DEF Ladder
  <2> QED BY <2>3, <2>4
<1>4. CASE rungs = {}
  BY <1>4 DEF Ladder
<1> QED BY <1>3, <1>4

LEMMA RequestShape ==
  /\ \A m \in Requests : /\ m[1] \in Call
                         /\ m = <<m[1], m[2], m[3]>>
  /\ \A c \in Call, n \in 1..MaxAttempts : \A i \in DOMAIN Chain(c) :
       <<c, i, n>> \in Requests
BY DEF Requests

\* The month of a reservation.
LEMMA MonthIsNat ==
  ASSUME now \in Nat
  PROVE  Month \in Nat
BY BoundAssumption DEF Month

Holds == [state : {"none", "reserved", "committed", "rolled_back"}, month : Nat]

LEMMA HoldTypes ==
  ASSUME NEW c \in Call, TypeOK
  PROVE  /\ NoHold \in Holds
         /\ Reservation(c) \in Holds
         /\ Pooled(c) => Reservation(c).state = "reserved"
         /\ \A s \in {"committed", "rolled_back"} :
              /\ Settled(c, s) \in Holds
              /\ hold[c].state = "reserved" => Settled(c, s).state = s
<1>1. now \in Nat /\ hold[c] \in Holds
  BY DEF TypeOK, Holds
<1>2. Month \in Nat
  BY <1>1, MonthIsNat
<1> QED BY <1>1, <1>2 DEF NoHold, Reservation, Settled, Holds

-----------------------------------------------------------------------------
(* The inductive invariant.                                                 *)

\* call() returns.
LEMMA GiveKeeps ==
  ASSUME Inv, NEW c \in Call, NEW r \in Reply \ {"none"}, NEW h \in Holds,
         Give(c, r),
         hold' = [hold EXCEPT ![c] = h],
         refused' \in [Call -> SUBSET Nat],
         cache' \in [Capability -> [Params -> Nat]],
         UNCHANGED <<now, sent, carried>>,
         r = "denied" => ~Allowed(c),
         Gated(c) => r \notin Degraded /\ (r = "live" => RequestsOf(c, carried) # {}),
         Pooled(c) => /\ h.state = "committed" <=> r = "live"
                      /\ h.state # "reserved"
  PROVE  Inv'
<1> USE DEF Inv
<1>1. TypeOK'
  <2>1. /\ pc' \in [Call -> {"idle", "answered", "lost"} \cup Waiting]
        /\ at' \in [Call -> Nat]
        /\ reply' \in [Call -> Reply]
    BY DEF TypeOK, Give
  <2>2. tries' \in [Call -> 0..MaxAttempts]
    BY BoundAssumption DEF TypeOK, Give
  <2>3. hold' \in [Call -> Holds]
    BY DEF TypeOK, Holds
  <2> QED BY <2>1, <2>2, <2>3 DEF TypeOK, Holds
<1>2. WaitInv'
  BY DEF WaitInv, Give, Waiting, TypeOK, Allowed, SpecOf, EffectiveContext, Gated, Chain
<1>3. SentInv'
  BY DEF SentInv, Give, Waiting, TypeOK, Allowed, SpecOf, EffectiveContext, Gated
<1>4. OnceInv'
  BY DEF OnceInv, Gated, SpecOf
<1>5. ReplyInv'
  BY DEF ReplyInv, Give, TypeOK, Allowed, SpecOf, EffectiveContext, Gated
<1>6. HoldInv'
  BY DEF HoldInv, Give, TypeOK
<1>7. BooksBalance'
  BY DEF BooksBalance, Give, TypeOK, Pooled, SpecOf, Waiting, Holds
<1>8. GatedInv'
  BY DEF GatedInv, Give, TypeOK, Gated, SpecOf, RequestsOf
<1>9. CarriedInv'
  BY DEF CarriedInv, Gated, SpecOf
<1> QED BY <1>1, <1>2, <1>3, <1>4, <1>5, <1>6, <1>7, <1>8, <1>9

\* A provider is invoked.
LEMMA SendKeeps ==
  ASSUME Inv, NEW c \in Call, NEW i \in DOMAIN Chain(c), NEW n \in 1..MaxAttempts,
         NEW h \in Holds,
         Send(c, i, n),
         hold' = [hold EXCEPT ![c] = h],
         UNCHANGED <<now, cache, refused, carried>>,
         pc[c] # "answered",
         Allowed(c),
         Gated(c) => i = 1 /\ n = 1,
         Pooled(c) => h.state = "reserved"
  PROVE  Inv'
<1> USE DEF Inv
<1>a. i \in Nat /\ n \in 0..MaxAttempts /\ <<c, i, n>> \in Requests
  BY ChainPositions, RequestShape, BoundAssumption
<1>b. carried \subseteq sent /\ sent' = sent \cup {<<c, i, n>>}
  BY DEF TypeOK, Send
<1>1. TypeOK'
  BY <1>a, <1>b DEF TypeOK, Send, Holds, Waiting
<1>2. WaitInv'
  BY DEF WaitInv, Send, Waiting, TypeOK, Allowed, SpecOf, EffectiveContext, Gated, Chain
<1>3. SentInv'
  BY <1>b DEF SentInv, Send, Waiting, TypeOK, Allowed, SpecOf, EffectiveContext, Gated
<1>4. OnceInv'
  BY <1>b DEF OnceInv, Gated, SpecOf
<1>5. ReplyInv'
  BY DEF ReplyInv, Send, TypeOK, Allowed, SpecOf, EffectiveContext, Gated
<1>6. HoldInv'
  BY DEF HoldInv, Send, TypeOK
<1>7. BooksBalance'
  BY DEF BooksBalance, ReplyInv, Send, TypeOK, Pooled, SpecOf, Waiting, Holds
<1>8. GatedInv'
  BY DEF GatedInv, Send, TypeOK, Gated, SpecOf, RequestsOf
<1>9. CarriedInv'
  BY DEF CarriedInv, Gated, SpecOf
<1> QED BY <1>1, <1>2, <1>3, <1>4, <1>5, <1>6, <1>7, <1>8, <1>9

\* The loop of call() goes on: it sends, or it returns what the ladder gives.
LEMMA ProceedKeeps ==
  ASSUME Inv, NEW c \in Call, NEW i \in Nat, NEW rolled \in Holds,
         Proceed(c, i, rolled),
         UNCHANGED <<now, cache, carried>>,
         pc[c] # "answered",
         Allowed(c),
         Pooled(c) => rolled.state \notin {"reserved", "committed"}
  PROVE  Inv'
<1> DEFINE rest == NextInChain(c, i)
<1>1. CASE rest # {} /\ HasRoom(c)
  <2>1. /\ Min(rest) \in DOMAIN Chain(c)
        /\ Gated(c) => Min(rest) = 1
    BY <1>1, NextPosition
  <2>2. 1 \in 1..MaxAttempts
    BY BoundAssumption
  <2>3. Reservation(c) \in Holds /\ (Pooled(c) => Reservation(c).state = "reserved")
    BY HoldTypes DEF Inv
  <2>4. /\ Send(c, Min(rest), 1)
        /\ hold' = [hold EXCEPT ![c] = Reservation(c)]
        /\ UNCHANGED refused
    BY <1>1 DEF Proceed
  <2> HIDE DEF rest
  <2> QED BY <2>1, <2>2, <2>3, <2>4, SendKeeps
<1>2. CASE ~ (rest # {} /\ HasRoom(c))
  <2>1. /\ Give(c, Ladder(c))
        /\ refused' = [refused EXCEPT ![c] = @ \cup rest]
        /\ hold' = [hold EXCEPT ![c] = rolled]
        /\ UNCHANGED sent
    BY <1>2 DEF Proceed
  <2>2. rest \subseteq Nat
    BY ChainPositions DEF NextInChain
  <2>3. refused' \in [Call -> SUBSET Nat]
    <3> HIDE DEF rest
    <3> QED BY <2>1, <2>2 DEF Inv, TypeOK
  <2>4. /\ Ladder(c) \in Reply \ {"none", "denied", "live"}
        /\ Gated(c) => Ladder(c) \notin Degraded
    BY LadderReply DEF Reply, Degraded
  <2>5. cache' \in [Capability -> [Params -> Nat]]
    BY DEF Inv, TypeOK
  <2> QED BY <2>1, <2>3, <2>4, <2>5, GiveKeeps
<1> QED BY <1>1, <1>2

LEMMA MoveOnKeeps ==
  ASSUME Inv, NEW c \in Call, pc[c] \in Waiting, MoveOn(c)
  PROVE  Inv'
<1>1. at[c] \in Nat
  BY DEF Inv, TypeOK
<1>2. pc[c] \notin {"answered", "idle"}
  BY DEF Waiting
<1>3. Allowed(c)
  BY DEF Inv, WaitInv
<1>4. Settled(c, "rolled_back") \in Holds
  BY HoldTypes DEF Inv
<1>5. Pooled(c) => Settled(c, "rolled_back").state = "rolled_back"
  BY HoldTypes DEF Inv, BooksBalance
<1> QED BY <1>1, <1>2, <1>3, <1>4, <1>5, ProceedKeeps DEF MoveOn

LEMMA AskKeeps ==
  ASSUME Inv, NEW c \in Call, Ask(c)
  PROVE  Inv'
<1>1. pc[c] = "idle" /\ UNCHANGED <<now, cache, carried>>
  BY DEF Ask
<1>2. NoHold \in Holds /\ NoHold.state = "none"
  BY DEF NoHold, Holds
<1>3. /\ hold[c] = NoHold
      /\ hold = [hold EXCEPT ![c] = NoHold]
      /\ refused \in [Call -> SUBSET Nat]
      /\ cache \in [Capability -> [Params -> Nat]]
  BY <1>1 DEF Inv, HoldInv, TypeOK
<1>4. CASE ~Allowed(c)
  <2>1. Give(c, "denied") /\ UNCHANGED <<refused, hold, sent>>
    BY <1>4 DEF Ask
  <2> QED BY <1>1, <1>2, <1>3, <1>4, <2>1, GiveKeeps DEF Reply, Degraded
<1>5. CASE Allowed(c) /\ Fresh(c)
  <2>1. Give(c, "fresh") /\ UNCHANGED <<refused, hold, sent>>
    BY <1>5 DEF Ask
  <2>2. ~Gated(c)
    BY <1>5, SpecOfCall DEF Fresh, Caches
  <2> QED BY <1>1, <1>2, <1>3, <2>1, <2>2, GiveKeeps DEF Reply
<1>6. CASE Allowed(c) /\ ~Fresh(c)
  <2>1. Proceed(c, 0, NoHold)
    BY <1>6 DEF Ask
  <2> QED BY <1>1, <1>2, <1>6, <2>1, ProceedKeeps
<1> QED BY <1>4, <1>5, <1>6

LEMMA AnswerKeeps ==
  ASSUME Inv, NEW c \in Call, NEW personal \in BOOLEAN, Answer(c, personal)
  PROVE  Inv'
<1>1. /\ pc[c] = "invoking"
      /\ hold' = [hold EXCEPT ![c] = Settled(c, "committed")]
      /\ Give(c, "live")
      /\ UNCHANGED <<now, refused, sent, carried>>
  BY DEF Answer
<1>2. Settled(c, "committed") \in Holds
  BY HoldTypes DEF Inv
<1>3. Pooled(c) => Settled(c, "committed").state = "committed"
  BY <1>1, HoldTypes DEF Inv, BooksBalance, Waiting
<1>4. Gated(c) => RequestsOf(c, carried) # {}
  <2>1. Gated(c) => <<c, at[c], tries[c]>> \in carried
    BY DEF Answer
  <2> QED BY <2>1 DEF RequestsOf
<1>5. cache' \in [Capability -> [Params -> Nat]]
  <2>1. now + SpecOf(c).ttl \in Nat
    BY SpecOfCall DEF Inv, TypeOK, CapabilitySpec
  <2> QED BY <2>1 DEF Answer, Inv, TypeOK
<1>6. refused' \in [Call -> SUBSET Nat]
  BY <1>1 DEF Inv, TypeOK
<1> QED BY <1>1, <1>2, <1>3, <1>4, <1>5, <1>6, GiveKeeps DEF Reply, Degraded

\* Steps that only move pc: into the back-off, or out of the process.
LEMMA PcKeeps ==
  ASSUME Inv, NEW S \in SUBSET Call, NEW p \in {"backoff", "lost"},
         \A c \in S : pc[c] \in Waiting /\ (p = "backoff" => ~Gated(c)),
         pc' = [c \in Call |-> IF c \in S THEN p ELSE pc[c]],
         UNCHANGED <<now, cache, hold, at, tries, refused, reply, sent, carried>>
  PROVE  Inv'
<1> USE DEF Inv
<1>1. TypeOK'
  BY DEF TypeOK, Waiting
<1>2. WaitInv'
  BY DEF WaitInv, Waiting, Allowed, SpecOf, EffectiveContext, Gated, Chain
<1>3. SentInv'
  <2>1. \A m \in sent : m[1] \in Call
    BY RequestShape DEF TypeOK
  <2> QED BY <2>1 DEF SentInv, Waiting, Allowed, SpecOf, EffectiveContext, Gated
<1>4. OnceInv'
  BY DEF OnceInv, Gated, SpecOf
<1>5. ReplyInv'
  BY DEF ReplyInv, Waiting, Allowed, SpecOf, EffectiveContext, Gated
<1>6. HoldInv'
  BY DEF HoldInv
<1>7. BooksBalance'
  BY DEF BooksBalance, Pooled, SpecOf, Waiting
<1>8. GatedInv'
  BY DEF GatedInv, Gated, SpecOf, RequestsOf
<1>9. CarriedInv'
  BY DEF CarriedInv, Gated, SpecOf
<1> QED BY <1>1, <1>2, <1>3, <1>4, <1>5, <1>6, <1>7, <1>8, <1>9

LEMMA RaisesKeeps ==
  ASSUME Inv, NEW c \in Call, NEW kind \in ErrorKind, Raises(c, kind)
  PROVE  Inv'
<1>1. pc[c] \in Waiting
  BY DEF Raises, Waiting
<1>2. CASE ShouldRetry(c, kind)
  <2>1. pc' = [d \in Call |-> IF d \in {c} THEN "backoff" ELSE pc[d]]
    BY <1>2 DEF Raises, Inv, TypeOK
  <2>2. ~Gated(c)
    BY <1>2 DEF ShouldRetry
  <2>3. UNCHANGED <<now, cache, hold, at, tries, refused, reply, sent, carried>>
    BY <1>2 DEF Raises
  <2>4. {c} \in SUBSET Call /\ \A d \in {c} : pc[d] \in Waiting /\ ~Gated(d)
    BY <1>1, <2>2
  <2> QED BY <2>1, <2>3, <2>4, PcKeeps
<1>3. CASE ~ShouldRetry(c, kind)
  <2>1. MoveOn(c)
    BY <1>3 DEF Raises
  <2> QED BY <1>1, <2>1, MoveOnKeeps
<1> QED BY <1>2, <1>3

LEMMA BackoffOverKeeps ==
  ASSUME Inv, NEW c \in Call, BackoffOver(c)
  PROVE  Inv'
<1>1. pc[c] = "backoff" /\ pc[c] \in Waiting
  BY DEF BackoffOver, Waiting
<1>2. CASE tries[c] < MaxAttempts
  <2>1. /\ Send(c, at[c], tries[c] + 1)
        /\ UNCHANGED <<now, cache, hold, refused, carried>>
    BY <1>2 DEF BackoffOver
  <2>2. /\ at[c] \in DOMAIN Chain(c)
        /\ tries[c] + 1 \in 1..MaxAttempts
        /\ Allowed(c)
        /\ ~Gated(c)
    BY <1>1, <1>2, BoundAssumption DEF Inv, WaitInv
  <2>3. /\ hold[c] \in Holds
        /\ hold' = [hold EXCEPT ![c] = hold[c]]
    BY <2>1 DEF Inv, TypeOK, Holds
  <2>4. Pooled(c) => hold[c].state = "reserved"
    BY <1>1 DEF Inv, BooksBalance
  <2> QED BY <1>1, <2>1, <2>2, <2>3, <2>4, SendKeeps
<1>3. CASE ~ (tries[c] < MaxAttempts)
  <2>1. MoveOn(c)
    BY <1>3 DEF BackoffOver
  <2> QED BY <1>1, <2>1, MoveOnKeeps
<1> QED BY <1>2, <1>3

LEMMA PerformKeeps ==
  ASSUME Inv, Perform
  PROVE  Inv'
<1> USE DEF Inv
<1>1. PICK m \in sent \ carried : Gated(m[1]) /\ carried' = carried \cup {m}
  BY DEF Perform
<1>2. UNCHANGED <<now, cache, hold, pc, at, tries, refused, reply, sent>>
  BY DEF Perform
<1>3. TypeOK'
  BY <1>1, <1>2 DEF TypeOK
<1>4. GatedInv'
  BY <1>1, <1>2 DEF GatedInv, RequestsOf, Gated, SpecOf
<1>5. CarriedInv'
  BY <1>1 DEF CarriedInv, Gated, SpecOf
<1>6. WaitInv' /\ SentInv' /\ OnceInv'
  BY <1>2 DEF WaitInv, SentInv, OnceInv, Waiting, Allowed, SpecOf, EffectiveContext,
              Gated, Chain
<1>7. ReplyInv' /\ HoldInv' /\ BooksBalance'
  BY <1>2 DEF ReplyInv, HoldInv, BooksBalance, Waiting, Allowed, SpecOf,
              EffectiveContext, Gated, Pooled
<1> QED BY <1>3, <1>4, <1>5, <1>6, <1>7

LEMMA QuietKeeps ==
  ASSUME Inv, now' \in 0..MaxNow,
         UNCHANGED <<cache, hold, pc, at, tries, refused, reply, sent, carried>>
  PROVE  Inv'
<1> USE DEF Inv
<1>1. TypeOK'
  BY DEF TypeOK
<1>2. WaitInv' /\ SentInv' /\ OnceInv' /\ GatedInv' /\ CarriedInv'
  BY DEF WaitInv, SentInv, OnceInv, GatedInv, CarriedInv, RequestsOf, Waiting, Allowed,
         SpecOf, EffectiveContext, Gated, Chain
<1>3. ReplyInv' /\ HoldInv' /\ BooksBalance'
  BY DEF ReplyInv, HoldInv, BooksBalance, Waiting, Allowed, SpecOf, EffectiveContext,
         Gated, Pooled
<1> QED BY <1>1, <1>2, <1>3

LEMMA InitInv == Init => Inv
<1> SUFFICES ASSUME Init PROVE Inv
  OBVIOUS
<1>1. TypeOK
  BY BoundAssumption DEF Init, TypeOK, NoHold, Reply
<1>2. WaitInv /\ SentInv /\ OnceInv /\ ReplyInv /\ HoldInv /\ CarriedInv
  BY DEF Init, WaitInv, SentInv, OnceInv, ReplyInv, HoldInv, CarriedInv, Waiting
<1>3. BooksBalance
  BY DEF Init, BooksBalance, NoHold, Waiting
<1>4. GatedInv
  BY DEF Init, GatedInv, Degraded
<1> QED BY <1>1, <1>2, <1>3, <1>4 DEF Inv

\* The invariant is inductive: it holds initially and every step of a call, a
\* provider, the clock or a crash keeps it.
THEOREM InvHolds == Spec => []Inv
<1>1. Init => Inv
  BY InitInv
<1>2. Inv /\ [Next]_vars => Inv'
  <2> SUFFICES ASSUME Inv, [Next]_vars PROVE Inv'
    OBVIOUS
  <2>1. ASSUME NEW c \in Call, Ask(c) PROVE Inv'
    BY <2>1, AskKeeps
  <2>2. ASSUME NEW c \in Call, Outcome(c) PROVE Inv'
    <3>1. ASSUME NEW personal \in BOOLEAN, Answer(c, personal) PROVE Inv'
      BY <3>1, AnswerKeeps
    <3>2. ASSUME Declines(c) PROVE Inv'
      <4>1. pc[c] \in Waiting /\ MoveOn(c)
        BY <3>2 DEF Declines, Waiting
      <4> QED BY <4>1, MoveOnKeeps
    <3>3. ASSUME NEW kind \in ErrorKind, Raises(c, kind) PROVE Inv'
      BY <3>3, RaisesKeeps
    <3> QED BY <2>2, <3>1, <3>2, <3>3 DEF Outcome
  <2>3. ASSUME NEW c \in Call, BackoffOver(c) PROVE Inv'
    BY <2>3, BackoffOverKeeps
  <2>4. ASSUME NEW c \in Call, Cancelled(c) PROVE Inv'
    <3>1. pc' = [d \in Call |-> IF d \in {c} THEN "lost" ELSE pc[d]]
      BY <2>4 DEF Cancelled, Inv, TypeOK
    <3>2. /\ {c} \in SUBSET Call
          /\ \A d \in {c} : pc[d] \in Waiting
          /\ UNCHANGED <<now, cache, hold, at, tries, refused, reply, sent, carried>>
      BY <2>4 DEF Cancelled, Waiting
    <3> QED BY <3>1, <3>2, PcKeeps
  <2>5. ASSUME Crash PROVE Inv'
    <3> DEFINE S == {d \in Call : pc[d] \in Waiting}
    <3>1. /\ pc' = [d \in Call |-> IF d \in S THEN "lost" ELSE pc[d]]
          /\ \A d \in S : pc[d] \in Waiting
          /\ S \in SUBSET Call
          /\ UNCHANGED <<now, cache, hold, at, tries, refused, reply, sent, carried>>
      BY <2>5 DEF Crash
    <3> HIDE DEF S
    <3> QED BY <3>1, PcKeeps
  <2>6. CASE Perform
    BY <2>6, PerformKeeps
  <2>7. CASE Tick
    <3>1. now' \in 0..MaxNow
      BY <2>7, BoundAssumption DEF Tick, Inv, TypeOK
    <3> QED BY <2>7, <3>1, QuietKeeps DEF Tick
  <2>8. CASE UNCHANGED vars
    <3>1. now' \in 0..MaxNow
      BY <2>8 DEF vars, Inv, TypeOK
    <3> QED BY <2>8, <3>1, QuietKeeps DEF vars
  <2> QED BY <2>1, <2>2, <2>3, <2>4, <2>5, <2>6, <2>7, <2>8 DEF Next
<1> QED BY <1>1, <1>2, PTL DEF Spec

-----------------------------------------------------------------------------
(* What follows from it.                                                    *)

\* Every reachable state is type correct.
THEOREM TypeCorrect == Spec => []TypeOK
<1>1. Inv => TypeOK
  BY DEF Inv
<1> QED BY <1>1, InvHolds, PTL

\* A pool is charged exactly for the calls a provider answered, and holds units
\* back exactly for those in progress or lost, for any catalogue.
THEOREM BooksAlwaysBalance == Spec => []BooksBalance
<1>1. Inv => BooksBalance
  BY DEF Inv
<1> QED BY <1>1, InvHolds, PTL

\* No call with side effects sends a second request, whatever the provider does:
\* no retry, and no other provider after the first.
THEOREM SideEffectsAreSentOnce == Spec => []SideEffectSentOnce
<1>1. Inv => SideEffectSentOnce
  <2> SUFFICES ASSUME Inv, NEW c \in Call, Gated(c),
                      NEW m \in RequestsOf(c, sent), NEW n \in RequestsOf(c, sent)
               PROVE  m = n
    BY DEF SideEffectSentOnce
  <2>1. m \in Requests /\ n \in Requests /\ m[1] = c /\ n[1] = c
    BY DEF Inv, TypeOK, RequestsOf
  <2>2. m = <<m[1], m[2], m[3]>> /\ n = <<n[1], n[2], n[3]>>
    BY <2>1, RequestShape
  <2>3. m[2] = 1 /\ m[3] = 1 /\ n[2] = 1 /\ n[3] = 1
    BY <2>1 DEF Inv, OnceInv, RequestsOf
  <2> QED BY <2>1, <2>2, <2>3
<1> QED BY <1>1, InvHolds, PTL

\* Nothing with side effects reaches a provider without the consent its risk
\* asks for.
THEOREM NothingBeforeConsent == Spec => []ConsentedBeforeSent
<1>1. Inv => ConsentedBeforeSent
  <2> SUFFICES ASSUME Inv, NEW m \in sent, Gated(m[1])
               PROVE  LET x == Request[m[1]].context
                      IN /\ x # NoContext
                         /\ x.plan /\ x.action /\ x.ref
                         /\ SpecOf(m[1]).risk = 2 => x.token
    BY DEF ConsentedBeforeSent
  <2>1. m[1] \in Call /\ Allowed(m[1])
    BY RequestShape DEF Inv, TypeOK, SentInv
  <2>2. SpecOf(m[1]).risk \in 1..2
    BY <2>1, SpecOfCall DEF CapabilitySpec, Gated
  <2>3. Request[m[1]].context # NoContext
    BY <2>1 DEF Allowed, EffectiveContext
  <2> QED BY <2>1, <2>2, <2>3 DEF Allowed, EffectiveContext
<1> QED BY <1>1, InvHolds, PTL

\* Both: what changes the world is asked for once, and with its consent.
THEOREM SideEffectsOnceWithConsent == Spec => []SentOnceWithConsent
<1>1. SideEffectSentOnce /\ ConsentedBeforeSent => SentOnceWithConsent
  BY DEF SentOnceWithConsent
<1> QED BY <1>1, SideEffectsAreSentOnce, NothingBeforeConsent, PTL

-----------------------------------------------------------------------------
(* Resolver implements CapabilityCall.                                      *)

AbstractOutcome == [c \in Call |-> OutcomeOf(c)]
AbstractDid     == [c \in Call |-> RequestsOf(c, carried)]

\* A step of one call that carries nothing out moves only that call's outcome.
LEMMA OnlyOneMoves ==
  ASSUME NEW c \in Call, TypeOK,
         \A d \in Call \ {c} : pc'[d] = pc[d] /\ reply'[d] = reply[d],
         UNCHANGED carried
  PROVE  /\ AbstractOutcome' = [AbstractOutcome EXCEPT ![c] = OutcomeOf(c)']
         /\ UNCHANGED AbstractDid
<1>1. \A d \in Call \ {c} : OutcomeOf(d)' = OutcomeOf(d)
  BY DEF OutcomeOf, Tells, Meanwhile
<1>2. AbstractOutcome' = [d \in Call |-> OutcomeOf(d)']
  BY DEF AbstractOutcome
<1>3. UNCHANGED AbstractDid
  BY DEF AbstractDid, RequestsOf
<1> QED BY <1>1, <1>2, <1>3 DEF AbstractOutcome

LEMMA InitRefines == Init => Abstract!Init
<1> SUFFICES ASSUME Init PROVE Abstract!Init
  OBVIOUS
<1>1. \A c \in Call : OutcomeOf(c) = "idle"
  BY DEF Init, OutcomeOf, Meanwhile
<1>2. \A c \in Call : RequestsOf(c, carried) = {}
  BY DEF Init, RequestsOf
<1> QED BY <1>1, <1>2 DEF Abstract!Init

\* A reply other than a live answer.
LEMMA GiveRefines ==
  ASSUME Inv, NEW c \in Call, NEW r \in Reply \ {"none", "live", "denied"},
         Give(c, r), UNCHANGED carried, pc[c] \notin {"answered", "lost"},
         Gated(c) => r \notin Degraded
  PROVE  Abstract!Next
<1>1. /\ AbstractOutcome' = [AbstractOutcome EXCEPT ![c] = OutcomeOf(c)']
      /\ UNCHANGED AbstractDid
  BY OnlyOneMoves DEF Give, Inv, TypeOK
<1>2. AbstractOutcome[c] \in Abstract!Pending
  BY DEF AbstractOutcome, OutcomeOf, Meanwhile, Waiting, Inv, TypeOK, Abstract!Pending
<1>3. OutcomeOf(c)' = IF r \in Degraded THEN "degraded" ELSE "failed"
  <2>1. pc'[c] = "answered" /\ reply'[c] = r
    BY DEF Give, Inv, TypeOK
  <2> QED BY <2>1 DEF OutcomeOf, Tells, Reply, Degraded
<1>4. CASE r \in Degraded
  <2>1. Abstract!Degrade(c)
    BY <1>1, <1>2, <1>3, <1>4
       DEF Abstract!Degrade, Abstract!Become, AbstractOutcome, AbstractDid
  <2> QED BY <2>1 DEF Abstract!Next
<1>5. CASE r \notin Degraded
  <2>1. Abstract!Fail(c)
    BY <1>1, <1>2, <1>3, <1>5
       DEF Abstract!Fail, Abstract!Become, AbstractOutcome, AbstractDid
  <2> QED BY <2>1 DEF Abstract!Next
<1> QED BY <1>4, <1>5

AbstractStep == Abstract!Next \/ UNCHANGED <<AbstractOutcome, AbstractDid>>

\* A request sent: the call's first, or one more that its caller does not see.
LEMMA SendRefines ==
  ASSUME Inv, NEW c \in Call, NEW i, NEW n, Send(c, i, n), UNCHANGED carried,
         pc[c] \in {"idle"} \cup Waiting
  PROVE  AbstractStep
<1>1. /\ AbstractOutcome' = [AbstractOutcome EXCEPT ![c] = OutcomeOf(c)']
      /\ UNCHANGED AbstractDid
  BY OnlyOneMoves DEF Send, Inv, TypeOK
<1>2. OutcomeOf(c)' = "asked"
  BY DEF Send, OutcomeOf, Meanwhile, Inv, TypeOK
<1>3. CASE pc[c] = "idle"
  <2>1. AbstractOutcome[c] = "idle"
    BY <1>3 DEF AbstractOutcome, OutcomeOf, Meanwhile
  <2>2. Abstract!Ask(c)
    BY <1>1, <1>2, <2>1 DEF Abstract!Ask, Abstract!Become, AbstractOutcome, AbstractDid
  <2> QED BY <2>2 DEF AbstractStep, Abstract!Next
<1>4. CASE pc[c] \in Waiting
  <2>1. AbstractOutcome[c] = "asked"
    BY <1>4 DEF AbstractOutcome, OutcomeOf, Meanwhile, Waiting
  <2>2. AbstractOutcome' = AbstractOutcome
    BY <1>1, <1>2, <2>1 DEF AbstractOutcome
  <2> QED BY <1>1, <2>2 DEF AbstractStep
<1> QED BY <1>3, <1>4

LEMMA ProceedRefines ==
  ASSUME Inv, NEW c \in Call, NEW i, NEW rolled, Proceed(c, i, rolled),
         UNCHANGED carried, pc[c] \in {"idle"} \cup Waiting
  PROVE  AbstractStep
<1>1. CASE \E j, n : Send(c, j, n)
  BY <1>1, SendRefines
<1>2. CASE Give(c, Ladder(c))
  <2>1. /\ Ladder(c) \in Reply \ {"none", "live", "denied"}
        /\ Gated(c) => Ladder(c) \notin Degraded
        /\ pc[c] \notin {"answered", "lost"}
    BY LadderReply DEF Reply, Degraded, Waiting
  <2> QED BY <1>2, <2>1, GiveRefines DEF AbstractStep
<1> QED BY <1>1, <1>2 DEF Proceed

LEMMA MoveOnRefines ==
  ASSUME Inv, NEW c \in Call, pc[c] \in Waiting, MoveOn(c)
  PROVE  AbstractStep
BY ProceedRefines DEF MoveOn

LEMMA AskRefines ==
  ASSUME Inv, NEW c \in Call, Ask(c)
  PROVE  AbstractStep
<1>1. pc[c] = "idle" /\ UNCHANGED carried
  BY DEF Ask
<1>2. CASE ~Allowed(c)
  <2>1. Give(c, "denied")
    BY <1>2 DEF Ask
  <2>2. /\ AbstractOutcome' = [AbstractOutcome EXCEPT ![c] = OutcomeOf(c)']
        /\ UNCHANGED AbstractDid
    BY <1>1, <2>1, OnlyOneMoves DEF Give, Inv, TypeOK
  <2>3. OutcomeOf(c)' = "denied" /\ AbstractOutcome[c] = "idle"
    BY <1>1, <2>1 DEF Give, OutcomeOf, Tells, Meanwhile, AbstractOutcome, Inv, TypeOK
  <2>4. Abstract!Deny(c)
    BY <2>2, <2>3 DEF Abstract!Deny, Abstract!Become, AbstractOutcome, AbstractDid
  <2> QED BY <2>4 DEF AbstractStep, Abstract!Next
<1>3. CASE Allowed(c) /\ Fresh(c)
  <2>1. Give(c, "fresh")
    BY <1>3 DEF Ask
  <2>2. ~Gated(c)
    BY <1>3, SpecOfCall DEF Fresh, Caches
  <2> QED BY <1>1, <2>1, <2>2, GiveRefines DEF AbstractStep, Reply
<1>4. CASE Allowed(c) /\ ~Fresh(c)
  <2>1. Proceed(c, 0, NoHold)
    BY <1>4 DEF Ask
  <2> QED BY <1>1, <2>1, ProceedRefines
<1> QED BY <1>2, <1>3, <1>4

LEMMA AnswerRefines ==
  ASSUME Inv, NEW c \in Call, NEW personal, Answer(c, personal)
  PROVE  AbstractStep
<1>1. pc[c] = "invoking" /\ Give(c, "live") /\ UNCHANGED carried
  BY DEF Answer
<1>2. /\ AbstractOutcome' = [AbstractOutcome EXCEPT ![c] = OutcomeOf(c)']
      /\ UNCHANGED AbstractDid
  BY <1>1, OnlyOneMoves DEF Give, Inv, TypeOK
<1>3. OutcomeOf(c)' = "ok" /\ AbstractOutcome[c] = "asked" /\ reply'[c] = "live"
  BY <1>1 DEF Give, OutcomeOf, Tells, Meanwhile, AbstractOutcome, Inv, TypeOK
<1>4. Gated(c) => AbstractDid[c] # {}
  <2>1. Gated(c) => <<c, at[c], tries[c]>> \in RequestsOf(c, carried)
    BY DEF Answer, RequestsOf
  <2> QED BY <2>1 DEF AbstractDid
<1>5. Abstract!Succeed(c)
  BY <1>2, <1>3, <1>4
     DEF Abstract!Succeed, Abstract!Become, Abstract!Pending, AbstractOutcome, AbstractDid
<1> QED BY <1>5 DEF AbstractStep, Abstract!Next

\* A call that backs off is still in progress for its caller.
LEMMA RaisesRefines ==
  ASSUME Inv, NEW c \in Call, NEW kind, Raises(c, kind)
  PROVE  AbstractStep
<1>1. pc[c] = "invoking" /\ pc[c] \in Waiting
  BY DEF Raises, Waiting
<1>2. CASE ShouldRetry(c, kind)
  <2>1. pc' = [pc EXCEPT ![c] = "backoff"] /\ UNCHANGED <<reply, carried>>
    BY <1>2 DEF Raises
  <2>2. /\ AbstractOutcome' = [AbstractOutcome EXCEPT ![c] = OutcomeOf(c)']
        /\ UNCHANGED AbstractDid
    BY <2>1, OnlyOneMoves DEF Inv, TypeOK
  <2>3. OutcomeOf(c)' = "asked" /\ AbstractOutcome[c] = "asked"
    BY <1>1, <2>1 DEF OutcomeOf, Meanwhile, AbstractOutcome, Inv, TypeOK
  <2>4. AbstractOutcome' = AbstractOutcome
    BY <2>2, <2>3 DEF AbstractOutcome
  <2> QED BY <2>2, <2>4 DEF AbstractStep
<1>3. CASE ~ShouldRetry(c, kind)
  <2>1. MoveOn(c)
    BY <1>3 DEF Raises
  <2> QED BY <1>1, <2>1, MoveOnRefines
<1> QED BY <1>2, <1>3

\* The calls of S are lost, and no other call is touched.
LEMMA LossRefines ==
  ASSUME Inv, NEW S \in SUBSET Call, \A d \in S : pc[d] \in Waiting,
         pc' = [d \in Call |-> IF d \in S THEN "lost" ELSE pc[d]],
         UNCHANGED <<reply, carried>>
  PROVE  AbstractStep
<1>1. \A d \in Call : OutcomeOf(d)' = IF d \in S THEN "lost" ELSE OutcomeOf(d)
  BY DEF OutcomeOf, Tells, Meanwhile
<1>2. \A d \in S : OutcomeOf(d) = "asked"
  BY DEF OutcomeOf, Meanwhile, Waiting
<1>3. UNCHANGED AbstractDid
  BY DEF AbstractDid, RequestsOf
<1>4. Abstract!Lose(S)
  BY <1>1, <1>2, <1>3 DEF Abstract!Lose, AbstractDid
<1> QED BY <1>4 DEF AbstractStep, Abstract!Next

\* A request carried out is the only one of its call, and of a call allowed.
LEMMA PerformRefines ==
  ASSUME Inv, Perform
  PROVE  AbstractStep
<1>1. PICK m \in sent \ carried : Gated(m[1]) /\ carried' = carried \cup {m}
  BY DEF Perform
<1> DEFINE c == m[1]
<1>2. c \in Call /\ m \in Requests /\ pc[c] # "idle" /\ Allowed(c)
  BY RequestShape DEF Inv, TypeOK, SentInv
<1>3. \A k \in carried : k[1] = c => k = m
  <2> SUFFICES ASSUME NEW k \in carried, k[1] = c PROVE k = m
    OBVIOUS
  <2>1. k \in sent /\ k \in Requests
    BY DEF Inv, TypeOK
  <2>2. k = <<k[1], k[2], k[3]>> /\ m = <<m[1], m[2], m[3]>>
    BY <1>2, <2>1, RequestShape
  <2>3. k[2] = 1 /\ k[3] = 1 /\ m[2] = 1 /\ m[3] = 1
    BY <1>1, <2>1 DEF Inv, OnceInv
  <2> QED BY <2>2, <2>3
<1>4. RequestsOf(c, carried) = {}
  BY <1>3 DEF RequestsOf
<1>5. \A d \in Call : RequestsOf(d, carried)' = IF d = c THEN {m} ELSE RequestsOf(d, carried)
  BY <1>1, <1>4 DEF RequestsOf
<1>6. OutcomeOf(c) \notin {"idle", "denied"}
  <2>1. CASE pc[c] = "answered"
    BY <1>2, <2>1 DEF OutcomeOf, Tells, Inv, ReplyInv, TypeOK, Reply
  <2>2. CASE pc[c] # "answered"
    BY <1>2, <2>2 DEF OutcomeOf, Meanwhile, Inv, TypeOK, Waiting
  <2> QED BY <2>1, <2>2
<1>7. AbstractDid' = [AbstractDid EXCEPT ![c] = {m}]
  BY <1>5 DEF AbstractDid
<1>8. UNCHANGED AbstractOutcome
  BY DEF Perform, AbstractOutcome, OutcomeOf, Tells, Meanwhile
<1>9. Abstract!TakeEffect(c, m)
  BY <1>1, <1>2, <1>4, <1>6, <1>7, <1>8
     DEF Abstract!TakeEffect, AbstractDid, AbstractOutcome
<1> QED BY <1>2, <1>9 DEF AbstractStep, Abstract!Next

\* The resolver keeps the promise of CapabilityCall: whatever the providers, the
\* clock, the cache, the pools and a crash do, a side effect happens at most once,
\* is reported done only if it was, and never after a denial.
THEOREM ResolverServesCalls == Spec => ServesCalls
<1>1. Init => Abstract!Init
  BY InitRefines
<1>2. Inv /\ [Next]_vars => [Abstract!Next]_(Abstract!vars)
  <2> SUFFICES ASSUME Inv, [Next]_vars PROVE AbstractStep
    BY DEF AbstractStep, Abstract!vars, AbstractOutcome, AbstractDid
  <2>1. ASSUME NEW c \in Call, Ask(c) PROVE AbstractStep
    BY <2>1, AskRefines
  <2>2. ASSUME NEW c \in Call, Outcome(c) PROVE AbstractStep
    <3>1. ASSUME NEW personal \in BOOLEAN, Answer(c, personal) PROVE AbstractStep
      BY <3>1, AnswerRefines
    <3>2. ASSUME Declines(c) PROVE AbstractStep
      <4>1. pc[c] \in Waiting /\ MoveOn(c)
        BY <3>2 DEF Declines, Waiting
      <4> QED BY <4>1, MoveOnRefines
    <3>3. ASSUME NEW kind \in ErrorKind, Raises(c, kind) PROVE AbstractStep
      BY <3>3, RaisesRefines
    <3> QED BY <2>2, <3>1, <3>2, <3>3 DEF Outcome
  <2>3. ASSUME NEW c \in Call, BackoffOver(c) PROVE AbstractStep
    <3>1. pc[c] \in Waiting
      BY <2>3 DEF BackoffOver, Waiting
    <3>2. CASE MoveOn(c)
      BY <3>1, <3>2, MoveOnRefines
    <3>3. CASE Send(c, at[c], tries[c] + 1) /\ UNCHANGED carried
      BY <3>1, <3>3, SendRefines
    <3> QED BY <2>3, <3>2, <3>3 DEF BackoffOver
  <2>4. ASSUME NEW c \in Call, Cancelled(c) PROVE AbstractStep
    <3>1. pc' = [d \in Call |-> IF d \in {c} THEN "lost" ELSE pc[d]]
      BY <2>4 DEF Cancelled, Inv, TypeOK
    <3>2. /\ {c} \in SUBSET Call
          /\ \A d \in {c} : pc[d] \in Waiting
          /\ UNCHANGED <<reply, carried>>
      BY <2>4 DEF Cancelled, Waiting
    <3> QED BY <3>1, <3>2, LossRefines
  <2>5. ASSUME Crash PROVE AbstractStep
    <3> DEFINE S == {d \in Call : pc[d] \in Waiting}
    <3>1. /\ pc' = [d \in Call |-> IF d \in S THEN "lost" ELSE pc[d]]
          /\ \A d \in S : pc[d] \in Waiting
          /\ S \in SUBSET Call
          /\ UNCHANGED <<reply, carried>>
      BY <2>5 DEF Crash
    <3> HIDE DEF S
    <3> QED BY <3>1, LossRefines
  <2>6. CASE Perform
    BY <2>6, PerformRefines
  <2>7. CASE Tick \/ UNCHANGED vars
    BY <2>7 DEF Tick, vars, AbstractStep, AbstractOutcome, AbstractDid, OutcomeOf,
                Tells, Meanwhile, RequestsOf
  <2> QED BY <2>1, <2>2, <2>3, <2>4, <2>5, <2>6, <2>7 DEF Next
<1> QED BY InvHolds, <1>1, <1>2, PTL DEF Spec, ServesCalls, Abstract!Spec
-----------------------------------------------------------------------------
(* What a set of calls charges to a pool: the sum of their units, whatever  *)
(* the order they are added in.                                             *)

Charge(S) == MapThenSumSet(LAMBDA d : SpecOf(d).units, S)

\* The sum takes the calls one by one; g is its values on the sets of D.
First(s) == CHOOSE x \in s : TRUE
AddsUp(g, D) ==
  g = [s \in D |-> IF s = {} THEN 0 ELSE SpecOf(First(s)).units + g[s \ {First(s)}]]

LEMMA ChargeUnfolds ==
  ASSUME NEW S
  PROVE  Charge(S) = (CHOOSE g : AddsUp(g, SUBSET S))[S]
BY DEF Charge, MapThenSumSet, MapThenFoldSet, AddsUp, First

\* Of finite sets one is smallest.
LEMMA HasSmallest ==
  ASSUME NEW B, B # {}, \A s \in B : IsFiniteSet(s)
  PROVE  \E s \in B : \A t \in B : Cardinality(s) <= Cardinality(t)
<1> DEFINE N == {Cardinality(s) : s \in B}
<1>1. N \subseteq Nat /\ N # {}
  BY FS_CardinalityType
<1>2. PICK n \in N : \A m \in N : n <= m
  BY <1>1, HasLeast
<1> QED BY <1>2

LEMMA WithoutFirst ==
  ASSUME NEW S, IsFiniteSet(S), NEW s \in SUBSET S, NEW x \in s
  PROVE  /\ IsFiniteSet(s) /\ IsFiniteSet(s \ {x}) /\ s \ {x} \in SUBSET S
         /\ Cardinality(s) \in Nat /\ Cardinality(s \ {x}) \in Nat
         /\ Cardinality(s \ {x}) = Cardinality(s) - 1
<1>1. IsFiniteSet(s)
  BY FS_Subset
<1>2. IsFiniteSet(s \ {x}) /\ Cardinality(s \ {x}) = Cardinality(s) - 1
  BY <1>1, FS_RemoveElement
<1> QED BY <1>1, <1>2, FS_CardinalityType

LEMMA FirstIsIn ==
  ASSUME NEW s, s # {}
  PROVE  First(s) \in s
BY DEF First

Small(S, n) == {s \in SUBSET S : Cardinality(s) <= n}

LEMMA SumsToSize ==
  ASSUME NEW S, IsFiniteSet(S), NEW n \in Nat
  PROVE  \E g : AddsUp(g, Small(S, n))
<1> DEFINE Bad == {m \in Nat : ~ \E g : AddsUp(g, Small(S, m))}
<1> SUFFICES ASSUME Bad # {} PROVE FALSE
  OBVIOUS
<1>1. PICK m \in Bad : \A k \in Bad : m <= k
  BY HasLeast
<1>2. m \in Nat /\ ~ \E g : AddsUp(g, Small(S, m))
  OBVIOUS
<1>3. CASE m = 0
  <2>1. \A s \in Small(S, 0) : s = {}
    <3> SUFFICES ASSUME NEW s \in SUBSET S, Cardinality(s) <= 0 PROVE s = {}
      BY DEF Small
    <3>1. IsFiniteSet(s) /\ Cardinality(s) \in Nat
      BY FS_Subset, FS_CardinalityType
    <3> QED BY <3>1, FS_EmptySet
  <2>2. AddsUp([s \in Small(S, 0) |-> 0], Small(S, 0))
    BY <2>1 DEF AddsUp
  <2> QED BY <1>2, <1>3, <2>2
<1>4. CASE m # 0
  <2>1. m - 1 \in Nat /\ ~ (m <= m - 1)
    BY <1>2, <1>4
  <2>2. PICK g : AddsUp(g, Small(S, m - 1))
    BY <1>1, <2>1
  <2> DEFINE h == [s \in Small(S, m) |->
                     IF s = {} THEN 0 ELSE SpecOf(First(s)).units + g[s \ {First(s)}]]
  <2>3. \A s \in Small(S, m - 1) : s \in Small(S, m)
    <3> SUFFICES ASSUME NEW s \in SUBSET S, Cardinality(s) <= m - 1 PROVE Cardinality(s) <= m
      BY DEF Small
    <3>1. Cardinality(s) \in Nat
      BY FS_Subset, FS_CardinalityType
    <3> QED BY <1>2, <3>1
  <2>4. \A s \in Small(S, m - 1) : h[s] = g[s]
    BY <2>2, <2>3 DEF AddsUp
  <2>5. \A s \in Small(S, m) : s # {} => s \ {First(s)} \in Small(S, m - 1)
    <3> SUFFICES ASSUME NEW s \in SUBSET S, Cardinality(s) <= m, s # {}
                 PROVE  s \ {First(s)} \in SUBSET S /\ Cardinality(s \ {First(s)}) <= m - 1
      BY DEF Small
    <3>1. First(s) \in s
      BY FirstIsIn
    <3>2. /\ s \ {First(s)} \in SUBSET S /\ Cardinality(s) \in Nat
          /\ Cardinality(s \ {First(s)}) = Cardinality(s) - 1
      BY <3>1, WithoutFirst
    <3> QED BY <1>2, <3>2
  <2>6. \A s \in Small(S, m) : s # {} => h[s \ {First(s)}] = g[s \ {First(s)}]
    BY <2>4, <2>5
  <2>7. h = [s \in Small(S, m) |->
               IF s = {} THEN 0 ELSE SpecOf(First(s)).units + h[s \ {First(s)}]]
    <3>1. \A s \in Small(S, m) : h[s] = IF s = {} THEN 0
                                        ELSE SpecOf(First(s)).units + g[s \ {First(s)}]
      OBVIOUS
    <3>2. h = [s \in Small(S, m) |-> h[s]]
      OBVIOUS
    <3> HIDE DEF h
    <3>3. \A s \in Small(S, m) : h[s] = IF s = {} THEN 0
                                        ELSE SpecOf(First(s)).units + h[s \ {First(s)}]
      BY <2>6, <3>1
    <3> QED BY <3>2, <3>3
  <2> HIDE DEF h
  <2>8. AddsUp(h, Small(S, m))
    BY <2>7 DEF AddsUp
  <2> QED BY <1>2, <2>8
<1> QED BY <1>3, <1>4

LEMMA SumExists ==
  ASSUME NEW S, IsFiniteSet(S)
  PROVE  \E g : AddsUp(g, SUBSET S)
<1>1. Cardinality(S) \in Nat
  BY FS_CardinalityType
<1>2. Small(S, Cardinality(S)) = SUBSET S
  <2>1. \A s \in SUBSET S : Cardinality(s) <= Cardinality(S)
    BY FS_Subset
  <2> QED BY <2>1 DEF Small
<1>3. \E g : AddsUp(g, Small(S, Cardinality(S)))
  BY <1>1, SumsToSize
<1> QED BY <1>2, <1>3

\* Sums over two sets agree on what is in both.
LEMMA SumsAgree ==
  ASSUME NEW S, IsFiniteSet(S), NEW T \in SUBSET S, NEW g, NEW h,
         AddsUp(g, SUBSET S), AddsUp(h, SUBSET T)
  PROVE  \A s \in SUBSET T : g[s] = h[s]
<1> DEFINE Bad == {s \in SUBSET T : g[s] # h[s]}
<1> SUFFICES ASSUME Bad # {} PROVE FALSE
  OBVIOUS
<1>1. IsFiniteSet(T) /\ \A s \in Bad : IsFiniteSet(s)
  BY FS_Subset
<1>2. PICK s \in Bad : \A t \in Bad : Cardinality(s) <= Cardinality(t)
  BY <1>1, HasSmallest
<1>3. s \in SUBSET T /\ s \in SUBSET S /\ g[s] # h[s]
  OBVIOUS
<1>4. g[s] = IF s = {} THEN 0 ELSE SpecOf(First(s)).units + g[s \ {First(s)}]
  BY <1>3 DEF AddsUp
<1>5. h[s] = IF s = {} THEN 0 ELSE SpecOf(First(s)).units + h[s \ {First(s)}]
  BY <1>3 DEF AddsUp
<1>6. s # {}
  BY <1>3, <1>4, <1>5
<1>7. First(s) \in s
  BY <1>6, FirstIsIn
<1>8. /\ s \ {First(s)} \in SUBSET T /\ Cardinality(s) \in Nat
      /\ Cardinality(s \ {First(s)}) = Cardinality(s) - 1
  BY <1>1, <1>3, <1>7, WithoutFirst
<1>9. ~ (Cardinality(s) <= Cardinality(s \ {First(s)}))
  BY <1>8
<1>10. g[s \ {First(s)}] = h[s \ {First(s)}]
  BY <1>2, <1>8, <1>9
<1> QED BY <1>3, <1>4, <1>5, <1>10

LEMMA ChargeOfFirst ==
  ASSUME NEW S, IsFiniteSet(S)
  PROVE  Charge(S) = IF S = {} THEN 0 ELSE SpecOf(First(S)).units + Charge(S \ {First(S)})
<1> DEFINE Sum(T) == CHOOSE g : AddsUp(g, SUBSET T)
<1>1. \A T : IsFiniteSet(T) => AddsUp(Sum(T), SUBSET T)
  BY SumExists
<1>2. \A T : Charge(T) = Sum(T)[T]
  BY ChargeUnfolds
<1> HIDE DEF Sum
<1>3. Sum(S)[S] = IF S = {} THEN 0 ELSE SpecOf(First(S)).units + Sum(S)[S \ {First(S)}]
  BY <1>1 DEF AddsUp
<1>4. CASE S = {}
  BY <1>2, <1>3, <1>4
<1>5. CASE S # {}
  <2> DEFINE T == S \ {First(S)}
  <2>1. IsFiniteSet(T) /\ T \in SUBSET S
    BY FS_Subset
  <2>2. Sum(S)[T] = Sum(T)[T]
    <3>1. AddsUp(Sum(S), SUBSET S) /\ AddsUp(Sum(T), SUBSET T)
      BY <1>1, <2>1
    <3> HIDE DEF T
    <3>2. \A s \in SUBSET T : Sum(S)[s] = Sum(T)[s]
      BY <2>1, <3>1, SumsAgree
    <3> QED BY <3>2
  <2> QED BY <1>2, <1>3, <1>5, <2>2
<1> QED BY <1>4, <1>5

LEMMA UnitsAreNat ==
  ASSUME NEW c \in Call
  PROVE  SpecOf(c).units \in Nat
BY SpecOfCall DEF CapabilitySpec

LEMMA ChargeIsNat ==
  ASSUME NEW S, IsFiniteSet(S), S \subseteq Call
  PROVE  Charge(S) \in Nat
<1> DEFINE Bad == {s \in SUBSET S : Charge(s) \notin Nat}
<1> SUFFICES ASSUME Bad # {} PROVE FALSE
  OBVIOUS
<1>1. \A s \in Bad : IsFiniteSet(s)
  BY FS_Subset
<1>2. PICK s \in Bad : \A t \in Bad : Cardinality(s) <= Cardinality(t)
  BY <1>1, HasSmallest
<1>3. s \in SUBSET S /\ Charge(s) \notin Nat /\ IsFiniteSet(s)
  BY <1>1
<1>4. Charge(s) = IF s = {} THEN 0 ELSE SpecOf(First(s)).units + Charge(s \ {First(s)})
  BY <1>3, ChargeOfFirst
<1>5. s # {}
  BY <1>3, <1>4
<1>6. First(s) \in s /\ First(s) \in Call
  BY <1>3, <1>5, FirstIsIn
<1>7. /\ s \ {First(s)} \in SUBSET S /\ Cardinality(s) \in Nat
      /\ Cardinality(s \ {First(s)}) = Cardinality(s) - 1
  BY <1>3, <1>6, WithoutFirst
<1>8. ~ (Cardinality(s) <= Cardinality(s \ {First(s)}))
  BY <1>7
<1>9. Charge(s \ {First(s)}) \in Nat
  BY <1>2, <1>7, <1>8
<1>10. SpecOf(First(s)).units \in Nat
  BY <1>6, UnitsAreNat
<1> QED BY <1>3, <1>4, <1>5, <1>9, <1>10

\* Any call may be the one taken first.
LEMMA ChargeOfAny ==
  ASSUME NEW S, IsFiniteSet(S), S \subseteq Call, NEW c \in S
  PROVE  Charge(S) = SpecOf(c).units + Charge(S \ {c})
<1> DEFINE Bad == {s \in SUBSET S : \E x \in s : Charge(s) # SpecOf(x).units + Charge(s \ {x})}
<1> SUFFICES ASSUME Bad # {} PROVE FALSE
  OBVIOUS
<1>1. \A s \in Bad : IsFiniteSet(s)
  BY FS_Subset
<1>2. PICK s \in Bad : \A t \in Bad : Cardinality(s) <= Cardinality(t)
  BY <1>1, HasSmallest
<1>3. PICK x \in s : Charge(s) # SpecOf(x).units + Charge(s \ {x})
  BY <1>2
<1>4. s \in SUBSET S /\ IsFiniteSet(s) /\ s # {}
  BY <1>1, <1>3
<1> DEFINE y == First(s)
<1>5. Charge(s) = SpecOf(y).units + Charge(s \ {y})
  BY <1>4, ChargeOfFirst
<1>6. y \in s /\ y # x
  BY <1>3, <1>4, <1>5, FirstIsIn
<1> HIDE DEF y
<1>7. /\ \A z \in {x, y} : /\ s \ {z} \in SUBSET S /\ IsFiniteSet(s \ {z})
                           /\ ~ (Cardinality(s) <= Cardinality(s \ {z}))
  <2> SUFFICES ASSUME NEW z \in s
               PROVE  /\ s \ {z} \in SUBSET S /\ IsFiniteSet(s \ {z})
                      /\ ~ (Cardinality(s) <= Cardinality(s \ {z}))
    BY <1>6
  <2>1. /\ s \ {z} \in SUBSET S /\ IsFiniteSet(s \ {z}) /\ Cardinality(s) \in Nat
        /\ Cardinality(s \ {z}) = Cardinality(s) - 1
    BY <1>4, WithoutFirst
  <2>2. ~ (Cardinality(s) <= Cardinality(s \ {z}))
    BY <2>1
  <2> QED BY <2>1, <2>2
<1>8. s \ {x} \notin Bad /\ s \ {y} \notin Bad
  BY <1>2, <1>7
<1>9. Charge(s \ {y}) = SpecOf(x).units + Charge((s \ {y}) \ {x})
  BY <1>6, <1>7, <1>8
<1>10. Charge(s \ {x}) = SpecOf(y).units + Charge((s \ {x}) \ {y})
  BY <1>6, <1>7, <1>8
<1>11. Charge((s \ {x}) \ {y}) = Charge((s \ {y}) \ {x})
  <2>1. (s \ {x}) \ {y} = (s \ {y}) \ {x}
    OBVIOUS
  <2> QED BY <2>1
<1>12. /\ SpecOf(x).units \in Nat /\ SpecOf(y).units \in Nat
       /\ Charge((s \ {y}) \ {x}) \in Nat
  <2>1. x \in Call /\ y \in Call /\ (s \ {y}) \ {x} \subseteq Call
    BY <1>4, <1>6
  <2>2. IsFiniteSet((s \ {y}) \ {x})
    BY <1>4, FS_Subset
  <2> QED BY <2>1, <2>2, UnitsAreNat, ChargeIsNat
<1> HIDE DEF Bad
<1>13. Charge(s) = SpecOf(x).units + Charge(s \ {x})
  BY <1>5, <1>9, <1>10, <1>11, <1>12
<1> QED BY <1>3, <1>13

LEMMA ChargeOfNone == Charge({}) = 0
BY FS_EmptySet, ChargeOfFirst

LEMMA ChargeOfMore ==
  ASSUME NEW S, IsFiniteSet(S), S \subseteq Call, NEW T \in SUBSET S
  PROVE  Charge(T) <= Charge(S)
<1> DEFINE Bad == {s \in SUBSET S : T \subseteq s /\ ~ (Charge(T) <= Charge(s))}
<1> SUFFICES ASSUME Bad # {} PROVE FALSE
  OBVIOUS
<1>1. \A s \in Bad : IsFiniteSet(s)
  BY FS_Subset
<1>2. PICK s \in Bad : \A t \in Bad : Cardinality(s) <= Cardinality(t)
  BY <1>1, HasSmallest
<1>3. s \in SUBSET S /\ IsFiniteSet(s) /\ T \subseteq s /\ ~ (Charge(T) <= Charge(s))
  BY <1>1
<1>4. Charge(T) \in Nat /\ Charge(s) \in Nat
  <2>1. IsFiniteSet(T)
    BY FS_Subset
  <2> QED BY <1>3, <2>1, ChargeIsNat
<1>5. PICK x \in s : x \notin T
  BY <1>3, <1>4
<1>6. /\ s \ {x} \in SUBSET S /\ IsFiniteSet(s \ {x}) /\ Cardinality(s) \in Nat
      /\ Cardinality(s \ {x}) = Cardinality(s) - 1
  BY <1>3, WithoutFirst
<1>7. ~ (Cardinality(s) <= Cardinality(s \ {x}))
  BY <1>6
<1>8. Charge(T) <= Charge(s \ {x})
  BY <1>2, <1>3, <1>5, <1>6, <1>7
<1>9. Charge(s) = SpecOf(x).units + Charge(s \ {x})
  BY <1>3, ChargeOfAny
<1>10. SpecOf(x).units \in Nat /\ Charge(s \ {x}) \in Nat
  BY <1>3, <1>6, UnitsAreNat, ChargeIsNat
<1> QED BY <1>3, <1>4, <1>8, <1>9, <1>10

-----------------------------------------------------------------------------
(* The pools.                                                               *)

Taken == {"reserved", "committed"}

\* The calls charged to a window of a pool.
Charged(p, m) == {d \in Call : /\ SpecOf(d).pool = p
                               /\ hold[d].state \in Taken
                               /\ hold[d].month = m}

\* Only finitely many calls were made so far, whatever Call is; so what a window
\* is charged is a number.
QuotaInv ==
  /\ IsFiniteSet({c \in Call : hold[c] # NoHold})
  /\ \A p \in Pool : \A m \in Nat : Charge(Charged(p, m)) <= Limit[p]

\* c's row becomes h: a reservation that fits, or nothing its pool is charged for
\* that it was not charged for before.
Reserves(c, h) == Pooled(c) /\ h = [state |-> "reserved", month |-> Month] /\ HasRoom(c)
ChargesNoMore(c, h) ==
  Pooled(c) /\ h.state \in Taken => hold[c].state \in Taken /\ h.month = hold[c].month
Books(c, h) ==
  /\ hold' = [hold EXCEPT ![c] = h]
  /\ Reserves(c, h) \/ ChargesNoMore(c, h)

LEMMA ProceedBooks ==
  ASSUME NEW c \in Call, NEW i \in Nat, NEW rolled, rolled.state \notin Taken,
         Proceed(c, i, rolled)
  PROVE  \E h : Books(c, h)
<1>1. CASE NextInChain(c, i) # {} /\ HasRoom(c)
  <2>1. hold' = [hold EXCEPT ![c] = Reservation(c)]
    BY <1>1 DEF Proceed
  <2>2. Reserves(c, Reservation(c)) \/ ChargesNoMore(c, Reservation(c))
    BY <1>1 DEF Reservation, Reserves, ChargesNoMore
  <2> QED BY <2>1, <2>2 DEF Books
<1>2. CASE ~ (NextInChain(c, i) # {} /\ HasRoom(c))
  <2>1. hold' = [hold EXCEPT ![c] = rolled]
    BY <1>2 DEF Proceed
  <2>2. ChargesNoMore(c, rolled)
    BY DEF ChargesNoMore
  <2> QED BY <2>1, <2>2 DEF Books
<1> QED BY <1>1, <1>2

LEMMA MoveOnBooks ==
  ASSUME Inv, NEW c \in Call, MoveOn(c)
  PROVE  \E h : Books(c, h)
<1>1. at[c] \in Nat /\ hold[c] \in Holds
  BY DEF Inv, TypeOK, Holds
<1>2. Settled(c, "rolled_back").state \notin Taken
  BY <1>1 DEF Settled, NoHold, Taken, Holds
<1> QED BY <1>1, <1>2, ProceedBooks DEF MoveOn

LEMMA AnswerBooks ==
  ASSUME Inv, NEW c \in Call, NEW personal, Answer(c, personal)
  PROVE  \E h : Books(c, h)
<1>1. /\ pc[c] \in Waiting /\ hold[c] \in Holds
      /\ hold' = [hold EXCEPT ![c] = Settled(c, "committed")]
  BY DEF Answer, Waiting, Inv, TypeOK, Holds
<1>2. Pooled(c) => hold[c].state = "reserved"
  BY <1>1 DEF Inv, BooksBalance
<1>3. Settled(c, "committed").state \in Taken => Settled(c, "committed").month = hold[c].month
  BY <1>1 DEF Settled, NoHold, Taken, Holds
<1>4. ChargesNoMore(c, Settled(c, "committed"))
  BY <1>2, <1>3 DEF ChargesNoMore, Taken
<1> QED BY <1>1, <1>4 DEF Books

LEMMA StepBooks ==
  ASSUME Inv, [Next]_vars
  PROVE  UNCHANGED hold \/ \E c \in Call : \E h : Books(c, h)
<1>1. ASSUME NEW c \in Call, Ask(c) PROVE UNCHANGED hold \/ \E h : Books(c, h)
  <2>1. NoHold.state \notin Taken
    BY DEF NoHold, Taken
  <2>2. UNCHANGED hold \/ Proceed(c, 0, NoHold)
    BY <1>1 DEF Ask
  <2> QED BY <2>1, <2>2, ProceedBooks
<1>2. ASSUME NEW c \in Call, Outcome(c) PROVE UNCHANGED hold \/ \E h : Books(c, h)
  <2>1. (\E personal : Answer(c, personal)) \/ MoveOn(c) \/ UNCHANGED hold
    BY <1>2 DEF Outcome, Declines, Raises
  <2> QED BY <2>1, AnswerBooks, MoveOnBooks
<1>3. ASSUME NEW c \in Call, BackoffOver(c) PROVE UNCHANGED hold \/ \E h : Books(c, h)
  <2>1. MoveOn(c) \/ UNCHANGED hold
    BY <1>3 DEF BackoffOver
  <2> QED BY <2>1, MoveOnBooks
<1>4. (\E c \in Call : Cancelled(c)) \/ Crash \/ Perform \/ Tick \/ UNCHANGED vars => UNCHANGED hold
  BY DEF Cancelled, Crash, Perform, Tick, vars
<1> QED BY <1>1, <1>2, <1>3, <1>4 DEF Next

LEMMA BooksKeepQuota ==
  ASSUME Inv, QuotaInv, NEW c \in Call, NEW h, Books(c, h)
  PROVE  QuotaInv'
<1> DEFINE old == {d \in Call : hold[d] # NoHold}
           new == {d \in Call : hold'[d] # NoHold}
<1>1. /\ hold' = [hold EXCEPT ![c] = h] /\ hold \in [Call -> Holds]
      /\ Reserves(c, h) \/ ChargesNoMore(c, h)
      /\ Month \in Nat
  BY MonthIsNat DEF Books, Inv, TypeOK, Holds
<1>2. IsFiniteSet(new)
  <2>1. IsFiniteSet(old)
    BY DEF QuotaInv
  <2>2. IsFiniteSet(old \cup {c})
    BY <2>1, FS_AddElement
  <2>3. new \in SUBSET (old \cup {c})
    BY <1>1
  <2> QED BY <2>2, <2>3, FS_Subset
<1>3. ASSUME NEW p \in Pool, NEW m \in Nat
      PROVE  Charge(Charged(p, m)') <= Limit[p]
  <2> DEFINE before == Charged(p, m)
             after  == Charged(p, m)'
  <2>1. before \in SUBSET old /\ before \subseteq Call
    BY DEF Charged, NoHold, Taken
  <2>2. IsFiniteSet(before)
    BY <2>1, FS_Subset DEF QuotaInv
  <2>3. Charge(before) \in Nat /\ Limit[p] \in Nat /\ Charge(before) <= Limit[p]
    BY <2>1, <2>2, ChargeIsNat, LimitAssumption DEF QuotaInv
  <2>4. \A d \in Call : d # c => (d \in after <=> d \in before)
    BY <1>1 DEF Charged
  <2>5. after \subseteq Call
    BY DEF Charged
  <2>6. CASE after \subseteq before
    <3>1. after \in SUBSET before
      BY <2>6
    <3>2. IsFiniteSet(after)
      BY <2>2, <3>1, FS_Subset
    <3>3. Charge(after) \in Nat
      BY <2>5, <3>2, ChargeIsNat
    <3>4. Charge(after) <= Charge(before)
      BY <2>1, <2>2, <3>1, ChargeOfMore
    <3> QED BY <2>3, <3>3, <3>4
  <2>7. CASE ~ (after \subseteq before)
    <3>1. c \in after /\ c \notin before
      BY <2>4, <2>5, <2>7
    <3>2. SpecOf(c).pool = p /\ h.state \in Taken /\ h.month = m /\ Pooled(c)
      BY <1>1, <3>1, LimitAssumption DEF Charged, Pooled
    <3>3. ~ ChargesNoMore(c, h)
      BY <3>1, <3>2 DEF ChargesNoMore, Charged
    <3>4. m = Month /\ HasRoom(c)
      BY <1>1, <3>2, <3>3 DEF Reserves
    <3>5. after \ {c} = before
      BY <2>4, <2>5, <3>1 DEF Charged
    <3>6. IsFiniteSet(before \cup {c}) /\ before \cup {c} = after
      BY <2>2, <2>4, <2>5, <3>1, <3>5, FS_AddElement DEF Charged
    <3>7. Charge(after) = SpecOf(c).units + Charge(before)
      BY <2>5, <3>1, <3>5, <3>6, ChargeOfAny
    <3>8. UsedByOthers(c) = Charge(before)
      <4>1. {d \in Call \ {c} : /\ SpecOf(d).pool = SpecOf(c).pool
                                /\ Counts(hold[d].state)
                                /\ hold[d].month = Month} = before
        BY <3>1, <3>2, <3>4 DEF Charged, Counts, Taken
      <4> HIDE DEF before
      <4> QED BY <4>1 DEF UsedByOthers, Charge
    <3>9. Charge(before) + SpecOf(c).units <= Limit[p]
      BY <3>2, <3>4, <3>8 DEF HasRoom
    <3>10. SpecOf(c).units \in Nat
      BY UnitsAreNat
    <3> HIDE DEF before, after
    <3>11. Charge(after) <= Limit[p]
      BY <2>3, <3>7, <3>9, <3>10
    <3> QED BY <3>11 DEF after
  <2> QED BY <2>6, <2>7
<1> QED BY <1>2, <1>3 DEF QuotaInv

LEMMA QuotaInit == Init => QuotaInv
<1> SUFFICES ASSUME Init PROVE QuotaInv
  OBVIOUS
<1>1. \A c \in Call : hold[c] = NoHold
  BY DEF Init
<1>2. {c \in Call : hold[c] # NoHold} = {}
  BY <1>1
<1>3. \A p, m : Charged(p, m) = {}
  BY <1>1 DEF Charged, NoHold, Taken
<1>4. \A p \in Pool : \A m \in Nat : Charge(Charged(p, m)) <= Limit[p]
  BY <1>3, ChargeOfNone, LimitAssumption
<1> QED BY <1>2, <1>4, FS_EmptySet DEF QuotaInv

\* No window of a pool is ever charged beyond its limit: QuotaLedger.reserve checks
\* and writes in one step, and what is settled, given up, lost in a crash or kept
\* over a month's end never charges more than was reserved.
THEOREM QuotaNeverExceeded == Spec => []QuotaWithinLimit
<1>1. Inv /\ QuotaInv /\ [Next]_vars => QuotaInv'
  <2> SUFFICES ASSUME Inv, QuotaInv, [Next]_vars PROVE QuotaInv'
    OBVIOUS
  <2>1. CASE UNCHANGED hold
    <3>1. \A p, m : Charged(p, m)' = Charged(p, m)
      BY <2>1 DEF Charged
    <3> QED BY <2>1, <3>1 DEF QuotaInv
  <2>2. CASE \E c \in Call : \E h : Books(c, h)
    BY <2>2, BooksKeepQuota
  <2> QED BY <2>1, <2>2, StepBooks
<1>2. QuotaInv => QuotaWithinLimit
  <2>1. \A m \in 0..(MaxNow \div MonthLength) : m \in Nat
    BY BoundAssumption
  <2> QED BY <2>1 DEF QuotaInv, QuotaWithinLimit, Charge, Charged, Taken
<1> QED BY InvHolds, QuotaInit, <1>1, <1>2, PTL DEF Spec

-----------------------------------------------------------------------------
(* The ladder and the cache.                                                *)

Tried(c, i) == i \in refused[c] \/ \E m \in RequestsOf(c, sent) : m[2] = i

\* While a call waits, the providers up to the one it waits for were tried.
TriedInv ==
  \A c \in Call : pc[c] \in Waiting => \A i \in Usable(c) : i <= at[c] => Tried(c, i)

LadderReplies == {"stale", "skeleton", "self_service", "error", "unavailable"}

LEMMA ProceedTries ==
  ASSUME Inv, TriedInv, LadderIsLast, NEW c \in Call, NEW i \in Nat, NEW rolled,
         Proceed(c, i, rolled), \A j \in Usable(c) : j <= i => Tried(c, j)
  PROVE  TriedInv' /\ LadderIsLast'
<1> DEFINE rest == NextInChain(c, i)
<1>1. Usable(c) \subseteq Nat /\ \A j \in Usable(c) : j <= i \/ j \in rest
  BY ChainPositions DEF NextInChain
<1>2. CASE rest # {} /\ HasRoom(c)
  <2>1. /\ Send(c, Min(rest), 1) /\ UNCHANGED refused
    BY <1>2 DEF Proceed
  <2>2. rest \subseteq Nat
    BY <1>1 DEF NextInChain
  <2>3. Min(rest) \in rest /\ \A j \in rest : Min(rest) <= j
    BY <1>2, <2>2, MinIsLeast
  <2>4. \A j \in Usable(c) : j <= Min(rest) => j <= i \/ j = Min(rest)
    BY <1>1, <2>2, <2>3
  <2> HIDE DEF rest
  <2>5. /\ sent' = sent \cup {<<c, Min(rest), 1>>}
        /\ pc' = [pc EXCEPT ![c] = "invoking"] /\ at' = [at EXCEPT ![c] = Min(rest)]
        /\ reply' = reply /\ refused' = refused
    BY <2>1 DEF Send
  <2>6. \A d \in Call : \A j : Tried(d, j) => Tried(d, j)'
    BY <2>5 DEF Tried, RequestsOf
  <2>7. Tried(c, Min(rest))'
    <3>1. <<c, Min(rest), 1>> \in sent' /\ <<c, Min(rest), 1>>[1] = c
          /\ <<c, Min(rest), 1>>[2] = Min(rest)
      BY <2>5
    <3> QED BY <3>1 DEF Tried, RequestsOf
  <2>8. \A j \in Usable(c) : j <= Min(rest) => Tried(c, j)'
    BY <2>4, <2>6, <2>7
  <2>9. TriedInv'
    BY <2>5, <2>6, <2>8 DEF TriedInv, Inv, TypeOK, Usable, Chain, SpecOf
  <2>10. LadderIsLast'
    BY <2>5, <2>6 DEF LadderIsLast, Tried, Usable, Chain, SpecOf
  <2> QED BY <2>9, <2>10
<1>3. CASE ~ (rest # {} /\ HasRoom(c))
  <2>1. /\ Give(c, Ladder(c)) /\ UNCHANGED sent
        /\ refused' = [refused EXCEPT ![c] = refused[c] \cup rest]
    BY <1>3 DEF Proceed
  <2>2. pc' = [pc EXCEPT ![c] = "answered"] /\ at' = [at EXCEPT ![c] = 0]
        /\ reply' = [reply EXCEPT ![c] = Ladder(c)]
    BY <2>1 DEF Give
  <2> HIDE DEF rest
  <2>3. \A d \in Call : \A j : Tried(d, j) => Tried(d, j)'
    BY <2>1 DEF Tried, RequestsOf, Inv, TypeOK
  <2>4. \A j \in rest : Tried(c, j)'
    BY <2>1 DEF Tried, Inv, TypeOK
  <2>5. \A j \in Usable(c) : Tried(c, j)'
    BY <1>1, <2>3, <2>4
  <2>6. TriedInv'
    BY <2>2, <2>3 DEF TriedInv, Inv, TypeOK, Usable, Chain, SpecOf, Waiting
  <2>7. LadderIsLast'
    <3>1. \A d \in Call : Usable(d)' = Usable(d)
      BY DEF Usable, Chain, SpecOf
    <3>2. \A d \in Call : d # c => reply'[d] = reply[d]
      BY <2>2 DEF Inv, TypeOK
    <3>3. \A d \in Call : reply'[d] \in LadderReplies => \A j \in Usable(d) : Tried(d, j)'
      <4>1. \A d \in Call : reply[d] \in LadderReplies => \A j \in Usable(d) : Tried(d, j)
        BY DEF LadderIsLast, LadderReplies, Tried
      <4> QED BY <2>3, <2>5, <3>2, <4>1
    <3> QED BY <3>1, <3>3 DEF LadderIsLast, LadderReplies, Tried
  <2> QED BY <2>6, <2>7
<1> QED BY <1>2, <1>3

LEMMA MoveOnTries ==
  ASSUME Inv, TriedInv, LadderIsLast, NEW c \in Call, pc[c] \in Waiting, MoveOn(c)
  PROVE  TriedInv' /\ LadderIsLast'
<1>1. at[c] \in Nat /\ \A j \in Usable(c) : j <= at[c] => Tried(c, j)
  BY DEF TriedInv, Inv, TypeOK
<1> QED BY <1>1, ProceedTries DEF MoveOn

\* A step that tries no further provider.
LEMMA OthersTry ==
  ASSUME Inv, TriedInv, LadderIsLast, UNCHANGED refused, sent \subseteq sent',
         \A c \in Call : /\ pc'[c] \in Waiting => pc[c] \in Waiting /\ at'[c] = at[c]
                         /\ reply'[c] \in LadderReplies => reply[c] = reply'[c]
  PROVE  TriedInv' /\ LadderIsLast'
<1>1. \A d \in Call : \A j : Tried(d, j) => Tried(d, j)'
  BY DEF Tried, RequestsOf
<1>2. TriedInv'
  BY <1>1 DEF TriedInv, Usable, Chain, SpecOf
<1>3. LadderIsLast'
  BY <1>1 DEF LadderIsLast, LadderReplies, Tried, Usable, Chain, SpecOf
<1> QED BY <1>2, <1>3

LEMMA StepTries ==
  ASSUME Inv, TriedInv, LadderIsLast, [Next]_vars
  PROVE  TriedInv' /\ LadderIsLast'
<1> USE DEF LadderReplies
<1>1. ASSUME NEW c \in Call, Ask(c) PROVE TriedInv' /\ LadderIsLast'
  <2>1. CASE ~Allowed(c) \/ Fresh(c)
    <3>1. (Give(c, "denied") \/ Give(c, "fresh")) /\ UNCHANGED <<refused, sent>>
      BY <1>1, <2>1 DEF Ask
    <3> QED BY <3>1, OthersTry DEF Give, Inv, TypeOK, Waiting
  <2>2. CASE Allowed(c) /\ ~Fresh(c)
    <3>1. Proceed(c, 0, NoHold)
      BY <1>1, <2>2 DEF Ask
    <3>2. \A j \in Usable(c) : ~ (j <= 0)
      <4>1. Chain(c) \in Seq(Adapter)
        BY SpecOfCall DEF Chain, CapabilitySpec
      <4>2. \A j \in DOMAIN Chain(c) : ~ (j <= 0)
        BY <4>1
      <4> QED BY <4>2 DEF Usable
    <3> QED BY <3>1, <3>2, ProceedTries
  <2> QED BY <2>1, <2>2
<1>2. ASSUME NEW c \in Call, NEW personal, Answer(c, personal) PROVE TriedInv' /\ LadderIsLast'
  BY <1>2, OthersTry DEF Answer, Give, Inv, TypeOK, Waiting
<1>3. ASSUME NEW c \in Call, Declines(c) PROVE TriedInv' /\ LadderIsLast'
  BY <1>3, MoveOnTries DEF Declines, Waiting
<1>4. ASSUME NEW c \in Call, NEW kind, Raises(c, kind) PROVE TriedInv' /\ LadderIsLast'
  <2>1. CASE ShouldRetry(c, kind)
    BY <1>4, <2>1, OthersTry DEF Raises, Inv, TypeOK, Waiting
  <2>2. CASE ~ShouldRetry(c, kind)
    BY <1>4, <2>2, MoveOnTries DEF Raises, Waiting
  <2> QED BY <2>1, <2>2
<1>5. ASSUME NEW c \in Call, BackoffOver(c) PROVE TriedInv' /\ LadderIsLast'
  <2>1. CASE tries[c] < MaxAttempts
    <3>1. Send(c, at[c], tries[c] + 1) /\ UNCHANGED refused /\ pc[c] = "backoff"
      BY <1>5, <2>1 DEF BackoffOver
    <3>2. at' = at /\ reply' = reply /\ sent \subseteq sent' /\ pc' = [pc EXCEPT ![c] = "invoking"]
      BY <3>1 DEF Send, Inv, TypeOK
    <3> QED BY <3>1, <3>2, OthersTry DEF Inv, TypeOK, Waiting
  <2>2. CASE ~ (tries[c] < MaxAttempts)
    BY <1>5, <2>2, MoveOnTries DEF BackoffOver, Waiting
  <2> QED BY <2>1, <2>2
<1>6. ASSUME NEW c \in Call, Cancelled(c) PROVE TriedInv' /\ LadderIsLast'
  BY <1>6, OthersTry DEF Cancelled, Inv, TypeOK, Waiting
<1>7. CASE Crash
  BY <1>7, OthersTry DEF Crash, Waiting
<1>8. CASE Perform \/ Tick \/ UNCHANGED vars
  BY <1>8, OthersTry DEF Perform, Tick, vars
<1> QED BY <1>1, <1>2, <1>3, <1>4, <1>5, <1>6, <1>7, <1>8 DEF Next, Outcome

\* A call falls to the ladder only below its whole chain: every provider this
\* deployment has was asked, or skipped for its pool and the skip told.
THEOREM LadderAlwaysLast == Spec => []LadderIsLast
<1>1. Init => TriedInv /\ LadderIsLast
  BY DEF Init, TriedInv, LadderIsLast, Waiting
<1>2. Inv /\ TriedInv /\ LadderIsLast /\ [Next]_vars => TriedInv' /\ LadderIsLast'
  BY StepTries
<1> QED BY InvHolds, <1>1, <1>2, PTL DEF Spec

\* An entry of the cache is written or renewed only by the live answer of a
\* provider to that very question, never by what the ladder or the cache gave.
THEOREM CacheOnlyFromAnswers == Spec => CacheHoldsAnswers
<1>1. ASSUME Inv, [Next]_vars, NEW k \in Capability, NEW p \in Params,
             cache'[k][p] # cache[k][p]
      PROVE  \E c \in Call : /\ Request[c].cap = k /\ Request[c].params = p
                             /\ pc[c] = "invoking" /\ reply'[c] = "live"
  <2>1. cache' # cache
    BY <1>1
  <2>2. PICK c \in Call : \E personal : Answer(c, personal)
    BY <1>1, <2>1 DEF Next, Ask, Outcome, Declines, Raises, BackoffOver, MoveOn, Cancelled,
                      Crash, Perform, Tick, vars
  <2>3. pc[c] = "invoking" /\ reply'[c] = "live"
    BY <1>1, <2>2 DEF Answer, Give, Inv, TypeOK
  <2>4. cache' = [cache EXCEPT ![Request[c].cap][Request[c].params] = now + SpecOf(c).ttl]
    BY <2>1, <2>2 DEF Answer
  <2>5. Request[c].cap = k /\ Request[c].params = p
    BY <1>1, <2>4 DEF Inv, TypeOK
  <2> QED BY <2>3, <2>5
<1>2. Inv /\ [Next]_vars =>
        [\A k \in Capability, p \in Params : cache'[k][p] # cache[k][p] =>
           \E c \in Call : /\ Request[c].cap = k /\ Request[c].params = p
                           /\ pc[c] = "invoking" /\ reply'[c] = "live"]_vars
  BY <1>1
<1> QED BY InvHolds, <1>2, PTL DEF Spec, CacheHoldsAnswers

=============================================================================
