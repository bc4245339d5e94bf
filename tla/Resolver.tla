------------------------------- MODULE Resolver -------------------------------
(****************************************************************************)
(* CapabilityResolver (app/channels/resolver.py), the only door to the      *)
(* outside world, with the quota ledger (app/channels/quota.py) and the     *)
(* result cache (app/channels/cache.py) its calls share.                    *)
(*                                                                          *)
(* A call is arbitrated, looked up in the cache, and then walks down the    *)
(* chain of providers bound to its capability.  Before it tries a provider  *)
(* it reserves units of the capability's pool; a provider that does not     *)
(* answer is retried, for reads, and then given up, the reservation rolled  *)
(* back.  Below the chain lies the ladder of degradation.  Calls interleave *)
(* where the code awaits: the provider's answer and the back-off between    *)
(* two attempts.  Everything between two awaits is one step, as the event   *)
(* loop is one thread and the database is called synchronously.             *)
(*                                                                          *)
(* Abstracted: results are their status and where they came from, warnings  *)
(* are the one warning a property is about, and an entry of the cache is    *)
(* the time it expires.                                                     *)
(****************************************************************************)
EXTENDS Integers, Sequences, FiniteSets, FiniteSetsExt

CONSTANTS Capability,   \* capability ids
          Catalogue,    \* what is registered for each (CapabilitySpec)
          Pool,         \* quota pools
          Limit,        \* units of each pool, a month
          Adapter,      \* providers
          Configured,   \* the adapters this deployment built
          Metered,      \* the adapters whose use a pool accounts for
          Call,         \* calls
          Request,      \* what each call asks, and what consent it proves
          Params,       \* parameters, up to the canonical form of the key
          MaxAttempts,  \* 1 + channel_retry_max_attempts
          MonthLength,  \* ticks in a quota window
          MaxNow,       \* bound: the clock stops there
          NoPool,       \* quota_pool is None
          NoContext     \* call_context is None

Level == {"D1", "D2", "D3"}

CapabilitySpec ==
  [risk : 0..2, pool : Pool \cup {NoPool}, units : Nat, ttl : Nat,
   ladder : Seq(Level), chain : Seq(Adapter)]

Context == [plan : BOOLEAN, action : BOOLEAN, token : BOOLEAN, ref : BOOLEAN]

\* Every capability of the registry with side effects is bound to one provider,
\* the browser, and is never cached; a second provider would be tried after the
\* first, and a cached submission would be served as done.
ASSUME CatalogueAssumption ==
  /\ Catalogue \in [Capability -> CapabilitySpec]
  /\ \A k \in Capability :
       Catalogue[k].risk > 0 => Len(Catalogue[k].chain) = 1 /\ Catalogue[k].ttl = 0
ASSUME RequestAssumption ==
  Request \in [Call -> [cap : Capability, params : Params,
                        context : Context \cup {NoContext}]]
ASSUME LimitAssumption == Limit \in [Pool -> Nat] /\ NoPool \notin Pool
ASSUME BoundAssumption == /\ MaxAttempts \in Nat \ {0}
                          /\ MonthLength \in Nat \ {0}
                          /\ MaxNow \in Nat
ASSUME ContextAssumption == NoContext \notin Context

VARIABLES
  now,      \* the clock
  cache,    \* cache[k][p]: when the entry of that key expires, 0 without one
  hold,     \* hold[c]: the row of quota_entries of c's latest binding
  pc,       \* pc[c]: where c is in call()
  at,       \* at[c]: position in the chain of the provider being tried
  tries,    \* tries[c]: attempts made with it
  refused,  \* refused[c]: the providers c warns it skipped, the pool exhausted
  reply,    \* reply[c]: what the caller got
  sent,     \* requests sent to providers, as <<call, position, attempt>>
  carried   \* the requests that changed the world

callVars == <<pc, at, tries, refused, reply>>
vars == <<now, cache, hold, pc, at, tries, refused, reply, sent, carried>>

SpecOf(c)  == Catalogue[Request[c].cap]
Gated(c)    == SpecOf(c).risk > 0       \* risk.requires_consent
Pooled(c)   == SpecOf(c).pool # NoPool
Chain(c)    == SpecOf(c).chain
Usable(c)   == {i \in DOMAIN Chain(c) : Chain(c)[i] \in Configured}
Requests    == UNION {{c} \X (DOMAIN Chain(c)) \X (1..MaxAttempts) : c \in Call}
RequestsOf(c, S) == {m \in S : m[1] = c}

Waiting == {"invoking", "backoff"}
Reply == {"none", "denied", "live", "fresh", "stale", "skeleton", "self_service",
          "error", "unavailable"}
Degraded == {"fresh", "stale", "skeleton", "self_service"}   \* DEGRADED, and ok
NoHold == [state |-> "none", month |-> 0]

TypeOK ==
  /\ now \in 0..MaxNow
  /\ cache \in [Capability -> [Params -> Nat]]
  /\ hold \in [Call -> [state : {"none", "reserved", "committed", "rolled_back"},
                        month : Nat]]
  /\ pc \in [Call -> {"idle", "answered", "lost"} \cup Waiting]
  /\ at \in [Call -> Nat]
  /\ tries \in [Call -> 0..MaxAttempts]
  /\ refused \in [Call -> SUBSET Nat]
  /\ reply \in [Call -> Reply]
  /\ sent \subseteq Requests
  /\ carried \subseteq sent

Init ==
  /\ now = 0
  /\ cache = [k \in Capability |-> [p \in Params |-> 0]]
  /\ hold = [c \in Call |-> NoHold]
  /\ pc = [c \in Call |-> "idle"]
  /\ at = [c \in Call |-> 0]
  /\ tries = [c \in Call |-> 0]
  /\ refused = [c \in Call |-> {}]
  /\ reply = [c \in Call |-> "none"]
  /\ sent = {}
  /\ carried = {}

-----------------------------------------------------------------------------
(* Arbitration.                                                             *)

\* A call that states nothing is read-only, or not allowed.
EffectiveContext(c) ==
  IF Request[c].context # NoContext THEN Request[c].context
  ELSE [plan |-> ~Gated(c), action |-> FALSE, token |-> FALSE, ref |-> ~Gated(c)]

\* A definition named Faulty.. is a plausible bug, used by no other definition.

\* Arbiter.decide.
Allowed(c) ==
  LET x == EffectiveContext(c)
  IN /\ x.plan
     /\ SpecOf(c).risk >= 1 => x.action
     /\ SpecOf(c).risk >= 2 => x.token
     /\ x.ref

-----------------------------------------------------------------------------
(* Quota.                                                                   *)

Month == now \div MonthLength

\* Only what is settled counts.
FaultyCounts(state) == state = "committed"

Counts(state) == state \in {"reserved", "committed"}

\* QuotaRepo.used, without the rows of c: when c asks, they are rolled back.
UsedByOthers(c) ==
  MapThenSumSet(LAMBDA d : SpecOf(d).units,
                {d \in Call \ {c} : /\ SpecOf(d).pool = SpecOf(c).pool
                                    /\ Counts(hold[d].state)
                                    /\ hold[d].month = Month})

HasRoom(c) ==
  Pooled(c) => UsedByOthers(c) + SpecOf(c).units <= Limit[SpecOf(c).pool]

\* A reservation the database could not settle stays.
FaultySettled(c, state) ==
  IF state = "rolled_back" THEN hold[c] ELSE [hold[c] EXCEPT !.state = state]

\* commit and rollback: set_state on the row of this idem, if there is one.
Settled(c, state) ==
  IF hold[c] = NoHold THEN NoHold ELSE [hold[c] EXCEPT !.state = state]

Reservation(c) ==
  IF Pooled(c) THEN [state |-> "reserved", month |-> Month] ELSE NoHold

-----------------------------------------------------------------------------
(* The walk down the chain, and the ladder below it.                        *)

\* call() returns r.
Give(c, r) ==
  /\ pc' = [pc EXCEPT ![c] = "answered"]
  /\ reply' = [reply EXCEPT ![c] = r]
  /\ at' = [at EXCEPT ![c] = 0]
  /\ tries' = [tries EXCEPT ![c] = 0]

\* The adapter is invoked for the n-th time.
Send(c, i, n) ==
  /\ pc' = [pc EXCEPT ![c] = "invoking"]
  /\ at' = [at EXCEPT ![c] = i]
  /\ tries' = [tries EXCEPT ![c] = n]
  /\ sent' = sent \cup {<<c, i, n>>}
  /\ UNCHANGED reply

Entry(c) == cache[Request[c].cap][Request[c].params]
Caches(c) == SpecOf(c).ttl > 0
RungReply == [D1 |-> "stale", D2 |-> "skeleton", D3 |-> "self_service"]
Rung(c, level) == level # "D1" \/ (Caches(c) /\ Entry(c) # 0)

\* A side effect that failed is handed to the user to do.
FaultyLadder(c) ==
  LET rungs == {n \in DOMAIN SpecOf(c).ladder : Rung(c, SpecOf(c).ladder[n])}
  IN IF rungs = {} THEN "unavailable"
     ELSE RungReply[SpecOf(c).ladder[Min(rungs)]]

\* _ladder: the first rung that holds; none for side effects.
Ladder(c) ==
  LET rungs == {n \in DOMAIN SpecOf(c).ladder : Rung(c, SpecOf(c).ladder[n])}
  IN IF Gated(c) THEN "error"
     ELSE IF rungs = {} THEN "unavailable"
     ELSE RungReply[SpecOf(c).ladder[Min(rungs)]]

\* The providers of the chain that come after the i-th.
FaultyNextInChain(c, i) == IF i = 0 THEN Usable(c) ELSE {}

NextInChain(c, i) == {j \in Usable(c) : j > i}

\* The loop of call() goes on after position i: it reserves for the next
\* provider and invokes it, or skips them all, or has none left.
Proceed(c, i, rolled) ==
  LET rest == NextInChain(c, i)
  IN IF rest # {} /\ HasRoom(c)
     THEN /\ Send(c, Min(rest), 1)
          /\ hold' = [hold EXCEPT ![c] = Reservation(c)]
          /\ UNCHANGED refused
     ELSE /\ Give(c, Ladder(c))
          /\ refused' = [refused EXCEPT ![c] = @ \cup rest]
          /\ hold' = [hold EXCEPT ![c] = rolled]
          /\ UNCHANGED sent

\* What the ladder gave is stored like an answer: DEGRADED counts as ok.
FaultyMoveOn(c) ==
  /\ Proceed(c, at[c], Settled(c, "rolled_back"))
  /\ cache' = IF Caches(c) /\ reply'[c] \in Degraded
              THEN [cache EXCEPT ![Request[c].cap][Request[c].params]
                                   = now + SpecOf(c).ttl]
              ELSE cache
  /\ UNCHANGED <<now, carried>>

\* The attempt is over without an answer.
MoveOn(c) == /\ Proceed(c, at[c], Settled(c, "rolled_back"))
             /\ UNCHANGED <<now, cache, carried>>

Fresh(c) == Caches(c) /\ Entry(c) > now

Ask(c) ==
  /\ pc[c] = "idle"
  /\ IF ~Allowed(c)
     THEN Give(c, "denied") /\ UNCHANGED <<refused, hold, sent>>
     ELSE IF Fresh(c)
     THEN Give(c, "fresh") /\ UNCHANGED <<refused, hold, sent>>
     ELSE Proceed(c, 0, NoHold)
  /\ UNCHANGED <<now, cache, carried>>

\* The provider answered.  What it says may hold personal data, which is not
\* put in the cache.
Answer(c, personal) ==
  /\ pc[c] = "invoking"
  /\ Gated(c) => <<c, at[c], tries[c]>> \in carried
  /\ hold' = [hold EXCEPT ![c] = Settled(c, "committed")]
  /\ cache' = IF Caches(c) /\ ~personal
              THEN [cache EXCEPT ![Request[c].cap][Request[c].params]
                                   = now + SpecOf(c).ttl]
              ELSE cache
  /\ Give(c, "live")
  /\ UNCHANGED <<now, refused, sent, carried>>

\* The provider answered ERROR or UNAVAILABLE.
Declines(c) == pc[c] = "invoking" /\ MoveOn(c)

\* classify, over what can be raised; cancelling the task is "unknown".
ErrorKind == {"network", "business", "quota", "timeout", "unknown"}

FaultyShouldRetry(c, kind) == kind \in {"network", "timeout", "unknown"}

\* should_retry: reads only.
ShouldRetry(c, kind) == ~Gated(c) /\ kind \in {"network", "timeout", "unknown"}

\* invoke raised; what is retried sleeps first, after the last attempt too.
Raises(c, kind) ==
  /\ pc[c] = "invoking"
  /\ IF ShouldRetry(c, kind)
     THEN /\ pc' = [pc EXCEPT ![c] = "backoff"]
          /\ UNCHANGED <<now, cache, hold, at, tries, refused, reply, sent, carried>>
     ELSE MoveOn(c)

\* The attempts are not counted.
FaultyBackoffOver(c) ==
  /\ pc[c] = "backoff"
  /\ Send(c, at[c], 1)
  /\ UNCHANGED <<now, cache, hold, refused, carried>>

BackoffOver(c) ==
  /\ pc[c] = "backoff"
  /\ IF tries[c] < MaxAttempts
     THEN /\ Send(c, at[c], tries[c] + 1)
          /\ UNCHANGED <<now, cache, hold, refused, carried>>
     ELSE MoveOn(c)

\* The task is cancelled while it sleeps: the one await outside the try.
Cancelled(c) ==
  /\ pc[c] = "backoff"
  /\ pc' = [pc EXCEPT ![c] = "lost"]
  /\ UNCHANGED <<now, cache, hold, at, tries, refused, reply, sent, carried>>

\* The process dies; the database has what was written to it.
Crash ==
  /\ pc' = [c \in Call |-> IF pc[c] \in Waiting THEN "lost" ELSE pc[c]]
  /\ pc' # pc
  /\ UNCHANGED <<now, cache, hold, at, tries, refused, reply, sent, carried>>

\* A provider carries out a request with side effects, at any time after it
\* was sent: the caller may have given it up.
Perform ==
  /\ \E m \in sent \ carried : Gated(m[1]) /\ carried' = carried \cup {m}
  /\ UNCHANGED <<now, cache, hold, pc, at, tries, refused, reply, sent>>

Tick == /\ now < MaxNow
        /\ now' = now + 1
        /\ UNCHANGED <<cache, hold, pc, at, tries, refused, reply, sent, carried>>

\* What invoke comes to, within its timeout.
Outcome(c) == \/ \E personal \in BOOLEAN : Answer(c, personal)
              \/ Declines(c)
              \/ \E kind \in ErrorKind : Raises(c, kind)

Next ==
  \/ \E c \in Call : Ask(c) \/ Outcome(c) \/ BackoffOver(c) \/ Cancelled(c)
  \/ Crash \/ Perform \/ Tick

Spec == Init /\ [][Next]_vars

\* with_timeout ends every await of a provider, and the back-off is a sleep.
Fairness == \A c \in Call : WF_vars(Outcome(c) \/ BackoffOver(c))

FairSpec == Spec /\ Fairness

-----------------------------------------------------------------------------
(* Properties.                                                              *)

\* quota.py: "two concurrent calls cannot both believe the last unit is
\* available".  No window of a pool is ever used beyond its limit, counting the
\* calls in progress and the ones that were lost.
QuotaWithinLimit ==
  \A pool \in Pool, month \in 0..(MaxNow \div MonthLength) :
    MapThenSumSet(LAMBDA d : SpecOf(d).units,
                  {d \in Call : /\ SpecOf(d).pool = pool
                                /\ hold[d].state \in {"reserved", "committed"}
                                /\ hold[d].month = month}) <= Limit[pool]

\* The books agree with the calls: units stay charged exactly for a live answer,
\* and reserved exactly while a call is in progress or after it was lost.
BooksBalance ==
  \A c \in Call : Pooled(c) =>
    /\ hold[c].state = "committed" <=> reply[c] = "live"
    /\ hold[c].state = "reserved" <=> (pc[c] \in Waiting \/ pc[c] = "lost")

\* resilience.py: "a retried booking is a second booking".  A call with side
\* effects sends one request, whatever is raised, declined, lost or late.
SideEffectSentOnce ==
  \A c \in Call : Gated(c) => \A m, n \in RequestsOf(c, sent) : m = n

\* "Zero non-read-only calls before consent": what was sent to a provider was
\* covered by the consent the call proved.
ConsentedBeforeSent ==
  \A m \in sent : Gated(m[1]) =>
    LET x == Request[m[1]].context
    IN /\ x # NoContext
       /\ x.plan /\ x.action /\ x.ref
       /\ SpecOf(m[1]).risk = 2 => x.token

\* What changes the world is asked for once, and with its consent.
SentOnceWithConsent == SideEffectSentOnce /\ ConsentedBeforeSent

\* "Nothing fails silently": a call falls to the ladder only below the whole
\* chain, every usable provider having been tried, or skipped for its pool.
LadderIsLast ==
  \A c \in Call :
    reply[c] \in {"stale", "skeleton", "self_service", "error", "unavailable"} =>
      \A i \in Usable(c) : i \in refused[c] \/ \E m \in RequestsOf(c, sent) : m[2] = i

\* The cache never feeds itself: an entry is written or renewed only by the
\* answer of a provider to that very question.
CacheHoldsAnswers ==
  [][\A k \in Capability, p \in Params : cache'[k][p] # cache[k][p] =>
       \E c \in Call : /\ Request[c].cap = k /\ Request[c].params = p
                       /\ pc[c] = "invoking" /\ reply'[c] = "live"]_vars

\* Every call in progress is answered, unless it is lost.
EveryCallAnswered ==
  \A c \in Call : pc[c] \in Waiting ~> pc[c] \in {"answered", "lost"}

\* What the caller of c knows, before and after call() returns.
Meanwhile == [idle |-> "idle", invoking |-> "asked", backoff |-> "asked", lost |-> "lost"]
Tells == [live |-> "ok", denied |-> "denied",
          fresh |-> "degraded", stale |-> "degraded", skeleton |-> "degraded",
          self_service |-> "degraded", error |-> "failed", unavailable |-> "failed"]
OutcomeOf(c) == IF pc[c] = "answered" THEN Tells[reply[c]] ELSE Meanwhile[pc[c]]

Abstract == INSTANCE CapabilityCall
              WITH Firm <- {c \in Call : Gated(c)},
                   Attempt <- Requests,
                   outcome <- [c \in Call |-> OutcomeOf(c)],
                   did <- [c \in Call |-> RequestsOf(c, carried)]

\* The resolver keeps the promise of CapabilityCall.
ServesCalls == Abstract!Spec
=============================================================================
