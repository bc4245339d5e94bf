# Formal models of the trip-plan agent

TLA+ modules for the parts of this repository whose correctness depends on the
order in which things happen: turns of one session that overlap, awaits inside
graph nodes, turns that are lost, consent given to a plan that has been
replaced, acts that must not be carried out twice, tool servers that die; and for
the planning algorithms, whose results have to agree with each other. TLC checks
small instances of every module; TLAPS proves, for every instance, each safety property
those runs check (two of them under a hypothesis the theorem states), and that ledger and
resolver implement their abstract specifications (section 4).

Source paths below are relative to `src/`.

## 1. The system

The application plans a trip with the user, asks for consent, and then carries
out the acts of the consented plan (links, checklists, exports, reservations).
It is one Python process with one asyncio event loop, SQLite for its own tables
and for LangGraph's checkpoints, and a browser client.

| part | state it keeps | operations |
|---|---|---|
| graph (`app/graph/trip_graph.py`, `nodes/`) | `AgentState`, one per thread, in LangGraph checkpoints | 19 nodes; three of them interrupt: `ask`, `consent_gate`, `action_gate` |
| runner (`app/graph/runner.py`) | none of its own; `deps.extras["delta_sink"]` | `start`, `send`, `resume`, `snapshot`, `_drive` |
| ledger (`LedgerRepo`) | table `action_ledger`, primary key `idem_key` | `insert_in_flight`, `mark_completed`, `mark_failed`, `mark_completed_by_action` |
| resolver (`app/channels/`) | quota entries, cache entries | `call`: arbiter, cache, provider chain with retries, ladder |
| events (`app/events/`, `EventsRepo`) | bounded queues per subscriber, table `events` | `publish`, `subscribe`, `replay`, `append`, `list_since` |
| API (`app/api/`) | de-duplication window, shared credentials | messages, resume, receipt, snapshot, stream |
| browser (`app/browser/`) | the attached page; a page lease nothing acquires | `invoke`: observe, act, observe, verify |
| tool servers (`app/channels/mcp/`) | a child process, its handshake and a lock | `start`, `invoke`, reconnect, `aclose` |
| slot gate (`app/policy/slots.py`, `nodes/intake.py`, `nodes/planning.py`) | slots, rounds, derived values, assumptions: part of `AgentState` | merge, decline, validate, assume |
| planners (`leg_planner.py`, `trip_planner.py`, `nodes/content.py`, `app/policy/`) | none, pure but for the capabilities they call | candidates, chains, days, transfers, nights |
| rest of policy (`app/policy/`) | none, pure | scope, risk, keys, response guard |
| llm (`app/llm/`) | token budget, delta sink | structured calls, streaming |
| web client (`web/src/`) | session store | fetch, stream, render cards |

An HTTP request is a turn: `send` or `resume` drives the graph with `astream`
until it ends or interrupts. Nodes await the model and, through the resolver,
the providers. Nothing serialises the turns of a session, and nothing holds a
lock across an await; the database serialises single transactions.

What makes this hard to test:

* **Interleaving.** Two tabs, a double click or an impatient retry give two runs
  of one thread, each with its own copy of the state, each writing checkpoints.
* **State used after an await.** `_drive` reads the pending interrupt and then
  awaits; `resume` checks the plan hash and then awaits.
* **Loss.** A turn can end by an exception, a cancelled request or a crash after
  it claimed a ledger row and before it settled it.
* **Repetition.** A new plan for the same trip arrives at the same business acts
  under new leg ids.
* **Processes.** A tool server can fall silent, close its output or exit between any
  two steps of the calls that share it, and time is no evidence of its death.
* **Agreement.** Stays, calendar, legs, visits and nights are computed by different
  functions from each other's results; each is easy to test alone.
* **Budgets.** Question rounds, strikes, provider quota: counters compared at
  several places.

`PROJECT.json` lists each hazard at its line with the properties that cover it.

### What each part must guarantee

* **Ledger.** One business act is called at most once, over any number of
  overlapping, lost and repeated executions; what the user is told about an act
  agrees with its row; a claimed row is settled unless the turn was lost.
* **Graph and runner.** Nothing executes without a consent to that very plan;
  the gate offers the current plan beside its own card; requests one at a time are
  put a bounded number of questions; an approval is carried out; a finished turn
  leaves the sessions table at the phase of the thread.
* **Resolver.** Nothing with side effects leaves without the consent its risk
  asks for, nor twice; a failed side effect is never reported as a success; a
  pool is never used beyond its limit and its books agree with the calls; a call
  falls to the ladder only below the whole chain; every call is answered.
* **Events.** A stream gets the events of its session in order and once, misses
  one only when it is a whole queue behind, and never holds up the publisher.
* **API and llm.** A repeated request runs no second turn; a turn that runs alone
  calls its own client and speaks to its own session; text that was rejected does
  not stay on a screen.
* **Slot gate.** No preview without the required slots (but for two ways past, which
  section 5 lists); its length is that of the dates beside it; who delegates is asked no more; what was said stays said.
* **Planners.** Every day has its city, every change of city its legs or an apology;
  a chain can be travelled; visits keep to the hours of their day; no leg is chosen over
  a better one; the night is where the traveller is.
* **Tool servers.** An answer goes to the invocation that asked; a tool is called
  again only after a stream ended, and never before the handshake; no server is lost
  from the slot without having been told to end.
* **Event log.** (planned) every event reaches the log.

## 2. Modules

| module | models | built on |
|---|---|---|
| `ActOnce` | what the ledger promises about a business act (abstract) | |
| `ActionLedger` | `run_l0_batch` and its ledger, several executions at once | refines `ActOnce` |
| `ActionLedgerProofs` | theorems of `ActionLedger` | |
| `CapabilityCall` | what the channel layer promises about a call (abstract) | |
| `Resolver` | `CapabilityResolver` with quota ledger, cache and arbiter | refines `CapabilityCall` |
| `ResolverProofs` | theorems of `Resolver` | |
| `TripSession` | the graph and its runner over LangGraph checkpoints | an `INSTANCE` of `ActionLedger`, one batch per turn |
| `TripSessionProofs` | theorems of `TripSession` | an `INSTANCE` of `ActionLedgerProofs` |
| `EventBus` | the bus and the streams that read it | |
| `EventBusProofs` | theorems of `EventBus` | |
| `HttpTurns` | concurrent requests: de-duplication, shared `GraphDeps`, streamed text | |
| `HttpTurnsProofs` | theorems of `HttpTurns` | |
| `SlotGate` | the information gate, slot by slot: merging, declining, validating, assuming | |
| `SlotGateProofs` | theorems of `SlotGate` | |
| `LegPlanner` | candidates of one leg, weather vetoes, scores, the choice | |
| `TripPlanner` | door-to-door chains around a train | `LegPlanner` |
| `DayPlan` | stays, allocation of days, calendar, day packing, nights | `TripPlanner` |
| `Itinerary` | `plan_draft`, `plan_content`, `content_render`, await by await | `DayPlan` |
| `ItineraryProofs` | theorems of `Itinerary` | |
| `Mcp` | the MCP adapter, its tool server processes and the calls that share them | |
| `McpProofs` | theorems of `Mcp` | |
| `MCTripSession`, `MCResolver`, `MCEventBus`, `MCHttpTurns`, `MCSlotGate`, `MCItinerary`, `MCMcp` | the inputs of the checked instances | |

The pieces meet by contract. A turn of `TripSession` that reaches `run_l0_batch`
runs a batch of `ActionLedger`: its steps are the ledger's own, taken from the instance,
so that the ledger's theorems hold there by construction. A batch of `ActionLedger` sees
a capability call as `ok`, `degraded` or `error`, and counts on a side effect
never being `degraded` and being `ok` only if it happened: that is
`CapabilityCall`, which `Resolver` is proved to implement. `HttpTurns` publishes the
text of a turn for its sink's session, in order; `EventBus` says what the open streams
of that session get of it. `SlotGate` is what `TripSession` sees as slots that are
`given`, `assumed` or `missing` and dates that clash: it guarantees, slot by slot,
what `GateOnCompleteSlots` says of the whole. `Itinerary` is the step `Draft` of
`TripSession`, with the trip length that `SlotGate` leaves in `derived_slots`; what it
asks of the capabilities is answered as `Resolver` answers, a result or a failure. `Mcp`
is one of the adapters `Resolver` calls; the cancellation in `Mcp` is `with_timeout` of
the attempt in `Resolver`.

### ActionLedger

One *batch* is one execution of `run_l0_batch`. `row[k]` is the status of the
`action_ledger` row with primary key `k`. The actions follow the loop of the
node: `SkipUnconsented` (no `consent_ref` on an L1/L2 action), `Claim` and
`Duplicate` (the two outcomes of `insert_in_flight`, an insert in one transaction),
`Invoke` and `Return` (the two ends of the await), `Settle` (status of the action
and of the row), `Finish`. `Perform` is the outside world, which may act late.
`Abort` loses a batch between any two steps; `Receipt` is `POST /receipt`.

### TripSession

`ckpt` is the latest checkpoint: the state, the node that is next and the
interrupt, if any. `mem[t]` is the state the run of turn `t` carries, `at[t]` the
node it is about to run. Each node is an action that computes the node's update
and takes the edge the route function picks; `Goto` writes the checkpoint.
`Send` and `Resume` are the two requests, and `LaunchFresh` and `LaunchReply` the
start of the stream, a step later because `_drive` awaits in between. `Close` is
the end of `_drive`, which copies the phase to the sessions table. Slots are two
facts: are the required ones given, assumed or missing, and do the dates clash
(`SlotGate` has the rest). A plan is its version number, which stands for its hash.
Of the list of consents the code reads the last entry alone, and `consent` is that one:
the plan consented to and the hash the approval named. `asked` is history: it counts the
questions that went out to the user and no action reads it.
Whether a plan has an L2 act depends on the intent, which any message or edit may
change: `PlanActions` leaves it open. `plan_draft`, `plan_content` and
`content_render` are one step (`Draft`): no property of a session tells them apart and
none of them routes.

`GateDeclared` says whether `AgentState` has a channel for the name of the gated act.
As shipped it has none, LangGraph drops the key and the action gate is never reached
(section 5). `session_sequence` is the shipped graph. `session_overlap` declares the
channel, so that the gate and the second confirmation are checked under overlapping
turns; a plan without an L2 act takes the same path either way, so the run has the
shipped behaviours in it, all but the skipping of an unconsented act, which `ledger` has.

LangGraph is not under `src/`. What the model takes from it: a checkpoint per
node, the latest wins; an interrupt belongs to the checkpoint of the run that
raised it; a new input discards a pending interrupt; `Command(resume)` on a
finished thread does nothing and on any other re-runs the pending node; a key the
state class does not declare is dropped.

### Resolver

A *call* is one execution of `CapabilityResolver.call`. Everything between two
awaits is one action, since the event loop is one thread and SQLite is called
synchronously: `Ask` arbitrates, looks in the cache and walks to the first
provider it can reserve for; `Answer`, `Declines` and `Raises` are what a provider
comes to; `BackoffOver` is the next attempt, or the end of the last; `MoveOn` rolls
back and walks on, down to `Ladder`. `Cancelled` is a cancellation in the
back-off, the one await of `_attempt` outside its `try` (a cancellation during the
provider call is caught by `except BaseException` and handled as an unknown
error); `Crash` loses every call in progress and keeps the tables. `Perform` is a
provider that carries a request out, possibly after it was given up. Reads have no
effect to carry out, so only calls with side effects perform. Costs, limits,
ladders and chains are the `Catalogue`, a constant.

### EventBus

`log[s]` is what was published for a session; the bus keeps its last `Retention`
events. `follows[r]` says whether the bus holds a queue for stream `r`, `place[r]`
how far the generator of `GET /stream` has come: it subscribes when the request
arrives (`Subscribe`), sends the replay (`Replay`), awaits the snapshot
(`SendSnapshot`) and follows its queue (`Deliver`); events may be published between
any two of these. `Disconnect` is the generator's `finally`, at any point. `Publish`
is one synchronous call and fans out to all queues at once.

### HttpTurns

A *request* is a `POST` of a message or a reply. `AnswerFromMemory` and `StartTurn`
are its two beginnings (`RequestDedup.check` and what follows a miss), `EnterGraph`
the moment `_drive` puts its sink into `deps.extras`, `LeaveGraph` its `finally`,
`Reply` and `Refuse` its ends. A rendering node reads `deps.llm` and the sink in
`Render`, its model call streams `Chunk`s into that sink, may be asked again without
`response_format` (`Downgrade`) or repaired (`Reject`), and `CloseStream` finishes
with the sink that is in `deps` by then.

The process has one event loop and no step of the chunk handler suspends. From the
return of the model's answer to the return of the node nothing suspends either: while
a request is `closing` no other step is taken. `spoken`, `asked`, `mixed` and
`answeredAt` are history: no action reads them.

### SlotGate

`slots[s]` is the value and status of a slot. The required slots with rules of their
own are there by name (both dates, lodging, intent, and the two that are required
under a condition); `origin` stands for the other unconditional ones and `hint` for
the optional ones, the stated duration among them. A date is the number of its day,
`NoDate` a text nothing can be read from. `Understand`, `Misunderstand` and `Refuse`
are the three ways through `intake`; `SlotValidate` is `slot_validate` with its route;
`AssumeFallback`, `Plan` and `ApplyEdit` the nodes behind it. `RequiredAtIntake` and
`RequiredAtGate` are kept apart because the code has two contexts, `context_from_slots`
and `_slot_context`, that do not know the same slots.

### LegPlanner, TripPlanner, DayPlan, Itinerary

The planners are pure but for what the capabilities answer, so one *world* is drawn for
a leg and everything else is computed: the operators are the functions, and
`Itinerary` takes a step per await of `plan_content`. `LegPlanner` has
`CandidatesTo` (which modes are asked for at which distance, rail first beyond
`RailMinKm`), `Penalty` and `Vetoed` (the two weather paths), `Score` and `Selected`.
`TripPlanner` lays a chain around a train backwards and forwards (`ChainFor`), ranks
the trains, and judges a chain with the two hard rules of `constraints.py`
(`OutOfOrder`, `ShortOfTime`). `DayPlan` has `Parse` to `Allocate` (`segments.py`),
`AssignDays` to `PackDay` (`day_plan.py`) and `Retimed` (`content.py`). Time is in
quarters of an hour, of which the buffers, visits and meals of the code are multiples
(the estimate of a transfer is rounded). A score is a fraction of the spans of time and
price in its set; it is kept exact, in units of that set, where the code rounds to six
decimals, so two candidates that differ by less than a millionth of a span may tie in
the code and do not here. Places to see are one per city, on the first day of its
stay; the search and ranking of attractions and restaurants is not modelled.

### Mcp

`proc` is the server in the adapter's slot, the record `calls[c]` an `invoke`. Each
action is what happens between two awaits: `Invoke`, `Lock`, `Clear`, `Spawn`,
`FailStart`, `Drop`, `Read`, `Expire` (a timeout of the adapter's own) and `Cancel` (the
resolver's). All requests in order are `sent`, and the number of one is its JSON-RPC id.
Writing a request and beginning to read are two steps because `wait_for` runs
`_await_response` as a task up to Python 3.11, which the project supports. What it reads
is the server in the slot by then (`Read`): an emptied slot fails the call, and in one
that was refilled, which takes a `drain` that had to wait, the answer is awaited of a
server that never got the request. From then on the call keeps to that stream
(`ReadFrom`). A second reader on one stream
is refused by `asyncio.StreamReader`; a reader that was woken by a line may find it
taken by another. Servers are the environment: `Answer`, `StdoutEnds` and `ExitSeen`
may happen at any time to a server somebody still attends to. The spawn of a process
is one step; `aclose` and `health` are left out.

### Assumptions on the constants

* `CatalogueAssumption`: a capability with side effects has one provider and no
  cache lifetime. Every L1/L2 entry of `app/capabilities/defaults.py` is bound to
  the browser only and sets no `cache_ttl_seconds`. It matters: with a second
  binding, `_attempt` returning `None` after a timeout would send the side effect
  to the next provider; with a lifetime, `call` would serve a cached submission.
* `PayloadAssumption`: the bus is only given `text_delta` events. `_publish_delta` is
  the one caller of `publish`; every other event of a turn is returned by its `POST`.
  As `text_delta` is not in `REPLAYABLE_EVENT_TYPES`, a replay is always empty, and the
  proof that a stream sees each event once rests on it. A replayable event, published
  between the subscription and the replay, would be sent twice.
* `OneAtATime` is no assumption of a module but the hypothesis of one theorem,
  `OnlyApprovalsEverExecute`: requests of a session do not overlap, none is lost, and
  the gated key is not declared, as on the command line of the shipped program.
* `InputAssumption` of `TripSession`: messages, the empty text and replies are
  records of their type.
* `WorldsAssumption` and `RequestsAssumption` of `Itinerary`: what a capability may answer
  (`IsWorld`: a train's clock times are of a day or absent, durations and prices counts or
  absent, a way to a station shorter than nine days, so that no time is the value that
  stands for none), that a hop is planned to a place that was found, a trip of at
  least a day, as `plan_content` takes a missing length for one, and a count of days,
  zero for none, with every stay asked for, as the parser reads digits.
* `NamesItsCity` is no assumption of a module but the hypothesis of one theorem,
  `CitiesLinked`: of the places a city's name comes to, the first is that city. Chains
  and the fallback both go to the first place found (`destinations[0]` in
  `_build_rail_chain`), and a name that is also a landmark's elsewhere may put that one
  first. It holds in the checked instance, where every hop has one place to go to. What
  the fallback asks for by that place's own name is taken to find it again (`Alone`).
* `AttemptsAssumption`, `RhythmAssumption`: one train at least is tried, one stay at least
  is kept, and a day begins and ends by the clock.
* `GatedAssumption`, `ActsAssumption`, `CallersAssumption`, `LimitsAssumption`, `GateAssumption`, `KeyAssumption`, `LedgerAssumption`, `RequestAssumption`,
  `LimitAssumption`, `BoundAssumption`, `BudgetAssumption`, `InputAssumption`, `ContextAssumption`, `WatchesAssumption`,
  `SizesAssumption`, `SessionOfAssumption`, `NoRequestAssumption`, `BoundsAssumption`:
  types, and null values outside them.

## 3. What the runs check

| run | instance | shows |
|---|---|---|
| `ledger` | 2 batches, 2 keys, 1 of them gated | no act called twice, rows and reports agree, claims are settled, refinement of `ActOnce` |
| `session_overlap` | 3 turns, 2 at once, 1 lost anywhere, plans with and without an L2 act, action gate declared | gate, consent and second confirmation, one call per act, phase of the sessions table |
| `session_sequence` | 3 turns one at a time, every text and reply, no ledger, gate as shipped | nothing executes but the plan on the card its own request approved; turns end; an approval is carried out; questions stay within their budget |
| `resolver` | 2 reads of one question and one pool unit, 2 submissions | quota, books, consent, single sending, whole chain before the ladder, cache, liveness, refinement of `CapabilityCall` |
| `event_bus` | 2 streams of one session, 2 sessions, 5 events, queues and buffer of 2 | order, once, loss only from a full queue, no stream holds up a turn |
| `http_turns` | a request, its repetition, one of another session, 2 at once | repetitions, sinks and clients, text on screens |
| `slot_gate` | 4 messages, answers or edits out of 22, budget of 2 questions, trips of 2 days at most | what the gate lets pass, length of the dates, delegation, nothing said is lost |
| `itinerary` | 623 requests of up to 4 stays and 5 days, 3 cities, many worlds | calendar, links between cities, feasible chains, visits within their hours, the choice of a leg |
| `mcp` | 2 callers, 3 invocations, 2 servers | answers, repetition, handshake, no server lost untold |
| `session_answer`, `http_session`, `itinerary_nights` | small | one disagreement each between the code and what the repository says of it (`findings`) |

Bounds, and why they are enough:

* `Turn`, `Batch`, `Call`: two executions race for a row, a pool unit or a cache
  entry, a third turn is the one that comes back to what the other two left. The
  ledger and resolver theorems hold for any number.
* `session_overlap`: a text names everything, or dates that clash; a plan is
  answered by its approval, the second confirmation or an edit. Rejection, which ends a
  run, and the other texts are in `session_sequence`.
* `MaxRounds = 1`, `StrikeLimit = 1`: the budget is reached, and exceeded by an
  off-by-one, within the instance. The code's values are settings compared in the
  same places.
* `MaxAttempts = 2`: a first attempt and a retry, on two providers (amap and the
  free osm; open_meteo is in the chain and not configured). The shipped value is 3.
* `MaxNow = 2`, `MonthLength = 2`, lifetime 1: an entry is fresh, then stale; a
  reservation of one month meets a call of the next.
* `MaxAborts`: at most that many turns are lost; a crash is the loss of every
  live turn, one after the other, as nothing is shared in memory.
* `QueueSize = 2`, `Retention = 2`, `MaxLog = 5`: a queue fills, overflows more than
  once and is drained again; the shipped sizes are 512 and
  1000. The theorems hold for any.
* `Window = 1`, `MaxTime = 2`: a repetition comes at the very end of the window, and
  after it. `Tick` waits for the first remembered answer, as time before it tells
  nothing apart. `MaxVisits = 2` nodes over all turns, `MaxChunks = 1`, `MaxRepair = 1`
  (the shipped value): a turn speaks while another enters or leaves, or speaks twice.
* `slot_gate`: the budget of two questions, reached and answered in pieces; dates one
  to three, so that they agree, are one day too far apart or clash; one message that
  names everything, one of each part, and a delegation with a part. A fourth message comes
  after an edit or after a finished trip.
* `itinerary`: a stay has 0 (unstated), 1, 2 or 3 days, in trips of 1 to 5: less,
  exactly and more than the trip, with and without a day left for moving. Three stays
  and `MaxSegments = 3` are the least with an inner city and with a cut. Worlds have
  trains in the morning, at night and without a timetable, stations with the city's
  name and with their own, ways to the station of any and of no length, each kind of weather.
  The operators take any length; a longer trip repeats what two hops do.
* `mcp`: two callers race for the lock, the slot and the stream; two servers are one
  and its replacement; the third invocation finds what the others left, late answers included.
  A refilled slot is read in it; to repeat a request after that takes a third server,
  which the theorems cover (`RepeatsFollowLoss` is for any number).
* Symmetry: the turns of `session_overlap`, the callers of `mcp`, and the request and its
  repetition in `http_turns`, which are interchangeable. No run with a liveness
  property uses it.
* `MaxLive = 1` in `session_sequence`: the command line, where requests cannot
  overlap. Liveness is checked there and in `ledger` and `resolver`.

`CHECK_DEADLOCK FALSE`: the instances have finitely many turns and calls, and stop
when they are done. `itinerary` checks it: planning must come to its end.

Fairness. `TripSession` assumes weak fairness of each turn's steps, `ActionLedger`
of each batch's, `Resolver` of what a provider comes to and of the back-off. The
event loop runs every ready task, a node awaits only model and provider calls, and
those end by `with_timeout` or the model client's own timeout. No fairness is assumed
of requests, of providers carrying anything out, of the clock, or of losses.
`EventBus` assumes it of the publisher alone: `ReadersHoldNothingUp` says that the
streams, of which nothing is assumed, can not keep the runner from publishing.

## 4. What is proved

`ActionLedgerProofs`, from the assumptions above, for any sets of keys and batches:
`TypeCorrect`, `CalledAtMostOnce`, `LedgerIsTruthful`, `RowsAdvance` and
`LedgerImplementsActOnce`. The invariant `Inv` adds to the checked ones what the
loop knows of the act in hand. `AtMostOneCall` alone is not inductive: it needs that
whoever engaged with an act found its row absent (`EngagedHasRow`), so that a later
batch finds it taken, and that the batch with the act in hand is alone
(`OneEngaged`). `LedgerTellsTheTruth` is four statements, about rows and reports, held
rows, the truth of a batch's own report and gated acts; the first needs `CallInv`: an
`ok` answer is of a call carried out.

`ResolverProofs`, for any catalogue, limits, calls and bounds: `TypeCorrect`,
`BooksAlwaysBalance`, `SideEffectsOnceWithConsent` and `ResolverServesCalls`.
That a side effect is sent once needs to know where a waiting call is
(`WaitInv`: a call with side effects waits for its only provider in its only
attempt) and that every request sent so far was that one (`OnceInv`); the refinement
also needs that a call that sent anything was allowed (`SentInv`) and so is never
reported denied (`ReplyInv`). Every step either sends (`SendKeeps`), returns
(`GiveKeeps`) or only moves `pc` (`PcKeeps`), and the proof of each action is one of
the three.

The quota is a sum over calls, a fold that has no order of its own: `QuotaWithinLimit`
rests on the lemma that a charge added to finitely many calls adds its cost and one
taken away takes it, shown by taking the least number of calls for which it would
fail. That only finitely many calls were made at any time is part of the invariant
(`QuotaInv`), as `Call` may be infinite. `LadderIsLast` needs that a waiting call has
tried the chain up to the provider it waits for (`TriedInv`).

`TripSessionProofs`, for any number of turns, overlapping or lost, any texts, replies,
budgets and acts: `TypeCorrect`, `ConsentAlwaysToThePlan` and `EndsAlwaysTrue`. What a node takes for granted of the state it is
given is `Fits`. It has to hold of a run's copy and of the checkpoint alike (`RunsInv`,
`ThreadInv`), since a reply resumes whatever run wrote last; and a run whose interrupt
would be recorded has the state of the checkpoint (`HeadInv`). From there on the gate and
the budget are one case per node. That DONE means tried follows an act through the
overlapping batches: it is still to do in this batch, or some batch engaged with it
(`DoneInv`). The second confirmation needs that an L2 act is consented only where some
request carried it (`TokenInv`). The ledger's own invariant is not proved again: the
steps of a session are steps of the ledger (`SessionStepsLedger`), and
`ActionLedgerProofs` is instantiated. The proof corrected the model's
`GateOnCompleteSlots`: it once said that the gate never opens on missing slots, which is
false when the dates clash past the budget, a case the instance then had no text for.
Two theorems are for requests one at a time, and do not hold of overlapping ones:
`OnlyApprovalsEverExecute` (`OneAtATime`), that a run executes the plan on the card its
own request approved and nothing else, and `QuestionsBounded` (`MaxLive = 1`), that no
more questions go out than the budget. The latter counts what went out: no
more than the rounds the thread carries, which are the questions answered, and the one
that is pending.

`HttpTurnsProofs`, for any requests, sessions, ids, windows and number of turns at once:
`SinkAlwaysTheTurns`, `NothingStaleEver` and `RetriesRunNothing`. Two turns meet only as
mixed ones (`ApartInv`), so the slot is a lone turn's from its entry to its exit and its
callbacks are made for it alone (`SinkInv`): whoever a callback forwards to, it is its own
turn or both are mixed (`Heard`). What is on a screen is of a call that streams and whose
sink holds chunks (`ScreenInv`), so that its end will be told. A repetition finds an entry
that is at least as late as the answer it repeats (`MemoryInv`), since an entry is
replaced only by a later one and dropped only past its window.

`McpProofs`, for any callers, servers and invocations: `TypeCorrect`, `AnswersAreOwn`,
`RepeatsFollowLoss`, `HandshakeComesFirst` and `ServersNeverLeak`. Every step makes of its
call one of a few things (`CallStep`), and each part of the invariant is shown to survive
that relation once. Who waits, waits for a request of this invocation (`RequestInv`);
what an invocation wrote and no longer waits for is one request at most, and a stream has
ended that is of its server or a later one, and of none the slot can hold from then on
(`TriesInv`, `StreamLost`): the call empties the slot before it tries again, and the slot
goes on to later servers only (`SlotGrows`). The handshake flag speaks of the server in the slot, which nobody
replaces while a call is inside `start` (`ServerInv`). `ServersNeverLeak` is about being
told to end, which is all `_shutdown` is sure to do: a disconnect that is cancelled in its
wait kills nothing, and the server may go on for nobody.

`EventBusProofs`, for any sessions, streams, sizes and number of events: `TypeCorrect`,
`FeedAlwaysSound` and `LossNeedsFullQueue`. `Inv` says what a queue is, the end of its
session's log (`QueueHolds`), and that what was sent lies between the subscription and
the queue, in order (`GotHolds`); `FeedIsSound` follows of the two. For the loss,
`MissedBeforeQueue` shows that all that was missed lies before the queue, and each step
either leaves the place where the queue begins, or sends the event there, or finds the
queue full.

`SlotGateProofs`, for any messages, edits, budget of questions and length of trip: all
five checked properties, as `TypeCorrect`, `GateAlwaysComplete`, `LengthAlwaysMatches`,
`DelegationAlwaysSettles` and `AnswersAlwaysKept`. `GateOpensComplete` is stated over
what the registry requires, and so has to name the lodging's area as a way past the gate
(`GateLacksTheArea`: it is all that the context of the gate leaves out). It and
`LengthMatchesDates` speak of the preview, and what they need was found two steps before,
in `SlotValidate`; `Inv` carries it over (`CompleteInv`, `LengthInv`) through
`AssumeFallback`, for which `DecliningTouchesNoAnswer` shows that filling in what is
unresolved neither makes nor unmakes a date, an answer or a requirement. That the count
of questions stays within the budget needs that a question is only asked below it
(`RoundsInv`).

`ItineraryProofs`, for any requests, worlds and renderings: `PlanInvariant`,
`ChainsFeasible` and `ChosenNotDominated`. The invariant `PlanInv` says what is stored is
what the planners return: at the door a chain (`IsChain`), whose legs join with just the
time their kinds need (`ChainOfTrain`), and for each hop nothing or a chain moved to a
day of the calendar. Moved legs keep their clocks, so a gap survives unless midnight lies
in it (`GapOfRetimed`), which is what `SameDay` excludes. When no train chains, the leg
shown alone is of a train without a timetable: a train with one always chains, and the
best is always tried (`BestIsTried`). That the chosen leg is not dominated rests on the
existence of a best candidate (`HasBest`: a transitive and total order on a finite set has
one), on a score being a whole number (`ScoreIsInt`) and on its falling in time, price
and exposure (`BetterScoresMore`); a vetoed candidate ranks below any other. The proof corrected the property: a duration or price of
zero is no part of the range in `score_candidates` and ties with the least known one, so
`Better` has to count it as not known.

The four other properties of the planners, `TypeCorrect`, `EveryDayHasCity`,
`CitiesLinked` and `VisitsFit`, follow from a second invariant, `TripInv`, which TLC
confirmed on the instance of `itinerary` before it was proved. Its core is the boundaries
`b` of the calendar: stay `i` has the days `b[i]` to `b[i + 1] - 1` and no others
(`LaidOut`), and hop `i`, once handled (`HopsHandled`), has its legs on the day
`b[i + 1] - 1`, its first leg the one the day is packed behind, or was told. That the
boundaries increase strictly keeps one hop from overwriting the day of another
(`LastDays`), and is why a leaving day always exists (`LeavingDayIs`): the branch of
`_build_transfers` without one is never taken. The calendar is made in one step, so
most of the argument is about operators: `ParseIs` (no city is lost but as noise or
by the cut), `CompleteDaysIs` and `AllocateIs` (never more days than there are, at least
one stay with a day), `DistributeIs` (no stay gets less than it asked for: the proportion
rounded down is no less, as the target is at least the sum, and the remainders go to few
enough, `FewRankFirst`), `AssignedIs` (the boundaries exist). Sums and filters are folds,
on which no induction over data is needed: a fold is characterised by the function of its
partial results (`FoldRuns`, `SumRuns`, `KeptRuns`), whose existence and uniqueness
follow from the least number that fails (`UpTo`), and everything else is said of that
function (`TotalOfSum`, `TotalOfOne`, `KeptTotal`). `CitiesLinked` states `NamesItsCity`
(section 2); without it `TripInvariant` still has the right day, the packed leg, and legs
with a timetable. For these proofs the model filters with `Kept`, a fold over the places
kept, instead of the library's recursive `SelectSeq`, and adds up fares hop by hop.

Only model-checked: the liveness properties (`ClaimIsSettled`, `TurnsEnd`,
`ApprovalIsCarriedOut`, `EveryCallAnswered`, `ReadersHoldNothingUp`), as the prover does
not handle liveness under fairness. Every invariant and every action property of a passing
run is stated by a theorem.

## 5. Disagreements between the code and its documents

The three that a run shows are under `findings` in `PROJECT.json`. Others met while
modelling, visible in the models and without a run of their own:

Execution and consent

* A claim that finds any row reports its action `ok`, also when the row says
  `failed` or is still `in_flight` (`Duplicate`); `agent-framework.md:433` sends an
  `in_flight` one to reconciliation, which the application does not have.
* "only a user receipt may mark an order as completed" (`sessions.py:154`,
  `repositories.py:380`): the receipt names an action, rows are inserted without one
  (`execution.py:377`), so it completes no row the execution wrote.
* `dispatch` names the gated act under a key `AgentState` does not declare
  (`execution.py:212`, `state.py:13-61`): the key is dropped, `trip_graph.py:60` never
  routes to the action gate, and the second confirmation is not asked.
* `run_l0_batch` takes `result.ok` for done, and `DEGRADED` is ok: a degraded read
  leaves an action completed with no deliverable and no note (`empty`).
* `agent-framework.md:382` and the docstring of `is_fused` make the third strike
  terminal; `Refuse` writes FAILED, and the next message starts the thread again.
* A refusal that answers a new message while the consent gate is pending ends the
  run with the phase still AWAIT_CONSENT and no gate.
* `agent-framework.md:239` gives a session a budget of four questions. The count is in the
  state each run carries: two overlapping runs ask up to the budget each
  (`QuestionsWithinBudget` is for requests one at a time).
* `trip_graph.py:47`: "A rejection must end the turn"; under overlapping turns a
  rejection can land on a run that is past the gate, and ends nothing.
* `dedup.py:3`: "Clicking "approve" twice must not resume the graph twice". The table is
  written when a turn ends: a second click during the first one's turn starts another.
  The web client also makes a fresh id for each click.

Channels and tool servers

* `agent-framework.md:676` moves to the backup source at 95% of a pool; the resolver
  adds a warning and calls the primary.
* `agent-framework.md:677` serves the capability of an exhausted pool from its backups;
  `resolver.py:187` skips every binding of it, the free ones included.
* A lost call holds its reservation until the month ends (`BooksBalance` counts it
  so); nothing settles reservations at start-up.
* A capability's pool is charged for whichever binding answers, a free backup
  included.
* `_note_disconnect` (`mcp/adapter.py:204`: "Drop the corpse") shuts down whatever is in
  the slot, without the lock: the failure of one call can end a server that another has
  just started (`Lose`). While a dead server is being replaced the state stays HEALTHY.
* Two calls that read one server at a time: the second is refused by the stream, which
  counts as a network failure; an answer that another call reads first is discarded, and
  its own call times out (`Read`).
* `slot.py:3` prevents "two conversations driving the same browser"; nothing acquires the
  lease, and two sessions that reach the browser drive one page.
* A request whose `drain` had to wait may be answered for by the wrong server: by the
  time `_await_response` takes `self._proc` another call may have replaced it (`Read`).
* `_shutdown` closes stdin, waits and only then kills: where the call is cancelled in the
  wait, a server that ignores the end of its stdin runs on (`Drop`, `Cancel`).
* A `start` that is cancelled from outside leaves its server in the slot with the state
  UNAVAILABLE; the next `start` clears it (`Lock`).

Information gate

* `derive_trip_days` (`slots.py:458`): a return before the departure "must send the
  user back to clarification". Past the question budget the graph goes on to
  `assume_fallback`, which fills nothing, as the return date has a value, and the plan
  is made with the clash. The clash also hides other required slots that are open, which
  are then neither asked, nor assumed, nor disclosed.
* `slots.py:414-416`: a date that cannot be read is kept as text, and "the gate then
  reports the slot as unresolved and asks"; `_is_resolved` looks at the status alone,
  so it does not ask. The defaults of declined dates are such texts.
* An edit at the preview empties the assumption list while the assumed slots stay
  resolved (`gates.py:101`), and so do the notes of a later `slot_validate`: the next
  card no longer discloses them.
* `lodging_area` is required by the registry as soon as lodging is needed
  (`slots.py:57`, `slots.py:156-163`), and is where the traveller delegates, but never at
  the gate, whose context does not know the lodging (`_slot_context`): a preview without
  it passes, undisclosed. `GateOpensComplete` says so.
* A trip length once derived survives in `derived_slots` when the dates that gave it
  become unreadable.

Planning

* The weather vetoes name modes (`drive`, `car`, `walk`, `bike`...) no candidate has
  (`driving`, `bicycling`, `walking`, `train`): no leg is ever vetoed. `visibility_m` is
  never read, and `adjust_for_weather` never called.
* `_scale`: 3 + 1 stated days in a trip of 5 become 2 + 2, though stated counts win.
* Days set aside for moving to a city that is then dropped stay set aside.
* A moving day is packed behind the first leg of its chain, the way to the departure
  station, and not behind the arrival in the next city, although `content.py:396-398`
  wants the day to start from the actual arrival: a visit may lie on the train. The
  property `VisitsKeepTheHours` claims the arrival only where the way is one leg.
* `_retime_leg` keeps the clock and drops the date of every leg by itself: a chain past
  midnight is put out of order (`ChainsAreFeasible` holds for those within a day). A train
  of more than 24 hours is taken to arrive on the day after at most.
* The note that a station could not be resolved also comes when it is less than one
  kilometre away; failures of the look-ups in `build_trip` and `_station_place` are not told.
* `price_estimate` adds up the transfers between cities only; meals are placed past the end
  of a day; the notes of a rail search that fell back to the road are dropped.
* `build_trip` with `force_intercity` and a destination that no look-up answers indexes an
  empty list; the model gives such a hop at least one place.

Text and events

* `nodes/planning.py` closes the stream after every model call, so that the client
  knows the text is final; after a repair the sink holds no chunk of the node and
  `close_stream` sends nothing.
* The web client's stream handler is given the whole envelope of a server-sent event
  (`client.ts`) where it reads the payload's fields: streamed text does not show.
* `bus.py:28-30` says that a stream says so when events were dropped; nothing does.
* A client that leaves before the first byte of its stream leaves its queue in the bus
  (`sessions.py:222`).

## 6. Plan

What is left, in this order, each with its run, map and hazards:

1. The event log: `_to_events`, `EventsRepo.append` and `list_since`, several turns of
   one session writing; abstract specification: a reader sees a prefix of the log.
2. `SessionStore`: the web client's state, fed by snapshots and streamed events.
3. `PageSlot`, the lease of `app/browser/slot.py`, and `Budget`, the token counts of
   `app/llm/budget.py`, once something calls them.

Runs of the disagreements give way to runs of new components where the two compete
for the time of the whole suite.

## 7. Not modelled

The wording of questions, cards and errors; the reading of words, dates and cities from
text; the search and ranking of attractions and restaurants, and the reasons given for
a choice; prompts and model output, which are a choice among the outcomes the code
distinguishes; HTTP and CDP plumbing, request building and parsing; telemetry, and of
credentials all but whose client a turn calls; the consents, plans and audit tables,
which the application never writes; `rebuild`, which wires the graph at start-up;
`aclose` and `health` of the adapters; the page lease, the event log and the web client's
store (section 6); `skip_remaining` and `purge_expired`, which have no caller.
`PROJECT.json` gives the status of each component.
