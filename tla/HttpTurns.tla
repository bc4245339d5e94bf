------------------------------ MODULE HttpTurns -------------------------------
(****************************************************************************)
(* Concurrent requests of the HTTP API and what they share: the table of    *)
(* answered request ids (app/api/dedup.py), the one GraphDeps with its LLM  *)
(* client and its delta sink (app/api/context.py, app/graph/runner.py), and *)
(* the event bus.  A request that is not answered from memory runs a turn;  *)
(* the turn's rendering nodes stream their text, chunk by chunk, through    *)
(* the sink they find in deps (app/graph/nodes/streaming.py) to the bus,    *)
(* for the sink's session, and into the events its POST returns.  What the  *)
(* streams make of what is published is EventBus.                           *)
(*                                                                          *)
(* A step lasts from one await that suspends to the next: the chunk handler *)
(* never suspends.  What a turn does between rendering nodes is TripSession.*)
(*                                                                          *)
(* Abstracted: a sink is named by the turn that made it; a chunk by its     *)
(* place in the answer; a cached answer by the request it answered; a       *)
(* client by the request whose headers chose it.  The failures of a turn    *)
(* are those between nodes: structured() turns every exception of a model   *)
(* call into an answer that is not ok.                                      *)
(****************************************************************************)
EXTENDS Naturals, Sequences, FiniteSets

CONSTANTS
  Session,
  Request, SessionOf, IdOf,   \* requests, their sessions and client_request_ids
  NoRequest,                  \* no sink, no client
  NoId,                       \* a request without an id
  Node,                       \* STREAMING_NODES
  MaxRepair,                  \* structured's max_repair
  Window,                     \* RequestDedup's window
  MaxChunks,                  \* bound: chunks of one answer
  MaxVisits,                  \* bound: nodes rendered by all turns together
  MaxLive,                    \* bound: turns under way at once
  MaxTime                     \* bound: the clock

ASSUME SessionOfAssumption == SessionOf \in [Request -> Session]
ASSUME NoRequestAssumption == NoRequest \notin Request
ASSUME BoundsAssumption ==
  {MaxRepair, Window, MaxChunks, MaxVisits, MaxLive, MaxTime} \subseteq Nat

VARIABLES
  published,   \* published[s]: what the bus was given for session s
  pc,          \* pc[r]: where the handler of r is
  now,         \* time.time()
  seen,        \* RequestDedup._seen: sets of [id, at, result]
  result,      \* result[r]: the request whose result r was answered with
  llm,         \* deps.llm
  deltaSink,   \* deps.extras["delta_sink"]
  chunks,      \* chunks[r][n]: the text that r's sink holds for node n
  deltas,      \* deltas[r]: the chunks r's handler collected, for its answer
  node,        \* node[r]: the node r renders
  visited,     \* visited[r]: the nodes it has rendered
  sink,        \* sink[r]: the sink its callback forwards to
  try,         \* try[r]: attempts of the model call so far, this one included
  streaming,   \* streaming[r]: stream_this_call
  spoken,      \* history: spoken[r], what r's model calls forwarded
  asked,       \* history: asked[r], whose clients r's turn has called
  mixed,       \* history: turns that ran while another did
  answeredAt   \* history: answeredAt[r], the time r's turn was answered

vars == <<published, pc, now, seen, result, llm, deltaSink, chunks, deltas, node,
          visited, sink, try, streaming, spoken, asked, mixed, answeredAt>>

Id == {IdOf[r] : r \in Request} \ {NoId}

Delta == [type : {"text_delta"}, by : Request, node : Node,
          kind : {"text", "reset", "done"}, n : 0..MaxChunks]

Active == {"starting", "running", "asking", "closing"}

TypeOK ==
  /\ published \in [Session -> Seq(Delta)]
  /\ pc \in [Request -> Active \cup {"new", "ending", "answered", "failed"}]
  /\ now \in 0..MaxTime
  /\ seen \subseteq [id : Id, at : 0..MaxTime, result : Request]
  /\ \A e, f \in seen : e.id = f.id => e = f
  /\ result \in [Request -> Request \cup {NoRequest}]
  /\ llm \in Request \cup {NoRequest}
  /\ deltaSink \in Request \cup {NoRequest}
  /\ chunks \in [Request -> [Node -> Seq(Delta)]]
  /\ deltas \in [Request -> Seq(Delta)]
  /\ node \in [Request -> Node \cup {"none"}]
  /\ visited \in [Request -> SUBSET Node]
  /\ sink \in [Request -> Request \cup {NoRequest}]
  /\ try \in [Request -> 0..(MaxRepair + 1)]
  /\ streaming \in [Request -> BOOLEAN]
  /\ spoken \in [Request -> Seq(Delta)]
  /\ asked \in [Request -> SUBSET Request]
  /\ mixed \subseteq Request
  /\ answeredAt \in [Request -> 0..MaxTime]

Init ==
  /\ published = [s \in Session |-> <<>>]
  /\ pc = [r \in Request |-> "new"]
  /\ now = 0
  /\ seen = {}
  /\ result = [r \in Request |-> NoRequest]
  /\ llm = NoRequest
  /\ deltaSink = NoRequest
  /\ chunks = [r \in Request |-> [n \in Node |-> <<>>]]
  /\ deltas = [r \in Request |-> <<>>]
  /\ node = [r \in Request |-> "none"]
  /\ visited = [r \in Request |-> {}]
  /\ sink = [r \in Request |-> NoRequest]
  /\ try = [r \in Request |-> 0]
  /\ streaming = [r \in Request |-> FALSE]
  /\ spoken = [r \in Request |-> <<>>]
  /\ asked = [r \in Request |-> {}]
  /\ mixed = {}
  /\ answeredAt = [r \in Request |-> 0]

-----------------------------------------------------------------------------
(* The table of answered requests.                                          *)

\* An answer that is as old as the window is gone.
FaultyKept == {e \in seen : now - e.at < Window}

\* RequestDedup._gc
Kept == {e \in seen : now - e.at <= Window}

Named(r) == IdOf[r] # NoId

Remember(r) ==
  seen' = IF Named(r)
          THEN {e \in Kept : e.id # IdOf[r]}
                 \cup {[id |-> IdOf[r], at |-> now, result |-> r]}
          ELSE seen

-----------------------------------------------------------------------------
(* The routes send_message and resume, and GraphRunner._drive.              *)

StreamVars == <<chunks, deltas, spoken>>
CallVars   == <<node, visited, sink, try, streaming, asked>>
DedupVars  == <<now, seen, result, answeredAt>>

\* POST with an id whose answer is remembered.
AnswerFromMemory(r) ==
  /\ pc[r] = "new"
  /\ \E e \in Kept : /\ e.id = IdOf[r]
                     /\ result' = [result EXCEPT ![r] = e.result]
  /\ pc' = [pc EXCEPT ![r] = "answered"]
  /\ seen' = Kept
  /\ UNCHANGED <<published, now, answeredAt, llm, deltaSink, StreamVars, CallVars, mixed>>

Running == {q \in Request : pc[q] \in Active}

\* The client is built once and kept.
FaultyClientFor(r) == IF llm = NoRequest THEN r ELSE llm

\* apply_request_credentials
ClientFor(r) == r

\* Every other POST: apply_request_credentials, then the await of the
\* thread's state (resume) or of its pending interrupt (send).
StartTurn(r) ==
  /\ pc[r] = "new"
  /\ \A e \in Kept : e.id # IdOf[r]
  /\ Cardinality(Running) < MaxLive
  /\ pc' = [pc EXCEPT ![r] = "starting"]
  /\ seen' = IF Named(r) THEN Kept ELSE seen
  /\ llm' = ClientFor(r)
  /\ mixed' = IF Running = {} THEN mixed ELSE mixed \cup Running \cup {r}
  /\ UNCHANGED <<published, now, result, answeredAt, deltaSink, StreamVars, CallVars>>

\* _drive puts its own sink into deps and enters the graph.
EnterGraph(r) ==
  /\ pc[r] = "starting"
  /\ pc' = [pc EXCEPT ![r] = "running"]
  /\ deltaSink' = r
  /\ UNCHANGED <<published, DedupVars, llm, StreamVars, CallVars, mixed>>

\* The sink stays when the graph is left by an exception.
FaultyLeaveGraph(r, to) ==
  /\ pc[r] = "running"
  /\ pc' = [pc EXCEPT ![r] = to]
  /\ deltaSink' = IF to = "failed" THEN deltaSink ELSE NoRequest
  /\ UNCHANGED <<published, DedupVars, llm, StreamVars, CallVars, mixed>>

\* The graph is left, by END, an interrupt or an exception: the finally of
\* _drive pops whatever sink is there.
LeaveGraph(r, to) ==
  /\ pc[r] = "running"
  /\ pc' = [pc EXCEPT ![r] = to]
  /\ deltaSink' = NoRequest
  /\ UNCHANGED <<published, DedupVars, llm, StreamVars, CallVars, mixed>>

\* The thread's state was awaited: the events are built, stored and returned,
\* and the result is remembered.
Reply(r) ==
  /\ pc[r] = "ending"
  /\ pc' = [pc EXCEPT ![r] = "answered"]
  /\ result' = [result EXCEPT ![r] = r]
  /\ answeredAt' = [answeredAt EXCEPT ![r] = now]
  /\ Remember(r)
  /\ UNCHANGED <<published, now, llm, deltaSink, StreamVars, CallVars, mixed>>

\* The plan was superseded (409), or the await raised: nothing is remembered.
Refuse(r) ==
  /\ pc[r] \in {"starting", "ending"}
  /\ pc' = [pc EXCEPT ![r] = "failed"]
  /\ UNCHANGED <<published, DedupVars, llm, deltaSink, StreamVars, CallVars, mixed>>

-----------------------------------------------------------------------------
(* A rendering node, its model call and its stream.                         *)

PublishDelta(s, d) == published' = [published EXCEPT ![s] = Append(@, d)]

\* DeltaSink.delta and finish, with the handler of the sink's own turn.
Emit(s, d) ==
  /\ chunks' = [chunks EXCEPT ![s][d.node] =
                  CASE d.kind = "text" -> Append(@, d)
                    [] d.kind = "reset" -> <<>>
                    [] d.kind = "done" -> @]
  /\ deltas' = [deltas EXCEPT ![s] = Append(@, d)]
  /\ PublishDelta(SessionOf[s], d)

Says(r, kind, n) ==
  [type |-> "text_delta", by |-> r, node |-> node[r], kind |-> kind, n |-> n]

\* The callback forwards to the sink it was made for, if there was one.
Forward(r, d) ==
  /\ spoken' = [spoken EXCEPT ![r] = Append(@, d)]
  /\ IF sink[r] = NoRequest THEN UNCHANGED <<published, chunks, deltas>> ELSE Emit(sink[r], d)

\* llm_for and stream_callback read deps when the node starts.
Render(r, n) ==
  /\ pc[r] = "running"
  /\ n \notin visited[r]
  /\ Cardinality({v \in Request \X Node : v[2] \in visited[v[1]]}) < MaxVisits
  /\ pc' = [pc EXCEPT ![r] = "asking"]
  /\ node' = [node EXCEPT ![r] = n]
  /\ visited' = [visited EXCEPT ![r] = @ \cup {n}]
  /\ sink' = [sink EXCEPT ![r] = deltaSink]
  /\ try' = [try EXCEPT ![r] = 1]
  /\ streaming' = [streaming EXCEPT ![r] = deltaSink # NoRequest]
  /\ asked' = [asked EXCEPT ![r] = @ \cup {llm}]
  /\ UNCHANGED <<published, DedupVars, llm, deltaSink, StreamVars, mixed>>

Uttered(r) == {i \in DOMAIN spoken[r] :
                 spoken[r][i].node = node[r] /\ spoken[r][i].kind = "text"}

\* _consume_stream
Chunk(r) ==
  /\ pc[r] = "asking"
  /\ streaming[r]
  /\ Cardinality(Uttered(r)) < MaxChunks
  /\ Forward(r, Says(r, "text", Cardinality(Uttered(r)) + 1))
  /\ UNCHANGED <<pc, DedupVars, llm, deltaSink, CallVars, mixed>>

\* The server refuses response_format: the next attempt goes without it.
Downgrade(r) ==
  /\ pc[r] = "asking"
  /\ Uttered(r) = {}
  /\ try[r] <= MaxRepair
  /\ try' = [try EXCEPT ![r] = @ + 1]
  /\ UNCHANGED <<published, pc, DedupVars, llm, deltaSink, StreamVars, node, visited,
                 sink, streaming, asked, mixed>>

\* The rejected answer stays with the clients.
FaultyReject(r) ==
  /\ pc[r] = "asking"
  /\ pc' = [pc EXCEPT ![r] = IF try[r] <= MaxRepair THEN "asking" ELSE "closing"]
  /\ try' = [try EXCEPT ![r] = IF try[r] <= MaxRepair THEN @ + 1 ELSE @]
  /\ streaming' = [streaming EXCEPT ![r] = FALSE]
  /\ chunks' = [chunks EXCEPT ![r][node[r]] = <<>>]
  /\ UNCHANGED <<published, deltas, spoken, DedupVars, llm, deltaSink, node, visited, sink, asked, mixed>>

\* The answer does not fit the schema: what was streamed of it is reset, and
\* it is asked for once more, unstreamed.
Reject(r) ==
  /\ pc[r] = "asking"
  /\ pc' = [pc EXCEPT ![r] = IF try[r] <= MaxRepair THEN "asking" ELSE "closing"]
  /\ try' = [try EXCEPT ![r] = IF try[r] <= MaxRepair THEN @ + 1 ELSE @]
  /\ streaming' = [streaming EXCEPT ![r] = FALSE]
  /\ Forward(r, Says(r, "reset", 0))
  /\ UNCHANGED <<DedupVars, llm, deltaSink, node, visited, sink, asked, mixed>>

\* The answer is valid, or the call failed.
CallReturns(r) ==
  /\ pc[r] = "asking"
  /\ pc' = [pc EXCEPT ![r] = "closing"]
  /\ UNCHANGED <<published, DedupVars, llm, deltaSink, StreamVars, CallVars, mixed>>

\* close_stream, with the sink that is in deps by now, and the node's return.
CloseStream(r) ==
  /\ pc[r] = "closing"
  /\ pc' = [pc EXCEPT ![r] = "running"]
  /\ node' = [node EXCEPT ![r] = "none"]
  /\ sink' = [sink EXCEPT ![r] = NoRequest]
  /\ try' = [try EXCEPT ![r] = 0]
  /\ streaming' = [streaming EXCEPT ![r] = FALSE]
  /\ IF deltaSink # NoRequest /\ chunks[deltaSink][node[r]] # <<>>
     THEN Emit(deltaSink, Says(r, "done", 0))
     ELSE UNCHANGED <<published, chunks, deltas>>
  /\ UNCHANGED <<DedupVars, llm, deltaSink, spoken, visited, asked, mixed>>

-----------------------------------------------------------------------------

\* Time that passes before the first answer tells nothing apart.
Tick ==
  /\ now < MaxTime
  /\ seen # {}
  /\ now' = now + 1
  /\ UNCHANGED <<published, pc, seen, result, answeredAt, llm, deltaSink, StreamVars,
                 CallVars, mixed>>

TurnStep(r) ==
  \/ EnterGraph(r) \/ LeaveGraph(r, "ending") \/ LeaveGraph(r, "failed")
  \/ Reply(r) \/ Refuse(r)
  \/ \E n \in Node : Render(r, n)
  \/ Chunk(r) \/ Downgrade(r) \/ Reject(r) \/ CallReturns(r)

Arrive(r) == AnswerFromMemory(r) \/ StartTurn(r)

\* One event loop: from the model's answer to the node's return nothing else
\* runs, as nothing there suspends.
Next ==
  \/ \E r \in Request : CloseStream(r)
  \/ /\ \A r \in Request : pc[r] # "closing"
     /\ \/ \E r \in Request : Arrive(r) \/ TurnStep(r)
        \/ Tick

Spec == Init /\ [][Next]_vars

-----------------------------------------------------------------------------
(* Properties.                                                              *)

\* A repeated request runs no second turn within the window of the first one's
\* answer, whatever else was remembered or dropped meanwhile.
RetryRunsNothing ==
  [][\A r, q \in Request :
       /\ pc[r] = "new" /\ pc'[r] = "starting"
       /\ Named(r) /\ IdOf[q] = IdOf[r] /\ result[q] = q
       => now - answeredAt[q] > Window]_vars

\* No sink outlives the turns: the next one can not speak into the handler of
\* one that is over, in whatever order they entered and left.
NoSinkBetweenTurns ==
  (\A r \in Request : pc[r] \notin {"running", "asking", "closing"})
    => deltaSink = NoRequest

\* What a sequence of deltas holds besides the marks that close a stream.
Told(ds) == {i \in DOMAIN ds : ds[i].kind # "done"}

\* That is the sequence said, delta by delta.
Tells(ds, said) ==
  /\ Cardinality(Told(ds)) = Len(said)
  /\ \A i \in Told(ds) : ds[i] = said[Cardinality(Told(ds) \cap 1..i)]

\* A turn that ran alone called its own client, and returns and publishes what
\* its own model said, whatever other turns did to deps before it.
LoneTurnIsItsOwn ==
  \A r \in Request \ mixed :
    /\ asked[r] \subseteq {r}
    /\ Tells(deltas[r], spoken[r])
    /\ \A s \in Session : \A i \in DOMAIN published[s] :
         published[s][i].by = r => s = SessionOf[r]

\* The shared slot is nobody's between turns, and a lone turn's own during one.
SinkIsTheTurns == TypeOK /\ NoSinkBetweenTurns /\ LoneTurnIsItsOwn

\* What is left of the log on a screen: the text since the last reset or done.
OnScreen(s) ==
  {published[s][i] : i \in {i \in DOMAIN published[s] :
     \A j \in i..Len(published[s]) : published[s][j].kind = "text"}}

\* A client that missed nothing is left with no text of an answer that was
\* rejected or is complete: only with that of a call that streams right now.
NothingStaleOnScreen ==
  \A s \in Session :
    (\A q \in mixed : SessionOf[q] # s) =>
      \A d \in OnScreen(s) : /\ pc[d.by] \in {"asking", "closing"}
                             /\ streaming[d.by]
                             /\ node[d.by] = d.node

-----------------------------------------------------------------------------
(* What the documents say and the code does not do.                         *)

\* streaming.py: the sink is per turn; so the text of a turn goes to the
\* streams of its own session.
TextStaysInSession ==
  \A s \in Session : \A i \in DOMAIN published[s] : SessionOf[published[s][i].by] = s
=============================================================================
