--------------------------- MODULE HttpTurnsProofs ---------------------------
(***************************************************************************)
(* Theorems of HttpTurns, for any requests, sessions and ids, and any      *)
(* number of turns under way.  The heart of it is that two turns meet only *)
(* as mixed ones: whoever the sink a callback forwards to belongs to, it   *)
(* is the callback's own turn or both have been mixed (Heard).             *)
(***************************************************************************)
EXTENDS HttpTurns, FiniteSetTheorems, SequenceTheorems, TLAPS

-----------------------------------------------------------------------------
(* The inductive invariant.                                                *)

InGraph == {"running", "asking", "closing"}
InNode == {"asking", "closing"}

BusTypes ==
    /\ published \in [Session -> Seq(Delta)]
    /\ chunks \in [Request -> [Node -> Seq(Delta)]]
    /\ deltas \in [Request -> Seq(Delta)]
    /\ spoken \in [Request -> Seq(Delta)]

ControlTypes ==
    /\ pc \in [Request -> Active \cup {"new", "ending", "answered", "failed"}]
    /\ llm \in Request \cup {NoRequest}
    /\ deltaSink \in Request \cup {NoRequest}
    /\ node \in [Request -> Node \cup {"none"}]
    /\ visited \in [Request -> SUBSET Node]
    /\ sink \in [Request -> Request \cup {NoRequest}]
    /\ try \in [Request -> 0..(MaxRepair + 1)]
    /\ streaming \in [Request -> BOOLEAN]
    /\ asked \in [Request -> SUBSET Request]
    /\ mixed \subseteq Request
    /\ \A r \in Request : pc[r] \in InNode => node[r] \in Node
    /\ \A r \in Request : pc[r] \in Active => llm \in Request

MemoryTypes ==
    /\ now \in 0..MaxTime
    /\ seen \subseteq [id : Id, at : 0..MaxTime, result : Request]
    /\ \A e, f \in seen : e.id = f.id => e = f
    /\ result \in [Request -> Request \cup {NoRequest}]
    /\ answeredAt \in [Request -> 0..MaxTime]

(* Two turns under way at once are mixed, both of them.                    *)
ApartInv ==
    \A q, r \in Request : pc[q] \in Active /\ pc[r] \in Active /\ q # r => r \in mixed

(* The slot is a lone turn's from its entry into the graph to its exit, so *)
(* its callbacks are made for it, and no other turn's are.                 *)
SinkInv ==
    \A r \in Request \ mixed :
        /\ deltaSink = r <=> pc[r] \in InGraph
        /\ pc[r] \in InNode => sink[r] = r
        /\ \A q \in Request : sink[q] = r => q = r

ClientInv ==
    \A r \in Request \ mixed : pc[r] \in Active => llm = r

(* No mixed turn speaks in the session.                                    *)
Unmixed(s) == \A q \in mixed : SessionOf[q] # s

(* The text of d belongs to a call that streams, and the sink holds it, so *)
(* that the close of the stream will be told.                              *)
Streams(d) ==
    /\ pc[d.by] \in InNode /\ streaming[d.by] /\ node[d.by] = d.node
    /\ chunks[d.by][d.node] # <<>>

ScreenInv ==
    \A s \in Session : Unmixed(s) =>
        /\ \A i \in DOMAIN published[s] : SessionOf[published[s][i].by] = s
        /\ \A d \in OnScreen(s) : Streams(d)

(* What a repetition finds: the entry of its id, at least as late as the   *)
(* answer it repeats.                                                      *)
Remembered(q) == \E e \in seen : e.id = IdOf[q] /\ e.at >= answeredAt[q]

MemoryInv ==
    /\ \A e \in seen : e.at <= now /\ pc[e.result] # "new"
    /\ \A q \in Request : answeredAt[q] <= now
    /\ \A q \in Request :
         result[q] = q /\ Named(q) => Remembered(q) \/ now - answeredAt[q] > Window

Inv == /\ BusTypes /\ ControlTypes /\ MemoryTypes
       /\ ApartInv /\ SinkInv /\ ClientInv
       /\ NoSinkBetweenTurns /\ LoneTurnIsItsOwn /\ ScreenInv /\ MemoryInv

-----------------------------------------------------------------------------
(* What is said, and what a sink makes of it.                              *)

LEMMA Bounds ==
    /\ MaxRepair \in Nat /\ Window \in Nat /\ MaxChunks \in Nat /\ MaxTime \in Nat
BY BoundsAssumption

LEMMA DeltaFields ==
    ASSUME NEW d \in Delta
    PROVE  d.by \in Request /\ d.node \in Node /\ d.kind \in {"text", "reset", "done"}
BY DEF Delta

LEMMA SaysDelta ==
    ASSUME NEW r \in Request, node[r] \in Node, NEW kind \in {"text", "reset", "done"},
           NEW n \in 0..MaxChunks
    PROVE  /\ Says(r, kind, n) \in Delta
           /\ Says(r, kind, n).by = r /\ Says(r, kind, n).node = node[r]
           /\ Says(r, kind, n).kind = kind
BY DEF Says, Delta

(* What was told of a sequence is counted.                                 *)
LEMMA ToldFinite ==
    ASSUME NEW S, NEW ds \in Seq(S), NEW T \in SUBSET Told(ds)
    PROVE  /\ IsFiniteSet(T) /\ Cardinality(T) \in Nat
           /\ Cardinality(T) <= Cardinality(Told(ds))
<1>1. Len(ds) \in Nat /\ DOMAIN ds = 1..Len(ds)
    OBVIOUS
<1>2. IsFiniteSet(1..Len(ds))
    BY <1>1, FS_Interval
<1>3. Told(ds) \in SUBSET (1..Len(ds))
    BY <1>1 DEF Told
<1>4. IsFiniteSet(Told(ds))
    BY <1>2, <1>3, FS_Subset
<1>5. IsFiniteSet(T) /\ Cardinality(T) <= Cardinality(Told(ds))
    BY <1>4, FS_Subset
<1>. QED BY <1>5, FS_CardinalityType

LEMMA ToldBeforeIsThere ==
    ASSUME NEW S, NEW ds \in Seq(S), NEW i \in Told(ds)
    PROVE  Cardinality(Told(ds) \cap 1..i) \in 1..Cardinality(Told(ds))
<1>1. i \in Nat /\ i \in 1..i
    BY DEF Told
<1>2. Told(ds) \cap 1..i # {}
    BY <1>1
<1>3. Told(ds) \cap 1..i \in SUBSET Told(ds)
    OBVIOUS
<1>4. /\ IsFiniteSet(Told(ds) \cap 1..i) /\ Cardinality(Told(ds) \cap 1..i) \in Nat
      /\ Cardinality(Told(ds) \cap 1..i) <= Cardinality(Told(ds))
    BY <1>3, ToldFinite
<1>5. Cardinality(Told(ds) \cap 1..i) # 0
    BY <1>2, <1>4, FS_EmptySet
<1>6. Told(ds) \in SUBSET Told(ds)
    OBVIOUS
<1>7. Cardinality(Told(ds)) \in Nat
    BY <1>6, ToldFinite
<1>. QED BY <1>4, <1>5, <1>7

(* One more delta is told as the next one.                                 *)
LEMMA TellsMore ==
    ASSUME NEW ds \in Seq(Delta), NEW said \in Seq(Delta), NEW d \in Delta,
           Tells(ds, said), d.kind # "done"
    PROVE  Tells(Append(ds, d), Append(said, d))
<1> DEFINE new == Append(ds, d)  last == Len(ds) + 1
<1>1. /\ new \in Seq(Delta) /\ Len(new) = last /\ Len(ds) \in Nat /\ Len(said) \in Nat
      /\ \A i \in 1..Len(ds) : new[i] = ds[i]
      /\ new[last] = d
    BY AppendProperties
<1>2. /\ Len(Append(said, d)) = Len(said) + 1
      /\ \A i \in 1..Len(said) : Append(said, d)[i] = said[i]
      /\ Append(said, d)[Len(said) + 1] = d
    BY AppendProperties
<1>3. DOMAIN new = 1..last /\ DOMAIN ds = 1..Len(ds)
    BY <1>1
<1> HIDE DEF new
<1>4. Told(ds) \subseteq 1..Len(ds)
    BY <1>3 DEF Told
<1>5. \A i \in 1..last : i \in 1..Len(ds) \/ i = last
    BY <1>1
<1>6. Told(new) = Told(ds) \cup {last}
    BY <1>1, <1>3, <1>5 DEF Told
<1>7. last \notin Told(ds)
    BY <1>1, <1>4
<1>8. Told(ds) \in SUBSET Told(ds)
    OBVIOUS
<1>9. IsFiniteSet(Told(ds)) /\ Cardinality(Told(ds)) = Len(said)
    BY <1>8, ToldFinite DEF Tells
<1>10. Cardinality(Told(new)) = Len(said) + 1
    BY <1>6, <1>7, <1>9, FS_AddElement
<1>11. ASSUME NEW i \in Told(new) PROVE new[i] = Append(said, d)[Cardinality(Told(new) \cap 1..i)]
  <2>1. CASE i = last
    <3>1. Told(new) \cap 1..i = Told(new)
        BY <2>1, <1>1, <1>3 DEF Told
    <3>. QED BY <3>1, <2>1, <1>1, <1>2, <1>10
  <2>2. CASE i # last
    <3>1. i \in Told(ds) /\ i \in 1..Len(ds)
        BY <2>2, <1>4, <1>6
    <3>2. last \notin 1..i
        BY <3>1, <1>1
    <3>3. Told(new) \cap 1..i = Told(ds) \cap 1..i
        BY <3>2, <1>6
    <3>4. Cardinality(Told(ds) \cap 1..i) \in 1..Len(said)
        BY <3>1, <1>9, ToldBeforeIsThere
    <3>5. ds[i] = said[Cardinality(Told(ds) \cap 1..i)]
        BY <3>1 DEF Tells
    <3>. QED BY <3>1, <3>3, <3>4, <3>5, <1>1, <1>2
  <2>. QED BY <2>1, <2>2
<1>. QED BY <1>2, <1>10, <1>11 DEF Tells, new

(* The mark that closes a stream tells nothing.                            *)
LEMMA TellsNoMore ==
    ASSUME NEW ds \in Seq(Delta), NEW said \in Seq(Delta), NEW d \in Delta,
           Tells(ds, said), d.kind = "done"
    PROVE  Tells(Append(ds, d), said)
<1> DEFINE new == Append(ds, d)  last == Len(ds) + 1
<1>1. /\ new \in Seq(Delta) /\ Len(new) = last /\ Len(ds) \in Nat
      /\ \A i \in 1..Len(ds) : new[i] = ds[i]
      /\ new[last] = d
    BY AppendProperties
<1>2. DOMAIN new = 1..last /\ DOMAIN ds = 1..Len(ds)
    BY <1>1
<1> HIDE DEF new
<1>3. \A i \in 1..last : i \in 1..Len(ds) \/ i = last
    BY <1>1
<1>4. Told(new) = Told(ds)
  <2>1. \A i \in 1..Len(ds) : i \in 1..last
    BY <1>1
  <2>. QED BY <1>1, <1>2, <1>3, <2>1 DEF Told
<1>5. \A i \in Told(new) : new[i] = ds[i]
    BY <1>1, <1>2, <1>4 DEF Told
<1>. QED BY <1>4, <1>5 DEF Tells, new

(* A sink appends a delta to what its turn collects and to what its        *)
(* session was given, and touches nothing of another turn or session.      *)
Appended(t, d) ==
    /\ deltas' = [deltas EXCEPT ![t] = Append(deltas[t], d)]
    /\ published' = [published EXCEPT ![SessionOf[t]] = Append(published[SessionOf[t]], d)]
    /\ \A q \in Request : q # t => chunks'[q] = chunks[q]
    /\ d.kind = "done" => chunks' = chunks
    /\ d.kind = "text" => chunks'[t][d.node] # <<>>
    /\ d.kind = "text" => \A n \in Node : n # d.node => chunks'[t][n] = chunks[t][n]

LEMMA EmitAppends ==
    ASSUME BusTypes, NEW t \in Request, NEW d \in Delta, Emit(t, d)
    PROVE  Appended(t, d) /\ (spoken' \in [Request -> Seq(Delta)] => BusTypes')
<1>1. /\ d.by \in Request /\ d.node \in Node /\ d.kind \in {"text", "reset", "done"}
      /\ SessionOf[t] \in Session
    BY DeltaFields, SessionOfAssumption
<1>2. /\ deltas' = [deltas EXCEPT ![t] = Append(deltas[t], d)]
      /\ published' = [published EXCEPT ![SessionOf[t]] = Append(published[SessionOf[t]], d)]
    BY DEF Emit, PublishDelta
<1>3. /\ deltas[t] \in Seq(Delta) /\ published[SessionOf[t]] \in Seq(Delta)
      /\ chunks[t] \in [Node -> Seq(Delta)] /\ chunks[t][d.node] \in Seq(Delta)
    BY <1>1 DEF BusTypes
<1>4. /\ Append(deltas[t], d) \in Seq(Delta) /\ Append(published[SessionOf[t]], d) \in Seq(Delta)
      /\ Append(chunks[t][d.node], d) \in Seq(Delta) /\ Append(chunks[t][d.node], d) # <<>>
      /\ <<>> \in Seq(Delta)
    BY <1>3, AppendProperties
<1>5. PICK x \in Seq(Delta) :
        /\ chunks' = [chunks EXCEPT ![t] = [chunks[t] EXCEPT ![d.node] = x]]
        /\ d.kind = "text" => x # <<>>
        /\ d.kind = "done" => x = chunks[t][d.node]
  <2>1. CASE d.kind = "text"
    <3>1. chunks' = [chunks EXCEPT ![t] = [chunks[t] EXCEPT ![d.node] = Append(chunks[t][d.node], d)]]
        BY <2>1 DEF Emit
    <3>. QED BY <2>1, <3>1, <1>4
  <2>2. CASE d.kind = "reset"
    <3>1. chunks' = [chunks EXCEPT ![t] = [chunks[t] EXCEPT ![d.node] = <<>>]]
        BY <2>2 DEF Emit
    <3>. QED BY <2>2, <3>1, <1>4
  <2>3. CASE d.kind = "done"
    <3>1. chunks' = [chunks EXCEPT ![t] = [chunks[t] EXCEPT ![d.node] = chunks[t][d.node]]]
        BY <2>3 DEF Emit
    <3>. QED BY <2>3, <3>1, <1>3
  <2>. QED BY <1>1, <2>1, <2>2, <2>3
<1>6. chunks \in [Request -> [Node -> Seq(Delta)]]
    BY DEF BusTypes
<1>7. chunks' \in [Request -> [Node -> Seq(Delta)]]
    BY <1>1, <1>5, <1>6
<1>8. \A q \in Request : q # t => chunks'[q] = chunks[q]
    BY <1>5, <1>6
<1>9. chunks'[t][d.node] = x /\ \A n \in Node : n # d.node => chunks'[t][n] = chunks[t][n]
    BY <1>1, <1>3, <1>5, <1>6
<1>10. ASSUME d.kind = "done" PROVE chunks' = chunks
    BY <1>10, <1>1, <1>3, <1>5, <1>6
<1>11. /\ deltas' \in [Request -> Seq(Delta)]
       /\ published' \in [Session -> Seq(Delta)]
    BY <1>1, <1>2, <1>4 DEF BusTypes
<1>. QED BY <1>2, <1>5, <1>7, <1>8, <1>9, <1>10, <1>11 DEF Appended, BusTypes

-----------------------------------------------------------------------------
(* Whose sink a callback speaks into.                                      *)

Heard(q, t) == t = q \/ (t \in mixed /\ q \in mixed)

LEMMA SinksMeet ==
    ASSUME ApartInv, SinkInv, NEW q \in Request, NEW t \in Request, pc[q] \in InNode,
           t = sink[q] \/ t = deltaSink
    PROVE  Heard(q, t)
<1>1. pc[q] \in Active /\ pc[q] \in InGraph
    BY DEF InNode, Active, InGraph
<1>2. ASSUME q \notin mixed PROVE t = q
    BY <1>1, <1>2 DEF SinkInv
<1>3. ASSUME t \notin mixed PROVE t = q
  <2>1. CASE t = sink[q]
    BY <2>1, <1>3 DEF SinkInv
  <2>2. CASE t = deltaSink
    <3>1. pc[t] \in InGraph
        BY <2>2, <1>3 DEF SinkInv
    <3>2. pc[t] \in Active
        BY <3>1 DEF InGraph, Active
    <3>. QED BY <3>2, <1>1, <1>3 DEF ApartInv
  <2>. QED BY <2>1, <2>2
<1>. QED BY <1>2, <1>3 DEF Heard

(* What a step of q's model call puts on the bus: nothing, or one delta of *)
(* q's node through a sink, its own or another mixed turn's.               *)
Silent == UNCHANGED <<published, chunks, deltas>>

Spoke(q, t, d) ==
    /\ d \in Delta /\ d.by = q /\ d.node = node[q]
    /\ Heard(q, t) /\ Emit(t, d)

LEMMA ForwardSpeaks ==
    ASSUME ApartInv, SinkInv, ControlTypes, NEW r \in Request, pc[r] \in InNode,
           NEW kind \in {"text", "reset", "done"}, NEW n \in 0..MaxChunks,
           Forward(r, Says(r, kind, n))
    PROVE  /\ Says(r, kind, n) \in Delta /\ Says(r, kind, n).kind = kind
           /\ spoken' = [spoken EXCEPT ![r] = Append(spoken[r], Says(r, kind, n))]
           /\ \/ Silent /\ r \in mixed
              \/ \E t \in Request : Spoke(r, t, Says(r, kind, n))
<1>1. node[r] \in Node
    BY DEF ControlTypes
<1>2. /\ Says(r, kind, n) \in Delta /\ Says(r, kind, n).kind = kind
      /\ Says(r, kind, n).by = r /\ Says(r, kind, n).node = node[r]
    BY <1>1, SaysDelta
<1>3. spoken' = [spoken EXCEPT ![r] = Append(spoken[r], Says(r, kind, n))]
    BY DEF Forward
<1>4. CASE sink[r] = NoRequest
  <2>1. Silent
    BY <1>4 DEF Forward, Silent
  <2>2. r \in mixed
    BY <1>4, NoRequestAssumption DEF SinkInv
  <2>. QED BY <2>1, <2>2, <1>2, <1>3
<1>5. CASE sink[r] # NoRequest
  <2>1. sink[r] \in Request
    BY <1>5 DEF ControlTypes
  <2>2. Heard(r, sink[r])
    BY <2>1, SinksMeet
  <2>3. Emit(sink[r], Says(r, kind, n))
    BY <1>5 DEF Forward
  <2>4. Spoke(r, sink[r], Says(r, kind, n))
    BY <2>2, <2>3, <1>2 DEF Spoke
  <2>. QED BY <2>1, <2>4, <1>2, <1>3
<1>. QED BY <1>4, <1>5

(* The three steps that speak.                                             *)
SpeaksInCall(r, kind) ==
    \E d \in Delta :
        /\ d.kind = kind
        /\ spoken' = [spoken EXCEPT ![r] = Append(spoken[r], d)]
        /\ \/ Silent /\ r \in mixed
           \/ \E t \in Request : Spoke(r, t, d)

LEMMA ChunkSpeaks ==
    ASSUME BusTypes, ApartInv, SinkInv, ControlTypes, NEW r \in Request, Chunk(r)
    PROVE  SpeaksInCall(r, "text")
<1>1. pc[r] \in InNode /\ Cardinality(Uttered(r)) < MaxChunks
      /\ Forward(r, Says(r, "text", Cardinality(Uttered(r)) + 1))
    BY DEF Chunk, InNode
<1>2. spoken[r] \in Seq(Delta)
    BY DEF BusTypes
<1>3. Uttered(r) \in SUBSET Told(spoken[r])
    BY DEF Uttered, Told
<1>4. Cardinality(Uttered(r)) \in Nat
    BY <1>2, <1>3, ToldFinite
<1>5. Cardinality(Uttered(r)) + 1 \in 0..MaxChunks
    BY <1>1, <1>4, Bounds
<1>. QED BY <1>1, <1>5, ForwardSpeaks DEF SpeaksInCall

LEMMA RejectSpeaks ==
    ASSUME ApartInv, SinkInv, ControlTypes, NEW r \in Request, Reject(r)
    PROVE  SpeaksInCall(r, "reset")
<1>1. pc[r] \in InNode /\ Forward(r, Says(r, "reset", 0)) /\ 0 \in 0..MaxChunks
    BY Bounds DEF Reject, InNode
<1>. QED BY <1>1, ForwardSpeaks DEF SpeaksInCall

LEMMA CloseSpeaks ==
    ASSUME ApartInv, SinkInv, ControlTypes, NEW r \in Request, CloseStream(r)
    PROVE  /\ spoken' = spoken
           /\ \/ Silent /\ (r \in mixed \/ chunks[r][node[r]] = <<>>)
              \/ \E t \in Request, d \in Delta : d.kind = "done" /\ Spoke(r, t, d)
<1>1. pc[r] \in InNode /\ pc[r] \in InGraph /\ 0 \in 0..MaxChunks /\ node[r] \in Node
    BY Bounds DEF CloseStream, InNode, InGraph, ControlTypes
<1>2. spoken' = spoken
    BY DEF CloseStream
<1>3. CASE deltaSink # NoRequest /\ chunks[deltaSink][node[r]] # <<>>
  <2>1. deltaSink \in Request
    BY <1>3 DEF ControlTypes
  <2>2. Heard(r, deltaSink)
    BY <2>1, <1>1, SinksMeet
  <2>3. Emit(deltaSink, Says(r, "done", 0))
    BY <1>3 DEF CloseStream
  <2>4. /\ Says(r, "done", 0) \in Delta /\ Says(r, "done", 0).kind = "done"
        /\ Says(r, "done", 0).by = r /\ Says(r, "done", 0).node = node[r]
    BY <1>1, SaysDelta
  <2>5. Spoke(r, deltaSink, Says(r, "done", 0))
    BY <2>2, <2>3, <2>4 DEF Spoke
  <2>. QED BY <2>1, <2>4, <2>5, <1>2
<1>4. CASE ~(deltaSink # NoRequest /\ chunks[deltaSink][node[r]] # <<>>)
  <2>1. Silent
    BY <1>4 DEF CloseStream, Silent
  <2>2. r \notin mixed => deltaSink = r
    BY <1>1 DEF SinkInv
  <2>. QED BY <2>1, <2>2, <1>2, <1>4, NoRequestAssumption
<1>. QED BY <1>3, <1>4

-----------------------------------------------------------------------------
(* Types.                                                                  *)

Quiet == UNCHANGED <<published, chunks, deltas, spoken>>

LEMMA QuietSteps ==
    ASSUME NEW r \in Request,
           \/ Arrive(r) \/ EnterGraph(r) \/ LeaveGraph(r, "ending") \/ LeaveGraph(r, "failed")
           \/ Reply(r) \/ Refuse(r) \/ \E n \in Node : Render(r, n)
           \/ Downgrade(r) \/ CallReturns(r) \/ Tick
    PROVE  Quiet
BY DEF Arrive, AnswerFromMemory, StartTurn, EnterGraph, LeaveGraph, Reply, Refuse, Render,
       Downgrade, CallReturns, Tick, StreamVars, Quiet

LEMMA BusTypesKept ==
    ASSUME BusTypes,
           \/ Quiet
           \/ \E r \in Request : \/ \E kind : SpeaksInCall(r, kind)
                                 \/ /\ spoken' = spoken
                                    /\ Silent \/ \E t \in Request, d \in Delta : Spoke(r, t, d)
    PROVE  BusTypes'
<1>1. CASE Quiet
    BY <1>1 DEF BusTypes, Quiet
<1>2. ASSUME NEW t \in Request, NEW d \in Delta, NEW r \in Request, Spoke(r, t, d),
             spoken' \in [Request -> Seq(Delta)]
      PROVE  BusTypes'
    BY <1>2, EmitAppends DEF Spoke
<1>3. ASSUME Silent, spoken' \in [Request -> Seq(Delta)] PROVE BusTypes'
    BY <1>3 DEF Silent, BusTypes
<1>4. ASSUME NEW r \in Request, NEW kind, SpeaksInCall(r, kind) PROVE BusTypes'
  <2>1. PICK d \in Delta : /\ spoken' = [spoken EXCEPT ![r] = Append(spoken[r], d)]
                           /\ \/ Silent \/ \E t \in Request : Spoke(r, t, d)
    BY <1>4 DEF SpeaksInCall
  <2>2. spoken[r] \in Seq(Delta)
    BY DEF BusTypes
  <2>3. Append(spoken[r], d) \in Seq(Delta)
    BY <2>2, AppendProperties
  <2>4. spoken' \in [Request -> Seq(Delta)]
    BY <2>1, <2>3 DEF BusTypes
  <2>. QED BY <2>1, <2>4, <1>2, <1>3
<1>5. spoken' = spoken => spoken' \in [Request -> Seq(Delta)]
    BY DEF BusTypes
<1>. QED BY <1>1, <1>2, <1>3, <1>4, <1>5

LEMMA ControlTypesKept ==
    ASSUME ControlTypes, Next
    PROVE  ControlTypes'
<1> USE DEF ControlTypes, InNode, Active
<1>1. MaxRepair \in Nat /\ 0 \in 0..(MaxRepair + 1) /\ 1 \in 0..(MaxRepair + 1)
    BY Bounds
<1>2. ASSUME NEW r \in Request, AnswerFromMemory(r) PROVE ControlTypes'
    BY <1>2 DEF AnswerFromMemory, StreamVars, CallVars
<1>3. ASSUME NEW r \in Request, StartTurn(r) PROVE ControlTypes'
  <2>1. mixed' \subseteq Request
    BY <1>3 DEF StartTurn, Running
  <2>. QED BY <1>3, <2>1 DEF StartTurn, ClientFor, StreamVars, CallVars
<1>4. ASSUME NEW r \in Request, EnterGraph(r) PROVE ControlTypes'
    BY <1>4 DEF EnterGraph, StreamVars, CallVars
<1>5. ASSUME NEW r \in Request, LeaveGraph(r, "ending") \/ LeaveGraph(r, "failed")
      PROVE  ControlTypes'
    BY <1>5 DEF LeaveGraph, StreamVars, CallVars
<1>6. ASSUME NEW r \in Request, Reply(r) \/ Refuse(r) PROVE ControlTypes'
    BY <1>6 DEF Reply, Refuse, StreamVars, CallVars
<1>7. ASSUME NEW r \in Request, NEW n \in Node, Render(r, n) PROVE ControlTypes'
  <2>1. llm \in Request
    BY <1>7 DEF Render
  <2>2. asked' \in [Request -> SUBSET Request] /\ visited' \in [Request -> SUBSET Node]
    BY <1>7, <2>1 DEF Render
  <2>3. streaming' \in [Request -> BOOLEAN]
    <3>1. (deltaSink # NoRequest) \in BOOLEAN
        OBVIOUS
    <3>2. streaming' = [streaming EXCEPT ![r] = deltaSink # NoRequest]
        BY <1>7 DEF Render
    <3>3. streaming \in [Request -> BOOLEAN]
        OBVIOUS
    <3>. QED BY <3>1, <3>2, <3>3, Zenon
  <2>. QED BY <1>1, <1>7, <2>2, <2>3 DEF Render, StreamVars
<1>8. ASSUME NEW r \in Request, Chunk(r) PROVE ControlTypes'
    BY <1>8 DEF Chunk, CallVars
<1>9. ASSUME NEW r \in Request, Downgrade(r) PROVE ControlTypes'
  <2>1. try[r] + 1 \in 0..(MaxRepair + 1)
    BY <1>1, <1>9 DEF Downgrade
  <2>. QED BY <1>9, <2>1 DEF Downgrade, StreamVars
<1>10. ASSUME NEW r \in Request, Reject(r) PROVE ControlTypes'
  <2>1. try[r] <= MaxRepair => try[r] + 1 \in 0..(MaxRepair + 1)
    BY <1>1
  <2>2. try' \in [Request -> 0..(MaxRepair + 1)]
    BY <1>10, <2>1 DEF Reject
  <2>3. streaming' \in [Request -> BOOLEAN]
    <3>1. streaming' = [streaming EXCEPT ![r] = FALSE] /\ streaming \in [Request -> BOOLEAN]
        BY <1>10 DEF Reject
    <3>. QED BY <3>1, Zenon
  <2>. QED BY <1>10, <2>2, <2>3 DEF Reject
<1>11. ASSUME NEW r \in Request, CallReturns(r) PROVE ControlTypes'
    BY <1>11 DEF CallReturns, StreamVars, CallVars
<1>12. ASSUME NEW r \in Request, CloseStream(r) PROVE ControlTypes'
  <2>1. streaming' \in [Request -> BOOLEAN]
    <3>1. streaming' = [streaming EXCEPT ![r] = FALSE] /\ streaming \in [Request -> BOOLEAN]
        BY <1>12 DEF CloseStream
    <3>. QED BY <3>1, Zenon
  <2>. QED BY <1>1, <1>12, <2>1 DEF CloseStream
<1>13. CASE Tick
    BY <1>13 DEF Tick, StreamVars, CallVars
<1>. QED BY <1>2, <1>3, <1>4, <1>5, <1>6, <1>7, <1>8, <1>9, <1>10, <1>11, <1>12, <1>13
         DEF Next, Arrive, TurnStep

(* What a repetition may find is kept by steps that remember nothing new.  *)
MemoryUnchanged == UNCHANGED <<now, seen, result, answeredAt>>

LEMMA MemoryTypesKept ==
    ASSUME MemoryTypes, Next
    PROVE  MemoryTypes'
<1>1. ASSUME MemoryUnchanged PROVE MemoryTypes'
    BY <1>1 DEF MemoryUnchanged, MemoryTypes
<1>2. \A e \in Kept : e \in seen
    BY DEF Kept
<1>3. ASSUME NEW r \in Request, AnswerFromMemory(r) PROVE MemoryTypes'
  <2>1. PICK e \in Kept : result' = [result EXCEPT ![r] = e.result]
    BY <1>3 DEF AnswerFromMemory
  <2>2. e.result \in Request
    BY <1>2 DEF MemoryTypes
  <2>. QED BY <1>2, <1>3, <2>1, <2>2 DEF AnswerFromMemory, MemoryTypes
<1>4. ASSUME NEW r \in Request, StartTurn(r) PROVE MemoryTypes'
    BY <1>2, <1>4 DEF StartTurn, MemoryTypes
<1>5. ASSUME NEW r \in Request, Reply(r) PROVE MemoryTypes'
  <2>1. now \in 0..MaxTime /\ now' = now
    BY <1>5 DEF Reply, MemoryTypes
  <2>2. seen' \subseteq [id : Id, at : 0..MaxTime, result : Request]
    <3>1. Named(r) => [id |-> IdOf[r], at |-> now, result |-> r]
                        \in [id : Id, at : 0..MaxTime, result : Request]
        BY <2>1 DEF Named, Id
    <3>2. seen \subseteq [id : Id, at : 0..MaxTime, result : Request]
        BY DEF MemoryTypes
    <3>. QED BY <1>2, <1>5, <3>1, <3>2 DEF Reply, Remember
  <2>3. ASSUME NEW e \in seen', NEW f \in seen', e.id = f.id PROVE e = f
    <3>1. CASE ~Named(r)
        BY <3>1, <1>5, <2>3 DEF Reply, Remember, MemoryTypes
    <3>2. CASE Named(r)
      <4> DEFINE new == [id |-> IdOf[r], at |-> now, result |-> r]
      <4>1. /\ (e \in seen /\ e.id # IdOf[r]) \/ e = new
            /\ (f \in seen /\ f.id # IdOf[r]) \/ f = new
        BY <1>2, <1>5, <3>2 DEF Reply, Remember
      <4>2. new.id = IdOf[r]
        OBVIOUS
      <4> HIDE DEF new
      <4>. QED BY <4>1, <4>2, <2>3 DEF MemoryTypes
    <3>. QED BY <3>1, <3>2
  <2>. QED BY <1>5, <2>1, <2>2, <2>3 DEF Reply, MemoryTypes
<1>6. CASE Tick
    BY <1>6, Bounds DEF Tick, MemoryTypes
<1>7. ASSUME NEW r \in Request, TurnStep(r) \/ CloseStream(r) PROVE Reply(r) \/ MemoryUnchanged
    BY <1>7 DEF TurnStep, EnterGraph, LeaveGraph, Refuse, Render, Chunk, Downgrade, Reject,
                CallReturns, CloseStream, DedupVars, MemoryUnchanged
<1>. QED BY <1>1, <1>3, <1>4, <1>5, <1>6, <1>7 DEF Next, Arrive

-----------------------------------------------------------------------------
(* Who is under way, whose the slot is, and whose the client.              *)

(* The places a turn is in, as sets of each other.                         *)
LEMMA Places ==
    /\ \A p \in InNode : p \in InGraph
    /\ \A p \in InGraph : p \in Active
    /\ InNode = {"asking", "closing"} /\ InGraph = {"running", "asking", "closing"}
    /\ Active = {"starting", "running", "asking", "closing"}
BY DEF InNode, InGraph, Active

(* No step but StartTurn makes a turn active, mixes one or changes clients. *)
Continues == /\ \A q \in Request : pc'[q] \in Active => pc[q] \in Active
             /\ mixed' = mixed /\ llm' = llm

LEMMA OthersContinue ==
    ASSUME ControlTypes, Next, \A r \in Request : ~StartTurn(r)
    PROVE  Continues
<1> USE DEF Continues, ControlTypes, Active
<1>1. ASSUME NEW r \in Request, AnswerFromMemory(r) PROVE Continues
    BY <1>1 DEF AnswerFromMemory
<1>2. ASSUME NEW r \in Request, TurnStep(r) PROVE Continues
    BY <1>2 DEF TurnStep, EnterGraph, LeaveGraph, Reply, Refuse, Render, Chunk, Downgrade, Reject,
                CallReturns
<1>3. ASSUME NEW r \in Request, CloseStream(r) PROVE Continues
    BY <1>3 DEF CloseStream
<1>4. Tick => Continues
    BY DEF Tick
<1>. QED BY <1>1, <1>2, <1>3, <1>4 DEF Next, Arrive

LEMMA ApartKept ==
    ASSUME ControlTypes, ApartInv, Next
    PROVE  ApartInv'
<1>1. ASSUME NEW r \in Request, StartTurn(r) PROVE ApartInv'
  <2>1. pc' = [pc EXCEPT ![r] = "starting"] /\ pc \in [Request -> Active \cup {"new", "ending", "answered", "failed"}]
    BY <1>1 DEF StartTurn, ControlTypes
  <2>2. CASE Running = {}
    BY <1>1, <2>1, <2>2 DEF StartTurn, Running, ApartInv
  <2>3. CASE Running # {}
    <3>1. mixed' = mixed \cup Running \cup {r}
        BY <1>1, <2>3 DEF StartTurn
    <3>. QED BY <2>1, <3>1 DEF Running, ApartInv
  <2>. QED BY <2>2, <2>3
<1>2. ASSUME Continues PROVE ApartInv'
    BY <1>2 DEF Continues, ApartInv
<1>. QED BY <1>1, <1>2, OthersContinue

(* No sink outlives the turns: _drive's finally pops whatever is there.    *)
LEMMA NoSinkKept ==
    ASSUME ControlTypes, NoSinkBetweenTurns, Next
    PROVE  NoSinkBetweenTurns'
<1> USE DEF ControlTypes, NoSinkBetweenTurns
<1>1. ASSUME NEW r \in Request, Arrive(r) PROVE NoSinkBetweenTurns'
    BY <1>1 DEF Arrive, AnswerFromMemory, StartTurn
<1>2. ASSUME NEW r \in Request, EnterGraph(r) \/ LeaveGraph(r, "ending") \/ LeaveGraph(r, "failed")
      PROVE  NoSinkBetweenTurns'
    BY <1>2 DEF EnterGraph, LeaveGraph
<1>3. ASSUME NEW r \in Request, Reply(r) \/ Refuse(r) PROVE NoSinkBetweenTurns'
    BY <1>3 DEF Reply, Refuse
<1>4. ASSUME NEW r \in Request, NEW n \in Node, Render(r, n) PROVE NoSinkBetweenTurns'
    BY <1>4 DEF Render
<1>5. ASSUME NEW r \in Request,
             Chunk(r) \/ Downgrade(r) \/ Reject(r) \/ CallReturns(r) \/ CloseStream(r)
      PROVE  NoSinkBetweenTurns'
    BY <1>5 DEF Chunk, Downgrade, Reject, CallReturns, CloseStream
<1>6. Tick => NoSinkBetweenTurns'
    BY DEF Tick
<1>. QED BY <1>1, <1>2, <1>3, <1>4, <1>5, <1>6 DEF Next, TurnStep

LEMMA SinkKept ==
    ASSUME ControlTypes, ApartInv, SinkInv, Next
    PROVE  SinkInv'
<1> USE DEF ControlTypes, SinkInv, InNode, InGraph
<1>1. ASSUME NEW r \in Request, AnswerFromMemory(r) PROVE SinkInv'
    BY <1>1 DEF AnswerFromMemory, CallVars
<1>2. ASSUME NEW r \in Request, StartTurn(r) PROVE SinkInv'
  <2>1. mixed \subseteq mixed'
    BY <1>2 DEF StartTurn
  <2>. QED BY <1>2, <2>1 DEF StartTurn, CallVars
<1>3. ASSUME NEW r \in Request, NEW q \in Request, q # r, pc[r] \in Active, q \notin mixed
      PROVE  pc[q] \notin InGraph
    BY <1>3 DEF ApartInv, Active
<1>4. ASSUME NEW r \in Request, EnterGraph(r) PROVE SinkInv'
  <2>1. pc[r] \in Active
    BY <1>4 DEF EnterGraph, Active
  <2>. QED BY <1>3, <1>4, <2>1, NoRequestAssumption DEF EnterGraph, CallVars
<1>5. ASSUME NEW r \in Request, LeaveGraph(r, "ending") \/ LeaveGraph(r, "failed") PROVE SinkInv'
  <2>1. pc[r] \in Active
    BY <1>5 DEF LeaveGraph, Active
  <2>. QED BY <1>3, <1>5, <2>1, NoRequestAssumption DEF LeaveGraph, CallVars
<1>6. ASSUME NEW r \in Request, Reply(r) \/ Refuse(r) PROVE SinkInv'
    BY <1>6 DEF Reply, Refuse, CallVars
<1>7. ASSUME NEW r \in Request, NEW n \in Node, Render(r, n) PROVE SinkInv'
  <2>1. pc[r] \in Active /\ pc[r] \in InGraph
    BY <1>7 DEF Render, Active
  <2>. QED BY <1>3, <1>7, <2>1 DEF Render
<1>8. ASSUME NEW r \in Request, Chunk(r) \/ Downgrade(r) PROVE SinkInv'
    BY <1>8 DEF Chunk, Downgrade, CallVars
<1>9. ASSUME NEW r \in Request, Reject(r) \/ CallReturns(r) PROVE SinkInv'
    BY <1>9 DEF Reject, CallReturns, CallVars
<1>10. ASSUME NEW r \in Request, CloseStream(r) PROVE SinkInv'
    BY <1>10, NoRequestAssumption DEF CloseStream
<1>11. Tick => SinkInv'
    BY DEF Tick, CallVars
<1>. QED BY <1>1, <1>2, <1>4, <1>5, <1>6, <1>7, <1>8, <1>9, <1>10, <1>11
         DEF Next, Arrive, TurnStep

(* A lone turn calls its own clients: llm is its own while it is under way.*)
LEMMA ClientKept ==
    ASSUME ControlTypes, ApartInv, ClientInv, Next
    PROVE  ClientInv'
<1>1. ASSUME NEW r \in Request, StartTurn(r) PROVE ClientInv'
  <2>1. CASE Running = {}
    BY <1>1, <2>1 DEF StartTurn, Running, ClientFor, ClientInv, ControlTypes
  <2>2. CASE Running # {}
    <3>1. mixed' = mixed \cup Running \cup {r}
        BY <1>1, <2>2 DEF StartTurn
    <3>. QED BY <1>1, <3>1 DEF StartTurn, Running, ClientInv, ControlTypes
  <2>. QED BY <2>1, <2>2
<1>2. ASSUME Continues PROVE ClientInv'
    BY <1>2 DEF Continues, ClientInv
<1>. QED BY <1>1, <1>2, OthersContinue

-----------------------------------------------------------------------------
(* What a lone turn returns and publishes.                                 *)

LEMMA PublishedAfter ==
    ASSUME BusTypes, NEW t \in Request, NEW d \in Delta, Appended(t, d), NEW s \in Session,
           NEW i \in DOMAIN published'[s]
    PROVE  \/ i \in DOMAIN published[s] /\ published'[s][i] = published[s][i]
           \/ s = SessionOf[t] /\ published'[s][i] = d
<1>1. SessionOf[t] \in Session /\ published \in [Session -> Seq(Delta)]
    BY SessionOfAssumption DEF BusTypes
<1>2. published' = [published EXCEPT ![SessionOf[t]] = Append(published[SessionOf[t]], d)]
    BY DEF Appended
<1>3. CASE s # SessionOf[t]
    BY <1>1, <1>2, <1>3
<1>4. CASE s = SessionOf[t]
  <2> DEFINE new == Append(published[s], d)
  <2>1. published'[s] = new /\ published[s] \in Seq(Delta)
    BY <1>1, <1>2, <1>4
  <2>2. /\ new \in Seq(Delta) /\ Len(new) = Len(published[s]) + 1 /\ Len(published[s]) \in Nat
        /\ \A j \in 1..Len(published[s]) : new[j] = published[s][j]
        /\ new[Len(published[s]) + 1] = d
    BY <2>1, AppendProperties
  <2>3. DOMAIN new = 1..Len(new) /\ DOMAIN published[s] = 1..Len(published[s])
    BY <2>1, <2>2
  <2> HIDE DEF new
  <2>4. i \in 1..Len(published[s]) \/ i = Len(published[s]) + 1
    BY <2>1, <2>2, <2>3
  <2>. QED BY <2>1, <2>2, <2>3, <2>4, <1>4
<1>. QED BY <1>3, <1>4

(* LoneTurnIsItsOwn, for one turn.                                         *)
IsItsOwn(r) ==
    /\ asked[r] \subseteq {r}
    /\ Tells(deltas[r], spoken[r])
    /\ \A s \in Session : \A i \in DOMAIN published[s] :
         published[s][i].by = r => s = SessionOf[r]

LEMMA SpokeKeepsOwn ==
    ASSUME BusTypes, LoneTurnIsItsOwn, asked' = asked,
           NEW q \in Request, NEW t \in Request, NEW d \in Delta, Spoke(q, t, d),
           NEW r \in Request, r \notin mixed,
           \/ d.kind # "done" /\ spoken' = [spoken EXCEPT ![q] = Append(spoken[q], d)]
           \/ d.kind = "done" /\ spoken' = spoken
    PROVE  IsItsOwn(r)'
<1>1. Heard(q, t) /\ Appended(t, d) /\ d.by = q
    BY EmitAppends DEF Spoke
<1>2. /\ deltas' = [deltas EXCEPT ![t] = Append(deltas[t], d)]
      /\ deltas \in [Request -> Seq(Delta)] /\ spoken \in [Request -> Seq(Delta)]
    BY <1>1 DEF Appended, BusTypes
<1>3. /\ asked[r] \subseteq {r} /\ Tells(deltas[r], spoken[r])
      /\ \A s \in Session : \A i \in DOMAIN published[s] :
           published[s][i].by = r => s = SessionOf[r]
    BY DEF LoneTurnIsItsOwn
<1>4. Tells(deltas'[r], spoken'[r])
  <2>1. CASE r # q
    <3>1. t # r
        BY <2>1, <1>1 DEF Heard
    <3>2. deltas'[r] = deltas[r] /\ spoken'[r] = spoken[r]
        BY <3>1, <2>1, <1>2
    <3>. QED BY <3>2, <1>3
  <2>2. CASE r = q
    <3>1. t = q
        BY <2>2, <1>1 DEF Heard
    <3>2. deltas'[r] = Append(deltas[r], d)
        BY <3>1, <2>2, <1>2
    <3>3. CASE d.kind # "done"
      <4>1. spoken'[r] = Append(spoken[r], d)
        BY <3>3, <2>2, <1>2
      <4>. QED BY <4>1, <3>2, <3>3, <1>2, <1>3, TellsMore
    <3>4. CASE d.kind = "done"
      <4>1. spoken'[r] = spoken[r]
        BY <3>4
      <4>. QED BY <4>1, <3>2, <3>4, <1>2, <1>3, TellsNoMore
    <3>. QED BY <3>3, <3>4
  <2>. QED BY <2>1, <2>2
<1>5. ASSUME NEW s \in Session, NEW i \in DOMAIN published'[s], published'[s][i].by = r
      PROVE  s = SessionOf[r]
  <2>1. CASE i \in DOMAIN published[s] /\ published'[s][i] = published[s][i]
    BY <2>1, <1>3, <1>5
  <2>2. CASE s = SessionOf[t] /\ published'[s][i] = d
    <3>1. r = q
        BY <2>2, <1>1, <1>5
    <3>2. t = q
        BY <3>1, <1>1 DEF Heard
    <3>. QED BY <3>1, <3>2, <2>2
  <2>. QED BY <1>1, <2>1, <2>2, PublishedAfter
<1>. QED BY <1>3, <1>4, <1>5 DEF IsItsOwn

(* Who speaks into nothing is mixed, or says that it is done.              *)
LEMMA SilenceKeepsOwn ==
    ASSUME BusTypes, LoneTurnIsItsOwn, asked' = asked, Silent, NEW q \in Request, NEW d,
           \/ q \in mixed /\ spoken' = [spoken EXCEPT ![q] = Append(spoken[q], d)]
           \/ spoken' = spoken,
           NEW r \in Request, r \notin mixed
    PROVE  IsItsOwn(r)'
<1>1. spoken'[r] = spoken[r]
    BY DEF BusTypes
<1>2. /\ asked[r] \subseteq {r} /\ Tells(deltas[r], spoken[r])
      /\ \A s \in Session : \A i \in DOMAIN published[s] :
           published[s][i].by = r => s = SessionOf[r]
    BY DEF LoneTurnIsItsOwn
<1>. QED BY <1>1, <1>2 DEF IsItsOwn, Silent

LEMMA LoneKept ==
    ASSUME BusTypes, ControlTypes, ApartInv, SinkInv, ClientInv, LoneTurnIsItsOwn, Next
    PROVE  LoneTurnIsItsOwn'
<1>1. ASSUME Quiet, asked' = asked, mixed \subseteq mixed' PROVE LoneTurnIsItsOwn'
    BY <1>1 DEF Quiet, LoneTurnIsItsOwn
<1>2. ASSUME NEW r \in Request, AnswerFromMemory(r) \/ StartTurn(r) PROVE LoneTurnIsItsOwn'
  <2>1. asked' = asked /\ mixed \subseteq mixed'
    BY <1>2 DEF AnswerFromMemory, StartTurn, CallVars
  <2>. QED BY <1>1, <1>2, <2>1, QuietSteps DEF Arrive
<1>3. ASSUME NEW r \in Request, \/ EnterGraph(r) \/ LeaveGraph(r, "ending") \/ LeaveGraph(r, "failed")
                                \/ Reply(r) \/ Refuse(r) \/ Downgrade(r) \/ CallReturns(r)
      PROVE  LoneTurnIsItsOwn'
  <2>1. asked' = asked /\ mixed' = mixed
    BY <1>3 DEF EnterGraph, LeaveGraph, Reply, Refuse, Downgrade, CallReturns, CallVars
  <2>. QED BY <1>1, <1>3, <2>1, QuietSteps
<1>4. ASSUME NEW r \in Request, NEW n \in Node, Render(r, n) PROVE LoneTurnIsItsOwn'
  <2>1. /\ asked' = [asked EXCEPT ![r] = asked[r] \cup {llm}] /\ mixed' = mixed
        /\ asked \in [Request -> SUBSET Request]
    BY <1>4 DEF Render, ControlTypes
  <2>2. r \notin mixed => llm = r
    BY <1>4 DEF Render, ClientInv, Active
  <2>3. \A q \in Request \ mixed : asked'[q] \subseteq {q}
    BY <2>1, <2>2 DEF LoneTurnIsItsOwn
  <2>4. Quiet
    BY <1>4, QuietSteps
  <2>. QED BY <2>1, <2>3, <2>4 DEF LoneTurnIsItsOwn, Quiet
<1>5. ASSUME mixed' = mixed, \A r \in Request \ mixed : IsItsOwn(r)' PROVE LoneTurnIsItsOwn'
    BY <1>5 DEF LoneTurnIsItsOwn, IsItsOwn
<1>6. ASSUME NEW q \in Request, NEW kind \in {"text", "reset"}, SpeaksInCall(q, kind),
             asked' = asked, mixed' = mixed
      PROVE  LoneTurnIsItsOwn'
  <2>1. PICK d \in Delta :
          /\ d.kind = kind /\ spoken' = [spoken EXCEPT ![q] = Append(spoken[q], d)]
          /\ \/ Silent /\ q \in mixed
             \/ \E t \in Request : Spoke(q, t, d)
    BY <1>6 DEF SpeaksInCall
  <2>2. CASE Silent /\ q \in mixed
    BY <1>5, <1>6, <2>1, <2>2, SilenceKeepsOwn
  <2>3. ASSUME NEW t \in Request, Spoke(q, t, d) PROVE LoneTurnIsItsOwn'
    <3>1. d.kind # "done"
        BY <2>1
    <3>. QED BY <1>5, <1>6, <2>1, <2>3, <3>1, SpokeKeepsOwn
  <2>. QED BY <2>1, <2>2, <2>3
<1>7. ASSUME NEW r \in Request, Chunk(r) \/ Reject(r) PROVE LoneTurnIsItsOwn'
  <2>1. asked' = asked /\ mixed' = mixed
    BY <1>7 DEF Chunk, Reject, CallVars
  <2>. QED BY <1>6, <1>7, <2>1, ChunkSpeaks, RejectSpeaks
<1>8. ASSUME NEW q \in Request, CloseStream(q) PROVE LoneTurnIsItsOwn'
  <2>1. asked' = asked /\ mixed' = mixed /\ spoken' = spoken
    BY <1>8 DEF CloseStream
  <2>2. CASE Silent
    BY <1>5, <1>8, <2>1, <2>2, SilenceKeepsOwn
  <2>3. ASSUME NEW t \in Request, NEW d \in Delta, d.kind = "done", Spoke(q, t, d)
        PROVE  LoneTurnIsItsOwn'
    BY <1>5, <2>1, <2>3, SpokeKeepsOwn
  <2>. QED BY <1>8, <2>2, <2>3, CloseSpeaks
<1>9. CASE Tick
  <2>1. asked' = asked /\ mixed' = mixed /\ Quiet
    BY <1>9 DEF Tick, CallVars, StreamVars, Quiet
  <2>. QED BY <1>1, <2>1
<1>. QED BY <1>2, <1>3, <1>4, <1>7, <1>8, <1>9 DEF Next, Arrive, TurnStep

-----------------------------------------------------------------------------
(* What is on a screen.                                                    *)

LEMMA OnScreenAfter ==
    ASSUME BusTypes, NEW t \in Request, NEW d \in Delta, Appended(t, d)
    PROVE  /\ d.kind # "text" => OnScreen(SessionOf[t])' = {}
           /\ \A x \in OnScreen(SessionOf[t])' : x = d \/ x \in OnScreen(SessionOf[t])
           /\ \A s \in Session : s # SessionOf[t] => published'[s] = published[s]
<1> DEFINE s == SessionOf[t]
           old == published[s]
           new == published'[s]
<1>1. s \in Session /\ published \in [Session -> Seq(Delta)]
    BY SessionOfAssumption DEF BusTypes
<1>2. published' = [published EXCEPT ![s] = Append(old, d)]
    BY DEF Appended
<1>3. new = Append(old, d) /\ old \in Seq(Delta)
    BY <1>1, <1>2
<1>4. /\ new \in Seq(Delta) /\ Len(new) = Len(old) + 1 /\ Len(old) \in Nat
      /\ \A j \in 1..Len(old) : new[j] = old[j]
      /\ new[Len(old) + 1] = d
    BY <1>3, AppendProperties
<1>5. DOMAIN new = 1..Len(new) /\ DOMAIN old = 1..Len(old)
    BY <1>3, <1>4
<1>6. \A z \in Session : z # s => published'[z] = published[z]
    BY <1>1, <1>2
<1>7. OnScreen(s)' = {new[i] : i \in {i \in DOMAIN new : \A j \in i..Len(new) : new[j].kind = "text"}}
    BY DEF OnScreen
<1>8. OnScreen(s) = {old[i] : i \in {i \in DOMAIN old : \A j \in i..Len(old) : old[j].kind = "text"}}
    BY DEF OnScreen
<1> HIDE DEF new, old
<1>9. ASSUME d.kind # "text" PROVE OnScreen(s)' = {}
  <2>1. ASSUME NEW i \in DOMAIN new PROVE \E j \in i..Len(new) : new[j].kind # "text"
    <3>1. i \in 1..Len(new) /\ Len(new) \in Nat
        BY <1>4, <1>5
    <3>2. Len(new) \in i..Len(new)
        BY <3>1
    <3>3. new[Len(new)] = d
        BY <1>4
    <3>. QED BY <3>2, <3>3, <1>9
  <2>. QED BY <2>1, <1>7
<1>10. ASSUME NEW x \in OnScreen(s)' PROVE x = d \/ x \in OnScreen(s)
  <2>1. PICK i \in DOMAIN new : x = new[i] /\ \A j \in i..Len(new) : new[j].kind = "text"
    BY <1>7
  <2>2. i \in 1..Len(new) /\ Len(new) \in Nat
    BY <1>4, <1>5
  <2>3. CASE i = Len(new)
    BY <2>1, <2>3, <1>4
  <2>4. CASE i # Len(new)
    <3>1. i \in 1..Len(old) /\ i \in Nat
        BY <2>2, <2>4, <1>4
    <3>2. \A j \in i..Len(old) : j \in 1..Len(old) /\ j \in i..Len(new)
        BY <3>1, <1>4
    <3>3. \A j \in i..Len(old) : old[j].kind = "text"
        BY <3>2, <2>1, <1>4
    <3>4. x = old[i]
        BY <3>1, <2>1, <1>4
    <3>. QED BY <3>1, <3>3, <3>4, <1>5, <1>8
  <2>. QED BY <2>3, <2>4
<1>. QED BY <1>6, <1>9, <1>10

(* What a step of q's call leaves on the screen of a session where no      *)
(* mixed turn speaks.                                                      *)
LEMMA SpokeOnScreen ==
    ASSUME BusTypes, ScreenInv, NEW q \in Request, NEW t \in Request, NEW d \in Delta,
           Spoke(q, t, d), NEW s \in Session, Unmixed(s)
    PROVE  /\ \A i \in DOMAIN published'[s] : SessionOf[published'[s][i].by] = s
           /\ SessionOf[q] # s => /\ OnScreen(s)' = OnScreen(s)
                                  /\ \A x \in OnScreen(s) : x.by # q /\ chunks'[x.by] = chunks[x.by]
           /\ SessionOf[q] = s =>
                /\ d.kind # "text" => OnScreen(s)' = {}
                /\ d.kind = "text" => /\ chunks'[q][d.node] # <<>>
                                      /\ \A x \in OnScreen(s)' : x = d \/ x \in OnScreen(s)
                                      /\ \A x \in OnScreen(s) : chunks'[x.by][x.node] # <<>>
<1>1. Heard(q, t) /\ Appended(t, d) /\ d.by = q /\ d.node = node[q]
    BY EmitAppends DEF Spoke
<1>2. /\ \A i \in DOMAIN published[s] : SessionOf[published[s][i].by] = s
      /\ \A x \in OnScreen(s) : Streams(x)
    BY DEF ScreenInv
<1>3. /\ \A x \in OnScreen(s) : SessionOf[x.by] = s /\ x \in Delta
    BY <1>2 DEF OnScreen, BusTypes
<1>4. SessionOf[t] = s \/ SessionOf[q] = s => t = q
    BY <1>1 DEF Heard, Unmixed
<1>5. \A x \in OnScreen(s) : x.by \in Request /\ x.node \in Node
    BY <1>3, DeltaFields
<1>6. ASSUME NEW i \in DOMAIN published'[s] PROVE SessionOf[published'[s][i].by] = s
  <2>1. CASE i \in DOMAIN published[s] /\ published'[s][i] = published[s][i]
    BY <2>1, <1>2
  <2>2. CASE s = SessionOf[t] /\ published'[s][i] = d
    BY <2>2, <1>1, <1>4
  <2>. QED BY <1>1, <2>1, <2>2, PublishedAfter
<1>7. ASSUME SessionOf[q] # s
      PROVE  /\ OnScreen(s)' = OnScreen(s)
             /\ \A x \in OnScreen(s) : x.by # q /\ chunks'[x.by] = chunks[x.by]
  <2>1. SessionOf[t] # s
    BY <1>4, <1>7
  <2>2. published'[s] = published[s]
    BY <2>1, <1>1, OnScreenAfter
  <2>3. OnScreen(s)' = OnScreen(s)
    BY <2>2 DEF OnScreen
  <2>4. ASSUME NEW x \in OnScreen(s) PROVE x.by # q /\ chunks'[x.by] = chunks[x.by]
    <3>1. x.by # q /\ x.by # t /\ x.by \in Request
        BY <2>1, <1>3, <1>5, <1>7
    <3>. QED BY <3>1, <1>1 DEF Appended
  <2>. QED BY <2>3, <2>4
<1>8. ASSUME SessionOf[q] = s
      PROVE  /\ d.kind # "text" => OnScreen(s)' = {}
             /\ d.kind = "text" => /\ chunks'[q][d.node] # <<>>
                                   /\ \A x \in OnScreen(s)' : x = d \/ x \in OnScreen(s)
                                   /\ \A x \in OnScreen(s) : chunks'[x.by][x.node] # <<>>
  <2>1. t = q
    BY <1>4, <1>8
  <2>2. /\ d.kind # "text" => OnScreen(s)' = {}
        /\ \A x \in OnScreen(s)' : x = d \/ x \in OnScreen(s)
    BY <2>1, <1>1, <1>8, OnScreenAfter
  <2>3. ASSUME d.kind = "text" PROVE chunks'[q][d.node] # <<>>
    BY <2>1, <2>3, <1>1 DEF Appended
  <2>4. ASSUME d.kind = "text", NEW x \in OnScreen(s) PROVE chunks'[x.by][x.node] # <<>>
    <3>1. chunks[x.by][x.node] # <<>> /\ x.by \in Request /\ x.node \in Node
        BY <1>2, <1>5 DEF Streams
    <3>2. CASE x.by # q
        BY <3>1, <3>2, <2>1, <1>1 DEF Appended
    <3>3. CASE x.by = q /\ x.node # d.node
        BY <3>1, <3>3, <2>1, <2>4, <1>1 DEF Appended
    <3>4. CASE x.by = q /\ x.node = d.node
        BY <3>4, <2>3, <2>4
    <3>. QED BY <3>2, <3>3, <3>4
  <2>. QED BY <2>2, <2>3, <2>4
<1>. QED BY <1>6, <1>7, <1>8

(* A step that leaves the screens as they are and only moves a turn that   *)
(* is on none of them.                                                     *)
LEMMA QuietScreen ==
    ASSUME BusTypes, ControlTypes, ScreenInv, Quiet, mixed \subseteq mixed', NEW r \in Request,
           pc[r] \notin InNode,
           \A q \in Request : q # r => pc'[q] = pc[q] /\ streaming'[q] = streaming[q]
                                       /\ node'[q] = node[q]
    PROVE  ScreenInv'
<1>1. ASSUME NEW s \in Session, Unmixed(s)'
      PROVE  /\ \A i \in DOMAIN published'[s] : SessionOf[published'[s][i].by] = s
             /\ \A d \in OnScreen(s)' : Streams(d)'
  <2>1. Unmixed(s)
    BY <1>1 DEF Unmixed
  <2>2. published' = published /\ chunks' = chunks /\ OnScreen(s)' = OnScreen(s)
    BY DEF Quiet, OnScreen
  <2>3. \A i \in DOMAIN published'[s] : SessionOf[published'[s][i].by] = s
    BY <2>1, <2>2 DEF ScreenInv
  <2>4. ASSUME NEW d \in OnScreen(s) PROVE Streams(d)'
    <3>1. Streams(d)
        BY <2>1 DEF ScreenInv
    <3>2. d \in Delta
        BY DEF OnScreen, BusTypes
    <3>3. d.by \in Request /\ d.by # r
        BY <3>1, <3>2, DeltaFields DEF Streams
    <3>. QED BY <3>1, <3>3, <2>2 DEF Streams
  <2>. QED BY <2>2, <2>3, <2>4
<1>. QED BY <1>1 DEF ScreenInv

(* A step of q's call, from what it leaves on the screens.                 *)
LEMMA CallScreen ==
    ASSUME BusTypes, ControlTypes, ScreenInv, NEW q \in Request, mixed' = mixed,
           \A r \in Request : r # q => pc'[r] = pc[r] /\ streaming'[r] = streaming[r]
                                       /\ node'[r] = node[r],
           \A s \in Session : Unmixed(s) =>
             /\ \A i \in DOMAIN published'[s] : SessionOf[published'[s][i].by] = s
             /\ \A x \in OnScreen(s)' :
                  \/ Streams(x)'
                  \/ x \in OnScreen(s) /\ x.by # q /\ chunks'[x.by] = chunks[x.by]
    PROVE  ScreenInv'
<1>1. ASSUME NEW s \in Session, Unmixed(s), NEW x \in OnScreen(s), x.by # q,
             chunks'[x.by] = chunks[x.by]
      PROVE  Streams(x)'
  <2>1. Streams(x) /\ x \in Delta
    BY <1>1 DEF ScreenInv, OnScreen, BusTypes
  <2>2. x.by \in Request
    BY <2>1, DeltaFields
  <2>. QED BY <2>1, <2>2, <1>1 DEF Streams
<1>2. ASSUME NEW s \in Session, Unmixed(s)'
      PROVE  /\ \A i \in DOMAIN published'[s] : SessionOf[published'[s][i].by] = s
             /\ \A d \in OnScreen(s)' : Streams(d)'
  <2>1. Unmixed(s)
    BY <1>2 DEF Unmixed
  <2>. QED BY <2>1, <1>1
<1>. QED BY <1>2 DEF ScreenInv

LEMMA ChunkScreen ==
    ASSUME BusTypes, ControlTypes, ApartInv, SinkInv, ScreenInv, NEW q \in Request, Chunk(q)
    PROVE  ScreenInv'
<1>1. /\ pc' = pc /\ streaming' = streaming /\ node' = node /\ mixed' = mixed
      /\ pc[q] \in InNode /\ streaming[q]
    BY DEF Chunk, CallVars, InNode
<1>2. PICK d \in Delta : /\ d.kind = "text"
                         /\ \/ Silent /\ q \in mixed
                            \/ \E t \in Request : Spoke(q, t, d)
    BY ChunkSpeaks DEF SpeaksInCall
<1>3. CASE Silent
  <2>1. \A s \in Session : published'[s] = published[s] /\ OnScreen(s)' = OnScreen(s)
    BY <1>3 DEF Silent, OnScreen
  <2>. QED BY <1>1, <1>3, <2>1 DEF ScreenInv, Silent, Unmixed, Streams
<1>4. ASSUME NEW t \in Request, Spoke(q, t, d) PROVE ScreenInv'
  <2>1. d.by = q /\ d.node = node[q]
    BY <1>4 DEF Spoke
  <2>2. ASSUME NEW s \in Session, Unmixed(s), SessionOf[q] = s, NEW x \in OnScreen(s)'
        PROVE  Streams(x)'
    <3>1. /\ chunks'[q][d.node] # <<>>
          /\ x = d \/ x \in OnScreen(s)
          /\ x \in OnScreen(s) => chunks'[x.by][x.node] # <<>>
        BY <1>2, <1>4, <2>2, SpokeOnScreen
    <3>2. CASE x = d
        BY <3>1, <3>2, <2>1, <1>1 DEF Streams
    <3>3. CASE x \in OnScreen(s)
      <4>1. Streams(x)
        BY <3>3, <2>2 DEF ScreenInv
      <4>. QED BY <4>1, <3>1, <3>3, <1>1 DEF Streams
    <3>. QED BY <3>1, <3>2, <3>3
  <2>3. ASSUME NEW s \in Session, Unmixed(s)
        PROVE  /\ \A i \in DOMAIN published'[s] : SessionOf[published'[s][i].by] = s
               /\ \A x \in OnScreen(s)' :
                    \/ Streams(x)'
                    \/ x \in OnScreen(s) /\ x.by # q /\ chunks'[x.by] = chunks[x.by]
    BY <1>4, <2>2, <2>3, SpokeOnScreen
  <2>. QED BY <1>1, <2>3, CallScreen
<1>. QED BY <1>2, <1>3, <1>4

(* A rejection resets the screen.                                          *)
LEMMA RejectScreen ==
    ASSUME BusTypes, ControlTypes, ApartInv, SinkInv, ScreenInv, NEW q \in Request, Reject(q)
    PROVE  ScreenInv'
<1>1. /\ mixed' = mixed
      /\ \A r \in Request : r # q => pc'[r] = pc[r] /\ streaming'[r] = streaming[r]
                                     /\ node'[r] = node[r]
    BY DEF Reject, ControlTypes
<1>2. PICK d \in Delta : /\ d.kind = "reset"
                         /\ \/ Silent /\ q \in mixed
                            \/ \E t \in Request : Spoke(q, t, d)
    BY RejectSpeaks DEF SpeaksInCall
<1>3. ASSUME NEW s \in Session, Unmixed(s)
      PROVE  /\ \A i \in DOMAIN published'[s] : SessionOf[published'[s][i].by] = s
             /\ \A x \in OnScreen(s)' :
                  x \in OnScreen(s) /\ x.by # q /\ chunks'[x.by] = chunks[x.by]
  <2>1. CASE Silent /\ q \in mixed
    <3>1. published'[s] = published[s] /\ OnScreen(s)' = OnScreen(s) /\ chunks' = chunks
        BY <2>1 DEF Silent, OnScreen
    <3>2. \A i \in DOMAIN published[s] : SessionOf[published[s][i].by] = s
        BY <1>3 DEF ScreenInv
    <3>3. \A x \in OnScreen(s) : x.by # q
        BY <2>1, <3>2, <1>3 DEF OnScreen, Unmixed
    <3>. QED BY <3>1, <3>2, <3>3
  <2>2. ASSUME NEW t \in Request, Spoke(q, t, d)
        PROVE  /\ \A i \in DOMAIN published'[s] : SessionOf[published'[s][i].by] = s
               /\ \A x \in OnScreen(s)' :
                    x \in OnScreen(s) /\ x.by # q /\ chunks'[x.by] = chunks[x.by]
    <3>1. d.kind # "text"
        BY <1>2
    <3>. QED BY <1>3, <2>2, <3>1, SpokeOnScreen
  <2>. QED BY <1>2, <2>1, <2>2
<1>. QED BY <1>1, <1>3, CallScreen

(* So does the close of a stream, if anything of it is held.               *)
LEMMA CloseScreen ==
    ASSUME BusTypes, ControlTypes, ApartInv, SinkInv, ScreenInv, NEW q \in Request,
           CloseStream(q)
    PROVE  ScreenInv'
<1>1. /\ mixed' = mixed
      /\ \A r \in Request : r # q => pc'[r] = pc[r] /\ streaming'[r] = streaming[r]
                                     /\ node'[r] = node[r]
    BY DEF CloseStream, ControlTypes
<1>2. \/ Silent /\ (q \in mixed \/ chunks[q][node[q]] = <<>>)
      \/ \E t \in Request, d \in Delta : d.kind = "done" /\ Spoke(q, t, d)
    BY CloseSpeaks
<1>3. ASSUME NEW s \in Session, Unmixed(s)
      PROVE  /\ \A i \in DOMAIN published'[s] : SessionOf[published'[s][i].by] = s
             /\ \A x \in OnScreen(s)' :
                  x \in OnScreen(s) /\ x.by # q /\ chunks'[x.by] = chunks[x.by]
  <2>1. CASE Silent /\ (q \in mixed \/ chunks[q][node[q]] = <<>>)
    <3>1. published'[s] = published[s] /\ OnScreen(s)' = OnScreen(s) /\ chunks' = chunks
        BY <2>1 DEF Silent, OnScreen
    <3>2. \A i \in DOMAIN published[s] : SessionOf[published[s][i].by] = s
        BY <1>3 DEF ScreenInv
    <3>3. q \in mixed => \A x \in OnScreen(s) : x.by # q
        BY <3>2, <1>3 DEF OnScreen, Unmixed
    <3>4. chunks[q][node[q]] = <<>> => \A x \in OnScreen(s) : x.by # q
      <4>1. \A x \in OnScreen(s) : node[x.by] = x.node /\ chunks[x.by][x.node] # <<>>
        BY <1>3 DEF ScreenInv, Streams
      <4>. QED BY <4>1
    <3>. QED BY <2>1, <3>1, <3>2, <3>3, <3>4
  <2>2. ASSUME NEW t \in Request, NEW d \in Delta, d.kind = "done", Spoke(q, t, d)
        PROVE  /\ \A i \in DOMAIN published'[s] : SessionOf[published'[s][i].by] = s
               /\ \A x \in OnScreen(s)' :
                    x \in OnScreen(s) /\ x.by # q /\ chunks'[x.by] = chunks[x.by]
    <3>1. d.kind # "text"
        BY <2>2
    <3>. QED BY <1>3, <2>2, <3>1, SpokeOnScreen
  <2>. QED BY <1>2, <2>1, <2>2
<1>. QED BY <1>1, <1>3, CallScreen

LEMMA ScreenKept ==
    ASSUME BusTypes, ControlTypes, ApartInv, SinkInv, ScreenInv, Next
    PROVE  ScreenInv'
<1>1. ASSUME NEW r \in Request,
             \/ Arrive(r) \/ EnterGraph(r) \/ LeaveGraph(r, "ending") \/ LeaveGraph(r, "failed")
             \/ Reply(r) \/ Refuse(r) \/ \E n \in Node : Render(r, n)
      PROVE  ScreenInv'
  <2>1. Quiet
    BY <1>1, QuietSteps
  <2>2. /\ mixed \subseteq mixed' /\ pc[r] \notin InNode
        /\ \A q \in Request : q # r => pc'[q] = pc[q] /\ streaming'[q] = streaming[q]
                                       /\ node'[q] = node[q]
    BY <1>1 DEF Arrive, AnswerFromMemory, StartTurn, EnterGraph, LeaveGraph, Reply, Refuse,
                Render, CallVars, InNode, ControlTypes
  <2>. QED BY <2>1, <2>2, QuietScreen
<1>2. ASSUME Quiet, mixed' = mixed, UNCHANGED <<streaming, node>>,
             \A r \in Request : pc[r] \in InNode => pc'[r] \in InNode
      PROVE  ScreenInv'
  <2>1. ASSUME NEW s \in Session, Unmixed(s)
        PROVE  /\ \A i \in DOMAIN published'[s] : SessionOf[published'[s][i].by] = s
               /\ \A d \in OnScreen(s)' : Streams(d)'
    <3>1. published' = published /\ chunks' = chunks /\ OnScreen(s)' = OnScreen(s)
        BY <1>2 DEF Quiet, OnScreen
    <3>2. \A d \in OnScreen(s) : Streams(d) /\ d \in Delta
        BY <2>1 DEF ScreenInv, OnScreen, BusTypes
    <3>3. \A d \in OnScreen(s) : d.by \in Request
        BY <3>2, DeltaFields
    <3>4. \A i \in DOMAIN published'[s] : SessionOf[published'[s][i].by] = s
        BY <3>1, <2>1 DEF ScreenInv
    <3>5. \A d \in OnScreen(s) : Streams(d)'
        BY <3>1, <3>2, <3>3, <1>2 DEF Streams
    <3>. QED BY <3>1, <3>4, <3>5
  <2>. QED BY <2>1, <1>2 DEF ScreenInv, Unmixed
<1>3. ASSUME NEW r \in Request, Downgrade(r) \/ CallReturns(r) PROVE ScreenInv'
  <2>1. Quiet
    BY <1>3, QuietSteps
  <2>2. /\ mixed' = mixed /\ UNCHANGED <<streaming, node>>
        /\ \A q \in Request : pc[q] \in InNode => pc'[q] \in InNode
    BY <1>3 DEF Downgrade, CallReturns, CallVars, InNode, ControlTypes
  <2>. QED BY <2>1, <2>2, <1>2
<1>4. CASE Tick
    BY <1>2, <1>4 DEF Tick, CallVars, StreamVars, Quiet
<1>. QED BY <1>1, <1>3, <1>4, ChunkScreen, RejectScreen, CloseScreen DEF Next, TurnStep

-----------------------------------------------------------------------------
(* What a repetition finds.                                                *)

LEMMA MemoryKept ==
    ASSUME ControlTypes, MemoryTypes, MemoryInv, Next
    PROVE  MemoryInv'
<1>1. /\ now \in Nat /\ Window \in Nat /\ \A q \in Request : answeredAt[q] \in Nat
      /\ \A e \in seen : e.at \in Nat /\ e.result \in Request
    BY Bounds DEF MemoryTypes
<1>2. ASSUME now' = now, answeredAt' = answeredAt,
             \A e \in seen' : e \in Kept \/ (e.at = now /\ pc'[e.result] # "new"),
             \A q \in Request : pc[q] # "new" => pc'[q] # "new",
             \A q \in Request : result'[q] = q => result[q] = q,
             \A e \in Kept : e \in seen' \/ \E f \in seen' : f.id = e.id /\ f.at = now
      PROVE  MemoryInv'
  <2>1. \A e \in Kept : e \in seen
    BY DEF Kept
  <2>2. \A e \in seen' : e.at <= now /\ pc'[e.result] # "new"
    BY <1>1, <1>2, <2>1 DEF MemoryInv
  <2>3. ASSUME NEW q \in Request, result'[q] = q, Named(q)
        PROVE  Remembered(q)' \/ now' - answeredAt'[q] > Window
    <3>1. Remembered(q) \/ now - answeredAt[q] > Window
        BY <2>3, <1>2 DEF MemoryInv
    <3>2. ASSUME NEW e \in seen, e.id = IdOf[q], e.at >= answeredAt[q]
          PROVE  Remembered(q)' \/ now' - answeredAt'[q] > Window
      <4>1. answeredAt[q] \in Nat /\ e.at \in Nat /\ now \in Nat /\ Window \in Nat
            /\ answeredAt[q] <= now /\ e.at >= answeredAt[q]
        BY <1>1, <3>2 DEF MemoryInv
      <4>2. CASE now - e.at > Window
        <5>1. now - answeredAt[q] > Window
            BY <4>1, <4>2
        <5>. QED BY <5>1, <1>2
      <4>3. CASE ~(now - e.at > Window)
        <5>1. e \in Kept
            BY <4>1, <4>3, <3>2 DEF Kept
        <5>2. PICK f \in seen' : f.id = IdOf[q] /\ (f = e \/ f.at = now)
            BY <5>1, <3>2, <1>2
        <5>3. f.at >= answeredAt'[q]
            BY <4>1, <5>2, <1>2
        <5>. QED BY <5>2, <5>3 DEF Remembered
      <4>. QED BY <4>2, <4>3
    <3>. QED BY <3>1, <3>2, <1>2 DEF Remembered
  <2>. QED BY <2>2, <2>3, <1>2 DEF MemoryInv, Named
<1>3. ASSUME MemoryUnchanged, \A q \in Request : pc[q] # "new" => pc'[q] # "new"
      PROVE  MemoryInv'
    BY <1>1, <1>3 DEF MemoryUnchanged, MemoryInv, Remembered
<1>4. ASSUME NEW r \in Request, AnswerFromMemory(r) PROVE MemoryInv'
  <2>1. PICK e \in Kept : result' = [result EXCEPT ![r] = e.result]
    BY <1>4 DEF AnswerFromMemory
  <2>2. e \in seen /\ pc[e.result] # "new"
    BY DEF Kept, MemoryInv
  <2>3. e.result # r
    BY <2>2, <1>4 DEF AnswerFromMemory
  <2>4. \A q \in Request : result'[q] = q => result[q] = q
    BY <2>1, <2>3 DEF MemoryTypes
  <2>5. \A q \in Request : pc[q] # "new" => pc'[q] # "new"
    BY <1>4 DEF AnswerFromMemory, ControlTypes
  <2>6. now' = now /\ answeredAt' = answeredAt /\ seen' = Kept
    BY <1>4 DEF AnswerFromMemory
  <2>. QED BY <2>4, <2>5, <2>6, <1>2
<1>5. ASSUME NEW r \in Request, StartTurn(r) PROVE MemoryInv'
  <2>1. \A q \in Request : pc[q] # "new" => pc'[q] # "new"
    BY <1>5 DEF StartTurn, ControlTypes
  <2>2. CASE Named(r)
    BY <2>1, <2>2, <1>2, <1>5 DEF StartTurn
  <2>3. CASE ~Named(r)
    <3>1. MemoryUnchanged
        BY <2>3, <1>5 DEF StartTurn, MemoryUnchanged
    <3>. QED BY <2>1, <3>1, <1>3
  <2>. QED BY <2>2, <2>3
<1>6. ASSUME NEW r \in Request, Reply(r) PROVE MemoryInv'
  <2>1. /\ now' = now /\ answeredAt' = [answeredAt EXCEPT ![r] = now]
        /\ result' = [result EXCEPT ![r] = r]
        /\ pc' = [pc EXCEPT ![r] = "answered"]
    BY <1>6 DEF Reply
  <2>2. \A q \in Request : pc'[q] # "new" <=> q = r \/ pc[q] # "new"
    BY <2>1, <1>6 DEF ControlTypes, Reply
  <2>3. \A q \in Request : answeredAt'[q] = IF q = r THEN now ELSE answeredAt[q]
    BY <2>1 DEF MemoryTypes
  <2>4. \A q \in Request : q # r => result'[q] = result[q]
    BY <2>1 DEF MemoryTypes
  <2>5. \A e \in Kept : e \in seen
    BY DEF Kept
  <2>6. CASE ~Named(r)
    <3>1. seen' = seen
        BY <2>6, <1>6 DEF Reply, Remember
    <3>2. \A e \in seen' : e.at <= now' /\ pc'[e.result] # "new"
        BY <3>1, <2>1, <2>2, <1>1 DEF MemoryInv
    <3>3. \A q \in Request : answeredAt'[q] <= now'
        BY <2>1, <2>3, <1>1 DEF MemoryInv
    <3>4. ASSUME NEW q \in Request, result'[q] = q, Named(q)
          PROVE  Remembered(q)' \/ now' - answeredAt'[q] > Window
      <4>1. q # r
        BY <2>6, <3>4
      <4>2. result[q] = q /\ answeredAt'[q] = answeredAt[q]
        BY <4>1, <2>3, <2>4, <3>4
      <4>. QED BY <4>2, <3>1, <3>4, <2>1 DEF MemoryInv, Remembered
    <3>. QED BY <3>2, <3>3, <3>4 DEF MemoryInv, Named
  <2>7. CASE Named(r)
    <3> DEFINE new == [id |-> IdOf[r], at |-> now, result |-> r]
    <3>1. seen' = {e \in Kept : e.id # IdOf[r]} \cup {new}
        BY <2>7, <1>6 DEF Reply, Remember
    <3>2. new.id = IdOf[r] /\ new.at = now /\ new.result = r
        OBVIOUS
    <3> HIDE DEF new
    <3>3. \A e \in seen' : e.at <= now' /\ pc'[e.result] # "new"
        BY <3>1, <3>2, <2>1, <2>2, <2>5, <1>1 DEF MemoryInv
    <3>4. \A q \in Request : answeredAt'[q] <= now'
        BY <2>1, <2>3, <1>1 DEF MemoryInv
    <3>5. ASSUME NEW q \in Request, result'[q] = q, Named(q)
          PROVE  Remembered(q)' \/ now' - answeredAt'[q] > Window
      <4>1. CASE IdOf[q] = IdOf[r]
        <5>1. answeredAt'[q] <= now
            BY <3>4, <2>1
        <5>2. answeredAt'[q] \in Nat /\ now \in Nat
            BY <2>3, <1>1
        <5>3. new.at >= answeredAt'[q]
            BY <5>1, <5>2, <3>2
        <5>. QED BY <5>3, <4>1, <3>1, <3>2 DEF Remembered
      <4>2. CASE IdOf[q] # IdOf[r]
        <5>1. q # r
            BY <4>2
        <5>2. result[q] = q /\ answeredAt'[q] = answeredAt[q]
            BY <5>1, <2>3, <2>4, <3>5
        <5>3. Remembered(q) \/ now - answeredAt[q] > Window
            BY <5>2, <3>5 DEF MemoryInv
        <5>4. ASSUME NEW e \in seen, e.id = IdOf[q], e.at >= answeredAt[q]
              PROVE  Remembered(q)' \/ now' - answeredAt'[q] > Window
          <6>1. answeredAt[q] \in Nat /\ e.at \in Nat /\ now \in Nat /\ Window \in Nat
                /\ answeredAt[q] <= now /\ e.at >= answeredAt[q]
            BY <1>1, <5>4 DEF MemoryInv
          <6>2. CASE now - e.at > Window
            <7>1. now - answeredAt[q] > Window
                BY <6>1, <6>2
            <7>. QED BY <7>1, <5>2, <2>1
          <6>3. CASE ~(now - e.at > Window)
            <7>1. e \in Kept
                BY <6>1, <6>3, <5>4 DEF Kept
            <7>2. e \in seen'
                BY <7>1, <3>1, <4>2, <5>4
            <7>. QED BY <7>2, <5>2, <5>4 DEF Remembered
          <6>. QED BY <6>2, <6>3
        <5>. QED BY <5>2, <5>3, <5>4, <2>1 DEF Remembered
      <4>. QED BY <4>1, <4>2
    <3>. QED BY <3>3, <3>4, <3>5 DEF MemoryInv, Named
  <2>. QED BY <2>6, <2>7
<1>7. CASE Tick
  <2>1. now' = now + 1 /\ UNCHANGED <<pc, seen, result, answeredAt>>
    BY <1>7 DEF Tick
  <2>2. \A q \in Request : now - answeredAt[q] > Window => now' - answeredAt[q] > Window
    BY <2>1, <1>1
  <2>3. /\ \A e \in seen : e.at <= now => e.at <= now'
        /\ \A q \in Request : answeredAt[q] <= now => answeredAt[q] <= now'
    BY <2>1, <1>1
  <2>. QED BY <2>1, <2>2, <2>3 DEF MemoryInv, Remembered
<1>8. ASSUME NEW r \in Request, TurnStep(r) \/ CloseStream(r), ~Reply(r) PROVE MemoryInv'
  <2>1. MemoryUnchanged
    BY <1>8 DEF TurnStep, EnterGraph, LeaveGraph, Refuse, Render, Chunk, Downgrade, Reject,
                CallReturns, CloseStream, DedupVars, MemoryUnchanged
  <2>2. \A q \in Request : pc[q] # "new" => pc'[q] # "new"
    BY <1>8 DEF TurnStep, EnterGraph, LeaveGraph, Refuse, Render, Chunk, Downgrade, Reject,
                CallReturns, CloseStream, ControlTypes
  <2>. QED BY <2>1, <2>2, <1>3
<1>. QED BY <1>4, <1>5, <1>6, <1>7, <1>8 DEF Next, Arrive

-----------------------------------------------------------------------------
(* The theorems.                                                           *)

LEMMA Initially == Init => Inv
<1> SUFFICES ASSUME Init PROVE Inv
    OBVIOUS
<1>1. BusTypes
    BY DEF Init, BusTypes
<1>2. ControlTypes
  <2>1. streaming \in [Request -> BOOLEAN]
    <3>1. streaming = [r \in Request |-> FALSE]
        BY DEF Init
    <3>. QED BY <3>1, Zenon
  <2>. QED BY <2>1, Bounds DEF Init, ControlTypes, InNode, Active
<1>3. MemoryTypes
    BY Bounds DEF Init, MemoryTypes
<1>4. ApartInv /\ SinkInv /\ ClientInv /\ NoSinkBetweenTurns
    BY NoRequestAssumption
       DEF Init, ApartInv, SinkInv, ClientInv, NoSinkBetweenTurns, InNode, InGraph, Active
<1>5. LoneTurnIsItsOwn
  <2>1. Told(<<>>) = {}
    BY DEF Told
  <2>2. Tells(<<>>, <<>>)
    BY <2>1, FS_EmptySet DEF Tells
  <2>. QED BY <2>2 DEF Init, LoneTurnIsItsOwn
<1>6. ScreenInv
  <2>1. \A s \in Session : published[s] = <<>>
    BY DEF Init
  <2>. QED BY <2>1 DEF ScreenInv, OnScreen
<1>7. MemoryInv
  <2>1. \A q \in Request : result[q] # q /\ answeredAt[q] = 0 /\ now = 0 /\ seen = {}
    BY NoRequestAssumption DEF Init
  <2>2. seen = {}
    BY DEF Init
  <2>. QED BY <2>1, <2>2 DEF MemoryInv
<1>. QED BY <1>1, <1>2, <1>3, <1>4, <1>5, <1>6, <1>7 DEF Inv

LEMMA Steps == Inv /\ [Next]_vars => Inv'
<1> SUFFICES ASSUME Inv, [Next]_vars PROVE Inv'
    OBVIOUS
<1>1. CASE Next
  <2>1. BusTypes'
    <3>1. ASSUME NEW r \in Request, Chunk(r) \/ Reject(r) \/ CloseStream(r) PROVE BusTypes'
        BY <3>1, BusTypesKept, ChunkSpeaks, RejectSpeaks, CloseSpeaks DEF Inv
    <3>2. ASSUME NEW r \in Request,
                 \/ Arrive(r) \/ EnterGraph(r) \/ LeaveGraph(r, "ending") \/ LeaveGraph(r, "failed")
                 \/ Reply(r) \/ Refuse(r) \/ \E n \in Node : Render(r, n)
                 \/ Downgrade(r) \/ CallReturns(r)
          PROVE  BusTypes'
        BY <3>2, BusTypesKept, QuietSteps DEF Inv
    <3>3. Tick => Quiet
        BY DEF Tick, StreamVars, Quiet
    <3>. QED BY <1>1, <3>1, <3>2, <3>3, BusTypesKept DEF Inv, Next, TurnStep
  <2>. QED BY <1>1, <2>1, ControlTypesKept, MemoryTypesKept, ApartKept, SinkKept, ClientKept,
              NoSinkKept, LoneKept, ScreenKept, MemoryKept DEF Inv
<1>2. CASE UNCHANGED vars
  <2>1. /\ UNCHANGED <<published, pc, now, seen, result, llm, deltaSink, chunks, deltas, node>>
        /\ UNCHANGED <<visited, sink, try, streaming, spoken, asked, mixed, answeredAt>>
    BY <1>2 DEF vars
  <2>2. BusTypes' /\ ControlTypes' /\ MemoryTypes'
    BY <2>1 DEF Inv, BusTypes, ControlTypes, MemoryTypes
  <2>3. ApartInv' /\ SinkInv' /\ ClientInv' /\ NoSinkBetweenTurns'
    BY <2>1 DEF Inv, ApartInv, SinkInv, ClientInv, NoSinkBetweenTurns
  <2>4. LoneTurnIsItsOwn'
    BY <2>1 DEF Inv, LoneTurnIsItsOwn
  <2>5. ScreenInv'
    BY <2>1 DEF Inv, ScreenInv, OnScreen, Streams, Unmixed
  <2>6. MemoryInv'
    BY <2>1 DEF Inv, MemoryInv, Remembered
  <2>. QED BY <2>2, <2>3, <2>4, <2>5, <2>6 DEF Inv
<1>. QED BY <1>1, <1>2

(* The invariant holds in every state of the API.                          *)
THEOREM Invariant == Spec => []Inv
BY Initially, Steps, PTL DEF Spec

(* The shared slot is nobody's between turns, and a turn that runs alone   *)
(* calls its own client and returns and publishes what its own model said: *)
(* _drive's sink in deps.extras, stream_callback and close_stream, however *)
(* the turns before it entered, failed and left.                           *)
THEOREM SinkAlwaysTheTurns == Spec => []SinkIsTheTurns
<1>1. Inv => SinkIsTheTurns
    BY DEF Inv, SinkIsTheTurns, TypeOK, BusTypes, ControlTypes, MemoryTypes
<1>. QED BY Invariant, <1>1, PTL

(* A client of a session in which no turn was mixed is left with no text   *)
(* of an answer that was rejected or is complete.                          *)
THEOREM NothingStaleEver == Spec => []NothingStaleOnScreen
<1>1. Inv => NothingStaleOnScreen
    BY DEF Inv, ScreenInv, NothingStaleOnScreen, Unmixed, Streams, InNode
<1>. QED BY Invariant, <1>1, PTL

(* A repeated request runs no second turn within the window of the first   *)
(* one's answer: RequestDedup's get and put, whatever else it remembered   *)
(* or dropped meanwhile.                                                   *)
THEOREM RetriesRunNothing == Spec => RetryRunsNothing
<1>1. ASSUME Inv, [Next]_vars, NEW r \in Request, NEW q \in Request,
             pc[r] = "new", pc'[r] = "starting", Named(r), IdOf[q] = IdOf[r], result[q] = q
      PROVE  now - answeredAt[q] > Window
  <2>1. StartTurn(r)
    <3>1. pc' # pc
        BY <1>1
    <3>2. ASSUME NEW p \in Request,
                 AnswerFromMemory(p) \/ TurnStep(p) \/ CloseStream(p) \/ (StartTurn(p) /\ p # r)
          PROVE  FALSE
        BY <1>1, <3>2 DEF Inv, ControlTypes, AnswerFromMemory, TurnStep, EnterGraph, LeaveGraph,
                          Reply, Refuse, Render, Chunk, Downgrade, Reject, CallReturns,
                          CloseStream, StartTurn
    <3>3. ~Tick
        BY <3>1 DEF Tick
    <3>. QED BY <1>1, <3>1, <3>2, <3>3 DEF Next, Arrive, vars
  <2>2. /\ MemoryTypes /\ MemoryInv /\ Window \in Nat
    BY <1>1, Bounds DEF Inv
  <2>3. Remembered(q) \/ now - answeredAt[q] > Window
    BY <1>1, <2>2 DEF MemoryInv, Named
  <2>4. ASSUME NEW e \in seen, e.id = IdOf[q], e.at >= answeredAt[q]
        PROVE  now - answeredAt[q] > Window
    <3>1. e \notin Kept
        BY <1>1, <2>1, <2>4 DEF StartTurn
    <3>2. e.at \in Nat /\ now \in Nat /\ answeredAt[q] \in Nat
        BY <2>2 DEF MemoryTypes
    <3>3. now - e.at > Window
        BY <3>1, <3>2, <2>2, <2>4 DEF Kept
    <3>. QED BY <3>2, <3>3, <2>2, <2>4
  <2>. QED BY <2>3, <2>4 DEF Remembered
<1>2. Inv /\ [Next]_vars =>
        [\A r, q \in Request :
           /\ pc[r] = "new" /\ pc'[r] = "starting"
           /\ Named(r) /\ IdOf[q] = IdOf[r] /\ result[q] = q
           => now - answeredAt[q] > Window]_vars
    BY <1>1
<1>. QED BY Invariant, <1>2, PTL DEF Spec, RetryRunsNothing

=============================================================================
