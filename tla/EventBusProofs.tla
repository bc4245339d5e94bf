---------------------------- MODULE EventBusProofs ----------------------------
(****************************************************************************)
(* Theorems of EventBus, for any sessions, streams, queue size, retention   *)
(* and length of the log.  The inductive invariant Inv says of each stream  *)
(* what its queue is, the end of its session's log, and that what it was    *)
(* sent lies between its subscription and that queue.                       *)
(****************************************************************************)
EXTENDS EventBus, SequenceTheorems, FiniteSetTheorems, TLAPS

\* The event that publish makes of the i-th payload of a log.
EventAt(l, i) == [id |-> i, data |-> l[i]]

\* A queue holds the latest events of its log, none from before position j.
QueueHolds(l, q, j) ==
  /\ j + Len(q) <= Len(l)
  /\ \A i \in DOMAIN q : q[i] = EventAt(l, Len(l) - Len(q) + i)

\* What was sent is in order, and comes after j and before the queue.
GotHolds(l, q, g, j) ==
  /\ \A i \in DOMAIN g : /\ g[i].id \in (j + 1)..(Len(l) - Len(q))
                         /\ g[i].data = l[g[i].id]
  /\ \A m, n \in DOMAIN g : m < n => g[m].id < g[n].id

\* A stream that is away follows nothing; what follows nothing has no queue;
\* and nothing is sent before the snapshot, as nothing is replayed.
PlaceInv ==
  \A r \in Reader :
    /\ place[r] = "away" => ~follows[r]
    /\ ~follows[r] => queue[r] = <<>>
    /\ place[r] \in {"away", "open"} => got[r] = <<>>
    /\ place[r] = "live" => follows[r]

ReaderInv ==
  \A r \in Reader :
    /\ QueueHolds(log[Watches[r]], queue[r], joined[r])
    /\ GotHolds(log[Watches[r]], queue[r], got[r], joined[r])

Inv == TypeOK /\ PlaceInv /\ ReaderInv

-----------------------------------------------------------------------------
(* Queues.                                                                  *)

\* Whether or not the oldest event makes room, the queue that an event is
\* fanned out to stays within its size and the end of the log.
LEMMA FanoutKeeps ==
  ASSUME NEW l \in Seq(Payload), NEW q \in Seq(Event), NEW j \in Nat, NEW d \in Payload,
         Len(q) <= QueueSize, QueueHolds(l, q, j)
  PROVE  LET e == [id |-> Len(l) + 1, data |-> d]
         IN  /\ Fanout(q, e) \in Seq(Event)
             /\ Len(Fanout(q, e)) = IF Len(q) < QueueSize THEN Len(q) + 1 ELSE Len(q)
             /\ QueueHolds(Append(l, d), Fanout(q, e), j)
<1> DEFINE e == [id |-> Len(l) + 1, data |-> d]
           m == Append(l, d)
<1>1. /\ Len(l) \in Nat /\ Len(q) \in Nat /\ QueueSize \in Nat \ {0}
      /\ DOMAIN q = 1..Len(q) /\ DOMAIN l = 1..Len(l)
  BY SizesAssumption, LenProperties
<1>2. /\ Len(m) = Len(l) + 1 /\ m[Len(l) + 1] = d
      /\ \A i \in 1..Len(l) : m[i] = l[i]
  BY AppendProperties
<1>3. e \in Event
  BY <1>1 DEF Event
<1>4. CASE Len(q) < QueueSize
  <2>1. Fanout(q, e) = Append(q, e)
    BY <1>4 DEF Fanout
  <2>2. /\ Append(q, e) \in Seq(Event) /\ Len(Append(q, e)) = Len(q) + 1
        /\ \A i \in 1..Len(q) : Append(q, e)[i] = q[i]
        /\ Append(q, e)[Len(q) + 1] = e
        /\ DOMAIN Append(q, e) = 1..(Len(q) + 1)
    BY <1>3, AppendProperties, LenProperties
  <2> HIDE DEF m, e
  <2>3. ASSUME NEW i \in 1..(Len(q) + 1)
        PROVE  Append(q, e)[i] = EventAt(m, Len(m) - Len(Append(q, e)) + i)
    <3>1. CASE i = Len(q) + 1
      BY <3>1, <1>1, <1>2, <2>2 DEF EventAt, e
    <3>2. CASE i \in 1..Len(q)
      <4>1. Append(q, e)[i] = EventAt(l, Len(l) - Len(q) + i)
        BY <3>2, <1>1, <2>2 DEF QueueHolds
      <4>2. Len(l) - Len(q) + i \in 1..Len(l)
        BY <3>2, <1>1 DEF QueueHolds
      <4>3. Len(m) - Len(Append(q, e)) + i = Len(l) - Len(q) + i
        BY <1>1, <1>2, <2>2
      <4> QED  BY <4>1, <4>2, <4>3, <1>2 DEF EventAt
    <3> QED  BY <3>1, <3>2, <1>1
  <2>4. QueueHolds(m, Append(q, e), j)
    BY <2>2, <2>3, <1>1, <1>2 DEF QueueHolds
  <2> QED  BY <1>4, <2>1, <2>2, <2>4 DEF m, e
<1>5. CASE ~(Len(q) < QueueSize)
  <2> DEFINE t == Append(Tail(q), e)
  <2>1. Fanout(q, e) = t
    BY <1>5 DEF Fanout
  <2>2. q # <<>>
    BY <1>1, <1>5, EmptySeq
  <2>3. /\ Tail(q) \in Seq(Event) /\ Len(Tail(q)) = Len(q) - 1
        /\ \A i \in 1..Len(Tail(q)) : Tail(q)[i] = q[i + 1]
    BY <2>2, HeadTailProperties
  <2>4. /\ t \in Seq(Event) /\ Len(t) = Len(q)
        /\ \A i \in 1..(Len(q) - 1) : t[i] = q[i + 1]
        /\ t[Len(q)] = e /\ DOMAIN t = 1..Len(q)
    <3>1. /\ t \in Seq(Event) /\ Len(t) = Len(Tail(q)) + 1
          /\ \A i \in 1..Len(Tail(q)) : t[i] = Tail(q)[i]
          /\ t[Len(Tail(q)) + 1] = e
      BY <1>3, <2>3, AppendProperties
    <3> HIDE DEF t
    <3> QED  BY <3>1, <2>3, <1>1, LenProperties
  <2> HIDE DEF m, e, t
  <2>5. ASSUME NEW i \in 1..Len(q)
        PROVE  t[i] = EventAt(m, Len(m) - Len(t) + i)
    <3>1. CASE i = Len(q)
      BY <3>1, <1>1, <1>2, <2>4 DEF EventAt, e
    <3>2. CASE i \in 1..(Len(q) - 1)
      <4>1. t[i] = EventAt(l, Len(l) - Len(q) + (i + 1))
        BY <3>2, <1>1, <2>4 DEF QueueHolds
      <4>2. Len(l) - Len(q) + (i + 1) \in 1..Len(l)
        BY <3>2, <1>1 DEF QueueHolds
      <4>3. Len(m) - Len(t) + i = Len(l) - Len(q) + (i + 1)
        BY <1>1, <1>2, <2>4
      <4> QED  BY <4>1, <4>2, <4>3, <1>2 DEF EventAt
    <3>3. i = Len(q) \/ i \in 1..(Len(q) - 1)
      <4> DEFINE k == Len(q)
      <4>1. k \in Nat /\ i \in 1..k
        BY <1>1
      <4> HIDE DEF k
      <4>2. i = k \/ i \in 1..(k - 1)
        BY <4>1
      <4> QED  BY <4>2 DEF k
    <3> QED  BY <3>1, <3>2, <3>3
  <2>6. QueueHolds(m, t, j)
    BY <2>4, <2>5, <1>1, <1>2 DEF QueueHolds
  <2> QED  BY <1>5, <2>1, <2>4, <2>6 DEF m, e
<1> QED  BY <1>4, <1>5

\* What was sent stays right when the log and the queue move on.
LEMMA GotStays ==
  ASSUME NEW l \in Seq(Payload), NEW q \in Seq(Event), NEW g \in Seq(Event), NEW j \in Nat,
         NEW d \in Payload, NEW p \in Seq(Event),
         Len(p) <= Len(q) + 1, GotHolds(l, q, g, j), j + Len(q) <= Len(l)
  PROVE  GotHolds(Append(l, d), p, g, j)
<1> DEFINE m == Append(l, d)
<1>1. /\ Len(m) = Len(l) + 1 /\ \A i \in 1..Len(l) : m[i] = l[i]
      /\ Len(l) \in Nat /\ Len(q) \in Nat /\ Len(p) \in Nat
  BY AppendProperties, LenProperties
<1> HIDE DEF m
<1>2. ASSUME NEW i \in DOMAIN g
      PROVE  g[i].id \in (j + 1)..(Len(m) - Len(p)) /\ g[i].data = m[g[i].id]
  <2>1. g[i].id \in (j + 1)..(Len(l) - Len(q)) /\ g[i].data = l[g[i].id]
    BY DEF GotHolds
  <2>2. g[i].id \in 1..Len(l) /\ g[i].id \in (j + 1)..(Len(m) - Len(p))
    BY <2>1, <1>1
  <2> QED  BY <2>1, <2>2, <1>1
<1> QED  BY <1>2 DEF GotHolds, m

\* The head of the queue is the next event to send.
LEMMA DeliverKeeps ==
  ASSUME NEW l \in Seq(Payload), NEW q \in Seq(Event), NEW g \in Seq(Event), NEW j \in Nat,
         q # <<>>, QueueHolds(l, q, j), GotHolds(l, q, g, j)
  PROVE  /\ QueueHolds(l, Tail(q), j)
         /\ GotHolds(l, Tail(q), Append(g, Head(q)), j)
<1> DEFINE t == Tail(q)
           h == Append(g, Head(q))
<1>1. /\ t \in Seq(Event) /\ Len(t) = Len(q) - 1 /\ Len(q) > 0
      /\ \A i \in 1..Len(t) : t[i] = q[i + 1]
      /\ Head(q) = q[1] /\ Head(q) \in Event
      /\ Len(l) \in Nat /\ Len(q) \in Nat /\ DOMAIN q = 1..Len(q) /\ DOMAIN t = 1..Len(t)
  BY HeadTailProperties, LenProperties, EmptySeq
<1>2. /\ h \in Seq(Event) /\ DOMAIN h = 1..(Len(g) + 1)
      /\ \A i \in 1..Len(g) : h[i] = g[i]
      /\ h[Len(g) + 1] = Head(q)
      /\ DOMAIN g = 1..Len(g) /\ Len(g) \in Nat
  BY <1>1, AppendProperties, LenProperties
<1>3. Head(q) = EventAt(l, Len(l) - Len(q) + 1)
  BY <1>1 DEF QueueHolds
<1> HIDE DEF t, h
<1>4. QueueHolds(l, t, j)
  <2>1. ASSUME NEW i \in DOMAIN t
        PROVE  t[i] = EventAt(l, Len(l) - Len(t) + i)
    <3>1. i + 1 \in DOMAIN q /\ Len(l) - Len(q) + (i + 1) = Len(l) - Len(t) + i
      BY <1>1
    <3>2. q[i + 1] = EventAt(l, Len(l) - Len(q) + (i + 1))
      BY <3>1 DEF QueueHolds
    <3> QED  BY <3>1, <3>2, <1>1
  <2> QED  BY <2>1, <1>1 DEF QueueHolds
<1>5. ASSUME NEW i \in 1..(Len(g) + 1)
      PROVE  h[i].id \in (j + 1)..(Len(l) - Len(t)) /\ h[i].data = l[h[i].id]
  <2>1. CASE i = Len(g) + 1
    BY <2>1, <1>1, <1>2, <1>3 DEF EventAt, QueueHolds
  <2>2. CASE i \in 1..Len(g)
    <3>1. /\ g[i].id \in (j + 1)..(Len(l) - Len(q)) /\ g[i].data = l[g[i].id]
      BY <2>2, <1>2 DEF GotHolds
    <3>2. g[i].id \in (j + 1)..(Len(l) - Len(t))
      BY <3>1, <1>1
    <3> QED  BY <2>2, <3>1, <3>2, <1>2
  <2> QED  BY <2>1, <2>2, <1>2
<1>6. ASSUME NEW m \in 1..(Len(g) + 1), NEW n \in 1..(Len(g) + 1), m < n
      PROVE  h[m].id < h[n].id
  <2>1. CASE n = Len(g) + 1
    <3>1. m \in DOMAIN g /\ h[m] = g[m]
      BY <2>1, <1>6, <1>2
    <3>2. g[m].id \in (j + 1)..(Len(l) - Len(q))
      BY <3>1 DEF GotHolds
    <3>3. h[n].id = Len(l) - Len(q) + 1
      BY <2>1, <1>2, <1>3 DEF EventAt
    <3>4. h[m].id < Len(l) - Len(q) + 1
      BY <3>1, <3>2, <1>1
    <3> QED  BY <3>3, <3>4
  <2>2. CASE n \in 1..Len(g)
    <3>1. m \in DOMAIN g /\ n \in DOMAIN g /\ h[m] = g[m] /\ h[n] = g[n]
      BY <2>2, <1>6, <1>2
    <3> QED  BY <3>1, <1>6 DEF GotHolds
  <2>3. n = Len(g) + 1 \/ n \in 1..Len(g)
    BY <1>2
  <2> QED  BY <2>1, <2>2, <2>3
<1>7. GotHolds(l, t, h, j)
  BY <1>2, <1>5, <1>6 DEF GotHolds
<1> QED  BY <1>4, <1>7 DEF t, h

\* Nothing that the runner publishes is of a type that is replayed.
LEMMA NothingToReplay ==
  ASSUME TypeOK, NEW s \in Session, NEW since
  PROVE  Backlog(s, since) = <<>>
<1> DEFINE wanted == {i \in Buffered(s) : i > since /\ Replayable(log[s][i])}
           ordered(f) == \A i, j \in DOMAIN f : i < j => f[i] < f[j]
           ids == CHOOSE f \in [1..Cardinality(wanted) -> wanted] : ordered(f)
<1>1. ASSUME NEW i \in DOMAIN log[s]  PROVE ~Replayable(log[s][i])
  <2>1. log[s] \in Seq(Payload)
    BY DEF TypeOK
  <2>2. log[s][i] \in Payload
    BY <2>1, <1>1, ElementOfSeq, LenProperties
  <2> QED  BY <2>2, PayloadAssumption DEF Replayable, REPLAYABLE_EVENT_TYPES
<1>2. wanted = {}
  BY <1>1 DEF Buffered
<1>3. 1..Cardinality(wanted) = {}
  BY <1>2, FS_EmptySet
<1>4. ids \in [1..Cardinality(wanted) -> wanted]
  <2>1. [i \in {} |-> i] \in [1..Cardinality(wanted) -> wanted]
    BY <1>3
  <2>2. ordered([i \in {} |-> i])
    OBVIOUS
  <2> HIDE DEF wanted, ordered
  <2> QED  BY <2>1, <2>2
<1>5. DOMAIN ids = {}
  <2> HIDE DEF ids
  <2> QED  BY <1>3, <1>4
<1>6. Backlog(s, since) = [i \in DOMAIN ids |-> [id |-> ids[i], data |-> log[s][ids[i]]]]
  BY DEF Backlog
<1> HIDE DEF ids
<1> QED  BY <1>5, <1>6

-----------------------------------------------------------------------------
(* The inductive invariant.                                                 *)

\* What the constants' assumptions say of a stream.
LEMMA WatchesSession == \A r \in Reader : Watches[r] \in Session
  BY WatchesAssumption

\* A stream's part of Inv holds at the start.
LEMMA InitInv == Init => Inv
<1> SUFFICES ASSUME Init  PROVE Inv
  OBVIOUS
<1> USE DEF Init
<1>1. /\ \A S : <<>> \in Seq(S)
      /\ Len(<<>>) = 0 /\ DOMAIN <<>> = {}
  OBVIOUS
<1>2. TypeOK
  <2>1. \A r \in Reader : Len(queue[r]) <= QueueSize
    BY <1>1, SizesAssumption
  <2> QED  BY <1>1, <2>1 DEF TypeOK, Place
<1>3. PlaceInv
  BY DEF PlaceInv
<1>4. ReaderInv
  BY <1>1, WatchesSession DEF ReaderInv, QueueHolds, GotHolds
<1> QED  BY <1>2, <1>3, <1>4 DEF Inv

\* Publishing gives every stream that follows the session the event, and leaves
\* what the streams hold and were sent as Inv says.
LEMMA PublishKeeps ==
  ASSUME Inv, NEW s \in Session, NEW d \in Payload, Publish(s, d)
  PROVE  Inv'
<1> DEFINE e == [id |-> Len(log[s]) + 1, data |-> d]
<1> USE DEF Publish
<1>1. /\ log \in [Session -> Seq(Payload)] /\ queue \in [Reader -> Seq(Event)]
      /\ got \in [Reader -> Seq(Event)] /\ joined \in [Reader -> Nat]
  BY DEF Inv, TypeOK
<1>2. log' \in [Session -> Seq(Payload)]
  BY <1>1, AppendProperties
<1>3. ASSUME NEW r \in Reader
      PROVE  /\ queue'[r] \in Seq(Event) /\ Len(queue'[r]) <= QueueSize
             /\ (~follows'[r] => queue'[r] = <<>>)
             /\ QueueHolds(log'[Watches[r]], queue'[r], joined'[r])
             /\ GotHolds(log'[Watches[r]], queue'[r], got'[r], joined'[r])
  <2> DEFINE l == log[Watches[r]]
             q == queue[r]
             j == joined[r]
             g == got[r]
  <2>1. /\ l \in Seq(Payload) /\ q \in Seq(Event) /\ g \in Seq(Event) /\ j \in Nat
        /\ Len(q) <= QueueSize /\ QueueHolds(l, q, j) /\ GotHolds(l, q, g, j)
        /\ (~follows[r] => q = <<>>)
    BY <1>1, WatchesSession DEF Inv, TypeOK, ReaderInv, PlaceInv
  <2>2. joined'[r] = j /\ got'[r] = g /\ follows'[r] = follows[r]
    OBVIOUS
  <2>3. CASE follows[r] /\ Watches[r] = s
    <3>1. queue'[r] = Fanout(q, e) /\ log'[Watches[r]] = Append(l, d) /\ log[s] = l
      BY <1>1, <2>3
    <3> HIDE DEF l, q, j, g
    <3>2. /\ Fanout(q, e) \in Seq(Event)
          /\ Len(Fanout(q, e)) = IF Len(q) < QueueSize THEN Len(q) + 1 ELSE Len(q)
          /\ QueueHolds(Append(l, d), Fanout(q, e), j)
      BY <3>1, <2>1, FanoutKeeps
    <3>3. Len(q) \in Nat /\ QueueSize \in Nat
      BY <2>1, LenProperties, SizesAssumption
    <3>4. Len(Fanout(q, e)) <= Len(q) + 1 /\ Len(Fanout(q, e)) <= QueueSize
      BY <3>2, <3>3, <2>1
    <3>5. GotHolds(Append(l, d), Fanout(q, e), g, j)
      BY <3>2, <3>4, <2>1, GotStays DEF QueueHolds
    <3> QED  BY <2>2, <2>3, <3>1, <3>2, <3>4, <3>5
  <2>4. CASE ~follows[r] /\ Watches[r] = s
    <3>1. queue'[r] = q /\ log'[Watches[r]] = Append(l, d) /\ q = <<>>
      BY <1>1, <2>1, <2>4
    <3> HIDE DEF l, q, j, g
    <3>2. Len(q) = 0 /\ DOMAIN q = {}
      BY <3>1
    <3>3. QueueHolds(Append(l, d), q, j)
      BY <3>2, <2>1, AppendProperties, LenProperties DEF QueueHolds
    <3>4. GotHolds(Append(l, d), q, g, j)
      <4>1. j + Len(q) <= Len(l) /\ Len(q) <= Len(q) + 1
        BY <3>2, <2>1 DEF QueueHolds
      <4> QED  BY <4>1, <2>1, GotStays
    <3> QED  BY <2>1, <2>2, <3>1, <3>3, <3>4
  <2>5. CASE Watches[r] # s
    <3>1. queue'[r] = q /\ log'[Watches[r]] = l
      BY <1>1, <2>5, WatchesSession
    <3> QED  BY <2>1, <2>2, <3>1
  <2> QED  BY <2>3, <2>4, <2>5
<1>4. queue' \in [Reader -> Seq(Event)]
  BY <1>3
<1>5. TypeOK'
  BY <1>2, <1>3, <1>4 DEF Inv, TypeOK
<1>6. PlaceInv'
  BY <1>3 DEF Inv, PlaceInv
<1> QED  BY <1>3, <1>5, <1>6 DEF Inv, ReaderInv

\* What a step of a stream leaves: its own part as Inv says, the others' as they were.
LeavesRight(r) ==
  /\ place' \in [Reader -> Place] /\ follows' \in [Reader -> BOOLEAN]
  /\ joined' \in [Reader -> Nat] /\ queue' \in [Reader -> Seq(Event)]
  /\ got' \in [Reader -> Seq(Event)]
  /\ \A x \in Reader \ {r} : /\ place'[x] = place[x] /\ follows'[x] = follows[x]
                             /\ joined'[x] = joined[x] /\ queue'[x] = queue[x]
                             /\ got'[x] = got[x]
  /\ Len(queue'[r]) <= QueueSize
  /\ place'[r] = "away" => ~follows'[r]
  /\ ~follows'[r] => queue'[r] = <<>>
  /\ place'[r] \in {"away", "open"} => got'[r] = <<>>
  /\ place'[r] = "live" => follows'[r]
  /\ QueueHolds(log[Watches[r]], queue'[r], joined'[r])
  /\ GotHolds(log[Watches[r]], queue'[r], got'[r], joined'[r])

\* A stream that subscribes, is closed or has sent its snapshot holds and was
\* sent what Inv says, and no other stream is touched.
LEMMA ReadKeeps ==
  ASSUME Inv, NEW r \in Reader, Read(r)
  PROVE  Inv'
<1>1. /\ log \in [Session -> Seq(Payload)] /\ queue \in [Reader -> Seq(Event)]
      /\ got \in [Reader -> Seq(Event)] /\ joined \in [Reader -> Nat]
      /\ place \in [Reader -> Place] /\ follows \in [Reader -> BOOLEAN]
      /\ \A x \in Reader : Len(queue[x]) <= QueueSize
  BY DEF Inv, TypeOK
<1>2. log' = log
  BY DEF Read, Subscribe, Replay, SendSnapshot, Deliver, Disconnect
<1>3. /\ <<>> \in Seq(Event) /\ Len(<<>>) = 0 /\ DOMAIN <<>> = {}
      /\ \A x \in Reader : Len(log[Watches[x]]) \in Nat
  BY <1>1, WatchesSession, LenProperties
<1>4. LeavesRight(r)
  <2>1. ASSUME NEW live \in BOOLEAN, Subscribe(r, live)  PROVE LeavesRight(r)
    <3>1. queue[r] = <<>> /\ got[r] = <<>>
      BY <2>1 DEF Inv, PlaceInv, Subscribe
    <3>2. joined'[r] \in 0..Len(log[Watches[r]]) /\ joined' \in [Reader -> Nat]
      BY <2>1, <1>1, <1>3 DEF Subscribe
    <3>3. /\ QueueHolds(log[Watches[r]], <<>>, joined'[r])
          /\ GotHolds(log[Watches[r]], <<>>, <<>>, joined'[r])
      BY <3>2, <1>3 DEF QueueHolds, GotHolds
    <3> QED  BY <2>1, <3>1, <3>2, <3>3, <1>1 DEF LeavesRight, Subscribe, Place
  <2>2. ASSUME NEW since, Replay(r, since)  PROVE LeavesRight(r)
    <3>1. Backlog(Watches[r], since) = <<>> /\ got[r] = <<>>
      BY <2>2, NothingToReplay, WatchesSession DEF Inv, PlaceInv, Replay
    <3>2. /\ got' = [got EXCEPT ![r] = <<>>] /\ place' = [place EXCEPT ![r] = "replayed"]
          /\ UNCHANGED <<follows, joined, queue>>
      BY <2>2, <3>1 DEF Replay
    <3> QED  BY <3>1, <3>2, <1>1, <1>3 DEF LeavesRight, Inv, PlaceInv, ReaderInv, Place
  <2>3. ASSUME SendSnapshot(r)  PROVE LeavesRight(r)
    BY <2>3, <1>1 DEF LeavesRight, SendSnapshot, Inv, PlaceInv, ReaderInv, Place
  <2>4. ASSUME Deliver(r)  PROVE LeavesRight(r)
    <3> DEFINE l == log[Watches[r]]
               q == queue[r]
               g == got[r]
    <3>1. /\ l \in Seq(Payload) /\ q \in Seq(Event) /\ g \in Seq(Event) /\ joined[r] \in Nat
          /\ q # <<>> /\ QueueHolds(l, q, joined[r]) /\ GotHolds(l, q, g, joined[r])
      BY <2>4, <1>1, WatchesSession DEF Deliver, Inv, ReaderInv
    <3>2. /\ Tail(q) \in Seq(Event) /\ Len(Tail(q)) = Len(q) - 1 /\ Head(q) \in Event
          /\ Append(g, Head(q)) \in Seq(Event)
      BY <3>1, HeadTailProperties, AppendProperties
    <3>3. /\ QueueHolds(l, Tail(q), joined[r])
          /\ GotHolds(l, Tail(q), Append(g, Head(q)), joined[r])
      <4> HIDE DEF l, q, g
      <4> QED  BY <3>1, DeliverKeeps
    <3>4. Len(Tail(q)) <= QueueSize
      <4>1. Len(q) <= QueueSize /\ Len(q) \in Nat /\ QueueSize \in Nat
        BY <1>1, LenProperties, SizesAssumption
      <4> QED  BY <4>1, <3>2
    <3>5. /\ queue' = [queue EXCEPT ![r] = Tail(q)]
          /\ got' = [got EXCEPT ![r] = Append(g, Head(q))]
          /\ UNCHANGED <<place, follows, joined>>
          /\ place[r] = "live" /\ follows[r]
      BY <2>4 DEF Deliver, Inv, PlaceInv
    <3> HIDE DEF g
    <3> QED  BY <3>2, <3>3, <3>4, <3>5, <1>1 DEF LeavesRight
  <2>5. ASSUME Disconnect(r)  PROVE LeavesRight(r)
    <3>1. /\ QueueHolds(log[Watches[r]], <<>>, 0)
          /\ GotHolds(log[Watches[r]], <<>>, <<>>, 0)
      BY <1>3 DEF QueueHolds, GotHolds
    <3> QED  BY <2>5, <3>1, <1>1, <1>3, SizesAssumption DEF LeavesRight, Disconnect, Place
  <2> QED  BY <2>1, <2>2, <2>3, <2>4, <2>5 DEF Read
<1>5. TypeOK'
  BY <1>1, <1>2, <1>4 DEF LeavesRight, TypeOK
<1>6. PlaceInv'
  BY <1>4 DEF LeavesRight, Inv, PlaceInv
<1>7. ReaderInv'
  BY <1>2, <1>4 DEF LeavesRight, Inv, ReaderInv
<1> QED  BY <1>5, <1>6, <1>7 DEF Inv

LEMMA NextKeeps == Inv /\ [Next]_vars => Inv'
<1> SUFFICES ASSUME Inv, [Next]_vars  PROVE Inv'
  OBVIOUS
<1>1. ASSUME NEW s \in Session, NEW d \in Payload, Publish(s, d)  PROVE Inv'
  BY <1>1, PublishKeeps
<1>2. ASSUME NEW r \in Reader, Read(r)  PROVE Inv'
  BY <1>2, ReadKeeps
<1>3. CASE UNCHANGED vars
  BY <1>3 DEF vars, Inv, TypeOK, PlaceInv, ReaderInv
<1> QED  BY <1>1, <1>2, <1>3 DEF Next

LEMMA AlwaysInv == Spec => []Inv
<1> QED  BY InitInv, NextKeeps, PTL DEF Spec

-----------------------------------------------------------------------------
(* What follows of it.                                                      *)

\* A feed is what was sent and then what is queued.
LEMMA FeedParts ==
  ASSUME TypeOK, NEW r \in Reader
  PROVE  /\ DOMAIN Feed(r) = 1..(Len(got[r]) + Len(queue[r]))
         /\ DOMAIN got[r] = 1..Len(got[r]) /\ DOMAIN queue[r] = 1..Len(queue[r])
         /\ Len(got[r]) \in Nat /\ Len(queue[r]) \in Nat
         /\ \A i \in 1..Len(got[r]) : Feed(r)[i] = got[r][i]
         /\ \A i \in 1..Len(queue[r]) : Feed(r)[Len(got[r]) + i] = queue[r][i]
<1> DEFINE a == Len(got[r])
           b == Len(queue[r])
           f == Feed(r)
           g == got[r]
           q == queue[r]
<1>1. g \in Seq(Event) /\ q \in Seq(Event)
  BY DEF TypeOK
<1>2. /\ Len(f) = a + b /\ f \in Seq(Event)
      /\ \A i \in 1..(a + b) : f[i] = IF i <= a THEN g[i] ELSE q[i - a]
  BY <1>1, ConcatProperties DEF Feed
<1>3. DOMAIN f = 1..(a + b) /\ DOMAIN g = 1..a /\ DOMAIN q = 1..b /\ a \in Nat /\ b \in Nat
  BY <1>1, <1>2, LenProperties
<1> HIDE DEF a, b, f, g, q
<1>4. \A i \in 1..a : f[i] = g[i]
  BY <1>2, <1>3
<1>5. ASSUME NEW i \in 1..b
      PROVE  f[a + i] = q[i]
  <2>1. a + i \in 1..(a + b) /\ ~(a + i <= a) /\ (a + i) - a = i
    BY <1>3
  <2> QED  BY <2>1, <1>2
<1> QED  BY <1>3, <1>4, <1>5 DEF a, b, f, g, q

\* The ids of a feed: those of the queue are the last of the log, and all are in
\* order.
LEMMA InvInOrder == Inv => FeedInOrder
<1> SUFFICES ASSUME Inv, NEW r \in Reader
             PROVE  /\ \A i \in DOMAIN Feed(r) :
                         /\ Feed(r)[i].id \in (joined[r] + 1)..Len(log[Watches[r]])
                         /\ Feed(r)[i].data = log[Watches[r]][Feed(r)[i].id]
                    /\ \A i, j \in DOMAIN Feed(r) : i < j => Feed(r)[i].id < Feed(r)[j].id
                    /\ \A i \in DOMAIN queue[r] :
                         queue[r][i].id = Len(log[Watches[r]]) - Len(queue[r]) + i
  BY DEF FeedInOrder
<1> DEFINE l == log[Watches[r]]
           f == Feed(r)
           g == got[r]
           q == queue[r]
           a == Len(g)
           b == Len(q)
           w == Len(l)
<1>1. /\ DOMAIN f = 1..(a + b) /\ DOMAIN g = 1..a /\ DOMAIN q = 1..b
      /\ a \in Nat /\ b \in Nat
      /\ \A i \in 1..a : f[i] = g[i]
      /\ \A i \in 1..b : f[a + i] = q[i]
  BY FeedParts DEF Inv
<1>2. w \in Nat /\ joined[r] \in Nat
  BY WatchesSession, LenProperties DEF Inv, TypeOK
<1>3. /\ joined[r] + b <= w
      /\ \A i \in 1..b : q[i].id = w - b + i /\ q[i].data = l[q[i].id]
  <2>1. QueueHolds(l, q, joined[r])
    BY DEF Inv, ReaderInv
  <2> HIDE DEF l, q
  <2>2. \A i \in 1..b : q[i] = EventAt(l, w - b + i)
    BY <2>1, <1>1 DEF QueueHolds
  <2> QED  BY <2>1, <2>2 DEF QueueHolds, EventAt
<1>4. /\ \A i \in 1..a : g[i].id \in (joined[r] + 1)..(w - b) /\ g[i].data = l[g[i].id]
      /\ \A i, j \in 1..a : i < j => g[i].id < g[j].id
  BY <1>1 DEF Inv, ReaderInv, GotHolds
<1> HIDE DEF l, a, b, w, f, g, q
<1>5. ASSUME NEW i \in 1..(a + b), i > a
      PROVE  i - a \in 1..b /\ f[i].id = w - b + (i - a) /\ f[i].data = l[f[i].id]
  <2>1. i - a \in 1..b /\ a + (i - a) = i
    BY <1>5, <1>1
  <2>2. f[a + (i - a)] = q[i - a]
    BY <2>1, <1>1
  <2> QED  BY <2>1, <2>2, <1>3
<1>6. ASSUME NEW i \in 1..(a + b), i <= a
      PROVE  /\ i \in 1..a /\ f[i].data = l[f[i].id]
             /\ f[i].id \in (joined[r] + 1)..(w - b) /\ f[i] = g[i]
  <2>1. i \in 1..a
    BY <1>6, <1>1
  <2> QED  BY <2>1, <1>1, <1>4
<1>7. ASSUME NEW i \in 1..(a + b)
      PROVE  f[i].id \in (joined[r] + 1)..w /\ f[i].data = l[f[i].id]
  <2>1. CASE i <= a
    <3>1. f[i].id \in (joined[r] + 1)..(w - b)
      BY <1>6, <2>1
    <3>2. f[i].id \in (joined[r] + 1)..w
      BY <3>1, <1>1, <1>2
    <3> QED  BY <3>2, <1>6, <2>1
  <2>2. CASE i > a
    <3>1. f[i].id = w - b + (i - a) /\ i - a \in 1..b
      BY <1>5, <2>2
    <3>2. f[i].id \in (joined[r] + 1)..w
      BY <3>1, <1>1, <1>2, <1>3
    <3> QED  BY <3>2, <1>5, <2>2
  <2> QED  BY <2>1, <2>2, <1>1
<1>8. ASSUME NEW i \in 1..(a + b), NEW j \in 1..(a + b), i < j
      PROVE  f[i].id < f[j].id
  <2>1. CASE j <= a
    <3>1. i <= a
      BY <1>8, <2>1, <1>1
    <3>2. i \in 1..a /\ j \in 1..a /\ f[i] = g[i] /\ f[j] = g[j]
      BY <3>1, <2>1, <1>6
    <3> QED  BY <3>2, <1>4, <1>8
  <2>2. CASE i <= a /\ j > a
    <3>1. f[i].id \in (joined[r] + 1)..(w - b)
      BY <2>2, <1>6
    <3>2. f[j].id = w - b + (j - a) /\ j - a \in 1..b
      BY <2>2, <1>5
    <3> QED  BY <3>1, <3>2, <1>1, <1>2
  <2>3. CASE i > a
    <3>1. j > a
      BY <2>3, <1>8, <1>1
    <3>2. f[i].id = w - b + (i - a) /\ f[j].id = w - b + (j - a)
      BY <2>3, <3>1, <1>5
    <3> QED  BY <3>2, <1>1, <1>2, <1>8
  <2>4. j <= a \/ (i <= a /\ j > a) \/ i > a
    BY <1>1
  <2> QED  BY <2>1, <2>2, <2>3, <2>4
<1> QED  BY <1>1, <1>3, <1>7, <1>8 DEF l, w, f, q, b

\* What a stream missed, of its log and its feed; and what it missed before its queue.
MissedOf(l, q, g, j) ==
  {i \in (j + 1)..Len(l) : \A k \in DOMAIN (g \o q) : (g \o q)[k].id # i}

MissedBefore(l, q, g, j) ==
  {i \in (j + 1)..(Len(l) - Len(q)) : \A k \in DOMAIN g : g[k].id # i}

\* With a queue that ends with the log, what was missed lies before the queue.
LEMMA MissedBeforeQueue ==
  ASSUME NEW l \in Seq(Payload), NEW q \in Seq(Event), NEW g \in Seq(Event), NEW j \in Nat,
         QueueHolds(l, q, j)
  PROVE  MissedOf(l, q, g, j) = MissedBefore(l, q, g, j)
<1> DEFINE a == Len(g)
           b == Len(q)
           w == Len(l)
           f == g \o q
<1>1. /\ Len(f) = a + b /\ f \in Seq(Event)
      /\ \A i \in 1..(a + b) : f[i] = IF i <= a THEN g[i] ELSE q[i - a]
  BY ConcatProperties
<1>2. /\ DOMAIN f = 1..(a + b) /\ DOMAIN g = 1..a /\ DOMAIN q = 1..b
      /\ a \in Nat /\ b \in Nat /\ w \in Nat
  BY <1>1, LenProperties
<1>3. /\ j + b <= w
      /\ \A i \in 1..b : q[i].id = w - b + i
  BY <1>2 DEF QueueHolds, EventAt
<1> HIDE DEF a, b, w, f
<1>4. ASSUME NEW i \in (j + 1)..w, \A k \in DOMAIN f : f[k].id # i
      PROVE  i \in (j + 1)..(w - b) /\ \A k \in DOMAIN g : g[k].id # i
  <2>1. ASSUME i > w - b  PROVE FALSE
    <3> DEFINE n == i - (w - b)
    <3>1. n \in 1..b /\ w - b + n = i
      BY <2>1, <1>2, <1>3
    <3>2. a + n \in 1..(a + b) /\ ~(a + n <= a) /\ (a + n) - a = n
      BY <3>1, <1>2
    <3> HIDE DEF n
    <3>3. f[a + n] = q[n] /\ q[n].id = i
      BY <3>1, <3>2, <1>1, <1>3
    <3> QED  BY <3>2, <3>3, <1>2, <1>4
  <2>2. i \in (j + 1)..(w - b)
    BY <2>1, <1>2, <1>3
  <2>3. ASSUME NEW k \in 1..a  PROVE g[k].id # i
    <3>1. k \in 1..(a + b) /\ k <= a
      BY <1>2
    <3> QED  BY <3>1, <1>1, <1>2, <1>4
  <2> QED  BY <2>2, <2>3, <1>2
<1>5. ASSUME NEW i \in (j + 1)..(w - b), \A k \in DOMAIN g : g[k].id # i
      PROVE  i \in (j + 1)..w /\ \A k \in DOMAIN f : f[k].id # i
  <2>1. ASSUME NEW k \in 1..(a + b)  PROVE f[k].id # i
    <3>1. CASE k <= a
      <4>1. k \in 1..a /\ f[k] = g[k]
        BY <3>1, <1>1, <1>2
      <4> QED  BY <4>1, <1>2, <1>5
    <3>2. CASE k > a
      <4> DEFINE n == k - a
      <4>1. n \in 1..b /\ f[k] = q[n]
        BY <3>2, <1>1, <1>2
      <4> HIDE DEF n
      <4>2. f[k].id = w - b + n
        BY <4>1, <1>3
      <4> QED  BY <4>1, <4>2, <1>2
    <3> QED  BY <3>1, <3>2, <1>2
  <2> QED  BY <2>1, <1>2
<1> QED  BY <1>4, <1>5 DEF MissedOf, MissedBefore, w, b, f

\* The queue reaches back as far as before, except that its first event was sent
\* or, from a full queue, dropped: no other step adds to what was missed.
LEMMA StepLosesOnlyWhenFull ==
  ASSUME Inv, Inv', Next
  PROVE  \A r \in Reader : follows[r] /\ follows'[r] /\ Missed(r)' # Missed(r)
                             => Len(queue[r]) = QueueSize
<1> SUFFICES ASSUME NEW r \in Reader, follows[r], follows'[r], Len(queue[r]) # QueueSize
             PROVE  Missed(r)' = Missed(r)
  OBVIOUS
<1> DEFINE l == log[Watches[r]]
           q == queue[r]
           g == got[r]
           j == joined[r]
<1>1. /\ l \in Seq(Payload) /\ q \in Seq(Event) /\ g \in Seq(Event) /\ j \in Nat
      /\ QueueHolds(l, q, j) /\ Len(q) <= QueueSize
      /\ l' \in Seq(Payload) /\ q' \in Seq(Event) /\ g' \in Seq(Event) /\ j' \in Nat
      /\ QueueHolds(l', q', j')
  BY WatchesSession DEF Inv, TypeOK, ReaderInv
<1>2. Missed(r) = MissedBefore(l, q, g, j)
  <2>1. Missed(r) = MissedOf(l, q, g, j)
    BY DEF Missed, Feed, MissedOf
  <2> HIDE DEF l, q, g, j
  <2> QED  BY <1>1, <2>1, MissedBeforeQueue
<1>3. Missed(r)' = MissedBefore(l', q', g', j')
  <2>1. Missed(r)' = MissedOf(l', q', g', j')
    BY DEF Missed, Feed, MissedOf
  <2>2. MissedOf(l', q', g', j') = MissedBefore(l', q', g', j')
    BY <1>1, MissedBeforeQueue
  <2> QED  BY <2>1, <2>2
<1>4. /\ Len(l) \in Nat /\ Len(q) \in Nat /\ QueueSize \in Nat /\ Len(q) < QueueSize
  BY <1>1, LenProperties, SizesAssumption
<1>5. ASSUME NEW s \in Session, NEW d \in Payload, Publish(s, d)
      PROVE  MissedBefore(l', q', g', j') = MissedBefore(l, q, g, j)
  <2> DEFINE e == [id |-> Len(log[s]) + 1, data |-> d]
  <2>1. g' = g /\ j' = j
    BY <1>5 DEF Publish
  <2>2. CASE Watches[r] = s
    <3>1. l' = Append(l, d) /\ q' = Fanout(q, e) /\ log[s] = l
      BY <1>5, <2>2, WatchesSession DEF Publish, Inv, TypeOK
    <3>2. Len(Fanout(q, e)) = Len(q) + 1 /\ Len(Append(l, d)) = Len(l) + 1
      <4> HIDE DEF l, q, j
      <4>1. Len(Append(l, d)) = Len(l) + 1
        BY <1>1, AppendProperties
      <4> QED  BY <3>1, <4>1, <1>1, <1>4, FanoutKeeps
    <3>3. Len(l') - Len(q') = Len(l) - Len(q)
      <4> HIDE DEF l, q
      <4> QED  BY <3>1, <3>2, <1>4
    <3> QED  BY <2>1, <3>3 DEF MissedBefore
  <2>3. CASE Watches[r] # s
    <3>1. l' = l /\ q' = q
      BY <1>5, <2>3, WatchesSession DEF Publish, Inv, TypeOK
    <3> QED  BY <2>1, <3>1
  <2> QED  BY <2>2, <2>3
<1>6. ASSUME Deliver(r)
      PROVE  MissedBefore(l', q', g', j') = MissedBefore(l, q, g, j)
  <2>1. /\ l' = l /\ j' = j /\ q # <<>> /\ q' = Tail(q) /\ g' = Append(g, Head(q))
    BY <1>6 DEF Deliver, Inv, TypeOK
  <2> DEFINE t == Tail(q)
             h == Append(g, Head(q))
             c == Len(l) - Len(q)
  <2> HIDE DEF l, q, g, j
  <2>2. /\ Len(t) = Len(q) - 1 /\ Head(q) = q[1] /\ Head(q) \in Event /\ Len(q) > 0
        /\ DOMAIN q = 1..Len(q)
    BY <1>1, <2>1, HeadTailProperties, EmptySeq, LenProperties
  <2>3. /\ DOMAIN h = 1..(Len(g) + 1) /\ DOMAIN g = 1..Len(g) /\ Len(g) \in Nat
        /\ \A i \in 1..Len(g) : h[i] = g[i]
        /\ h[Len(g) + 1] = Head(q)
    BY <1>1, <2>2, AppendProperties, LenProperties
  <2>4. Head(q).id = c + 1
    BY <2>2, <1>1, <1>4 DEF QueueHolds, EventAt
  <2>5. Len(l) - Len(t) = c + 1 /\ c \in Nat
    <3> DEFINE m == Len(l)
               n == Len(q)
               k == Len(t)
    <3>1. j \in Nat /\ m \in Nat /\ n \in Nat /\ j + n <= m /\ k = n - 1 /\ c = m - n
      BY <1>1, <1>4, <2>2 DEF QueueHolds
    <3> HIDE DEF m, n, k, c
    <3>2. m - k = c + 1 /\ c \in Nat
      BY <3>1
    <3> QED  BY <3>2 DEF m, k
  <2> HIDE DEF h, t
  <2>6. ASSUME NEW i \in (j + 1)..(c + 1)
        PROVE  (\A k \in DOMAIN h : h[k].id # i)
                 <=> i \in (j + 1)..c /\ (\A k \in DOMAIN g : g[k].id # i)
    <3> HIDE DEF c
    <3>1. i \in (j + 1)..c <=> i # c + 1
      BY <2>5, <1>1
    <3> QED  BY <3>1, <2>3, <2>4
  <2>7. (j + 1)..c \subseteq (j + 1)..(c + 1)
    <3> HIDE DEF c
    <3> QED  BY <2>5, <1>1
  <2>8. MissedBefore(l, t, h, j) = MissedBefore(l, q, g, j)
    BY <2>5, <2>6, <2>7 DEF MissedBefore
  <2> QED  BY <2>1, <2>8 DEF t, h
<1>7. ASSUME NEW x \in Reader, x # r, Read(x)
      PROVE  MissedBefore(l', q', g', j') = MissedBefore(l, q, g, j)
  BY <1>7 DEF Read, Subscribe, Replay, SendSnapshot, Deliver, Disconnect, Inv, TypeOK
<1>8. ASSUME Read(r), ~Deliver(r)
      PROVE  MissedBefore(l', q', g', j') = MissedBefore(l, q, g, j)
  <2>1. ASSUME NEW live \in BOOLEAN, Subscribe(r, live)  PROVE FALSE
    BY <2>1 DEF Subscribe, Inv, PlaceInv
  <2>2. ASSUME NEW since, Replay(r, since)
        PROVE  l' = l /\ q' = q /\ j' = j /\ g' = g
    <3>1. Backlog(Watches[r], since) = <<>> /\ got[r] = <<>>
      BY <2>2, NothingToReplay, WatchesSession DEF Inv, PlaceInv, Replay
    <3> QED  BY <2>2, <3>1 DEF Replay, Inv, TypeOK
  <2>3. ASSUME SendSnapshot(r)
        PROVE  l' = l /\ q' = q /\ j' = j /\ g' = g
    BY <2>3 DEF SendSnapshot
  <2>4. ASSUME Disconnect(r)  PROVE FALSE
    BY <2>4 DEF Disconnect, Inv, TypeOK
  <2>5. l' = l /\ q' = q /\ j' = j /\ g' = g
    BY <1>8, <2>1, <2>2, <2>3, <2>4 DEF Read
  <2> QED  BY <2>5
<1>9. MissedBefore(l', q', g', j') = MissedBefore(l, q, g, j)
  BY <1>5, <1>6, <1>7, <1>8 DEF Next
<1> QED  BY <1>2, <1>3, <1>9

-----------------------------------------------------------------------------
(* Theorems.                                                                *)

\* Every queue stays within its size and every stream in its place, whatever
\* is published and whoever comes and goes.
THEOREM TypeCorrect == Spec => []TypeOK
<1>1. Inv => TypeOK
  BY DEF Inv
<1> QED  BY <1>1, AlwaysInv, PTL

\* A stream that follows its session gets events of it in order, each once and
\* none from before it subscribed, and its queue ends with the latest.
THEOREM FeedAlwaysInOrder == Spec => []FeedInOrder
<1> QED  BY InvInOrder, AlwaysInv, PTL

\* Both, for any streams and sizes.
THEOREM FeedAlwaysSound == Spec => []FeedIsSound
<1>1. TypeOK /\ FeedInOrder => FeedIsSound
  BY DEF FeedIsSound
<1> QED  BY <1>1, TypeCorrect, FeedAlwaysInOrder, PTL

\* A stream that follows misses an event only when its queue is full.
THEOREM LossNeedsFullQueue == Spec => LossOnlyWhenFull
<1>1. Inv /\ Inv' /\ [Next]_vars =>
        [\A r \in Reader : follows[r] /\ follows'[r] /\ Missed(r)' # Missed(r)
                             => Len(queue[r]) = QueueSize]_vars
  BY StepLosesOnlyWhenFull
<1> QED  BY <1>1, AlwaysInv, PTL DEF Spec, LossOnlyWhenFull
=============================================================================
