------------------------------- MODULE EventBus -------------------------------
(****************************************************************************)
(* app/events/bus.py and its readers, the generators of GET /stream         *)
(* (app/api/routes/sessions.py).  The runner publishes a session's events;  *)
(* every open stream has a bounded queue of its own, filled without ever    *)
(* waiting for the reader.  A stream subscribes when its request arrives,   *)
(* then replays, then awaits a snapshot, then follows its queue; the client *)
(* may close it at any point and open another.                              *)
(*                                                                          *)
(* An event is its number (the id publish gives it, which is its place in   *)
(* the session's log) and a payload.  The runner publishes with id 0 and    *)
(* one event at a time, so ids are always the bus's own.  The contents of   *)
(* the snapshot, keep-alive comments and drop, which has no caller, are     *)
(* left out.                                                                *)
(****************************************************************************)
EXTENDS Naturals, Sequences, FiniteSets

CONSTANTS
  Session,
  Reader,         \* streams, each of one client
  Watches,        \* Watches[r]: the session that reader r asks for
  Payload,        \* what the runner publishes
  QueueSize,      \* DEFAULT_SUBSCRIBER_QUEUE
  Retention,      \* DEFAULT_RETENTION
  MaxLog          \* bound: events of one session

ASSUME WatchesAssumption == Watches \in [Reader -> Session]
ASSUME SizesAssumption == {QueueSize, Retention, MaxLog} \subseteq Nat \ {0}
ASSUME PayloadAssumption == \A d \in Payload : d.type = "text_delta"

VARIABLES
  log,       \* log[s]: all that was ever published; the buffer is its end
  place,     \* place[r]: how far the reader's generator has come
  follows,   \* follows[r]: the bus holds a queue for r
  joined,    \* joined[r]: the length of the log when r subscribed
  queue,     \* queue[r]: published and not yet read
  got        \* got[r]: what the stream has sent to its client

vars == <<log, place, follows, joined, queue, got>>

Event == [id : Nat \ {0}, data : Payload]

Place == {"away", "open", "replayed", "live", "gone"}

TypeOK ==
  /\ log \in [Session -> Seq(Payload)]
  /\ place \in [Reader -> Place]
  /\ follows \in [Reader -> BOOLEAN]
  /\ joined \in [Reader -> Nat]
  /\ queue \in [Reader -> Seq(Event)]
  /\ got \in [Reader -> Seq(Event)]
  /\ \A r \in Reader : Len(queue[r]) <= QueueSize

Init ==
  /\ log = [s \in Session |-> <<>>]
  /\ place = [r \in Reader |-> "away"]
  /\ follows = [r \in Reader |-> FALSE]
  /\ joined = [r \in Reader |-> 0]
  /\ queue = [r \in Reader |-> <<>>]
  /\ got = [r \in Reader |-> <<>>]

-----------------------------------------------------------------------------
(* Publishing.                                                              *)

\* An event is dropped while there still is room.
FaultyFanout(q, e) == Append(IF Len(q) + 1 < QueueSize THEN q ELSE Tail(q), e)

\* EventBus._fanout: the oldest event makes room when the queue is full.
Fanout(q, e) == Append(IF Len(q) < QueueSize THEN q ELSE Tail(q), e)

\* A queue that is waited for: put instead of put_nowait.
FaultyPublish(s, d) ==
  /\ Len(log[s]) < MaxLog
  /\ \A r \in Reader : follows[r] /\ Watches[r] = s => Len(queue[r]) < QueueSize
  /\ log' = [log EXCEPT ![s] = Append(@, d)]
  /\ queue' = [r \in Reader |->
                 IF follows[r] /\ Watches[r] = s
                 THEN Fanout(queue[r], [id |-> Len(log[s]) + 1, data |-> d])
                 ELSE queue[r]]
  /\ UNCHANGED <<place, follows, joined, got>>

Publish(s, d) ==
  /\ Len(log[s]) < MaxLog
  /\ log' = [log EXCEPT ![s] = Append(@, d)]
  /\ queue' = [r \in Reader |->
                 IF follows[r] /\ Watches[r] = s
                 THEN Fanout(queue[r], [id |-> Len(log[s]) + 1, data |-> d])
                 ELSE queue[r]]
  /\ UNCHANGED <<place, follows, joined, got>>

-----------------------------------------------------------------------------
(* Reading.                                                                 *)

\* The route subscribes, when the client wants to follow, before it returns
\* the generator that does the rest.
Subscribe(r, live) ==
  /\ place[r] = "away"
  /\ place' = [place EXCEPT ![r] = "open"]
  /\ follows' = [follows EXCEPT ![r] = live]
  /\ joined' = [joined EXCEPT ![r] = IF live THEN Len(log[Watches[r]]) ELSE 0]
  /\ UNCHANGED <<log, queue, got>>

REPLAYABLE_EVENT_TYPES ==
  {"tool_call_start", "tool_call_end", "tool_result", "plan_preview", "interrupt",
   "state_update", "scope_rejected", "degradation_notice", "usage", "error", "done"}

\* Everything in the buffer is replayed.
FaultyReplayable(d) == TRUE

Replayable(d) == d.type \in REPLAYABLE_EVENT_TYPES

\* The ids still in the buffer, a deque with maxlen.
Buffered(s) == {i \in DOMAIN log[s] : Len(log[s]) - i < Retention}

\* EventBus.replay and the route's filter: in the order of the log.
Backlog(s, since) ==
  LET wanted == {i \in Buffered(s) : i > since /\ Replayable(log[s][i])}
      ids == CHOOSE f \in [1..Cardinality(wanted) -> wanted] :
               \A i, j \in DOMAIN f : i < j => f[i] < f[j]
  IN  [i \in DOMAIN ids |-> [id |-> ids[i], data |-> log[s][ids[i]]]]

Replay(r, since) ==
  /\ place[r] = "open"
  /\ place' = [place EXCEPT ![r] = "replayed"]
  /\ got' = [got EXCEPT ![r] = Backlog(Watches[r], since)]
  /\ UNCHANGED <<log, follows, joined, queue>>

\* The snapshot was awaited and sent; a stream that follows nothing ends.
SendSnapshot(r) ==
  /\ place[r] = "replayed"
  /\ place' = [place EXCEPT ![r] = IF follows[r] THEN "live" ELSE "gone"]
  /\ UNCHANGED <<log, follows, joined, queue, got>>

Deliver(r) ==
  /\ place[r] = "live"
  /\ queue[r] # <<>>
  /\ queue' = [queue EXCEPT ![r] = Tail(@)]
  /\ got' = [got EXCEPT ![r] = Append(@, Head(queue[r]))]
  /\ UNCHANGED <<log, place, follows, joined>>

\* The client is gone, or comes back: the generator's finally unsubscribes.
Disconnect(r) ==
  /\ place[r] # "away"
  /\ place' = [place EXCEPT ![r] = "away"]
  /\ follows' = [follows EXCEPT ![r] = FALSE]
  /\ joined' = [joined EXCEPT ![r] = 0]
  /\ queue' = [queue EXCEPT ![r] = <<>>]
  /\ got' = [got EXCEPT ![r] = <<>>]
  /\ UNCHANGED log

Read(r) ==
  \/ \E live \in BOOLEAN : Subscribe(r, live)
  \/ \E since \in 0..Len(log[Watches[r]]) : Replay(r, since)
  \/ SendSnapshot(r)
  \/ Deliver(r)
  \/ Disconnect(r)

Next ==
  \/ \E s \in Session, d \in Payload : Publish(s, d)
  \/ \E r \in Reader : Read(r)

Spec == Init /\ [][Next]_vars

\* The runner publishes on; nothing is assumed of the clients.
FairSpec == Spec /\ \A s \in Session : WF_vars(\E d \in Payload : Publish(s, d))

-----------------------------------------------------------------------------
(* Properties.                                                              *)

\* What a stream was sent and will be sent, in that order.
Feed(r) == got[r] \o queue[r]

Missed(r) == {i \in (joined[r] + 1)..Len(log[Watches[r]]) :
                \A j \in DOMAIN Feed(r) : Feed(r)[j].id # i}

\* However publishing, overflow, the replay and the wait for the snapshot
\* interleave, a stream that follows gets events of its session in order, each
\* once and none from before it subscribed, and its queue ends with the latest.
FeedInOrder ==
  \A r \in Reader : follows[r] =>
    LET feed == Feed(r)
        s    == Watches[r]
    IN  /\ \A i \in DOMAIN feed :
             /\ feed[i].id \in (joined[r] + 1)..Len(log[s])
             /\ feed[i].data = log[s][feed[i].id]
        /\ \A i, j \in DOMAIN feed : i < j => feed[i].id < feed[j].id
        /\ \A i \in DOMAIN queue[r] :
             queue[r][i].id = Len(log[s]) - Len(queue[r]) + i

\* And every queue keeps within its size meanwhile.
FeedIsSound == TypeOK /\ FeedInOrder

\* And it misses an event only when its client is a whole queue behind: not in
\* the gap between the subscription, the replay and the snapshot.
LossOnlyWhenFull ==
  [][\A r \in Reader : follows[r] /\ follows'[r] /\ Missed(r)' # Missed(r)
                         => Len(queue[r]) = QueueSize]_vars

\* A client that stopped reading holds up no turn: whatever the readers do, all
\* that the runner has to publish is published.
ReadersHoldNothingUp == \A s \in Session : <>(Len(log[s]) = MaxLog)
=============================================================================
