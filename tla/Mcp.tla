-------------------------------- MODULE Mcp --------------------------------
(***************************************************************************)
(* One tool server behind its adapter (app/channels/mcp/adapter.py): a     *)
(* child process started on demand, requests written to its stdin, answers *)
(* read from its stdout line by line, by whoever waits.  Calls of several  *)
(* turns share the adapter; only start() holds its lock.                   *)
(*   proc      the server in _proc, 0 for none                             *)
(*   servers   servers spawned so far; they are numbered                   *)
(*   eof, reaped   servers whose stdout has ended, whose exit was seen     *)
(*   closed    servers whose stdin the adapter closed                      *)
(*   out       lines of each server nobody has read yet, by request id     *)
(*   sent      all requests written, the id of one is its place            *)
(*   calls     the invocations under way, of one caller each:              *)
(*             pc, tries (requests it may still write), id and what of its *)
(*             last request, on (the server it went to, then the one whose *)
(*             lines are read for it), drop (the server it is shutting     *)
(*             down), since (requests written before the invocation),      *)
(*             answer (the answer it returned, 0 for none)                 *)
(* A step of a call is what it does between two awaits.                    *)
(***************************************************************************)
EXTENDS Integers, Sequences, FiniteSets, FiniteSetsExt

CONSTANTS Calls,           \* callers
          MaxServers,      \* servers that can be spawned (bounds the model only)
          MaxInvocations   \* invocations (bounds the model only)

VARIABLES proc, state, initialized, lock, servers, eof, reaped, closed, out, sent, answered,
          calls, begun

adapter == <<proc, state, initialized>>
processes == <<servers, eof, reaped>>
vars == <<adapter, lock, processes, closed, out, sent, answered, calls, begun>>

Nobody == "nobody"

ASSUME CallersAssumption == Nobody \notin Calls
ASSUME LimitsAssumption == MaxServers \in Nat /\ MaxInvocations \in Nat

Idle == [pc |-> "idle", tries |-> 0, id |-> 0, what |-> "none", on |-> 0, drop |-> 0,
         since |-> 0, answer |-> 0]

Init ==
    /\ proc = 0 /\ state = "unavailable" /\ initialized = FALSE /\ lock = Nobody
    /\ servers = 0 /\ eof = {} /\ reaped = {} /\ closed = {}
    /\ out = <<>> /\ sent = <<>> /\ answered = {}
    /\ calls = [c \in Calls |-> Idle] /\ begun = 0

Alive == (1..servers) \ (eof \cup reaped)
Dead == proc = 0 \/ proc \in reaped    \* _dead

-----------------------------------------------------------------------------
(* What a step of a call ends in; call is its record so far.               *)

At(c, pc) == [calls[c] EXCEPT !.pc = pc]
Becomes(c, call) == calls' = [calls EXCEPT ![c] = call]
Finish(c, answer) == Becomes(c, [Idle EXCEPT !.since = calls[c].since, !.answer = answer])

(* Every failure ends the invocation alike here; what the resolver makes   *)
(* of the kinds of failure is in Resolver.                                 *)
Fail(c) == Finish(c, 0)

(* _request up to its drain: the request is on its way.                    *)
Write(c, call, what, server) ==
    /\ sent' = Append(sent, [by |-> c, what |-> what, to |-> server])
    /\ Becomes(c, [call EXCEPT !.pc = "written", !.what = what, !.id = Len(sent) + 1, !.on = server])

(* _shutdown up to its await: the slot is emptied and stdin closed.        *)
FaultyShutdown(c, call, pc) ==  \* the next server is taken for initialized
    /\ proc' = 0
    /\ closed' = closed \cup ({proc} \ {0})
    /\ Becomes(c, [call EXCEPT !.pc = pc, !.drop = proc])
    /\ UNCHANGED <<initialized, sent>>

Shutdown(c, call, pc) ==
    /\ proc' = 0 /\ initialized' = FALSE
    /\ closed' = closed \cup ({proc} \ {0})
    /\ Becomes(c, [call EXCEPT !.pc = pc, !.drop = proc])
    /\ UNCHANGED sent

(* The rest of it: the server has exited, or is killed.                    *)
Reaped(c) == reaped' = reaped \cup ({calls[c].drop} \ {0})

(* A transport failure: one reconnect and one retry.                       *)
Lose(c, call) ==
    IF call.tries > 0 THEN Shutdown(c, call, "dropping")
    ELSE Fail(c) /\ UNCHANGED <<proc, initialized, closed, sent>>

(* tools/call.  A pipe already known to be broken is no transport failure  *)
(* of the kind that reconnects.                                            *)
TryCall(c, call) ==
    IF proc = 0 \/ ~initialized THEN Lose(c, call)
    ELSE /\ \/ Write(c, call, "call", proc)
            \/ proc \notin Alive /\ Fail(c) /\ UNCHANGED sent
         /\ UNCHANGED <<proc, initialized, closed>>

(* The handshake failed: shut down, then unavailable.                      *)
StartFails(c) == Shutdown(c, calls[c], "failing")

-----------------------------------------------------------------------------
(* invoke and start.                                                       *)

Invoke(c) ==
    /\ calls[c].pc = "idle" /\ begun < MaxInvocations
    /\ begun' = begun + 1
    /\ LET call == [Idle EXCEPT !.tries = 1, !.since = Len(sent)]
       IN  IF Dead \/ state = "unavailable"
           THEN Becomes(c, [call EXCEPT !.pc = "lock"])
                /\ UNCHANGED <<proc, initialized, closed, sent>>
           ELSE TryCall(c, call)
    /\ UNCHANGED <<state, lock, processes, out, answered>>

(* start, with the lock: somebody else may have started it meanwhile; a    *)
(* server in the slot that is dead or unusable is cleared first.           *)
FaultyLock(c) ==  \* a new server over the old one
    /\ calls[c].pc = "lock" /\ lock = Nobody
    /\ \/ ~Dead /\ state = "healthy" /\ TryCall(c, calls[c]) /\ UNCHANGED lock
       \/ /\ Dead \/ state = "unavailable"
          /\ lock' = c
          /\ Becomes(c, At(c, "spawn")) /\ UNCHANGED <<proc, initialized, closed, sent>>
    /\ UNCHANGED <<state, processes, out, answered, begun>>

Lock(c) ==
    /\ calls[c].pc = "lock" /\ lock = Nobody
    /\ \/ ~Dead /\ state = "healthy" /\ TryCall(c, calls[c]) /\ UNCHANGED lock
       \/ /\ Dead \/ state = "unavailable"
          /\ lock' = c
          /\ IF proc # 0 THEN Shutdown(c, calls[c], "clearing")
             ELSE Becomes(c, At(c, "spawn")) /\ UNCHANGED <<proc, initialized, closed, sent>>
    /\ UNCHANGED <<state, processes, out, answered, begun>>

Clear(c) ==
    /\ calls[c].pc = "clearing"
    /\ Reaped(c)
    /\ Becomes(c, [At(c, "spawn") EXCEPT !.drop = 0])
    /\ UNCHANGED <<adapter, lock, servers, eof, closed, out, sent, answered, begun>>

Spawn(c) ==
    /\ calls[c].pc = "spawn"
    /\ \/ /\ servers < MaxServers
          /\ servers' = servers + 1
          /\ proc' = servers + 1
          /\ out' = Append(out, <<>>)
          /\ Write(c, calls[c], "init", servers + 1)
          /\ UNCHANGED <<initialized, closed>>
       \/ StartFails(c) /\ UNCHANGED <<servers, out>>
    /\ UNCHANGED <<state, lock, eof, reaped, answered, begun>>

(* A handshake that failed; start answers no.                              *)
FailStart(c) ==
    /\ calls[c].pc = "failing"
    /\ Reaped(c)
    /\ state' = "unavailable" /\ lock' = Nobody
    /\ Fail(c)
    /\ UNCHANGED <<proc, initialized, servers, eof, closed, out, sent, answered, begun>>

(* _note_disconnect, after its await, and on to start for the retry.       *)
Drop(c) ==
    /\ calls[c].pc = "dropping"
    /\ Reaped(c)
    /\ state' = "unavailable"
    /\ Becomes(c, [At(c, "lock") EXCEPT !.tries = 0, !.drop = 0])
    /\ UNCHANGED <<proc, initialized, lock, servers, eof, closed, out, sent, answered, begun>>

-----------------------------------------------------------------------------
(* _await_response: lines are read until one carries the id of the request.*)
(* Only one call can wait for the stream at a time, a second one fails.  A *)
(* line wakes who waits, and may be taken by somebody else before that one *)
(* runs.  Which server is read is settled when the reading begins, after   *)
(* the drain: where another call has emptied the slot meanwhile it fails,  *)
(* and where the slot was filled again the answer is awaited of the new    *)
(* server, which never got the request.                                    *)

FaultyMine(c, lines) == DOMAIN lines  \* whatever line comes next

Mine(c, lines) == {i \in DOMAIN lines : lines[i] = calls[c].id}

Waiting(p) == {c \in Calls : calls[c].pc = "reading" /\ calls[c].on = p}
Woken(p) == [c \in Calls |-> IF c \in Waiting(p) THEN At(c, "woken") ELSE calls[c]]

Raises(c) == IF calls[c].what = "call" THEN Fail(c) /\ UNCHANGED <<proc, initialized, closed, sent>>
             ELSE StartFails(c)

(* The answer to initialize, tools/list or tools/call; an error, or what a *)
(* server says no to, ends a handshake.                                    *)
Take(c, id) ==
    \/ /\ calls[c].what = "call"
       /\ Finish(c, id)
       /\ UNCHANGED <<adapter, lock, closed, sent>>
    \/ /\ calls[c].what # "call" /\ StartFails(c) /\ UNCHANGED <<state, lock>>
    \/ /\ calls[c].what = "init" /\ proc # 0
       /\ initialized' = TRUE
       /\ Write(c, calls[c], "list", proc)
       /\ UNCHANGED <<proc, state, lock, closed>>
    \/ /\ calls[c].what = "list"
       /\ state' = "healthy" /\ lock' = Nobody
       /\ TryCall(c, calls[c])

ReadFrom(c, p) ==
    LET lines == out[p]
        mine == Mine(c, lines)
        call == [calls[c] EXCEPT !.on = p]
    IN  IF mine # {}
        THEN /\ Take(c, lines[Min(mine)])
             /\ out' = [out EXCEPT ![p] = SubSeq(lines, Min(mine) + 1, Len(lines))]
        ELSE /\ out' = [out EXCEPT ![p] = <<>>]
             /\ UNCHANGED <<state, lock>>
             /\ IF p \in eof
                THEN IF call.what = "call" THEN Lose(c, call) ELSE StartFails(c)
                ELSE IF Waiting(p) # {} THEN Raises(c)
                ELSE /\ Becomes(c, [call EXCEPT !.pc = "reading"])
                     /\ UNCHANGED <<proc, initialized, closed, sent>>

Read(c) ==
    /\ calls[c].pc \in {"written", "woken"}
    /\ LET p == IF calls[c].pc = "written" THEN proc ELSE calls[c].on
       IN  IF p = 0 THEN Raises(c) /\ UNCHANGED <<out, state, lock>>
           ELSE ReadFrom(c, p)
    /\ UNCHANGED <<processes, answered, begun>>

(* No answer in time: the call fails, the server is kept; a handshake ends.*)
FaultyExpire(c) ==  \* as if the server were gone
    /\ calls[c].pc \in {"written", "reading", "woken"}
    /\ IF calls[c].what = "call" THEN Lose(c, calls[c]) ELSE StartFails(c)
    /\ UNCHANGED <<state, lock, processes, out, answered, begun>>

Expire(c) ==
    /\ calls[c].pc \in {"written", "reading", "woken"}
    /\ Raises(c)
    /\ UNCHANGED <<state, lock, processes, out, answered, begun>>

(* The resolver gives up on the call (with_timeout), wherever it is: the   *)
(* lock is given back, nothing else is undone.                             *)
FaultyCancel(c) ==  \* the lock is kept
    /\ calls[c].pc # "idle"
    /\ Fail(c)
    /\ UNCHANGED <<adapter, lock, processes, closed, out, sent, answered, begun>>

Cancel(c) ==
    /\ calls[c].pc # "idle"
    /\ Fail(c)
    /\ lock' = IF lock = c THEN Nobody ELSE lock
    /\ UNCHANGED <<adapter, processes, closed, out, sent, answered, begun>>

-----------------------------------------------------------------------------
(* The servers.  What becomes of one that nobody attends to any more is    *)
(* left out.                                                               *)

Heeded(p) == p = proc \/ \E c \in Calls : calls[c].on = p

Answer(p) ==
    /\ p \in Alive /\ Heeded(p)
    /\ \E id \in DOMAIN sent \ answered :
           /\ sent[id].to = p
           /\ answered' = answered \cup {id}
           /\ out' = [out EXCEPT ![p] = Append(@, id)]
    /\ calls' = Woken(p)
    /\ UNCHANGED <<adapter, lock, processes, closed, sent, begun>>

StdoutEnds(p) ==
    /\ p \in (1..servers) \ eof /\ Heeded(p)
    /\ eof' = eof \cup {p}
    /\ calls' = Woken(p)
    /\ UNCHANGED <<adapter, lock, servers, reaped, closed, out, sent, answered, begun>>

ExitSeen(p) ==
    /\ p \in (1..servers) \ reaped /\ Heeded(p)
    /\ reaped' = reaped \cup {p}
    /\ UNCHANGED <<adapter, lock, servers, eof, closed, out, sent, answered, calls, begun>>

(* What the adapter does by itself, its own timeouts included.             *)
Proceed(c) ==
    \/ Lock(c) \/ Clear(c) \/ Spawn(c) \/ FailStart(c) \/ Drop(c)
    \/ Read(c) \/ Expire(c)

Next ==
    \/ \E c \in Calls : Invoke(c) \/ Proceed(c) \/ Cancel(c)
    \/ \E p \in 1..servers : Answer(p) \/ StdoutEnds(p) \/ ExitSeen(p)

Spec == Init /\ [][Next]_vars

-----------------------------------------------------------------------------
(* Type invariant.  The lock is held by the one call that is inside start, *)
(* and one call at most waits for the lines of a server.                   *)
Starting(c) ==
    \/ calls[c].pc \in {"clearing", "spawn", "failing"}
    \/ calls[c].pc \in {"written", "reading", "woken"} /\ calls[c].what # "call"

TypeOK ==
    /\ proc \in 0..servers /\ state \in {"healthy", "unavailable"} /\ initialized \in BOOLEAN
    /\ lock \in Calls \cup {Nobody}
    /\ servers \in 0..MaxServers /\ eof \cup reaped \subseteq 1..servers
    /\ Len(out) = servers /\ answered \subseteq DOMAIN sent
    /\ begun \in 0..MaxInvocations
    /\ \A c \in Calls :
           /\ calls[c].tries \in 0..1 /\ calls[c].id \in 0..Len(sent)
           /\ Starting(c) <=> lock = c
    /\ \A p \in 1..servers : Cardinality(Waiting(p)) <= 1

(* An invocation that was answered got the answer to a request of its own, *)
(* of this invocation and not of one that timed out before, though all     *)
(* calls read the same stream and late answers stay in it (_await_response)*)
OwnAnswer ==
    \A c \in Calls : calls[c].answer # 0 =>
        /\ calls[c].answer > calls[c].since
        /\ sent[calls[c].answer].by = c /\ sent[calls[c].answer].what = "call"

(* A request to a tool is written a second time only after a stream has    *)
(* ended, and never a third time: that of the server it went to, or of one *)
(* that was put in its place before the waiting began.  No answer in time, *)
(* a late one or one read by somebody else are no reason (invoke).         *)
Attempts(c) == {i \in calls[c].since + 1 .. Len(sent) : sent[i].by = c /\ sent[i].what = "call"}

RepeatOnlyAfterLoss ==
    \A c \in Calls : calls[c].pc # "idle" =>
        /\ Cardinality(Attempts(c)) <= 2
        /\ \A i, j \in Attempts(c) :
               i < j => \E p \in eof : sent[i].to <= p /\ p < sent[j].to

(* No tool is called on a server that has not answered the handshake: the  *)
(* flag is the adapter's, while servers come and go (_request, _shutdown). *)
HandshakeFirst ==
    \A i \in DOMAIN sent : sent[i].what = "call" =>
        \E j \in answered : j < i /\ sent[j].what = "init" /\ sent[j].to = sent[i].to

(* A server that was not yet told to end is the current one: none is lost  *)
(* unsaid, whatever step of start or disconnect was cut short.  Being told *)
(* is all: where the wait for its exit is cancelled it is not killed, and  *)
(* one that ignores the end of its stdin stays (start, _shutdown).         *)
NoServerLeaks == Alive \subseteq closed \cup {proc}
=============================================================================
