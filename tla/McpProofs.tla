------------------------------ MODULE McpProofs ------------------------------
(***************************************************************************)
(* Theorems of Mcp, for any callers and any number of servers and          *)
(* invocations.  What a step makes of the call that takes it is one        *)
(* relation, CallStep, whatever the step is; each part of the invariant is *)
(* shown to survive that relation once.                                    *)
(***************************************************************************)
EXTENDS Mcp, FiniteSetTheorems, SequenceTheorems, WellFoundedInduction, TLAPS

-----------------------------------------------------------------------------
(* The inductive invariant.                                                *)

Place == {"idle", "lock", "clearing", "spawn", "failing", "dropping", "written", "reading",
          "woken"}
Asks == {"init", "list", "call"}

Call == [pc : Place, tries : 0..1, id : Nat, what : Asks \cup {"none"}, on : Nat, drop : Nat,
         since : Nat, answer : Nat]
Request == [by : Calls, what : Asks, to : Nat]

(* A call that has written a request and has no answer yet.                *)
Waits(call) == call.pc \in {"written", "reading", "woken"}
WaitsForTool(call) == Waits(call) /\ call.what = "call"
Starts(call) == \/ call.pc \in {"clearing", "spawn", "failing"}
                \/ Waits(call) /\ call.what # "call"

Types ==
    /\ state \in {"healthy", "unavailable"} /\ initialized \in BOOLEAN
    /\ lock \in Calls \cup {Nobody}
    /\ servers \in 0..MaxServers /\ begun \in 0..MaxInvocations
    /\ proc \in 0..servers /\ eof \subseteq 1..servers /\ reaped \subseteq 1..servers
    /\ out \in Seq(Seq(Nat)) /\ Len(out) = servers
    /\ sent \in Seq(Request) /\ answered \subseteq 1..Len(sent)
    /\ calls \in [Calls -> Call]

Ranges ==
    /\ \A c \in Calls : /\ calls[c].id <= Len(sent) /\ calls[c].since <= Len(sent)
                        /\ calls[c].answer <= Len(sent)
                        /\ calls[c].drop <= servers
    /\ \A i \in 1..Len(sent) : sent[i].to \in 1..servers
    /\ \A p \in 1..servers : \A n \in 1..Len(out[p]) : out[p][n] \in answered

TypeInv == Types /\ Ranges

LockInv == \A c \in Calls : Starts(calls[c]) <=> lock = c

OneReads ==
    \A c, d \in Calls :
        calls[c].pc = "reading" /\ calls[d].pc = "reading" /\ calls[c].on = calls[d].on => c = d

(* Who waits, waits for the answer to a request of this invocation, on the *)
(* server it went to or, where the slot was refilled, on a later one; the  *)
(* server in the slot is no earlier one.                                   *)
IsRequest(request, c, call) ==
    /\ request.by = c /\ request.what = call.what /\ request.to <= call.on
    /\ call.what # "call" => request.to = call.on

RequestInv ==
    \A c \in Calls : Waits(calls[c]) =>
        /\ calls[c].id \in 1..Len(sent) /\ calls[c].id > calls[c].since
        /\ calls[c].on \in 1..servers /\ (proc # 0 => calls[c].on <= proc)
        /\ IsRequest(sent[calls[c].id], c, calls[c])

(* Requests to a tool this invocation wrote and no longer waits for: none  *)
(* before the transport failed, one after.  The stream that ended was of   *)
(* its server or of a later one, and of none the next request can go to.   *)
Lost(c) == {i \in Attempts(c) : WaitsForTool(calls[c]) => i # calls[c].id}

Past(p) == proc # 0 => p < proc
StreamLost(c, i) ==
    \E p \in eof : /\ sent[i].to <= p /\ Past(p)
                   /\ WaitsForTool(calls[c]) => p < sent[calls[c].id].to

TriesInv ==
    \A c \in Calls : calls[c].pc # "idle" =>
        /\ \A i \in Lost(c) : StreamLost(c, i)
        /\ \A i \in Lost(c) : WaitsForTool(calls[c]) => i < calls[c].id
        /\ \A i, j \in Lost(c) : i = j
        /\ calls[c].tries = 1 /\ calls[c].pc # "dropping" => Lost(c) = {}

Greeted(p) == \E j \in answered : sent[j].what = "init" /\ sent[j].to = p

(* The flag speaks of the server in the slot; nobody puts another one there*)
(* while a call is inside start.                                           *)
ServerInv ==
    /\ initialized = TRUE => proc # 0 /\ Greeted(proc)
    /\ \A c \in Calls : calls[c].pc \in {"clearing", "spawn"} => proc = 0
    /\ \A c \in Calls : Starts(calls[c]) /\ Waits(calls[c]) => proc \in {0, calls[c].on}

Inv == /\ TypeInv /\ LockInv /\ OneReads /\ RequestInv /\ OwnAnswer /\ TriesInv
       /\ ServerInv /\ HandshakeFirst /\ NoServerLeaks

-----------------------------------------------------------------------------
(* What a step makes of the call that takes it: new is its record after.   *)

(* It writes a request, or it waits for the same one as before, if any, on *)
(* the server it did or on the one that now is in the slot.                *)
Sends(c, new) ==
    /\ sent' = Append(sent, [by |-> c, what |-> new.what, to |-> new.on])
    /\ new.pc = "written" /\ new.what \in Asks /\ new.id = Len(sent) + 1
    /\ new.on = proc' /\ new.on \in 1..servers'
    /\ ~WaitsForTool(calls[c])
    /\ new.what = "call" => initialized = TRUE /\ proc' = proc

Keeps(c, new) ==
    /\ sent' = sent /\ new.id <= Len(sent)
    /\ Waits(new) => /\ Waits(calls[c])
                     /\ new.id = calls[c].id /\ new.what = calls[c].what
                     /\ new.since = calls[c].since
                     /\ \/ new.on = calls[c].on
                        \/ proc # 0 /\ proc' = proc /\ new.on = proc

RequestStep(c, new) == Sends(c, new) \/ Keeps(c, new)

(* An invocation begins with nothing; it ends with no answer, or its own.  *)
InvocationStep(c, new) ==
    /\ \/ new.since = calls[c].since
       \/ calls[c].pc = "idle" /\ new.since = Len(sent) /\ new.answer = 0
    /\ \/ new.answer \in {0, calls[c].answer}
       \/ WaitsForTool(calls[c]) /\ new.answer = calls[c].id /\ new.since = calls[c].since
    /\ calls[c].pc = "idle" /\ new.pc # "idle" => new.since = Len(sent)

(* It gives a request to a tool up for another only when the stream it is  *)
(* waiting on has ended, and it has one to spare; the slot is empty then.  *)
StreamOver(c) == \E p \in eof : calls[c].on <= p

TriesStep(c, new) ==
    /\ new.tries = 1 /\ new.pc \notin {"idle", "dropping"} =>
           calls[c].pc = "idle" \/ (calls[c].tries = 1 /\ calls[c].pc # "dropping")
    /\ WaitsForTool(calls[c]) /\ new.pc # "idle" =>
           \/ WaitsForTool(new)
           \/ new.pc = "dropping" /\ calls[c].tries = 1 /\ proc' = 0 /\ StreamOver(c)

(* The slot is left alone, emptied, filled by who is inside start, or its  *)
(* server has answered the handshake.                                      *)
SlotStep(c) ==
    \/ UNCHANGED <<proc, initialized, closed, servers>>
    \/ /\ proc' = 0 /\ initialized' = FALSE /\ servers' = servers
       /\ closed' = closed \cup ({proc} \ {0})
    \/ /\ calls[c].pc = "spawn" /\ proc' = servers + 1 /\ servers' = servers + 1
       /\ UNCHANGED <<initialized, closed>>
    \/ /\ Waits(calls[c]) /\ calls[c].what = "init" /\ calls[c].id \in answered
       /\ proc # 0 /\ initialized' = TRUE
       /\ UNCHANGED <<proc, closed, servers>>

Makes(c, new) ==
    /\ new \in Call /\ calls' = [calls EXCEPT ![c] = new]
    /\ RequestStep(c, new) /\ InvocationStep(c, new) /\ TriesStep(c, new)
    /\ SlotStep(c)
    /\ new.drop <= servers'
    /\ new.pc \in {"clearing", "spawn"} => proc' = 0
    /\ new.pc = "reading" => Waiting(new.on) = {}

(* The lock is with the call inside start.                                 *)
LockStep(c, new) ==
    /\ Starts(new) => lock \in {c, Nobody}
    /\ lock' = IF Starts(new) THEN c ELSE IF lock = c THEN Nobody ELSE lock

(* The other variables: what is there to read is only taken away.          *)
OthersStep ==
    /\ state' \in {"healthy", "unavailable"} /\ begun' \in 0..MaxInvocations
    /\ servers' \in 0..MaxServers
    /\ eof' = eof /\ answered' = answered
    /\ reaped \subseteq reaped' /\ reaped' \subseteq 1..servers'
    /\ out' \in Seq(Seq(Nat)) /\ Len(out') = servers'
    /\ \A p \in 1..servers' : \A n \in 1..Len(out'[p]) : out'[p][n] \in answered

CallStep(c, new) == Makes(c, new) /\ LockStep(c, new) /\ OthersStep

-----------------------------------------------------------------------------
(* The pieces the steps are made of.                                       *)

LEMMA CallFields ==
    ASSUME NEW call \in Call
    PROVE  /\ call.pc \in Place /\ call.tries \in 0..1 /\ call.id \in Nat
           /\ call.what \in Asks \cup {"none"} /\ call.on \in Nat /\ call.drop \in Nat
           /\ call.since \in Nat /\ call.answer \in Nat
BY DEF Call

LEMMA CallFacts ==
    ASSUME TypeInv, NEW c \in Calls
    PROVE  /\ calls[c] \in Call /\ calls[c].id <= Len(sent) /\ calls[c].since <= Len(sent)
           /\ calls[c].drop <= servers /\ Len(sent) \in Nat
           /\ proc \in 0..servers /\ servers \in Nat
BY LimitsAssumption DEF TypeInv, Types, Ranges

LEMMA IdleFields ==
    /\ Idle \in Call
    /\ Idle.pc = "idle" /\ Idle.tries = 0 /\ Idle.id = 0 /\ Idle.what = "none"
    /\ Idle.on = 0 /\ Idle.drop = 0 /\ Idle.since = 0 /\ Idle.answer = 0
<1>1. "idle" \in Place /\ "none" \in Asks \cup {"none"} /\ 0 \in 0..1
    BY DEF Place
<1>. QED BY <1>1 DEF Idle, Call

(* A call as its invocation begins, and as it ends.                        *)
Fresh == [Idle EXCEPT !.tries = 1, !.since = Len(sent)]
Ended(call, answer) == [Idle EXCEPT !.since = call.since, !.answer = answer]

(* A record with a new place, and one with a new request.                  *)
Placed(call, pc, tries, drop) == [call EXCEPT !.pc = pc, !.tries = tries, !.drop = drop]
Asking(call, what, id, server) ==
    [call EXCEPT !.pc = "written", !.what = what, !.id = id, !.on = server]

LEMMA FreshFields ==
    ASSUME TypeInv
    PROVE  /\ Fresh \in Call
           /\ Fresh.pc = "idle" /\ Fresh.tries = 1 /\ Fresh.id = 0 /\ Fresh.what = "none"
           /\ Fresh.on = 0 /\ Fresh.drop = 0 /\ Fresh.since = Len(sent) /\ Fresh.answer = 0
<1>1. Len(sent) \in Nat /\ 1 \in 0..1
    BY DEF TypeInv, Types
<1>. QED BY <1>1, IdleFields DEF Fresh, Call

LEMMA EndedFields ==
    ASSUME NEW call \in Call, NEW answer \in Nat
    PROVE  /\ Ended(call, answer) \in Call
           /\ Ended(call, answer).pc = "idle" /\ Ended(call, answer).tries = 0
           /\ Ended(call, answer).drop = 0 /\ Ended(call, answer).id = 0
           /\ Ended(call, answer).since = call.since /\ Ended(call, answer).answer = answer
BY IdleFields, CallFields DEF Ended, Call

IsPlaced(new, call, pc, tries, drop) ==
    /\ new \in Call /\ new.pc = pc /\ new.tries = tries /\ new.drop = drop
    /\ new.id = call.id /\ new.what = call.what /\ new.on = call.on
    /\ new.since = call.since /\ new.answer = call.answer

LEMMA PlacedFields ==
    ASSUME NEW call \in Call, NEW pc \in Place, NEW tries \in 0..1, NEW drop \in Nat
    PROVE  IsPlaced(Placed(call, pc, tries, drop), call, pc, tries, drop)
BY DEF Placed, IsPlaced, Call

IsAsking(new, call, what, id, server) ==
    /\ new \in Call /\ new.pc = "written" /\ new.what = what /\ new.id = id
    /\ new.on = server /\ new.tries = call.tries /\ new.drop = call.drop
    /\ new.since = call.since /\ new.answer = call.answer

LEMMA AskingFields ==
    ASSUME NEW call \in Call, NEW what \in Asks, NEW id \in Nat, NEW server \in Nat
    PROVE  IsAsking(Asking(call, what, id, server), call, what, id, server)
<1>1. "written" \in Place /\ what \in Asks \cup {"none"}
    BY DEF Place
<1>. QED BY <1>1 DEF Asking, IsAsking, Call

(* A call whose record is of the invocation under way, but for the server  *)
(* it reads, or just begun.                                                *)
Alike(call, old) ==
    /\ call \in Call
    /\ call.pc = old.pc /\ call.tries = old.tries /\ call.id = old.id
    /\ call.what = old.what /\ call.drop = old.drop
    /\ call.since = old.since /\ call.answer = old.answer

Current(c, call) == \/ Alike(call, calls[c]) /\ calls[c].pc \notin {"idle", "dropping"}
                    \/ call = Fresh /\ calls[c].pc = "idle"

LEMMA ItselfAlike ==
    ASSUME TypeInv, NEW c \in Calls
    PROVE  /\ Alike(calls[c], calls[c])
           /\ calls[c].pc \notin {"idle", "dropping"} => Current(c, calls[c])
BY CallFacts DEF Alike, Current

LEMMA FailMakes ==
    ASSUME TypeInv, NEW c \in Calls, Fail(c),
           UNCHANGED <<sent, proc, initialized, closed, servers>>
    PROVE  \E new : Makes(c, new) /\ new.pc = "idle"
<1> DEFINE new == Ended(calls[c], 0)
<1>1. calls' = [calls EXCEPT ![c] = new]
    BY DEF Fail, Finish, Becomes, Ended
<1>2. /\ new \in Call /\ new.pc = "idle" /\ new.id = 0 /\ new.since = calls[c].since
      /\ new.answer = 0 /\ new.drop = 0
  <2>1. calls[c] \in Call /\ 0 \in Nat
    BY CallFacts
  <2>. QED BY <2>1, EndedFields
<1> HIDE DEF new
<1>3. Keeps(c, new) /\ InvocationStep(c, new) /\ TriesStep(c, new) /\ SlotStep(c)
    BY <1>2, CallFacts DEF Keeps, InvocationStep, TriesStep, SlotStep, Waits
<1>4. new.drop <= servers'
    BY <1>2, CallFacts
<1>. QED BY <1>1, <1>2, <1>3, <1>4 DEF Makes, RequestStep

LEMMA ShutdownMakes ==
    ASSUME TypeInv, NEW c \in Calls, NEW call, Current(c, call),
           NEW pc \in {"clearing", "failing", "dropping"}, Shutdown(c, call, pc),
           servers' = servers,
           WaitsForTool(calls[c]) =>
               pc = "dropping" /\ calls[c].tries = 1 /\ StreamOver(c)
    PROVE  \E new : Makes(c, new) /\ new.pc = pc
<1> DEFINE new == Placed(call, pc, call.tries, proc)
<1>1. call \in Call /\ call.id <= Len(sent)
    BY CallFacts, FreshFields DEF Current, Alike
<1>2. /\ new \in Call /\ new.pc = pc /\ new.tries = call.tries /\ new.drop = proc
      /\ new.id = call.id /\ new.since = call.since /\ new.answer = call.answer
  <2>1. call \in Call /\ pc \in Place /\ call.tries \in 0..1 /\ proc \in Nat
    BY <1>1, CallFacts, CallFields DEF Place
  <2>2. IsPlaced(new, call, pc, call.tries, proc)
    BY <2>1, PlacedFields
  <2>. QED BY <2>2 DEF IsPlaced
<1>3. [call EXCEPT !.pc = pc, !.drop = proc] = new
    BY <1>1 DEF Call, Placed
<1> HIDE DEF new
<1>4. /\ calls' = [calls EXCEPT ![c] = new] /\ sent' = sent
      /\ proc' = 0 /\ initialized' = FALSE /\ closed' = closed \cup ({proc} \ {0})
    BY <1>3 DEF Shutdown, Becomes
<1>5. Keeps(c, new) /\ SlotStep(c)
    BY <1>1, <1>2, <1>4 DEF Keeps, SlotStep, Waits
<1>6. InvocationStep(c, new) /\ TriesStep(c, new)
    BY <1>2, <1>4, FreshFields DEF InvocationStep, TriesStep, Current, Alike
<1>7. new.drop <= servers' /\ proc' = 0
    BY <1>2, <1>4, CallFacts
<1>. QED BY <1>2, <1>4, <1>5, <1>6, <1>7 DEF Makes, RequestStep

LEMMA LoseMakes ==
    ASSUME TypeInv, NEW c \in Calls, NEW call, Current(c, call), Lose(c, call),
           servers' = servers, WaitsForTool(calls[c]) => StreamOver(c)
    PROVE  \E new : Makes(c, new) /\ new.pc \in {"idle", "dropping"}
<1>1. CASE call.tries > 0
    <2>1. call.tries = 1 /\ (WaitsForTool(calls[c]) => calls[c].tries = 1)
        BY <1>1, CallFacts, CallFields, FreshFields DEF Current, Alike, WaitsForTool, Waits
    <2>. QED BY <1>1, <2>1, ShutdownMakes DEF Lose
<1>2. CASE ~(call.tries > 0)
    BY <1>2, FailMakes DEF Lose
<1>. QED BY <1>1, <1>2

LEMMA WriteMakes ==
    ASSUME TypeInv, NEW c \in Calls, NEW call, Current(c, call), NEW what \in Asks,
           NEW server \in 1..servers', proc' = server, Write(c, call, what, server),
           SlotStep(c), ~WaitsForTool(calls[c]),
           what = "call" => initialized = TRUE /\ proc' = proc, servers' \in Nat,
           servers <= servers'
    PROVE  \E new : Makes(c, new) /\ new.pc = "written" /\ new.what = what
<1> DEFINE new == Asking(call, what, Len(sent) + 1, server)
<1>1. call \in Call /\ call.drop <= servers
    BY CallFacts, FreshFields DEF Current, Alike
<1>2. /\ new \in Call /\ new.pc = "written" /\ new.what = what /\ new.id = Len(sent) + 1
      /\ new.on = server /\ new.tries = call.tries /\ new.drop = call.drop
      /\ new.since = call.since /\ new.answer = call.answer
  <2>1. call \in Call /\ Len(sent) + 1 \in Nat /\ server \in Nat
    BY <1>1, CallFacts
  <2>2. IsAsking(new, call, what, Len(sent) + 1, server)
    BY <2>1, AskingFields
  <2>. QED BY <2>2 DEF IsAsking
<1>3. /\ calls' = [calls EXCEPT ![c] = new]
      /\ sent' = Append(sent, [by |-> c, what |-> what, to |-> server])
    BY DEF Write, Becomes, Asking
<1> HIDE DEF new
<1>4. Sends(c, new)
    BY <1>2, <1>3 DEF Sends
<1>5. InvocationStep(c, new)
    BY <1>2, FreshFields DEF InvocationStep, Current, Alike
<1>6. TriesStep(c, new)
    BY <1>2, FreshFields DEF TriesStep, Current, Alike
<1>7. new.drop <= servers'
    BY <1>1, <1>2, CallFacts, CallFields
<1>. QED BY <1>2, <1>3, <1>4, <1>5, <1>6, <1>7 DEF Makes, RequestStep

LEMMA TryCallMakes ==
    ASSUME TypeInv, NEW c \in Calls, NEW call, Current(c, call), TryCall(c, call),
           servers' = servers, ~WaitsForTool(calls[c])
    PROVE  \E new : Makes(c, new) /\ ~Starts(new)
<1>1. CASE proc = 0 \/ ~initialized
    <2>1. Lose(c, call)
        BY <1>1 DEF TryCall
    <2>. QED BY <2>1, LoseMakes DEF Starts, Waits
<1>2. CASE ~(proc = 0 \/ ~initialized) /\ Write(c, call, "call", proc)
    <2>1. UNCHANGED <<proc, initialized, closed, servers>>
        BY <1>2 DEF TryCall
    <2>2. initialized = TRUE /\ proc \in 1..servers' /\ servers' \in Nat
        BY <1>2, <2>1, CallFacts DEF TypeInv, Types
    <2>3. SlotStep(c)
        BY <2>1 DEF SlotStep
    <2>4. \E new : Makes(c, new) /\ new.pc = "written" /\ new.what = "call"
        BY <1>2, <2>1, <2>2, <2>3, WriteMakes DEF Asks
    <2>. QED BY <2>4 DEF Starts, Waits
<1>3. CASE ~(proc = 0 \/ ~initialized) /\ ~Write(c, call, "call", proc)
    <2>1. Fail(c) /\ UNCHANGED <<sent, proc, initialized, closed, servers>>
        BY <1>3 DEF TryCall
    <2>. QED BY <2>1, FailMakes DEF Starts, Waits
<1>. QED BY <1>1, <1>2, <1>3

(* It goes to another place of the same invocation, and nothing else.      *)
Goes(c, call, pc, tries, drop) ==
    /\ calls' = [calls EXCEPT ![c] = Placed(call, pc, tries, drop)]
    /\ UNCHANGED <<sent, proc, initialized, closed, servers>>
    /\ \/ /\ Alike(call, calls[c]) /\ calls[c].pc # "idle"
          /\ call.on = calls[c].on \/ (proc # 0 /\ call.on = proc)
       \/ call = Fresh /\ calls[c].pc = "idle"
    /\ pc \in {"lock", "spawn", "reading"}
    /\ tries \in {0, call.tries} /\ drop \in {0, call.drop}
    /\ calls[c].pc = "dropping" => tries = 0
    /\ pc = "spawn" => proc = 0
    /\ IF pc = "reading" THEN Waits(call) /\ Waiting(call.on) = {}
       ELSE ~WaitsForTool(calls[c])

LEMMA GoesMakes ==
    ASSUME TypeInv, NEW c \in Calls, NEW call, NEW pc, NEW tries, NEW drop,
           Goes(c, call, pc, tries, drop)
    PROVE  \E new : Makes(c, new) /\ new.pc = pc /\ new.what = call.what
<1> DEFINE new == Placed(call, pc, tries, drop)
<1>1. /\ call \in Call /\ call.id <= Len(sent) /\ call.drop <= servers
      /\ 0 <= servers
    BY CallFacts, FreshFields DEF Goes, Alike
<1>2. pc \in Place /\ tries \in 0..1 /\ drop \in Nat /\ drop <= servers
    BY <1>1, CallFields DEF Place, Goes
<1>3. IsPlaced(new, call, pc, tries, drop)
    BY <1>1, <1>2, PlacedFields
<1>9. calls' = [calls EXCEPT ![c] = new]
    BY DEF Goes
<1> HIDE DEF new
<1>4. Waits(call) =>
          /\ Alike(call, calls[c])
          /\ call.on = calls[c].on \/ (proc # 0 /\ call.on = proc)
    BY FreshFields DEF Waits, Goes
<1>5. Keeps(c, new)
    BY <1>1, <1>3, <1>4 DEF Keeps, Waits, IsPlaced, Goes, Alike
<1>6. InvocationStep(c, new)
    BY <1>3, FreshFields DEF InvocationStep, IsPlaced, Goes, Alike
<1>7. TriesStep(c, new)
  <2>1. CASE pc = "reading"
    BY <1>3, <1>4, <2>1 DEF TriesStep, IsPlaced, Goes, Alike, WaitsForTool, Waits
  <2>2. CASE pc # "reading"
    BY <1>3, <2>2, FreshFields DEF TriesStep, IsPlaced, Goes, Alike
  <2>. QED BY <2>1, <2>2
<1>8. SlotStep(c)
    BY DEF SlotStep, Goes
<1>10. /\ new \in Call /\ new.pc = pc /\ new.what = call.what /\ new.drop <= servers'
       /\ new.pc \in {"clearing", "spawn"} => proc' = 0
       /\ new.pc = "reading" => Waiting(new.on) = {}
    BY <1>2, <1>3 DEF IsPlaced, Goes
<1>. QED BY <1>5, <1>6, <1>7, <1>8, <1>9, <1>10 DEF Makes, RequestStep

LEMMA FinishMakes ==
    ASSUME TypeInv, NEW c \in Calls, WaitsForTool(calls[c]), Finish(c, calls[c].id),
           UNCHANGED <<sent, proc, initialized, closed, servers>>
    PROVE  \E new : Makes(c, new) /\ new.pc = "idle"
<1> DEFINE new == Ended(calls[c], calls[c].id)
<1>1. calls' = [calls EXCEPT ![c] = new]
    BY DEF Finish, Becomes, Ended
<1>2. /\ new \in Call /\ new.pc = "idle" /\ new.id = 0 /\ new.since = calls[c].since
      /\ new.answer = calls[c].id /\ new.drop = 0
  <2>1. calls[c] \in Call /\ calls[c].id \in Nat
    BY CallFacts, CallFields
  <2>. QED BY <2>1, EndedFields
<1> HIDE DEF new
<1>3. Keeps(c, new) /\ InvocationStep(c, new) /\ TriesStep(c, new) /\ SlotStep(c)
    BY <1>2, CallFacts DEF Keeps, InvocationStep, TriesStep, SlotStep, Waits
<1>4. new.drop <= servers'
    BY <1>2, CallFacts
<1>. QED BY <1>1, <1>2, <1>3, <1>4 DEF Makes, RequestStep

(* A place in the record, in the words of Mcp.                             *)
LEMMA OnlyPlaced ==
    ASSUME NEW call \in Call, NEW pc
    PROVE  /\ [call EXCEPT !.pc = pc] = Placed(call, pc, call.tries, call.drop)
           /\ [[call EXCEPT !.pc = pc] EXCEPT !.drop = 0] = Placed(call, pc, call.tries, 0)
           /\ [[call EXCEPT !.pc = pc] EXCEPT !.tries = 0, !.drop = 0] = Placed(call, pc, 0, 0)
BY DEF Placed, Call

LEMMA LineKept ==
    ASSUME TypeInv, NEW p \in 1..servers, NEW rest \in Seq(Nat),
           \A n \in 1..Len(rest) : rest[n] \in answered,
           out' = [out EXCEPT ![p] = rest]
    PROVE  /\ out' \in Seq(Seq(Nat)) /\ Len(out') = servers
           /\ \A q \in 1..servers : \A n \in 1..Len(out'[q]) : out'[q][n] \in answered
<1>1. /\ out \in Seq(Seq(Nat)) /\ Len(out) = servers
      /\ \A q \in 1..servers : \A n \in 1..Len(out[q]) : out[q][n] \in answered
    BY DEF TypeInv, Types, Ranges
<1>2. out' \in Seq(Seq(Nat)) /\ Len(out') = servers
    BY <1>1
<1>3. \A q \in 1..servers : out'[q] = IF q = p THEN rest ELSE out[q]
    BY <1>1
<1>. QED BY <1>1, <1>2, <1>3

LEMMA OthersKept ==
    ASSUME TypeInv, UNCHANGED <<servers, eof, answered, out>>,
           state' \in {"healthy", "unavailable"}, begun' \in 0..MaxInvocations,
           reaped \subseteq reaped', reaped' \subseteq 1..servers
    PROVE  OthersStep
BY DEF TypeInv, Types, Ranges, OthersStep

LEMMA OthersFixed ==
    ASSUME TypeInv, UNCHANGED <<state, processes, out, answered, begun>>
    PROVE  OthersStep
BY OthersKept DEF TypeInv, Types, processes

(* The exit of the server a call is shutting down.                         *)
LEMMA ReapedInRange ==
    ASSUME TypeInv, NEW c \in Calls, Reaped(c)
    PROVE  reaped \subseteq reaped' /\ reaped' \subseteq 1..servers
<1>1. calls[c].drop \in 0..servers
    BY CallFacts, CallFields
<1>2. {calls[c].drop} \ {0} \subseteq 1..servers /\ reaped \subseteq 1..servers
    BY <1>1, CallFacts DEF TypeInv, Types
<1>. QED BY <1>2 DEF Reaped

-----------------------------------------------------------------------------
(* The steps.                                                              *)

LEMMA LockOfOthers ==
    ASSUME TypeInv, LockInv, NEW c \in Calls, NEW new, ~Starts(new),
           lock' = lock, ~Starts(calls[c])
    PROVE  LockStep(c, new)
BY DEF LockInv, LockStep

LEMMA InvokeStep ==
    ASSUME TypeInv, LockInv, NEW c \in Calls, Invoke(c)
    PROVE  \E new : CallStep(c, new)
<1>1. calls[c].pc = "idle" /\ lock' = lock
    BY DEF Invoke
<1>2. ~Starts(calls[c]) /\ ~WaitsForTool(calls[c])
    BY <1>1 DEF Starts, Waits, WaitsForTool
<1>3. OthersStep
    BY OthersKept, LimitsAssumption DEF Invoke, TypeInv, Types, processes
<1>4. Fresh = [Idle EXCEPT !.tries = 1, !.since = Len(sent)] /\ servers' = servers
    BY DEF Fresh, Invoke, processes
<1>5. \E new : Makes(c, new) /\ ~Starts(new)
  <2>1. CASE Dead \/ state = "unavailable"
    <3>1. /\ calls' = [calls EXCEPT ![c] = [Fresh EXCEPT !.pc = "lock"]]
          /\ UNCHANGED <<sent, proc, initialized, closed, servers>>
        BY <1>4, <2>1 DEF Invoke, Becomes
    <3>2. calls' = [calls EXCEPT ![c] = Placed(Fresh, "lock", Fresh.tries, Fresh.drop)]
        BY <3>1, FreshFields, OnlyPlaced
    <3>3. Goes(c, Fresh, "lock", Fresh.tries, Fresh.drop)
        BY <1>1, <1>2, <3>1, <3>2 DEF Goes
    <3>4. \E new : Makes(c, new) /\ new.pc = "lock" /\ new.what = Fresh.what
        BY <3>3, GoesMakes
    <3>. QED BY <3>4 DEF Starts, Waits
  <2>2. CASE ~(Dead \/ state = "unavailable")
    <3>1. TryCall(c, Fresh)
        BY <1>4, <2>2 DEF Invoke
    <3>. QED BY <1>1, <1>2, <1>4, <3>1, TryCallMakes DEF Current
  <2>. QED BY <2>1, <2>2
<1>. QED BY <1>1, <1>2, <1>3, <1>5, LockOfOthers DEF CallStep

LEMMA LockTaken ==
    ASSUME TypeInv, LockInv, NEW c \in Calls, Lock(c)
    PROVE  \E new : CallStep(c, new)
<1>1. calls[c].pc = "lock" /\ lock = Nobody /\ servers' = servers
    BY DEF Lock, processes
<1>2. ~Starts(calls[c]) /\ ~WaitsForTool(calls[c]) /\ Current(c, calls[c])
    BY <1>1, ItselfAlike DEF Starts, Waits, WaitsForTool
<1>3. OthersStep
    BY OthersFixed DEF Lock
<1>4. CASE TryCall(c, calls[c]) /\ UNCHANGED lock
  <2>1. \E new : Makes(c, new) /\ ~Starts(new)
    BY <1>1, <1>2, <1>4, TryCallMakes
  <2>. QED BY <1>2, <1>3, <1>4, <2>1, LockOfOthers DEF CallStep
<1>5. CASE lock' = c /\ proc # 0 /\ Shutdown(c, calls[c], "clearing")
  <2>1. \E new : Makes(c, new) /\ new.pc = "clearing"
    BY <1>1, <1>2, <1>5, ShutdownMakes
  <2>2. ASSUME NEW new, new.pc = "clearing" PROVE LockStep(c, new)
    BY <1>1, <1>5, <2>2 DEF LockStep, Starts
  <2>. QED BY <1>3, <2>1, <2>2 DEF CallStep
<1>6. CASE /\ lock' = c /\ proc = 0 /\ Becomes(c, At(c, "spawn"))
           /\ UNCHANGED <<proc, initialized, closed, sent>>
  <2>1. calls' = [calls EXCEPT ![c] = Placed(calls[c], "spawn", calls[c].tries, calls[c].drop)]
    BY <1>6, CallFacts, OnlyPlaced DEF Becomes, At
  <2>2. Goes(c, calls[c], "spawn", calls[c].tries, calls[c].drop)
    BY <1>1, <1>2, <1>6, <2>1, ItselfAlike DEF Goes
  <2>3. \E new : Makes(c, new) /\ new.pc = "spawn" /\ new.what = calls[c].what
    BY <2>2, GoesMakes
  <2>4. ASSUME NEW new, new.pc = "spawn" PROVE LockStep(c, new)
    BY <1>1, <1>6, <2>4 DEF LockStep, Starts
  <2>. QED BY <1>3, <2>3, <2>4 DEF CallStep
<1>. QED BY <1>4, <1>5, <1>6 DEF Lock

LEMMA ClearStep ==
    ASSUME TypeInv, LockInv, ServerInv, NEW c \in Calls, Clear(c)
    PROVE  \E new : CallStep(c, new)
<1>1. calls[c].pc = "clearing" /\ proc = 0 /\ lock = c /\ lock' = lock
    BY DEF Clear, ServerInv, LockInv, Starts
<1>2. /\ calls' = [calls EXCEPT ![c] = [[calls[c] EXCEPT !.pc = "spawn"] EXCEPT !.drop = 0]]
      /\ UNCHANGED <<sent, proc, initialized, closed, servers>>
    BY DEF Clear, Becomes, At, adapter
<1>3. Goes(c, calls[c], "spawn", calls[c].tries, 0)
  <2>1. calls' = [calls EXCEPT ![c] = Placed(calls[c], "spawn", calls[c].tries, 0)]
    BY <1>2, CallFacts, OnlyPlaced
  <2>. QED BY <1>1, <1>2, <2>1, ItselfAlike DEF Goes, WaitsForTool, Waits
<1>4. \E new : Makes(c, new) /\ new.pc = "spawn" /\ new.what = calls[c].what
    BY <1>3, GoesMakes
<1>5. OthersStep
    BY ReapedInRange, OthersKept DEF Clear, adapter, TypeInv, Types
<1>6. ASSUME NEW new, new.pc = "spawn" PROVE LockStep(c, new)
    BY <1>1, <1>6 DEF LockStep, Starts
<1>. QED BY <1>4, <1>5, <1>6 DEF CallStep

LEMMA DropStep ==
    ASSUME TypeInv, LockInv, NEW c \in Calls, Drop(c)
    PROVE  \E new : CallStep(c, new)
<1>1. calls[c].pc = "dropping" /\ ~Starts(calls[c]) /\ ~WaitsForTool(calls[c]) /\ lock' = lock
    BY DEF Drop, Starts, Waits, WaitsForTool
<1>2. /\ calls' = [calls EXCEPT ![c] =
                      [[calls[c] EXCEPT !.pc = "lock"] EXCEPT !.tries = 0, !.drop = 0]]
      /\ UNCHANGED <<sent, proc, initialized, closed, servers>>
    BY DEF Drop, Becomes, At
<1>3. Goes(c, calls[c], "lock", 0, 0)
  <2>1. calls' = [calls EXCEPT ![c] = Placed(calls[c], "lock", 0, 0)]
    BY <1>2, CallFacts, OnlyPlaced
  <2>. QED BY <1>1, <1>2, <2>1, ItselfAlike DEF Goes
<1>4. \E new : Makes(c, new) /\ new.pc = "lock" /\ new.what = calls[c].what
    BY <1>3, GoesMakes
<1>5. OthersStep
    BY ReapedInRange, OthersKept DEF Drop, TypeInv, Types
<1>6. ASSUME NEW new, new.pc = "lock" PROVE ~Starts(new)
    BY <1>6 DEF Starts, Waits
<1>. QED BY <1>1, <1>4, <1>5, <1>6, LockOfOthers DEF CallStep

LEMMA StartFailsMakes ==
    ASSUME TypeInv, LockInv, NEW c \in Calls, Starts(calls[c]), StartFails(c),
           servers' = servers, lock' = lock, OthersStep
    PROVE  \E new : CallStep(c, new)
<1>1. Current(c, calls[c]) /\ ~WaitsForTool(calls[c])
    BY ItselfAlike DEF Starts, Waits, WaitsForTool
<1>2. \E new : Makes(c, new) /\ new.pc = "failing"
    BY <1>1, ShutdownMakes DEF StartFails
<1>3. ASSUME NEW new, new.pc = "failing" PROVE LockStep(c, new)
    BY <1>3 DEF LockStep, Starts, LockInv
<1>. QED BY <1>2, <1>3 DEF CallStep

LEMMA SpawnStep ==
    ASSUME TypeInv, LockInv, ServerInv, NEW c \in Calls, Spawn(c)
    PROVE  \E new : CallStep(c, new)
<1>1. calls[c].pc = "spawn" /\ Starts(calls[c]) /\ lock' = lock /\ lock = c
    BY DEF Spawn, Starts, LockInv
<1>2. CASE StartFails(c) /\ UNCHANGED <<servers, out>>
  <2>1. OthersStep
    BY <1>2, OthersFixed DEF Spawn, processes
  <2>. QED BY <1>1, <1>2, <2>1, StartFailsMakes
<1>3. CASE /\ servers < MaxServers /\ servers' = servers + 1 /\ proc' = servers + 1
           /\ out' = Append(out, <<>>)
           /\ Write(c, calls[c], "init", servers + 1)
           /\ UNCHANGED <<initialized, closed>>
  <2>1. Current(c, calls[c]) /\ ~WaitsForTool(calls[c])
    BY <1>1, ItselfAlike DEF WaitsForTool, Waits
  <2>2. /\ servers + 1 \in 1..servers' /\ servers' \in Nat /\ servers <= servers'
        /\ servers' \in 0..MaxServers
    BY <1>3, CallFacts, LimitsAssumption
  <2>3. SlotStep(c)
    BY <1>1, <1>3 DEF SlotStep
  <2>4. \E new : Makes(c, new) /\ new.pc = "written" /\ new.what = "init"
    BY <1>3, <2>1, <2>2, <2>3, WriteMakes DEF Asks
  <2>5. ASSUME NEW new, new.pc = "written", new.what = "init" PROVE LockStep(c, new)
    BY <1>1, <2>5 DEF LockStep, Starts, Waits
  <2>6. OthersStep
    <3>1. /\ state' = state /\ eof' = eof /\ reaped' = reaped /\ answered' = answered
          /\ begun' = begun
        BY DEF Spawn
    <3>2. /\ out \in Seq(Seq(Nat)) /\ Len(out) = servers /\ <<>> \in Seq(Nat)
          /\ \A p \in 1..servers : \A n \in 1..Len(out[p]) : out[p][n] \in answered
          /\ reaped \subseteq 1..servers
        BY DEF TypeInv, Types, Ranges
    <3>3. /\ out' \in Seq(Seq(Nat)) /\ Len(out') = servers'
          /\ \A p \in 1..servers : out'[p] = out[p]
          /\ out'[servers + 1] = <<>>
        BY <1>3, <2>2, <3>2, AppendProperties
    <3>4. \A p \in 1..servers' : \A n \in 1..Len(out'[p]) : out'[p][n] \in answered
      <4>1. ASSUME NEW p \in 1..servers', NEW n \in 1..Len(out'[p])
            PROVE  out'[p][n] \in answered
        <5>1. CASE p = servers + 1
            BY <3>3, <4>1, <5>1
        <5>2. CASE p \in 1..servers
            BY <3>2, <3>3, <4>1, <5>2
        <5>3. p = servers + 1 \/ p \in 1..servers
            BY <1>3, CallFacts
        <5>. QED BY <5>1, <5>2, <5>3
      <4>. QED BY <4>1
    <3>5. reaped' \subseteq 1..servers'
        BY <1>3, <3>1, <3>2, CallFacts
    <3>6. state' \in {"healthy", "unavailable"} /\ begun' \in 0..MaxInvocations
        BY <3>1 DEF TypeInv, Types
    <3>. QED BY <2>2, <3>1, <3>3, <3>4, <3>5, <3>6 DEF OthersStep
  <2>. QED BY <2>4, <2>5, <2>6 DEF CallStep
<1>. QED BY <1>2, <1>3 DEF Spawn

LEMMA FailsMakes ==
    ASSUME TypeInv, LockInv, NEW c \in Calls, Fail(c),
           UNCHANGED <<sent, proc, initialized, closed, servers>>, OthersStep,
           lock' = IF lock = c THEN Nobody ELSE lock
    PROVE  \E new : CallStep(c, new)
<1>1. \E new : Makes(c, new) /\ new.pc = "idle"
    BY FailMakes
<1>2. ASSUME NEW new, new.pc = "idle" PROVE LockStep(c, new)
    BY <1>2 DEF LockStep, Starts, Waits
<1>. QED BY <1>1, <1>2 DEF CallStep

LEMMA FailStartStep ==
    ASSUME TypeInv, LockInv, NEW c \in Calls, FailStart(c)
    PROVE  \E new : CallStep(c, new)
<1>1. Starts(calls[c]) /\ lock = c /\ lock' = Nobody
    BY DEF FailStart, Starts, LockInv
<1>2. OthersStep
    BY ReapedInRange, OthersKept DEF FailStart, TypeInv, Types
<1>3. Fail(c) /\ UNCHANGED <<sent, proc, initialized, closed, servers>>
    BY DEF FailStart
<1>. QED BY <1>1, <1>2, <1>3, FailsMakes

LEMMA CancelStep ==
    ASSUME TypeInv, LockInv, NEW c \in Calls, Cancel(c)
    PROVE  \E new : CallStep(c, new)
<1>1. OthersStep
    BY OthersFixed DEF Cancel, adapter
<1>2. /\ Fail(c) /\ UNCHANGED <<sent, proc, initialized, closed, servers>>
      /\ lock' = IF lock = c THEN Nobody ELSE lock
    BY DEF Cancel, adapter, processes
<1>. QED BY <1>1, <1>2, FailsMakes

(* A request that raises: the call fails, or the handshake does.           *)
LEMMA RaisesMakes ==
    ASSUME TypeInv, LockInv, NEW c \in Calls, Waits(calls[c]), Raises(c),
           servers' = servers, lock' = lock, OthersStep
    PROVE  \E new : CallStep(c, new)
<1>1. CASE calls[c].what = "call"
  <2>1. Fail(c) /\ UNCHANGED <<sent, proc, initialized, closed, servers>>
    BY <1>1 DEF Raises
  <2>2. lock # c
    BY <1>1 DEF LockInv, Starts, Waits
  <2>. QED BY <2>1, <2>2, FailsMakes
<1>2. CASE calls[c].what # "call"
  <2>1. StartFails(c) /\ Starts(calls[c])
    BY <1>2 DEF Raises, Starts
  <2>. QED BY <2>1, StartFailsMakes
<1>. QED BY <1>1, <1>2

LEMMA ExpireStep ==
    ASSUME TypeInv, LockInv, NEW c \in Calls, Expire(c)
    PROVE  \E new : CallStep(c, new)
<1>1. OthersStep
    BY OthersFixed DEF Expire
<1>2. Waits(calls[c]) /\ Raises(c) /\ servers' = servers /\ lock' = lock
    BY DEF Expire, Waits, processes
<1>. QED BY <1>1, <1>2, RaisesMakes

-----------------------------------------------------------------------------
(* Reading.                                                                *)

LEMMA LeastOfWellFounded ==
    ASSUME NEW R, IsWellFoundedOn(R, Nat), \A x, y \in Nat : y < x => <<y, x>> \in R,
           NEW S, S \subseteq Nat, S # {}
    PROVE  \E x \in S : \A y \in S : x <= y
<1>1. PICK x \in S : \A y \in S : ~ (<<y, x>> \in R)
    BY WFMin
<1>2. \A y \in S : ~ (y < x)
    BY <1>1
<1>. QED BY <1>1, <1>2

LEMMA MinInSet ==
    ASSUME NEW S, S \subseteq Nat, S # {}
    PROVE  Min(S) \in S
<1>1. \E x \in S : \A y \in S : x <= y
  <2>1. IsWellFoundedOn(OpToRel(<, Nat), Nat)
    BY NatLessThanWellFounded
  <2>2. \A x, y \in Nat : y < x => <<y, x>> \in OpToRel(<, Nat)
    BY DEF OpToRel
  <2>. QED BY <2>1, <2>2, LeastOfWellFounded
<1>. QED BY <1>1 DEF Min

(* The line a call takes is the answer to its request, and the lines after *)
(* it stay.                                                                *)
LEMMA FirstOfMine ==
    ASSUME TypeInv, NEW c \in Calls, NEW p \in 1..servers,
           NEW mine, mine = Mine(c, out[p]), mine # {}
    PROVE  /\ out[p][Min(mine)] = calls[c].id /\ calls[c].id \in answered
           /\ SubSeq(out[p], Min(mine) + 1, Len(out[p])) \in Seq(Nat)
           /\ \A n \in 1..Len(SubSeq(out[p], Min(mine) + 1, Len(out[p]))) :
                  SubSeq(out[p], Min(mine) + 1, Len(out[p]))[n] \in answered
<1> DEFINE lines == out[p]
           first == Min(mine) + 1
<1>1. lines \in Seq(Nat) /\ Len(lines) \in Nat /\ \A n \in 1..Len(lines) : lines[n] \in answered
    BY DEF TypeInv, Types, Ranges
<1>2. mine \subseteq 1..Len(lines)
    BY <1>1 DEF Mine
<1>3. Min(mine) \in mine
    BY <1>1, <1>2, MinInSet
<1>4. out[p][Min(mine)] = calls[c].id /\ calls[c].id \in answered
    BY <1>1, <1>2, <1>3 DEF Mine
<1>5. Min(mine) \in 1..Len(lines)
    BY <1>2, <1>3
<1> HIDE DEF lines
<1>6. first \in Int /\ first >= 1 /\ \A n \in first..Len(lines) : n \in 1..Len(lines)
    BY <1>1, <1>5
<1>7. \A n \in first..Len(lines) : lines[n] \in answered /\ lines[n] \in Nat
    BY <1>1, <1>6
<1> HIDE DEF first
<1>8. /\ SubSeq(lines, first, Len(lines)) \in Seq(Nat)
      /\ SubSeq(lines, first, Len(lines)) \in Seq(answered)
    BY <1>1, <1>6, <1>7, SubSeqProperties
<1>9. \A n \in 1..Len(SubSeq(lines, first, Len(lines))) :
          SubSeq(lines, first, Len(lines))[n] \in answered
    BY <1>8
<1>. QED BY <1>4, <1>8, <1>9 DEF lines, first

LEMMA TakeStep ==
    ASSUME TypeInv, LockInv, NEW c \in Calls, Waits(calls[c]), calls[c].id \in answered,
           Take(c, calls[c].id), servers' = servers, OthersStep
    PROVE  \E new : CallStep(c, new)
<1>1. CASE /\ calls[c].what = "call" /\ Finish(c, calls[c].id)
           /\ UNCHANGED <<adapter, lock, closed, sent>>
  <2>1. lock # c
    BY <1>1 DEF LockInv, Starts, Waits
  <2>2. WaitsForTool(calls[c]) /\ UNCHANGED <<sent, proc, initialized, closed, servers>>
    BY <1>1 DEF WaitsForTool, adapter
  <2>3. \E new : Makes(c, new) /\ new.pc = "idle"
    BY <1>1, <2>2, FinishMakes
  <2>4. ASSUME NEW new, new.pc = "idle" PROVE LockStep(c, new)
    BY <1>1, <2>1, <2>4 DEF LockStep, Starts, Waits
  <2>. QED BY <2>3, <2>4 DEF CallStep
<1>2. CASE calls[c].what # "call" /\ StartFails(c) /\ UNCHANGED <<state, lock>>
  <2>1. Starts(calls[c]) /\ lock' = lock
    BY <1>2 DEF Starts
  <2>. QED BY <1>2, <2>1, StartFailsMakes
<1>3. CASE /\ calls[c].what = "init" /\ proc # 0 /\ initialized' = TRUE
           /\ Write(c, calls[c], "list", proc)
           /\ UNCHANGED <<proc, state, lock, closed>>
  <2>1. Current(c, calls[c]) /\ ~WaitsForTool(calls[c]) /\ lock = c
    BY <1>3, ItselfAlike DEF Waits, WaitsForTool, LockInv, Starts
  <2>2. proc \in 1..servers' /\ servers' \in Nat /\ servers <= servers' /\ proc' = proc
    BY <1>3, CallFacts
  <2>3. SlotStep(c)
    BY <1>3 DEF SlotStep
  <2>4. \E new : Makes(c, new) /\ new.pc = "written" /\ new.what = "list"
    BY <1>3, <2>1, <2>2, <2>3, WriteMakes DEF Asks
  <2>5. ASSUME NEW new, new.pc = "written", new.what = "list" PROVE LockStep(c, new)
    BY <1>3, <2>1, <2>5 DEF LockStep, Starts, Waits
  <2>. QED BY <2>4, <2>5 DEF CallStep
<1>4. CASE /\ calls[c].what = "list" /\ state' = "healthy" /\ lock' = Nobody
           /\ TryCall(c, calls[c])
  <2>1. Current(c, calls[c]) /\ ~WaitsForTool(calls[c]) /\ lock = c
    BY <1>4, ItselfAlike DEF Waits, WaitsForTool, LockInv, Starts
  <2>2. \E new : Makes(c, new) /\ ~Starts(new)
    BY <1>4, <2>1, TryCallMakes
  <2>3. ASSUME NEW new, ~Starts(new) PROVE LockStep(c, new)
    BY <1>4, <2>1, <2>3 DEF LockStep
  <2>. QED BY <2>2, <2>3 DEF CallStep
<1>. QED BY <1>1, <1>2, <1>3, <1>4 DEF Take

(* The server a call reads: the one it did, or the one now in the slot.    *)
ReadsOn(c, p) == /\ p \in 1..servers /\ calls[c].on <= p
                 /\ p = calls[c].on \/ p = proc

LEMMA ReadingFields ==
    ASSUME TypeInv, NEW c \in Calls, NEW p \in Nat
    PROVE  Alike([calls[c] EXCEPT !.on = p], calls[c]) /\ [calls[c] EXCEPT !.on = p].on = p
BY CallFacts DEF Alike, Call

(* Nothing for the call: the end of the stream, another reader, or a wait. *)
LEMMA WaitStep ==
    ASSUME TypeInv, LockInv, NEW c \in Calls, Waits(calls[c]), servers' = servers,
           OthersStep, lock' = lock, NEW p, ReadsOn(c, p),
           NEW call, Alike(call, calls[c]), call.on = p,
           IF p \in eof
           THEN IF call.what = "call" THEN Lose(c, call) ELSE StartFails(c)
           ELSE IF Waiting(p) # {} THEN Raises(c)
           ELSE /\ Becomes(c, [call EXCEPT !.pc = "reading"])
                /\ UNCHANGED <<proc, initialized, closed, sent>>
    PROVE  \E new : CallStep(c, new)
<1>0. call \in Call /\ call.what = calls[c].what /\ Waits(call) /\ Current(c, call)
    BY DEF Alike, Waits, Current
<1>1. CASE p \in eof /\ calls[c].what = "call"
  <2>1. Lose(c, call) /\ lock # c /\ StreamOver(c)
    BY <1>0, <1>1 DEF Waits, LockInv, Starts, ReadsOn, StreamOver
  <2>2. \E new : Makes(c, new) /\ new.pc \in {"idle", "dropping"}
    BY <1>0, <2>1, LoseMakes
  <2>3. ASSUME NEW new, new.pc \in {"idle", "dropping"} PROVE LockStep(c, new)
    BY <2>1, <2>3 DEF LockStep, Starts, Waits
  <2>. QED BY <2>2, <2>3 DEF CallStep
<1>2. CASE p \in eof /\ calls[c].what # "call"
  <2>1. StartFails(c) /\ Starts(calls[c])
    BY <1>0, <1>2 DEF Starts
  <2>. QED BY <2>1, StartFailsMakes
<1>3. CASE p \notin eof /\ Waiting(p) # {}
  <2>1. Raises(c)
    BY <1>3
  <2>. QED BY <2>1, RaisesMakes
<1>4. CASE p \notin eof /\ Waiting(p) = {}
  <2>1. /\ calls' = [calls EXCEPT ![c] = [call EXCEPT !.pc = "reading"]]
        /\ UNCHANGED <<sent, proc, initialized, closed, servers>>
    BY <1>4 DEF Becomes
  <2>2. Goes(c, call, "reading", call.tries, call.drop)
    <3>1. calls' = [calls EXCEPT ![c] = Placed(call, "reading", call.tries, call.drop)]
        BY <1>0, <2>1, OnlyPlaced
    <3>2. call.on = calls[c].on \/ (proc # 0 /\ call.on = proc)
        BY DEF ReadsOn
    <3>. QED BY <1>0, <1>4, <2>1, <3>1, <3>2 DEF Goes, Waits
  <2>3. \E new : Makes(c, new) /\ new.pc = "reading" /\ new.what = calls[c].what
    BY <1>0, <2>2, GoesMakes
  <2>4. ASSUME NEW new, new.pc = "reading", new.what = calls[c].what PROVE LockStep(c, new)
    BY <2>4 DEF LockStep, Starts, Waits, LockInv
  <2>. QED BY <2>3, <2>4 DEF CallStep
<1>. QED BY <1>1, <1>2, <1>3, <1>4

LEMMA ReadStep ==
    ASSUME TypeInv, LockInv, RequestInv, NEW c \in Calls, Read(c)
    PROVE  \E new : CallStep(c, new)
<1>1. Waits(calls[c]) /\ calls[c].on \in 1..servers /\ (proc # 0 => calls[c].on <= proc)
    BY DEF Read, Waits, RequestInv
<1>2. /\ servers' = servers /\ eof' = eof /\ reaped' = reaped /\ answered' = answered
      /\ begun' = begun
    BY DEF Read, processes
<1>3. CASE Raises(c) /\ UNCHANGED <<out, state, lock>>
  <2>1. OthersStep
    BY <1>2, <1>3, OthersFixed DEF processes
  <2>. QED BY <1>1, <1>2, <1>3, <2>1, RaisesMakes
<1>4. PICK p : \/ p = 0 /\ Raises(c) /\ UNCHANGED <<out, state, lock>>
               \/ p # 0 /\ ReadFrom(c, p) /\ (p = proc \/ p = calls[c].on)
    BY DEF Read
<1>5. CASE p # 0 /\ ReadFrom(c, p) /\ (p = proc \/ p = calls[c].on)
  <2> DEFINE mine == Mine(c, out[p])
             call == [calls[c] EXCEPT !.on = p]
  <2>1. ReadsOn(c, p) /\ p \in 1..servers /\ p \in Nat
    BY <1>1, <1>5, CallFacts DEF ReadsOn
  <2>2. Alike(call, calls[c]) /\ call.on = p
    BY <2>1, ReadingFields
  <2>3. ASSUME NEW rest \in Seq(Nat), \A n \in 1..Len(rest) : rest[n] \in answered,
               out' = [out EXCEPT ![p] = rest], state' \in {"healthy", "unavailable"}
        PROVE  OthersStep
    <3>1. /\ out' \in Seq(Seq(Nat)) /\ Len(out') = servers
          /\ \A q \in 1..servers : \A n \in 1..Len(out'[q]) : out'[q][n] \in answered
        BY <2>1, <2>3, LineKept
    <3>2. reaped \subseteq 1..servers /\ begun \in 0..MaxInvocations /\ servers \in 0..MaxServers
        BY DEF TypeInv, Types
    <3>. QED BY <1>2, <2>3, <3>1, <3>2 DEF OthersStep
  <2>4. CASE mine # {}
    <3>1. /\ Take(c, out[p][Min(mine)])
          /\ out' = [out EXCEPT ![p] = SubSeq(out[p], Min(mine) + 1, Len(out[p]))]
        BY <1>5, <2>4 DEF ReadFrom
    <3>2. /\ out[p][Min(mine)] = calls[c].id /\ calls[c].id \in answered
          /\ SubSeq(out[p], Min(mine) + 1, Len(out[p])) \in Seq(Nat)
          /\ \A n \in 1..Len(SubSeq(out[p], Min(mine) + 1, Len(out[p]))) :
                 SubSeq(out[p], Min(mine) + 1, Len(out[p]))[n] \in answered
        BY <2>1, <2>4, FirstOfMine
    <3>3. state' \in {"healthy", "unavailable"}
        BY <3>1 DEF Take, adapter, TypeInv, Types, StartFails
    <3>4. OthersStep
        BY <2>3, <3>1, <3>2, <3>3
    <3>5. Take(c, calls[c].id)
        BY <3>1, <3>2
    <3>. QED BY <1>1, <1>2, <3>2, <3>4, <3>5, TakeStep
  <2>5. CASE mine = {}
    <3>1. /\ out' = [out EXCEPT ![p] = <<>>] /\ UNCHANGED <<state, lock>>
          /\ IF p \in eof
             THEN IF call.what = "call" THEN Lose(c, call) ELSE StartFails(c)
             ELSE IF Waiting(p) # {} THEN Raises(c)
             ELSE /\ Becomes(c, [call EXCEPT !.pc = "reading"])
                  /\ UNCHANGED <<proc, initialized, closed, sent>>
        BY <1>5, <2>5 DEF ReadFrom
    <3>2. <<>> \in Seq(Nat) /\ state' \in {"healthy", "unavailable"} /\ lock' = lock
        BY <3>1 DEF TypeInv, Types
    <3>3. \A n \in 1..Len(<<>>) : <<>>[n] \in answered
        BY Len(<<>>) = 0
    <3>4. OthersStep
        BY <2>3, <3>1, <3>2, <3>3
    <3> HIDE DEF call
    <3>. QED BY <1>1, <1>2, <2>1, <2>2, <3>1, <3>2, <3>4, WaitStep
  <2>. QED BY <2>4, <2>5
<1>. QED BY <1>3, <1>4, <1>5

LEMMA CallSteps ==
    ASSUME TypeInv, LockInv, RequestInv, ServerInv, NEW c \in Calls,
           Invoke(c) \/ Proceed(c) \/ Cancel(c)
    PROVE  \E new : CallStep(c, new)
BY InvokeStep, LockTaken, ClearStep, SpawnStep, FailStartStep, DropStep, ReadStep, ExpireStep,
   CancelStep DEF Proceed

-----------------------------------------------------------------------------
(* What a step of a call leaves true.                                      *)

LEMMA SentGrows ==
    ASSUME TypeInv, NEW c \in Calls, NEW new, CallStep(c, new)
    PROVE  /\ sent' \in Seq(Request) /\ Len(sent') \in Nat
           /\ Len(sent) <= Len(sent') /\ Len(sent') <= Len(sent) + 1
           /\ \A i \in 1..Len(sent) : sent'[i] = sent[i]
           /\ Len(sent') = Len(sent) + 1 =>
                  /\ Sends(c, new)
                  /\ sent'[Len(sent) + 1] = [by |-> c, what |-> new.what, to |-> new.on]
<1>1. sent \in Seq(Request) /\ Len(sent) \in Nat
    BY DEF TypeInv, Types
<1>2. CASE Keeps(c, new)
    BY <1>1, <1>2 DEF Keeps
<1>3. CASE Sends(c, new)
  <2>1. new \in Call
    BY DEF CallStep, Makes
  <2>2. [by |-> c, what |-> new.what, to |-> new.on] \in Request
    BY <1>3, <2>1, CallFields DEF Sends, Request
  <2>3. sent' = Append(sent, [by |-> c, what |-> new.what, to |-> new.on])
    BY <1>3 DEF Sends
  <2>. QED BY <1>1, <1>3, <2>2, <2>3, AppendProperties
<1>. QED BY <1>2, <1>3 DEF CallStep, Makes, RequestStep

LEMMA SlotFacts ==
    ASSUME TypeInv, NEW c \in Calls, NEW new, CallStep(c, new)
    PROVE  servers \in Nat /\ servers' \in Nat /\ servers <= servers' /\ proc' \in 0..servers'
<1>1. servers' \in 0..MaxServers /\ SlotStep(c)
    BY DEF CallStep, OthersStep, Makes
<1>. QED BY <1>1, CallFacts, LimitsAssumption DEF SlotStep

LEMMA CallsAfter ==
    ASSUME TypeInv, NEW c \in Calls, NEW new, CallStep(c, new)
    PROVE  /\ new \in Call /\ calls' \in [Calls -> Call] /\ calls'[c] = new
           /\ \A d \in Calls : d # c => calls'[d] = calls[d]
BY DEF CallStep, Makes, TypeInv, Types

LEMMA TypeKept ==
    ASSUME TypeInv, NEW c \in Calls, NEW new, CallStep(c, new)
    PROVE  TypeInv'
<1>0. /\ Len(sent) \in Nat /\ Len(sent') \in Nat /\ Len(sent) <= Len(sent')
      /\ Len(sent') <= Len(sent) + 1
      /\ servers \in Nat /\ servers' \in Nat /\ servers <= servers'
    BY SentGrows, SlotFacts, CallFacts
<1>1. initialized' \in BOOLEAN
  <2>1. SlotStep(c) /\ initialized \in BOOLEAN
    BY DEF CallStep, Makes, TypeInv, Types
  <2>. QED BY Zenon, <2>1 DEF SlotStep
<1>2. lock' \in Calls \cup {Nobody}
    BY DEF CallStep, LockStep, TypeInv, Types
<1>3. answered' \subseteq 1..Len(sent')
  <2>1. answered' = answered /\ answered \subseteq 1..Len(sent)
    BY DEF CallStep, OthersStep, TypeInv, Types
  <2>. QED BY <1>0, <2>1
<1>4. eof' \subseteq 1..servers'
  <2>1. eof' = eof /\ eof \subseteq 1..servers
    BY DEF CallStep, OthersStep, TypeInv, Types
  <2>. QED BY <1>0, <2>1
<1>5. Types'
    BY <1>1, <1>2, <1>3, <1>4, SentGrows, SlotFacts, CallsAfter DEF Types, CallStep, OthersStep
<1>6. ASSUME NEW d \in Calls
      PROVE  /\ calls'[d].id <= Len(sent') /\ calls'[d].since <= Len(sent')
             /\ calls'[d].answer <= Len(sent') /\ calls'[d].drop <= servers'
  <2>1. /\ calls[d].id <= Len(sent) /\ calls[d].since <= Len(sent)
        /\ calls[d].answer <= Len(sent) /\ calls[d].drop <= servers
        /\ calls[d] \in Call
    BY DEF TypeInv, Types, Ranges
  <2>2. CASE d # c
    <3>1. calls'[d] = calls[d]
        BY <2>2, CallsAfter
    <3>2. /\ calls[d].id \in Nat /\ calls[d].since \in Nat /\ calls[d].answer \in Nat
          /\ calls[d].drop \in Nat
        BY <2>1, CallFields
    <3>. QED BY <1>0, <2>1, <3>1, <3>2
  <2>3. CASE d = c
    <3>1. calls'[d] = new /\ new \in Call
        BY <2>3, CallsAfter
    <3>2. new.drop <= servers' /\ RequestStep(c, new) /\ InvocationStep(c, new)
        BY DEF CallStep, Makes
    <3>3. new.id <= Len(sent')
      <4>1. CASE Sends(c, new)
        <5>1. new.id = Len(sent) + 1 /\ Len(sent') = Len(sent) + 1
            BY <4>1, CallFacts DEF Sends, TypeInv, Types
        <5>. QED BY <5>1, SentGrows, CallFacts
      <4>2. CASE Keeps(c, new)
        BY <4>2 DEF Keeps
      <4>. QED BY <3>2, <4>1, <4>2 DEF RequestStep
    <3>4. new.since <= Len(sent) /\ new.answer <= Len(sent)
        BY <2>1, <2>3, <3>2, CallFacts DEF InvocationStep
    <3>5. new.since \in Nat /\ new.answer \in Nat
        BY <3>1, CallFields
    <3>. QED BY <1>0, <3>1, <3>2, <3>3, <3>4, <3>5
  <2>. QED BY <2>2, <2>3
<1>7. ASSUME NEW i \in 1..Len(sent') PROVE sent'[i].to \in 1..servers'
  <2>1. CASE i \in 1..Len(sent)
    <3>1. sent[i].to \in 1..servers /\ sent'[i] = sent[i]
        BY <2>1, SentGrows DEF TypeInv, Ranges
    <3>. QED BY <3>1, SlotFacts
  <2>2. CASE i \notin 1..Len(sent)
    <3>1. i = Len(sent) + 1 /\ Len(sent') = Len(sent) + 1
        BY <1>0, <1>7, <2>2
    <3>2. sent'[i] = [by |-> c, what |-> new.what, to |-> new.on] /\ new.on \in 1..servers'
        BY <3>1, SentGrows DEF Sends
    <3>. QED BY <3>2
  <2>. QED BY <2>1, <2>2
<1>8. \A p \in 1..servers' : \A n \in 1..Len(out'[p]) : out'[p][n] \in answered'
    BY DEF CallStep, OthersStep
<1>. QED BY <1>5, <1>6, <1>7, <1>8 DEF TypeInv, Ranges

LEMMA LockKept ==
    ASSUME TypeInv, LockInv, NEW c \in Calls, NEW new, CallStep(c, new)
    PROVE  LockInv'
<1>1. LockStep(c, new) /\ c # Nobody
    BY CallersAssumption DEF CallStep
<1>2. ASSUME NEW d \in Calls PROVE Starts(calls'[d]) <=> lock' = d
  <2>1. CASE d = c
    BY <1>1, <2>1, CallsAfter DEF LockStep
  <2>2. CASE d # c
    BY <1>1, <2>2, CallsAfter, CallersAssumption DEF LockStep, LockInv
  <2>. QED BY <2>1, <2>2
<1>3. \A d \in Calls : Starts(calls[d])' <=> Starts(calls'[d])
    BY DEF Starts, Waits
<1>. QED BY <1>2, <1>3 DEF LockInv

LEMMA OneReadsKept ==
    ASSUME TypeInv, OneReads, NEW c \in Calls, NEW new, CallStep(c, new)
    PROVE  OneReads'
<1>1. new.pc = "reading" =>
        \A d \in Calls : ~(calls[d].pc = "reading" /\ calls[d].on = new.on)
    BY DEF CallStep, Makes, Waiting
<1>. QED BY <1>1, CallsAfter DEF OneReads

(* The slot goes on to later servers only.                                 *)
LEMMA SlotGrows ==
    ASSUME TypeInv, NEW c \in Calls, NEW new, CallStep(c, new), NEW p \in 1..servers
    PROVE  /\ (proc # 0 => p < proc) => (proc' # 0 => p < proc')
           /\ (proc # 0 => p <= proc) => (proc' # 0 => p <= proc')
<1>1. SlotStep(c)
    BY DEF CallStep, Makes
<1>. QED BY <1>1, CallFacts DEF SlotStep

LEMMA RequestKept ==
    ASSUME TypeInv, RequestInv, ServerInv, NEW c \in Calls, NEW new, CallStep(c, new)
    PROVE  RequestInv'
<1> DEFINE Sound(d, call) ==
        /\ call.id \in 1..Len(sent') /\ call.id > call.since
        /\ call.on \in 1..servers' /\ (proc' # 0 => call.on <= proc')
        /\ IsRequest(sent'[call.id], d, call)
<1>1. ASSUME NEW d \in Calls, Waits(calls'[d]) PROVE Sound(d, calls'[d])
  <2>1. Waits(calls[d]) => Sound(d, calls[d])
    <3>1. SUFFICES ASSUME Waits(calls[d]) PROVE Sound(d, calls[d])
        OBVIOUS
    <3>2. /\ calls[d].id \in 1..Len(sent) /\ calls[d].id > calls[d].since
          /\ calls[d].on \in 1..servers /\ (proc # 0 => calls[d].on <= proc)
          /\ IsRequest(sent[calls[d].id], d, calls[d])
        BY <3>1 DEF RequestInv
    <3>3. Len(sent) \in Nat /\ Len(sent') \in Nat /\ Len(sent) <= Len(sent')
        BY SentGrows, CallFacts
    <3>4. sent'[calls[d].id] = sent[calls[d].id]
        BY <3>2, SentGrows
    <3>5. calls[d].on \in 1..servers' /\ (proc' # 0 => calls[d].on <= proc')
        BY <3>2, SlotFacts, SlotGrows
    <3>. QED BY <3>2, <3>3, <3>4, <3>5
  <2>2. CASE d # c
    <3>1. calls'[d] = calls[d]
        BY <2>2, CallsAfter
    <3> HIDE DEF Sound
    <3>. QED BY <1>1, <2>1, <3>1
  <2>3. CASE d = c /\ Keeps(c, new)
    <3>1. /\ calls'[d] = new /\ Waits(calls[d]) /\ new.id = calls[d].id
          /\ new.what = calls[d].what /\ new.since = calls[d].since
          /\ \/ new.on = calls[d].on
             \/ proc # 0 /\ proc' = proc /\ new.on = proc
        BY <1>1, <2>3, CallsAfter DEF Keeps
    <3>2. CASE new.on = calls[d].on
        BY <2>1, <3>1, <3>2 DEF IsRequest
    <3>3. CASE proc # 0 /\ proc' = proc /\ new.on = proc
      <4>1. new.on \in 1..servers' /\ (proc' # 0 => new.on <= proc')
        BY <3>3, SlotFacts
      <4>2. calls[d].on <= new.on /\ calls[d].on \in Nat /\ new.on \in Nat
        BY <2>1, <3>1, <3>3, CallFacts, CallFields DEF RequestInv
      <4>3. new.what # "call" => new.on = calls[d].on
        <5>1. ASSUME calls[d].what # "call" PROVE Starts(calls[d]) /\ Waits(calls[d])
            BY <3>1, <5>1 DEF Starts
        <5>. QED BY <3>1, <3>3, <5>1 DEF ServerInv
      <4>4. /\ calls[d].id \in 1..Len(sent') /\ calls[d].id > calls[d].since
            /\ IsRequest(sent'[calls[d].id], d, calls[d])
        BY <2>1, <3>1
      <4>5. sent'[calls[d].id].to \in Nat
        <5>1. sent' \in Seq(Request) /\ calls[d].id \in 1..Len(sent')
            BY <4>4, SentGrows
        <5>2. sent'[calls[d].id] \in Request
            BY <5>1
        <5>. QED BY <5>2 DEF Request
      <4>6. IsRequest(sent'[new.id], d, new)
        BY <3>1, <4>2, <4>3, <4>4, <4>5 DEF IsRequest
      <4>. QED BY <3>1, <4>1, <4>4, <4>6
    <3>. QED BY <3>1, <3>2, <3>3
  <2>4. CASE d = c /\ Sends(c, new)
    <3>1. calls'[d] = new /\ new.id = Len(sent) + 1 /\ Len(sent') = Len(sent) + 1
        BY <2>4, CallsAfter, CallFacts DEF Sends, TypeInv, Types
    <3>2. new.since <= Len(sent) /\ new.since \in Nat
      <4>1. InvocationStep(c, new)
        BY DEF CallStep, Makes
      <4>. QED BY <4>1, CallFacts, CallFields DEF InvocationStep
    <3>3. new.on = proc' /\ new.on \in 1..servers'
        BY <2>4 DEF Sends
    <3>4. sent'[new.id] = [by |-> c, what |-> new.what, to |-> new.on]
        BY <3>1, SentGrows
    <3>5. IsRequest(sent'[new.id], d, new)
        BY <2>4, <3>3, <3>4, SlotFacts DEF IsRequest
    <3>. QED BY <3>1, <3>2, <3>3, <3>5, CallFacts, SlotFacts
  <2>. QED BY <2>2, <2>3, <2>4 DEF CallStep, Makes, RequestStep
<1>2. \A d \in Calls : Waits(calls[d])' <=> Waits(calls'[d])
    BY DEF Waits
<1>3. \A d \in Calls : IsRequest(sent[calls[d].id], d, calls[d])' <=>
                          IsRequest(sent'[calls'[d].id], d, calls'[d])
    BY DEF IsRequest
<1>. QED BY <1>1, <1>2, <1>3 DEF RequestInv

LEMMA OwnAnswerKept ==
    ASSUME TypeInv, RequestInv, OwnAnswer, NEW c \in Calls, NEW new, CallStep(c, new)
    PROVE  OwnAnswer'
<1>1. ASSUME NEW d \in Calls, calls'[d].answer # 0
      PROVE  /\ calls'[d].answer > calls'[d].since
             /\ sent'[calls'[d].answer].by = d /\ sent'[calls'[d].answer].what = "call"
  <2>1. ASSUME calls'[d].answer = calls[d].answer, calls'[d].since = calls[d].since
        PROVE  /\ calls'[d].answer > calls'[d].since
               /\ sent'[calls'[d].answer].by = d /\ sent'[calls'[d].answer].what = "call"
    <3>1. /\ calls[d].answer > calls[d].since
          /\ sent[calls[d].answer].by = d /\ sent[calls[d].answer].what = "call"
        BY <1>1, <2>1 DEF OwnAnswer
    <3>2. calls[d].answer \in 1..Len(sent)
      <4>1. calls[d] \in Call /\ calls[d].answer <= Len(sent) /\ calls[d].answer # 0
        BY <1>1, <2>1 DEF TypeInv, Types, Ranges
      <4>. QED BY <4>1, CallFields, CallFacts
    <3>. QED BY <2>1, <3>1, <3>2, SentGrows
  <2>2. CASE d # c
    BY <2>1, <2>2, CallsAfter
  <2>3. CASE d = c
    <3>1. calls'[d] = new /\ InvocationStep(c, new)
        BY <2>3, CallsAfter DEF CallStep, Makes
    <3>2. CASE new.answer = calls[c].answer
        BY <1>1, <2>1, <2>3, <3>1, <3>2 DEF InvocationStep
    <3>3. CASE WaitsForTool(calls[c]) /\ new.answer = calls[c].id /\ new.since = calls[c].since
      <4>1. /\ calls[c].id \in 1..Len(sent) /\ calls[c].id > calls[c].since
            /\ IsRequest(sent[calls[c].id], c, calls[c])
        BY <3>3 DEF RequestInv, WaitsForTool
      <4>2. sent'[calls[c].id] = sent[calls[c].id]
        BY <4>1, SentGrows
      <4>3. sent[calls[c].id].by = c /\ sent[calls[c].id].what = "call"
        BY <3>3, <4>1 DEF IsRequest, WaitsForTool
      <4>. QED BY <2>3, <3>1, <3>3, <4>1, <4>2, <4>3
    <3>. QED BY <1>1, <3>1, <3>2, <3>3 DEF InvocationStep
  <2>. QED BY <2>2, <2>3
<1>. QED BY <1>1 DEF OwnAnswer

(* The requests of an invocation to tools, after a step of call c.         *)
LEMMA AttemptsAfter ==
    ASSUME TypeInv, NEW c \in Calls, NEW new, CallStep(c, new), NEW d \in Calls,
           calls'[d].since = calls[d].since
    PROVE  /\ \A i \in Attempts(d)' : i \in Attempts(d) \/ (d = c /\ i = Len(sent) + 1 /\
                                          Sends(c, new) /\ new.what = "call")
           /\ \A i \in Attempts(d) : i \in 1..Len(sent) /\ sent'[i] = sent[i]
<1>1. /\ Len(sent) \in Nat /\ Len(sent') \in Nat /\ Len(sent) <= Len(sent')
      /\ Len(sent') <= Len(sent) + 1
      /\ calls[d].since \in Nat
    BY SentGrows, CallFacts, CallFields
<1>2. ASSUME NEW i \in Attempts(d) PROVE i \in 1..Len(sent) /\ sent'[i] = sent[i]
  <2>1. i \in 1..Len(sent)
    BY <1>1 DEF Attempts
  <2>. QED BY <2>1, SentGrows
<1>3. ASSUME NEW i \in Attempts(d)'
      PROVE  i \in Attempts(d) \/ (d = c /\ i = Len(sent) + 1 /\ Sends(c, new)
                                   /\ new.what = "call")
  <2>1. /\ i \in calls[d].since + 1 .. Len(sent')
        /\ sent'[i].by = d /\ sent'[i].what = "call"
    BY DEF Attempts
  <2>2. CASE i \in 1..Len(sent)
    <3>1. sent'[i] = sent[i]
        BY <2>2, SentGrows
    <3>. QED BY <1>1, <2>1, <2>2, <3>1 DEF Attempts
  <2>3. CASE i \notin 1..Len(sent)
    <3>1. i = Len(sent) + 1 /\ Len(sent') = Len(sent) + 1
        BY <1>1, <2>1, <2>3
    <3>2. Sends(c, new) /\ sent'[i] = [by |-> c, what |-> new.what, to |-> new.on]
        BY <3>1, SentGrows
    <3>. QED BY <2>1, <3>1, <3>2
  <2>. QED BY <2>2, <2>3
<1>. QED BY <1>2, <1>3

(* The part of TriesInv that is about one call.                            *)
TriesOf(c) ==
    calls[c].pc # "idle" =>
        /\ \A i \in Lost(c) : StreamLost(c, i)
        /\ \A i \in Lost(c) : WaitsForTool(calls[c]) => i < calls[c].id
        /\ \A i, j \in Lost(c) : i = j
        /\ calls[c].tries = 1 /\ calls[c].pc # "dropping" => Lost(c) = {}

(* A stream that was lost stays so: the slot goes on, and what is waited   *)
(* for next was sent to a later server.                                    *)
SameWait(d) ==
    WaitsForTool(calls'[d]) => WaitsForTool(calls[d]) /\ calls'[d].id = calls[d].id

LEMMA StaysLost ==
    ASSUME TypeInv, RequestInv, NEW c \in Calls, NEW new, CallStep(c, new), NEW d \in Calls,
           NEW i \in 1..Len(sent), StreamLost(d, i),
           SameWait(d) \/ (d = c /\ Sends(c, new))
    PROVE  StreamLost(d, i)'
<1>1. PICK p \in eof : /\ sent[i].to <= p /\ Past(p)
                       /\ WaitsForTool(calls[d]) => p < sent[calls[d].id].to
    BY DEF StreamLost
<1>2. p \in 1..servers /\ eof' = eof
    BY DEF TypeInv, Types, CallStep, OthersStep
<1>3. \A n \in 1..Len(sent) : sent'[n] = sent[n]
    BY SentGrows
<1>4. proc' # 0 => p < proc'
  <2>1. (proc # 0 => p < proc) => (proc' # 0 => p < proc')
    BY <1>2, SlotGrows
  <2>. QED BY <1>1, <2>1 DEF Past
<1>5. WaitsForTool(calls'[d]) => p < sent'[calls'[d].id].to
  <2>1. CASE SameWait(d)
    <3>1. WaitsForTool(calls'[d]) => calls[d].id \in 1..Len(sent)
        BY <2>1 DEF SameWait, RequestInv, WaitsForTool
    <3>. QED BY <1>1, <1>3, <2>1, <3>1 DEF SameWait
  <2>2. CASE d = c /\ Sends(c, new)
    <3>1. calls'[d] = new
        BY <2>2, CallsAfter
    <3>2. new.id = Len(sent) + 1 /\ sent \in Seq(Request)
          /\ sent' = Append(sent, [by |-> c, what |-> new.what, to |-> new.on])
        BY <2>2 DEF Sends, TypeInv, Types
    <3>3. sent'[new.id] = [by |-> c, what |-> new.what, to |-> new.on]
        BY <3>2
    <3>4. new.on = proc' /\ new.on # 0
        BY <2>2, SlotFacts DEF Sends
    <3>5. sent'[new.id].to = proc'
        BY <3>3, <3>4
    <3>. QED BY <1>4, <3>1, <3>4, <3>5
  <2>. QED BY <2>1, <2>2
<1>6. WaitsForTool(calls[d])' <=> WaitsForTool(calls'[d])
    BY DEF WaitsForTool, Waits
<1>7. sent'[i].to <= p
  <2>1. sent[i].to <= p /\ sent'[i] = sent[i]
    BY <1>1, <1>3
  <2>. QED BY <2>1
<1>. QED BY <1>1, <1>2, <1>4, <1>5, <1>6, <1>7 DEF StreamLost, Past

LEMMA TriesOfOthers ==
    ASSUME TypeInv, RequestInv, TriesInv, NEW c \in Calls, NEW new, CallStep(c, new),
           NEW d \in Calls, d # c
    PROVE  TriesOf(d)'
<1>1. calls'[d] = calls[d]
    BY CallsAfter
<1>2. \A i \in Attempts(d)' : i \in Attempts(d)
    BY <1>1, AttemptsAfter
<1>3. \A i \in Attempts(d) : i \in 1..Len(sent)
    BY <1>1, AttemptsAfter
<1>4. \A i \in Lost(d)' : i \in Lost(d) /\ i \in 1..Len(sent)
    BY <1>1, <1>2, <1>3 DEF Lost, WaitsForTool, Waits
<1>5. WaitsForTool(calls[d])' <=> WaitsForTool(calls[d])
    BY <1>1 DEF WaitsForTool, Waits
<1>6. ASSUME calls[d].pc # "idle", NEW i \in Lost(d)' PROVE StreamLost(d, i)'
  <2>1. StreamLost(d, i)
    BY <1>4, <1>6 DEF TriesInv
  <2>2. SameWait(d)
    BY <1>1 DEF SameWait
  <2>. QED BY <1>4, <2>1, <2>2, StaysLost
<1>. QED BY <1>1, <1>4, <1>5, <1>6 DEF TriesInv, TriesOf

LEMMA TriesOfTheCall ==
    ASSUME TypeInv, RequestInv, TriesInv, NEW c \in Calls, NEW new, CallStep(c, new)
    PROVE  TriesOf(c)'
<1> SUFFICES ASSUME new.pc # "idle" PROVE TriesOf(c)'
    BY CallsAfter DEF TriesOf
<1>1. calls'[c] = new /\ eof' = eof /\ new \in Call
    BY CallsAfter DEF CallStep, OthersStep
<1>2. RequestStep(c, new) /\ InvocationStep(c, new) /\ TriesStep(c, new)
    BY DEF CallStep, Makes
<1>3. WaitsForTool(calls[c])' <=> WaitsForTool(new)
    BY <1>1 DEF WaitsForTool, Waits
<1>4. /\ Len(sent) \in Nat /\ Len(sent') \in Nat /\ Len(sent) <= Len(sent')
      /\ Len(sent') <= Len(sent) + 1
    BY SentGrows, CallFacts
<1>5. CASE calls[c].pc = "idle"
  <2>1. new.since = Len(sent)
    BY <1>2, <1>5 DEF InvocationStep
  <2>2. ASSUME NEW i \in Lost(c)' PROVE FALSE
    <3>1. /\ i \in Len(sent) + 1 .. Len(sent') /\ sent'[i].what = "call"
          /\ WaitsForTool(new) => i # new.id
        BY <1>1, <1>3, <2>1 DEF Lost, Attempts
    <3>2. i = Len(sent) + 1 /\ Len(sent') = Len(sent) + 1
        BY <1>4, <3>1
    <3>3. /\ new.id = Len(sent) + 1 /\ new.pc = "written"
          /\ sent'[i] = [by |-> c, what |-> new.what, to |-> new.on]
        BY <3>2, SentGrows DEF Sends
    <3>4. WaitsForTool(new)
        BY <3>1, <3>3 DEF WaitsForTool, Waits
    <3>. QED BY <3>1, <3>2, <3>3, <3>4
  <2>. QED BY <2>2 DEF TriesOf
<1>6. CASE calls[c].pc # "idle"
  <2>1. /\ \A i \in Lost(c) : StreamLost(c, i)
        /\ \A i, j \in Lost(c) : i = j
        /\ calls[c].tries = 1 /\ calls[c].pc # "dropping" => Lost(c) = {}
        /\ \A i \in Lost(c) : WaitsForTool(calls[c]) => i < calls[c].id
    BY <1>6 DEF TriesInv
  <2>2. new.since = calls[c].since
    BY <1>2, <1>6 DEF InvocationStep
  <2>3. /\ \A i \in Attempts(c)' : i \in Attempts(c) \/ (i = Len(sent) + 1 /\ Sends(c, new)
                                                          /\ new.what = "call")
        /\ \A i \in Attempts(c) : i \in 1..Len(sent) /\ sent'[i] = sent[i]
    BY <1>1, <2>2, AttemptsAfter
  <2>4. \A i \in Lost(c)' : i \in Attempts(c)' /\ (WaitsForTool(new) => i # new.id)
    BY <1>1, <1>3 DEF Lost
  <2>5. ASSUME \A i \in Lost(c)' : i \in Lost(c), WaitsForTool(new) => Sends(c, new) \/
                   (WaitsForTool(calls[c]) /\ new.id = calls[c].id)
        PROVE  TriesOf(c)'
    <3>1. \A i \in Lost(c)' : i \in 1..Len(sent) /\ sent'[i] = sent[i]
        BY <2>3, <2>5 DEF Lost
    <3>2. \A i \in Lost(c)' : WaitsForTool(new) => i < new.id
        BY <1>4, <2>1, <2>5, <3>1 DEF Sends
    <3>3. calls'[c].tries = 1 /\ calls'[c].pc # "dropping" => Lost(c)' = {}
        BY <1>1, <1>2, <1>6, <2>1, <2>5 DEF TriesStep
    <3>4. ASSUME NEW i \in Lost(c)' PROVE StreamLost(c, i)'
      <4>1. StreamLost(c, i) /\ i \in 1..Len(sent)
        BY <2>1, <2>5, <3>1
      <4>2. SameWait(c) \/ Sends(c, new)
        BY <1>1, <2>5 DEF SameWait
      <4>. QED BY <4>1, <4>2, StaysLost
    <3>. QED BY <1>1, <1>3, <2>1, <2>5, <3>2, <3>3, <3>4 DEF TriesOf
  <2>6. CASE ~WaitsForTool(calls[c])
    <3>1. ASSUME NEW i \in Lost(c)' PROVE i \in Lost(c)
      <4>1. i \in Attempts(c)
        <5>1. ASSUME i = Len(sent) + 1, Sends(c, new), new.what = "call" PROVE FALSE
            BY <2>4, <3>1, <5>1 DEF Sends, WaitsForTool, Waits
        <5>. QED BY <2>3, <2>4, <3>1, <5>1
      <4>. QED BY <2>6, <4>1 DEF Lost
    <3>2. WaitsForTool(new) => Sends(c, new)
        BY <1>2, <2>6 DEF RequestStep, Keeps, WaitsForTool
    <3>. QED BY <2>5, <3>1, <3>2
  <2>7. CASE WaitsForTool(calls[c])
    <3>1. Keeps(c, new) /\ \A i \in Attempts(c)' : i \in Attempts(c)
        BY <1>2, <2>3, <2>7 DEF RequestStep, Sends
    <3>2. CASE WaitsForTool(new)
      <4>1. new.id = calls[c].id
        BY <3>1, <3>2 DEF Keeps, WaitsForTool
      <4>2. \A i \in Lost(c)' : i \in Lost(c)
        BY <2>4, <3>1, <3>2, <4>1 DEF Lost
      <4>. QED BY <2>5, <2>7, <4>1, <4>2
    <3>3. CASE ~WaitsForTool(new)
      <4>1. new.pc = "dropping" /\ calls[c].tries = 1 /\ proc' = 0 /\ StreamOver(c)
        BY <1>2, <2>7, <3>3 DEF TriesStep
      <4>2. Lost(c) = {}
        BY <2>1, <2>7, <4>1 DEF WaitsForTool, Waits
      <4>3. \A i \in Lost(c)' : i = calls[c].id /\ sent'[i] = sent[i]
        BY <2>3, <2>4, <2>7, <3>1, <4>2 DEF Lost
      <4>4. sent[calls[c].id].to <= calls[c].on /\ calls[c].id \in 1..Len(sent)
        BY <2>7 DEF RequestInv, IsRequest, WaitsForTool
      <4>5. ASSUME NEW i \in Lost(c)' PROVE StreamLost(c, i)'
        <5>1. PICK p \in eof : calls[c].on <= p
            BY <4>1 DEF StreamOver
        <5>2. sent[calls[c].id].to \in Nat /\ calls[c].on \in Nat /\ p \in Nat
          <6>1. sent[calls[c].id] \in Request
            BY <4>4 DEF TypeInv, Types
          <6>2. calls[c] \in Call /\ p \in 1..servers
            BY <5>1, CallFacts DEF TypeInv, Types
          <6>3. calls[c].on \in Nat
            BY <6>2, CallFields
          <6>. QED BY <6>1, <6>2, <6>3 DEF Request
        <5>3. sent'[i].to <= p
            BY <4>3, <4>4, <5>1, <5>2
        <5>. QED BY <1>1, <1>3, <3>3, <4>1, <5>1, <5>3 DEF StreamLost, Past
      <4>. QED BY <1>1, <1>3, <3>3, <4>1, <4>3, <4>5 DEF TriesOf
    <3>. QED BY <3>2, <3>3
  <2>. QED BY <2>6, <2>7
<1>. QED BY <1>5, <1>6

LEMMA TriesKept ==
    ASSUME TypeInv, RequestInv, TriesInv, NEW c \in Calls, NEW new, CallStep(c, new)
    PROVE  TriesInv'
<1>1. \A d \in Calls : TriesOf(d)'
    BY TriesOfOthers, TriesOfTheCall
<1>. QED BY <1>1 DEF TriesInv, TriesOf

LEMMA ServerKept ==
    ASSUME TypeInv, LockInv, RequestInv, ServerInv, NEW c \in Calls, NEW new, CallStep(c, new)
    PROVE  ServerInv'
<1>1. /\ SlotStep(c) /\ RequestStep(c, new) /\ answered' = answered
      /\ new.pc \in {"clearing", "spawn"} => proc' = 0
    BY DEF CallStep, Makes, OthersStep
<1>2. ASSUME NEW p, Greeted(p)
      PROVE  \E j \in answered' : sent'[j].what = "init" /\ sent'[j].to = p
  <2>1. PICK j \in answered : sent[j].what = "init" /\ sent[j].to = p
    BY <1>2 DEF Greeted
  <2>2. j \in 1..Len(sent)
    BY DEF TypeInv, Types
  <2>3. sent'[j] = sent[j]
    BY <2>2, SentGrows
  <2>. QED BY <1>1, <2>1, <2>3
<1>3. ASSUME calls[c].pc = "spawn", NEW d \in Calls, d # c PROVE ~Starts(calls[d])
    BY <1>3 DEF LockInv, Starts
<1>4. ASSUME Waits(calls[c]), calls[c].what = "init", calls[c].id \in answered, proc # 0
      PROVE  Greeted(proc)
  <2>1. sent[calls[c].id].what = "init" /\ sent[calls[c].id].to = calls[c].on
    BY <1>4 DEF RequestInv, IsRequest
  <2>2. proc = calls[c].on
    BY <1>4 DEF ServerInv, Starts
  <2>. QED BY <1>4, <2>1, <2>2 DEF Greeted
<1>5. ASSUME initialized' = TRUE
      PROVE  proc' # 0 /\ \E j \in answered' : sent'[j].what = "init" /\ sent'[j].to = proc'
  <2>1. CASE UNCHANGED <<proc, initialized, closed, servers>>
    BY <1>2, <1>5, <2>1 DEF ServerInv
  <2>2. CASE initialized' = FALSE
    BY <1>5, <2>2
  <2>3. CASE calls[c].pc = "spawn" /\ UNCHANGED <<initialized, closed>>
    BY <1>5, <2>3 DEF ServerInv
  <2>4. CASE /\ Waits(calls[c]) /\ calls[c].what = "init" /\ calls[c].id \in answered
             /\ proc # 0 /\ UNCHANGED <<proc, closed, servers>>
    BY <1>2, <1>4, <2>4
  <2>. QED BY <1>1, <2>1, <2>2, <2>3, <2>4 DEF SlotStep
<1>6. ASSUME NEW d \in Calls, calls'[d].pc \in {"clearing", "spawn"} PROVE proc' = 0
  <2>1. CASE d = c
    BY <1>1, <1>6, <2>1, CallsAfter
  <2>2. CASE d # c
    <3>1. proc = 0 /\ Starts(calls[d])
        BY <1>6, <2>2, CallsAfter DEF ServerInv, Starts
    <3>. QED BY <1>1, <1>3, <2>2, <3>1 DEF SlotStep
  <2>. QED BY <2>1, <2>2
<1>7. ASSUME NEW d \in Calls, Starts(calls'[d]), Waits(calls'[d])
      PROVE  proc' \in {0, calls'[d].on}
  <2>1. CASE d # c
    <3>1. calls'[d] = calls[d] /\ proc \in {0, calls[d].on} /\ Starts(calls[d])
        BY <1>7, <2>1, CallsAfter DEF ServerInv
    <3>. QED BY <1>1, <1>3, <2>1, <3>1 DEF SlotStep
  <2>2. CASE d = c /\ Sends(c, new)
    BY <2>2, CallsAfter DEF Sends
  <2>3. CASE d = c /\ Keeps(c, new)
    <3>1. /\ calls'[c] = new /\ Waits(calls[c]) /\ new.what = calls[c].what
          /\ new.on = calls[c].on \/ (proc' = proc /\ new.on = proc)
        BY <1>7, <2>3, CallsAfter DEF Keeps
    <3>2. new.what # "call" /\ Starts(calls[c])
        BY <1>7, <2>3, <3>1 DEF Starts, Waits
    <3>3. proc \in {0, calls[c].on} /\ calls[c].pc # "spawn"
        BY <3>1, <3>2 DEF ServerInv, Waits
    <3>. QED BY <1>1, <2>3, <3>1, <3>3 DEF SlotStep
  <2>. QED BY <1>1, <2>1, <2>2, <2>3 DEF RequestStep
<1>8. \A d \in Calls : (Starts(calls[d]) /\ Waits(calls[d]))' <=>
                           Starts(calls'[d]) /\ Waits(calls'[d])
    BY DEF Starts, Waits
<1>. QED BY <1>5, <1>6, <1>7, <1>8 DEF ServerInv, Greeted

LEMMA HandshakeKept ==
    ASSUME TypeInv, ServerInv, HandshakeFirst, NEW c \in Calls, NEW new, CallStep(c, new)
    PROVE  HandshakeFirst'
<1>0. /\ Len(sent) \in Nat /\ Len(sent') \in Nat /\ Len(sent) <= Len(sent')
      /\ Len(sent') <= Len(sent) + 1
    BY SentGrows, CallFacts
<1>1. DOMAIN sent' = 1..Len(sent') /\ DOMAIN sent = 1..Len(sent)
  <2>1. sent \in Seq(Request) /\ sent' \in Seq(Request)
    BY SentGrows DEF TypeInv, Types
  <2>. QED BY <2>1
<1>2. answered' = answered /\ answered \subseteq 1..Len(sent)
    BY DEF CallStep, OthersStep, TypeInv, Types
<1>3. ASSUME NEW i \in 1..Len(sent'), sent'[i].what = "call"
      PROVE  \E j \in answered : j < i /\ sent'[j].what = "init" /\ sent'[j].to = sent'[i].to
  <2>1. CASE i \in 1..Len(sent)
    <3>1. sent'[i] = sent[i]
        BY <2>1, SentGrows
    <3>2. PICK j \in answered : j < i /\ sent[j].what = "init" /\ sent[j].to = sent[i].to
        BY <1>1, <1>3, <2>1, <3>1 DEF HandshakeFirst
    <3>3. sent'[j] = sent[j]
        BY <1>2, SentGrows
    <3>. QED BY <3>1, <3>2, <3>3
  <2>2. CASE i \notin 1..Len(sent)
    <3>1. i = Len(sent) + 1 /\ Len(sent') = Len(sent) + 1
        BY <1>0, <1>3, <2>2
    <3>2. Sends(c, new) /\ sent'[i] = [by |-> c, what |-> new.what, to |-> new.on]
        BY <3>1, SentGrows
    <3>3. initialized = TRUE /\ proc' = proc /\ new.on = proc'
        BY <1>3, <3>2 DEF Sends
    <3>4. PICK j \in answered : sent[j].what = "init" /\ sent[j].to = proc
        BY <3>3 DEF ServerInv, Greeted
    <3>5. j \in 1..Len(sent) /\ sent'[j] = sent[j]
        BY <1>2, SentGrows
    <3>. QED BY <1>0, <3>1, <3>2, <3>3, <3>4, <3>5
  <2>. QED BY <2>1, <2>2
<1>. QED BY <1>1, <1>2, <1>3 DEF HandshakeFirst

LEMMA LeaksKept ==
    ASSUME TypeInv, ServerInv, NoServerLeaks, NEW c \in Calls, NEW new, CallStep(c, new)
    PROVE  NoServerLeaks'
<1>1. SlotStep(c) /\ eof' = eof /\ reaped \subseteq reaped'
    BY DEF CallStep, Makes, OthersStep
<1>2. servers \in Nat /\ proc \in 0..servers
    BY CallFacts
<1>3. ASSUME NEW p \in Alive' PROVE p \in closed' \cup {proc'}
  <2>1. p \in 1..servers' /\ p \notin eof /\ p \notin reaped
    BY <1>1 DEF Alive
  <2>2. p \in 1..servers => p \in closed \cup {proc} /\ p # 0
    BY <1>2, <2>1 DEF Alive, NoServerLeaks
  <2>3. CASE UNCHANGED <<proc, initialized, closed, servers>>
    BY <2>1, <2>2, <2>3
  <2>4. CASE servers' = servers /\ closed' = closed \cup ({proc} \ {0})
    BY <2>1, <2>2, <2>4
  <2>5. CASE /\ calls[c].pc = "spawn" /\ proc' = servers + 1 /\ servers' = servers + 1
             /\ UNCHANGED <<initialized, closed>>
    <3>1. proc = 0
        BY <2>5 DEF ServerInv
    <3>2. p \in 1..servers \/ p = servers + 1
        BY <1>2, <2>1, <2>5
    <3>. QED BY <2>2, <2>5, <3>1, <3>2
  <2>6. CASE UNCHANGED <<proc, closed, servers>>
    BY <2>1, <2>2, <2>6
  <2>. QED BY <1>1, <2>3, <2>4, <2>5, <2>6 DEF SlotStep
<1>. QED BY <1>3 DEF NoServerLeaks

-----------------------------------------------------------------------------
(* The servers: they answer, end their output and exit; who waits is woken.*)

ServerStep ==
    /\ \A c \in Calls :
           /\ calls'[c] \in Call
           /\ calls'[c].tries = calls[c].tries /\ calls'[c].id = calls[c].id
           /\ calls'[c].what = calls[c].what /\ calls'[c].on = calls[c].on
           /\ calls'[c].drop = calls[c].drop /\ calls'[c].since = calls[c].since
           /\ calls'[c].answer = calls[c].answer
           /\ \/ calls'[c].pc = calls[c].pc
              \/ calls[c].pc = "reading" /\ calls'[c].pc = "woken"
    /\ calls' \in [Calls -> Call]
    /\ UNCHANGED <<proc, state, initialized, lock, servers, closed, sent, begun>>
    /\ eof \subseteq eof' /\ eof' \subseteq 1..servers
    /\ reaped \subseteq reaped' /\ reaped' \subseteq 1..servers
    /\ answered \subseteq answered' /\ answered' \subseteq 1..Len(sent)
    /\ out' \in Seq(Seq(Nat)) /\ Len(out') = servers
    /\ \A p \in 1..servers : \A n \in 1..Len(out'[p]) : out'[p][n] \in answered'

LEMMA Wakes ==
    ASSUME TypeInv, NEW p, calls' = Woken(p)
    PROVE  /\ \A c \in Calls :
                  /\ calls'[c] \in Call
                  /\ calls'[c].tries = calls[c].tries /\ calls'[c].id = calls[c].id
                  /\ calls'[c].what = calls[c].what /\ calls'[c].on = calls[c].on
                  /\ calls'[c].drop = calls[c].drop /\ calls'[c].since = calls[c].since
                  /\ calls'[c].answer = calls[c].answer
                  /\ \/ calls'[c].pc = calls[c].pc
                     \/ calls[c].pc = "reading" /\ calls'[c].pc = "woken"
           /\ calls' \in [Calls -> Call]
<1>1. ASSUME NEW c \in Calls, c \in Waiting(p)
      PROVE  calls'[c] = [calls[c] EXCEPT !.pc = "woken"] /\ calls[c].pc = "reading"
    BY <1>1 DEF Woken, Waiting, At
<1>2. ASSUME NEW c \in Calls, c \notin Waiting(p) PROVE calls'[c] = calls[c]
    BY <1>2 DEF Woken
<1>3. ASSUME NEW c \in Calls
      PROVE  /\ calls'[c] \in Call
             /\ calls'[c].tries = calls[c].tries /\ calls'[c].id = calls[c].id
             /\ calls'[c].what = calls[c].what /\ calls'[c].on = calls[c].on
             /\ calls'[c].drop = calls[c].drop /\ calls'[c].since = calls[c].since
             /\ calls'[c].answer = calls[c].answer
             /\ \/ calls'[c].pc = calls[c].pc
                \/ calls[c].pc = "reading" /\ calls'[c].pc = "woken"
  <2>1. calls[c] \in Call /\ "woken" \in Place
    BY DEF TypeInv, Types, Place
  <2>2. CASE c \in Waiting(p)
    BY <1>1, <2>1, <2>2 DEF Call
  <2>3. CASE c \notin Waiting(p)
    BY <1>2, <2>1, <2>3
  <2>. QED BY <2>2, <2>3
<1>4. calls' = [c \in Calls |-> calls'[c]]
    BY DEF Woken
<1>. QED BY <1>3, <1>4

LEMMA ServersStep ==
    ASSUME TypeInv, NEW p \in 1..servers, Answer(p) \/ StdoutEnds(p) \/ ExitSeen(p)
    PROVE  ServerStep
<1>1. /\ UNCHANGED <<proc, state, initialized, lock, servers, closed, sent, begun>>
      /\ eof \subseteq eof' /\ eof' \subseteq 1..servers
      /\ reaped \subseteq reaped' /\ reaped' \subseteq 1..servers
    BY DEF Answer, StdoutEnds, ExitSeen, adapter, processes, TypeInv, Types
<1>2. calls' = Woken(p) \/ calls' = calls
    BY DEF Answer, StdoutEnds, ExitSeen
<1>3. /\ \A c \in Calls :
             /\ calls'[c] \in Call
             /\ calls'[c].tries = calls[c].tries /\ calls'[c].id = calls[c].id
             /\ calls'[c].what = calls[c].what /\ calls'[c].on = calls[c].on
             /\ calls'[c].drop = calls[c].drop /\ calls'[c].since = calls[c].since
             /\ calls'[c].answer = calls[c].answer
             /\ \/ calls'[c].pc = calls[c].pc
                \/ calls[c].pc = "reading" /\ calls'[c].pc = "woken"
      /\ calls' \in [Calls -> Call]
  <2>1. CASE calls' = calls
    BY <2>1 DEF TypeInv, Types
  <2>. QED BY <1>2, <2>1, Wakes
<1>4. /\ answered \subseteq answered' /\ answered' \subseteq 1..Len(sent)
      /\ out' \in Seq(Seq(Nat)) /\ Len(out') = servers
      /\ \A q \in 1..servers : \A n \in 1..Len(out'[q]) : out'[q][n] \in answered'
  <2>1. /\ answered \subseteq 1..Len(sent) /\ DOMAIN sent = 1..Len(sent)
        /\ out \in Seq(Seq(Nat)) /\ Len(out) = servers
        /\ \A q \in 1..servers : \A n \in 1..Len(out[q]) : out[q][n] \in answered
    BY DEF TypeInv, Types, Ranges
  <2>2. CASE UNCHANGED <<answered, out>>
    BY <2>1, <2>2
  <2>3. CASE Answer(p)
    <3>1. PICK id \in 1..Len(sent) :
            answered' = answered \cup {id} /\ out' = [out EXCEPT ![p] = Append(@, id)]
        BY <2>1, <2>3 DEF Answer
    <3>2. out[p] \in Seq(Nat) /\ id \in Nat
        BY <2>1, CallFacts
    <3>3. /\ Append(out[p], id) \in Seq(Nat)
          /\ Len(Append(out[p], id)) = Len(out[p]) + 1
          /\ \A n \in 1..Len(out[p]) : Append(out[p], id)[n] = out[p][n]
          /\ Append(out[p], id)[Len(out[p]) + 1] = id
        BY <3>2, AppendProperties
    <3>4. \A n \in 1..Len(Append(out[p], id)) : Append(out[p], id)[n] \in answered'
      <4>1. \A n \in 1..Len(Append(out[p], id)) : n \in 1..Len(out[p]) \/ n = Len(out[p]) + 1
        BY <3>2, <3>3
      <4>. QED BY <2>1, <3>1, <3>3, <4>1
    <3>5. out' = [out EXCEPT ![p] = Append(out[p], id)]
        BY <3>1
    <3>6. out' \in Seq(Seq(Nat)) /\ Len(out') = servers
        BY <2>1, <3>3, <3>5
    <3>7. \A q \in 1..servers : out'[q] = IF q = p THEN Append(out[p], id) ELSE out[q]
        BY <2>1, <3>5
    <3>8. ASSUME NEW q \in 1..servers, NEW n \in 1..Len(out'[q])
          PROVE  out'[q][n] \in answered'
      <4>1. CASE q = p
        BY <3>4, <3>7, <3>8, <4>1
      <4>2. CASE q # p
        BY <2>1, <3>1, <3>7, <3>8, <4>2
      <4>. QED BY <4>1, <4>2
    <3>. QED BY <2>1, <3>1, <3>6, <3>8
  <2>. QED BY <2>2, <2>3 DEF StdoutEnds, ExitSeen
<1>. QED BY <1>1, <1>3, <1>4 DEF ServerStep

LEMMA ServersKeepTypes ==
    ASSUME TypeInv, ServerStep
    PROVE  TypeInv'
<1>1. Types'
  <2>1. initialized' \in BOOLEAN
    BY Zenon DEF ServerStep, TypeInv, Types
  <2>. QED BY <2>1 DEF ServerStep, TypeInv, Types
<1>2. Ranges'
    BY DEF ServerStep, TypeInv, Ranges
<1>. QED BY <1>1, <1>2 DEF TypeInv

LEMMA ServersKeepCalls ==
    ASSUME TypeInv, LockInv, OneReads, RequestInv, OwnAnswer, ServerStep
    PROVE  LockInv' /\ OneReads' /\ RequestInv' /\ OwnAnswer'
<1>1. \A c \in Calls : /\ Starts(calls[c])' <=> Starts(calls[c])
                       /\ Waits(calls[c])' <=> Waits(calls[c])
    BY DEF ServerStep, Starts, Waits
<1>2. LockInv'
    BY <1>1 DEF LockInv, ServerStep
<1>3. OneReads'
    BY DEF OneReads, ServerStep
<1>4. RequestInv'
    BY <1>1 DEF RequestInv, IsRequest, ServerStep
<1>5. OwnAnswer'
    BY DEF OwnAnswer, ServerStep
<1>. QED BY <1>2, <1>3, <1>4, <1>5

LEMMA ServersKeepTries ==
    ASSUME TypeInv, TriesInv, ServerStep
    PROVE  TriesInv'
<1>1. ASSUME NEW c \in Calls PROVE TriesOf(c)'
  <2>1. /\ WaitsForTool(calls[c])' <=> WaitsForTool(calls[c])
        /\ calls'[c].id = calls[c].id /\ calls'[c].since = calls[c].since
        /\ calls'[c].tries = calls[c].tries
        /\ calls'[c].pc = "idle" <=> calls[c].pc = "idle"
        /\ calls'[c].pc = "dropping" <=> calls[c].pc = "dropping"
    BY DEF ServerStep, WaitsForTool, Waits
  <2>2. sent' = sent /\ eof \subseteq eof'
    BY DEF ServerStep
  <2>3. Attempts(c)' = Attempts(c)
    BY <2>1, <2>2 DEF Attempts
  <2>4. Lost(c)' = Lost(c)
    BY <2>1, <2>3 DEF Lost
  <2>5. \A i : StreamLost(c, i) => StreamLost(c, i)'
    BY <2>1, <2>2 DEF StreamLost, Past, ServerStep
  <2>. QED BY <2>1, <2>2, <2>4, <2>5 DEF TriesInv, TriesOf
<1>. QED BY <1>1 DEF TriesInv, TriesOf

LEMMA ServersKeepServers ==
    ASSUME TypeInv, ServerInv, HandshakeFirst, NoServerLeaks, ServerStep
    PROVE  ServerInv' /\ HandshakeFirst' /\ NoServerLeaks'
<1>1. \A c \in Calls : /\ Starts(calls[c])' <=> Starts(calls[c])
                       /\ Waits(calls[c])' <=> Waits(calls[c])
    BY DEF ServerStep, Starts, Waits
<1>2. /\ sent' = sent /\ proc' = proc /\ servers' = servers /\ closed' = closed
      /\ initialized' = initialized
      /\ answered \subseteq answered' /\ eof \subseteq eof' /\ reaped \subseteq reaped'
    BY DEF ServerStep
<1>3. ServerInv'
  <2>1. \A p : Greeted(p) => \E j \in answered' : sent'[j].what = "init" /\ sent'[j].to = p
    BY <1>2 DEF Greeted
  <2>2. initialized' = TRUE => proc' # 0 /\ \E j \in answered' : sent'[j].what = "init" /\
                                                                 sent'[j].to = proc'
    BY <1>2, <2>1 DEF ServerInv
  <2>3. \A c \in Calls : calls'[c].pc \in {"clearing", "spawn"} => proc' = 0
    BY <1>2 DEF ServerInv, ServerStep
  <2>4. \A c \in Calls : Starts(calls[c])' /\ Waits(calls[c])' => proc' \in {0, calls'[c].on}
    BY <1>1, <1>2 DEF ServerInv, ServerStep
  <2>. QED BY <2>2, <2>3, <2>4 DEF ServerInv, Greeted
<1>4. HandshakeFirst'
    BY <1>2 DEF HandshakeFirst
<1>5. NoServerLeaks'
    BY <1>2 DEF NoServerLeaks, Alive
<1>. QED BY <1>3, <1>4, <1>5

-----------------------------------------------------------------------------
(* The theorems.                                                           *)

LEMMA Inductive == (Init => Inv) /\ (Inv /\ [Next]_vars => Inv')
<1>1. ASSUME Init PROVE Inv
  <2>1. /\ proc = 0 /\ state = "unavailable" /\ initialized = FALSE /\ lock = Nobody
        /\ servers = 0 /\ eof = {} /\ reaped = {} /\ closed = {}
        /\ out = <<>> /\ sent = <<>> /\ answered = {} /\ begun = 0
        /\ calls \in [Calls -> Call] /\ \A c \in Calls : calls[c] = Idle
    BY <1>1, IdleFields DEF Init
  <2>2. Len(out) = 0 /\ Len(sent) = 0 /\ out \in Seq(Seq(Nat)) /\ sent \in Seq(Request)
    BY <2>1
  <2>3. TypeInv
    <3>1. /\ servers \in 0..MaxServers /\ begun \in 0..MaxInvocations /\ proc \in 0..servers
          /\ eof \subseteq 1..servers /\ reaped \subseteq 1..servers
          /\ answered \subseteq 1..Len(sent)
        BY <2>1, <2>2, LimitsAssumption
    <3>2. state \in {"healthy", "unavailable"} /\ lock \in Calls \cup {Nobody}
        BY <2>1
    <3>3. initialized \in BOOLEAN
        BY <2>1
    <3>4. Types
        BY <2>1, <2>2, <3>1, <3>2, <3>3 DEF Types
    <3>5. 1..servers = {} /\ 1..Len(sent) = {}
        BY <2>1, <2>2
    <3>6. Ranges
      <4>1. \A c \in Calls : /\ calls[c].id <= Len(sent) /\ calls[c].since <= Len(sent)
                            /\ calls[c].answer <= Len(sent) /\ calls[c].drop <= servers
        BY <2>1, <2>2, IdleFields
      <4>. QED BY <3>5, <4>1 DEF Ranges
    <3>. QED BY <3>4, <3>6 DEF TypeInv
  <2>4. LockInv /\ OneReads /\ RequestInv /\ OwnAnswer /\ TriesInv
    BY <2>1, IdleFields, CallersAssumption
       DEF LockInv, OneReads, RequestInv, OwnAnswer, TriesInv, Starts, Waits
  <2>5. ServerInv
    BY <2>1, IdleFields DEF ServerInv, Starts, Waits
  <2>6. HandshakeFirst /\ NoServerLeaks
    BY <2>1, <2>2 DEF HandshakeFirst, NoServerLeaks, Alive
  <2>. QED BY <2>3, <2>4, <2>5, <2>6 DEF Inv
<1>2. ASSUME Inv, [Next]_vars PROVE Inv'
  <2>1. ASSUME NEW c \in Calls, Invoke(c) \/ Proceed(c) \/ Cancel(c) PROVE Inv'
    <3>1. PICK new : CallStep(c, new)
        BY <1>2, <2>1, CallSteps DEF Inv
    <3>. QED BY <1>2, <3>1, TypeKept, LockKept, OneReadsKept, RequestKept, OwnAnswerKept,
                TriesKept, ServerKept, HandshakeKept, LeaksKept DEF Inv
  <2>2. ASSUME NEW p \in 1..servers, Answer(p) \/ StdoutEnds(p) \/ ExitSeen(p) PROVE Inv'
    <3>1. ServerStep
        BY <1>2, <2>2, ServersStep DEF Inv
    <3>. QED BY <1>2, <3>1, ServersKeepTypes, ServersKeepCalls, ServersKeepTries,
                ServersKeepServers DEF Inv
  <2>3. CASE UNCHANGED vars
    <3>1. /\ UNCHANGED <<proc, state, initialized, lock, servers, eof, reaped, closed>>
          /\ UNCHANGED <<out, sent, answered, calls, begun>>
        BY <2>3 DEF vars, adapter, processes
    <3>2. TypeInv' /\ LockInv' /\ OneReads' /\ RequestInv' /\ OwnAnswer'
        BY <1>2, <3>1 DEF Inv, TypeInv, Types, Ranges, LockInv, OneReads, RequestInv, IsRequest,
                          OwnAnswer, Starts, Waits
    <3>3. TriesInv'
        BY <1>2, <3>1 DEF Inv, TriesInv, StreamLost, Past, Lost, Attempts, WaitsForTool, Waits
    <3>4. ServerInv' /\ HandshakeFirst' /\ NoServerLeaks'
        BY <1>2, <3>1 DEF Inv, ServerInv, Greeted, HandshakeFirst, NoServerLeaks, Alive, Starts,
                          Waits
    <3>. QED BY <3>2, <3>3, <3>4 DEF Inv
  <2>. QED BY <1>2, <2>1, <2>2, <2>3 DEF Next
<1>. QED BY <1>1, <1>2

(* The invariant holds in every state of an adapter.                       *)
THEOREM Invariant == Spec => []Inv
BY Inductive, PTL DEF Spec

(* Every variable keeps its type; the lock is held by the one call that is *)
(* inside start, and one call at most waits for the lines of a server.     *)
THEOREM TypeCorrect == Spec => []TypeOK
<1>1. ASSUME Inv PROVE TypeOK
  <2>1. /\ TypeInv /\ LockInv /\ OneReads
        /\ Len(sent) \in Nat /\ DOMAIN sent = 1..Len(sent)
    BY <1>1 DEF Inv, TypeInv, Types
  <2>2. ASSUME NEW c \in Calls
        PROVE  calls[c].tries \in 0..1 /\ calls[c].id \in 0..Len(sent)
    BY <2>1, CallFacts, CallFields
  <2>3. ASSUME NEW c \in Calls PROVE Starting(c) <=> lock = c
    BY <2>1 DEF LockInv, Starting, Starts, Waits
  <2>4. ASSUME NEW p \in 1..servers PROVE Cardinality(Waiting(p)) <= 1
    <3>1. CASE Waiting(p) = {}
        BY <3>1, FS_EmptySet
    <3>2. CASE Waiting(p) # {}
      <4>1. PICK c \in Waiting(p) : TRUE
        BY <3>2
      <4>2. Waiting(p) = {c}
        BY <2>1 DEF OneReads, Waiting
      <4>3. Cardinality({c}) = 1
        BY FS_Singleton
      <4>4. Cardinality(Waiting(p)) = 1
        BY <4>2, <4>3
      <4>. QED BY <4>4
    <3>. QED BY <3>1, <3>2
  <2>. QED BY <2>1, <2>2, <2>3, <2>4 DEF TypeOK, TypeInv, Types
<1>. QED BY Invariant, <1>1, PTL

(* An invocation that was answered got the answer to a request of its own: *)
(* _await_response, whatever else is read from the stream, and by whom.    *)
THEOREM AnswersAreOwn == Spec => []OwnAnswer
<1>1. Inv => OwnAnswer
    BY DEF Inv
<1>. QED BY Invariant, <1>1, PTL

(* A request to a tool is repeated once at most, and only after the stream *)
(* of its server ended, or that of one put in its place before the waiting *)
(* began: invoke and its one reconnect.                                    *)
THEOREM RepeatsFollowLoss == Spec => []RepeatOnlyAfterLoss
<1>1. ASSUME Inv, NEW c \in Calls, calls[c].pc # "idle"
      PROVE  /\ Cardinality(Attempts(c)) <= 2
             /\ \A i, j \in Attempts(c) :
                    i < j => \E p \in eof : sent[i].to <= p /\ p < sent[j].to
  <2>1. /\ \A i \in Lost(c) : StreamLost(c, i)
        /\ \A i \in Lost(c) : WaitsForTool(calls[c]) => i < calls[c].id
        /\ \A i, j \in Lost(c) : i = j
    BY <1>1 DEF Inv, TriesInv
  <2>2. \A i \in Attempts(c) : i \in Lost(c) \/ (WaitsForTool(calls[c]) /\ i = calls[c].id)
    BY DEF Lost
  <2>3. calls[c].id \in Nat /\ \A i \in Attempts(c) : i \in Int
    BY <1>1, CallFacts, CallFields DEF Inv, Attempts
  <2>4. ASSUME NEW i \in Attempts(c), NEW j \in Attempts(c), i < j
        PROVE  \E p \in eof : sent[i].to <= p /\ p < sent[j].to
    <3>1. i \in Lost(c) /\ WaitsForTool(calls[c]) /\ j = calls[c].id
        BY <2>1, <2>2, <2>3, <2>4 DEF Lost
    <3>. QED BY <2>1, <3>1 DEF StreamLost
  <2>5. PICK x : \A i \in Attempts(c) : i \in {x, calls[c].id}
    <3>1. CASE Lost(c) = {}
        BY <2>2, <3>1
    <3>2. CASE Lost(c) # {}
        BY <2>1, <2>2, <3>2
    <3>. QED BY <3>1, <3>2
  <2>6. /\ IsFiniteSet({x, calls[c].id}) /\ Cardinality({x, calls[c].id}) <= 2
    <3>1. {x, calls[c].id} = {x} \cup {calls[c].id}
        OBVIOUS
    <3>2. IsFiniteSet({x}) /\ Cardinality({x}) = 1
        BY FS_Singleton
    <3>. QED BY <3>1, <3>2, FS_AddElement
  <2>7. /\ IsFiniteSet(Attempts(c))
        /\ Cardinality(Attempts(c)) <= Cardinality({x, calls[c].id})
    BY <2>5, <2>6, FS_Subset
  <2>8. Cardinality(Attempts(c)) <= 2
    BY <2>6, <2>7, FS_CardinalityType
  <2>. QED BY <2>4, <2>8
<1>2. Inv => RepeatOnlyAfterLoss
    BY <1>1 DEF RepeatOnlyAfterLoss
<1>. QED BY Invariant, <1>2, PTL

(* No tool is called before the handshake of its very server: the flag the *)
(* adapter keeps (_initialized) over servers that come and go.             *)
THEOREM HandshakeComesFirst == Spec => []HandshakeFirst
<1>1. Inv => HandshakeFirst
    BY DEF Inv
<1>. QED BY Invariant, <1>1, PTL

(* A running server that was not told to end is the one in the slot,       *)
(* whatever step of start or disconnect is cut short (start, _shutdown).   *)
THEOREM ServersNeverLeak == Spec => []NoServerLeaks
<1>1. Inv => NoServerLeaks
    BY DEF Inv
<1>. QED BY Invariant, <1>1, PTL

=============================================================================
