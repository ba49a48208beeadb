----------------------------- MODULE WebSocketHub -----------------------------
(***************************************************************************)
(* The WebSocket hub (internal/web/websocket/hub.go) with the connections  *)
(* of internal/web/service/panel/websocket.go.  One goroutine owns the     *)
(* registry; registrations and unregistrations reach it through one        *)
(* ordered queue, broadcasts through another, and it fans each message out *)
(* into the send buffers of the registered clients without ever waiting.   *)
(* Every connection has a read pump, which unregisters it, and a write     *)
(* pump, which empties its buffer.                                         *)
(*                                                                         *)
(* Broadcasts carry a serial number modulo Wrap, so that they can go on    *)
(* for ever.  One that is throttled or finds its queue full is dropped     *)
(* before it has a number.  NoGaps tells messages apart when Wrap exceeds  *)
(* SendQueue + BroadcastQueue + 1; the other properties need no numbers.   *)
(***************************************************************************)
EXTENDS Naturals, Sequences

CONSTANTS
    Clients,        \* one connection each
    SendQueue,      \* clientSendQueue
    BroadcastQueue, \* hubBroadcastQueue
    OpsQueue,       \* hubOpsQueue
    Attempts,       \* hubRestartAttempts
    Casters,        \* bound on the calls of Broadcast on the way at once
    Wrap            \* bound on the serial numbers

ASSUME ConstantsAssumption ==
    /\ SendQueue \in Nat \ {0} /\ BroadcastQueue \in Nat \ {0}
    /\ OpsQueue \in Nat \ {0} /\ Attempts \in Nat \ {0}
    /\ Casters \in Nat \ {0}
    /\ Wrap \in Nat \ {0}

VARIABLES
    hub,        \* where Run stands
    crashes,    \* panics recovered by runOnce
    ctxDone,    \* h.ctx is cancelled
    registry,   \* h.clients
    ops,        \* h.ops
    broadcast,  \* h.broadcast
    casters,    \* calls of Broadcast that have seen a client, before enqueue
    next,       \* number of the next broadcast
    send,       \* send[c]: buffer of c.Send
    closed,     \* closed[c]: c.Send is closed
    reader,     \* reader[c]: where HandleConnection, then readPump stands
    writer,     \* writer[c]: where writePump stands
    open,       \* open[c]: the connection has not been closed from this side
    last        \* last[c]: the last message writePump took; Wrap: none

hubVars  == <<hub, crashes, ctxDone>>
chanVars == <<registry, ops, send, closed>>
castVars == <<broadcast, casters, next>>
connVars == <<reader, writer, open, last>>
vars == <<hubVars, chanVars, castVars, connVars>>

Serials == 0..(Wrap - 1)
Succ(m) == (m + 1) % Wrap

Op(kind, c) == [kind |-> kind, c |-> c]
Ops == [kind : {"register", "unregister"}, c : Clients]

Init ==
    /\ hub = "run" /\ crashes = 0 /\ ctxDone = FALSE
    /\ registry = {} /\ ops = <<>>
    /\ broadcast = <<>> /\ casters = 0 /\ next = 0
    /\ send = [c \in Clients |-> <<>>]
    /\ closed = [c \in Clients |-> FALSE]
    /\ reader = [c \in Clients |-> "none"]
    /\ writer = [c \in Clients |-> "none"]
    /\ open = [c \in Clients |-> FALSE]
    /\ last = [c \in Clients |-> Wrap]

-----------------------------------------------------------------------------
(* A connection.                                                           *)

\* HandleConnection takes the connection and calls Register.
Connect(c) ==
    /\ reader[c] = "none"
    /\ reader' = [reader EXCEPT ![c] = "registering"]
    /\ open' = [open EXCEPT ![c] = TRUE]
    /\ UNCHANGED <<hubVars, chanVars, castVars, writer, last>>

\* The select of Register and Unregister: send, or give up on a cancelled
\* context; with both possible either may be chosen.
SendsOp(op) ==
    /\ Len(ops) < OpsQueue
    /\ ops' = Append(ops, op)

\* Register returns, in either way, and the pumps start.
Register(c) ==
    /\ reader[c] = "registering"
    /\ SendsOp(Op("register", c)) \/ (ctxDone /\ UNCHANGED ops)
    /\ reader' = [reader EXCEPT ![c] = "reading"]
    /\ writer' = [writer EXCEPT ![c] = "writing"]
    /\ UNCHANGED <<hubVars, registry, send, closed, castVars, open, last>>

\* ReadMessage fails: the peer went away or missed its pong, or the write pump
\* has closed the connection.
ReadFails(c) ==
    /\ reader[c] = "reading"
    /\ reader' = [reader EXCEPT ![c] = "leaving"]
    /\ UNCHANGED <<hubVars, chanVars, castVars, writer, open, last>>

\* Mutant: on a full queue the client is removed directly.
RemovesDirectly(c) ==
    /\ reader[c] = "leaving"
    /\ \/ SendsOp(Op("unregister", c)) /\ UNCHANGED <<registry, closed>>
       \/ /\ Len(ops) = OpsQueue
          /\ registry' = registry \ {c}
          /\ closed' = [closed EXCEPT ![c] = c \in registry]
          /\ UNCHANGED ops
    /\ reader' = [reader EXCEPT ![c] = "left"]
    /\ open' = [open EXCEPT ![c] = FALSE]
    /\ UNCHANGED <<hubVars, send, castVars, writer, last>>

\* The deferred Unregister and Close of readPump.  After enqueueTimeout on a
\* full queue, or with the context cancelled, the hub is not told.
Unregister(c) ==
    /\ reader[c] = "leaving"
    /\ \/ /\ SendsOp(Op("unregister", c))
          /\ reader' = [reader EXCEPT ![c] = "left"]
       \/ /\ Len(ops) = OpsQueue \/ ctxDone
          /\ reader' = [reader EXCEPT ![c] = "untold"]
          /\ UNCHANGED ops
    /\ open' = [open EXCEPT ![c] = FALSE]
    /\ UNCHANGED <<hubVars, registry, send, closed, castVars, writer, last>>

\* Leaving writePump closes the connection.
WriterExits(c) ==
    /\ writer' = [writer EXCEPT ![c] = "exited"]
    /\ open' = [open EXCEPT ![c] = FALSE]

\* A message is taken and written, or the write fails.
WriterTakes(c) ==
    /\ writer[c] = "writing" /\ send[c] # <<>>
    /\ last' = [last EXCEPT ![c] = Head(send[c])]
    /\ send' = [send EXCEPT ![c] = Tail(@)]
    /\ WriterExits(c) \/ (open[c] /\ UNCHANGED <<writer, open>>)
    /\ UNCHANGED <<hubVars, registry, ops, closed, castVars, reader>>

\* Mutant: the second value of the receive is not looked at.
IgnoresClose(c) ==
    /\ writer[c] = "writing" /\ send[c] = <<>> /\ closed[c]
    /\ UNCHANGED vars

\* The channel is closed and drained.
WriterSeesClose(c) ==
    /\ writer[c] = "writing" /\ send[c] = <<>> /\ closed[c]
    /\ WriterExits(c)
    /\ UNCHANGED <<hubVars, chanVars, castVars, reader, last>>

PingFails(c) ==
    /\ writer[c] = "writing"
    /\ WriterExits(c)
    /\ UNCHANGED <<hubVars, chanVars, castVars, reader, last>>

-----------------------------------------------------------------------------
(* Broadcasters, Stop and the hub's goroutine.                             *)

\* Broadcast sees a registered client; a throttled message goes no further.
Broadcast ==
    /\ registry # {} /\ casters < Casters
    /\ casters' = casters + 1
    /\ UNCHANGED <<hubVars, chanVars, broadcast, next, connVars>>

\* enqueue: the message is queued, or dropped after enqueueTimeout on a full
\* queue or when the context is cancelled.
Enqueue ==
    /\ casters > 0
    /\ casters' = casters - 1
    /\ \/ /\ Len(broadcast) < BroadcastQueue
          /\ broadcast' = Append(broadcast, next)
          /\ next' = Succ(next)
       \/ /\ Len(broadcast) = BroadcastQueue \/ ctxDone
          /\ UNCHANGED <<broadcast, next>>
    /\ UNCHANGED <<hubVars, chanVars, connVars>>

Stop ==
    /\ ~ctxDone
    /\ ctxDone' = TRUE
    /\ UNCHANGED <<hub, crashes, chanVars, castVars, connVars>>

Closes(S) == closed' = [c \in Clients |-> closed[c] \/ c \in S]

HubTakesOp ==
    /\ hub = "run" /\ ops # <<>>
    /\ ops' = Tail(ops)
    /\ LET op == Head(ops) IN
        IF op.kind = "register"
        THEN registry' = registry \cup {op.c} /\ UNCHANGED closed
        ELSE registry' = registry \ {op.c} /\ Closes(registry \cap {op.c})
    /\ UNCHANGED <<hubVars, send, castVars, connVars>>

\* trySend fails on a full buffer and on a closed channel.
Slow == {c \in registry : closed[c] \/ Len(send[c]) = SendQueue}

\* Mutant: a client whose buffer is full misses the message and stays.
KeepsSlow ==
    /\ hub = "run" /\ broadcast # <<>>
    /\ broadcast' = Tail(broadcast)
    /\ send' = [c \in Clients |->
                   IF c \in registry \ Slow THEN Append(send[c], Head(broadcast)) ELSE send[c]]
    /\ UNCHANGED <<hubVars, registry, ops, closed, casters, next, connVars>>

\* Mutant: slow clients are unregistered through the queue the hub empties.
EvictsThroughOps ==
    /\ hub = "run" /\ broadcast # <<>>
    /\ broadcast' = Tail(broadcast)
    /\ send' = [c \in Clients |->
                   IF c \in registry \ Slow THEN Append(send[c], Head(broadcast)) ELSE send[c]]
    /\ IF Slow = {} THEN UNCHANGED <<hub, ops>>
       ELSE IF Len(ops) = OpsQueue THEN hub' = "blocked" /\ UNCHANGED ops
       ELSE ops' = Append(ops, Op("unregister", CHOOSE c \in Slow : TRUE)) /\ UNCHANGED hub
    /\ UNCHANGED <<crashes, ctxDone, registry, closed, casters, next, connVars>>

\* fanout: every registered client gets the message or is evicted.
HubFansOut ==
    /\ hub = "run" /\ broadcast # <<>>
    /\ broadcast' = Tail(broadcast)
    /\ send' = [c \in Clients |->
                   IF c \in registry \ Slow THEN Append(send[c], Head(broadcast)) ELSE send[c]]
    /\ registry' = registry \ Slow
    /\ Closes(Slow)
    /\ UNCHANGED <<hubVars, ops, casters, next, connVars>>

HubShutsDown ==
    /\ hub = "run" /\ ctxDone
    /\ hub' = "down"
    /\ registry' = {}
    /\ Closes(registry)
    /\ UNCHANGED <<crashes, ctxDone, ops, send, castVars, connVars>>

\* Mutant: one attempt too many.
OnceMore ==
    /\ hub = "run"
    /\ \/ ops # <<>> /\ ops' = Tail(ops) /\ UNCHANGED broadcast
       \/ broadcast # <<>> /\ broadcast' = Tail(broadcast) /\ UNCHANGED ops
    /\ crashes' = crashes + 1
    /\ hub' = IF crashes' <= Attempts THEN "backoff" ELSE "down"
    /\ UNCHANGED <<ctxDone, registry, send, closed, casters, next, connVars>>

\* A panic is recovered; what was being handled is lost.
HubCrashes ==
    /\ hub = "run"
    /\ \/ ops # <<>> /\ ops' = Tail(ops) /\ UNCHANGED broadcast
       \/ broadcast # <<>> /\ broadcast' = Tail(broadcast) /\ UNCHANGED ops
    /\ crashes' = crashes + 1
    /\ hub' = IF crashes' < Attempts THEN "backoff" ELSE "down"
    /\ UNCHANGED <<ctxDone, registry, send, closed, casters, next, connVars>>

\* The backoff is over, or the context was cancelled first.
HubResumes ==
    /\ hub = "backoff"
    /\ hub' = "run" \/ (ctxDone /\ hub' = "down")
    /\ UNCHANGED <<crashes, ctxDone, chanVars, castVars, connVars>>

-----------------------------------------------------------------------------
HubStep == HubTakesOp \/ HubFansOut \/ HubShutsDown \/ HubResumes

ConnStep(c) ==
    \/ Connect(c) \/ Register(c) \/ ReadFails(c) \/ Unregister(c)
    \/ WriterTakes(c) \/ WriterSeesClose(c) \/ PingFails(c)

Next ==
    \/ HubStep \/ HubCrashes \/ Broadcast \/ Enqueue \/ Stop
    \/ \E c \in Clients : ConnStep(c)

Spec == Init /\ [][Next]_vars

(* The hub's select is fair to its two queues; jobs broadcast every few    *)
(* seconds; a pump whose connection is closed notices (ReadMessage returns *)
(* and the next ping fails); timers expire.  No peer has to do anything.   *)
FairSpec ==
    /\ Spec
    /\ SF_vars(HubTakesOp) /\ SF_vars(HubFansOut)
    /\ WF_vars(HubShutsDown) /\ WF_vars(HubResumes)
    /\ WF_vars(Broadcast) /\ WF_vars(Enqueue)
    /\ \A c \in Clients :
        /\ SF_vars(Register(c)) /\ WF_vars(Unregister(c))
        /\ WF_vars(WriterTakes(c)) /\ WF_vars(WriterSeesClose(c))
        /\ WF_vars(~open[c] /\ ReadFails(c)) /\ WF_vars(~open[c] /\ PingFails(c))

-----------------------------------------------------------------------------
(* Properties.                                                             *)

\* Every variable keeps its type and every queue its size.
TypeOK ==
    /\ hub \in {"run", "backoff", "down"}
    /\ crashes \in 0..Attempts /\ ctxDone \in BOOLEAN
    /\ registry \subseteq Clients
    /\ ops \in Seq(Ops) /\ Len(ops) <= OpsQueue
    /\ broadcast \in Seq(Serials) /\ Len(broadcast) <= BroadcastQueue
    /\ casters \in 0..Casters /\ next \in Serials
    /\ send \in [Clients -> Seq(Serials)]
    /\ \A c \in Clients : Len(send[c]) <= SendQueue
    /\ closed \in [Clients -> BOOLEAN]
    /\ reader \in [Clients -> {"none", "registering", "reading", "leaving", "left", "untold"}]
    /\ writer \in [Clients -> {"none", "writing", "exited"}]
    /\ open \in [Clients -> BOOLEAN]
    /\ last \in [Clients -> 0..Wrap]

\* What client c has taken, then what it is still to take, then what the hub
\* is still to fan out.
Stream(c) ==
    (IF last[c] = Wrap THEN <<>> ELSE <<last[c]>>) \o send[c]

Consecutive(s) == \A i \in 1..(Len(s) - 1) : s[i + 1] = Succ(s[i])

\* A client sees the broadcasts in their order and none twice, and as long as
\* it is registered it misses none: its stream ends where the hub's queue
\* begins.  (A message the hub panics on is lost to all.)
NoGaps ==
    crashes = 0 =>
        \A c \in Clients :
            /\ Consecutive(Stream(c))
            /\ c \in registry /\ Stream(c) # <<>> =>
                  Consecutive(Stream(c) \o broadcast \o <<next>>)

\* "A register-then-unregister sequence from one goroutine is processed in
\* program order": a client whose unregistration was accepted is out of the
\* registry once it has been handled, and for good.
NoGhosts ==
    crashes = 0 =>
        \A c \in Clients :
            reader[c] = "left" /\ c \in registry =>
                \E i \in 1..Len(ops) : ops[i] = Op("unregister", c)

\* "Stragglers get evicted by fanout": a client whose read pump has ended leaves
\* the registry even when the hub was never told, unless the hub gave up.
StragglersEvicted ==
    \A c \in Clients :
        reader[c] \in {"left", "untold"} ~> (c \notin registry \/ hub = "down")

\* A client the hub has evicted, or closed at shutdown, is cut off, so that the
\* browser notices and connects again.
EvictedIsCutOff ==
    \A c \in Clients : closed[c] ~> (writer[c] = "exited" /\ ~open[c])

\* Register returns: the hub never waits for room in the queue it empties itself
\* (the self-deadlock the comment of fanout recalls), unless the hub gave up.
RegisterReturns ==
    \A c \in Clients :
        reader[c] = "registering" ~> (reader[c] # "registering" \/ hub = "down")

\* Stop: "signals the hub to shut down and close all client connections": when
\* the hub has shut down, nobody is left with a channel that is never closed.
StopClosesAll ==
    hub = "down" /\ ctxDone =>
        \A c \in Clients : writer[c] = "writing" => closed[c]

=============================================================================
