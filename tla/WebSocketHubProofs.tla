------------------------- MODULE WebSocketHubProofs -------------------------
(***************************************************************************)
(* Types, the absence of ghost clients and streams without gaps, for any   *)
(* number of clients, any sizes of the buffers and any number of attempts. *)
(***************************************************************************)
EXTENDS WebSocketHub, TLAPS

USE ConstantsAssumption
USE DEF hubVars, chanVars, castVars, connVars

-----------------------------------------------------------------------------
(* Types.                                                                  *)

\* A hub that has not given up has an attempt left.
Budget == hub # "down" => crashes < Attempts

LEMMA SuccType == \A m \in Serials : Succ(m) \in Serials
  <1>1. \A a \in Nat, b \in Nat : b # 0 => a % b \in 0..(b - 1)
    OBVIOUS
  <1>2. \A m \in Serials : m + 1 \in Nat
    BY DEF Serials
  <1> SUFFICES ASSUME NEW m \in Serials PROVE (m + 1) % Wrap \in 0..(Wrap - 1)
    BY DEF Serials, Succ
  <1>3. QED
    BY <1>1, <1>2

LEMMA TypeInit == Init => TypeOK /\ Budget
  <1> SUFFICES ASSUME Init PROVE TypeOK /\ Budget
    OBVIOUS
  <1>1. /\ 0 \in Serials /\ 0 \in 0..Attempts /\ 0 \in 0..Casters
        /\ Wrap \in 0..Wrap /\ 0 < Attempts
    BY DEF Serials
  <1>2. /\ ops \in Seq(Ops) /\ Len(ops) <= OpsQueue
        /\ broadcast \in Seq(Serials) /\ Len(broadcast) <= BroadcastQueue
    BY DEF Init
  <1>3. /\ send \in [Clients -> Seq(Serials)]
        /\ \A c \in Clients : Len(send[c]) <= SendQueue
    BY DEF Init
  <1>4. QED
    BY <1>1, <1>2, <1>3 DEF Init, TypeOK, Budget

\* SendsOp, as Register and Unregister use it.
LEMMA SendsType ==
    ASSUME TypeOK, NEW op \in Ops, SendsOp(op)
    PROVE  /\ ops' \in Seq(Ops) /\ Len(ops') <= OpsQueue
           /\ Len(ops') = Len(ops) + 1
           /\ \A i \in 1..Len(ops) : ops'[i] = ops[i]
           /\ ops'[Len(ops) + 1] = op
  BY DEF SendsOp, TypeOK

LEMMA TypeConn ==
    ASSUME TypeOK, Budget, NEW c \in Clients, ConnStep(c)
    PROVE  TypeOK' /\ Budget'
  <1>1. CASE Connect(c)
    BY <1>1 DEF Connect, TypeOK, Budget
  <1>2. CASE Register(c)
    <2>1. Op("register", c) \in Ops
      BY DEF Op, Ops
    <2>2. ops' \in Seq(Ops) /\ Len(ops') <= OpsQueue
      BY <1>2, <2>1, SendsType DEF Register, TypeOK
    <2>3. QED
      BY <1>2, <2>2 DEF Register, TypeOK, Budget
  <1>3. CASE ReadFails(c)
    BY <1>3 DEF ReadFails, TypeOK, Budget
  <1>4. CASE Unregister(c)
    <2>1. Op("unregister", c) \in Ops
      BY DEF Op, Ops
    <2>2. ops' \in Seq(Ops) /\ Len(ops') <= OpsQueue
      BY <1>4, <2>1, SendsType DEF Unregister, TypeOK
    <2>3. QED
      BY <1>4, <2>2 DEF Unregister, TypeOK, Budget
  <1>5. CASE WriterTakes(c)
    <2>1. /\ send[c] \in Seq(Serials) /\ send[c] # <<>> /\ Len(send[c]) <= SendQueue
          /\ Head(send[c]) \in Serials /\ Tail(send[c]) \in Seq(Serials)
          /\ Len(Tail(send[c])) <= SendQueue
      BY <1>5 DEF WriterTakes, TypeOK
    <2>2. Head(send[c]) \in 0..Wrap
      BY <2>1 DEF Serials
    <2>3. /\ send' \in [Clients -> Seq(Serials)]
          /\ \A x \in Clients : Len(send'[x]) <= SendQueue
          /\ last' \in [Clients -> 0..Wrap]
      BY <1>5, <2>1, <2>2 DEF WriterTakes, TypeOK
    <2>4. QED
      BY <1>5, <2>3 DEF WriterTakes, WriterExits, TypeOK, Budget
  <1>6. CASE WriterSeesClose(c)
    BY <1>6 DEF WriterSeesClose, WriterExits, TypeOK, Budget
  <1>7. CASE PingFails(c)
    BY <1>7 DEF PingFails, WriterExits, TypeOK, Budget
  <1>8. QED
    BY <1>1, <1>2, <1>3, <1>4, <1>5, <1>6, <1>7 DEF ConnStep

\* fanout: who is not slow gets the message at the end of its buffer.
LEMMA FansOutType ==
    ASSUME TypeOK, HubFansOut
    PROVE  /\ Head(broadcast) \in Serials /\ Tail(broadcast) \in Seq(Serials)
           /\ Len(Tail(broadcast)) <= BroadcastQueue
           /\ send' \in [Clients -> Seq(Serials)]
           /\ \A x \in Clients : Len(send'[x]) <= SendQueue
  <1>1. /\ Head(broadcast) \in Serials /\ Tail(broadcast) \in Seq(Serials)
        /\ Len(Tail(broadcast)) <= BroadcastQueue
    BY DEF HubFansOut, TypeOK
  <1>2. ASSUME NEW x \in Clients
        PROVE  send'[x] \in Seq(Serials) /\ Len(send'[x]) <= SendQueue
    <2>1. send[x] \in Seq(Serials) /\ Len(send[x]) <= SendQueue
      BY DEF TypeOK
    <2>2. x \notin Slow /\ x \in registry => Len(send[x]) # SendQueue
      BY DEF Slow
    <2>3. send'[x] = IF x \in registry \ Slow THEN Append(send[x], Head(broadcast)) ELSE send[x]
      BY DEF HubFansOut
    <2>4. QED
      BY <1>1, <2>1, <2>2, <2>3
  <1>3. send' = [x \in Clients |-> send'[x]]
    BY DEF HubFansOut
  <1>4. QED
    BY <1>1, <1>2, <1>3

LEMMA TypeHub ==
    ASSUME TypeOK, Budget, HubStep \/ HubCrashes
    PROVE  TypeOK' /\ Budget'
  <1>1. CASE HubTakesOp
    <2>1. Head(ops) \in Ops /\ Tail(ops) \in Seq(Ops) /\ Len(Tail(ops)) <= OpsQueue
      BY <1>1 DEF HubTakesOp, TypeOK
    <2>2. Head(ops).c \in Clients
      BY <2>1 DEF Ops
    <2>3. QED
      BY <1>1, <2>1, <2>2 DEF HubTakesOp, Closes, TypeOK, Budget
  <1>2. CASE HubFansOut
    BY <1>2, FansOutType DEF HubFansOut, Closes, TypeOK, Budget
  <1>3. CASE HubShutsDown
    BY <1>3 DEF HubShutsDown, Closes, TypeOK, Budget
  <1>4. CASE HubResumes
    BY <1>4 DEF HubResumes, TypeOK, Budget
  <1>5. CASE HubCrashes
    <2>1. /\ ops' \in Seq(Ops) /\ Len(ops') <= OpsQueue
          /\ broadcast' \in Seq(Serials) /\ Len(broadcast') <= BroadcastQueue
      <3>1. CASE ops # <<>> /\ ops' = Tail(ops) /\ UNCHANGED broadcast
        BY <3>1 DEF TypeOK
      <3>2. CASE broadcast # <<>> /\ broadcast' = Tail(broadcast) /\ UNCHANGED ops
        BY <3>2 DEF TypeOK
      <3>3. QED
        BY <1>5, <3>1, <3>2 DEF HubCrashes
    <2>2. crashes' \in 0..Attempts /\ Budget'
      BY <1>5 DEF HubCrashes, TypeOK, Budget
    <2>3. QED
      BY <1>5, <2>1, <2>2 DEF HubCrashes, TypeOK
  <1>6. QED
    BY <1>1, <1>2, <1>3, <1>4, <1>5 DEF HubStep

LEMMA TypeCast ==
    ASSUME TypeOK, Budget, Broadcast \/ Enqueue \/ Stop \/ UNCHANGED vars
    PROVE  TypeOK' /\ Budget'
  <1>1. CASE Broadcast
    BY <1>1 DEF Broadcast, TypeOK, Budget
  <1>2. CASE Enqueue
    <2>1. next' \in Serials
      BY <1>2, SuccType DEF Enqueue, TypeOK
    <2>2. broadcast' \in Seq(Serials) /\ Len(broadcast') <= BroadcastQueue
      <3>1. CASE broadcast' = Append(broadcast, next) /\ Len(broadcast) < BroadcastQueue
        BY <3>1 DEF TypeOK
      <3>2. CASE broadcast' = broadcast
        BY <3>2 DEF TypeOK
      <3>3. QED
        BY <1>2, <3>1, <3>2 DEF Enqueue
    <2>3. QED
      BY <1>2, <2>1, <2>2 DEF Enqueue, TypeOK, Budget
  <1>3. CASE Stop
    BY <1>3 DEF Stop, TypeOK, Budget
  <1>4. CASE UNCHANGED vars
    BY <1>4 DEF vars, TypeOK, Budget
  <1>5. QED
    BY <1>1, <1>2, <1>3, <1>4

LEMMA TypeNext == TypeOK /\ Budget /\ [Next]_vars => TypeOK' /\ Budget'
  BY TypeConn, TypeHub, TypeCast DEF Next

\* Every variable keeps its type and every queue its size: no buffer of a client
\* and no queue of the hub takes more than it has room for, and Run gives up
\* after its attempts.
THEOREM TypeCorrect == Spec => []TypeOK
  <1>1. Spec => [](TypeOK /\ Budget)
    BY TypeInit, TypeNext, PTL DEF Spec
  <1>2. QED
    BY <1>1, PTL

-----------------------------------------------------------------------------
(* No ghosts.                                                              *)

Queued(kind, c, i) == i \in 1..Len(ops) /\ ops[i] = Op(kind, c)

\* Of a client that was told off, the hub holds an unregistration behind every
\* registration, as long as it still holds anything.
LeavesInOrder(c) ==
    reader[c] = "left" /\ (c \in registry \/ \E j \in Nat : Queued("register", c, j)) =>
        \E i \in Nat : /\ Queued("unregister", c, i)
                       /\ \A j \in Nat : Queued("register", c, j) => j < i

InOrder == crashes = 0 => \A c \in Clients : LeavesInOrder(c)

LEMMA OpsDiffer ==
    /\ \A c, d : Op("register", c) # Op("unregister", d)
    /\ \A kind, c, d : Op(kind, c) = Op(kind, d) => c = d
    /\ \A kind, c : Op(kind, c).kind = kind /\ Op(kind, c).c = c
    /\ \A op \in Ops : op = Op(op.kind, op.c)
    /\ \A op \in Ops : op.kind \in {"register", "unregister"} /\ op.c \in Clients
  <1>1. /\ \A kind, c : Op(kind, c).kind = kind /\ Op(kind, c).c = c
        /\ \A op \in Ops : op = Op(op.kind, op.c)
        /\ \A op \in Ops : op.kind \in {"register", "unregister"} /\ op.c \in Clients
    BY DEF Op, Ops
  <1>2. "register" # "unregister"
    OBVIOUS
  <1>3. QED
    BY <1>1, <1>2

\* Another operation at the end of the queue leaves the others in their places.
LEMMA SendKeepsQueue ==
    ASSUME TypeOK, NEW op \in Ops, SendsOp(op)
    PROVE  \A kind, c : \A i \in Nat :
              Queued(kind, c, i)' <=> \/ Queued(kind, c, i)
                                      \/ i = Len(ops) + 1 /\ op = Op(kind, c)
  BY SendsType DEF Queued, TypeOK

\* The first operation taken, the others move up.
LEMMA TakeKeepsQueue ==
    ASSUME TypeOK, ops # <<>>, ops' = Tail(ops)
    PROVE  /\ \A kind, c : \A i \in Nat : Queued(kind, c, i)' <=> Queued(kind, c, i + 1) /\ i > 0
           /\ Head(ops) = ops[1] /\ Head(ops) \in Ops /\ 1 \in 1..Len(ops)
  BY DEF Queued, TypeOK

LEMMA InOrderInit == Init => InOrder
  BY DEF Init, InOrder, LeavesInOrder

\* Whoever leaves is last in the queue; nobody registers who has left.
LEMMA InOrderConn ==
    ASSUME TypeOK, InOrder, NEW c \in Clients, ConnStep(c)
    PROVE  InOrder'
  <1>1. CASE UNCHANGED <<ops, registry, crashes>> /\ \A d \in Clients :
                reader'[d] = reader[d] \/ reader'[d] # "left"
    BY <1>1 DEF InOrder, LeavesInOrder, Queued
  <1>2. CASE Register(c) /\ SendsOp(Op("register", c))
    <2>1. Op("register", c) \in Ops
      BY DEF Op, Ops
    <2>2. ASSUME NEW d \in Clients, crashes = 0 PROVE LeavesInOrder(d)'
      <3>1. CASE d = c
        BY <1>2, <3>1 DEF Register, TypeOK, LeavesInOrder
      <3>2. CASE d # c
        <4>1. LeavesInOrder(d) /\ reader'[d] = reader[d] /\ registry' = registry
          BY <1>2, <2>2, <3>2 DEF Register, TypeOK, InOrder
        <4>2. \A kind : \A i \in Nat : Queued(kind, d, i)' <=> Queued(kind, d, i)
          <5>1. \A kind : Op("register", c) # Op(kind, d)
            BY <3>2, OpsDiffer
          <5>2. QED
            BY <1>2, <2>1, <5>1, SendKeepsQueue
        <4>3. QED
          BY <4>1, <4>2 DEF LeavesInOrder
      <3>3. QED
        BY <3>1, <3>2
    <2>3. QED
      BY <1>2, <2>2 DEF Register, InOrder
  <1>3. CASE Unregister(c) /\ SendsOp(Op("unregister", c))
    <2>1. Op("unregister", c) \in Ops
      BY DEF Op, Ops
    <2>2. \A kind, d : \A i \in Nat :
              Queued(kind, d, i)' <=> \/ Queued(kind, d, i)
                                      \/ i = Len(ops) + 1 /\ Op("unregister", c) = Op(kind, d)
      BY <1>3, <2>1, SendKeepsQueue
    <2>3. \A d : \A j \in Nat : Queued("register", d, j)' => Queued("register", d, j)
      BY <2>2, OpsDiffer
    <2>4. ASSUME NEW d \in Clients, crashes = 0 PROVE LeavesInOrder(d)'
      <3>1. CASE d = c
        <4>0. PICK n \in Nat : n = Len(ops) + 1
          BY DEF TypeOK
        <4>1. Queued("unregister", c, n)'
          BY <2>2, <4>0
        <4>2. \A j \in Nat : Queued("register", c, j)' => j < n
          BY <2>3, <4>0 DEF Queued, TypeOK
        <4>3. QED
          BY <3>1, <4>1, <4>2 DEF LeavesInOrder
      <3>2. CASE d # c
        <4>1. LeavesInOrder(d) /\ reader'[d] = reader[d] /\ registry' = registry
          BY <1>3, <2>4, <3>2 DEF Unregister, TypeOK, InOrder
        <4>2. QED
          BY <2>2, <2>3, <4>1 DEF LeavesInOrder
      <3>3. QED
        BY <3>1, <3>2
    <2>5. QED
      BY <1>3, <2>4 DEF Unregister, InOrder
  <1>4. QED
    BY <1>1, <1>2, <1>3 DEF ConnStep, Connect, Register, ReadFails, Unregister,
       WriterTakes, WriterSeesClose, PingFails, TypeOK

LEMMA InOrderHub ==
    ASSUME TypeOK, InOrder, HubStep \/ HubCrashes
    PROVE  InOrder'
  <1>1. CASE HubTakesOp
    <2> DEFINE op == Head(ops)
    <2>1. /\ ops # <<>> /\ ops' = Tail(ops) /\ reader' = reader /\ crashes' = crashes
          /\ IF op.kind = "register" THEN registry' = registry \cup {op.c}
                                     ELSE registry' = registry \ {op.c}
      BY <1>1 DEF HubTakesOp
    <2>2. /\ \A kind, c : \A i \in Nat : Queued(kind, c, i)' <=> Queued(kind, c, i + 1) /\ i > 0
          /\ op = ops[1] /\ op \in Ops /\ 1 \in 1..Len(ops)
      BY <2>1, TakeKeepsQueue
    <2>3. op = Op(op.kind, op.c) /\ op.kind \in {"register", "unregister"} /\ op.c \in Clients
      BY <2>2, OpsDiffer
    <2>4. \A kind, c : Queued(kind, c, 1) <=> op = Op(kind, c)
      BY <2>2 DEF Queued
    <2> HIDE DEF op
    <2>5. ASSUME NEW c \in Clients, LeavesInOrder(c) PROVE LeavesInOrder(c)'
      <3>1. SUFFICES ASSUME reader[c] = "left",
                            c \in registry' \/ \E j \in Nat : Queued("register", c, j)'
                     PROVE  \E i \in Nat : /\ Queued("unregister", c, i)'
                                           /\ \A j \in Nat : Queued("register", c, j)' => j < i
        BY <2>1 DEF LeavesInOrder
      <3>2. c \in registry \/ \E j \in Nat : Queued("register", c, j)
        <4>1. CASE c \in registry' /\ c \notin registry
          <5>1. op = Op("register", c)
            BY <2>1, <2>3, <4>1
          <5>2. QED
            BY <2>4, <5>1
        <4>2. CASE \E j \in Nat : Queued("register", c, j)'
          BY <2>2, <4>2
        <4>3. QED
          BY <3>1, <4>1, <4>2
      <3>3. PICK i \in Nat : /\ Queued("unregister", c, i)
                             /\ \A j \in Nat : Queued("register", c, j) => j < i
        BY <2>5, <3>1, <3>2 DEF LeavesInOrder
      <3>4. CASE i = 1
        <4>1. op = Op("unregister", c)
          BY <2>4, <3>3, <3>4
        <4>2. op.kind = "unregister" /\ op.c = c
          BY <4>1, OpsDiffer
        <4>3. c \notin registry'
          BY <2>1, <4>2
        <4>4. PICK j \in Nat : Queued("register", c, j)'
          BY <3>1, <4>3
        <4>5. Queued("register", c, j + 1) /\ j > 0
          BY <2>2, <4>4
        <4>6. j + 1 < 1
          BY <3>3, <3>4, <4>5
        <4>7. QED
          BY <4>5, <4>6
      <3>5. CASE i # 1
        <4>1. i - 1 \in Nat /\ i - 1 > 0 /\ (i - 1) + 1 = i
          BY <3>3, <3>5 DEF Queued
        <4>2. Queued("unregister", c, i - 1)'
          BY <2>2, <3>3, <4>1
        <4>3. \A j \in Nat : Queued("register", c, j)' => j < i - 1
          BY <2>2, <3>3
        <4>4. QED
          BY <4>1, <4>2, <4>3
      <3>6. QED
        BY <3>4, <3>5
    <2>6. QED
      BY <2>1, <2>5 DEF InOrder
  <1>2. CASE HubFansOut
    BY <1>2 DEF HubFansOut, InOrder, LeavesInOrder, Queued
  <1>3. CASE HubShutsDown
    BY <1>3 DEF HubShutsDown, InOrder, LeavesInOrder, Queued
  <1>4. CASE HubResumes
    BY <1>4 DEF HubResumes, InOrder, LeavesInOrder, Queued
  <1>5. CASE HubCrashes
    BY <1>5 DEF HubCrashes, InOrder, TypeOK
  <1>6. QED
    BY <1>1, <1>2, <1>3, <1>4, <1>5 DEF HubStep

LEMMA InOrderCast ==
    ASSUME TypeOK, InOrder, Broadcast \/ Enqueue \/ Stop \/ UNCHANGED vars
    PROVE  InOrder'
  BY DEF Broadcast, Enqueue, Stop, vars, InOrder, LeavesInOrder, Queued

LEMMA InOrderNext == TypeOK /\ InOrder /\ [Next]_vars => InOrder'
  BY InOrderConn, InOrderHub, InOrderCast DEF Next

\* A client whose unregistration was accepted is out of the registry once it has
\* been handled, and for good (Register and Unregister share h.ops).
THEOREM GhostsGone == Spec => []NoGhosts
  <1>1. Spec => [](TypeOK /\ Budget /\ InOrder)
    BY TypeInit, TypeNext, InOrderInit, InOrderNext, PTL DEF Spec
  <1>2. InOrder => NoGhosts
    BY DEF InOrder, LeavesInOrder, NoGhosts, Queued
  <1>3. QED
    BY <1>1, <1>2, PTL

-----------------------------------------------------------------------------
(* No gaps.                                                                *)

\* Client c was never sent anything.
Untouched(c) == send[c] = <<>> /\ last[c] = Wrap

\* The last message of c's stream, and the first the hub is still to fan out.
EndOf(c) == IF send[c] = <<>> THEN last[c] ELSE send[c][Len(send[c])]
First == IF broadcast = <<>> THEN next ELSE broadcast[1]

\* What the hub is to fan out is consecutive, up to the next number.
QueueFlows ==
    /\ Consecutive(broadcast)
    /\ broadcast # <<>> => next = Succ(broadcast[Len(broadcast)])

\* So is what a client is to take after what it took, and as long as the client is
\* registered the hub goes on where its buffer ends.
Flows(c) ==
    /\ Consecutive(send[c])
    /\ last[c] # Wrap /\ send[c] # <<>> => send[c][1] = Succ(last[c])
    /\ c \in registry /\ ~Untouched(c) => First = Succ(EndOf(c))

\* A client registers once, and nothing was sent to it before.
New(c) == c \notin registry /\ Untouched(c)
RegistersOnce(c) ==
    /\ reader[c] \in {"none", "registering"} =>
          New(c) /\ \A i \in Nat : ~Queued("register", c, i)
    /\ \A i \in Nat : Queued("register", c, i) =>
          New(c) /\ \A j \in Nat : Queued("register", c, j) => j = i

Flow ==
    crashes = 0 => QueueFlows /\ \A c \in Clients : Flows(c) /\ RegistersOnce(c)

\* What is left of a sequence when its first element is taken.
LEMMA TailFacts ==
    ASSUME NEW s \in Seq(Serials), s # <<>>
    PROVE  /\ Tail(s) \in Seq(Serials) /\ Len(s) \in Nat /\ Len(s) > 0
           /\ Len(Tail(s)) = Len(s) - 1
           /\ \A i \in 1..(Len(s) - 1) : Tail(s)[i] = s[i + 1]
           /\ Tail(s) = <<>> <=> Len(s) = 1
           /\ Tail(s) # <<>> => Tail(s)[Len(Tail(s))] = s[Len(s)]
  <1>1. /\ Tail(s) \in Seq(Serials) /\ Len(s) \in Nat /\ Len(s) > 0
        /\ Len(Tail(s)) = Len(s) - 1
    OBVIOUS
  <1>2. \A i \in 1..(Len(s) - 1) : Tail(s)[i] = s[i + 1]
    BY <1>1
  <1>3. Tail(s) = <<>> <=> Len(s) = 1
    <2>1. \A t \in Seq(Serials) : t = <<>> <=> Len(t) = 0
      OBVIOUS
    <2>2. Tail(s) = <<>> <=> Len(Tail(s)) = 0
      BY <1>1, <2>1, Zenon
    <2>3. Len(Tail(s)) = 0 <=> Len(s) = 1
      BY <1>1
    <2>4. QED
      BY <2>2, <2>3, Zenon
  <1>4. ASSUME Tail(s) # <<>> PROVE Tail(s)[Len(Tail(s))] = s[Len(s)]
    <2>1. Len(s) - 1 \in 1..(Len(s) - 1) /\ (Len(s) - 1) + 1 = Len(s)
      BY <1>1, <1>3, <1>4
    <2>2. Tail(s)[Len(s) - 1] = s[(Len(s) - 1) + 1]
      BY <1>2, <2>1
    <2>3. QED
      BY <1>1, <2>1, <2>2
  <1>5. QED
    BY <1>1, <1>2, <1>3, <1>4

\* A consecutive sequence stays so, and goes on where its first element ended.
LEMMA TailFlows ==
    ASSUME NEW s \in Seq(Serials), s # <<>>, Consecutive(s)
    PROVE  Consecutive(Tail(s)) /\ (Tail(s) # <<>> => Tail(s)[1] = Succ(s[1]))
  BY TailFacts DEF Consecutive

LEMMA FlowInit == Init => Flow
  BY DEF Init, Flow, QueueFlows, Flows, RegistersOnce, New, Untouched, Queued, Consecutive

\* Steps that touch neither a stream nor a registration.
LEMMA FlowStays ==
    ASSUME TypeOK, Flow, crashes' = crashes,
           UNCHANGED <<broadcast, next, send, last, ops>>, registry' \subseteq registry,
           \A c \in Clients : reader'[c] = reader[c]
                              \/ reader'[c] \notin {"none", "registering"}
                              \/ reader[c] = "none"
    PROVE  Flow'
  <1> SUFFICES ASSUME crashes = 0 PROVE QueueFlows' /\ \A c \in Clients : (Flows(c) /\ RegistersOnce(c))'
    BY DEF Flow
  <1>1. QueueFlows'
    BY DEF Flow, QueueFlows
  <1>2. ASSUME NEW c \in Clients PROVE Flows(c)'
    BY DEF Flow, Flows, Untouched, First, EndOf
  <1>3. ASSUME NEW c \in Clients PROVE RegistersOnce(c)'
    BY DEF Flow, RegistersOnce, New, Untouched, Queued
  <1>4. QED
    BY <1>1, <1>2, <1>3

\* An operation is added behind the others.
LEMMA FlowSends ==
    ASSUME TypeOK, Flow, NEW c \in Clients, NEW kind \in {"register", "unregister"},
           SendsOp(Op(kind, c)),
           kind = "register" => reader[c] = "registering",
           reader'[c] \notin {"none", "registering"},
           \A d \in Clients : d # c => reader'[d] = reader[d],
           UNCHANGED <<crashes, broadcast, next, send, last, registry>>
    PROVE  Flow'
  <1> SUFFICES ASSUME crashes = 0 PROVE QueueFlows' /\ \A d \in Clients : (Flows(d) /\ RegistersOnce(d))'
    BY DEF Flow
  <1>1. QueueFlows'
    BY DEF Flow, QueueFlows
  <1>2. ASSUME NEW d \in Clients PROVE Flows(d)'
    BY DEF Flow, Flows, Untouched, First, EndOf
  <1>3. Op(kind, c) \in Ops
    BY DEF Op, Ops
  <1>4. \A k, d : \A i \in Nat :
           Queued(k, d, i)' <=> Queued(k, d, i) \/ (i = Len(ops) + 1 /\ Op(kind, c) = Op(k, d))
    BY <1>3, SendKeepsQueue
  <1>5. ASSUME NEW d \in Clients PROVE RegistersOnce(d)'
    <2>1. RegistersOnce(d) /\ (New(d)' <=> New(d))
      BY DEF Flow, New, Untouched
    <2>2. CASE d = c /\ kind = "register"
      <3>1. New(d) /\ \A i \in Nat : ~Queued("register", d, i)
        BY <2>1, <2>2 DEF RegistersOnce
      <3>2. QED
        BY <1>4, <2>1, <2>2, <3>1 DEF RegistersOnce
    <2>3. CASE d # c \/ kind # "register"
      <3>1. Op(kind, c) # Op("register", d)
        BY <2>3, OpsDiffer
      <3>2. \A i \in Nat : Queued("register", d, i)' <=> Queued("register", d, i)
        BY <1>4, <3>1
      <3>3. QED
        BY <2>1, <3>2 DEF RegistersOnce
    <2>4. QED
      BY <2>2, <2>3
  <1>6. QED
    BY <1>1, <1>2, <1>5

LEMMA FlowConn ==
    ASSUME TypeOK, Flow, NEW c \in Clients, ConnStep(c)
    PROVE  Flow'
  <1>1. CASE Connect(c)
    BY <1>1, FlowStays DEF Connect, TypeOK
  <1>2. CASE Register(c)
    <2>1. CASE UNCHANGED ops
      BY <1>2, <2>1, FlowStays DEF Register, TypeOK
    <2>2. CASE SendsOp(Op("register", c))
      BY <1>2, <2>2, FlowSends DEF Register, TypeOK
    <2>3. QED
      BY <1>2, <2>1, <2>2 DEF Register
  <1>3. CASE ReadFails(c)
    BY <1>3, FlowStays DEF ReadFails, TypeOK
  <1>4. CASE Unregister(c)
    <2>1. CASE UNCHANGED ops
      BY <1>4, <2>1, FlowStays DEF Unregister, TypeOK
    <2>2. CASE SendsOp(Op("unregister", c))
      BY <1>4, <2>2, FlowSends DEF Unregister, TypeOK
    <2>3. QED
      BY <1>4, <2>1, <2>2 DEF Unregister
  <1>5. CASE WriterSeesClose(c) \/ PingFails(c)
    BY <1>5, FlowStays DEF WriterSeesClose, PingFails, WriterExits
  <1>6. CASE WriterTakes(c)
    <2> SUFFICES ASSUME crashes = 0
                 PROVE  QueueFlows' /\ \A d \in Clients : (Flows(d) /\ RegistersOnce(d))'
      BY <1>6 DEF WriterTakes, Flow
    <2>1. /\ send[c] # <<>> /\ send[c] \in Seq(Serials)
          /\ send' = [send EXCEPT ![c] = Tail(send[c])]
          /\ last' = [last EXCEPT ![c] = Head(send[c])]
          /\ UNCHANGED <<crashes, broadcast, next, ops, registry, reader>>
      BY <1>6 DEF WriterTakes, TypeOK
    <2>2. /\ send'[c] = Tail(send[c]) /\ last'[c] = send[c][1]
          /\ \A d \in Clients : d # c => send'[d] = send[d] /\ last'[d] = last[d]
      BY <2>1 DEF TypeOK
    <2>3. QueueFlows'
      BY <2>1 DEF Flow, QueueFlows
    <2>4. ~Untouched(c) /\ Flows(c)
      BY <2>1 DEF Untouched, Flow
    <2>5. Flows(c)'
      <3>1. Consecutive(Tail(send[c]))
        BY <2>1, <2>4, TailFlows DEF Flows
      <3>2. Tail(send[c]) # <<>> => Tail(send[c])[1] = Succ(send[c][1])
        BY <2>1, <2>4, TailFlows DEF Flows
      <3>3. EndOf(c)' = EndOf(c)
        <4>1. CASE Len(send[c]) = 1
          BY <2>1, <2>2, <4>1, TailFacts DEF EndOf
        <4>2. CASE Len(send[c]) # 1
          <5>1. /\ Tail(send[c]) # <<>>
                /\ Tail(send[c])[Len(Tail(send[c]))] = send[c][Len(send[c])]
            BY <2>1, <4>2, TailFacts
          <5>2. QED
            BY <2>1, <2>2, <5>1 DEF EndOf
        <4>3. QED
          BY <4>1, <4>2
      <3>4. First' = First
        BY <2>1 DEF First
      <3>5. QED
        BY <2>1, <2>2, <2>4, <3>1, <3>2, <3>3, <3>4 DEF Flows
    <2>6. ASSUME NEW d \in Clients, d # c PROVE Flows(d)'
      BY <2>1, <2>2, <2>6 DEF Flow, Flows, Untouched, First, EndOf
    <2>7. ASSUME NEW d \in Clients PROVE RegistersOnce(d)'
      <3>1. RegistersOnce(d) /\ (New(d) => New(d)')
        BY <2>1, <2>2, <2>4 DEF Flow, New, Untouched
      <3>2. \A i \in Nat : Queued("register", d, i)' <=> Queued("register", d, i)
        BY <2>1 DEF Queued
      <3>3. QED
        BY <2>1, <3>1, <3>2 DEF RegistersOnce
    <2>8. QED
      BY <2>3, <2>5, <2>6, <2>7
  <1>7. QED
    BY <1>1, <1>2, <1>3, <1>4, <1>5, <1>6 DEF ConnStep

\* Every registered client that has room gets the first message of the queue at the
\* end of its stream; the others are no longer registered.
LEMMA FlowFansOut ==
    ASSUME TypeOK, Flow, HubFansOut, crashes = 0
    PROVE  QueueFlows' /\ \A c \in Clients : (Flows(c) /\ RegistersOnce(c))'
  <1> DEFINE m == Head(broadcast)
  <1>1. /\ broadcast # <<>> /\ broadcast \in Seq(Serials) /\ m = broadcast[1] /\ m = First
        /\ broadcast' = Tail(broadcast)
        /\ UNCHANGED <<next, ops, reader, last>>
        /\ registry' = registry \ Slow
        /\ \A c \in Clients :
              send'[c] = IF c \in registry' THEN Append(send[c], m) ELSE send[c]
    BY DEF HubFansOut, First, TypeOK
  <1>2. QueueFlows
    BY DEF Flow
  <1>3. Consecutive(Tail(broadcast)) /\ First' = Succ(m)
    <2>1. Consecutive(Tail(broadcast)) /\ (Tail(broadcast) # <<>> => Tail(broadcast)[1] = Succ(m))
      BY <1>1, <1>2, TailFlows DEF QueueFlows
    <2>2. Tail(broadcast) = <<>> => next = Succ(m)
      BY <1>1, <1>2, TailFacts DEF QueueFlows
    <2>3. QED
      BY <1>1, <2>1, <2>2 DEF First
  <1>4. QueueFlows'
    <2>1. Tail(broadcast) # <<>> =>
             Tail(broadcast)[Len(Tail(broadcast))] = broadcast[Len(broadcast)]
      BY <1>1, TailFacts
    <2>2. QED
      BY <1>1, <1>2, <1>3, <2>1 DEF QueueFlows
  <1> HIDE DEF m
  <1>5. ASSUME NEW c \in Clients PROVE Flows(c)' /\ RegistersOnce(c)'
    <2>1. Flows(c) /\ RegistersOnce(c) /\ send[c] \in Seq(Serials)
      BY DEF Flow, TypeOK
    <2>2. CASE c \in registry'
      <3>1. c \in registry /\ send'[c] = Append(send[c], m) /\ last' = last
        BY <1>1, <2>2
      <3>2. send'[c] # <<>> /\ EndOf(c)' = m
        BY <2>1, <3>1 DEF EndOf
      <3>3. send[c] # <<>> => m = Succ(send[c][Len(send[c])])
        BY <1>1, <2>1, <3>1 DEF Flows, Untouched, EndOf
      <3>4. Consecutive(send'[c])
        <4>1. /\ Len(send'[c]) = Len(send[c]) + 1 /\ Len(send[c]) \in Nat
              /\ send'[c][Len(send[c]) + 1] = m
              /\ \A i \in 1..Len(send[c]) : send'[c][i] = send[c][i]
          BY <2>1, <3>1
        <4>2. \A i \in 1..(Len(send[c]) - 1) : send[c][i + 1] = Succ(send[c][i])
          BY <2>1 DEF Flows, Consecutive
        <4>3. ASSUME NEW i \in 1..(Len(send'[c]) - 1)
              PROVE  send'[c][i + 1] = Succ(send'[c][i])
          <5>1. CASE i = Len(send[c])
            <6>1. send[c] # <<>>
              BY <4>1, <4>3, <5>1, <2>1
            <6>2. QED
              BY <3>3, <4>1, <4>3, <5>1, <6>1
          <5>2. CASE i # Len(send[c])
            <6>1. i \in 1..(Len(send[c]) - 1) /\ i \in 1..Len(send[c]) /\ i + 1 \in 1..Len(send[c])
              BY <4>1, <4>3, <5>2
            <6>2. QED
              BY <4>1, <4>2, <6>1
          <5>3. QED
            BY <5>1, <5>2
        <4>4. QED
          BY <4>3 DEF Consecutive
      <3>5. last[c] # Wrap => send'[c][1] = Succ(last[c])
        <4>1. CASE send[c] = <<>>
          BY <1>1, <2>1, <3>1, <4>1 DEF Flows, Untouched, EndOf
        <4>2. CASE send[c] # <<>>
          BY <2>1, <3>1, <4>2 DEF Flows
        <4>3. QED
          BY <4>1, <4>2
      <3>6. Flows(c)'
        BY <1>3, <3>1, <3>2, <3>4, <3>5 DEF Flows
      <3>7. RegistersOnce(c)'
        BY <1>1, <2>1, <3>1 DEF RegistersOnce, New, Queued
      <3>8. QED
        BY <3>6, <3>7
    <2>3. CASE c \notin registry'
      <3>1. send'[c] = send[c] /\ last' = last
        BY <1>1, <2>3
      <3>2. Flows(c)'
        BY <2>1, <2>3, <3>1 DEF Flows
      <3>3. RegistersOnce(c)'
        BY <1>1, <2>1, <2>3, <3>1 DEF RegistersOnce, New, Untouched, Queued
      <3>4. QED
        BY <3>2, <3>3
    <2>4. QED
      BY <2>2, <2>3
  <1>6. QED
    BY <1>4, <1>5

LEMMA FlowHub ==
    ASSUME TypeOK, Flow, HubStep \/ HubCrashes
    PROVE  Flow'
  <1>1. CASE HubTakesOp
    <2> SUFFICES ASSUME crashes = 0
                 PROVE  QueueFlows' /\ \A d \in Clients : (Flows(d) /\ RegistersOnce(d))'
      BY <1>1 DEF HubTakesOp, Flow
    <2> DEFINE op == Head(ops)
    <2>1. /\ ops # <<>> /\ ops' = Tail(ops) /\ reader' = reader
          /\ UNCHANGED <<broadcast, next, send, last>>
          /\ IF op.kind = "register" THEN registry' = registry \cup {op.c}
                                     ELSE registry' = registry \ {op.c}
      BY <1>1 DEF HubTakesOp
    <2>2. /\ \A kind, c : \A i \in Nat : Queued(kind, c, i)' <=> Queued(kind, c, i + 1) /\ i > 0
          /\ op = ops[1] /\ op \in Ops /\ 1 \in 1..Len(ops)
      BY <2>1, TakeKeepsQueue
    <2>3. op = Op(op.kind, op.c) /\ op.kind \in {"register", "unregister"} /\ op.c \in Clients
      BY <2>2, OpsDiffer
    <2>4. \A kind, c : Queued(kind, c, 1) <=> op = Op(kind, c)
      BY <2>2 DEF Queued
    <2> HIDE DEF op
    <2>5. QueueFlows'
      BY <2>1 DEF Flow, QueueFlows
    <2>6. ASSUME NEW d \in Clients PROVE (Flows(d) /\ RegistersOnce(d))'
      <3>1. Flows(d) /\ RegistersOnce(d)
        BY DEF Flow
      <3>2. Untouched(d)' = Untouched(d) /\ First' = First /\ EndOf(d)' = EndOf(d)
        BY <2>1 DEF Untouched, First, EndOf
      <3>3. CASE op = Op("register", d)
        <4>1. Queued("register", d, 1)
          BY <2>4, <3>3
        <4>2. New(d) /\ \A j \in Nat : Queued("register", d, j) => j = 1
          BY <3>1, <4>1 DEF RegistersOnce
        <4>3. \A i \in Nat : ~Queued("register", d, i)'
          BY <2>2, <4>2
        <4>4. reader[d] \notin {"none", "registering"}
          BY <3>1, <4>1 DEF RegistersOnce
        <4>5. QED
          BY <2>1, <3>1, <3>2, <4>2, <4>3, <4>4 DEF Flows, RegistersOnce, New
      <3>4. CASE op # Op("register", d)
        <4>1. d \in registry' => d \in registry
          BY <2>1, <2>3, <3>4
        <4>2. \A i \in Nat : Queued("register", d, i)' => i + 1 \in Nat /\ Queued("register", d, i + 1)
          BY <2>2
        <4>3. Flows(d)'
          BY <2>1, <3>1, <3>2, <4>1 DEF Flows
        <4>4. RegistersOnce(d)'
          <5>1. New(d) => New(d)'
            BY <3>2, <4>1 DEF New
          <5>2. ASSUME NEW i \in Nat, Queued("register", d, i)'
                PROVE  New(d) /\ \A j \in Nat : Queued("register", d, j)' => j = i
            <6>1. New(d) /\ \A j \in Nat : Queued("register", d, j) => j = i + 1
              BY <3>1, <4>2, <5>2 DEF RegistersOnce
            <6>2. \A j \in Nat : Queued("register", d, j)' => j + 1 = i + 1
              BY <4>2, <6>1
            <6>3. QED
              BY <6>1, <6>2
          <5>3. QED
            BY <2>1, <3>1, <4>2, <5>1, <5>2 DEF RegistersOnce
        <4>5. QED
          BY <4>3, <4>4
      <3>5. QED
        BY <3>3, <3>4
    <2>7. QED
      BY <2>5, <2>6
  <1>2. CASE HubFansOut
    BY <1>2, FlowFansOut DEF HubFansOut, Flow
  <1>3. CASE HubShutsDown
    BY <1>3, FlowStays DEF HubShutsDown
  <1>4. CASE HubResumes
    BY <1>4, FlowStays DEF HubResumes
  <1>5. CASE HubCrashes
    BY <1>5 DEF HubCrashes, Flow, TypeOK
  <1>6. QED
    BY <1>1, <1>2, <1>3, <1>4, <1>5 DEF HubStep

\* A number more is queued: the one the queue is followed by.
LEMMA FlowEnqueues ==
    ASSUME TypeOK, QueueFlows, broadcast' = Append(broadcast, next), next' = Succ(next)
    PROVE  QueueFlows' /\ First' = First
  <1>1. /\ broadcast \in Seq(Serials) /\ Len(broadcast) \in Nat
        /\ Len(broadcast') = Len(broadcast) + 1 /\ broadcast' # <<>>
        /\ broadcast'[Len(broadcast) + 1] = next
        /\ \A i \in 1..Len(broadcast) : broadcast'[i] = broadcast[i]
    <2>1. broadcast \in Seq(Serials) /\ next \in Serials
      BY DEF TypeOK
    <2>2. ASSUME NEW s \in Seq(Serials), NEW n \in Serials
          PROVE  /\ Len(s) \in Nat /\ Len(Append(s, n)) = Len(s) + 1
                 /\ Append(s, n)[Len(s) + 1] = n
                 /\ \A i \in 1..Len(s) : Append(s, n)[i] = s[i]
                 /\ Append(s, n) # <<>>
      OBVIOUS
    <2>3. QED
      BY <2>1, <2>2
  <1>2. First' = First
    BY <1>1 DEF First
  <1>3. ASSUME NEW i \in 1..(Len(broadcast') - 1)
        PROVE  broadcast'[i + 1] = Succ(broadcast'[i])
    <2>1. CASE i = Len(broadcast)
      <3>1. broadcast # <<>>
        BY <1>1, <1>3, <2>1
      <3>2. QED
        BY <1>1, <1>3, <2>1, <3>1 DEF QueueFlows
    <2>2. CASE i # Len(broadcast)
      <3>1. /\ i \in 1..(Len(broadcast) - 1)
            /\ i \in 1..Len(broadcast) /\ i + 1 \in 1..Len(broadcast)
        BY <1>1, <1>3, <2>2
      <3>2. QED
        BY <1>1, <3>1 DEF QueueFlows, Consecutive
    <2>3. QED
      BY <2>1, <2>2
  <1>4. QED
    BY <1>1, <1>2, <1>3 DEF QueueFlows, Consecutive

LEMMA FlowCast ==
    ASSUME TypeOK, Flow, Broadcast \/ Enqueue \/ Stop \/ UNCHANGED vars
    PROVE  Flow'
  <1>1. CASE Broadcast \/ Stop \/ UNCHANGED vars
    BY <1>1, FlowStays DEF Broadcast, Stop, vars
  <1>2. CASE Enqueue
    <2>1. CASE UNCHANGED <<broadcast, next>>
      BY <1>2, <2>1, FlowStays DEF Enqueue
    <2>2. CASE broadcast' = Append(broadcast, next) /\ next' = Succ(next)
      <3> SUFFICES ASSUME crashes = 0
                   PROVE  QueueFlows' /\ \A c \in Clients : (Flows(c) /\ RegistersOnce(c))'
        BY <1>2 DEF Enqueue, Flow
      <3>1. QueueFlows' /\ First' = First
        BY <2>2, FlowEnqueues DEF Flow
      <3>2. UNCHANGED <<send, last, registry, reader, ops>>
        BY <1>2 DEF Enqueue
      <3>3. ASSUME NEW c \in Clients PROVE Flows(c)'
        BY <3>1, <3>2 DEF Flow, Flows, Untouched, EndOf
      <3>4. ASSUME NEW c \in Clients PROVE RegistersOnce(c)'
        BY <3>2 DEF Flow, RegistersOnce, New, Untouched, Queued
      <3>5. QED
        BY <3>1, <3>3, <3>4
    <2>3. QED
      BY <1>2, <2>1, <2>2 DEF Enqueue
  <1>3. QED
    BY <1>1, <1>2

LEMMA FlowNext == TypeOK /\ Flow /\ [Next]_vars => Flow'
  BY FlowConn, FlowHub, FlowCast DEF Next

\* Two streams in a row are consecutive when each is and the second goes on where
\* the first ends.
LEMMA Joins ==
    ASSUME NEW S, NEW s \in Seq(S), NEW t \in Seq(S), Consecutive(s), Consecutive(t),
           s # <<>> /\ t # <<>> => t[1] = Succ(s[Len(s)])
    PROVE  Consecutive(s \o t)
  <1>1. /\ Len(s) \in Nat /\ Len(t) \in Nat /\ Len(s \o t) = Len(s) + Len(t)
        /\ \A i \in 1..Len(s) : (s \o t)[i] = s[i]
        /\ \A i \in 1..(Len(s) + Len(t)) : i > Len(s) => (s \o t)[i] = t[i - Len(s)]
    OBVIOUS
  <1> SUFFICES ASSUME NEW i \in 1..(Len(s) + Len(t) - 1)
               PROVE  (s \o t)[i + 1] = Succ((s \o t)[i])
    BY <1>1 DEF Consecutive
  <1>2. CASE i < Len(s)
    <2>1. i \in 1..Len(s) /\ i + 1 \in 1..Len(s) /\ i \in 1..(Len(s) - 1)
      BY <1>1, <1>2
    <2>2. (s \o t)[i] = s[i] /\ (s \o t)[i + 1] = s[i + 1]
      BY <1>1, <2>1
    <2>3. QED
      BY <2>1, <2>2 DEF Consecutive
  <1>3. CASE i = Len(s)
    <2>1. /\ Len(s) > 0 /\ Len(t) > 0 /\ i \in 1..Len(s)
          /\ i + 1 \in 1..(Len(s) + Len(t)) /\ i + 1 > Len(s) /\ (i + 1) - Len(s) = 1
      BY <1>1, <1>3
    <2>2. (s \o t)[i] = s[Len(s)] /\ (s \o t)[i + 1] = t[1]
      BY <1>1, <1>3, <2>1
    <2>3. s # <<>> /\ t # <<>>
      BY <2>1
    <2>4. QED
      BY <2>2, <2>3
  <1>4. CASE i > Len(s)
    <2> DEFINE k == i - Len(s)
    <2>1. /\ k \in 1..(Len(t) - 1) /\ (i + 1) - Len(s) = k + 1 /\ i + 1 > Len(s)
          /\ i \in 1..(Len(s) + Len(t)) /\ i + 1 \in 1..(Len(s) + Len(t))
      BY <1>1, <1>4
    <2>2. (s \o t)[i] = t[k] /\ (s \o t)[i + 1] = t[k + 1]
      BY <1>1, <1>4, <2>1
    <2>3. QED
      BY <2>1, <2>2 DEF Consecutive
  <1>5. QED
    BY <1>1, <1>2, <1>3, <1>4

LEMMA FlowHasNoGaps == TypeOK /\ Flow => NoGaps
  <1> SUFFICES ASSUME TypeOK, QueueFlows, NEW c \in Clients, Flows(c)
               PROVE  /\ Consecutive(Stream(c))
                      /\ c \in registry /\ Stream(c) # <<>> =>
                            Consecutive(Stream(c) \o broadcast \o <<next>>)
    BY DEF NoGaps, Flow
  <1> DEFINE l == IF last[c] = Wrap THEN <<>> ELSE <<last[c]>>
             rest == broadcast \o <<next>>
  <1>1. /\ send[c] \in Seq(Nat) /\ broadcast \in Seq(Nat) /\ next \in Nat /\ last[c] \in Nat
        /\ l \in Seq(Nat) /\ <<next>> \in Seq(Nat)
    BY DEF TypeOK, Serials
  <1>2. Consecutive(l) /\ Consecutive(<<next>>)
    BY <1>1 DEF Consecutive
  <1>3. Consecutive(send[c]) /\ Consecutive(broadcast)
    BY DEF Flows, QueueFlows
  <1>4. l # <<>> => last[c] # Wrap /\ l[Len(l)] = last[c]
    OBVIOUS
  <1>5. Stream(c) = l \o send[c]
    BY DEF Stream
  <1> HIDE DEF l
  <1>6. l # <<>> /\ send[c] # <<>> => send[c][1] = Succ(l[Len(l)])
    BY <1>4 DEF Flows
  <1>7. Consecutive(Stream(c)) /\ Stream(c) \in Seq(Nat)
    BY <1>1, <1>2, <1>3, <1>5, <1>6, Joins
  <1>8. ASSUME c \in registry, Stream(c) # <<>>
        PROVE  Consecutive(Stream(c) \o broadcast \o <<next>>)
    <2>1. Consecutive(rest) /\ rest \in Seq(Nat) /\ rest # <<>> /\ rest[1] = First
      <3>1. broadcast # <<>> => <<next>>[1] = Succ(broadcast[Len(broadcast)])
        BY DEF QueueFlows
      <3>2. Consecutive(rest)
        BY <1>1, <1>2, <1>3, <3>1, Joins
      <3>3. rest \in Seq(Nat) /\ rest # <<>> /\ rest[1] = First
        BY <1>1 DEF First
      <3>4. QED
        BY <3>2, <3>3
    <2>2. ~Untouched(c)
      BY <1>1, <1>5, <1>8 DEF Untouched, Stream
    <2>3. Stream(c)[Len(Stream(c))] = EndOf(c)
      <3>1. CASE send[c] = <<>>
        <4>1. Stream(c) = l /\ l # <<>>
          BY <1>1, <1>5, <1>8, <3>1
        <4>2. QED
          BY <1>4, <3>1, <4>1 DEF EndOf
      <3>2. CASE send[c] # <<>>
        BY <1>1, <1>5, <3>2 DEF EndOf
      <3>3. QED
        BY <3>1, <3>2
    <2>4. rest[1] = Succ(Stream(c)[Len(Stream(c))])
      BY <1>8, <2>1, <2>2, <2>3 DEF Flows
    <2> HIDE DEF rest
    <2>5. Consecutive(Stream(c) \o rest)
      BY <1>7, <2>1, <2>4, Joins
    <2>6. Stream(c) \o rest = Stream(c) \o broadcast \o <<next>>
      BY <1>1, <1>7 DEF rest
    <2>7. QED
      BY <2>5, <2>6
  <1>9. QED
    BY <1>7, <1>8

\* A client sees the broadcasts in their order, none twice, and misses none while it
\* is registered: fanout sends to every registered client with room and evicts the
\* others, writePump takes from the front of the buffer, and the hub removes a
\* client that misses a message before the next one.
THEOREM StreamsHaveNoGaps == Spec => []NoGaps
  <1>1. Spec => [](TypeOK /\ Budget /\ Flow)
    BY TypeInit, TypeNext, FlowInit, FlowNext, PTL DEF Spec
  <1>2. QED
    BY <1>1, FlowHasNoGaps, PTL

=============================================================================
