------------------------- MODULE TrafficWriterProofs -------------------------
(***************************************************************************)
(* Proofs about TrafficWriter for any set of submissions, any number of    *)
(* controllers, any queue size and any number of Start/Stop cycles.        *)
(***************************************************************************)
EXTENDS TrafficWriter, TLAPS

\* Every variable keeps its type (the variables of traffic_writer.go and of one
\* call of submitTrafficWrite).
THEOREM TypeCorrect == Spec => []TypeOK
<1> USE ConstantsAssumption DEF Gens, Phases, Answers, Verdicts, Endings
<1>1. Init => TypeOK
  BY DEF Init, TypeOK
<1>2. TypeOK /\ [Next]_vars => TypeOK'
  <2> SUFFICES ASSUME TypeOK, [Next]_vars PROVE TypeOK'
    OBVIOUS
  <2> USE DEF TypeOK, requestVars, writerVars
  <2>1. ASSUME NEW c \in Controllers, StartTrafficWriter(c) PROVE TypeOK'
    BY <2>1 DEF StartTrafficWriter
  <2>2. ASSUME NEW c \in Controllers, StopTrafficWriter(c) PROVE TypeOK'
    BY <2>2 DEF StopTrafficWriter
  <2>3. ASSUME NEW c \in Controllers, StopReturns(c) PROVE TypeOK'
    BY <2>3 DEF StopReturns, AfterStop
  <2>4. ASSUME NEW g \in Gens, WriterTakes(g) PROVE TypeOK'
    BY <2>4 DEF WriterTakes
  <2>5. ASSUME NEW g \in Gens, WriterSeesCancel(g) PROVE TypeOK'
    BY <2>5 DEF WriterSeesCancel
  <2>6. ASSUME NEW g \in Gens, WriterEnds(g) PROVE TypeOK'
    BY <2>6 DEF WriterEnds
  <2>7. ASSUME NEW g \in Gens, NEW e \in Endings, WriterReplies(g, e) PROVE TypeOK'
    BY <2>7 DEF WriterReplies, SafeApply
  <2>8. ASSUME NEW r \in Requests, Submit(r) PROVE TypeOK'
    <3>1. /\ twMu' \in Requests \cup {NoRequest}
          /\ phase' \in [Requests -> Phases]
          /\ gen' \in [Requests -> 0..MaxStarts]
      <4>1. CASE RunsInline
        BY <2>8, <4>1 DEF Submit
      <4>2. CASE ~RunsInline
        BY <2>8, <4>2 DEF Submit
      <4> QED
        BY <4>1, <4>2
    <3> QED
      BY <2>8, <3>1 DEF Submit
  <2>9. ASSUME NEW r \in Requests, Enqueue(r) PROVE TypeOK'
    <3>1. CASE gen[r] \in Gens
      <4>1. Append(queue[gen[r]], r) \in Seq(Requests)
        BY <3>1
      <4> QED
        BY <2>9, <4>1 DEF Enqueue
    <3>2. CASE gen[r] \notin Gens
      <4>1. queue' = queue
        BY <2>9, <3>2 DEF Enqueue
      <4> QED
        BY <2>9, <4>1 DEF Enqueue
    <3> QED
      BY <3>1, <3>2
  <2>10. ASSUME NEW r \in Requests, QueueFull(r) PROVE TypeOK'
    BY <2>10 DEF QueueFull, Returns
  <2>11. ASSUME NEW r \in Requests, WaitEnds(r) PROVE TypeOK'
    BY <2>11 DEF WaitEnds, Returns
  <2>12. ASSUME NEW r \in Requests, NEW e \in Endings, InlineReturns(r, e) PROVE TypeOK'
    BY <2>12 DEF InlineReturns, Returns, SafeApply
  <2>13. CASE UNCHANGED vars
    BY <2>13 DEF vars
  <2> HIDE DEF TypeOK, requestVars, writerVars, Gens, Phases, Answers, Verdicts, Endings
  <2> QED
    BY <2>1, <2>2, <2>3, <2>4, <2>5, <2>6, <2>7, <2>8, <2>9, <2>10, <2>11, <2>12, <2>13
       DEF Next, ControllerStep, WriterStep, CallStep
<1> QED
  BY <1>1, <1>2, PTL DEF Spec

-----------------------------------------------------------------------------
(* The inductive invariant.                                                *)

\* The package variables point to the youngest generation or are nil; only the
\* generation they point to is alive; only a cancelled goroutine drains or ends.
Current ==
    /\ twCur <= started
    /\ \A g \in Gens : writer[g] = "unborn" <=> g > started
    /\ \A g \in Gens : Live(g) => g = twCur
    /\ \A g \in Gens : writer[g] \in {"drain", "closed"} => ctxDone[g]

\* The submitter inside the send owns twMu, so the generation it read is still
\* the current one and is not cancelled.
Sending ==
    \A r \in Requests : phase[r] = "sending" =>
        /\ twMu = r
        /\ twCur # 0 /\ gen[r] = twCur /\ ~ctxDone[twCur]

\* An unanswered waiting request is in its generation's queue or in the hand of
\* its goroutine, in one place only; a goroutine that ended has neither.
Custody ==
    /\ \A g \in Gens : \A i, j \in 1..Len(queue[g]) : queue[g][i] = queue[g][j] => i = j
    /\ \A g \in Gens : \A r \in Pending(g) :
          phase[r] = "waiting" /\ gen[r] = g /\ reply[r] = "none"
    /\ \A g \in Gens : hand[g] \notin Queued(g)
    /\ \A r \in Requests : phase[r] = "waiting" =>
          /\ gen[r] \in Gens
          /\ reply[r] = "none" => r \in Pending(gen[r])
    /\ \A g \in Gens : ~Live(g) => Pending(g) = {}

\* A write has run once exactly when its answer is known.
Accounts ==
    \A r \in Requests :
        /\ phase[r] \in {"new", "sending", "inline"} => runs[r] = 0 /\ reply[r] = "none"
        /\ phase[r] = "waiting" =>
              IF reply[r] = "none" THEN runs[r] = 0
              ELSE runs[r] = 1 /\ reply[r] = SafeApply(outcome[r])
        /\ phase[r] = "returned" =>
              IF verdict[r] = "full" THEN runs[r] = 0
              ELSE runs[r] = 1 /\ verdict[r] = SafeApply(outcome[r])

IInv == TypeOK /\ Current /\ Sending /\ Custody /\ Accounts

-----------------------------------------------------------------------------
(* Two facts about queues, and one lemma per kind of step.                 *)

Elements(s)  == {s[i] : i \in 1..Len(s)}
NoRepeats(s) == \A i, j \in 1..Len(s) : s[i] = s[j] => i = j

\* Sending puts one new element behind the others.
LEMMA AppendElements ==
    ASSUME NEW S, NEW s \in Seq(S), NEW x \in S
    PROVE  /\ Elements(Append(s, x)) = Elements(s) \cup {x}
           /\ NoRepeats(s) /\ x \notin Elements(s) => NoRepeats(Append(s, x))
<1> DEFINE t == Append(s, x)
<1>1. /\ t \in Seq(S) /\ Len(t) = Len(s) + 1
      /\ t[Len(s) + 1] = x
      /\ \A i \in 1..Len(s) : t[i] = s[i]
  OBVIOUS
<1>2. Len(s) \in Nat /\ 1..Len(t) = 1..Len(s) \cup {Len(s) + 1}
  BY <1>1
<1> HIDE DEF t
<1>3. Elements(t) = Elements(s) \cup {x}
  BY <1>1, <1>2 DEF Elements
<1>4. ASSUME NoRepeats(s), x \notin Elements(s) PROVE NoRepeats(t)
  BY <1>1, <1>2, <1>4 DEF Elements, NoRepeats
<1> QED
  BY <1>3, <1>4 DEF t

\* Receiving takes the first element away and leaves the others.
LEMMA TailElements ==
    ASSUME NEW S, NEW s \in Seq(S), s # <<>>, NoRepeats(s)
    PROVE  /\ Head(s) \in Elements(s)
           /\ Elements(Tail(s)) = Elements(s) \ {Head(s)}
           /\ NoRepeats(Tail(s))
<1> DEFINE t == Tail(s)
<1>1. /\ t \in Seq(S) /\ Len(s) \in Nat \ {0} /\ Len(t) = Len(s) - 1
      /\ Head(s) = s[1]
      /\ \A i \in 1..Len(t) : t[i] = s[i + 1]
  OBVIOUS
<1> HIDE DEF t
<1>2. Head(s) \in Elements(s)
  BY <1>1 DEF Elements
<1>3. ASSUME NEW i \in 1..Len(t) PROVE i + 1 \in 1..Len(s) /\ i + 1 # 1
  BY <1>1
<1>4. ASSUME NEW k \in 1..Len(s), k # 1 PROVE k - 1 \in 1..Len(t) /\ t[k - 1] = s[k]
  BY <1>1, <1>4
<1>5. Elements(t) \subseteq Elements(s) \ {Head(s)}
  BY <1>1, <1>3 DEF Elements, NoRepeats
<1>6. Elements(s) \ {Head(s)} \subseteq Elements(t)
  BY <1>1, <1>4 DEF Elements
<1>7. NoRepeats(t)
  <2> SUFFICES ASSUME NEW i \in 1..Len(t), NEW j \in 1..Len(t), t[i] = t[j] PROVE i = j
    BY DEF NoRepeats
  <2>1. s[i + 1] = s[j + 1]
    BY <1>1
  <2>2. i + 1 = j + 1
    BY <2>1, <1>3 DEF NoRepeats
  <2> QED
    BY <2>2, <1>1
<1> QED
  BY <1>2, <1>5, <1>6, <1>7 DEF t

\* What a generation still has to run are submitted requests.
LEMMA PendingAreRequests ==
    ASSUME TypeOK, NEW g \in Gens
    PROVE  Pending(g) \subseteq Requests
<1>1. queue[g] \in Seq(Requests) /\ hand[g] \in Requests \cup {NoRequest}
  BY DEF TypeOK
<1>2. \A i \in 1..Len(queue[g]) : queue[g][i] \in Requests
  BY <1>1
<1> QED
  BY <1>1, <1>2 DEF Pending, Queued

-----------------------------------------------------------------------------
(* Init establishes the invariant and every step preserves it.             *)

\* The initial state satisfies the invariant.
LEMMA InvInit == Init => IInv
<1> SUFFICES ASSUME Init PROVE IInv
  OBVIOUS
<1> USE ConstantsAssumption DEF Init
<1>1. TypeOK
  BY DEF TypeOK, Gens, Phases, Verdicts, Answers
<1>2. Current
  BY DEF Current, Live, Gens
<1>3. \A g \in Gens : Pending(g) = {}
  BY DEF Pending, Queued
<1>4. Sending /\ Custody /\ Accounts
  BY <1>3 DEF Sending, Custody, Accounts, Live, Queued
<1> QED
  BY <1>1, <1>2, <1>4 DEF IInv

\* StartTrafficWriter and both halves of StopTrafficWriter preserve the invariant.
LEMMA InvControllerStep ==
    ASSUME IInv, TypeOK', NEW c \in Controllers, ControllerStep(c)
    PROVE  IInv'
<1> USE ConstantsAssumption DEF IInv, requestVars, writerVars
<1>1. ASSUME StartTrafficWriter(c) PROVE IInv'
  <2> USE <1>1 DEF StartTrafficWriter
  <2>0. /\ started + 1 \in Gens /\ twCur' = started + 1 /\ started' = started + 1
        /\ writer[started + 1] = "unborn"
    BY DEF TypeOK, Gens, Current
  <2>1. \A g \in Gens : ~Live(g)
    BY DEF MayStart, Current, Live, TypeOK, Gens
  <2>2. Current'
    BY <2>0, <2>1 DEF Current, Live, TypeOK, Gens
  <2>3. Sending'
    BY DEF Sending, TypeOK
  <2>4. \A g \in Gens : Pending(g)' = Pending(g) /\ Queued(g)' = Queued(g)
    BY DEF Pending, Queued
  <2>5. \A g \in Gens : Pending(g) = {}
    BY <2>1 DEF Custody
  <2>6. Custody'
    BY <2>4, <2>5 DEF Custody, Queued
  <2>7. Accounts'
    BY DEF Accounts
  <2> QED
    BY <2>2, <2>3, <2>6, <2>7
<1>2. ASSUME StopTrafficWriter(c) PROVE IInv'
  <2> USE <1>2 DEF StopTrafficWriter
  <2>1. Current'
    BY DEF Current, Live, TypeOK, Gens
  <2>2. Sending'
    BY DEF Sending, TypeOK
  <2>3. \A g \in Gens : Pending(g)' = Pending(g) /\ Queued(g)' = Queued(g) /\ Live(g)' = Live(g)
    BY DEF Pending, Queued, Live
  <2>4. Custody'
    BY <2>3 DEF Custody, Queued
  <2>5. Accounts'
    BY DEF Accounts
  <2> QED
    BY <2>1, <2>2, <2>4, <2>5
<1>3. ASSUME StopReturns(c) PROVE IInv'
  <2> USE <1>3 DEF StopReturns
  <2>1. Current'
    BY DEF Current, Live, AfterStop, TypeOK, Gens
  <2>2. Sending'
    BY DEF Sending, TypeOK
  <2>3. \A g \in Gens : Pending(g)' = Pending(g) /\ Queued(g)' = Queued(g) /\ Live(g)' = Live(g)
    BY DEF Pending, Queued, Live
  <2>4. Custody'
    BY <2>3 DEF Custody, Queued
  <2>5. Accounts'
    BY DEF Accounts
  <2> QED
    BY <2>1, <2>2, <2>4, <2>5
<1> QED
  BY <1>1, <1>2, <1>3 DEF ControllerStep

\* Every step of runTrafficWriter preserves the invariant.
LEMMA InvWriterStep ==
    ASSUME IInv, TypeOK', NEW g \in Gens, WriterStep(g)
    PROVE  IInv'
<1> USE ConstantsAssumption DEF IInv, requestVars, writerVars
<1>1. ASSUME WriterTakes(g) PROVE IInv'
  <2> USE <1>1 DEF WriterTakes
  <2>1. Current' /\ Sending' /\ Accounts'
    BY DEF Current, Sending, Accounts, Live
  <2>2. /\ queue[g] \in Seq(Requests) /\ Head(queue[g]) \in Requests
        /\ NoRepeats(queue[g])
    BY DEF TypeOK, Custody, NoRepeats
  <2>3. /\ Head(queue[g]) \in Elements(queue[g])
        /\ Elements(Tail(queue[g])) = Elements(queue[g]) \ {Head(queue[g])}
        /\ NoRepeats(Tail(queue[g]))
    BY <2>2, TailElements
  <2>4. Queued(g)' = Queued(g) \ {hand'[g]} /\ hand'[g] \in Queued(g) /\ hand'[g] # NoRequest
    <3>1. queue'[g] = Tail(queue[g]) /\ hand'[g] = Head(queue[g])
      BY DEF TypeOK
    <3>2. Queued(g) = Elements(queue[g]) /\ Queued(g)' = Elements(queue'[g])
      BY DEF Queued, Elements
    <3> QED
      BY <2>2, <2>3, <3>1, <3>2
  <2>5. Pending(g)' = Pending(g)
    BY <2>4 DEF Pending
  <2>6. \A h \in Gens : h # g => /\ Queued(h)' = Queued(h) /\ hand'[h] = hand[h]
                                 /\ Pending(h)' = Pending(h) /\ queue'[h] = queue[h]
    BY DEF Queued, Pending, TypeOK
  <2>7. NoRepeats(queue'[g])
    BY <2>3 DEF TypeOK
  <2>8. \A h \in Gens : Live(h)' = Live(h)
    BY DEF Live
  <2>9. Custody'
    BY <2>4, <2>5, <2>6, <2>7, <2>8 DEF Custody, NoRepeats
  <2> QED
    BY <2>1, <2>9
<1>2. ASSUME WriterSeesCancel(g) PROVE IInv'
  <2> USE <1>2 DEF WriterSeesCancel
  <2>1. Current' /\ Sending' /\ Accounts'
    BY DEF Current, Sending, Accounts, Live, TypeOK
  <2>2. \A h \in Gens : Pending(h)' = Pending(h) /\ Queued(h)' = Queued(h) /\ Live(h)' = Live(h)
    BY DEF Pending, Queued, Live, TypeOK
  <2>3. Custody'
    BY <2>2 DEF Custody, Queued
  <2> QED
    BY <2>1, <2>3
<1>3. ASSUME WriterEnds(g) PROVE IInv'
  <2> USE <1>3 DEF WriterEnds, WriterMayEnd
  <2>1. Current' /\ Sending' /\ Accounts'
    BY DEF Current, Sending, Accounts, Live, TypeOK
  <2>2. \A h \in Gens : Pending(h)' = Pending(h) /\ Queued(h)' = Queued(h)
    BY DEF Pending, Queued
  <2>3. Pending(g) = {}
    BY DEF Pending, Queued
  <2>4. \A h \in Gens : h # g => Live(h)' = Live(h)
    BY DEF Live, TypeOK
  <2>5. Custody'
    BY <2>2, <2>3, <2>4 DEF Custody, Queued
  <2> QED
    BY <2>1, <2>5
<1>4. ASSUME NEW e \in Endings, WriterReplies(g, e) PROVE IInv'
  <2> USE <1>4 DEF WriterReplies
  <2> DEFINE r == hand[g]
  <2>1. /\ r \in Requests /\ r \in Pending(g) /\ r \notin Queued(g)
        /\ phase[r] = "waiting" /\ gen[r] = g /\ reply[r] = "none"
    BY DEF TypeOK, Custody, Pending
  <2>2. SafeApply(e) # "none"
    BY DEF SafeApply, Endings
  <2>3. Current' /\ Sending'
    BY DEF Current, Sending, Live
  <2>4. Accounts'
    BY <2>1, <2>2 DEF Accounts, TypeOK
  <2>5. Pending(g)' = Pending(g) \ {r} /\ Queued(g)' = Queued(g)
    BY <2>1 DEF Pending, Queued, TypeOK
  <2>6. \A h \in Gens : h # g => Pending(h)' = Pending(h) /\ Queued(h)' = Queued(h)
                                 /\ hand'[h] = hand[h]
    BY DEF Pending, Queued, TypeOK
  <2>7. \A h \in Gens : h # g => r \notin Pending(h)
    BY <2>1 DEF Custody
  <2>8. \A h \in Gens : Live(h)' = Live(h)
    BY DEF Live
  <2>9. hand'[g] \notin Queued(g)
    BY DEF TypeOK, Queued
  <2>10. \A h \in Gens : \A s \in Pending(h)' : s # r /\ s \in Pending(h)
    BY <2>5, <2>6, <2>7
  <2>11. \A s \in Requests : s # r => reply'[s] = reply[s] /\ phase'[s] = phase[s] /\ gen'[s] = gen[s]
    BY DEF TypeOK
  <2>12. Custody'
    <3>1. \A h \in Gens : Pending(h) \subseteq Requests
      BY PendingAreRequests
    <3>2. \A h \in Gens : \A s \in Pending(h)' :
             phase'[s] = "waiting" /\ gen'[s] = h /\ reply'[s] = "none"
      BY <2>10, <2>11, <3>1 DEF Custody
    <3>3. \A h \in Gens : hand'[h] \notin Queued(h)'
      BY <2>5, <2>6, <2>9 DEF Custody
    <3>4. ASSUME NEW s \in Requests, phase'[s] = "waiting"
          PROVE  gen'[s] \in Gens /\ (reply'[s] = "none" => s \in Pending(gen[s])')
      <4>1. CASE s = r
        <5>1. reply'[s] # "none" /\ gen'[s] = gen[s]
          BY <4>1, <2>1, <2>2 DEF TypeOK
        <5> QED
          BY <5>1, <4>1, <2>1
      <4>2. CASE s # r
        <5>1. phase[s] = "waiting" /\ reply'[s] = reply[s] /\ gen'[s] = gen[s]
          BY <4>2, <3>4, <2>11
        <5>2. gen[s] \in Gens /\ (reply[s] = "none" => s \in Pending(gen[s]))
          BY <5>1 DEF Custody
        <5>3. ASSUME NEW h \in Gens, s \in Pending(h) PROVE s \in Pending(h)'
          BY <4>2, <5>3, <2>5, <2>6
        <5>4. gen'[s] \in Gens /\ (reply'[s] = "none" => s \in Pending(gen[s])')
          BY <5>1, <5>2, <5>3 DEF Pending, Queued
        <5> QED
          BY <5>4
      <4> QED
        BY <4>1, <4>2
    <3>5. \A h \in Gens : ~Live(h)' => Pending(h)' = {}
      BY <2>5, <2>6, <2>8 DEF Custody
    <3>6. \A h \in Gens : \A i, j \in 1..Len(queue'[h]) : queue'[h][i] = queue'[h][j] => i = j
      BY DEF Custody
    <3> QED
      BY <3>2, <3>3, <3>4, <3>5, <3>6 DEF Custody
  <2> QED
    BY <2>3, <2>4, <2>12
<1> QED
  BY <1>1, <1>2, <1>3, <1>4 DEF WriterStep

\* Every step of submitTrafficWrite past twMu preserves the invariant.
LEMMA InvCallStep ==
    ASSUME IInv, TypeOK', NEW r \in Requests, Submit(r) \/ CallStep(r)
    PROVE  IInv'
<1> USE ConstantsAssumption DEF IInv, requestVars, writerVars, Returns
<1>1. ASSUME Submit(r) PROVE IInv'
  <2> USE <1>1 DEF Submit
  <2>1. \A g \in Gens : r \notin Pending(g)
    BY DEF Custody
  <2>2. \A g \in Gens : Pending(g)' = Pending(g) /\ Queued(g)' = Queued(g) /\ Live(g)' = Live(g)
    BY DEF Pending, Queued, Live
  <2>3. \A s \in Requests : s # r => phase'[s] = phase[s] /\ gen'[s] = gen[s]
    BY DEF TypeOK
  <2>4. phase'[r] \in {"inline", "sending"}
    BY DEF TypeOK
  <2>5. Current'
    BY DEF Current, Live
  <2>6. Sending'
    BY <2>3 DEF Sending, RunsInline, TypeOK
  <2>7. Custody'
    <3>1. \A g \in Gens : \A s \in Pending(g) : s \in Requests /\ s # r
      BY <2>1, PendingAreRequests
    <3>2. \A g \in Gens : \A s \in Pending(g)' :
             phase'[s] = "waiting" /\ gen'[s] = g /\ reply'[s] = "none"
      BY <2>2, <2>3, <3>1 DEF Custody
    <3>3. ASSUME NEW s \in Requests, phase'[s] = "waiting"
          PROVE  gen'[s] \in Gens /\ (reply'[s] = "none" => s \in Pending(gen[s])')
      <4>1. s # r /\ phase[s] = "waiting" /\ gen'[s] = gen[s]
        BY <3>3, <2>3, <2>4
      <4> QED
        BY <4>1 DEF Custody, Pending, Queued
    <3> QED
      BY <2>2, <3>2, <3>3 DEF Custody
  <2>8. Accounts'
    BY <2>3, <2>4 DEF Accounts
  <2> QED
    BY <2>5, <2>6, <2>7, <2>8
<1>2. ASSUME Enqueue(r) PROVE IInv'
  <2> USE <1>2 DEF Enqueue
  <2> DEFINE g == gen[r]
  <2>1. /\ twMu = r /\ g = twCur /\ twCur # 0 /\ ~ctxDone[g]
        /\ g \in Gens /\ writer[g] = "select"
    BY DEF Sending, Current, TypeOK, Gens, Live
  <2>2. \A h \in Gens : r \notin Pending(h) /\ r \notin Queued(h) /\ r # hand[h]
    BY DEF Custody, Pending
  <2>3. /\ queue[g] \in Seq(Requests)
        /\ queue'[g] = Append(queue[g], r)
        /\ \A h \in Gens : h # g => queue'[h] = queue[h]
    BY <2>1 DEF TypeOK
  <2>4. Elements(queue'[g]) = Elements(queue[g]) \cup {r} /\ NoRepeats(queue'[g])
    <3>1. r \notin Elements(queue[g]) /\ NoRepeats(queue[g])
      BY <2>1, <2>2 DEF Elements, NoRepeats, Queued, Custody
    <3> QED
      BY <2>3, <3>1, AppendElements
  <2>5. \A h \in Gens : h = g => /\ Queued(h)' = Queued(h) \cup {r}
                                 /\ Pending(h)' = Pending(h) \cup {r}
    <3>1. ASSUME NEW h \in Gens, h = g PROVE Queued(h)' = Queued(h) \cup {r}
      <4>1. Queued(h)' = Elements(queue'[h]) /\ Queued(h) = Elements(queue[h])
        BY DEF Queued, Elements
      <4> QED
        BY <2>4, <3>1, <4>1
    <3> QED
      BY <3>1 DEF Pending
  <2>6. \A h \in Gens : h # g => Queued(h)' = Queued(h) /\ Pending(h)' = Pending(h)
    BY <2>3 DEF Queued, Pending
  <2>7. \A s \in Requests : s # r => phase'[s] = phase[s]
    BY DEF TypeOK
  <2>8. phase'[r] = "waiting" /\ runs[r] = 0 /\ reply[r] = "none"
    BY DEF TypeOK, Accounts
  <2>9. Current' /\ Sending'
    BY <2>1, <2>7, <2>8 DEF Current, Sending, Live
  <2>10. Accounts'
    BY <2>7, <2>8 DEF Accounts
  <2>11. Custody'
    <3>1. \A h \in Gens : \A s \in Pending(h) : s \in Requests
      BY PendingAreRequests
    <3>2. \A h \in Gens : \A s \in Pending(h)' :
             phase'[s] = "waiting" /\ gen'[s] = h /\ reply'[s] = "none"
      BY <2>5, <2>6, <2>7, <2>8, <3>1 DEF Custody
    <3>3. \A h \in Gens : hand'[h] \notin Queued(h)'
      BY <2>2, <2>5, <2>6 DEF Custody
    <3>4. ASSUME NEW s \in Requests, phase'[s] = "waiting"
          PROVE  gen'[s] \in Gens /\ (reply'[s] = "none" => s \in Pending(gen[s])')
      <4>1. CASE s = r
        <5>1. gen'[s] = g /\ \A h \in Gens : h = g => r \in Pending(h)'
          BY <4>1, <2>5
        <5> QED
          BY <4>1, <2>1, <5>1 DEF Pending, Queued
      <4>2. CASE s # r
        <5>1. /\ gen[s] \in Gens
              /\ reply[s] = "none" => s \in Pending(gen[s])
          BY <4>2, <3>4, <2>7 DEF Custody
        <5>2. ASSUME NEW h \in Gens, s \in Pending(h) PROVE s \in Pending(h)'
          BY <5>2, <2>5, <2>6
        <5> QED
          BY <5>1, <5>2 DEF Pending, Queued
      <4> QED
        BY <4>1, <4>2
    <3>5. \A h \in Gens : ~Live(h)' => Pending(h)' = {}
      BY <2>1, <2>6 DEF Custody, Live
    <3>6. \A h \in Gens : \A i, j \in 1..Len(queue'[h]) : queue'[h][i] = queue'[h][j] => i = j
      BY <2>3, <2>4 DEF Custody, NoRepeats
    <3> QED
      BY <3>2, <3>3, <3>4, <3>5, <3>6 DEF Custody
  <2> QED
    BY <2>9, <2>10, <2>11
<1>3. ASSUME QueueFull(r) \/ WaitEnds(r) \/ \E e \in Endings : InlineReturns(r, e)
      PROVE  IInv'
  <2>1. /\ UNCHANGED <<twCur, started, stopper, writerVars, gen, reply>>
        /\ phase[r] \in {"sending", "waiting", "inline"}
        /\ phase' = [phase EXCEPT ![r] = "returned"]
        /\ twMu' = IF phase[r] = "sending" THEN NoRequest ELSE twMu
        /\ \A s \in Requests : s # r =>
              runs'[s] = runs[s] /\ outcome'[s] = outcome[s] /\ verdict'[s] = verdict[s]
    BY <1>3 DEF QueueFull, WaitEnds, InlineReturns, TypeOK
  <2>2. \A g \in Gens : Pending(g)' = Pending(g) /\ Queued(g)' = Queued(g) /\ Live(g)' = Live(g)
    BY <2>1 DEF Pending, Queued, Live
  <2>3. \A s \in Requests : s # r => phase'[s] = phase[s]
    BY <2>1 DEF TypeOK
  <2>4. phase'[r] = "returned"
    BY <2>1 DEF TypeOK
  <2>5. \A g \in Gens : r \notin Pending(g)
    <3>1. CASE WaitEnds(r)
      <4>1. phase[r] = "waiting" /\ gen[r] \in Gens /\ reply[r] # "none"
        BY <3>1 DEF WaitEnds, DoneClosed, Custody, Live
      <4> QED
        BY <4>1 DEF Custody
    <3>2. CASE phase[r] # "waiting"
      BY <3>2 DEF Custody
    <3> QED
      BY <3>1, <3>2, <1>3 DEF QueueFull, InlineReturns
  <2>6. Current'
    BY <2>1, <2>2 DEF Current
  <2>7. Sending'
    BY <2>1, <2>3, <2>4 DEF Sending
  <2>8. Custody'
    <3>0. \A g \in Gens : Pending(g) \subseteq Requests
      BY PendingAreRequests
    <3>1. \A g \in Gens : \A s \in Pending(g) : s \in Requests /\ s # r
      BY <2>5, <3>0
    <3>2. \A g \in Gens : \A s \in Pending(g)' :
             phase'[s] = "waiting" /\ gen'[s] = g /\ reply'[s] = "none"
      BY <2>1, <2>2, <2>3, <3>1 DEF Custody
    <3>3. ASSUME NEW s \in Requests, phase'[s] = "waiting"
          PROVE  gen'[s] \in Gens /\ (reply'[s] = "none" => s \in Pending(gen[s])')
      <4>1. s # r /\ phase[s] = "waiting"
        BY <3>3, <2>3, <2>4
      <4> QED
        BY <4>1, <2>1 DEF Custody, Pending, Queued
    <3> QED
      BY <2>1, <2>2, <3>2, <3>3 DEF Custody
  <2>9. Accounts'
    <3>1. \A s \in Requests : s # r => /\ phase'[s] = phase[s] /\ runs'[s] = runs[s]
                                       /\ outcome'[s] = outcome[s]
                                       /\ verdict'[s] = verdict[s] /\ reply'[s] = reply[s]
      BY <2>1, <2>3
    <3>2. IF verdict'[r] = "full" THEN runs'[r] = 0
          ELSE runs'[r] = 1 /\ verdict'[r] = SafeApply(outcome'[r])
      <4>1. CASE QueueFull(r)
        BY <4>1 DEF QueueFull, Accounts, TypeOK
      <4>2. CASE WaitEnds(r)
        <5>1. phase[r] = "waiting" /\ reply[r] # "none"
          BY <4>2 DEF WaitEnds, DoneClosed, Custody, Live
        <5>2. reply[r] \in {"nil", "err"}
          BY <5>1 DEF TypeOK, Answers
        <5> QED
          BY <4>2, <5>1, <5>2 DEF WaitEnds, Accounts, TypeOK
      <4>3. ASSUME NEW e \in Endings, InlineReturns(r, e)
            PROVE  runs'[r] = 1 /\ verdict'[r] = SafeApply(outcome'[r]) /\ verdict'[r] # "full"
        BY <4>3 DEF InlineReturns, Accounts, TypeOK, SafeApply, Endings
      <4> QED
        BY <1>3, <4>1, <4>2, <4>3
    <3> QED
      BY <2>4, <3>1, <3>2 DEF Accounts
  <2> QED
    BY <2>6, <2>7, <2>8, <2>9
<1> QED
  BY <1>1, <1>2, <1>3 DEF CallStep

\* The invariant holds in every reachable state.
THEOREM Invariance == Spec => []IInv
<1>1. IInv /\ TypeOK' /\ [Next]_vars => IInv'
  <2> SUFFICES ASSUME IInv, TypeOK', [Next]_vars PROVE IInv'
    OBVIOUS
  <2>1. CASE Next
    BY <2>1, InvControllerStep, InvWriterStep, InvCallStep DEF Next
  <2>2. CASE UNCHANGED vars
    <3>1. UNCHANGED <<twCur, started, stopper, twMu>>
          /\ UNCHANGED <<ctxDone, queue, writer, hand>>
          /\ UNCHANGED <<phase, gen, reply, runs, outcome, verdict>>
      BY <2>2 DEF vars, requestVars, writerVars
    <3>2. \A g \in Gens : Pending(g)' = Pending(g) /\ Queued(g)' = Queued(g) /\ Live(g)' = Live(g)
      BY <3>1 DEF Pending, Queued, Live
    <3>3. Current /\ Sending /\ Custody /\ Accounts
      BY DEF IInv
    <3>4. Current'
      BY <3>1, <3>2, <3>3 DEF Current
    <3>5. Sending'
      BY <3>1, <3>3 DEF Sending
    <3>6. Accounts'
      BY <3>1, <3>3 DEF Accounts
    <3>7. Custody'
      BY <3>1, <3>2, <3>3 DEF Custody
    <3> QED
      BY <3>4, <3>5, <3>6, <3>7 DEF IInv
  <2> QED
    BY <2>1, <2>2
<1> QED
  BY InvInit, TypeCorrect, <1>1, PTL DEF Spec

\* There are never two consumer goroutines, and the one there is can be reached
\* by StopTrafficWriter, whatever Start and Stop calls overlap.
THEOREM OneWriter == Spec => []OneReachableWriter
<1>1. IInv => OneReachableWriter
  BY DEF IInv, Current, OneReachableWriter
<1> QED
  BY Invariance, <1>1, PTL

\* What submitTrafficWrite returns is the truth about the write; in particular
\* no caller is ever told "traffic writer stopped before write completed".
THEOREM TrueAnswers == Spec => []AnswerIsTrue
<1>1. IInv => AnswerIsTrue
  <2> SUFFICES ASSUME IInv, NEW r \in Requests
               PROVE  /\ phase[r] = "returned" =>
                           IF verdict[r] = "full"
                           THEN runs[r] = 0 /\ \A g \in Gens : r \notin Pending(g)
                           ELSE runs[r] = 1 /\ verdict[r] = SafeApply(outcome[r])
                      /\ runs[r] <= 1
    BY DEF AnswerIsTrue
  <2>1. \A g \in Gens : phase[r] = "returned" => r \notin Pending(g)
    BY DEF IInv, Custody
  <2>2. phase[r] \in Phases
    BY DEF IInv, TypeOK
  <2> QED
    BY <2>1, <2>2 DEF IInv, Accounts, Phases
<1> QED
  BY Invariance, <1>1, PTL

\* Once done is closed, nothing the generation was given is left behind.
THEOREM Drained == Spec => []DoneMeansDrained
<1>1. IInv => DoneMeansDrained
  <2> SUFFICES ASSUME IInv, NEW g \in Gens, writer[g] = "closed",
                      NEW r \in Requests, gen[r] = g
               PROVE  /\ phase[r] # "sending"
                      /\ phase[r] = "waiting" => reply[r] # "none"
    BY DEF DoneMeansDrained
  <2>1. ctxDone[g] /\ ~Live(g)
    BY DEF IInv, Current, Live
  <2> QED
    BY <2>1 DEF IInv, Sending, Custody
<1> QED
  BY Invariance, <1>1, PTL

-----------------------------------------------------------------------------
(* The refinement: every step is a step of WriteOnce or changes nothing it *)
(* can see.                                                                *)

EffectOf(r) == IF runs[r] = 0 THEN {} ELSE {SafeApply(outcome[r])}
AnswerOf(r) == IF phase[r] = "returned" /\ verdict[r] # "full" THEN {verdict[r]} ELSE {}

StatusBar == [r \in Requests |-> AbstractStatus(r)]
EffectBar == [r \in Requests |-> EffectOf(r)]
AnswerBar == [r \in Requests |-> AnswerOf(r)]
Bars == <<StatusBar, EffectBar, AnswerBar>>

\* A step that leaves the calls alone leaves the abstract state alone.
LEMMA BarsUnchanged ==
    ASSUME UNCHANGED requestVars
    PROVE  UNCHANGED Bars
BY DEF requestVars, Bars, StatusBar, EffectBar, AnswerBar, AbstractStatus, EffectOf, AnswerOf

\* A step that touches the call r only changes what is seen of r only.
SameElsewhere(r) ==
    \A s \in Requests : s # r =>
        /\ phase'[s] = phase[s] /\ reply'[s] = reply[s] /\ runs'[s] = runs[s]
        /\ outcome'[s] = outcome[s] /\ verdict'[s] = verdict[s]

\* A step of the call r moves the abstract state at r only.
LEMMA BarsElsewhere ==
    ASSUME NEW r \in Requests, SameElsewhere(r)
    PROVE  /\ StatusBar' = [StatusBar EXCEPT ![r] = AbstractStatus(r)']
           /\ EffectBar' = [EffectBar EXCEPT ![r] = EffectOf(r)']
           /\ AnswerBar' = [AnswerBar EXCEPT ![r] = AnswerOf(r)']
           /\ StatusBar[r] = AbstractStatus(r)
           /\ EffectBar[r] = EffectOf(r) /\ AnswerBar[r] = AnswerOf(r)
           /\ EffectOf(r)' = EffectOf(r) => EffectBar' = EffectBar
           /\ AnswerOf(r)' = AnswerOf(r) => AnswerBar' = AnswerBar
<1>1. \A s \in Requests : s # r => /\ AbstractStatus(s)' = AbstractStatus(s)
                                   /\ EffectOf(s)' = EffectOf(s) /\ AnswerOf(s)' = AnswerOf(s)
  BY DEF SameElsewhere, AbstractStatus, EffectOf, AnswerOf
<1>2. StatusBar' = [StatusBar EXCEPT ![r] = AbstractStatus(r)']
  BY <1>1 DEF StatusBar
<1>3. EffectBar' = [EffectBar EXCEPT ![r] = EffectOf(r)']
  BY <1>1 DEF EffectBar
<1>4. AnswerBar' = [AnswerBar EXCEPT ![r] = AnswerOf(r)']
  BY <1>1 DEF AnswerBar
<1>5. EffectOf(r)' = EffectOf(r) => EffectBar' = EffectBar
  BY <1>3 DEF EffectBar
<1>6. AnswerOf(r)' = AnswerOf(r) => AnswerBar' = AnswerBar
  BY <1>4 DEF AnswerBar
<1> QED
  BY <1>2, <1>3, <1>4, <1>5, <1>6 DEF StatusBar, EffectBar, AnswerBar

\* The actions of WriteOnce, written with the three mapped variables.
MovesBar(r, from, to) ==
    /\ StatusBar[r] \in from
    /\ StatusBar' = [StatusBar EXCEPT ![r] = to]

\* The actions of WriteOnce, spelled out over the abstract state.
LEMMA PromiseActions ==
    ASSUME NEW r, NEW a
    PROVE  /\ Promise!Offer(r) <=> MovesBar(r, {"idle"}, "offered") /\ UNCHANGED <<EffectBar, AnswerBar>>
           /\ Promise!Accept(r) <=> MovesBar(r, {"idle", "offered"}, "accepted") /\ UNCHANGED <<EffectBar, AnswerBar>>
           /\ Promise!Refuse(r) <=> MovesBar(r, {"offered"}, "refused") /\ UNCHANGED <<EffectBar, AnswerBar>>
           /\ Promise!Apply(r, a) <=> /\ MovesBar(r, {"accepted"}, "applied")
                                      /\ EffectBar' = [EffectBar EXCEPT ![r] = {a}]
                                      /\ UNCHANGED AnswerBar
           /\ Promise!Return(r) <=> /\ MovesBar(r, {"applied"}, "done")
                                    /\ AnswerBar' = [AnswerBar EXCEPT ![r] = EffectBar[r]]
                                    /\ UNCHANGED EffectBar
           /\ Promise!ApplyAndReturn(r, a) <=> /\ MovesBar(r, {"accepted"}, "done")
                                               /\ EffectBar' = [EffectBar EXCEPT ![r] = {a}]
                                               /\ AnswerBar' = [AnswerBar EXCEPT ![r] = {a}]
<1> USE DEF MovesBar, StatusBar, EffectBar, AnswerBar, EffectOf, AnswerOf, Promise!Moves
<1>1. Promise!Offer(r) <=> MovesBar(r, {"idle"}, "offered") /\ UNCHANGED <<EffectBar, AnswerBar>>
  BY DEF Promise!Offer
<1>2. Promise!Accept(r) <=> MovesBar(r, {"idle", "offered"}, "accepted") /\ UNCHANGED <<EffectBar, AnswerBar>>
  BY DEF Promise!Accept
<1>3. Promise!Refuse(r) <=> MovesBar(r, {"offered"}, "refused") /\ UNCHANGED <<EffectBar, AnswerBar>>
  BY DEF Promise!Refuse
<1>4. Promise!Apply(r, a) <=> /\ MovesBar(r, {"accepted"}, "applied")
                              /\ EffectBar' = [EffectBar EXCEPT ![r] = {a}]
                              /\ UNCHANGED AnswerBar
  BY DEF Promise!Apply
<1>5. Promise!Return(r) <=> /\ MovesBar(r, {"applied"}, "done")
                            /\ AnswerBar' = [AnswerBar EXCEPT ![r] = EffectBar[r]]
                            /\ UNCHANGED EffectBar
  BY DEF Promise!Return
<1>6. Promise!ApplyAndReturn(r, a) <=> /\ MovesBar(r, {"accepted"}, "done")
                                       /\ EffectBar' = [EffectBar EXCEPT ![r] = {a}]
                                       /\ AnswerBar' = [AnswerBar EXCEPT ![r] = {a}]
  BY DEF Promise!ApplyAndReturn
<1> QED
  BY <1>1, <1>2, <1>3, <1>4, <1>5, <1>6

\* A call that takes twMu is offered, or accepted when it runs inline.
LEMMA SubmitRefines ==
    ASSUME IInv, TypeOK', NEW r \in Requests, Submit(r)
    PROVE  Promise!Offer(r) \/ Promise!Accept(r)
<1>1. /\ phase[r] = "new" /\ phase'[r] \in {"inline", "sending"}
      /\ UNCHANGED <<reply, runs, outcome, verdict>>
      /\ SameElsewhere(r)
  BY DEF Submit, IInv, TypeOK, SameElsewhere
<1>2. AbstractStatus(r) = "idle" /\ AbstractStatus(r)' \in {"offered", "accepted"}
  BY <1>1 DEF AbstractStatus
<1>3. EffectOf(r)' = EffectOf(r) /\ AnswerOf(r)' = AnswerOf(r)
  BY <1>1 DEF EffectOf, AnswerOf
<1> QED
  BY <1>1, <1>2, <1>3, BarsElsewhere, PromiseActions DEF MovesBar

\* Sending into the queue accepts the write.
LEMMA EnqueueRefines ==
    ASSUME IInv, TypeOK', NEW r \in Requests, Enqueue(r)
    PROVE  Promise!Accept(r)
<1>1. /\ phase[r] = "sending" /\ reply[r] = "none"
      /\ phase'[r] = "waiting" /\ UNCHANGED <<reply, runs, outcome, verdict>>
      /\ SameElsewhere(r)
  BY DEF Enqueue, IInv, Accounts, TypeOK, SameElsewhere
<1>2. AbstractStatus(r) = "offered" /\ AbstractStatus(r)' = "accepted"
  BY <1>1 DEF AbstractStatus
<1>3. EffectOf(r)' = EffectOf(r) /\ AnswerOf(r)' = AnswerOf(r)
  BY <1>1 DEF EffectOf, AnswerOf
<1> QED
  BY <1>1, <1>2, <1>3, BarsElsewhere, PromiseActions DEF MovesBar

\* The timeout on a full queue refuses the write.
LEMMA QueueFullRefines ==
    ASSUME IInv, TypeOK', NEW r \in Requests, QueueFull(r)
    PROVE  Promise!Refuse(r)
<1>1. /\ phase[r] = "sending" /\ phase'[r] = "returned" /\ verdict'[r] = "full"
      /\ UNCHANGED <<reply, runs, outcome>>
      /\ SameElsewhere(r)
  BY DEF QueueFull, Returns, IInv, TypeOK, SameElsewhere
<1>2. AbstractStatus(r) = "offered" /\ AbstractStatus(r)' = "refused"
  BY <1>1 DEF AbstractStatus
<1>3. EffectOf(r)' = EffectOf(r) /\ AnswerOf(r)' = AnswerOf(r)
  BY <1>1 DEF EffectOf, AnswerOf
<1> QED
  BY <1>1, <1>2, <1>3, BarsElsewhere, PromiseActions DEF MovesBar

\* The return of a waiting call reports the effect that was applied.
LEMMA WaitEndsRefines ==
    ASSUME IInv, TypeOK', NEW r \in Requests, WaitEnds(r)
    PROVE  Promise!Return(r)
<1>1. phase[r] = "waiting" /\ reply[r] # "none"
  <2>1. phase[r] = "waiting" /\ (reply[r] # "none" \/ writer[gen[r]] = "closed")
    BY DEF WaitEnds, DoneClosed
  <2>2. ASSUME reply[r] = "none" PROVE FALSE
    <3>1. gen[r] \in Gens /\ r \in Pending(gen[r])
      BY <2>1, <2>2 DEF IInv, Custody
    <3>2. ~Live(gen[r])
      BY <2>1, <2>2 DEF Live
    <3> QED
      BY <3>1, <3>2 DEF IInv, Custody
  <2> QED
    BY <2>1, <2>2
<1>2. /\ runs[r] = 1 /\ reply[r] = SafeApply(outcome[r]) /\ reply[r] # "full"
      /\ phase'[r] = "returned" /\ verdict'[r] = reply[r]
      /\ UNCHANGED <<reply, runs, outcome>>
      /\ SameElsewhere(r)
  <2>1. runs[r] = 1 /\ reply[r] = SafeApply(outcome[r])
    BY <1>1 DEF IInv, Accounts
  <2>2. reply[r] # "full"
    BY DEF IInv, TypeOK, Answers
  <2>3. /\ phase' = [phase EXCEPT ![r] = "returned"]
        /\ verdict' = [verdict EXCEPT ![r] = reply[r]]
        /\ UNCHANGED <<reply, runs, outcome>>
    BY <1>1 DEF WaitEnds, Returns
  <2>4. phase \in [Requests -> Phases] /\ verdict \in [Requests -> Verdicts]
    BY DEF IInv, TypeOK
  <2>5. phase'[r] = "returned" /\ verdict'[r] = reply[r] /\ SameElsewhere(r)
    BY <2>3, <2>4 DEF SameElsewhere
  <2> QED
    BY <2>1, <2>2, <2>3, <2>5
<1>3. AbstractStatus(r) = "applied" /\ AbstractStatus(r)' = "done"
  BY <1>1, <1>2 DEF AbstractStatus
<1>4. EffectOf(r) = {reply[r]} /\ EffectOf(r)' = EffectOf(r) /\ AnswerOf(r)' = {reply[r]}
  BY <1>1, <1>2 DEF EffectOf, AnswerOf
<1>5. /\ StatusBar' = [StatusBar EXCEPT ![r] = "done"] /\ StatusBar[r] = "applied"
      /\ AnswerBar' = [AnswerBar EXCEPT ![r] = {reply[r]}]
      /\ EffectBar' = [EffectBar EXCEPT ![r] = EffectBar[r]] /\ EffectBar[r] = {reply[r]}
  BY <1>2, <1>3, <1>4, BarsElsewhere
<1>6. UNCHANGED EffectBar
  BY <1>5 DEF EffectBar
<1>7. MovesBar(r, {"applied"}, "done")
  BY <1>5 DEF MovesBar
<1> QED
  BY <1>5, <1>6, <1>7, PromiseActions

\* An inline run applies the write and returns in one step.
LEMMA InlineReturnsRefines ==
    ASSUME IInv, TypeOK', NEW r \in Requests, NEW e \in Endings, InlineReturns(r, e)
    PROVE  Promise!ApplyAndReturn(r, SafeApply(e))
<1>1. /\ phase[r] = "inline" /\ runs'[r] = 1 /\ outcome'[r] = e
      /\ phase'[r] = "returned" /\ verdict'[r] = SafeApply(e) /\ SafeApply(e) # "full"
      /\ SameElsewhere(r)
  BY DEF InlineReturns, Returns, IInv, Accounts, TypeOK, Endings, SafeApply, SameElsewhere
<1>2. AbstractStatus(r) = "accepted" /\ AbstractStatus(r)' = "done"
  BY <1>1 DEF AbstractStatus
<1>3. EffectOf(r)' = {SafeApply(e)} /\ AnswerOf(r)' = {SafeApply(e)}
  BY <1>1 DEF EffectOf, AnswerOf
<1> QED
  BY <1>1, <1>2, <1>3, BarsElsewhere, PromiseActions DEF MovesBar

\* The consumer applies the write when it answers.
LEMMA WriterRepliesRefines ==
    ASSUME IInv, TypeOK', NEW g \in Gens, NEW e \in Endings, WriterReplies(g, e)
    PROVE  hand[g] \in Requests /\ Promise!Apply(hand[g], SafeApply(e))
<1>1. hand[g] \in Requests /\ hand[g] \in Pending(g)
  BY DEF WriterReplies, IInv, TypeOK, Pending
<1>2. PICK r \in Requests : r = hand[g]
  BY <1>1
<1>3. phase[r] = "waiting" /\ reply[r] = "none" /\ runs[r] = 0 /\ SafeApply(e) # "none"
  BY <1>1, <1>2 DEF IInv, Custody, Accounts, Endings, SafeApply
<1>4. /\ runs'[r] = 1 /\ outcome'[r] = e /\ reply'[r] = SafeApply(e)
      /\ UNCHANGED <<phase, verdict>>
      /\ SameElsewhere(r)
  BY <1>2, <1>3 DEF WriterReplies, IInv, TypeOK, SameElsewhere
<1>5. AbstractStatus(r) = "accepted" /\ AbstractStatus(r)' = "applied"
  BY <1>3, <1>4 DEF AbstractStatus
<1>6. EffectOf(r)' = {SafeApply(e)} /\ AnswerOf(r)' = AnswerOf(r)
  BY <1>3, <1>4 DEF EffectOf, AnswerOf
<1>7. Promise!Apply(r, SafeApply(e))
  BY <1>4, <1>5, <1>6, BarsElsewhere, PromiseActions DEF MovesBar
<1> QED
  BY <1>2, <1>7

\* The writer keeps the promise of WriteOnce: every write is refused and never
\* run, or accepted, run exactly once and truthfully answered.
THEOREM Implementation == Spec => KeepsPromise
<1>1. Init => Promise!Init
  BY DEF Init, Promise!Init, AbstractStatus
<1>2. IInv /\ TypeOK' /\ [Next]_vars => [Promise!Next]_(Promise!vars)
  <2> SUFFICES ASSUME IInv, TypeOK', [Next]_vars
               PROVE  Promise!Next \/ UNCHANGED Bars
    BY DEF Bars, StatusBar, EffectBar, AnswerBar, EffectOf, AnswerOf, Promise!vars
  <2>1. ASSUME NEW c \in Controllers, ControllerStep(c) PROVE UNCHANGED Bars
    BY <2>1, BarsUnchanged DEF ControllerStep, StartTrafficWriter, StopTrafficWriter, StopReturns
  <2>2. ASSUME NEW g \in Gens, WriterTakes(g) \/ WriterSeesCancel(g) \/ WriterEnds(g)
        PROVE  UNCHANGED Bars
    BY <2>2, BarsUnchanged DEF WriterTakes, WriterSeesCancel, WriterEnds
  <2>3. ASSUME NEW g \in Gens, NEW e \in Endings, WriterReplies(g, e) PROVE Promise!Next
    <3>1. SafeApply(e) \in Answers
      BY DEF SafeApply, Endings, Answers
    <3> QED
      BY <2>3, <3>1, WriterRepliesRefines DEF Promise!Next
  <2>4. ASSUME NEW r \in Requests, Submit(r) \/ CallStep(r) PROVE Promise!Next
    <3>1. CASE Submit(r)
      BY <3>1, SubmitRefines DEF Promise!Next
    <3>2. CASE Enqueue(r)
      BY <3>2, EnqueueRefines DEF Promise!Next
    <3>3. CASE QueueFull(r)
      BY <3>3, QueueFullRefines DEF Promise!Next
    <3>4. CASE WaitEnds(r)
      BY <3>4, WaitEndsRefines DEF Promise!Next
    <3>5. ASSUME NEW e \in Endings, InlineReturns(r, e) PROVE Promise!Next
      <4>1. SafeApply(e) \in Answers
        BY DEF SafeApply, Endings, Answers
      <4> QED
        BY <3>5, <4>1, InlineReturnsRefines DEF Promise!Next
    <3> QED
      BY <2>4, <3>1, <3>2, <3>3, <3>4, <3>5 DEF CallStep
  <2>5. CASE UNCHANGED vars
    BY <2>5, BarsUnchanged DEF vars
  <2> QED
    BY <2>1, <2>2, <2>3, <2>4, <2>5 DEF Next, WriterStep
<1> QED
  BY <1>1, <1>2, TypeCorrect, Invariance, PTL DEF Spec, KeepsPromise, Promise!Spec

=============================================================================
