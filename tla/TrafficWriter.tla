---------------------------- MODULE TrafficWriter ----------------------------
(***************************************************************************)
(* The serial traffic writer (internal/web/service/traffic_writer.go): a   *)
(* package-level queue with one consumer goroutine through which every     *)
(* mutation of the traffic rows is meant to pass.  Each call of            *)
(* StartTrafficWriter makes a fresh GENERATION: a queue, a context, a done *)
(* channel and a goroutine.  twMu guards the package variables that point  *)
(* to the current generation, and a submitter keeps it while it waits for  *)
(* room in the queue.                                                      *)
(***************************************************************************)
EXTENDS Naturals, Sequences

CONSTANTS
    Requests,       \* one call of submitTrafficWrite each
    Controllers,    \* goroutines that call Start- and StopTrafficWriter
    QueueSize,      \* trafficWriterQueueSize
    MaxStarts,      \* bound on the number of generations
    NoRequest

ASSUME ConstantsAssumption ==
    /\ NoRequest \notin Requests
    /\ QueueSize \in Nat \ {0}
    /\ MaxStarts \in Nat

VARIABLES
    twCur,      \* generation twQueue, twCtx, twCancel and twDone belong to; 0: nil
    started,    \* generations created so far
    ctxDone,    \* ctxDone[g]: the context of g is cancelled
    queue,      \* queue[g]: the buffered channel of g
    writer,     \* writer[g]: where runTrafficWriter of g stands
    hand,       \* hand[g]: the request whose apply that goroutine is running
    twMu,       \* the submitter that holds twMu across steps
    phase,      \* phase[r]: where submitTrafficWrite stands for r
    gen,        \* gen[r]: the generation r read under twMu; 0: none
    reply,      \* reply[r]: content of req.done
    runs,       \* runs[r]: how many times apply ran to its end
    outcome,    \* outcome[r]: how the last run of apply ended
    verdict,    \* verdict[r]: what submitTrafficWrite returned
    stopper     \* stopper[c]: the generation c waits for in StopTrafficWriter

requestVars == <<phase, gen, reply, runs, outcome, verdict>>
writerVars  == <<ctxDone, queue, writer, hand>>
vars == <<twCur, started, twMu, stopper, requestVars, writerVars>>

Gens == 1..MaxStarts

\* How fn may end, and what safeApply makes of it: a panic becomes an error.
Endings == {"nil", "err", "panic"}
NoRecover(ending) == ending
SafeApply(ending) == IF ending = "panic" THEN "err" ELSE ending

\* The requests generation g still has to run.
Queued(g)  == {queue[g][i] : i \in 1..Len(queue[g])}
Pending(g) == Queued(g) \cup ({hand[g]} \ {NoRequest})

Live(g) == writer[g] \in {"select", "drain"}

Init ==
    /\ twCur = 0
    /\ started = 0
    /\ ctxDone = [g \in Gens |-> FALSE]
    /\ queue = [g \in Gens |-> <<>>]
    /\ writer = [g \in Gens |-> "unborn"]
    /\ hand = [g \in Gens |-> NoRequest]
    /\ twMu = NoRequest
    /\ phase = [r \in Requests |-> "new"]
    /\ gen = [r \in Requests |-> 0]
    /\ reply = [r \in Requests |-> "none"]
    /\ runs = [r \in Requests |-> 0]
    /\ outcome = [r \in Requests |-> "none"]
    /\ verdict = [r \in Requests |-> "none"]
    /\ stopper = [c \in Controllers |-> 0]

-----------------------------------------------------------------------------
(* StartTrafficWriter and StopTrafficWriter.                               *)

\* A generation is only made when there is none or the old one's goroutine has
\* ended; otherwise the call returns and changes nothing.
StartAnyway == TRUE
MayStart == twCur # 0 => writer[twCur] = "closed"

StartTrafficWriter(c) ==
    /\ twMu = NoRequest /\ stopper[c] = 0
    /\ started < MaxStarts
    /\ MayStart
    /\ started' = started + 1
    /\ twCur' = started'
    /\ writer' = [writer EXCEPT ![started'] = "select"]
    /\ UNCHANGED <<ctxDone, queue, hand, twMu, stopper, requestVars>>

\* First critical section of StopTrafficWriter: cancel the context.
StopTrafficWriter(c) ==
    /\ twMu = NoRequest /\ stopper[c] = 0
    /\ twCur # 0
    /\ ctxDone' = [ctxDone EXCEPT ![twCur] = TRUE]
    /\ stopper' = [stopper EXCEPT ![c] = twCur]
    /\ UNCHANGED <<twCur, started, queue, writer, hand, twMu, requestVars>>

\* What the second critical section leaves in the package variables: another
\* controller may have started a new generation since done was read.
AfterStop(g) == IF twCur = g THEN 0 ELSE twCur

\* <-done, then the second critical section.
StopReturns(c) ==
    /\ stopper[c] # 0
    /\ writer[stopper[c]] = "closed"
    /\ twMu = NoRequest
    /\ twCur' = AfterStop(stopper[c])
    /\ stopper' = [stopper EXCEPT ![c] = 0]
    /\ UNCHANGED <<started, twMu, writerVars, requestVars>>

-----------------------------------------------------------------------------
(* runTrafficWriter of generation g.  With a cancelled context and a       *)
(* non-empty queue the first select may choose either branch.              *)

WriterTakes(g) ==
    /\ Live(g) /\ hand[g] = NoRequest
    /\ queue[g] # <<>>
    /\ hand' = [hand EXCEPT ![g] = Head(queue[g])]
    /\ queue' = [queue EXCEPT ![g] = Tail(@)]
    /\ UNCHANGED <<twCur, started, ctxDone, writer, twMu, stopper, requestVars>>

\* Mutant: the panic is recovered around the send, so it is never answered.
PanicUnanswered(g, ending) ==
    /\ hand[g] # NoRequest
    /\ runs' = [runs EXCEPT ![hand[g]] = @ + 1]
    /\ outcome' = [outcome EXCEPT ![hand[g]] = ending]
    /\ reply' = [reply EXCEPT ![hand[g]] = IF ending = "panic" THEN @ ELSE ending]
    /\ hand' = [hand EXCEPT ![g] = NoRequest]
    /\ UNCHANGED <<twCur, started, ctxDone, queue, writer, twMu, stopper,
                   phase, gen, verdict>>

\* safeApply returns and the result goes to req.done, which has room for it.
WriterReplies(g, ending) ==
    /\ hand[g] # NoRequest
    /\ LET r == hand[g] IN
        /\ runs' = [runs EXCEPT ![r] = @ + 1]
        /\ outcome' = [outcome EXCEPT ![r] = ending]
        /\ reply' = [reply EXCEPT ![r] = SafeApply(ending)]
    /\ hand' = [hand EXCEPT ![g] = NoRequest]
    /\ UNCHANGED <<twCur, started, ctxDone, queue, writer, twMu, stopper,
                   phase, gen, verdict>>

WriterSeesCancel(g) ==
    /\ writer[g] = "select" /\ hand[g] = NoRequest
    /\ ctxDone[g]
    /\ writer' = [writer EXCEPT ![g] = "drain"]
    /\ UNCHANGED <<twCur, started, ctxDone, queue, hand, twMu, stopper, requestVars>>

\* The inner select finds the queue empty: the goroutine closes done and ends.
WriterMayEnd(g) == writer[g] = "drain" /\ queue[g] = <<>>

\* Mutant: "break" in place of "return" leaves the select, not the loop.
BreaksSelectOnly(g) ==
    /\ WriterMayEnd(g) /\ hand[g] = NoRequest
    /\ UNCHANGED vars

WriterEnds(g) ==
    /\ WriterMayEnd(g) /\ hand[g] = NoRequest
    /\ writer' = [writer EXCEPT ![g] = "closed"]
    /\ UNCHANGED <<twCur, started, ctxDone, queue, hand, twMu, stopper, requestVars>>

-----------------------------------------------------------------------------
(* submitTrafficWrite(r).                                                  *)

\* Under twMu the caller finds no writer, or one that is being stopped.
\* Mutant: the context is not looked at.
InlineWithoutWriter == twCur = 0
RunsInline == twCur = 0 \/ ctxDone[twCur]

Submit(r) ==
    /\ phase[r] = "new" /\ twMu = NoRequest
    /\ IF RunsInline
       THEN /\ phase' = [phase EXCEPT ![r] = "inline"]
            /\ UNCHANGED <<twMu, gen>>
       ELSE /\ phase' = [phase EXCEPT ![r] = "sending"]
            /\ gen' = [gen EXCEPT ![r] = twCur]
            /\ twMu' = r
    /\ UNCHANGED <<twCur, started, stopper, writerVars, reply, runs, outcome, verdict>>

\* queue <- req, then twMu.Unlock().
Enqueue(r) ==
    /\ phase[r] = "sending"
    /\ Len(queue[gen[r]]) < QueueSize
    /\ queue' = [queue EXCEPT ![gen[r]] = Append(@, r)]
    /\ phase' = [phase EXCEPT ![r] = "waiting"]
    /\ twMu' = NoRequest
    /\ UNCHANGED <<twCur, started, stopper, ctxDone, writer, hand,
                   gen, reply, runs, outcome, verdict>>

Returns(r, v) ==
    /\ phase' = [phase EXCEPT ![r] = "returned"]
    /\ verdict' = [verdict EXCEPT ![r] = v]

\* Mutant: one timer for the send and for the wait that follows it.
TimerCoversWait(r) ==
    /\ phase[r] \in {"sending", "waiting"}
    /\ Len(queue[gen[r]]) = QueueSize
    /\ Returns(r, "full")
    /\ twMu' = NoRequest
    /\ UNCHANGED <<twCur, started, stopper, writerVars, gen, reply, runs, outcome>>

\* trafficWriterSubmitTimeout expires while the queue is full.
QueueFull(r) ==
    /\ phase[r] = "sending"
    /\ Len(queue[gen[r]]) = QueueSize
    /\ Returns(r, "full")
    /\ twMu' = NoRequest
    /\ UNCHANGED <<twCur, started, stopper, writerVars, gen, reply, runs, outcome>>

InlineReturns(r, ending) ==
    /\ phase[r] = "inline"
    /\ runs' = [runs EXCEPT ![r] = @ + 1]
    /\ outcome' = [outcome EXCEPT ![r] = ending]
    /\ Returns(r, SafeApply(ending))
    /\ UNCHANGED <<twCur, started, stopper, twMu, writerVars, gen, reply>>

\* Mutant: the caller watches the context, not the end of the goroutine.
ContextDone(r) == ctxDone[gen[r]]
\* done is closed.
DoneClosed(r) == writer[gen[r]] = "closed"

\* The two selects that wait for the answer: err := <-req.done wins whenever it
\* can, in the first select or in the second one, and with done closed and
\* req.done empty the caller gives up.
WaitEnds(r) ==
    /\ phase[r] = "waiting"
    /\ reply[r] # "none" \/ DoneClosed(r)
    /\ Returns(r, IF reply[r] # "none" THEN reply[r] ELSE "stopped")
    /\ UNCHANGED <<twCur, started, stopper, twMu, writerVars, gen, reply, runs, outcome>>

-----------------------------------------------------------------------------
ControllerStep(c) == StartTrafficWriter(c) \/ StopTrafficWriter(c) \/ StopReturns(c)

WriterStep(g) ==
    \/ WriterTakes(g) \/ WriterSeesCancel(g) \/ WriterEnds(g)
    \/ \E e \in Endings : WriterReplies(g, e)

\* The steps of a call once it holds twMu, waits, or runs its own function.
CallStep(r) ==
    \/ Enqueue(r) \/ QueueFull(r) \/ WaitEnds(r)
    \/ \E e \in Endings : InlineReturns(r, e)

Next ==
    \/ \E c \in Controllers : ControllerStep(c)
    \/ \E g \in Gens : WriterStep(g)
    \/ \E r \in Requests : Submit(r) \/ CallStep(r)

Spec == Init /\ [][Next]_vars

(* Goroutines are scheduled, every database transaction ends, the five     *)
(* second timer expires, and sync.Mutex is handed over: nobody is obliged  *)
(* to call submitTrafficWrite, StartTrafficWriter or StopTrafficWriter.    *)
FairSpec ==
    /\ Spec
    /\ \A g \in Gens : WF_vars(WriterStep(g))
    /\ \A r \in Requests : WF_vars(CallStep(r))
    /\ \A c \in Controllers : WF_vars(StopReturns(c))

-----------------------------------------------------------------------------
(* Properties.                                                             *)

Phases   == {"new", "sending", "waiting", "inline", "returned"}
Answers  == {"nil", "err"}
Verdicts == {"none", "full", "stopped"} \cup Answers

\* Every variable keeps its type; a panic of a write never gets past safeApply.
TypeOK ==
    /\ twCur \in 0..MaxStarts
    /\ started \in 0..MaxStarts
    /\ ctxDone \in [Gens -> BOOLEAN]
    /\ queue \in [Gens -> Seq(Requests)]
    /\ writer \in [Gens -> {"unborn", "select", "drain", "closed"}]
    /\ hand \in [Gens -> Requests \cup {NoRequest}]
    /\ twMu \in Requests \cup {NoRequest}
    /\ phase \in [Requests -> Phases]
    /\ gen \in [Requests -> 0..MaxStarts]
    /\ reply \in [Requests -> {"none"} \cup Answers]
    /\ runs \in [Requests -> Nat]
    /\ outcome \in [Requests -> {"none"} \cup Endings]
    /\ verdict \in [Requests -> Verdicts]
    /\ stopper \in [Controllers -> 0..MaxStarts]

\* Whatever Start and Stop calls overlap, the only consumer goroutine that can
\* be alive is the one the package variables point to: there are never two
\* writers, and a writer no StopTrafficWriter could reach is never left behind.
OneReachableWriter == \A g \in Gens : Live(g) => g = twCur

\* What submitTrafficWrite returns is the truth about the write: "queue full"
\* means it never ran and never will, any other return means it ran exactly
\* once and carries what that run returned.  In particular no caller is told
\* "traffic writer stopped before write completed".
AnswerIsTrue ==
    \A r \in Requests :
        /\ phase[r] = "returned" =>
              IF verdict[r] = "full"
              THEN runs[r] = 0 /\ \A g \in Gens : r \notin Pending(g)
              ELSE runs[r] = 1 /\ verdict[r] = SafeApply(outcome[r])
        /\ runs[r] <= 1

\* When a generation's done channel is closed, nothing it was given is left
\* behind and nobody can give it anything any more: a submitter that passed
\* the context check under twMu still finds its consumer.
DoneMeansDrained ==
    \A g \in Gens : writer[g] = "closed" =>
        \A r \in Requests : gen[r] = g =>
            /\ phase[r] # "sending"
            /\ phase[r] = "waiting" => reply[r] # "none"

\* Every call of submitTrafficWrite that got past twMu returns: the consumer of
\* its generation is there until it has answered (the deadlock after SIGHUP the
\* comment of StartTrafficWriter recalls).
EveryCallReturns ==
    \A r \in Requests : phase[r] # "new" ~> phase[r] = "returned"

\* Every StopTrafficWriter returns, even with submitters blocked on a full queue.
EveryStopReturns ==
    \A c \in Controllers : stopper[c] # 0 ~> stopper[c] = 0

\* runSerializedTx: fn "can never execute concurrently with the @every 5s
\* traffic poll".  Said here of a writer that was started and is being stopped:
\* while its goroutine runs a request it drains from the queue, nobody runs a
\* function of his own.  (With no writer at all every call runs inline, but the
\* panel starts the writer before anything can call it.)
Serialized ==
    \A g \in Gens, r \in Requests :
        writer[g] = "drain" /\ hand[g] # NoRequest => phase[r] # "inline"

-----------------------------------------------------------------------------
(* The promise, and how this module keeps it.                              *)

AbstractStatus(r) ==
    CASE phase[r] = "new" -> "idle"
      [] phase[r] = "sending" -> "offered"
      [] phase[r] = "inline" -> "accepted"
      [] phase[r] = "waiting" -> IF reply[r] = "none" THEN "accepted" ELSE "applied"
      [] phase[r] = "returned" -> IF verdict[r] = "full" THEN "refused" ELSE "done"

Promise == INSTANCE WriteOnce WITH
    status <- [r \in Requests |-> AbstractStatus(r)],
    effect <- [r \in Requests |-> IF runs[r] = 0 THEN {} ELSE {SafeApply(outcome[r])}],
    answer <- [r \in Requests |->
                  IF phase[r] = "returned" /\ verdict[r] # "full" THEN {verdict[r]} ELSE {}]

\* The writer implements WriteOnce: every write is refused and never run, or
\* accepted, run once and truthfully answered.
KeepsPromise == Promise!Spec

=============================================================================
