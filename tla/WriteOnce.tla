------------------------------ MODULE WriteOnce ------------------------------
(***************************************************************************)
(* What the traffic writer promises to a caller of submitTrafficWrite,     *)
(* with no queue, no goroutine and no mutex: a write is either refused     *)
(* before anybody took charge of it, and then it never runs, or it is      *)
(* accepted, runs exactly once, and the caller is answered with what that  *)
(* one execution returned.  TrafficWriter is shown to implement it.        *)
(***************************************************************************)

CONSTANTS
    Requests,   \* the writes ever submitted
    Answers     \* what one execution of a write can return

VARIABLES
    status,     \* status[r]: where the write stands
    effect,     \* effect[r]: what its execution returned, {} before it ran
    answer      \* answer[r]: what its caller was told, {} before that

vars == <<status, effect, answer>>

Status == {"idle", "offered", "accepted", "applied", "done", "refused"}

Init ==
    /\ status = [r \in Requests |-> "idle"]
    /\ effect = [r \in Requests |-> {}]
    /\ answer = [r \in Requests |-> {}]

Moves(r, from, to) ==
    /\ status[r] \in from
    /\ status' = [status EXCEPT ![r] = to]

Offer(r) ==
    /\ Moves(r, {"idle"}, "offered")
    /\ UNCHANGED <<effect, answer>>

Accept(r) ==
    /\ Moves(r, {"idle", "offered"}, "accepted")
    /\ UNCHANGED <<effect, answer>>

Refuse(r) ==
    /\ Moves(r, {"offered"}, "refused")
    /\ UNCHANGED <<effect, answer>>

Apply(r, a) ==
    /\ Moves(r, {"accepted"}, "applied")
    /\ effect' = [effect EXCEPT ![r] = {a}]
    /\ UNCHANGED answer

Return(r) ==
    /\ Moves(r, {"applied"}, "done")
    /\ answer' = [answer EXCEPT ![r] = effect[r]]
    /\ UNCHANGED effect

\* A write that runs in its caller's goroutine is applied and answered at once.
ApplyAndReturn(r, a) ==
    /\ Moves(r, {"accepted"}, "done")
    /\ effect' = [effect EXCEPT ![r] = {a}]
    /\ answer' = [answer EXCEPT ![r] = {a}]

Next ==
    \E r \in Requests :
        \/ Offer(r) \/ Accept(r) \/ Refuse(r) \/ Return(r)
        \/ \E a \in Answers : Apply(r, a) \/ ApplyAndReturn(r, a)

Spec == Init /\ [][Next]_vars

=============================================================================
