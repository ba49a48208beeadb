--------------------------- MODULE TrafficAccounting ---------------------------
(***************************************************************************)
(* Traffic accounting and client quota (internal/web/service               *)
(* inbound_traffic.go, inbound_disable.go, client_traffic.go,              *)
(* internal/xray/api.go, internal/web/job/xray_traffic_job.go) on the      *)
(* inbounds of this panel.                                                 *)
(*                                                                         *)
(* Whether a client may connect is written down in its row of              *)
(* client_traffics, in its record in clients, and in the settings JSON of  *)
(* every inbound it is attached to.  The traffic job polls the counters of *)
(* the core, adds them to the rows, and renews or disables clients in all  *)
(* of these places; edits and resets change them too, and every restart of *)
(* the core runs the same renewals and disables first.                     *)
(*                                                                         *)
(* A write through the traffic writer is one step (see TrafficWriter).     *)
(* Whom the core serves is XraySupervisor's matter.  Here the core is a    *)
(* set of counters, and a client may move bytes as long as it runs: the    *)
(* core does not cut connections of a user it is told to remove.           *)
(***************************************************************************)
EXTENDS Integers

CONSTANTS
    Clients,    \* e-mail addresses
    Inbounds,   \* ids of inbounds
    Attached,   \* Attached[i]: the clients of inbound i
    Limited,    \* the clients with total > 0
    Limit,      \* that total
    Renewing,   \* the clients with reset > 0
    Delayed,    \* the clients whose time starts with their first use
    Busy,       \* bound: the clients that move bytes,
    MaxMoved,   \* how many in all,
    MaxEdits,   \* and how often somebody edits or resets
    Given,      \* bound: the expiries an edit may set
    NoClient

Expiries == {"later", "delayed", "passed"}   \* expiry_time ahead, < 0, behind

ASSUME ConstantsAssumption ==
    /\ Inbounds \subseteq Nat
    /\ \A I \in SUBSET Inbounds : I # {} => \E i \in I : \A j \in I : j <= i
    /\ Attached \in [Inbounds -> SUBSET Clients]
    /\ \A e \in Clients : \E i \in Inbounds : e \in Attached[i]
    /\ Limited \subseteq Clients /\ Renewing \subseteq Clients
    /\ Delayed \subseteq Clients /\ Busy \subseteq Clients
    /\ Limit \in Nat \ {0} /\ MaxMoved \in Nat /\ MaxEdits \in Nat
    /\ Given \subseteq Expiries /\ NoClient \notin Clients

VARIABLES
    db,         \* rows, records and settings
    running,    \* the core is up
    counter,    \* its user counters, bytes since its start
    seen, last, \* StatsLastValues of the job: for whom it has a value, which
    poll,       \* "idle", or "apply" once counters have been fetched
    heard,      \* the clients the fetch reports,
    delta,      \* and how much
    asked,      \* a run of the job waits to restart the core
    restart,    \* "free", or who is inside RestartXray: "job", "other"
    edit,       \* the edit or reset of a client under way
    edits, left,\* edits made, bytes that may still be moved
    owed,       \* bytes moved less bytes ever added to the row
    torn        \* clients a stale save, a half renewal or a failed or
                \* disturbed edit may have set apart

coreVars == <<running, counter>>
jobVars  == <<seen, last, poll, heard, delta>>
lockVars == <<asked, restart>>
ghosts   == <<left, owed, torn>>
vars == <<db, coreVars, jobVars, lockVars, edit, edits, ghosts>>

Of(e) == {i \in Inbounds : e \in Attached[i]}
First(I) == CHOOSE i \in I : \A j \in I : i <= j
Last(I)  == CHOOSE i \in I : \A j \in I : j <= i
Zero == [e \in Clients |-> 0]

NoEdit == [at |-> "idle", client |-> NoClient, on |-> FALSE, expiry |-> "later",
           todo |-> {}, inbound |-> 0, copy |-> {}, reset |-> FALSE,
           disturbed |-> FALSE]

Init ==
    /\ db = [used |-> Zero,
             expiry |-> [e \in Clients |-> IF e \in Delayed THEN "delayed" ELSE "later"],
             rowOn |-> Clients, recOn |-> Clients, setOn |-> Attached]
    /\ running = FALSE /\ counter = Zero
    /\ seen = {} /\ last = Zero
    /\ poll = "idle" /\ heard = {} /\ delta = Zero
    /\ asked = FALSE /\ restart = "free"
    /\ edit = NoEdit /\ edits = 0
    /\ left = MaxMoved /\ owed = Zero /\ torn = {}
--------------------------------------------------------------------------------
(***************************************************************************)
(* What the database writes do.                                            *)
(***************************************************************************)
Depleted(d, e) == (e \in Limited /\ d.used[e] >= Limit) \/ d.expiry[e] = "passed"

\* SyncInbound of the inbounds I, one after the other: the last one of a client
\* decides what its record says.
Synced(recOn, setOn, I) ==
    {e \in Clients : IF Of(e) \cap I = {} THEN e \in recOn
                     ELSE e \in setOn[Last(Of(e) \cap I)]}
Hosting(S) == {i \in Inbounds : Attached[i] \cap S # {}}

\* addClientTraffic with adjustTraffics: the clock of a delayed client starts
\* with the first poll that reports it, and its inbounds are synced.
Added(d, who, bytes) ==
    LET starting == {e \in who : d.expiry[e] = "delayed"}
    IN  [used   |-> [e \in Clients |-> d.used[e] + bytes[e]],
         expiry |-> [e \in Clients |-> IF e \in starting THEN "later" ELSE d.expiry[e]],
         rowOn  |-> d.rowOn,
         recOn  |-> Synced(d.recOn, d.setOn, Hosting(starting)),
         setOn  |-> d.setOn]

\* autoRenewClients.  The flag of a row is raised in memory when its first
\* inbound is visited, so only that inbound's settings are enabled.
Due(d) == {e \in Renewing : d.expiry[e] = "passed"}
EnabledAgain(d) ==
    [i \in Inbounds |-> d.setOn[i] \cup
        {e \in Attached[i] : e \in Due(d) \ d.rowOn /\ i = First(Of(e))}]
Renewed(d) ==
    [used   |-> [e \in Clients |-> IF e \in Due(d) THEN 0 ELSE d.used[e]],
     expiry |-> [e \in Clients |-> IF e \in Due(d) THEN "later" ELSE d.expiry[e]],
     rowOn  |-> d.rowOn \cup Due(d),
     recOn  |-> Synced(d.recOn, EnabledAgain(d), Hosting(Due(d))),
     setOn  |-> EnabledAgain(d)]
HalfRenewed(d) == {e \in Due(d) \ d.rowOn : \E i, j \in Of(e) : i # j}

\* disableInvalidClients
\* Mutant: a quota must be exceeded.
SpentBeyond(d) ==
    {e \in d.rowOn : (e \in Limited /\ d.used[e] > Limit) \/ d.expiry[e] = "passed"}
Spent(d) == {e \in d.rowOn : Depleted(d, e)}
\* Mutant: the records are forgotten.
DisabledInPart(d) ==
    [d EXCEPT !.rowOn = @ \ Spent(d),
              !.setOn = [i \in Inbounds |-> @[i] \ Spent(d)]]
Disabled(d) ==
    [d EXCEPT !.rowOn = @ \ Spent(d), !.recOn = @ \ Spent(d),
              !.setOn = [i \in Inbounds |-> @[i] \ Spent(d)]]

\* UpdateInboundClient: the row of one client, and the settings of one inbound
\* as they were read before the transaction, with that client replaced
Edited(d, t) ==
    LET with(S) == IF t.on THEN S \cup {t.client} ELSE S \ {t.client}
        setOn == [d.setOn EXCEPT ![t.inbound] = with(t.copy)]
    IN  [used |-> d.used, expiry |-> [d.expiry EXCEPT ![t.client] = t.expiry],
         rowOn |-> with(d.rowOn), recOn |-> Synced(d.recOn, setOn, {t.inbound}),
         setOn |-> setOn]

\* ResetClientTraffic, ResetAllClientTraffics: rows only
Zeroed(d, S) ==
    [d EXCEPT !.used = [e \in Clients |-> IF e \in S THEN 0 ELSE @[e]],
              !.rowOn = @ \cup S]
--------------------------------------------------------------------------------
(***************************************************************************)
(* addTrafficLocked on the database d, which already has the polled bytes: *)
(* renew, then disable, in one transaction.                                *)
(***************************************************************************)
Maintain(d) ==
    \E r \in {Renewed(d)} :
        /\ db' = Disabled(r)
        /\ torn' = (torn \cup HalfRenewed(d)) \ Spent(r)
        /\ edit' = [edit EXCEPT !.disturbed =
                       @ \/ edit.client \in Due(d) \cup Spent(r)]

\* A client moves a byte.
Move(e) ==
    /\ running /\ left > 0
    /\ counter' = [counter EXCEPT ![e] = @ + 1]
    /\ left' = left - 1 /\ owed' = [owed EXCEPT ![e] = @ + 1]
    /\ UNCHANGED <<db, running, jobVars, lockVars, edit, edits, torn>>

\* Time passes.
Expire(e) ==
    /\ db.expiry[e] = "later"
    /\ db' = [db EXCEPT !.expiry[e] = "passed"]
    /\ UNCHANGED <<coreVars, jobVars, lockVars, edit, edits, ghosts>>

\* XrayTrafficJob.Run, GetTraffic: the core has a counter of those who moved
\* bytes since its start; one that is new to the job, or has fallen, is noted
\* and not reported.
\* Mutant: one that has fallen is reported too.
ReportedAlways == {e \in seen : counter[e] > 0}
Reported == {e \in seen : counter[e] > 0 /\ counter[e] >= last[e]}
\* Mutant: only the first value of a counter is noted.
NotedOnce == [e \in Clients |-> IF e \in seen THEN last[e] ELSE counter[e]]
Noted == [e \in Clients |-> IF counter[e] > 0 THEN counter[e] ELSE last[e]]
Fetch ==
    /\ running /\ poll = "idle"
    /\ poll' = "apply"
    /\ heard' = Reported
    /\ delta' = [e \in Clients |-> IF e \in Reported THEN counter[e] - last[e] ELSE 0]
    /\ seen' = seen \cup {e \in Clients : counter[e] > 0}
    /\ last' = Noted
    /\ UNCHANGED <<db, coreVars, lockVars, edit, edits, ghosts>>

PollEnds == poll' = "idle" /\ heard' = {} /\ delta' = Zero

\* When AddTraffic disabled somebody, and the setting says so, the run goes on to
\* restart the core; the next run need not wait for it.
MayAsk(d) ==
    asked' \in IF Spent(Renewed(d)) = {} THEN {asked} ELSE {asked, TRUE}

ApplyCommits ==
    /\ poll = "apply"
    /\ PollEnds
    /\ UNCHANGED <<coreVars, seen, last, restart, edits, left>>
    /\ owed' = [e \in Clients |-> owed[e] - delta[e]]
    /\ \E d \in {Added(db, heard, delta)} : Maintain(d) /\ MayAsk(d)

\* A statement fails and all is rolled back, with an error or, when
\* disableInvalidInbounds fails at the end, without; the bytes are gone.
ApplyFails ==
    /\ poll = "apply"
    /\ PollEnds
    /\ MayAsk(Added(db, heard, delta))
    /\ UNCHANGED <<db, coreVars, seen, last, restart, edit, edits, ghosts>>
--------------------------------------------------------------------------------
(***************************************************************************)
(* RestartXray, as far as it touches accounting.                           *)
(***************************************************************************)
\* GetXrayConfig runs AddTraffic without any bytes, and ignores its error.
RestartBegins(who) ==
    /\ restart = "free"
    /\ who = "job" => asked
    /\ restart' = who
    /\ asked' = (asked /\ who # "job")
    /\ Maintain(db) \/ UNCHANGED <<db, edit, torn>>
    /\ UNCHANGED <<coreVars, jobVars, edits, left, owed>>

\* The configuration cannot be read; or (never for the job, which forces it)
\* the core is up and there is nothing to do, or nothing a hot apply cannot do.
RestartKeepsCore ==
    /\ restart # "free"
    /\ restart' = "free"
    /\ UNCHANGED <<db, coreVars, jobVars, asked, edit, edits, ghosts>>

\* The old process is stopped and a new one started, or fails to start.  Only
\* the XrayService that restarts forgets its StatsLastValues.
Relaunch ==
    /\ restart # "free"
    /\ restart' = "free"
    /\ running' \in BOOLEAN /\ counter' = Zero
    /\ IF restart = "job" THEN seen' = {} /\ last' = Zero
                         ELSE UNCHANGED <<seen, last>>
    /\ UNCHANGED <<db, poll, heard, delta, asked, edit, edits, ghosts>>

CoreDies ==
    /\ running
    /\ running' = FALSE /\ counter' = Zero
    /\ UNCHANGED <<db, jobVars, lockVars, edit, edits, ghosts>>
--------------------------------------------------------------------------------
(***************************************************************************)
(* Edits and resets.                                                       *)
(***************************************************************************)
\* ClientService.Update with an enabled or disabled client
EditBegins(e, on, x) ==
    /\ edit.at = "idle" /\ edits < MaxEdits
    /\ edit' = [NoEdit EXCEPT !.at = "next", !.client = e, !.on = on,
                              !.expiry = x, !.todo = Of(e)]
    /\ edits' = edits + 1
    /\ UNCHANGED <<db, coreVars, jobVars, lockVars, ghosts>>

\* ResetTrafficByEmail reads the record; if that is disabled it is updated first.
\* Mutant: the record is not looked at.
RowsAtOnce(e) == "zero"
FirstStep(e) == IF e \in db.recOn THEN "zero" ELSE "next"
ResetBegins(e, x) ==
    /\ edit.at = "idle" /\ edits < MaxEdits
    /\ edit' = [NoEdit EXCEPT !.at = FirstStep(e), !.client = e, !.on = TRUE,
                              !.expiry = IF FirstStep(e) = "next" THEN x ELSE @,
                              !.todo = Of(e), !.reset = TRUE]
    /\ edits' = edits + 1
    /\ UNCHANGED <<db, coreVars, jobVars, lockVars, ghosts>>

\* UpdateInboundClient reads the inbound, outside the transaction.
ReadInbound(i) ==
    /\ edit.at = "next" /\ i \in edit.todo
    /\ edit' = [edit EXCEPT !.at = "copied", !.inbound = i, !.copy = db.setOn[i]]
    /\ UNCHANGED <<db, coreVars, jobVars, lockVars, edits, ghosts>>

\* Update is over: a reset goes on to zero the row, once for each inbound.
UpdateEnds(disturbed) ==
    edit' = IF edit.reset
            THEN [NoEdit EXCEPT !.at = "zero", !.client = edit.client, !.on = TRUE,
                                !.todo = Of(edit.client), !.reset = TRUE,
                                !.disturbed = disturbed]
            ELSE NoEdit

\* Its transaction: whoever changed in the settings since they were read is
\* changed back.
Reverted == {f \in Attached[edit.inbound] \ {edit.client} :
                (f \in edit.copy) # (f \in db.setOn[edit.inbound])}
CommitInbound ==
    /\ edit.at = "copied"
    /\ db' = Edited(db, edit)
    /\ IF edit.todo = {edit.inbound}
       THEN /\ UpdateEnds(edit.disturbed)
            /\ torn' = (torn \ {edit.client}) \cup Reverted
                       \cup (IF edit.disturbed THEN {edit.client} ELSE {})
       ELSE /\ edit' = [edit EXCEPT !.at = "next", !.todo = @ \ {edit.inbound},
                                    !.inbound = 0, !.copy = {}]
            /\ torn' = torn \cup Reverted
    /\ UNCHANGED <<coreVars, jobVars, lockVars, edits, left, owed>>

\* One of its reads or its transaction fails: Update stops there, and a reset
\* goes on all the same.
EditFails ==
    /\ edit.at \in {"next", "copied"}
    /\ UpdateEnds(TRUE)
    /\ torn' = torn \cup (IF edit.todo = Of(edit.client) THEN {} ELSE {edit.client})
    /\ UNCHANGED <<db, coreVars, jobVars, lockVars, edits, left, owed>>

ZeroRow(i) ==
    /\ edit.at = "zero" /\ i \in edit.todo
    /\ db' = Zeroed(db, {edit.client})
    /\ edit' = IF edit.todo = {i} THEN NoEdit ELSE [edit EXCEPT !.todo = @ \ {i}]
    /\ UNCHANGED <<coreVars, jobVars, lockVars, edits, ghosts>>

\* or fails at one of them
ResetFails ==
    /\ edit.at = "zero"
    /\ edit' = NoEdit
    /\ UNCHANGED <<db, coreVars, jobVars, lockVars, edits, ghosts>>

\* ResetAllClientTraffics: the clients of an inbound, or all
ResetMany(S) ==
    /\ edits < MaxEdits /\ edits' = edits + 1
    /\ db' = Zeroed(db, S)
    /\ UNCHANGED <<coreVars, jobVars, lockVars, edit, ghosts>>

\* ClientService.ResetAllTraffics: counters only
ZeroAll ==
    /\ edits < MaxEdits /\ edits' = edits + 1
    /\ db' = [db EXCEPT !.used = Zero]
    /\ UNCHANGED <<coreVars, jobVars, lockVars, edit, ghosts>>
--------------------------------------------------------------------------------
Next ==
    \/ (\E e \in Busy : Move(e)) \/ \E e \in Clients : Expire(e)
    \/ Fetch \/ ApplyCommits \/ ApplyFails
    \/ \E who \in {"job", "other"} : RestartBegins(who)
    \/ RestartKeepsCore \/ Relaunch \/ CoreDies
    \/ \E e \in Clients, x \in Given :
          ResetBegins(e, x) \/ \E on \in BOOLEAN : EditBegins(e, on, x)
    \/ \E i \in Inbounds : ReadInbound(i) \/ ZeroRow(i)
    \/ CommitInbound \/ EditFails \/ ResetFails
    \/ \E S \in {Attached[i] : i \in Inbounds} \cup {Clients} : ResetMany(S)
    \/ ZeroAll

\* cron fires the job while the core runs, and a transaction that is tried
\* again and again commits at last
Fairness == WF_vars(Fetch) /\ SF_vars(ApplyCommits)

Spec == Init /\ [][Next]_vars /\ Fairness
--------------------------------------------------------------------------------
Db == [used : [Clients -> Nat], expiry : [Clients -> Expiries],
       rowOn : SUBSET Clients, recOn : SUBSET Clients,
       setOn : [Inbounds -> SUBSET Clients]]
WellFormed(d) == d \in Db /\ \A i \in Inbounds : d.setOn[i] \subseteq Attached[i]
Edits == [at : {"idle", "next", "copied", "zero"}, client : Clients \cup {NoClient},
          on : BOOLEAN, expiry : Expiries, todo : SUBSET Inbounds,
          inbound : Inbounds \cup {0}, copy : SUBSET Clients, reset : BOOLEAN,
          disturbed : BOOLEAN]

\* The variables have their types, an edit is of somebody and copies settings
\* of an inbound it is still to write, and settings list attached clients only.
TypeOK ==
    /\ WellFormed(db)
    /\ running \in BOOLEAN /\ counter \in [Clients -> Nat]
    /\ seen \subseteq Clients /\ last \in [Clients -> Nat]
    /\ poll \in {"idle", "apply"} /\ heard \subseteq Clients
    /\ delta \in [Clients -> Nat]
    /\ asked \in BOOLEAN /\ restart \in {"free", "job", "other"}
    /\ edit \in Edits
    /\ edit.at # "idle" => edit.client \in Clients /\ edit.todo \subseteq Of(edit.client)
    /\ edit.at = "copied" => edit.inbound \in edit.todo
                             /\ edit.copy \subseteq Attached[edit.inbound]
    /\ edits \in 0..MaxEdits /\ left \in 0..MaxMoved
    /\ owed \in [Clients -> Int] /\ torn \subseteq Clients

\* No byte is added to a row twice: what has been added never exceeds what was
\* moved, although a fetch may be applied after a restart, StatsLastValues may
\* outlive the process it is about, and counters start again from zero.
NeverOvercounts == \A e \in Clients : owed[e] >= 0

\* A client is one logical identity (client_inbound_apply.go, #5039): the
\* settings of all its inbounds say what its record says, and an enabled record
\* has an enabled row, except while it is updated, and except for those whom one
\* of the four causes of torn has set apart.  Without it the next SyncInbound of
\* any inbound would change a client nobody edited.
Updating(e) == edit.at \in {"next", "copied"} /\ edit.client = e
Agrees(d, e) ==
    /\ \A i \in Of(e) : e \in d.setOn[i] <=> e \in d.recOn
    /\ e \in d.recOn => e \in d.rowOn
SiblingsAgree == \A e \in Clients \ torn : ~Updating(e) => Agrees(db, e)

\* A traffic reset that reports success lets the client in again, unless it was
\* torn, or disturbed: its update failed (which is only logged), or a poll or a
\* restart renewed or disabled it after the record had been read.
ResetRestores ==
    [][\A i \in Inbounds :
          ZeroRow(i) /\ edit'.at = "idle" /\ ~edit.disturbed /\ edit.client \notin torn
          => edit.client \in db'.rowOn \cap db'.recOn]_vars

\* While the core runs, the clients beyond their quota or expiry are all cut off
\* or renewed again and again, whatever polls fail and whoever edits and resets
\* in between: every poll that commits leaves nobody enabled and depleted.  (That
\* record and settings follow the row is SiblingsAgree.)
DepletedIsCut == running ~> (~running \/ \A e \in db.rowOn : ~Depleted(db, e))
================================================================================
