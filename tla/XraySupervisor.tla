---------------------------- MODULE XraySupervisor ----------------------------
(***************************************************************************)
(* Who keeps the Xray core running what the database says                  *)
(* (internal/web/service/xray.go with its callers).  A client edit commits *)
(* to the database and is then pushed to the running core through its API; *)
(* RestartXray, under one lock, compares the configuration generated from  *)
(* the database with the SNAPSHOT the core was last given (p.config), and  *)
(* does nothing, patches the core through the API, or restarts it.  It is  *)
(* called by a watchdog, by the job that polls the need-restart flag, by   *)
(* the traffic job, and by the panel.                                      *)
(*                                                                         *)
(* A configuration is the enabled clients of every inbound, and the base:  *)
(* the sections that have no reload API.  A Stop ends the core (SIGTERM,   *)
(* then SIGKILL): its own timeouts are not modelled.                       *)
(***************************************************************************)
EXTENDS Naturals

CONSTANTS
    Inbounds,
    Users,
    Bases,          \* contents of the sections that have no reload API
    Callers,        \* goroutines that may be inside RestartXray or on the way
    MaxEdits,       \* bound on the changes of the database
    MaxFaults,      \* bound on crashes and failing calls
    NoUser, NoCaller

ASSUME ConstantsAssumption ==
    /\ NoUser \notin Users
    /\ NoCaller \notin Callers
    /\ MaxEdits \in Nat /\ MaxFaults \in Nat

VARIABLES
    desired,        \* the configuration GetXrayConfig generates from the database
    edit,           \* edit[i]: the client whose committed edit is to be pushed
    edits, faults,  \* how many so far
    core,           \* the process of p
    live,           \* live[i]: the clients the running core serves
    missed,         \* inbounds with a failed push since the core took them in
    snap,           \* p.config
    needRestart,    \* isNeedXrayRestart
    manual,         \* isManuallyStopped
    checkTime,      \* of CheckXrayRunningJob; 2 stands for more as well
    task,           \* task[c]: on whose behalf c is to call RestartXray
    holder,         \* who holds lock
    at,             \* where the holder stands in RestartXray
    cfg,            \* the configuration it has read (snap while the lock is free)
    gone, fresh     \* inbounds its hot apply has removed, and added back

dbVars   == <<desired, edit, edits>>
coreVars == <<core, live, missed, snap>>
flagVars == <<needRestart, manual, checkTime>>
lockVars == <<task, holder, at, cfg, gone, fresh>>
vars == <<dbVars, coreVars, flagVars, lockVars, faults>>

Clients == [Inbounds -> SUBSET Users]
Config  == [clients : Clients, base : Bases]
Nobody  == [i \in Inbounds |-> {}]

Kinds  == {"watchdog", "flagjob", "settings", "egress", "traffic", "panel"}
Forced == {"traffic", "panel"}

Fault   == faults < MaxFaults /\ faults' = faults + 1
NoFault == UNCHANGED faults

Running == core = "up"

Init ==
    /\ desired \in Config
    /\ edit = [i \in Inbounds |-> NoUser]
    /\ edits = 0 /\ faults = 0
    /\ core = "down" /\ live = Nobody /\ missed = {}
    /\ snap = desired
    /\ needRestart = FALSE /\ manual = FALSE /\ checkTime = 0
    /\ task = [c \in Callers |-> "idle"]
    /\ holder = NoCaller /\ at = "free" /\ cfg = desired
    /\ gone = {} /\ fresh = {}

-----------------------------------------------------------------------------
(* Client edits: under the lock of its inbound, a commit, then a push.     *)

Toggled(i, u) ==
    [desired.clients EXCEPT ![i] = IF u \in @ THEN @ \ {u} ELSE @ \cup {u}]

\* Adding or deleting client u commits.
CommitClient(i, u) ==
    /\ edit[i] = NoUser /\ edits < MaxEdits
    /\ desired' = [desired EXCEPT !.clients = Toggled(i, u)]
    /\ edit' = [edit EXCEPT ![i] = u]
    /\ edits' = edits + 1
    /\ UNCHANGED <<coreVars, flagVars, lockVars, faults>>

InCore(i)  == Running /\ i \notin gone
Added(i)   == edit[i] \in desired.clients[i]
AfterPush(i) == [live EXCEPT ![i] =
                    IF Added(i) THEN @ \cup {edit[i]} ELSE @ \ {edit[i]}]

\* The core answers.  Adding a client it has is an error, which requests a
\* restart; "User not found" on a removal is ignored.
PushClient(i) ==
    /\ edit[i] # NoUser /\ InCore(i)
    /\ live' = AfterPush(i)
    /\ needRestart' = (needRestart \/ (Added(i) /\ edit[i] \in live[i]))
    /\ edit' = [edit EXCEPT ![i] = NoUser]
    /\ NoFault
    /\ UNCHANGED <<desired, edits, core, missed, snap, manual, checkTime, lockVars>>

\* There is no core, or no such inbound in it for the moment.
PushFindsNothing(i) ==
    /\ edit[i] # NoUser /\ ~InCore(i)
    /\ needRestart' = TRUE
    /\ edit' = [edit EXCEPT ![i] = NoUser]
    /\ NoFault
    /\ UNCHANGED <<desired, edits, coreVars, manual, checkTime, lockVars>>

\* The call fails, before or after the core has acted on it.
PushFails(i) ==
    /\ edit[i] # NoUser /\ InCore(i)
    /\ live' \in {live, AfterPush(i)}
    /\ missed' = missed \cup {i}
    /\ needRestart' = TRUE
    /\ edit' = [edit EXCEPT ![i] = NoUser]
    /\ Fault
    /\ UNCHANGED <<desired, edits, core, snap, manual, checkTime, lockVars>>

-----------------------------------------------------------------------------
(* Who calls RestartXray and StopXray, and what they read before they lock. *)

BecomesCaller(c, kind) == task' = [task EXCEPT ![c] = kind]

DidXrayCrash == ~Running /\ ~manual

\* Mutant: the counter starts over at every run.
ForgetsTick(c) ==
    /\ task[c] = "idle"
    /\ checkTime' = IF DidXrayCrash THEN 1 ELSE 0
    /\ NoFault
    /\ UNCHANGED <<dbVars, coreVars, needRestart, manual, lockVars>>

\* CheckXrayRunningJob.Run, every second: down twice in a row.
WatchdogTick(c) ==
    /\ task[c] = "idle"
    /\ IF DidXrayCrash
       THEN /\ checkTime' = IF checkTime = 0 THEN 1 ELSE 2
            /\ IF checkTime' > 1 THEN BecomesCaller(c, "watchdog") ELSE UNCHANGED task
       ELSE /\ checkTime' = 0
            /\ UNCHANGED task
    /\ NoFault
    /\ UNCHANGED <<dbVars, coreVars, needRestart, manual, holder, at, cfg, gone, fresh>>

\* The 30 second job: the flag is taken down before the restart is tried.
FlagJob(c) ==
    /\ task[c] = "idle" /\ needRestart
    /\ needRestart' = FALSE
    /\ BecomesCaller(c, "flagjob")
    /\ NoFault
    /\ UNCHANGED <<dbVars, coreVars, manual, checkTime, holder, at, cfg, gone, fresh>>

\* Saving the template: the core is reconciled if it is running just now.
SaveSettings(c) ==
    /\ task[c] = "idle" /\ edits < MaxEdits
    /\ \E b \in Bases \ {desired.base} : desired' = [desired EXCEPT !.base = b]
    /\ edits' = edits + 1
    /\ IF Running THEN BecomesCaller(c, "settings") ELSE UNCHANGED task
    /\ NoFault
    /\ UNCHANGED <<edit, coreVars, flagVars, holder, at, cfg, gone, fresh>>

\* Saving the egress of the panel or of a node (an inbound and a routing rule
\* next to those modelled): the core is reconciled, running or not.
SaveEgress(c) ==
    /\ task[c] = "idle"
    /\ BecomesCaller(c, "egress")
    /\ NoFault
    /\ UNCHANGED <<dbVars, coreVars, flagVars, holder, at, cfg, gone, fresh>>

\* XrayTrafficJob.Run finds that clients were disabled.
TrafficJob(c) ==
    /\ task[c] = "idle" /\ Running
    /\ BecomesCaller(c, "traffic")
    /\ NoFault
    /\ UNCHANGED <<dbVars, coreVars, flagVars, holder, at, cfg, gone, fresh>>

\* The panel's restart button, the Telegram bot, the start of the panel.
PanelRestart(c) ==
    /\ task[c] = "idle"
    /\ BecomesCaller(c, "panel")
    /\ NoFault
    /\ UNCHANGED <<dbVars, coreVars, flagVars, holder, at, cfg, gone, fresh>>

\* What is left of the core when its process ends.
CoreEnds == core' = "down" /\ live' = Nobody /\ missed' = {} /\ UNCHANGED snap

StopXray ==
    /\ holder = NoCaller
    /\ manual' = TRUE
    /\ CoreEnds
    /\ NoFault
    /\ UNCHANGED <<dbVars, needRestart, checkTime, lockVars>>

Crash ==
    /\ Running
    /\ CoreEnds
    /\ Fault
    /\ UNCHANGED <<dbVars, flagVars, lockVars>>

-----------------------------------------------------------------------------
(* RestartXray, between lock.Lock() and lock.Unlock().                     *)

\* Mutant: the flag of the manual stop is left standing.
LocksOnly(c) ==
    /\ task[c] # "idle" /\ holder = NoCaller
    /\ holder' = c /\ at' = "config"
    /\ NoFault
    /\ UNCHANGED <<dbVars, coreVars, flagVars, task, cfg, gone, fresh>>

Acquire(c) ==
    /\ task[c] # "idle" /\ holder = NoCaller
    /\ holder' = c /\ at' = "config"
    /\ manual' = FALSE
    /\ NoFault
    /\ UNCHANGED <<dbVars, coreVars, needRestart, checkTime, task, cfg, gone, fresh>>

\* What the return of RestartXray leaves behind, in its caller too.
Return(ok) ==
    /\ holder' = NoCaller /\ at' = "free"
    /\ task' = [task EXCEPT ![holder] = "idle"]
    /\ gone' = {} /\ fresh' = {}
    /\ checkTime' = IF task[holder] = "watchdog" THEN 0 ELSE checkTime
    /\ needRestart' = (needRestart \/ (task[holder] = "traffic" /\ ~ok))
    /\ cfg' = snap'
    /\ UNCHANGED <<manual, dbVars>>

Goes(from, to) ==
    /\ at = from /\ at' = to
    /\ UNCHANGED <<dbVars, flagVars, task, holder>>

ReadConfig ==
    /\ Goes("config", "decide")
    /\ cfg' = desired
    /\ NoFault
    /\ UNCHANGED <<coreVars, gone, fresh>>

\* Mutant: an early return without the unlock.
ErrorKeepsLock ==
    /\ at = "config" /\ at' = "free"
    /\ Fault
    /\ UNCHANGED <<dbVars, coreVars, flagVars, task, holder, cfg, gone, fresh>>

ConfigFails ==
    /\ at = "config"
    /\ UNCHANGED coreVars
    /\ Return(FALSE)
    /\ Fault

IsForce == task[holder] \in Forced

NothingToDo ==
    /\ at = "decide" /\ Running
    /\ ~IsForce /\ cfg = snap /\ ~needRestart
    /\ UNCHANGED coreVars
    /\ Return(TRUE)
    /\ NoFault

HotApplicable == ~IsForce /\ cfg # snap /\ cfg.base = snap.base

Decide ==
    /\ at = "decide"
    /\ Running => IsForce \/ cfg # snap \/ needRestart
    /\ Goes("decide", IF ~Running THEN "start"
                      ELSE IF HotApplicable THEN "hot" ELSE "stop")
    /\ NoFault
    /\ UNCHANGED <<coreVars, cfg, gone, fresh>>

\* ComputeHotDiff.  Mutant: only lost clients make an inbound a changed one.
Lessened == {i \in Inbounds : snap.clients[i] \ cfg.clients[i] # {}}
Changed == {i \in Inbounds : snap.clients[i] # cfg.clients[i]}

\* tryHotApply removes every changed inbound, then adds them back.
HotRemove(i) ==
    /\ Running /\ i \in Changed \ (gone \cup fresh)
    /\ Goes("hot", "hot")
    /\ gone' = gone \cup {i}
    /\ live' = [live EXCEPT ![i] = {}]
    /\ NoFault
    /\ UNCHANGED <<core, missed, snap, cfg, fresh>>

HotAdd(i) ==
    /\ Running /\ i \in gone /\ Changed = gone \cup fresh
    /\ Goes("hot", "hot")
    /\ gone' = gone \ {i}
    /\ fresh' = fresh \cup {i}
    /\ live' = [live EXCEPT ![i] = cfg.clients[i]]
    /\ missed' = missed \ {i}
    /\ NoFault
    /\ UNCHANGED <<core, snap, cfg>>

\* p.SetConfig(newCfg); return true.
HotApplied ==
    /\ at = "hot" /\ Changed = fresh
    /\ snap' = cfg
    /\ Return(TRUE)
    /\ NoFault
    /\ UNCHANGED <<core, live, missed>>

\* Mutant: a failed hot apply is reported as a success.
ForgivesFailure ==
    /\ at = "hot" /\ Changed # fresh
    /\ snap' = cfg
    /\ Return(TRUE)
    /\ IF Running THEN Fault ELSE NoFault
    /\ UNCHANGED <<core, live, missed>>

\* A call of the hot apply fails: fall back to a restart.
HotFails ==
    /\ Changed # fresh
    /\ Goes("hot", "stop")
    /\ IF Running THEN Fault ELSE NoFault
    /\ UNCHANGED <<coreVars, cfg, gone, fresh>>

StopOld ==
    /\ Goes("stop", "start")
    /\ CoreEnds
    /\ NoFault
    /\ UNCHANGED <<cfg, gone, fresh>>

\* p = xray.NewProcess(cfg); p.Start().
StartNew ==
    /\ at = "start"
    /\ core' = "up" /\ live' = cfg.clients /\ missed' = {} /\ snap' = cfg
    /\ Return(TRUE)
    /\ NoFault

StartFails ==
    /\ at = "start"
    /\ snap' = cfg
    /\ Return(FALSE)
    /\ Fault
    /\ UNCHANGED <<core, live, missed>>

-----------------------------------------------------------------------------
EditStep ==
    \E i \in Inbounds :
        \/ \E u \in Users : CommitClient(i, u)
        \/ PushClient(i) \/ PushFindsNothing(i) \/ PushFails(i)

CallerStep(c) ==
    \/ WatchdogTick(c) \/ FlagJob(c) \/ SaveSettings(c)
    \/ SaveEgress(c) \/ TrafficJob(c) \/ PanelRestart(c)

\* The steps of RestartXray that succeed, and those that fail.
Proceeds ==
    \/ ReadConfig \/ NothingToDo \/ Decide \/ HotApplied \/ StopOld \/ StartNew
    \/ \E i \in Inbounds : HotRemove(i) \/ HotAdd(i)
Fails == ConfigFails \/ HotFails \/ StartFails

Next ==
    \/ EditStep
    \/ \E c \in Callers : CallerStep(c) \/ Acquire(c)
    \/ Proceeds \/ Fails
    \/ StopXray \/ Crash

Spec == Init /\ [][Next]_vars

(* The cron fires the watchdog, the lock is handed over, and RestartXray   *)
(* runs on: every wait in it has a timeout.  Nobody has to edit anything.  *)
FairSpec ==
    /\ Spec
    /\ WF_vars(\E c \in Callers : WatchdogTick(c))
    /\ \A c \in Callers : WF_vars(Acquire(c))
    /\ WF_vars(Proceeds \/ HotFails)

-----------------------------------------------------------------------------
(* Properties.                                                             *)

\* Every variable keeps its type, and whoever is inside RestartXray holds the
\* lock: none of its returns leaves it locked.
TypeOK ==
    /\ desired \in Config /\ snap \in Config /\ cfg \in Config
    /\ edit \in [Inbounds -> Users \cup {NoUser}]
    /\ edits \in 0..MaxEdits /\ faults \in 0..MaxFaults
    /\ core \in {"up", "down"}
    /\ live \in Clients
    /\ missed \subseteq Inbounds
    /\ needRestart \in BOOLEAN /\ manual \in BOOLEAN /\ checkTime \in 0..2
    /\ task \in [Callers -> Kinds \cup {"idle"}]
    /\ holder \in Callers \cup {NoCaller}
    /\ at \in {"free", "config", "decide", "hot", "stop", "start"}
    /\ at = "free" <=> holder = NoCaller
    /\ holder # NoCaller => task[holder] # "idle"
    /\ gone \subseteq Inbounds /\ fresh \subseteq Inbounds

\* Drift a reconciliation cannot see (the core serves other clients than the
\* database has, though the snapshot agrees with the database) comes from a
\* failed push alone: not from the order of commits, pushes, crashes, hot
\* applies and restarts.  A core that is being patched, or was and is to be
\* stopped for it, is on its way to another snapshot.
HiddenDriftIsMissed ==
    \A i \in Inbounds :
        (Running /\ at \notin {"hot", "stop"} /\ edit[i] = NoUser
                 /\ snap.clients[i] = desired.clients[i])
        => (live[i] = desired.clients[i] \/ i \in missed)

\* The moment tryHotApply returns true.
HotApplyDone == at = "hot" /\ Running /\ Changed = fresh
Matches(i) ==
    edit[i] = NoUser /\ cfg.clients[i] = desired.clients[i] => live[i] = cfg.clients[i]

\* A hot apply that succeeds leaves the core serving what the database has in
\* every inbound that was not edited meanwhile and missed no push.
HotApplyConverges ==
    HotApplyDone => \A i \in Inbounds : Matches(i) \/ i \in missed

\* tryHotApply "returns true when the running instance now matches newCfg".
HotApplyMatches == HotApplyDone => \A i \in Inbounds : Matches(i)

\* While nobody is in RestartXray, a core stopped from the panel is down,
\* whatever restarts, crashes and ticks of the watchdog overlapped the stop.
ManualMeansDown == manual /\ holder = NoCaller => ~Running

\* updateSetting: "only reconcile a running core; a manually stopped xray stays
\* stopped": its call of RestartXray never undoes a manual stop.
StaysStopped ==
    [][manual /\ ~manual' => task[holder'] # "settings"]_vars

\* A core that is down and was not stopped from the panel is started again,
\* whatever fails on the way.
WatchdogRepairs == DidXrayCrash ~> (Running \/ manual)

=============================================================================
