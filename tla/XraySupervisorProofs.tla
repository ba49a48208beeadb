------------------------- MODULE XraySupervisorProofs -------------------------
(***************************************************************************)
(* Proofs about XraySupervisor for any inbounds, clients, callers and      *)
(* bounds.                                                                 *)
(***************************************************************************)
EXTENDS XraySupervisor, TLAPS

-----------------------------------------------------------------------------
(* Types.                                                                  *)

\* The initial states are typed.
LEMMA TypeInit == Init => TypeOK
  <1> SUFFICES ASSUME Init PROVE TypeOK
    OBVIOUS
  <1>1. edits \in 0..MaxEdits /\ faults \in 0..MaxFaults
    BY ConstantsAssumption DEF Init
  <1>2. live \in Clients
    BY DEF Init, Nobody, Clients
  <1>3. edit \in [Inbounds -> Users \cup {NoUser}] /\ task \in [Callers -> Kinds \cup {"idle"}]
    BY DEF Init
  <1>4. desired \in Config /\ snap \in Config /\ cfg \in Config
    BY DEF Init
  <1>5. /\ holder = NoCaller /\ at = "free" /\ checkTime = 0
        /\ core = "down" /\ missed = {} /\ gone = {} /\ fresh = {}
    BY DEF Init
  <1>6. needRestart \in BOOLEAN /\ manual \in BOOLEAN
    BY DEF Init
  <1> QED  BY <1>1, <1>2, <1>3, <1>4, <1>5, <1>6 DEF TypeOK

\* The steps of a client edit, and their effect on the types.
LEMMA TypeEdit == TypeOK /\ EditStep => TypeOK'
  <1> SUFFICES ASSUME TypeOK, NEW i \in Inbounds,
                      \/ \E u \in Users : CommitClient(i, u)
                      \/ PushClient(i) \/ PushFindsNothing(i) \/ PushFails(i)
               PROVE  TypeOK'
    BY DEF EditStep
  <1> USE ConstantsAssumption DEF TypeOK, Config, Clients, coreVars, flagVars, lockVars,
          NoFault, Fault
  <1>1. ASSUME NEW u \in Users, CommitClient(i, u) PROVE TypeOK'
    <2>1. desired' \in Config
      BY <1>1 DEF CommitClient, Toggled
    <2> QED  BY <1>1, <2>1 DEF CommitClient
  <1>2. AfterPush(i) \in Clients
    <2>1. CASE edit[i] = NoUser
      BY <2>1 DEF AfterPush, Added
    <2> QED  BY DEF AfterPush, Added
  <1>3. CASE PushClient(i)
    BY <1>2, <1>3 DEF PushClient
  <1>4. CASE PushFindsNothing(i)
    BY <1>4 DEF PushFindsNothing
  <1>5. CASE PushFails(i)
    BY <1>2, <1>5 DEF PushFails
  <1> QED  BY <1>1, <1>3, <1>4, <1>5

\* The callers before they lock: only flags, the database and their own task.
LEMMA TypeCaller == TypeOK /\ (\E c \in Callers : CallerStep(c)) => TypeOK'
  <1> SUFFICES ASSUME TypeOK, NEW c \in Callers, CallerStep(c) PROVE TypeOK'
    OBVIOUS
  <1> USE DEF TypeOK, dbVars, coreVars, flagVars, lockVars, NoFault, BecomesCaller, Kinds
  <1>1. CASE WatchdogTick(c)
    BY <1>1 DEF WatchdogTick
  <1>2. CASE FlagJob(c)
    BY <1>2 DEF FlagJob
  <1>3. CASE SaveSettings(c)
    <2>1. desired' \in Config
      BY <1>3 DEF SaveSettings, Config
    <2>2. edits' \in 0..MaxEdits
      BY <1>3, ConstantsAssumption DEF SaveSettings
    <2> QED  BY <1>3, <2>1, <2>2 DEF SaveSettings
  <1>4. CASE SaveEgress(c)
    BY <1>4 DEF SaveEgress
  <1>5. CASE TrafficJob(c)
    BY <1>5 DEF TrafficJob
  <1>6. CASE PanelRestart(c)
    BY <1>6 DEF PanelRestart
  <1> QED  BY <1>1, <1>2, <1>3, <1>4, <1>5, <1>6 DEF CallerStep

\* Whatever Return leaves behind is typed: the lock is free, the caller idle.
LEMMA TypeReturn ==
    ASSUME TypeOK, at # "free", NEW ok, Return(ok), snap' \in Config
    PROVE  /\ holder' = NoCaller /\ at' = "free"
           /\ task' \in [Callers -> Kinds \cup {"idle"}]
           /\ gone' \subseteq Inbounds /\ fresh' \subseteq Inbounds
           /\ checkTime' \in 0..2 /\ cfg' \in Config
           /\ needRestart' \in BOOLEAN /\ manual' \in BOOLEAN
           /\ UNCHANGED dbVars
  <1>1. needRestart' \in BOOLEAN
    BY DEF Return
  <1>2. manual' \in BOOLEAN
    BY DEF Return, TypeOK
  <1> QED  BY <1>1, <1>2 DEF Return, TypeOK

\* The steps inside RestartXray, with what each leaves alone.
LEMMA TypeProceeds == TypeOK /\ Proceeds => TypeOK'
  <1> SUFFICES ASSUME TypeOK, Proceeds PROVE TypeOK'
    OBVIOUS
  <1> USE DEF TypeOK, dbVars, coreVars, flagVars, NoFault, Goes
  <1>1. CASE ReadConfig
    BY <1>1 DEF ReadConfig
  <1>2. CASE NothingToDo
    BY <1>2, TypeReturn DEF NothingToDo
  <1>3. CASE Decide
    <2>1. at' \in {"start", "hot", "stop"} /\ at = "decide"
      BY <1>3 DEF Decide
    <2>2. UNCHANGED <<dbVars, coreVars, flagVars, task, holder, cfg, gone, fresh, faults>>
      BY <1>3 DEF Decide
    <2> QED  BY <2>1, <2>2
  <1>4. CASE HotApplied
    BY <1>4, TypeReturn DEF HotApplied
  <1>5. CASE StopOld
    BY <1>5 DEF StopOld, CoreEnds, Clients, Nobody
  <1>6. CASE StartNew
    <2>1. cfg.clients \in Clients
      BY DEF Config
    <2> QED  BY <1>6, <2>1, TypeReturn DEF StartNew
  <1>7. ASSUME NEW i \in Inbounds, HotRemove(i) PROVE TypeOK'
    BY <1>7 DEF HotRemove, Clients
  <1>8. ASSUME NEW i \in Inbounds, HotAdd(i) PROVE TypeOK'
    <2>1. cfg.clients \in Clients
      BY DEF Config
    <2> QED  BY <1>8, <2>1 DEF HotAdd, Clients
  <1> QED  BY <1>1, <1>2, <1>3, <1>4, <1>5, <1>6, <1>7, <1>8 DEF Proceeds

\* The steps of RestartXray that fail.
LEMMA TypeFails == TypeOK /\ Fails => TypeOK'
  <1> SUFFICES ASSUME TypeOK, Fails PROVE TypeOK'
    OBVIOUS
  <1> USE DEF TypeOK, dbVars, coreVars, flagVars, NoFault, Goes
  <1>1. faults' \in 0..MaxFaults
    <2>1. Fault => faults' \in 0..MaxFaults
      BY ConstantsAssumption DEF Fault
    <2>2. Fault \/ UNCHANGED faults
      BY Zenon DEF Fails, ConfigFails, HotFails, StartFails
    <2> QED  BY <2>1, <2>2
  <1>2. CASE ConfigFails
    BY <1>1, <1>2, TypeReturn DEF ConfigFails
  <1>3. CASE HotFails
    BY <1>1, <1>3 DEF HotFails
  <1>4. CASE StartFails
    BY <1>1, <1>4, TypeReturn DEF StartFails
  <1> QED  BY <1>2, <1>3, <1>4 DEF Fails

\* Taking the lock, StopXray and a crash complete the next-state relation.
LEMMA TypeStep == TypeOK /\ [Next]_vars => TypeOK'
  <1> SUFFICES ASSUME TypeOK, [Next]_vars PROVE TypeOK'
    OBVIOUS
  <1> USE DEF dbVars, coreVars, flagVars, lockVars, NoFault
  <1>1. CASE EditStep
    BY <1>1, TypeEdit
  <1>2. ASSUME NEW c \in Callers, CallerStep(c) PROVE TypeOK'
    BY <1>2, TypeCaller
  <1>3. ASSUME NEW c \in Callers, Acquire(c) PROVE TypeOK'
    BY <1>3, ConstantsAssumption DEF Acquire, TypeOK
  <1>4. CASE Proceeds
    BY <1>4, TypeProceeds
  <1>5. CASE Fails
    BY <1>5, TypeFails
  <1>6. CASE StopXray
    BY <1>6 DEF StopXray, CoreEnds, TypeOK, Clients, Nobody
  <1>7. CASE Crash
    <2>1. faults' \in 0..MaxFaults
      BY <1>7, ConstantsAssumption DEF Crash, Fault, TypeOK
    <2> QED  BY <1>7, <2>1 DEF Crash, CoreEnds, TypeOK, Clients, Nobody
  <1>8. CASE UNCHANGED vars
    BY <1>8 DEF vars, TypeOK
  <1> QED  BY <1>1, <1>2, <1>3, <1>4, <1>5, <1>6, <1>7, <1>8 DEF Next

\* Every variable of the supervisor keeps its type, and no return of
\* RestartXray leaves the lock behind.
THEOREM TypeCorrect == Spec => []TypeOK
  BY TypeInit, TypeStep, PTL DEF Spec

-----------------------------------------------------------------------------
(* The inductive invariant.                                                *)

\* A manual stop stands only while nobody is in RestartXray and the core is down.
Stopped == manual => at = "free" /\ ~Running

\* Inbounds are taken out and put back in a hot apply alone, each at most once,
\* and only changed ones; the core is down when RestartXray is to start it.
Patching ==
    /\ at \in {"free", "config", "decide"} => gone = {} /\ fresh = {}
    /\ at = "hot" => gone \cap fresh = {} /\ gone \cup fresh \subseteq Changed
    /\ at = "start" => ~Running

\* What the core was last given for inbound i.
Given(i) == IF i \in fresh THEN cfg.clients[i] ELSE snap.clients[i]

\* Client by client, the core serves what it was given or what the database
\* has, except for a client whose push is still to come.
Explained(i) ==
    \A u \in Users :
        \/ u = edit[i]
        \/ u \in live[i] <=> u \in desired.clients[i]
        \/ u \in live[i] <=> u \in Given(i)

\* So it is in every inbound that missed no push, unless it is taken out for
\* the moment or the core is to be stopped anyway.
Accounted ==
    \A i \in Inbounds :
        Running /\ at # "stop" /\ i \notin missed /\ i \notin gone => Explained(i)

IInv == TypeOK /\ Stopped /\ Patching /\ Accounted

-----------------------------------------------------------------------------
(* Its three conjuncts beside the types, step by step.                     *)

\* Nobody stops the core inside RestartXray, and taking the lock ends the stop.
LEMMA StoppedStep == TypeOK /\ Stopped /\ [Next]_vars => Stopped'
  <1> SUFFICES ASSUME TypeOK, Stopped, [Next]_vars PROVE Stopped'
    OBVIOUS
  <1> USE DEF TypeOK, Stopped, Running, dbVars, coreVars, flagVars, lockVars
  <1>1. CASE EditStep
    BY <1>1 DEF EditStep, CommitClient, PushClient, PushFindsNothing, PushFails
  <1>2. ASSUME NEW c \in Callers, CallerStep(c) PROVE Stopped'
    BY <1>2 DEF CallerStep, WatchdogTick, FlagJob, SaveSettings, SaveEgress, TrafficJob,
                PanelRestart
  <1>3. ASSUME NEW c \in Callers, Acquire(c) PROVE Stopped'
    BY <1>3 DEF Acquire
  <1>4. CASE Proceeds \/ Fails
    <2>1. at # "free" /\ UNCHANGED manual
      BY <1>4 DEF Proceeds, Fails, ReadConfig, NothingToDo, Decide, HotApplied, StopOld,
                  StartNew, HotRemove, HotAdd, ConfigFails, HotFails, StartFails, Goes, Return
    <2> QED  BY <2>1
  <1>5. CASE StopXray
    BY <1>5 DEF StopXray, CoreEnds
  <1>6. CASE Crash
    BY <1>6 DEF Crash, CoreEnds
  <1>7. CASE UNCHANGED vars
    BY <1>7 DEF vars
  <1> QED  BY <1>1, <1>2, <1>3, <1>4, <1>5, <1>6, <1>7 DEF Next

\* The sets of a hot apply are empty at its beginning and after every return.
LEMMA PatchingStep == TypeOK /\ Patching /\ [Next]_vars => Patching'
  <1> SUFFICES ASSUME TypeOK, Patching, [Next]_vars PROVE Patching'
    OBVIOUS
  <1> USE DEF TypeOK, Patching, Running, Changed, dbVars, coreVars, flagVars, lockVars
  <1>1. CASE EditStep
    BY <1>1 DEF EditStep, CommitClient, PushClient, PushFindsNothing, PushFails
  <1>2. ASSUME NEW c \in Callers, CallerStep(c) PROVE Patching'
    BY <1>2 DEF CallerStep, WatchdogTick, FlagJob, SaveSettings, SaveEgress, TrafficJob,
                PanelRestart
  <1>3. ASSUME NEW c \in Callers, Acquire(c) PROVE Patching'
    BY <1>3 DEF Acquire
  <1>4. CASE NothingToDo \/ HotApplied \/ StartNew \/ ConfigFails \/ StartFails
    BY <1>4 DEF NothingToDo, HotApplied, StartNew, ConfigFails, StartFails, Return
  <1>5. CASE ReadConfig
    BY <1>5 DEF ReadConfig, Goes
  <1>6. CASE Decide
    BY <1>6 DEF Decide, Goes
  <1>7. CASE StopOld \/ HotFails
    BY <1>7 DEF StopOld, HotFails, Goes, CoreEnds
  <1>8. ASSUME NEW i \in Inbounds, HotRemove(i) \/ HotAdd(i) PROVE Patching'
    BY <1>8 DEF HotRemove, HotAdd, Goes
  <1>9. CASE StopXray \/ Crash
    BY <1>9 DEF StopXray, Crash, CoreEnds
  <1>10. CASE UNCHANGED vars
    BY <1>10 DEF vars
  <1> QED  BY <1>1, <1>2, <1>3, <1>4, <1>5, <1>6, <1>7, <1>8, <1>9, <1>10
           DEF Next, Proceeds, Fails

\* A step that leaves alone what the core serves and was given.
LEMMA AccountedElsewhere ==
    ASSUME Accounted,
           UNCHANGED <<core, live, missed, snap, edit, cfg, gone, fresh>>,
           desired'.clients = desired.clients,
           at' # "stop" => at # "stop"
    PROVE  Accounted'
  BY DEF Accounted, Explained, Given, Running

\* Commits and pushes: the client that changes in the database is the one whose
\* push is to come, and the push makes the core agree with the database.
LEMMA AccountedEdit == TypeOK /\ Patching /\ Accounted /\ EditStep => Accounted'
  <1> SUFFICES ASSUME TypeOK, Patching, Accounted,
                      NEW i \in Inbounds,
                      \/ \E u \in Users : CommitClient(i, u)
                      \/ PushClient(i) \/ PushFindsNothing(i) \/ PushFails(i),
                      NEW j \in Inbounds,
                      (Running /\ at # "stop" /\ j \notin missed /\ j \notin gone)'
               PROVE  Explained(j)'
    BY DEF EditStep, Accounted
  <1> USE DEF TypeOK, coreVars, lockVars, flagVars
  <1>1. UNCHANGED <<core, snap, at, cfg, gone, fresh>> /\ missed \subseteq missed'
    BY DEF CommitClient, PushClient, PushFindsNothing, PushFails
  <1>2. Explained(j) /\ Running /\ at # "stop" /\ j \notin missed /\ j \notin gone
    BY <1>1 DEF Accounted, Running
  <1>3. Given(j)' = Given(j)
    BY <1>1 DEF Given
  <1>4. ASSUME NEW u \in Users, CommitClient(i, u) PROVE Explained(j)'
    <2>1. live' = live /\ edit' = [edit EXCEPT ![i] = u] /\ edit[i] = NoUser
      BY <1>4 DEF CommitClient
    <2>2. desired'.clients = Toggled(i, u)
      BY <1>4 DEF CommitClient, Config
    <2>3. ASSUME NEW w \in Users, w # u \/ j # i
          PROVE  w \in desired'.clients[j] <=> w \in desired.clients[j]
      BY <2>2, <2>3 DEF Toggled, Config, Clients
    <2> QED  BY <1>2, <1>3, <2>1, <2>3, ConstantsAssumption DEF Explained
  <1>5. CASE PushClient(i)
    <2>1. desired' = desired /\ live' = AfterPush(i) /\ edit' = [edit EXCEPT ![i] = NoUser]
      BY <1>5 DEF PushClient
    <2>2. edit[i] \in Users
      BY <1>5 DEF PushClient
    <2>3. edit[i] \in live'[i] <=> edit[i] \in desired.clients[i]
      BY <2>1 DEF AfterPush, Added, Clients
    <2>4. ASSUME NEW w \in Users, w # edit[i] \/ j # i
          PROVE  w \in live'[j] <=> w \in live[j]
      BY <2>1, <2>4 DEF AfterPush, Clients
    <2> QED  BY <1>2, <1>3, <2>1, <2>2, <2>3, <2>4 DEF Explained
  <1>6. CASE PushFindsNothing(i)
    <2>1. j # i
      BY <1>2, <1>6 DEF PushFindsNothing, InCore
    <2> QED  BY <1>2, <1>3, <1>6, <2>1 DEF PushFindsNothing, Explained
  <1>7. CASE PushFails(i)
    <2>1. j # i
      BY <1>1, <1>7 DEF PushFails
    <2>2. live'[j] = live[j] /\ edit'[j] = edit[j] /\ desired' = desired
      BY <1>7, <2>1 DEF PushFails, AfterPush, Clients
    <2> QED  BY <1>2, <1>3, <2>2 DEF Explained
  <1> QED  BY <1>4, <1>5, <1>6, <1>7

\* Inside RestartXray: a start and an inbound put back give the core exactly
\* what the configuration says; a finished hot apply has put back all it changed.
LEMMA AccountedRestart ==
    TypeOK /\ Patching /\ Accounted /\ (Proceeds \/ Fails) => Accounted'
  <1> SUFFICES ASSUME TypeOK, Patching, Accounted, Proceeds \/ Fails PROVE Accounted'
    OBVIOUS
  <1> USE DEF TypeOK, dbVars, coreVars, flagVars
  <1>1. CASE ReadConfig
    BY <1>1 DEF ReadConfig, Goes, Patching, Accounted, Explained, Given, Running
  <1>2. CASE NothingToDo \/ ConfigFails
    BY <1>2 DEF NothingToDo, ConfigFails, Return, Patching, Accounted, Explained, Given, Running
  <1>3. CASE Decide
    BY <1>3 DEF Decide, Goes, Accounted, Explained, Given, Running
  <1>4. CASE HotApplied
    <2>1. /\ at = "hot" /\ Changed = fresh /\ gone = {} /\ snap' = cfg /\ fresh' = {}
          /\ UNCHANGED <<core, live, missed, desired, edit>>
      BY <1>4 DEF HotApplied, Return, Patching
    <2>2. ASSUME NEW i \in Inbounds PROVE Given(i)' = Given(i)
      BY <2>1 DEF Given, Changed
    <2> QED  BY <2>1, <2>2 DEF Accounted, Explained, Running
  <1>5. CASE StopOld
    BY <1>5 DEF StopOld, CoreEnds, Accounted, Running
  <1>6. CASE StartNew
    BY <1>6 DEF StartNew, Return, Accounted, Explained, Given
  <1>7. CASE StartFails
    BY <1>7 DEF StartFails, Patching, Accounted, Running
  <1>8. CASE HotFails
    BY <1>8 DEF HotFails, Goes, Accounted
  <1>9. ASSUME NEW i \in Inbounds, HotRemove(i) PROVE Accounted'
    BY <1>9 DEF HotRemove, Goes, Accounted, Explained, Given, Running, Clients
  <1>10. ASSUME NEW i \in Inbounds, HotAdd(i) PROVE Accounted'
    BY <1>10 DEF HotAdd, Goes, Accounted, Explained, Given, Running, Clients
  <1> QED  BY <1>1, <1>2, <1>3, <1>4, <1>5, <1>6, <1>7, <1>8, <1>9, <1>10
           DEF Proceeds, Fails

\* The callers change at most the base; a core that ends serves nobody.
LEMMA AccountedStep == TypeOK /\ Patching /\ Accounted /\ [Next]_vars => Accounted'
  <1> SUFFICES ASSUME TypeOK, Patching, Accounted, [Next]_vars PROVE Accounted'
    OBVIOUS
  <1> USE DEF dbVars, coreVars, flagVars, lockVars
  <1>1. CASE EditStep
    BY <1>1, AccountedEdit
  <1>2. ASSUME NEW c \in Callers, CallerStep(c) PROVE Accounted'
    <2>1. CASE SaveSettings(c)
      <3>1. desired'.clients = desired.clients
        BY <2>1 DEF SaveSettings, TypeOK, Config
      <3> QED  BY <2>1, <3>1, AccountedElsewhere DEF SaveSettings
    <2>2. CASE WatchdogTick(c) \/ FlagJob(c) \/ SaveEgress(c) \/ TrafficJob(c) \/ PanelRestart(c)
      BY <2>2, AccountedElsewhere
         DEF WatchdogTick, FlagJob, SaveEgress, TrafficJob, PanelRestart
    <2> QED  BY <1>2, <2>1, <2>2 DEF CallerStep
  <1>3. ASSUME NEW c \in Callers, Acquire(c) PROVE Accounted'
    <2>1. at # "stop"
      BY <1>3 DEF Acquire, TypeOK
    <2> QED  BY <1>3, <2>1, AccountedElsewhere DEF Acquire
  <1>4. CASE Proceeds \/ Fails
    BY <1>4, AccountedRestart
  <1>5. CASE StopXray \/ Crash
    BY <1>5 DEF StopXray, Crash, CoreEnds, Accounted, Running
  <1>6. CASE UNCHANGED vars
    BY <1>6, AccountedElsewhere DEF vars
  <1> QED  BY <1>1, <1>2, <1>3, <1>4, <1>5, <1>6 DEF Next

-----------------------------------------------------------------------------
(* The theorems.                                                           *)

\* The inductive invariant holds in every reachable state.
THEOREM Invariance == Spec => []IInv
  <1>1. Init => IInv
    BY TypeInit DEF IInv, Init, Stopped, Patching, Accounted, Running
  <1>2. IInv /\ [Next]_vars => IInv'
    BY TypeStep, StoppedStep, PatchingStep, AccountedStep DEF IInv
  <1> QED  BY <1>1, <1>2, PTL DEF Spec

\* With nobody inside RestartXray, a core stopped from the panel is down.
THEOREM StoppedIsDown == Spec => []ManualMeansDown
  <1>1. IInv => ManualMeansDown
    BY DEF IInv, Stopped, ManualMeansDown
  <1> QED  BY <1>1, Invariance, PTL

\* Drift that a comparison with the snapshot cannot show comes from a failed push.
THEOREM DriftIsMissed == Spec => []HiddenDriftIsMissed
  <1>1. IInv => HiddenDriftIsMissed
    <2> SUFFICES ASSUME IInv, NEW i \in Inbounds,
                        Running, at \notin {"hot", "stop"}, edit[i] = NoUser,
                        snap.clients[i] = desired.clients[i], i \notin missed
                 PROVE  live[i] = desired.clients[i]
      BY DEF HiddenDriftIsMissed
    <2>1. gone = {} /\ fresh = {}
      BY DEF IInv, Patching, TypeOK
    <2>2. Explained(i) /\ Given(i) = snap.clients[i]
      BY <2>1 DEF IInv, Accounted, Given
    <2>3. live[i] \subseteq Users /\ desired.clients[i] \subseteq Users
      BY DEF IInv, TypeOK, Config, Clients
    <2> QED  BY <2>2, <2>3, ConstantsAssumption DEF Explained
  <1> QED  BY <1>1, Invariance, PTL

\* A hot apply that succeeds leaves every inbound that missed no push and was
\* not edited meanwhile as the database has it.
THEOREM HotApplyRepairs == Spec => []HotApplyConverges
  <1>1. IInv => HotApplyConverges
    <2> SUFFICES ASSUME IInv, HotApplyDone, NEW i \in Inbounds, i \notin missed,
                        edit[i] = NoUser, cfg.clients[i] = desired.clients[i]
                 PROVE  live[i] = cfg.clients[i]
      BY DEF HotApplyConverges, Matches
    <2>1. at = "hot" /\ Running /\ Changed = fresh /\ gone = {}
      BY DEF HotApplyDone, IInv, Patching
    <2>2. Explained(i) /\ Given(i) = cfg.clients[i]
      BY <2>1 DEF IInv, Accounted, Given, Changed
    <2>3. live[i] \subseteq Users /\ desired.clients[i] \subseteq Users
      BY DEF IInv, TypeOK, Config, Clients
    <2> QED  BY <2>2, <2>3, ConstantsAssumption DEF Explained
  <1> QED  BY <1>1, Invariance, PTL

=============================================================================
