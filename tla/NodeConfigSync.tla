--------------------------- MODULE NodeConfigSync ---------------------------
(***************************************************************************)
(* The panel and one of its nodes.  A node is another panel with its own   *)
(* database; the central panel keeps a copy of the node's inbounds, sends  *)
(* every edit to the node's API while it handles the request (push), and   *)
(* marks the node's row dirty when that was not possible.  Every five      *)
(* seconds NodeTrafficSyncJob reconciles a dirty node (the panel's rows    *)
(* win) and then merges a snapshot of the node (the node's rows win, unless *)
(* the node is dirty).  Two copies, two directions and one flag that says  *)
(* which of them is right.                                                 *)
(*                                                                         *)
(* An inbound is its tag, an opaque version of everything else that goes   *)
(* over the wire, and its enable switch.  The node is modelled by what its *)
(* API does (internal/web/controller/inbound.go over the same service).    *)
(* A tag is for life: a tag the panel made up from the port changes with   *)
(* the port in UpdateInbound (resolveInboundTag of inbound.go), where      *)
(* Remote.UpdateInbound then forgets the id of the old tag; not so here.   *)
(***************************************************************************)
EXTENDS Naturals

CONSTANTS
    Tag,        \* inbounds, by the tag both panels know them under
    Version,    \* contents an inbound may be given
    Editor,     \* concurrent requests to the panel
    Gone,       \* the value of an inbound that does not exist
    MaxEdits,   \* bound on edits made at the central panel
    MaxFaults,  \* bound on requests to the node that are lost or answered late
    MaxUpsets,  \* bound on crashes, node-side edits and failed heartbeats
    MaxClock    \* bound on the millisecond clock

Inbound == [version : Version, enable : BOOLEAN]

ASSUME ConstantsAssumption ==
    /\ Gone \notin Inbound
    /\ {MaxEdits, MaxFaults, MaxUpsets, MaxClock} \subseteq Nat

VARIABLES
    central,    \* central[t]: the panel's row of inbound t of this node
    status,     \* the node's row: status, as the last heartbeat left it
    mode,       \* the node's row: inbound_sync_mode
    tags,       \* the node's row: inbound_tags
    dirty,      \* the node's row: config_dirty
    dirtyAt,    \* the node's row: config_dirty_at, in milliseconds
    ids,        \* Remote.remoteIDByTag: the tags the panel has an id for
    pushedFP,   \* Remote.pushedFP: what the reconcile last pushed itself
    node,       \* node[t]: the node's own row
    step,       \* where syncOne stands
    nTags,      \* the tags of the row the tick loaded
    nDirtyAt,   \* the stamp of the row the tick loaded
    inbounds,   \* ReconcileNode: the panel's rows it read
    remoteTags, \* ReconcileNode: the node's tags it was told
    left,       \* ReconcileNode: tags still to push or to delete
    snap,       \* the snapshot the tick fetched
    sawDirty,   \* the flag the tick read for the merge
    phase,      \* phase[e]: where request e stands
    edit,       \* edit[e]: what request e asks, and how its push went
    clock,      \* milliseconds
    edits, faults, upsets,
    alone,      \* alone[e]: no tick was under way while request e ran
    calm,       \* calm[e]: nobody else touched its inbound while it ran
    held,       \* held[t]: the last edit of t is one the sync must not undo
    wish        \* wish[t]: what that edit asked for

rowVars    == <<status, mode, tags, dirty, dirtyAt>>
remoteVars == <<ids, pushedFP, node>>
jobVars    == <<step, nTags, nDirtyAt, inbounds, remoteTags, left, snap, sawDirty>>
editVars   == <<phase, edit>>
auxVars    == <<alone, calm, held, wish>>
bounds     == <<clock, edits, faults, upsets>>
vars == <<central, rowVars, remoteVars, jobVars, editVars, bounds, auxVars>>

AllGone == [t \in Tag |-> Gone]
NoEdit  == [kind |-> "none"]

Kinds == {"add", "update", "enable", "delete"}
Edits == [kind : Kinds, tag : Tag, to : Inbound \cup {Gone},
          failed : BOOLEAN, blind : BOOLEAN]

Present == {t \in Tag : node[t] # Gone}

\* The steps of syncOne in which ReconcileNode and ClearNodeDirty run.
Reconciling == step \in {"read", "list", "push", "sweep"}

\* In "selected" mode the panel answers for the tags it lists only.
Covers(S, t)  == mode = "all" \/ t \in S
Managed(t)    == Covers(tags, t)

TypeOK ==
    /\ central \in [Tag -> Inbound \cup {Gone}]
    /\ status \in {"unknown", "online", "offline"}
    /\ mode \in {"all", "selected"}
    /\ tags \in SUBSET Tag
    /\ dirty \in BOOLEAN
    /\ dirtyAt \in 0..MaxClock
    /\ ids \in SUBSET Tag
    /\ pushedFP \in [Tag -> Inbound \cup {Gone}]
    /\ node \in [Tag -> Inbound \cup {Gone}]
    /\ step \in {"idle", "read", "list", "push", "sweep", "fetch",
                 "check", "merge"}
    /\ nTags \in SUBSET Tag
    /\ nDirtyAt \in 0..MaxClock
    /\ inbounds \in [Tag -> Inbound \cup {Gone}]
    /\ remoteTags \in SUBSET Tag
    /\ left \in SUBSET Tag
    /\ snap \in [Tag -> Inbound \cup {Gone}]
    /\ sawDirty \in BOOLEAN
    /\ phase \in [Editor -> {"idle", "push", "commit", "return"}]
    /\ edit \in [Editor -> Edits \cup {NoEdit}]
    /\ \A e \in Editor : phase[e] = "idle" \/ edit[e] \in Edits
    /\ clock \in 0..MaxClock
    /\ edits \in 0..MaxEdits
    /\ faults \in 0..MaxFaults
    /\ upsets \in 0..MaxUpsets
    /\ alone \in [Editor -> BOOLEAN]
    /\ calm \in [Editor -> BOOLEAN]
    /\ held \in [Tag -> BOOLEAN]
    /\ wish \in [Tag -> Inbound \cup {Gone}]

\* A node that was just added, in "selected" mode with the tags its operator
\* ticked: the first heartbeat and the first sync are still to come.
Init ==
    /\ central = AllGone
    /\ status = "unknown"
    /\ mode \in {"all", "selected"}
    /\ tags \in IF mode = "selected" THEN SUBSET Tag ELSE {{}}
    /\ dirty = FALSE
    /\ dirtyAt = 0
    /\ ids = {}
    /\ pushedFP = AllGone
    /\ node \in [Tag -> {[version |-> v, enable |-> TRUE] : v \in Version}
                        \cup {Gone}]
    /\ step = "idle"
    /\ nTags = {}
    /\ nDirtyAt = 0
    /\ inbounds = AllGone
    /\ remoteTags = {}
    /\ left = {}
    /\ snap = AllGone
    /\ sawDirty = FALSE
    /\ phase = [e \in Editor |-> "idle"]
    /\ edit = [e \in Editor |-> NoEdit]
    /\ clock = 0
    /\ edits = 0
    /\ faults = 0
    /\ upsets = 0
    /\ alone = [e \in Editor |-> FALSE]
    /\ calm = [e \in Editor |-> FALSE]
    /\ held = [t \in Tag |-> FALSE]
    /\ wish = AllGone

-----------------------------------------------------------------------------
(* Requests to the node.  Each operator gives the ways the request may     *)
(* end: the node's rows after it, the ids the client knows after it, the   *)
(* error the caller sees and the faults spent.  A lost request changes     *)
(* nothing and a late one does its work, but both end in an error.         *)

Answers(after, known, onDone, cost) ==
    {[node |-> after, ids |-> onDone, err |-> FALSE, blind |-> FALSE, cost |-> cost],
     [node |-> node,  ids |-> known,  err |-> TRUE,  blind |-> FALSE, cost |-> cost + 1],
     [node |-> after, ids |-> known,  err |-> TRUE,  blind |-> FALSE, cost |-> cost + 1]}

Refused(known, cost) ==
    {[node |-> node, ids |-> known, err |-> TRUE, blind |-> FALSE, cost |-> cost]}

\* Remote.AddInbound: the node refuses a port that is taken.
RemoteAdd(t, c, known, cost) ==
    IF node[t] = Gone
    THEN Answers([node EXCEPT ![t] = c], known, known \cup {t}, cost)
    ELSE Refused(known, cost)

\* POST inbounds/update/<id>: the node refuses an id it does not have.
RemotePut(t, c, known) ==
    IF node[t] = Gone
    THEN Refused(known, 0)
    ELSE Answers([node EXCEPT ![t] = c], known, known, 0)

\* Remote.UpdateInbound: without an id it lists the node's inbounds, and when
\* the tag is not listed, or the listing fails, adds the inbound.
RemoteUpdate(t, c) ==
    IF t \in ids
    THEN RemotePut(t, c, ids)
    ELSE (IF t \in Present THEN RemotePut(t, c, Present)
                           ELSE RemoteAdd(t, c, Present, 0))
         \cup RemoteAdd(t, c, ids, 1)

\* Remote.DelInbound: nil when the tag has no id, be it that the node does not
\* have the inbound or that the node did not answer.
RemoteDel(t) ==
    LET removed == [node EXCEPT ![t] = Gone]
        nothing(known, cost) ==
            [node |-> node, ids |-> known, err |-> FALSE,
             blind |-> cost > 0, cost |-> cost]
    IN  IF t \in ids
        THEN Answers(removed, ids, ids \ {t}, 0)
        ELSE (IF t \in Present THEN Answers(removed, Present, Present \ {t}, 0)
                               ELSE {nothing(Present, 0)})
             \cup {nothing(ids, 1)}

\* The request ends in one of these ways, as long as faults are left to spend.
Ending(r) ==
    /\ faults + r.cost <= MaxFaults
    /\ faults' = faults + r.cost
    /\ node' = r.node
    /\ ids' = r.ids

-----------------------------------------------------------------------------
(* Edits at the central panel.  A request runs in steps: it reads what it  *)
(* needs, pushes to the node, commits the row and marks the node dirty.    *)
(* SetInboundEnable commits before it pushes, the others push first.       *)

\* The one writer of the database: AddInbound's transaction and the serial
\* traffic writer, which UpdateInbound holds across its push.
Writing(e) == phase[e] # "idle" /\ edit[e].kind \in {"add", "update"}
             /\ phase[e] # "return"
WriterBusy == \E e \in Editor : Writing(e)

\* Request e is the last word on inbound t from now on.
Rivals(t, e) == {x \in Editor \ {e} : phase[x] # "idle" /\ edit[x].tag = t}

Begins(e, kind, t, c) ==
    /\ phase[e] = "idle"
    /\ edits < MaxEdits
    /\ edits' = edits + 1
    /\ phase' = [phase EXCEPT ![e] = "push"]
    /\ edit' = [edit EXCEPT ![e] = [kind |-> kind, tag |-> t, to |-> c,
                                    failed |-> FALSE, blind |-> FALSE]]
    /\ alone' = [alone EXCEPT ![e] = step = "idle"]
    /\ calm' = [x \in Editor |-> IF x = e THEN Rivals(t, e) = {}
                                 ELSE calm[x] /\ x \notin Rivals(t, e)]
    /\ held' = [held EXCEPT ![t] = FALSE]
    /\ wish' = [wish EXCEPT ![t] = Gone]
    /\ UNCHANGED <<status, mode, dirty, dirtyAt, remoteVars, jobVars,
                   clock, faults, upsets>>

\* EnsureInboundTagAllowed writes on a connection of its own, and only logs
\* that it could not: SQLite has one writer, and AddInbound is it.
EnsureInboundTagAllowed(t) ==
    \/ tags' = IF mode = "selected" THEN tags \cup {t} ELSE tags
    \/ tags' = tags

\* AddInbound up to its push: the row is written but not committed.
AddInbound(e, t, c) ==
    /\ central[t] = Gone /\ ~WriterBusy
    /\ Begins(e, "add", t, c)
    /\ EnsureInboundTagAllowed(t)
    /\ UNCHANGED central

UpdateInbound(e, t, c) ==
    /\ central[t] # Gone /\ ~WriterBusy
    /\ Begins(e, "update", t, c)
    /\ UNCHANGED <<central, tags>>

SetInboundEnable(e, t) ==
    LET c == [version |-> central[t].version, enable |-> ~central[t].enable]
    IN  /\ central[t] # Gone
        /\ Begins(e, "enable", t, c)
        /\ central' = [central EXCEPT ![t] = c]
        /\ UNCHANGED tags

DelInbound(e, t) ==
    /\ central[t] # Gone
    /\ Begins(e, "delete", t, Gone)
    /\ UNCHANGED <<central, tags>>

\* What each kind of edit sends.  A disabled inbound is not sent by AddInbound
\* at all, and UpdateInbound deletes it on the node.
Push(e) ==
    LET t == edit[e].tag
        c == edit[e].to
    IN  CASE edit[e].kind = "add"    -> RemoteAdd(t, c, ids, 0)
          [] edit[e].kind = "update" -> IF c.enable THEN RemoteUpdate(t, c)
                                                    ELSE RemoteDel(t)
          [] edit[e].kind = "enable" -> RemoteUpdate(t, c)
          [] edit[e].kind = "delete" -> RemoteDel(t)

\* AddInbound asks for a plan and a push only if the inbound is enabled.
Silent(e) == edit[e].kind = "add" /\ ~edit[e].to.enable

Pushed(e, failed, blind) ==
    /\ phase' = [phase EXCEPT ![e] = IF edit[e].kind = "enable" THEN "return"
                                                                ELSE "commit"]
    /\ edit' = [edit EXCEPT ![e] = [kind |-> @.kind, tag |-> @.tag, to |-> @.to,
                                    failed |-> failed, blind |-> blind]]
    /\ UNCHANGED <<central, rowVars, pushedFP, jobVars, clock, edits, upsets,
                   auxVars>>

\* nodePushPlan, and the push it allows.  An offline node is not called.
PlanAndPush(e) ==
    /\ phase[e] = "push"
    /\ \/ /\ Silent(e)
          /\ Pushed(e, FALSE, FALSE)
          /\ UNCHANGED <<node, ids, faults>>
       \/ /\ ~Silent(e) /\ status = "offline"
          /\ Pushed(e, TRUE, FALSE)
          /\ UNCHANGED <<node, ids, faults>>
       \/ /\ ~Silent(e) /\ status # "offline"
          /\ \E r \in Push(e) : /\ Ending(r)
                                /\ Pushed(e, r.err, r.blind)

\* The commit of AddInbound and UpdateInbound and the delete of DelInbound.
CommitRow(e) ==
    /\ phase[e] = "commit"
    /\ phase' = [phase EXCEPT ![e] = "return"]
    /\ central' = [central EXCEPT ![edit[e].tag] = edit[e].to]
    /\ IF edit[e].kind = "update" THEN EnsureInboundTagAllowed(edit[e].tag)
                                  ELSE UNCHANGED tags
    /\ UNCHANGED <<status, mode, dirty, dirtyAt, remoteVars, jobVars, edit,
                   bounds, auxVars>>

\* MarkNodeDirty, after the commit.
MarkNodeDirty ==
    /\ dirty' = TRUE
    /\ dirtyAt' = clock

\* The cases in which a finished edit may still be undone by the sync; every
\* other edit is held (EditsHold).  The node must have been told the truth ...
Mirrored(e) == edit[e].kind \in {"add", "update"} /\ ~edit[e].failed
               => edit[e].to.enable
Confirmed(e) == edit[e].failed \/ ~edit[e].blind
\* ... the reconcile must not mistake a payload of long ago for the last push ...
FingerprintFits(t, c) ==
    c = Gone \/ pushedFP[t] # c \/ (node[t] = c /\ ~Reconciling)
\* ... and no tick may have looked at only one of the two copies: one that is
\* under way when nothing marks the edit, that was told the flag is down, or
\* that loaded the row in the millisecond of the mark.
Timely(e) ==
    IF edit[e].failed
    THEN /\ Reconciling => clock # nDirtyAt
         /\ step = "merge" => sawDirty
    ELSE alone[e]

Holds(e) ==
    /\ calm[e] /\ Managed(edit[e].tag)
    /\ Mirrored(e) /\ Confirmed(e) /\ Timely(e)
    /\ FingerprintFits(edit[e].tag, edit[e].to)

\* The request is answered.
Return(e) ==
    /\ phase[e] = "return"
    /\ IF edit[e].failed THEN MarkNodeDirty ELSE UNCHANGED <<dirty, dirtyAt>>
    /\ phase' = [phase EXCEPT ![e] = "idle"]
    /\ edit' = [edit EXCEPT ![e] = NoEdit]
    /\ held' = [held EXCEPT ![edit[e].tag] = Holds(e)]
    /\ wish' = [wish EXCEPT ![edit[e].tag] = IF Holds(e) THEN edit[e].to ELSE Gone]
    /\ alone' = [alone EXCEPT ![e] = FALSE]
    /\ calm' = [calm EXCEPT ![e] = FALSE]
    /\ UNCHANGED <<central, status, mode, tags, remoteVars, jobVars, bounds>>

-----------------------------------------------------------------------------
(* NodeTrafficSyncJob.syncOne, one tick at a time (Run's TryLock).         *)

jobRest == <<central, status, mode, tags, editVars, clock, edits, upsets, held, wish>>

\* Run loads the node's row; the whole tick works on this copy.
LoadRow ==
    /\ step = "idle" /\ status = "online"
    /\ step' = IF dirty THEN "read" ELSE "fetch"
    /\ nTags' = tags
    /\ nDirtyAt' = dirtyAt
    /\ alone' = [e \in Editor |-> FALSE]
    /\ UNCHANGED <<dirty, dirtyAt, remoteVars, inbounds, remoteTags, left, snap,
                   sawDirty, faults, calm, jobRest>>

TickOver ==
    /\ step' = "idle"
    /\ nTags' = {}
    /\ nDirtyAt' = 0
    /\ inbounds' = AllGone
    /\ remoteTags' = {}
    /\ left' = {}
    /\ snap' = AllGone
    /\ sawDirty' = FALSE

\* ReconcileNode: the panel's rows ...
ReadInbounds ==
    /\ step = "read"
    /\ step' = "list"
    /\ inbounds' = central
    /\ left' = {t \in Tag : central[t] # Gone}
    /\ UNCHANGED <<dirty, dirtyAt, remoteVars, nTags, nDirtyAt, remoteTags, snap,
                   sawDirty, faults, alone, calm, jobRest>>

\* ... and the node's tags.
ListRemoteTags ==
    /\ step = "list"
    /\ UNCHANGED <<dirty, dirtyAt, pushedFP, node, alone, calm, jobRest>>
    /\ \/ /\ step' = "push"
          /\ ids' = Present
          /\ remoteTags' = Present
          /\ UNCHANGED <<nTags, nDirtyAt, inbounds, left, snap, sawDirty, faults>>
       \/ /\ faults < MaxFaults
          /\ faults' = faults + 1
          /\ TickOver
          /\ UNCHANGED ids

\* ReconcileInbound skips what the node has and this client pushed last.
Unchanged(t) == t \in remoteTags /\ pushedFP[t] = inbounds[t]

ReconcileInbound(t) ==
    /\ step = "push" /\ t \in left
    /\ UNCHANGED <<dirty, dirtyAt, alone, calm, jobRest>>
    /\ \/ /\ Unchanged(t)
          /\ left' = left \ {t}
          /\ UNCHANGED <<remoteVars, step, nTags, nDirtyAt, inbounds, remoteTags,
                         snap, sawDirty, faults>>
       \/ /\ ~Unchanged(t)
          /\ \E r \in RemoteUpdate(t, inbounds[t]) :
                /\ Ending(r)
                /\ \/ /\ r.err
                      /\ TickOver
                      /\ UNCHANGED pushedFP
                   \/ /\ ~r.err
                      /\ pushedFP' = [pushedFP EXCEPT ![t] = inbounds[t]]
                      /\ left' = left \ {t}
                      /\ UNCHANGED <<step, nTags, nDirtyAt, inbounds, remoteTags,
                                     snap, sawDirty>>

\* The tags the node has, the panel has not, and the panel answers for.
Unwanted == {t \in remoteTags : inbounds[t] = Gone /\ Covers(nTags, t)}

StartSweep ==
    /\ step = "push" /\ left = {}
    /\ step' = "sweep"
    /\ left' = Unwanted
    /\ UNCHANGED <<dirty, dirtyAt, remoteVars, nTags, nDirtyAt, inbounds,
                   remoteTags, snap, sawDirty, faults, alone, calm, jobRest>>

SweepTag(t) ==
    /\ step = "sweep" /\ t \in left
    /\ UNCHANGED <<dirty, dirtyAt, pushedFP, alone, calm, jobRest>>
    /\ \E r \in RemoteDel(t) :
          /\ Ending(r)
          /\ \/ r.err /\ TickOver
             \/ /\ ~r.err
                /\ left' = left \ {t}
                /\ UNCHANGED <<step, nTags, nDirtyAt, inbounds, remoteTags, snap,
                               sawDirty>>

\* ClearNodeDirty: a compare-and-swap on the stamp the tick loaded.
\* Mutant: the flag is taken down whatever was marked in between.
ClearAnyStamp == FALSE
Cleared == dirty /\ dirtyAt # nDirtyAt

ClearNodeDirty ==
    /\ step = "sweep" /\ left = {}
    /\ step' = "fetch"
    /\ dirty' = Cleared
    /\ inbounds' = AllGone
    /\ remoteTags' = {}
    /\ UNCHANGED <<dirtyAt, remoteVars, nTags, nDirtyAt, left, snap, sawDirty,
                   faults, alone, calm, jobRest>>

\* FilterNodeSnapshot, with the tags the tick loaded.
\* Mutant: what is filtered out leaves a hole.
FilterLeavesHole(rows) == [t \in {u \in Tag : Covers(nTags, u)} |-> rows[t]]
Filtered(rows) == [t \in Tag |-> IF Covers(nTags, t) THEN rows[t] ELSE Gone]

FetchTrafficSnapshot ==
    /\ step = "fetch"
    /\ UNCHANGED <<dirty, dirtyAt, remoteVars, alone, calm, jobRest>>
    /\ \/ /\ step' = "check"
          /\ snap' = Filtered(node)
          /\ UNCHANGED <<nTags, nDirtyAt, inbounds, remoteTags, left, sawDirty,
                         faults>>
       \/ /\ faults < MaxFaults
          /\ faults' = faults + 1
          /\ TickOver

\* NodeSyncState, read after the snapshot.
ReadDirty ==
    /\ step = "check"
    /\ step' = "merge"
    /\ sawDirty' = dirty
    /\ UNCHANGED <<dirty, dirtyAt, remoteVars, nTags, nDirtyAt, inbounds,
                   remoteTags, left, snap, faults, alone, calm, jobRest>>

\* SetRemoteTraffic: a clean node's snapshot replaces the panel's rows (known
\* inbounds are overwritten, unknown ones adopted, missing ones deleted); a
\* dirty node's leaves them alone.
\* Mutant: the orphan sweep is missing.
MergeKeepsOrphans ==
    [t \in Tag |-> IF sawDirty \/ snap[t] = Gone THEN central[t] ELSE snap[t]]
Merged == IF sawDirty THEN central ELSE snap

SetRemoteTraffic ==
    /\ step = "merge" /\ ~WriterBusy
    /\ central' = Merged
    /\ calm' = IF sawDirty THEN calm ELSE [e \in Editor |-> FALSE]
    /\ TickOver
    /\ UNCHANGED <<rowVars, remoteVars, editVars, bounds, alone, held, wish>>

-----------------------------------------------------------------------------
(* What else happens to the two panels.                                    *)

envRest == <<central, mode, tags, dirty, dirtyAt, edits, faults>>

\* NodeHeartbeatJob.probeOne.
Heartbeat(s) ==
    /\ status # s
    /\ status' = s
    /\ upsets' = IF s = "offline" THEN upsets + 1 ELSE upsets
    /\ upsets' <= MaxUpsets
    /\ UNCHANGED <<envRest, remoteVars, jobVars, editVars, clock, auxVars>>

\* The node's own operator saves inbound t, or deletes it.
NodeEdit(t, c) ==
    /\ upsets < MaxUpsets
    /\ upsets' = upsets + 1
    /\ node[t] # c
    /\ node' = [node EXCEPT ![t] = c]
    /\ held' = [held EXCEPT ![t] = FALSE]
    /\ wish' = [wish EXCEPT ![t] = Gone]
    /\ calm' = [e \in Editor |->
                    calm[e] /\ ~(phase[e] # "idle" /\ edit[e].tag = t)]
    /\ UNCHANGED <<envRest, status, ids, pushedFP, jobVars, editVars, clock, alone>>

\* The panel's process dies and comes back.  Open transactions are rolled
\* back; the rows stay, the Remote with its ids and fingerprints does not.
Restart ==
    /\ upsets < MaxUpsets
    /\ upsets' = upsets + 1
    /\ ids' = {}
    /\ pushedFP' = AllGone
    /\ TickOver
    /\ phase' = [e \in Editor |-> "idle"]
    /\ edit' = [e \in Editor |-> NoEdit]
    /\ alone' = [e \in Editor |-> FALSE]
    /\ calm' = [e \in Editor |-> FALSE]
    /\ UNCHANGED <<envRest, status, node, clock, held, wish>>

Tick ==
    /\ clock < MaxClock
    /\ clock' = clock + 1
    /\ UNCHANGED <<envRest, status, remoteVars, jobVars, editVars, upsets, auxVars>>

-----------------------------------------------------------------------------
EditStep(e) == PlanAndPush(e) \/ CommitRow(e) \/ Return(e)

EditBegins(e) ==
    \E t \in Tag :
       \/ \E c \in Inbound : AddInbound(e, t, c) \/ UpdateInbound(e, t, c)
       \/ SetInboundEnable(e, t)
       \/ DelInbound(e, t)

SyncStep ==
    \/ ReadInbounds \/ ListRemoteTags
    \/ \E t \in Tag : ReconcileInbound(t) \/ SweepTag(t)
    \/ StartSweep \/ ClearNodeDirty
    \/ FetchTrafficSnapshot \/ ReadDirty \/ SetRemoteTraffic

NodeOperator == \E t \in Tag, c \in Inbound \cup {Gone} : NodeEdit(t, c)

Next ==
    \/ \E e \in Editor : EditBegins(e) \/ EditStep(e)
    \/ LoadRow \/ SyncStep
    \/ \E s \in {"online", "offline"} : Heartbeat(s)
    \/ NodeOperator \/ Restart \/ Tick

Spec == Init /\ [][Next]_vars

\* Requests run to their end, both jobs run on the cron, and a heartbeat that
\* reaches the node puts it online.
Fairness ==
    /\ \A e \in Editor : WF_vars(EditStep(e))
    /\ WF_vars(LoadRow)
    /\ WF_vars(SyncStep)
    /\ WF_vars(Heartbeat("online"))

FairSpec == Spec /\ Fairness

-----------------------------------------------------------------------------
(* Properties.                                                             *)

\* An edit that is held is on the node, or the node is dirty and the panel
\* still has it: neither a merge nor a reconcile, nor a crash, nor an edit of
\* another inbound takes it back.  Holds lists the edits the code cannot say
\* this of.
EditsHold ==
    \A t \in Tag : held[t] => /\ central[t] = wish[t]
                              /\ dirty \/ node[t] = wish[t]

\* Once the faults are over, the two copies of every inbound the panel answers
\* for become equal and stay so: the flag is not left up and not lost between
\* the two directions of the sync.
Converges ==
    <>[](\A t \in Tag : Managed(t) => central[t] = node[t])

=============================================================================
