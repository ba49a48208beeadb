------------------------ MODULE NodeConfigSyncProofs ------------------------
(***************************************************************************)
(* Held edits are never lost, for any number of inbounds, contents and     *)
(* concurrent requests and whatever the bounds on edits, faults, upsets    *)
(* and the clock.                                                          *)
(***************************************************************************)
EXTENDS NodeConfigSync, TLAPS

-----------------------------------------------------------------------------
(* The inductive invariant.                                                *)

Active(e) == phase[e] # "idle"

\* The tick's own books: it runs on a dirty node as long as it reconciles, it
\* has an older stamp than the row, and it works on inbounds the panel had (push)
\* or had not (sweep).  A request that is alone has no tick beside it.
TickKept ==
    /\ nDirtyAt <= dirtyAt /\ dirtyAt <= clock
    /\ Reconciling => dirty
    /\ step = "list" => left = {t \in Tag : inbounds[t] # Gone}
    /\ step = "push" => \A t \in left : inbounds[t] # Gone
    /\ step = "sweep" => \A t \in left : inbounds[t] = Gone
    /\ \A e \in Editor : alone[e] => step = "idle"

\* A calm request is the only one on its inbound; once its row is written it
\* stays, and if nobody else was about and the push went well the node has it.
RequestKept(e) ==
    /\ Active(e) /\ edit[e].kind = "delete" => edit[e].to = Gone
    /\ calm[e] /\ Active(e) =>
          /\ \A x \in Editor \ {e} : Active(x) => edit[x].tag # edit[e].tag
          /\ phase[e] = "return" \/ (edit[e].kind = "enable" /\ phase[e] = "push")
             => central[edit[e].tag] = edit[e].to
          /\ /\ alone[e] /\ phase[e] \in {"commit", "return"}
             /\ ~edit[e].failed /\ Mirrored(e) /\ Confirmed(e)
             => node[edit[e].tag] = edit[e].to

\* What EditsHold says, of an inbound that is allowed and that no request is on.
EditKept(t) ==
    /\ Managed(t)
    /\ central[t] = wish[t]
    /\ dirty \/ node[t] = wish[t]
    /\ \A e \in Editor : Active(e) => edit[e].tag # t

\* A fingerprint equal to the edit is on the node, and no push of an older row
\* the tick still has in hand can change that.
PrintKept(t) ==
    wish[t] # Gone /\ pushedFP[t] = wish[t] =>
        /\ node[t] = wish[t]
        /\ step \in {"list", "push", "sweep"} => inbounds[t] = wish[t]

\* The reconcile started after the edit was marked.
Knows == Reconciling /\ dirtyAt = nDirtyAt

\* A reconcile that knows of the edit has it among its rows and, step by step,
\* brings it to the node: a row by its push, a delete by its sweep.
ReconcileKept(t) ==
    Knows =>
        /\ Covers(nTags, t)
        /\ step # "read" => inbounds[t] = wish[t]
        /\ wish[t] # Gone /\ ((step = "push" /\ t \notin left) \/ step = "sweep")
           => node[t] = wish[t]
        /\ wish[t] = Gone /\ node[t] # Gone
           => /\ step \in {"push", "sweep"} => t \in remoteTags /\ t \in ids
              /\ step = "sweep" => t \in left

\* A snapshot that will be merged has the edit.
SnapshotKept(t) ==
    /\ step = "fetch" /\ ~dirty => Covers(nTags, t)
    /\ step = "check" /\ ~dirty => snap[t] = wish[t]
    /\ step = "merge" /\ ~sawDirty => snap[t] = wish[t]

IInv ==
    /\ TypeOK
    /\ TickKept
    /\ \A e \in Editor : RequestKept(e)
    /\ \A t \in Tag : held[t] => /\ EditKept(t)
                                 /\ PrintKept(t)
                                 /\ ReconcileKept(t)
                                 /\ SnapshotKept(t)

-----------------------------------------------------------------------------
(* How requests to the node end.                                           *)

\* Way r of a request about inbound t does no more than give it content c,
\* and forgets the id of no other inbound that the node has.
Touches(r, t, c) ==
    /\ r.node \in {node, [node EXCEPT ![t] = c]}
    /\ r.ids \in SUBSET Tag
    /\ \A u \in Tag \ {t} : u \in ids /\ node[u] # Gone => u \in r.ids
    /\ r.cost \in Nat
    /\ r.err \in BOOLEAN /\ r.blind \in BOOLEAN

\* Sets of ids that a request about inbound t may leave behind.
Knowing(t, S) ==
    /\ S \in SUBSET Tag
    /\ \A u \in Tag \ {t} : u \in ids /\ node[u] # Gone => u \in S

Does(r, t, c) == Touches(r, t, c) /\ ~r.blind /\ (~r.err => r.node[t] = c)

\* A request that the node takes up: lost, late or answered.
LEMMA Answered ==
    ASSUME NEW t \in Tag, NEW c, NEW known, NEW onDone, NEW cost \in Nat,
           Knowing(t, known), Knowing(t, onDone),
           node \in [Tag -> Inbound \cup {Gone}],
           NEW r \in Answers([node EXCEPT ![t] = c], known, onDone, cost)
    PROVE  Does(r, t, c)
  <1> DEFINE after == [node EXCEPT ![t] = c]
  <1>1. after[t] = c
    OBVIOUS
  <1>2. CASE r = [node |-> after, ids |-> onDone, err |-> FALSE, blind |-> FALSE, cost |-> cost]
    <2>1. r.node = after /\ r.ids = onDone /\ r.err = FALSE /\ r.blind = FALSE /\ r.cost = cost
      BY <1>2
    <2>2. QED
      BY <1>1, <2>1 DEF Does, Touches, Knowing
  <1>3. CASE r = [node |-> node, ids |-> known, err |-> TRUE, blind |-> FALSE, cost |-> cost + 1]
    <2>1. r.node = node /\ r.ids = known /\ r.err = TRUE /\ r.blind = FALSE /\ r.cost = cost + 1
      BY <1>3
    <2>2. r.cost \in Nat
      BY <2>1
    <2>3. QED
      BY <2>2, <2>1 DEF Does, Touches, Knowing
  <1>4. CASE r = [node |-> after, ids |-> known, err |-> TRUE, blind |-> FALSE, cost |-> cost + 1]
    <2>1. r.node = after /\ r.ids = known /\ r.err = TRUE /\ r.blind = FALSE /\ r.cost = cost + 1
      BY <1>4
    <2>2. r.cost \in Nat
      BY <2>1
    <2>3. QED
      BY <2>2, <1>1, <2>1 DEF Does, Touches, Knowing
  <1>5. QED
    BY <1>2, <1>3, <1>4 DEF Answers

\* A request that the node turns down.
LEMMA TurnedDown ==
    ASSUME NEW t \in Tag, NEW c, NEW known, NEW cost \in Nat, Knowing(t, known),
           NEW r \in Refused(known, cost)
    PROVE  Does(r, t, c)
  <1>1. r.node = node /\ r.ids = known /\ r.err = TRUE /\ r.blind = FALSE /\ r.cost = cost
    BY DEF Refused
  <1>2. QED
    BY <1>1 DEF Does, Touches, Knowing

\* What the client knows already, and what a listing tells it.
LEMMA Known ==
    ASSUME NEW t \in Tag, ids \in SUBSET Tag
    PROVE  /\ Knowing(t, ids) /\ Knowing(t, ids \cup {t}) /\ Knowing(t, ids \ {t})
           /\ Knowing(t, Present) /\ Knowing(t, Present \cup {t})
           /\ Knowing(t, Present \ {t})
  BY DEF Knowing, Present

\* Remote.UpdateInbound without an error has done its work.
LEMMA Updated ==
    ASSUME NEW t \in Tag, NEW c, ids \in SUBSET Tag,
           node \in [Tag -> Inbound \cup {Gone}],
           NEW r \in RemoteUpdate(t, c)
    PROVE  Does(r, t, c)
  <1>1. ASSUME NEW known, NEW cost \in Nat, Knowing(t, known),
               Knowing(t, known \cup {t}), r \in RemoteAdd(t, c, known, cost)
        PROVE  Does(r, t, c)
    BY <1>1, Answered, TurnedDown DEF RemoteAdd
  <1>2. ASSUME NEW known, Knowing(t, known), r \in RemotePut(t, c, known)
        PROVE  Does(r, t, c)
    BY <1>2, Answered, TurnedDown DEF RemotePut
  <1>3. \/ r \in RemotePut(t, c, ids) \/ r \in RemotePut(t, c, Present)
        \/ r \in RemoteAdd(t, c, Present, 0) \/ r \in RemoteAdd(t, c, ids, 1)
    BY DEF RemoteUpdate
  <1>4. QED
    BY <1>1, <1>2, <1>3, Known

\* Remote.DelInbound without an error has done its work if it knew the id, or
\* could look it up.
LEMMA Deleted ==
    ASSUME NEW t \in Tag, ids \in SUBSET Tag,
           node \in [Tag -> Inbound \cup {Gone}],
           NEW r \in RemoteDel(t)
    PROVE  /\ Touches(r, t, Gone)
           /\ ~r.err /\ ~r.blind => r.node[t] = Gone
           /\ t \in ids => ~r.blind
  <1> DEFINE removed == [node EXCEPT ![t] = Gone]
             nothing(known, cost) ==
                [node |-> node, ids |-> known, err |-> FALSE,
                 blind |-> cost > 0, cost |-> cost]
  <1>1. CASE \/ r \in Answers(removed, ids, ids \ {t}, 0)
             \/ r \in Answers(removed, Present, Present \ {t}, 0)
    <2>1. Does(r, t, Gone)
      BY <1>1, Answered, Known, 0 \in Nat
    <2>2. QED
      BY <2>1 DEF Does
  <1>. ~(0 > 0) /\ 1 > 0
    OBVIOUS
  <1>2. CASE t \notin ids /\ t \notin Present /\ r = nothing(Present, 0)
    <2>1. r.node = node /\ r.ids = Present /\ ~r.err /\ r.blind = (0 > 0) /\ r.cost = 0
      BY <1>2
    <2>2. node[t] = Gone
      BY <1>2 DEF Present
    <2>3. QED
      BY <1>2, <2>1, <2>2, Known DEF Touches, Knowing
  <1>3. CASE t \notin ids /\ r = nothing(ids, 1)
    <2>1. r.node = node /\ r.ids = ids /\ ~r.err /\ r.blind = (1 > 0) /\ r.cost = 1
      BY <1>3
    <2>2. QED
      BY <1>3, <2>1, Known DEF Touches, Knowing
  <1>4. \/ r \in Answers(removed, ids, ids \ {t}, 0)
        \/ r \in Answers(removed, Present, Present \ {t}, 0)
        \/ t \notin ids /\ t \notin Present /\ r = nothing(Present, 0)
        \/ t \notin ids /\ r = nothing(ids, 1)
    BY DEF RemoteDel
  <1>5. QED
    BY <1>1, <1>2, <1>3, <1>4

\* What a request of the panel leaves behind on the node and in the client.
LEMMA PushEnds ==
    ASSUME TypeOK, NEW e \in Editor, phase[e] = "push", RequestKept(e), NEW r \in Push(e)
    PROVE  /\ \E c \in Inbound \cup {Gone} : Touches(r, edit[e].tag, c)
           /\ /\ ~r.err /\ ~r.blind
              /\ edit[e].kind \in {"add", "update"} => edit[e].to.enable
              => r.node[edit[e].tag] = edit[e].to
  <1> DEFINE t == edit[e].tag
             c == edit[e].to
  <1>1. /\ t \in Tag /\ c \in Inbound \cup {Gone}
        /\ edit[e].kind \in Kinds
        /\ ids \in SUBSET Tag /\ node \in [Tag -> Inbound \cup {Gone}]
    BY DEF TypeOK, Edits
  <1>2. CASE edit[e].kind = "add"
    <2>1. r \in RemoteAdd(t, c, ids, 0)
      BY <1>2 DEF Push
    <2>2. Does(r, t, c)
      BY <1>1, <2>1, Known, Answered, TurnedDown, 0 \in Nat DEF RemoteAdd
    <2>3. QED
      BY <1>1, <2>2 DEF Does
  <1>3. CASE (edit[e].kind = "update" /\ c.enable) \/ edit[e].kind = "enable"
    <2>1. r \in RemoteUpdate(t, c)
      BY <1>3 DEF Push
    <2>2. Does(r, t, c)
      BY <1>1, <2>1, Updated
    <2>3. QED
      BY <1>1, <2>2 DEF Does
  <1>4. CASE edit[e].kind = "update" /\ ~c.enable
    <2>1. r \in RemoteDel(t)
      BY <1>4 DEF Push
    <2>2. QED
      BY <1>1, <1>4, <2>1, Deleted
  <1>5. CASE edit[e].kind = "delete"
    <2>0. c = Gone
      BY <1>5 DEF RequestKept, Active
    <2>1. r \in RemoteDel(t)
      BY <1>5 DEF Push
    <2>2. Touches(r, t, Gone) /\ (~r.err /\ ~r.blind => r.node[t] = Gone)
      BY <1>1, <2>1, Deleted
    <2>3. QED
      BY <1>1, <1>5, <2>0, <2>2
  <1>6. QED
    BY <1>1, <1>2, <1>3, <1>4, <1>5 DEF Kinds

-----------------------------------------------------------------------------
(* Types.                                                                  *)

LEMMA TypeInit == Init => TypeOK
  <1> SUFFICES ASSUME Init PROVE TypeOK
    OBVIOUS
  <1>1. node \in [Tag -> Inbound \cup {Gone}]
    <2>1. \A v \in Version : [version |-> v, enable |-> TRUE] \in Inbound
      BY DEF Inbound
    <2>2. QED
      BY <2>1 DEF Init
  <1>2. tags \in SUBSET Tag
    BY DEF Init
  <1>3. 0 \in 0..MaxClock /\ 0 \in 0..MaxEdits /\ 0 \in 0..MaxFaults /\ 0 \in 0..MaxUpsets
    BY ConstantsAssumption
  <1>4. QED
    BY <1>1, <1>2, <1>3 DEF Init, TypeOK, AllGone

USE DEF bounds, rowVars, remoteVars, jobVars, editVars, auxVars, jobRest, envRest

LEMMA TypeBegins ==
    ASSUME TypeOK, NEW e \in Editor, NEW t \in Tag,
           NEW kind \in Kinds, NEW c \in Inbound \cup {Gone},
           Begins(e, kind, t, c),
           central' \in [Tag -> Inbound \cup {Gone}], tags' \in SUBSET Tag
    PROVE  TypeOK'
  <1> DEFINE new == [kind |-> kind, tag |-> t, to |-> c,
                     failed |-> FALSE, blind |-> FALSE]
  <1>1. new \in Edits
    BY DEF Edits
  <1>2. edit' = [edit EXCEPT ![e] = new] /\ edits' = edits + 1 /\ edits < MaxEdits
    BY DEF Begins
  <1>3. /\ edits' \in 0..MaxEdits
        /\ edit' \in [Editor -> Edits \cup {NoEdit}]
        /\ \A x \in Editor : edit'[x] = IF x = e THEN new ELSE edit[x]
    BY <1>1, <1>2, ConstantsAssumption DEF TypeOK
  <1>4. /\ phase' \in [Editor -> {"idle", "push", "commit", "return"}]
        /\ \A x \in Editor : x # e => phase'[x] = phase[x]
    BY DEF TypeOK, Begins
  <1>5. \A x \in Editor : phase'[x] = "idle" \/ edit'[x] \in Edits
    BY <1>1, <1>3, <1>4 DEF TypeOK
  <1>6. /\ alone' \in [Editor -> BOOLEAN]
        /\ held' \in [Tag -> BOOLEAN]
        /\ wish' \in [Tag -> Inbound \cup {Gone}]
    BY DEF TypeOK, Begins
  <1>7. calm' \in [Editor -> BOOLEAN]
    BY DEF TypeOK, Begins
  <1>8. QED
    BY <1>3, <1>4, <1>5, <1>6, <1>7 DEF TypeOK, Begins

\* A request to the node that ends leaves its rows and ids typed.
LEMMA TypeEnding ==
    ASSUME TypeOK, NEW t \in Tag, NEW c \in Inbound \cup {Gone}, NEW r,
           Touches(r, t, c), Ending(r)
    PROVE  /\ node' \in [Tag -> Inbound \cup {Gone}]
           /\ ids' \in SUBSET Tag
           /\ faults' \in 0..MaxFaults
  BY ConstantsAssumption DEF Touches, Ending, TypeOK

LEMMA TypeEdit ==
    ASSUME TypeOK, NEW e \in Editor, RequestKept(e), EditBegins(e) \/ EditStep(e)
    PROVE  TypeOK'
  <1>1. ASSUME NEW t \in Tag, NEW c \in Inbound, AddInbound(e, t, c)
        PROVE  TypeOK'
    <2>1. Begins(e, "add", t, c) /\ tags' \in SUBSET Tag
      BY <1>1 DEF AddInbound, EnsureInboundTagAllowed, TypeOK
    <2>2. QED
      BY <1>1, <2>1, TypeBegins DEF AddInbound, Kinds, TypeOK
  <1>2. ASSUME NEW t \in Tag, NEW c \in Inbound, UpdateInbound(e, t, c)
        PROVE  TypeOK'
    BY <1>2, TypeBegins DEF UpdateInbound, Kinds, TypeOK
  <1>3. ASSUME NEW t \in Tag, SetInboundEnable(e, t)
        PROVE  TypeOK'
    <2> DEFINE c == [version |-> central[t].version, enable |-> ~central[t].enable]
    <2>1. c \in Inbound
      BY <1>3 DEF SetInboundEnable, TypeOK, Inbound
    <2>2. Begins(e, "enable", t, c) /\ central' = [central EXCEPT ![t] = c] /\ tags' = tags
      BY <1>3 DEF SetInboundEnable
    <2> HIDE DEF c
    <2>3. QED
      BY <2>1, <2>2, TypeBegins DEF Kinds, TypeOK
  <1>4. ASSUME NEW t \in Tag, DelInbound(e, t)
        PROVE  TypeOK'
    BY <1>4, TypeBegins DEF DelInbound, Kinds, TypeOK
  <1>5. ASSUME PlanAndPush(e)
        PROVE  TypeOK'
    <2>1. ASSUME NEW failed \in BOOLEAN, NEW blind \in BOOLEAN, Pushed(e, failed, blind),
                 /\ node' \in [Tag -> Inbound \cup {Gone}]
                 /\ ids' \in SUBSET Tag
                 /\ faults' \in 0..MaxFaults
          PROVE  TypeOK'
      <3> DEFINE new == [kind |-> edit[e].kind, tag |-> edit[e].tag, to |-> edit[e].to,
                         failed |-> failed, blind |-> blind]
      <3>1. new \in Edits
        BY <1>5 DEF PlanAndPush, TypeOK, Edits
      <3>2. edit' = [edit EXCEPT ![e] = new]
        BY <2>1 DEF Pushed, TypeOK
      <3> HIDE DEF new
      <3>3. /\ edit' \in [Editor -> Edits \cup {NoEdit}]
            /\ \A x \in Editor : edit'[x] = IF x = e THEN new ELSE edit[x]
        BY <3>1, <3>2 DEF TypeOK
      <3>4. /\ phase' \in [Editor -> {"idle", "push", "commit", "return"}]
            /\ \A x \in Editor : x # e => phase'[x] = phase[x]
        BY <2>1 DEF Pushed, TypeOK
      <3>5. \A x \in Editor : phase'[x] = "idle" \/ edit'[x] \in Edits
        BY <3>1, <3>3, <3>4 DEF TypeOK
      <3>6. QED
        BY <2>1, <3>3, <3>4, <3>5 DEF Pushed, TypeOK
    <2>2. CASE \E r \in Push(e) : Ending(r) /\ Pushed(e, r.err, r.blind)
      <3>1. PICK r \in Push(e) : Ending(r) /\ Pushed(e, r.err, r.blind)
        BY <2>2
      <3>2. PICK c \in Inbound \cup {Gone} : Touches(r, edit[e].tag, c)
        BY <1>5, PushEnds DEF PlanAndPush
      <3>3. edit[e].tag \in Tag
        BY <1>5 DEF PlanAndPush, TypeOK, Edits
      <3>4. r.err \in BOOLEAN /\ r.blind \in BOOLEAN
        BY <3>2 DEF Touches
      <3>5. QED
        BY <2>1, <3>1, <3>2, <3>3, <3>4, TypeEnding
    <2>3. CASE UNCHANGED <<node, ids, faults>>
               /\ (Pushed(e, FALSE, FALSE) \/ Pushed(e, TRUE, FALSE))
      BY <2>1, <2>3 DEF TypeOK
    <2>4. QED
      BY <1>5, <2>2, <2>3 DEF PlanAndPush
  <1>6. ASSUME CommitRow(e)
        PROVE  TypeOK'
    <2>1. edit[e].tag \in Tag /\ edit[e].to \in Inbound \cup {Gone}
      BY <1>6 DEF CommitRow, TypeOK, Edits
    <2>2. QED
      BY <1>6, <2>1 DEF CommitRow, EnsureInboundTagAllowed, TypeOK
  <1>7. ASSUME Return(e)
        PROVE  TypeOK'
    <2>1. edit[e].tag \in Tag /\ edit[e].to \in Inbound \cup {Gone}
      BY <1>7 DEF Return, TypeOK, Edits
    <2>2. Holds(e) \in BOOLEAN
      BY DEF Holds, Managed, Covers, TypeOK
    <2>3. QED
      BY <1>7, <2>1, <2>2 DEF Return, MarkNodeDirty, TypeOK
  <1>8. QED
    BY <1>1, <1>2, <1>3, <1>4, <1>5, <1>6, <1>7 DEF EditBegins, EditStep

LEMMA TypeTickOver ==
    ASSUME TypeOK, TickOver
    PROVE  /\ step' = "idle" /\ nTags' \in SUBSET Tag
           /\ nDirtyAt' \in 0..MaxClock /\ sawDirty' \in BOOLEAN
           /\ inbounds' \in [Tag -> Inbound \cup {Gone}]
           /\ remoteTags' \in SUBSET Tag /\ left' \in SUBSET Tag
           /\ snap' \in [Tag -> Inbound \cup {Gone}]
  <1>1. 0 \in 0..MaxClock
    BY ConstantsAssumption
  <1>2. QED
    BY <1>1 DEF TickOver, AllGone

LEMMA TypeSync ==
    ASSUME TypeOK, LoadRow \/ SyncStep
    PROVE  TypeOK'
  <1>1. ASSUME LoadRow PROVE TypeOK'
    BY <1>1 DEF LoadRow, TypeOK
  <1>2. ASSUME ReadInbounds PROVE TypeOK'
    BY <1>2 DEF ReadInbounds, TypeOK
  <1>3. ASSUME ListRemoteTags PROVE TypeOK'
    <2>1. CASE step' = "push"
      BY <1>3, <2>1 DEF ListRemoteTags, TickOver, Present, TypeOK
    <2>2. CASE TickOver /\ faults < MaxFaults /\ faults' = faults + 1 /\ ids' = ids
      <3>1. faults' \in 0..MaxFaults
        BY <2>2, ConstantsAssumption DEF TypeOK
      <3>2. QED
        BY <1>3, <2>2, <3>1, TypeTickOver DEF ListRemoteTags, TypeOK
    <2>3. QED
      BY <1>3, <2>1, <2>2 DEF ListRemoteTags
  <1>4. ASSUME NEW t \in Tag, ReconcileInbound(t) PROVE TypeOK'
    <2>1. inbounds[t] \in Inbound \cup {Gone}
      BY DEF TypeOK
    <2>2. CASE Unchanged(t) /\ UNCHANGED <<ids, pushedFP, node, faults>>
      BY <1>4, <2>2 DEF ReconcileInbound, TypeOK
    <2>3. CASE \E r \in RemoteUpdate(t, inbounds[t]) :
                  Ending(r) /\ \/ TickOver /\ pushedFP' = pushedFP
                               \/ /\ pushedFP' = [pushedFP EXCEPT ![t] = inbounds[t]]
                                  /\ left' = left \ {t}
                                  /\ UNCHANGED <<step, nTags, nDirtyAt, inbounds,
                                                 remoteTags, snap, sawDirty>>
      <3>1. /\ node' \in [Tag -> Inbound \cup {Gone}]
            /\ ids' \in SUBSET Tag
            /\ faults' \in 0..MaxFaults
        BY <2>1, <2>3, Updated, TypeEnding DEF Does, TypeOK
      <3>2. pushedFP' \in [Tag -> Inbound \cup {Gone}]
        BY <2>1, <2>3 DEF TypeOK
      <3>3. CASE TickOver
        BY <1>4, <3>1, <3>2, <3>3, TypeTickOver DEF ReconcileInbound, TypeOK
      <3>4. CASE ~TickOver
        BY <1>4, <2>3, <3>1, <3>2, <3>4 DEF ReconcileInbound, TypeOK
      <3>5. QED
        BY <3>3, <3>4
    <2>4. QED
      BY <1>4, <2>2, <2>3 DEF ReconcileInbound
  <1>5. ASSUME NEW t \in Tag, SweepTag(t) PROVE TypeOK'
    <2>1. PICK r \in RemoteDel(t) :
             Ending(r) /\ \/ TickOver
                          \/ /\ left' = left \ {t}
                             /\ UNCHANGED <<step, nTags, nDirtyAt, inbounds,
                                            remoteTags, snap, sawDirty>>
      BY <1>5 DEF SweepTag
    <2>2. /\ node' \in [Tag -> Inbound \cup {Gone}]
          /\ ids' \in SUBSET Tag
          /\ faults' \in 0..MaxFaults
      BY <2>1, Deleted, TypeEnding DEF TypeOK
    <2>3. CASE TickOver
      BY <1>5, <2>2, <2>3, TypeTickOver DEF SweepTag, TypeOK
    <2>4. CASE ~TickOver
      BY <1>5, <2>1, <2>2, <2>4 DEF SweepTag, TypeOK
    <2>5. QED
      BY <2>3, <2>4
  <1>6. ASSUME StartSweep PROVE TypeOK'
    BY <1>6 DEF StartSweep, Unwanted, TypeOK
  <1>7. ASSUME ClearNodeDirty PROVE TypeOK'
    BY <1>7 DEF ClearNodeDirty, Cleared, AllGone, TypeOK
  <1>8. ASSUME FetchTrafficSnapshot PROVE TypeOK'
    <2>1. CASE step' = "check"
      BY <1>8, <2>1 DEF FetchTrafficSnapshot, TickOver, Filtered, TypeOK
    <2>2. CASE TickOver /\ faults < MaxFaults /\ faults' = faults + 1
      <3>1. faults' \in 0..MaxFaults
        BY <2>2, ConstantsAssumption DEF TypeOK
      <3>2. QED
        BY <1>8, <2>2, <3>1, TypeTickOver DEF FetchTrafficSnapshot, TypeOK
    <2>3. QED
      BY <1>8, <2>1, <2>2 DEF FetchTrafficSnapshot
  <1>9. ASSUME ReadDirty PROVE TypeOK'
    BY <1>9 DEF ReadDirty, TypeOK
  <1>10. ASSUME SetRemoteTraffic PROVE TypeOK'
    BY <1>10, TypeTickOver DEF SetRemoteTraffic, Merged, TypeOK
  <1>11. QED
    BY <1>1, <1>2, <1>3, <1>4, <1>5, <1>6, <1>7, <1>8, <1>9, <1>10 DEF SyncStep

LEMMA TypeEnvironment ==
    ASSUME TypeOK,
           (\E s \in {"online", "offline"} : Heartbeat(s))
               \/ NodeOperator \/ Restart \/ Tick \/ UNCHANGED vars
    PROVE  TypeOK'
  <1>1. ASSUME NEW s \in {"online", "offline"}, Heartbeat(s) PROVE TypeOK'
    <2>1. upsets' \in 0..MaxUpsets
      BY <1>1, ConstantsAssumption DEF Heartbeat, TypeOK
    <2>2. QED
      BY <1>1, <2>1 DEF Heartbeat, TypeOK
  <1>2. ASSUME NEW t \in Tag, NEW c \in Inbound \cup {Gone}, NodeEdit(t, c) PROVE TypeOK'
    <2>1. upsets' \in 0..MaxUpsets
      BY <1>2, ConstantsAssumption DEF NodeEdit, TypeOK
    <2>2. calm' \in [Editor -> BOOLEAN]
      BY <1>2 DEF NodeEdit, TypeOK
    <2>3. QED
      BY <1>2, <2>1, <2>2 DEF NodeEdit, TypeOK
  <1>3. ASSUME Restart PROVE TypeOK'
    <2>1. upsets' \in 0..MaxUpsets
      BY <1>3, ConstantsAssumption DEF Restart, TypeOK
    <2>2. QED
      BY <1>3, <2>1, TypeTickOver DEF Restart, AllGone, TypeOK
  <1>4. ASSUME Tick PROVE TypeOK'
    <2>1. clock' \in 0..MaxClock
      BY <1>4, ConstantsAssumption DEF Tick, TypeOK
    <2>2. QED
      BY <1>4, <2>1 DEF Tick, TypeOK
  <1>5. ASSUME UNCHANGED vars PROVE TypeOK'
    BY <1>5 DEF vars, TypeOK
  <1>6. QED
    BY <1>1, <1>2, <1>3, <1>4, <1>5 DEF NodeOperator

-----------------------------------------------------------------------------
(* Requests.                                                               *)

USE DEF Active, Managed, Covers, Reconciling, Knows

TagKept(t) == EditKept(t) /\ PrintKept(t) /\ ReconcileKept(t) /\ SnapshotKept(t)

\* A request that begins takes its inbound out of what is held.
LEMMA BeginKeeps ==
    ASSUME IInv, TypeOK', NEW e \in Editor, NEW t \in Tag,
           NEW kind \in Kinds, NEW c \in Inbound \cup {Gone},
           Begins(e, kind, t, c),
           \A u \in Tag \ {t} : central'[u] = central[u],
           kind = "enable" => central'[t] = c,
           kind = "delete" => c = Gone,
           tags \subseteq tags'
    PROVE  IInv'
  <1> DEFINE new == [kind |-> kind, tag |-> t, to |-> c,
                     failed |-> FALSE, blind |-> FALSE]
  <1>1. /\ edit' = [edit EXCEPT ![e] = new]
        /\ phase[e] = "idle" /\ phase' = [phase EXCEPT ![e] = "push"]
        /\ calm' = [x \in Editor |-> IF x = e THEN Rivals(t, e) = {}
                                     ELSE calm[x] /\ x \notin Rivals(t, e)]
        /\ alone' = [alone EXCEPT ![e] = step = "idle"]
    BY DEF Begins
  <1>2. /\ new.kind = kind /\ new.tag = t /\ new.to = c
        /\ \A x \in Editor : edit'[x] = IF x = e THEN new ELSE edit[x]
        /\ \A x \in Editor : phase'[x] = IF x = e THEN "push" ELSE phase[x]
    BY <1>1 DEF IInv, TypeOK
  <1> HIDE DEF new
  <1>3. TickKept'
    BY <1>1 DEF Begins, IInv, TickKept, TypeOK
  <1>4. RequestKept(e)'
    <2>1. Active(e)' /\ edit[e]'.kind = "delete" => edit[e]'.to = Gone
      BY <1>2
    <2>2. ASSUME calm'[e], NEW x \in Editor \ {e}, phase'[x] # "idle"
          PROVE  edit'[x].tag # edit'[e].tag
      <3>1. Rivals(t, e) = {}
        BY <1>1, <2>2
      <3>2. phase[x] # "idle" => edit[x].tag # t
        BY <3>1 DEF Rivals
      <3>3. QED
        BY <1>2, <2>2, <3>2
    <2>3. QED
      BY <1>2, <2>1, <2>2 DEF RequestKept
  <1>5. ASSUME NEW x \in Editor \ {e} PROVE RequestKept(x)'
    <2>1. RequestKept(x)
      BY DEF IInv
    <2>2. phase'[x] = phase[x] /\ edit'[x] = edit[x] /\ alone'[x] = alone[x]
          /\ node' = node
      BY <1>1, <1>2 DEF Begins, IInv, TypeOK
    <2>3. ASSUME calm'[x], Active(x)
          PROVE  calm[x] /\ edit[x].tag # t
      BY <1>1, <2>3 DEF Rivals
    <2>4. ASSUME calm'[x], Active(x) PROVE edit[x].tag \in Tag \ {t}
      BY <2>3, <2>4 DEF IInv, TypeOK, Edits
    <2>5. QED
      BY <1>2, <2>1, <2>2, <2>3, <2>4 DEF RequestKept, Mirrored, Confirmed
  <1>6. ASSUME NEW u \in Tag, held'[u] PROVE TagKept(u)'
    <2>1. u # t /\ held[u] /\ wish'[u] = wish[u]
      BY <1>6 DEF Begins, IInv, TypeOK
    <2>2. TagKept(u)
      BY <2>1 DEF IInv, TagKept
    <2>3. EditKept(u)'
      BY <1>2, <2>1, <2>2 DEF TagKept, EditKept, Begins
    <2>4. PrintKept(u)' /\ ReconcileKept(u)' /\ SnapshotKept(u)'
      BY <2>1, <2>2 DEF TagKept, PrintKept, ReconcileKept, SnapshotKept, Begins
    <2>5. QED
      BY <2>3, <2>4 DEF TagKept
  <1>7. QED
    BY <1>3, <1>4, <1>5, <1>6 DEF IInv, TagKept

\* A push touches the inbound of its request only.
LEMMA PushKeeps ==
    ASSUME IInv, TypeOK', NEW e \in Editor, PlanAndPush(e)
    PROVE  IInv'
  <1> DEFINE t == edit[e].tag
  <1>1. /\ phase[e] = "push" /\ t \in Tag /\ RequestKept(e) /\ TypeOK
        /\ edit[e].to \in Inbound \cup {Gone}
    BY DEF IInv, PlanAndPush, TypeOK, Edits
  <1>2. PICK failed \in BOOLEAN, blind \in BOOLEAN :
           /\ Pushed(e, failed, blind)
           /\ node' \in [Tag -> Inbound \cup {Gone}]
           /\ \A u \in Tag \ {t} : /\ node'[u] = node[u]
                                   /\ u \in ids /\ node[u] # Gone => u \in ids'
           /\ /\ ~failed /\ ~blind
              /\ edit[e].kind \in {"add", "update"} => edit[e].to.enable
              => node'[t] = edit[e].to
    <2>1. CASE Silent(e) /\ Pushed(e, FALSE, FALSE) /\ UNCHANGED <<node, ids, faults>>
      BY <1>1, <2>1 DEF Silent, TypeOK
    <2>2. CASE Pushed(e, TRUE, FALSE) /\ UNCHANGED <<node, ids, faults>>
      BY <1>1, <2>2 DEF TypeOK
    <2>3. CASE \E r \in Push(e) : Ending(r) /\ Pushed(e, r.err, r.blind)
      <3>1. PICK r \in Push(e) : Ending(r) /\ Pushed(e, r.err, r.blind)
        BY <2>3
      <3>2. PICK c \in Inbound \cup {Gone} : Touches(r, t, c)
        BY <1>1, <3>1, PushEnds
      <3>3. /\ ~r.err /\ ~r.blind
            /\ edit[e].kind \in {"add", "update"} => edit[e].to.enable
            => r.node[t] = edit[e].to
        BY <1>1, <3>1, PushEnds
      <3>4. QED
        BY <1>1, <3>1, <3>2, <3>3 DEF Ending, Touches, TypeOK
    <2>4. QED
      BY <2>1, <2>2, <2>3 DEF PlanAndPush
  <1> DEFINE new == [kind |-> edit[e].kind, tag |-> edit[e].tag, to |-> edit[e].to,
                     failed |-> failed, blind |-> blind]
             next == IF edit[e].kind = "enable" THEN "return" ELSE "commit"
  <1>3. /\ edit' = [edit EXCEPT ![e] = new]
        /\ phase' = [phase EXCEPT ![e] = next]
    BY <1>2 DEF Pushed, IInv, TypeOK
  <1>4. /\ new.kind = edit[e].kind /\ new.tag = t /\ new.to = edit[e].to
        /\ new.failed = failed /\ new.blind = blind
        /\ \A x \in Editor : edit'[x] = IF x = e THEN new ELSE edit[x]
        /\ \A x \in Editor : phase'[x] = IF x = e THEN next ELSE phase[x]
        /\ \A x \in Editor : edit'[x].tag = edit[x].tag /\ (Active(x)' <=> Active(x))
    BY <1>1, <1>3 DEF TypeOK
  <1> HIDE DEF new
  <1>5. TickKept'
    BY <1>2 DEF Pushed, IInv, TickKept
  <1>6. RequestKept(e)'
    <2>1. Active(e) /\ Active(e)' /\ central' = central /\ calm' = calm
      BY <1>1, <1>2, <1>4 DEF Pushed
    <2>2. Active(e)' /\ edit'[e].kind = "delete" => edit'[e].to = Gone
      BY <1>1, <1>4, <2>1 DEF RequestKept
    <2>3. ASSUME calm[e]
          PROVE  /\ \A x \in Editor \ {e} : Active(x)' => edit'[x].tag # edit'[e].tag
                 /\ edit[e].kind = "enable" => central[t] = edit[e].to
      BY <1>1, <1>4, <2>1, <2>3 DEF RequestKept
    <2>4. ~edit'[e].failed /\ Mirrored(e)' /\ Confirmed(e)' => node'[t] = edit[e].to
      BY <1>2, <1>4 DEF Mirrored, Confirmed
    <2>5. QED
      BY <1>4, <2>1, <2>2, <2>3, <2>4 DEF RequestKept
  <1>7. ASSUME NEW x \in Editor \ {e} PROVE RequestKept(x)'
    <2>1. RequestKept(x)
      BY DEF IInv
    <2>2. /\ phase'[x] = phase[x] /\ edit'[x] = edit[x] /\ alone' = alone
          /\ calm' = calm /\ central' = central
      BY <1>2, <1>4 DEF Pushed
    <2>3. ASSUME calm[x], Active(x) PROVE node'[edit[x].tag] = node[edit[x].tag]
      <3>1. edit[x].tag \in Tag /\ edit[x].tag # t
        BY <1>1, <2>1, <2>3 DEF RequestKept, TypeOK, Edits
      <3>2. QED
        BY <1>2, <3>1
    <2>4. QED
      BY <1>4, <2>1, <2>2, <2>3 DEF RequestKept, Mirrored, Confirmed
  <1>8. ASSUME NEW u \in Tag, held'[u] PROVE TagKept(u)'
    <2>1. held[u] /\ wish' = wish
      BY <1>2, <1>8 DEF Pushed
    <2>2. TagKept(u)
      BY <2>1 DEF IInv, TagKept
    <2>3. u # t
      BY <1>1, <2>2 DEF TagKept, EditKept
    <2>4. node'[u] = node[u] /\ (u \in ids /\ node[u] # Gone => u \in ids')
      BY <1>2, <2>3
    <2>5. EditKept(u)'
      BY <1>2, <1>4, <2>1, <2>2, <2>4 DEF TagKept, EditKept, Pushed
    <2>6. PrintKept(u)' /\ ReconcileKept(u)' /\ SnapshotKept(u)'
      BY <1>2, <2>1, <2>2, <2>4
         DEF TagKept, PrintKept, ReconcileKept, SnapshotKept, Pushed
    <2>7. QED
      BY <2>5, <2>6 DEF TagKept
  <1>9. QED
    BY <1>5, <1>6, <1>7, <1>8 DEF IInv, TagKept

\* The row of a calm request is written once.
LEMMA CommitKeeps ==
    ASSUME IInv, TypeOK', NEW e \in Editor, CommitRow(e)
    PROVE  IInv'
  <1> DEFINE t == edit[e].tag
  <1>1. /\ phase[e] = "commit" /\ t \in Tag /\ RequestKept(e) /\ TypeOK
        /\ central' = [central EXCEPT ![t] = edit[e].to]
        /\ phase' = [phase EXCEPT ![e] = "return"]
        /\ tags \subseteq tags'
    BY DEF IInv, CommitRow, EnsureInboundTagAllowed, TypeOK, Edits
  <1>2. /\ central'[t] = edit[e].to
        /\ \A u \in Tag \ {t} : central'[u] = central[u]
        /\ \A x \in Editor : phase'[x] = IF x = e THEN "return" ELSE phase[x]
        /\ \A x \in Editor : Active(x)' <=> Active(x)
    BY <1>1 DEF TypeOK
  <1>3. TickKept'
    BY DEF CommitRow, IInv, TickKept
  <1>4. RequestKept(e)'
    BY <1>1, <1>2 DEF CommitRow, RequestKept, Mirrored, Confirmed
  <1>5. ASSUME NEW x \in Editor \ {e} PROVE RequestKept(x)'
    <2>1. RequestKept(x)
      BY DEF IInv
    <2>2. ASSUME calm[x], Active(x) PROVE central'[edit[x].tag] = central[edit[x].tag]
      <3>1. edit[x].tag \in Tag /\ edit[x].tag # t
        BY <1>1, <2>1, <2>2 DEF RequestKept, TypeOK, Edits
      <3>2. QED
        BY <1>2, <3>1
    <2>3. QED
      BY <1>2, <2>1, <2>2 DEF CommitRow, RequestKept, Mirrored, Confirmed
  <1>6. ASSUME NEW u \in Tag, held'[u] PROVE TagKept(u)'
    <2>1. held[u] /\ TagKept(u)
      BY <1>6 DEF CommitRow, IInv, TagKept
    <2>2. u # t
      BY <1>1, <2>1 DEF TagKept, EditKept
    <2>3. EditKept(u)'
      BY <1>1, <1>2, <2>1, <2>2 DEF TagKept, EditKept, CommitRow
    <2>4. PrintKept(u)' /\ ReconcileKept(u)' /\ SnapshotKept(u)'
      BY <2>1, <2>2
         DEF TagKept, PrintKept, ReconcileKept, SnapshotKept, CommitRow
    <2>5. QED
      BY <2>3, <2>4 DEF TagKept
  <1>7. QED
    BY <1>3, <1>4, <1>5, <1>6 DEF IInv, TagKept

\* A stamp set now is newer than what a tick under way has seen, if the row's was.
LEMMA StampNews ==
    ASSUME TypeOK, TickKept, dirtyAt' = clock \/ dirtyAt' = dirtyAt
    PROVE  /\ nDirtyAt <= dirtyAt' /\ dirtyAt' <= clock
           /\ dirtyAt' = nDirtyAt => dirtyAt = nDirtyAt
  BY DEF TypeOK, TickKept

\* An edit that is answered and held finds everything as EditsHold says, and no
\* tick under way that could undo it.
LEMMA ReturnKeeps ==
    ASSUME IInv, TypeOK', NEW e \in Editor, Return(e)
    PROVE  IInv'
  <1>0. PICK t \in Tag, c \in Inbound \cup {Gone} : t = edit[e].tag /\ c = edit[e].to
    BY DEF IInv, Return, TypeOK, Edits
  <1>1. /\ phase[e] = "return" /\ t \in Tag /\ RequestKept(e) /\ TypeOK /\ TickKept
        /\ c \in Inbound \cup {Gone}
    BY DEF IInv, Return, TypeOK, Edits
  <1>2. /\ phase' = [phase EXCEPT ![e] = "idle"]
        /\ held' = [held EXCEPT ![t] = Holds(e)]
        /\ wish' = [wish EXCEPT ![t] = IF Holds(e) THEN c ELSE Gone]
        /\ alone' = [alone EXCEPT ![e] = FALSE]
        /\ calm' = [calm EXCEPT ![e] = FALSE]
        /\ edit' = [edit EXCEPT ![e] = NoEdit]
        /\ IF edit[e].failed THEN dirty' = TRUE /\ dirtyAt' = clock
                             ELSE dirty' = dirty /\ dirtyAt' = dirtyAt
    BY <1>0 DEF Return, MarkNodeDirty
  <1>3. /\ ~Active(e)' /\ ~calm'[e]
        /\ \A x \in Editor \ {e} : /\ phase'[x] = phase[x] /\ edit'[x] = edit[x]
                                   /\ alone'[x] = alone[x] /\ calm'[x] = calm[x]
        /\ \A u \in Tag \ {t} : held'[u] = held[u] /\ wish'[u] = wish[u]
        /\ held'[t] = Holds(e)
        /\ Holds(e) => wish'[t] = c
    BY <1>1, <1>2 DEF TypeOK
  <1>4. /\ nDirtyAt <= dirtyAt' /\ dirtyAt' <= clock
        /\ dirtyAt' = nDirtyAt => dirtyAt = nDirtyAt
        /\ dirty => dirty'
    BY <1>1, <1>2, StampNews
  <1>5. TickKept'
    BY <1>1, <1>3, <1>4 DEF Return, TickKept
  <1>6. ASSUME NEW x \in Editor PROVE RequestKept(x)'
    <2>1. CASE x = e
      BY <1>3, <2>1 DEF RequestKept
    <2>2. CASE x # e
      <3>1. RequestKept(x)
        BY DEF IInv
      <3>2. \A y \in Editor : Active(y)' => Active(y) /\ edit'[y] = edit[y]
        BY <1>3
      <3>3. QED
        BY <1>3, <2>2, <3>1, <3>2 DEF Return, RequestKept, Mirrored, Confirmed
    <2>3. QED
      BY <2>1, <2>2
  <1>7. ASSUME NEW u \in Tag \ {t}, held'[u] PROVE TagKept(u)'
    <2>1. held[u] /\ TagKept(u) /\ wish'[u] = wish[u]
      BY <1>3, <1>7 DEF IInv, TagKept
    <2>2. EditKept(u)'
      BY <1>3, <1>4, <2>1 DEF TagKept, EditKept, Return
    <2>3. PrintKept(u)'
      BY <2>1 DEF TagKept, PrintKept, Return
    <2>4. ReconcileKept(u)'
      BY <1>4, <2>1 DEF TagKept, ReconcileKept, Return
    <2>5. SnapshotKept(u)'
      BY <1>4, <2>1, TypeOK' DEF TagKept, SnapshotKept, Return, TypeOK
    <2>6. QED
      BY <2>2, <2>3, <2>4, <2>5 DEF TagKept
  <1>8. ASSUME held'[t] PROVE TagKept(t)'
    <2>1. /\ calm[e] /\ Managed(t) /\ Mirrored(e) /\ Confirmed(e)
          /\ Timely(e) /\ FingerprintFits(t, c) /\ wish'[t] = c
      BY <1>0, <1>3, <1>8 DEF Holds
    <2>2. /\ \A x \in Editor \ {e} : Active(x) => edit[x].tag # t
          /\ central[t] = c
          /\ alone[e] /\ ~edit[e].failed => node[t] = c
      BY <1>0, <1>1, <2>1 DEF RequestKept
    <2>3. edit[e].failed => /\ dirty' = TRUE /\ dirtyAt' = clock
                            /\ Reconciling => clock # nDirtyAt
                            /\ step = "merge" => sawDirty
      BY <1>2, <2>1 DEF Timely
    <2>4. ~edit[e].failed => alone[e] /\ step = "idle"
      BY <1>1, <2>1 DEF Timely, TickKept
    <2>5. EditKept(t)'
      BY <1>0, <1>1, <1>3, <2>1, <2>2, <2>3, <2>4 DEF EditKept, Return
    <2>6. PrintKept(t)'
      BY <2>1 DEF PrintKept, FingerprintFits, Return
    <2>7. ReconcileKept(t)'
      BY <2>3, <2>4 DEF ReconcileKept, Return
    <2>8. SnapshotKept(t)'
      BY <2>3, <2>4 DEF SnapshotKept, Return
    <2>9. QED
      BY <2>5, <2>6, <2>7, <2>8 DEF TagKept
  <1>9. QED
    BY <1>5, <1>6, <1>7, <1>8 DEF IInv, TagKept

-----------------------------------------------------------------------------
(* The tick.                                                               *)

\* Requests do not notice a tick, except that they are no longer alone.
LEMMA TickSparesRequests ==
    ASSUME IInv, UNCHANGED <<editVars, calm, central>>,
           node' = node \/ step # "idle",
           \A x \in Editor : alone'[x] => alone[x]
    PROVE  \A x \in Editor : RequestKept(x)'
  <1> SUFFICES ASSUME NEW x \in Editor PROVE RequestKept(x)'
    OBVIOUS
  <1>1. RequestKept(x) /\ (alone[x] => step = "idle")
    BY DEF IInv, TickKept
  <1>2. QED
    BY <1>1 DEF RequestKept, Mirrored, Confirmed

\* A tick that ends early leaves what a new one needs, as far as the rows go.
LEMMA EarlyEnd ==
    ASSUME IInv, TypeOK', TickOver, UNCHANGED <<dirty, dirtyAt, alone, calm, jobRest>>,
           step # "idle",
           \A u \in Tag : held[u] => /\ dirty \/ node'[u] = wish[u]
                                     /\ wish[u] # Gone /\ pushedFP'[u] = wish[u]
                                        => node'[u] = wish[u]
    PROVE  IInv'
  <1>1. TickKept'
    BY DEF IInv, TickKept, TickOver, TypeOK
  <1>2. \A x \in Editor : RequestKept(x)'
    BY TickSparesRequests
  <1>3. ASSUME NEW u \in Tag, held'[u] PROVE TagKept(u)'
    <2>1. held[u] /\ TagKept(u) /\ wish' = wish
      BY <1>3 DEF IInv, TagKept
    <2>2. EditKept(u)'
      BY <2>1 DEF TagKept, EditKept
    <2>3. PrintKept(u)' /\ ReconcileKept(u)' /\ SnapshotKept(u)'
      BY <2>1 DEF PrintKept, ReconcileKept, SnapshotKept, TickOver
    <2>4. QED
      BY <2>2, <2>3 DEF TagKept
  <1>4. QED
    BY <1>1, <1>2, <1>3 DEF IInv, TagKept

\* The row a tick loads is the row of now: a dirty node is reconciled with all
\* that is held, a clean one has it already.
LEMMA LoadKeeps ==
    ASSUME IInv, TypeOK', LoadRow
    PROVE  IInv'
  <1>1. TickKept'
    BY DEF LoadRow, IInv, TickKept, TypeOK
  <1>2. \A x \in Editor : RequestKept(x)'
    BY TickSparesRequests DEF LoadRow
  <1>3. ASSUME NEW u \in Tag, held'[u] PROVE TagKept(u)'
    <2>1. held[u] /\ TagKept(u)
      BY <1>3 DEF LoadRow, IInv, TagKept
    <2>2. EditKept(u)'
      BY <2>1 DEF TagKept, EditKept, LoadRow
    <2>3. PrintKept(u)' /\ ReconcileKept(u)' /\ SnapshotKept(u)'
      BY <2>1 DEF TagKept, EditKept, PrintKept, ReconcileKept, SnapshotKept, LoadRow
    <2>4. QED
      BY <2>2, <2>3 DEF TagKept
  <1>4. QED
    BY <1>1, <1>2, <1>3 DEF IInv, TagKept

LEMMA ReadKeeps ==
    ASSUME IInv, TypeOK', ReadInbounds
    PROVE  IInv'
  <1>1. TickKept'
    BY DEF ReadInbounds, IInv, TickKept, TypeOK
  <1>2. \A x \in Editor : RequestKept(x)'
    BY TickSparesRequests DEF ReadInbounds
  <1>3. ASSUME NEW u \in Tag, held'[u] PROVE TagKept(u)'
    <2>1. held[u] /\ TagKept(u)
      BY <1>3 DEF ReadInbounds, IInv, TagKept
    <2>2. EditKept(u)'
      BY <2>1 DEF TagKept, EditKept, ReadInbounds
    <2>3. PrintKept(u)' /\ ReconcileKept(u)' /\ SnapshotKept(u)'
      BY <2>1 DEF TagKept, EditKept, PrintKept, ReconcileKept, SnapshotKept, ReadInbounds
    <2>4. QED
      BY <2>2, <2>3 DEF TagKept
  <1>4. QED
    BY <1>1, <1>2, <1>3 DEF IInv, TagKept

LEMMA ListKeeps ==
    ASSUME IInv, TypeOK', ListRemoteTags
    PROVE  IInv'
  <1>1. CASE TickOver
    BY <1>1, EarlyEnd DEF ListRemoteTags, IInv, EditKept, PrintKept
  <1>2. CASE step' = "push" /\ ids' = Present /\ remoteTags' = Present
             /\ UNCHANGED <<nTags, nDirtyAt, inbounds, left, snap, sawDirty, faults>>
    <2>1. TickKept'
      BY <1>2 DEF ListRemoteTags, IInv, TickKept, TypeOK
    <2>2. \A x \in Editor : RequestKept(x)'
      BY TickSparesRequests DEF ListRemoteTags
    <2>3. ASSUME NEW u \in Tag, held'[u] PROVE TagKept(u)'
      <3>1. held[u] /\ TagKept(u)
        BY <2>3 DEF ListRemoteTags, IInv, TagKept
      <3>2. EditKept(u)' /\ PrintKept(u)' /\ SnapshotKept(u)'
        BY <1>2, <3>1 DEF TagKept, EditKept, PrintKept, SnapshotKept, ListRemoteTags
      <3>3. ReconcileKept(u)'
        <4>1. step = "list" /\ TickKept
          BY DEF ListRemoteTags, IInv
        <4>2. ASSUME Knows' PROVE Covers(nTags, u)' /\ inbounds'[u] = wish'[u]
          BY <1>2, <3>1, <4>1, <4>2 DEF TagKept, ReconcileKept, ListRemoteTags
        <4>3. node'[u] # Gone => u \in remoteTags' /\ u \in ids'
          BY <1>2 DEF ListRemoteTags, Present
        <4>4. inbounds'[u] # Gone => u \in left'
          BY <1>2, <4>1 DEF TickKept
        <4>5. QED
          BY <1>2, <4>2, <4>3, <4>4 DEF ReconcileKept
      <3>4. QED
        BY <3>2, <3>3 DEF TagKept
    <2>4. QED
      BY <2>1, <2>2, <2>3 DEF IInv, TagKept
  <1>3. QED
    BY <1>1, <1>2 DEF ListRemoteTags

\* A push of the reconcile: of a row the edit left behind it cannot be mistaken
\* for the edit later, and of the edit itself it brings it to the node.
LEMMA ReconcileKeeps ==
    ASSUME IInv, TypeOK', NEW t \in Tag, ReconcileInbound(t)
    PROVE  IInv'
  <1>1. /\ step = "push" /\ t \in left /\ dirty /\ TypeOK /\ TickKept
        /\ inbounds[t] # Gone /\ inbounds[t] \in Inbound \cup {Gone}
        /\ UNCHANGED <<dirty, dirtyAt, alone, calm, jobRest>>
    BY DEF ReconcileInbound, IInv, TickKept, TypeOK
  <1>2. CASE /\ Unchanged(t) /\ left' = left \ {t}
             /\ UNCHANGED <<remoteVars, step, nTags, nDirtyAt, inbounds, remoteTags,
                            snap, sawDirty, faults>>
    <2>1. TickKept'
      BY <1>1, <1>2 DEF TickKept
    <2>2. \A x \in Editor : RequestKept(x)'
      BY <1>1, <1>2, TickSparesRequests
    <2>3. ASSUME NEW u \in Tag, held'[u] PROVE TagKept(u)'
      <3>1. held[u] /\ TagKept(u)
        BY <1>1, <2>3 DEF IInv, TagKept
      <3>2. EditKept(u)' /\ PrintKept(u)' /\ SnapshotKept(u)'
        BY <1>1, <1>2, <3>1 DEF TagKept, EditKept, PrintKept, SnapshotKept
      <3>3. ReconcileKept(u)'
        BY <1>1, <1>2, <3>1 DEF TagKept, ReconcileKept, PrintKept, Unchanged
      <3>4. QED
        BY <3>2, <3>3 DEF TagKept
    <2>4. QED
      BY <2>1, <2>2, <2>3 DEF IInv, TagKept
  <1>3. ASSUME NEW r \in RemoteUpdate(t, inbounds[t]), Ending(r),
               r.err, TickOver, pushedFP' = pushedFP
        PROVE  IInv'
    <2>1. node' = r.node /\ Does(r, t, inbounds[t])
      BY <1>1, <1>3, Updated DEF Ending, TypeOK
    <2>2. ASSUME NEW u \in Tag, held[u], wish[u] # Gone, pushedFP[u] = wish[u]
          PROVE  node'[u] = wish[u]
      <3>1. node[u] = wish[u] /\ inbounds[u] = wish[u]
        BY <1>1, <2>2 DEF IInv, PrintKept
      <3>2. QED
        BY <1>1, <2>1, <3>1 DEF Does, Touches, TypeOK
    <2>3. QED
      BY <1>1, <1>3, <2>2, EarlyEnd
  <1>4. ASSUME NEW r \in RemoteUpdate(t, inbounds[t]), Ending(r), ~r.err,
               pushedFP' = [pushedFP EXCEPT ![t] = inbounds[t]],
               left' = left \ {t},
               UNCHANGED <<step, nTags, nDirtyAt, inbounds, remoteTags, snap, sawDirty>>
        PROVE  IInv'
    <2>1. /\ node' = r.node /\ ids' = r.ids
          /\ Does(r, t, inbounds[t])
      BY <1>1, <1>4, Updated DEF Ending, TypeOK
    <2>2. /\ node'[t] = inbounds[t] /\ pushedFP'[t] = inbounds[t]
          /\ \A u \in Tag \ {t} : /\ node'[u] = node[u] /\ pushedFP'[u] = pushedFP[u]
                                  /\ u \in ids /\ node[u] # Gone => u \in ids'
      BY <1>1, <1>4, <2>1 DEF Does, Touches, TypeOK
    <2>3. TickKept'
      BY <1>1, <1>4 DEF TickKept
    <2>4. \A x \in Editor : RequestKept(x)'
      BY <1>1, <1>4, TickSparesRequests
    <2>5. ASSUME NEW u \in Tag, held'[u] PROVE TagKept(u)'
      <3>1. held[u] /\ TagKept(u)
        BY <1>1, <2>5 DEF IInv, TagKept
      <3>2. EditKept(u)' /\ SnapshotKept(u)'
        BY <1>1, <1>4, <3>1 DEF TagKept, EditKept, SnapshotKept
      <3>3. CASE u = t
        BY <1>1, <1>4, <2>2, <3>1, <3>2, <3>3 DEF TagKept, PrintKept, ReconcileKept
      <3>4. CASE u # t
        BY <1>1, <1>4, <2>2, <3>1, <3>2, <3>4 DEF TagKept, PrintKept, ReconcileKept
      <3>5. QED
        BY <3>3, <3>4
    <2>6. QED
      BY <2>3, <2>4, <2>5 DEF IInv, TagKept
  <1>5. QED
    BY <1>2, <1>3, <1>4 DEF ReconcileInbound

\* The sweep takes what the node has and the panel has not.
LEMMA StartKeeps ==
    ASSUME IInv, TypeOK', StartSweep
    PROVE  IInv'
  <1>1. TickKept'
    BY DEF StartSweep, Unwanted, IInv, TickKept
  <1>2. \A x \in Editor : RequestKept(x)'
    BY TickSparesRequests DEF StartSweep
  <1>3. ASSUME NEW u \in Tag, held'[u] PROVE TagKept(u)'
    <2>1. held[u] /\ TagKept(u)
      BY <1>3 DEF StartSweep, IInv, TagKept
    <2>2. EditKept(u)' /\ PrintKept(u)' /\ SnapshotKept(u)'
      BY <2>1 DEF TagKept, EditKept, PrintKept, SnapshotKept, StartSweep
    <2>3. ReconcileKept(u)'
      BY <2>1 DEF TagKept, ReconcileKept, StartSweep, Unwanted
    <2>4. QED
      BY <2>2, <2>3 DEF TagKept
  <1>4. QED
    BY <1>1, <1>2, <1>3 DEF IInv, TagKept

\* A delete of the sweep that knows the id is done when it does not fail.
LEMMA SweepKeeps ==
    ASSUME IInv, TypeOK', NEW t \in Tag, SweepTag(t)
    PROVE  IInv'
  <1>1. /\ step = "sweep" /\ t \in left /\ dirty /\ TypeOK /\ TickKept
        /\ inbounds[t] = Gone
        /\ UNCHANGED <<dirty, dirtyAt, pushedFP, alone, calm, jobRest>>
    BY DEF SweepTag, IInv, TickKept, TypeOK
  <1>2. PICK r \in RemoteDel(t) :
           /\ Ending(r)
           /\ \/ r.err /\ TickOver
              \/ /\ ~r.err
                 /\ left' = left \ {t}
                 /\ UNCHANGED <<step, nTags, nDirtyAt, inbounds, remoteTags, snap,
                                sawDirty>>
    BY DEF SweepTag
  <1>3. /\ node' = r.node /\ ids' = r.ids /\ Touches(r, t, Gone)
        /\ ~r.err /\ t \in ids => r.node[t] = Gone
    BY <1>1, <1>2, Deleted DEF Ending, TypeOK
  <1>4. /\ node'[t] \in {node[t], Gone}
        /\ ~r.err /\ t \in ids => node'[t] = Gone
        /\ \A u \in Tag \ {t} : /\ node'[u] = node[u]
                                /\ u \in ids /\ node[u] # Gone => u \in ids'
    BY <1>1, <1>3 DEF Touches, TypeOK
  <1>5. CASE r.err /\ TickOver
    <2>1. ASSUME NEW u \in Tag, held[u], wish[u] # Gone, pushedFP[u] = wish[u]
          PROVE  node'[u] = wish[u]
      <3>1. node[u] = wish[u] /\ inbounds[u] = wish[u]
        BY <1>1, <2>1 DEF IInv, PrintKept
      <3>2. u # t
        BY <1>1, <2>1, <3>1
      <3>3. QED
        BY <1>4, <3>1, <3>2
    <2>2. QED
      BY <1>1, <1>5, <2>1, EarlyEnd
  <1>6. CASE /\ ~r.err /\ left' = left \ {t}
             /\ UNCHANGED <<step, nTags, nDirtyAt, inbounds, remoteTags, snap, sawDirty>>
    <2>1. TickKept'
      BY <1>1, <1>6 DEF TickKept
    <2>2. \A x \in Editor : RequestKept(x)'
      BY <1>1, <1>6, TickSparesRequests
    <2>3. ASSUME NEW u \in Tag, held'[u] PROVE TagKept(u)'
      <3>1. held[u] /\ TagKept(u)
        BY <1>1, <2>3 DEF IInv, TagKept
      <3>2. EditKept(u)' /\ SnapshotKept(u)'
        BY <1>1, <1>6, <3>1 DEF TagKept, EditKept, SnapshotKept
      <3>3. CASE u = t
        BY <1>1, <1>4, <1>6, <3>1, <3>2, <3>3 DEF TagKept, PrintKept, ReconcileKept
      <3>4. CASE u # t
        BY <1>1, <1>4, <1>6, <3>1, <3>2, <3>4 DEF TagKept, PrintKept, ReconcileKept
      <3>5. QED
        BY <3>3, <3>4
    <2>4. QED
      BY <2>1, <2>2, <2>3 DEF IInv, TagKept
  <1>7. QED
    BY <1>2, <1>5, <1>6

\* The flag goes down when all that is held has reached the node.
LEMMA ClearKeeps ==
    ASSUME IInv, TypeOK', ClearNodeDirty
    PROVE  IInv'
  <1>1. TickKept'
    BY DEF ClearNodeDirty, IInv, TickKept, TypeOK
  <1>2. \A x \in Editor : RequestKept(x)'
    BY TickSparesRequests DEF ClearNodeDirty
  <1>3. ASSUME NEW u \in Tag, held'[u] PROVE TagKept(u)'
    <2>1. held[u] /\ TagKept(u)
      BY <1>3 DEF ClearNodeDirty, IInv, TagKept
    <2>2. ~dirty' => Covers(nTags, u) /\ node[u] = wish[u]
      <3>1. step = "sweep" /\ left = {} /\ dirty
        BY DEF ClearNodeDirty, IInv, TickKept
      <3>2. ~dirty' => dirtyAt = nDirtyAt
        BY <3>1 DEF ClearNodeDirty, Cleared
      <3>3. QED
        BY <2>1, <3>1, <3>2 DEF TagKept, ReconcileKept
    <2>3. EditKept(u)'
      BY <2>1, <2>2 DEF TagKept, EditKept, ClearNodeDirty
    <2>4. PrintKept(u)' /\ ReconcileKept(u)' /\ SnapshotKept(u)'
      BY <2>1, <2>2 DEF TagKept, PrintKept, ReconcileKept, SnapshotKept, ClearNodeDirty
    <2>5. QED
      BY <2>3, <2>4 DEF TagKept
  <1>4. QED
    BY <1>1, <1>2, <1>3 DEF IInv, TagKept

\* A snapshot of a clean node has all that is held.
LEMMA FetchKeeps ==
    ASSUME IInv, TypeOK', FetchTrafficSnapshot
    PROVE  IInv'
  <1>1. CASE TickOver
    BY <1>1, EarlyEnd DEF FetchTrafficSnapshot, IInv, EditKept, PrintKept
  <1>2. CASE step' = "check" /\ snap' = Filtered(node)
             /\ UNCHANGED <<nTags, nDirtyAt, inbounds, remoteTags, left, sawDirty>>
    <2>1. TickKept'
      BY <1>2 DEF FetchTrafficSnapshot, IInv, TickKept
    <2>2. \A x \in Editor : RequestKept(x)'
      BY TickSparesRequests DEF FetchTrafficSnapshot
    <2>3. ASSUME NEW u \in Tag, held'[u] PROVE TagKept(u)'
      <3>1. held[u] /\ TagKept(u)
        BY <2>3 DEF FetchTrafficSnapshot, IInv, TagKept
      <3>2. EditKept(u)' /\ PrintKept(u)' /\ ReconcileKept(u)'
        BY <1>2, <3>1 DEF TagKept, EditKept, PrintKept, ReconcileKept, FetchTrafficSnapshot
      <3>3. snap'[u] = IF Covers(nTags, u) THEN node[u] ELSE Gone
        BY <1>2 DEF Filtered
      <3>4. SnapshotKept(u)'
        BY <1>2, <3>1, <3>3 DEF TagKept, EditKept, SnapshotKept, FetchTrafficSnapshot
      <3>5. QED
        BY <3>2, <3>4 DEF TagKept
    <2>4. QED
      BY <2>1, <2>2, <2>3 DEF IInv, TagKept
  <1>3. QED
    BY <1>1, <1>2 DEF FetchTrafficSnapshot

LEMMA CheckKeeps ==
    ASSUME IInv, TypeOK', ReadDirty
    PROVE  IInv'
  <1>1. TickKept'
    BY DEF ReadDirty, IInv, TickKept
  <1>2. \A x \in Editor : RequestKept(x)'
    BY TickSparesRequests DEF ReadDirty
  <1>3. ASSUME NEW u \in Tag, held'[u] PROVE TagKept(u)'
    <2>1. held[u] /\ TagKept(u)
      BY <1>3 DEF ReadDirty, IInv, TagKept
    <2>2. EditKept(u)'
      BY <2>1 DEF TagKept, EditKept, ReadDirty
    <2>3. PrintKept(u)' /\ ReconcileKept(u)' /\ SnapshotKept(u)'
      BY <2>1 DEF TagKept, PrintKept, ReconcileKept, SnapshotKept, ReadDirty
    <2>4. QED
      BY <2>2, <2>3 DEF TagKept
  <1>4. QED
    BY <1>1, <1>2, <1>3 DEF IInv, TagKept

\* A merge gives the panel back what is held, and takes calm from every request
\* whose row it may have changed.
LEMMA MergeKeeps ==
    ASSUME IInv, TypeOK', SetRemoteTraffic
    PROVE  IInv'
  <1>1. /\ step = "merge" /\ TickOver
        /\ UNCHANGED <<rowVars, remoteVars, editVars, bounds, alone, held, wish>>
        /\ sawDirty => central' = central /\ calm' = calm
        /\ ~sawDirty => central' = snap /\ calm' = [x \in Editor |-> FALSE]
    BY DEF SetRemoteTraffic, Merged, TypeOK
  <1>2. TickKept'
    BY <1>1 DEF IInv, TickKept, TickOver, TypeOK
  <1>3. ASSUME NEW x \in Editor PROVE RequestKept(x)'
    <2>1. RequestKept(x)
      BY DEF IInv
    <2>2. QED
      BY <1>1, <2>1, TypeOK' DEF RequestKept, Mirrored, Confirmed, IInv, TypeOK
  <1>4. ASSUME NEW u \in Tag, held'[u] PROVE TagKept(u)'
    <2>1. held[u] /\ TagKept(u)
      BY <1>1, <1>4 DEF IInv, TagKept
    <2>2. central'[u] = wish[u]
      BY <1>1, <2>1 DEF TagKept, EditKept, SnapshotKept, IInv, TypeOK
    <2>3. EditKept(u)'
      BY <1>1, <2>1, <2>2 DEF TagKept, EditKept
    <2>4. PrintKept(u)' /\ ReconcileKept(u)' /\ SnapshotKept(u)'
      BY <1>1, <2>1 DEF TagKept, PrintKept, ReconcileKept, SnapshotKept, TickOver
    <2>5. QED
      BY <2>3, <2>4 DEF TagKept
  <1>5. QED
    BY <1>2, <1>3, <1>4 DEF IInv, TagKept

-----------------------------------------------------------------------------
(* What else happens.                                                      *)

\* A heartbeat and the clock change nothing the invariant speaks of, but for
\* the clock being ahead of every stamp.
LEMMA QuietKeeps ==
    ASSUME IInv, TypeOK', clock' = clock \/ clock' = clock + 1,
           UNCHANGED <<central, mode, tags, dirty, dirtyAt, remoteVars, jobVars,
                       editVars, auxVars>>
    PROVE  IInv'
  <1>1. TickKept'
    BY DEF IInv, TypeOK, TickKept
  <1>2. \A x \in Editor : RequestKept(x)'
    BY TickSparesRequests
  <1>3. ASSUME NEW u \in Tag, held'[u] PROVE TagKept(u)'
    <2>1. held[u] /\ TagKept(u)
      BY <1>3 DEF IInv, TagKept
    <2>2. EditKept(u)'
      BY <2>1 DEF TagKept, EditKept
    <2>3. PrintKept(u)' /\ ReconcileKept(u)' /\ SnapshotKept(u)'
      BY <2>1 DEF TagKept, PrintKept, ReconcileKept, SnapshotKept
    <2>4. QED
      BY <2>2, <2>3 DEF TagKept
  <1>4. QED
    BY <1>1, <1>2, <1>3 DEF IInv, TagKept

\* The node's operator takes the inbound out of what is held.
LEMMA NodeEditKeeps ==
    ASSUME IInv, TypeOK', NEW t \in Tag, NEW c \in Inbound \cup {Gone}, NodeEdit(t, c)
    PROVE  IInv'
  <1>1. /\ \A u \in Tag \ {t} : /\ node'[u] = node[u] /\ held'[u] = held[u]
                                /\ wish'[u] = wish[u]
        /\ ~held'[t]
        /\ \A x \in Editor : calm'[x] => calm[x] /\ (Active(x) => edit[x].tag # t)
    BY DEF NodeEdit, IInv, TypeOK
  <1>2. TickKept'
    BY DEF NodeEdit, IInv, TickKept
  <1>3. ASSUME NEW x \in Editor PROVE RequestKept(x)'
    <2>1. RequestKept(x)
      BY DEF IInv
    <2>2. ASSUME calm'[x], Active(x) PROVE calm[x] /\ node'[edit[x].tag] = node[edit[x].tag]
      <3>1. edit[x].tag \in Tag \ {t}
        BY <1>1, <2>2 DEF IInv, TypeOK, Edits
      <3>2. QED
        BY <1>1, <2>2, <3>1
    <2>3. QED
      BY <2>1, <2>2 DEF NodeEdit, RequestKept, Mirrored, Confirmed
  <1>4. ASSUME NEW u \in Tag, held'[u] PROVE TagKept(u)'
    <2>1. u # t /\ held[u] /\ TagKept(u)
      BY <1>1, <1>4 DEF IInv, TagKept
    <2>2. EditKept(u)'
      BY <1>1, <2>1 DEF NodeEdit, TagKept, EditKept
    <2>3. PrintKept(u)' /\ ReconcileKept(u)' /\ SnapshotKept(u)'
      BY <1>1, <2>1 DEF NodeEdit, TagKept, PrintKept, ReconcileKept, SnapshotKept
    <2>4. QED
      BY <2>2, <2>3 DEF TagKept
  <1>5. QED
    BY <1>2, <1>3, <1>4 DEF IInv, TagKept

\* What is held is in the two databases, and needs nothing a crash takes away.
LEMMA RestartKeeps ==
    ASSUME IInv, TypeOK', Restart
    PROVE  IInv'
  <1>1. TickKept'
    BY DEF Restart, TickOver, IInv, TickKept, TypeOK
  <1>2. ASSUME NEW x \in Editor PROVE RequestKept(x)'
    BY DEF Restart, RequestKept
  <1>3. ASSUME NEW u \in Tag, held'[u] PROVE TagKept(u)'
    <2>1. held[u] /\ TagKept(u)
      BY <1>3 DEF Restart, IInv, TagKept
    <2>2. EditKept(u)'
      BY <2>1 DEF Restart, TagKept, EditKept
    <2>3. PrintKept(u)' /\ ReconcileKept(u)' /\ SnapshotKept(u)'
      BY DEF Restart, TickOver, AllGone, PrintKept, ReconcileKept, SnapshotKept
    <2>4. QED
      BY <2>2, <2>3 DEF TagKept
  <1>4. QED
    BY <1>1, <1>2, <1>3 DEF IInv, TagKept

-----------------------------------------------------------------------------
(* The theorems.                                                           *)

LEMMA InvInit == Init => IInv
  <1> SUFFICES ASSUME Init PROVE IInv
    OBVIOUS
  <1>1. TypeOK
    BY TypeInit
  <1>2. TickKept
    BY DEF Init, TickKept
  <1>3. \A x \in Editor : RequestKept(x)
    BY DEF Init, RequestKept
  <1>4. \A u \in Tag : ~held[u]
    BY DEF Init
  <1>5. QED
    BY <1>1, <1>2, <1>3, <1>4 DEF IInv

LEMMA InvNext == IInv /\ [Next]_vars => IInv'
  <1> SUFFICES ASSUME IInv, [Next]_vars PROVE IInv'
    OBVIOUS
  <1>1. TypeOK /\ \A e \in Editor : RequestKept(e)
    BY DEF IInv
  <1>2. ASSUME NEW e \in Editor, EditBegins(e) PROVE IInv'
    <2>1. TypeOK'
      BY <1>1, <1>2, TypeEdit
    <2>2. ASSUME NEW t \in Tag, NEW c \in Inbound, AddInbound(e, t, c) PROVE IInv'
      <3>1. tags \subseteq tags'
        BY <2>2 DEF AddInbound, EnsureInboundTagAllowed
      <3>2. QED
        BY <2>1, <2>2, <3>1, BeginKeeps DEF AddInbound, Kinds
    <2>3. ASSUME NEW t \in Tag, NEW c \in Inbound, UpdateInbound(e, t, c) PROVE IInv'
      BY <2>1, <2>3, BeginKeeps DEF UpdateInbound, Kinds
    <2>4. ASSUME NEW t \in Tag, SetInboundEnable(e, t) PROVE IInv'
      <3>1. PICK c \in Inbound : /\ Begins(e, "enable", t, c)
                                 /\ central' = [central EXCEPT ![t] = c]
                                 /\ tags' = tags
        <4> DEFINE d == [version |-> central[t].version, enable |-> ~central[t].enable]
        <4>1. d \in Inbound
          BY <1>1, <2>4 DEF SetInboundEnable, TypeOK, Inbound
        <4>2. Begins(e, "enable", t, d) /\ central' = [central EXCEPT ![t] = d]
              /\ tags' = tags
          BY <2>4 DEF SetInboundEnable
        <4> HIDE DEF d
        <4>3. QED
          BY <4>1, <4>2
      <3>2. central'[t] = c /\ \A u \in Tag \ {t} : central'[u] = central[u]
        BY <1>1, <3>1 DEF TypeOK
      <3>3. QED
        BY <2>1, <3>1, <3>2, BeginKeeps DEF Kinds
    <2>5. ASSUME NEW t \in Tag, DelInbound(e, t) PROVE IInv'
      BY <2>1, <2>5, BeginKeeps DEF DelInbound, Kinds
    <2>6. QED
      BY <1>2, <2>2, <2>3, <2>4, <2>5 DEF EditBegins
  <1>3. ASSUME NEW e \in Editor, EditStep(e) PROVE IInv'
    <2>1. TypeOK'
      BY <1>1, <1>3, TypeEdit
    <2>2. QED
      BY <1>3, <2>1, PushKeeps, CommitKeeps, ReturnKeeps DEF EditStep
  <1>4. ASSUME LoadRow \/ SyncStep PROVE IInv'
    <2>1. TypeOK'
      BY <1>1, <1>4, TypeSync
    <2>2. QED
      BY <1>4, <2>1, LoadKeeps, ReadKeeps, ListKeeps, ReconcileKeeps, StartKeeps,
         SweepKeeps, ClearKeeps, FetchKeeps, CheckKeeps, MergeKeeps DEF SyncStep
  <1>5. ASSUME (\E s \in {"online", "offline"} : Heartbeat(s))
               \/ NodeOperator \/ Restart \/ Tick \/ UNCHANGED vars
        PROVE  IInv'
    <2>1. TypeOK'
      BY <1>1, <1>5, TypeEnvironment
    <2>2. ASSUME NEW s \in {"online", "offline"}, Heartbeat(s) PROVE IInv'
      BY <2>1, <2>2, QuietKeeps DEF Heartbeat
    <2>3. ASSUME Tick PROVE IInv'
      BY <2>1, <2>3, QuietKeeps DEF Tick
    <2>4. ASSUME UNCHANGED vars PROVE IInv'
      BY <2>1, <2>4, QuietKeeps DEF vars
    <2>5. QED
      BY <1>5, <2>1, <2>2, <2>3, <2>4, NodeEditKeeps, RestartKeeps DEF NodeOperator
  <1>6. QED
    BY <1>2, <1>3, <1>4, <1>5 DEF Next

\* The invariant holds of every state of the panel and its node.
THEOREM Invariance == Spec => []IInv
  <1>1. QED
    BY InvInit, InvNext, PTL DEF Spec

\* Every variable keeps its type: in particular no request and no tick goes on
\* from a place the code does not have (PlanAndPush, syncOne).
THEOREM TypeCorrect == Spec => []TypeOK
  <1>1. IInv => TypeOK
    BY DEF IInv
  <1>2. QED
    BY <1>1, Invariance, PTL

\* A held edit is on the node, or the node is dirty and the panel has the edit,
\* whatever requests, ticks, crashes and lost answers come after it
\* (SetRemoteTraffic, ReconcileNode, ClearNodeDirty).
THEOREM EditsAreHeld == Spec => []EditsHold
  <1>1. IInv => EditsHold
    BY DEF IInv, EditKept, EditsHold
  <1>2. QED
    BY <1>1, Invariance, PTL

=============================================================================
