------------------------ MODULE TrafficAccountingProofs ------------------------
(***************************************************************************)
(* Proofs about TrafficAccounting, for any clients and inbounds, any       *)
(* number of edits, and any traffic.                                       *)
(***************************************************************************)
EXTENDS TrafficAccounting, TLAPS

USE DEF Expiries
--------------------------------------------------------------------------------
(***************************************************************************)
(* What the writes do to a database.                                       *)
(***************************************************************************)
\* SyncInbound sees attached clients only.
LEMMA LastOfSome ==
    ASSUME NEW I \in SUBSET Inbounds, I # {}
    PROVE  Last(I) \in I
BY ConstantsAssumption DEF Last

\* A sync of inbounds that agree with the record changes nothing.
LEMMA SyncedKeeps ==
    ASSUME NEW recOn, NEW setOn, NEW I \in SUBSET Inbounds, NEW e \in Clients,
           \A i \in Of(e) : e \in setOn[i] <=> e \in recOn
    PROVE  e \in Synced(recOn, setOn, I) <=> e \in recOn
<1>1. CASE Of(e) \cap I = {}
  BY <1>1 DEF Synced
<1>2. CASE Of(e) \cap I # {}
  <2>1. Last(Of(e) \cap I) \in Of(e) \cap I
    BY <1>2, LastOfSome DEF Of
  <2>2. QED  BY <1>2, <2>1 DEF Synced
<1>3. QED  BY <1>1, <1>2

\* After the sync of one inbound the record says what its settings say.
LEMMA SyncedOne ==
    ASSUME NEW recOn, NEW setOn, NEW e \in Clients, NEW i \in Of(e)
    PROVE  e \in Synced(recOn, setOn, {i}) <=> e \in setOn[i]
<1>1. Of(e) \cap {i} = {i}  OBVIOUS
<1>2. Last({i}) = i
  BY LastOfSome DEF Of
<1>3. QED  BY <1>1, <1>2 DEF Synced

\* Each write makes a database of a database.
LEMMA AddedWell ==
    ASSUME NEW d, WellFormed(d), NEW who \in SUBSET Clients,
           NEW bytes \in [Clients -> Nat]
    PROVE  WellFormed(Added(d, who, bytes))
BY DEF WellFormed, Db, Added, Synced

LEMMA RenewedWell ==
    ASSUME NEW d, WellFormed(d)
    PROVE  WellFormed(Renewed(d))
<1>1. EnabledAgain(d) \in [Inbounds -> SUBSET Clients]
  BY ConstantsAssumption DEF WellFormed, Db, EnabledAgain
<1>2. \A i \in Inbounds : EnabledAgain(d)[i] \subseteq Attached[i]
  BY DEF WellFormed, Db, EnabledAgain
<1>3. Due(d) \subseteq Clients
  BY ConstantsAssumption DEF Due
<1>4. QED  BY <1>1, <1>2, <1>3 DEF WellFormed, Db, Renewed, Synced

LEMMA DisabledWell ==
    ASSUME NEW d, WellFormed(d)
    PROVE  WellFormed(Disabled(d))
BY DEF WellFormed, Db, Disabled

LEMMA EditedWell ==
    ASSUME NEW d, WellFormed(d), NEW t \in Edits, t.client \in Clients,
           t.inbound \in Of(t.client), t.copy \subseteq Attached[t.inbound]
    PROVE  WellFormed(Edited(d, t))
BY DEF WellFormed, Db, Edits, Edited, Synced, Of

LEMMA ZeroedWell ==
    ASSUME NEW d, WellFormed(d), NEW S \in SUBSET Clients
    PROVE  WellFormed(Zeroed(d, S))
BY DEF WellFormed, Db, Zeroed

\* A client whose places agree agrees after the polled bytes have been added,
LEMMA AddedAgrees ==
    ASSUME NEW d, NEW who, NEW bytes, NEW e \in Clients, Agrees(d, e)
    PROVE  Agrees(Added(d, who, bytes), e)
BY SyncedKeeps DEF Agrees, Added, Hosting

\* after renewals, unless it is itself renewed by half,
LEMMA RenewedAgrees ==
    ASSUME NEW d, WellFormed(d), NEW e \in Clients, Agrees(d, e),
           e \notin HalfRenewed(d)
    PROVE  Agrees(Renewed(d), e)
<1> DEFINE new == EnabledAgain(d)
<1>1. PICK k \in Inbounds : k \in Of(e)
  BY ConstantsAssumption DEF Of
<1>2. CASE e \in Due(d) \ d.rowOn
  <2>1. Of(e) = {k}
    BY <1>1, <1>2 DEF HalfRenewed
  <2>2. First(Of(e)) = k
    BY <2>1, ConstantsAssumption DEF First
  <2>3. e \in new[k]
    BY <1>1, <1>2, <2>2 DEF EnabledAgain, Of
  <2>4. k \in Hosting(Due(d))
    BY <1>1, <1>2 DEF Hosting, Of
  <2>5. Of(e) \cap Hosting(Due(d)) = {k}
    BY <2>1, <2>4
  <2>6. e \in Renewed(d).recOn
    BY <2>3, <2>5, LastOfSome DEF Renewed, Synced, Of
  <2>7. QED  BY <2>1, <2>3, <2>6, <1>2 DEF Agrees, Renewed
<1>3. CASE e \notin Due(d) \ d.rowOn
  <2>1. \A i \in Of(e) : e \in new[i] <=> e \in d.setOn[i]
    BY <1>3 DEF EnabledAgain, Of
  <2>2. e \in Synced(d.recOn, new, Hosting(Due(d))) <=> e \in d.recOn
    BY <2>1, SyncedKeeps DEF Agrees, Hosting
  <2>3. QED  BY <2>1, <2>2 DEF Agrees, Renewed
<1>4. QED  BY <1>2, <1>3

\* and after disables, and whoever is disabled agrees anyhow.
LEMMA DisabledAgrees ==
    ASSUME NEW d, WellFormed(d), NEW e \in Clients,
           Agrees(d, e) \/ e \in Spent(d)
    PROVE  Agrees(Disabled(d), e)
BY DEF WellFormed, Db, Disabled, Agrees, Of

\* A reset only raises rows.
LEMMA ZeroedAgrees ==
    ASSUME NEW d, WellFormed(d), NEW S, NEW e \in Clients, Agrees(d, e)
    PROVE  Agrees(Zeroed(d, S), e)
BY DEF WellFormed, Db, Zeroed, Agrees
--------------------------------------------------------------------------------
(***************************************************************************)
(* The inductive invariant.                                                *)
(***************************************************************************)
\* What the next fetch would report of a client, and what has been fetched and
\* not applied, together are still owed to it.
Uncollected(e) ==
    IF e \in seen /\ counter[e] >= last[e] THEN counter[e] - last[e] ELSE 0
Counting ==
    /\ poll = "idle" => delta = Zero
    /\ \A e \in Clients : delta[e] + Uncollected(e) <= owed[e]

\* An update that has written nothing yet has set nothing apart either.
Untouched(e) == ~Updating(e) \/ edit.todo = Of(e)
Consistent == \A e \in Clients \ torn : Untouched(e) => Agrees(db, e)

\* The inbounds an update has written say what it says, unless it is disturbed.
Written ==
    edit.at \in {"next", "copied"} /\ ~edit.disturbed =>
        \A i \in Of(edit.client) \ edit.todo :
            edit.client \in db.setOn[i] <=> edit.on

\* A reset enables; and once it comes to the rows, the record is enabled.
Enabling ==
    /\ edit.reset => edit.on
    /\ edit.at = "zero" /\ ~edit.disturbed /\ edit.client \notin torn
       => edit.client \in db.recOn

\* addTrafficLocked, on the database d that has the polled bytes
LEMMA MaintainTypes ==
    ASSUME TypeOK, NEW d, WellFormed(d), Maintain(d)
    PROVE  /\ WellFormed(db') /\ torn' \subseteq Clients /\ edit' \in Edits
           /\ edit' = [edit EXCEPT !.disturbed = edit'.disturbed]
<1>1. WellFormed(Renewed(d))
  BY RenewedWell
<1>2. WellFormed(db')
  BY <1>1, DisabledWell DEF Maintain
<1>3. torn' \subseteq Clients
  BY ConstantsAssumption DEF TypeOK, Maintain, HalfRenewed, Due
<1>4. /\ edit' \in Edits
      /\ edit' = [edit EXCEPT !.disturbed = edit'.disturbed]
  BY DEF TypeOK, Maintain, Edits
<1>5. QED  BY <1>2, <1>3, <1>4

LEMMA MaintainKeeps ==
    ASSUME TypeOK, Consistent, Written, Enabling,
           NEW d, WellFormed(d), d.setOn = db.setOn,
           \A e \in Clients : Agrees(db, e) => Agrees(d, e),
           Maintain(d)
    PROVE  Consistent' /\ Written' /\ Enabling'
<1> DEFINE r == Renewed(d)
<1>1. /\ db' = Disabled(r)
      /\ torn' = (torn \cup HalfRenewed(d)) \ Spent(r)
      /\ edit'.disturbed = (edit.disturbed \/ edit.client \in Due(d) \cup Spent(r))
      /\ edit'.at = edit.at /\ edit'.client = edit.client /\ edit'.on = edit.on
      /\ edit'.todo = edit.todo /\ edit'.reset = edit.reset
  BY DEF TypeOK, Edits, Maintain
<1>2. WellFormed(r)
  BY RenewedWell
<1>3. Consistent'
  <2> SUFFICES ASSUME NEW e \in Clients, e \notin torn', Untouched(e)'
               PROVE  Agrees(db, e)'
    BY DEF Consistent
  <2>1. CASE e \in Spent(r)
    BY <1>1, <1>2, <2>1, DisabledAgrees DEF Agrees
  <2>2. CASE e \notin Spent(r)
    <3>1. e \notin torn /\ e \notin HalfRenewed(d)
      BY <1>1, <2>2
    <3>2. Agrees(d, e)
      BY <1>1, <3>1 DEF Consistent, Untouched, Updating
    <3>3. Agrees(r, e)
      BY <3>1, <3>2, RenewedAgrees
    <3>4. QED  BY <1>1, <1>2, <3>3, DisabledAgrees DEF Agrees
  <2>3. QED  BY <2>1, <2>2
<1>4. Written'
  <2> SUFFICES ASSUME edit.at \in {"next", "copied"}, ~edit'.disturbed,
                      NEW i \in Of(edit.client) \ edit.todo
               PROVE  edit.client \in db'.setOn[i] <=> edit.on
    BY <1>1 DEF Written, Of
  <2>1. edit.client \notin Due(d) /\ edit.client \notin Spent(r) /\ ~edit.disturbed
    BY <1>1
  <2>2. edit.client \in db'.setOn[i] <=> edit.client \in d.setOn[i]
    BY <1>1, <2>1 DEF Disabled, Renewed, EnabledAgain, Of
  <2>3. QED  BY <2>1, <2>2 DEF Written
<1>5. Enabling'
  <2>1. edit'.reset => edit'.on
    BY <1>1 DEF Enabling
  <2>2. ASSUME edit.at = "zero", ~edit'.disturbed, edit.client \notin torn'
        PROVE  edit.client \in db'.recOn
    <3> DEFINE e == edit.client
    <3>1. e \in Clients /\ e \notin Due(d) /\ e \notin Spent(r) /\ ~edit.disturbed
          /\ e \notin torn
      BY <1>1, <2>2 DEF TypeOK
    <3>2. e \in db.recOn
      BY <2>2, <3>1 DEF Enabling
    <3>3. Agrees(db, e)
      BY <2>2, <3>1 DEF Consistent, Untouched, Updating
    <3>4. PICK k \in Inbounds : k \in Of(e)
      BY <3>1, ConstantsAssumption DEF Of
    <3>5. e \in d.setOn[k]
      BY <3>2, <3>3, <3>4 DEF Agrees
    <3>6. Agrees(r, e)
      BY <3>1, <3>3, RenewedAgrees DEF HalfRenewed
    <3>7. e \in r.setOn[k]
      BY <3>5 DEF Renewed, EnabledAgain
    <3>8. e \in r.recOn
      BY <3>4, <3>6, <3>7 DEF Agrees
    <3>9. QED  BY <1>1, <3>1, <3>8 DEF Disabled, Renewed
  <2>3. QED  BY <1>1, <2>1, <2>2 DEF Enabling
<1>6. QED  BY <1>3, <1>4, <1>5
--------------------------------------------------------------------------------
(***************************************************************************)
(* Types.                                                                  *)
(***************************************************************************)
\* The steps of time, core and job keep the types,
LEMMA JobTypes ==
    ASSUME TypeOK,
           \/ \E e \in Busy : Move(e)
           \/ \E e \in Clients : Expire(e)
           \/ Fetch \/ ApplyCommits \/ ApplyFails
           \/ \E who \in {"job", "other"} : RestartBegins(who)
           \/ RestartKeepsCore \/ Relaunch \/ CoreDies
    PROVE  TypeOK'
<1> USE DEF coreVars, jobVars, lockVars, ghosts
<1>1. CASE \E e \in Busy : Move(e)
  BY <1>1, ConstantsAssumption DEF TypeOK, Move
<1>2. CASE \E e \in Clients : Expire(e)
  BY <1>2 DEF TypeOK, Expire, WellFormed, Db
<1>3. CASE Fetch
  <2>1. delta' \in [Clients -> Nat]
    BY <1>3 DEF TypeOK, Fetch, Reported
  <2>2. last' \in [Clients -> Nat] /\ seen' \subseteq Clients /\ heard' \subseteq Clients
    BY <1>3 DEF TypeOK, Fetch, Reported, Noted
  <2>3. QED  BY <1>3, <2>1, <2>2 DEF TypeOK, Fetch
<1>4. CASE ApplyCommits
  <2>1. PICK d : d = Added(db, heard, delta) /\ Maintain(d)
                 /\ asked' \in {asked, TRUE}
    BY <1>4 DEF ApplyCommits, MayAsk
  <2>2. WellFormed(d)
    BY <2>1, AddedWell DEF TypeOK
  <2>3. owed' \in [Clients -> Int] /\ delta' \in [Clients -> Nat]
    BY <1>4 DEF ApplyCommits, PollEnds, Zero, TypeOK
  <2>4. /\ WellFormed(db') /\ torn' \subseteq Clients /\ edit' \in Edits
        /\ edit' = [edit EXCEPT !.disturbed = edit'.disturbed]
    BY <2>1, <2>2, MaintainTypes
  <2>5. QED
    BY <1>4, <2>1, <2>3, <2>4 DEF TypeOK, ApplyCommits, PollEnds, Edits
<1>5. CASE ApplyFails
  <2>1. asked' \in {asked, TRUE} /\ delta' \in [Clients -> Nat]
    BY <1>5 DEF ApplyFails, MayAsk, PollEnds, Zero
  <2>2. QED  BY <1>5, <2>1 DEF TypeOK, ApplyFails, PollEnds
<1>6. ASSUME NEW who \in {"job", "other"}, RestartBegins(who)
      PROVE  TypeOK'
  <2>1. /\ WellFormed(db') /\ torn' \subseteq Clients /\ edit' \in Edits
        /\ edit' = edit \/ edit' = [edit EXCEPT !.disturbed = edit'.disturbed]
    <3>1. CASE Maintain(db)
      BY <3>1, MaintainTypes DEF TypeOK
    <3>2. CASE UNCHANGED <<db, edit, torn>>
      BY <3>2 DEF TypeOK
    <3>3. QED  BY <1>6, <3>1, <3>2 DEF RestartBegins
  <2>2. asked' \in BOOLEAN
    BY <1>6 DEF RestartBegins
  <2>3. QED  BY <1>6, <2>1, <2>2 DEF TypeOK, RestartBegins, Edits
<1>7. CASE RestartKeepsCore
  BY <1>7 DEF TypeOK, RestartKeepsCore
<1>8. CASE Relaunch
  BY <1>8 DEF TypeOK, Relaunch, Zero
<1>9. CASE CoreDies
  BY <1>9 DEF TypeOK, CoreDies, Zero
<1>10. QED  BY <1>1, <1>2, <1>3, <1>4, <1>5, <1>6, <1>7, <1>8, <1>9

LEMMA Counted ==
    ASSUME TypeOK, edits < MaxEdits, edits' = edits + 1
    PROVE  edits' \in 0..MaxEdits
BY ConstantsAssumption DEF TypeOK

LEMMA NoEditTyped == NoEdit \in Edits /\ NoEdit.at = "idle"
BY DEF NoEdit, Edits

LEMMA UpdateEndsTyped ==
    ASSUME TypeOK, edit.at \in {"next", "copied"}, NEW b \in BOOLEAN, UpdateEnds(b)
    PROVE  /\ edit' \in Edits /\ edit'.at \in {"idle", "zero"}
           /\ edit'.at = "zero" => /\ edit'.client = edit.client
                                  /\ edit'.todo = Of(edit.client)
                                  /\ edit'.on /\ edit'.disturbed = b
           /\ edit'.reset => edit'.at = "zero"
BY DEF TypeOK, UpdateEnds, NoEdit, Edits, Of

\* and so do edits and resets.
LEMMA EditTypes ==
    ASSUME TypeOK,
           \/ \E e \in Clients, x \in Given :
                 ResetBegins(e, x) \/ \E on \in BOOLEAN : EditBegins(e, on, x)
           \/ \E i \in Inbounds : ReadInbound(i) \/ ZeroRow(i)
           \/ CommitInbound \/ EditFails \/ ResetFails
           \/ \E S \in {Attached[i] : i \in Inbounds} \cup {Clients} : ResetMany(S)
           \/ ZeroAll
    PROVE  TypeOK'
<1> USE DEF coreVars, jobVars, lockVars, ghosts
<1>1. ASSUME NEW e \in Clients, NEW x \in Given, ResetBegins(e, x)
      PROVE  TypeOK'
  <2>1. /\ edit' \in Edits /\ edit'.client = e /\ edit'.todo = Of(e)
        /\ edit'.at # "copied"
    BY <1>1, ConstantsAssumption DEF ResetBegins, FirstStep, NoEdit, Edits, Of
  <2>2. QED  BY <1>1, <2>1, Counted DEF TypeOK, ResetBegins
<1>2. ASSUME NEW e \in Clients, NEW x \in Given, NEW on \in BOOLEAN,
             EditBegins(e, on, x)
      PROVE  TypeOK'
  <2>1. /\ edit' \in Edits /\ edit'.client = e /\ edit'.todo = Of(e)
        /\ edit'.at # "copied"
    BY <1>2, ConstantsAssumption DEF EditBegins, NoEdit, Edits, Of
  <2>2. QED  BY <1>2, <2>1, Counted DEF TypeOK, EditBegins
<1>3. ASSUME NEW i \in Inbounds, ReadInbound(i)
      PROVE  TypeOK'
  BY <1>3 DEF TypeOK, ReadInbound, Edits, WellFormed, Db
<1>4. ASSUME NEW i \in Inbounds, ZeroRow(i)
      PROVE  TypeOK'
  <2>1. WellFormed(db')
    BY <1>4, ZeroedWell DEF ZeroRow, TypeOK
  <2>2. /\ edit' \in Edits
        /\ edit'.at # "idle" => edit'.client \in Clients /\ edit'.todo \subseteq Of(edit'.client)
        /\ edit'.at # "copied"
    BY <1>4 DEF ZeroRow, TypeOK, Edits, NoEdit
  <2>3. QED  BY <1>4, <2>1, <2>2 DEF TypeOK, ZeroRow
<1>5. CASE CommitInbound
  <2>1. WellFormed(db')
    BY <1>5, EditedWell DEF CommitInbound, TypeOK
  <2>2. torn' \subseteq Clients
    BY <1>5, ConstantsAssumption DEF CommitInbound, TypeOK, Reverted, Of
  <2>3. /\ edit' \in Edits
        /\ edit'.at # "idle" => edit'.client \in Clients /\ edit'.todo \subseteq Of(edit'.client)
        /\ edit'.at # "copied"
    <3>1. CASE edit.todo = {edit.inbound}
      <4>1. UpdateEnds(edit.disturbed) /\ edit.disturbed \in BOOLEAN
        BY <1>5, <3>1 DEF CommitInbound, TypeOK, Edits
      <4>2. QED  BY <1>5, <4>1, UpdateEndsTyped DEF CommitInbound, TypeOK
    <3>2. CASE edit.todo # {edit.inbound}
      <4>1. edit' = [edit EXCEPT !.at = "next", !.todo = @ \ {edit.inbound},
                                 !.inbound = 0, !.copy = {}]
        BY <1>5, <3>2 DEF CommitInbound
      <4>2. edit' \in Edits
        BY <4>1 DEF TypeOK, Edits
      <4>3. /\ edit'.at = "next" /\ edit'.client = edit.client
            /\ edit'.todo \subseteq edit.todo
        BY <4>1 DEF TypeOK, Edits
      <4>4. QED  BY <1>5, <4>2, <4>3 DEF CommitInbound, TypeOK
    <3>3. QED  BY <3>1, <3>2
  <2>4. QED  BY <1>5, <2>1, <2>2, <2>3 DEF TypeOK, CommitInbound
<1>6. CASE EditFails
  <2>1. /\ edit' \in Edits
        /\ edit'.at # "idle" => edit'.client \in Clients /\ edit'.todo \subseteq Of(edit'.client)
        /\ edit'.at # "copied"
    BY <1>6, UpdateEndsTyped DEF EditFails, TypeOK
  <2>2. QED  BY <1>6, <2>1 DEF TypeOK, EditFails
<1>7. CASE ResetFails
  BY <1>7, NoEditTyped DEF TypeOK, ResetFails
<1>8. ASSUME NEW S \in {Attached[i] : i \in Inbounds} \cup {Clients}, ResetMany(S)
      PROVE  TypeOK'
  <2>1. S \subseteq Clients
    BY ConstantsAssumption
  <2>2. WellFormed(db')
    BY <1>8, <2>1, ZeroedWell DEF ResetMany, TypeOK
  <2>3. QED  BY <1>8, <2>2, ConstantsAssumption DEF TypeOK, ResetMany
<1>9. CASE ZeroAll
  <2>1. WellFormed(db')
    BY <1>9 DEF TypeOK, ZeroAll, WellFormed, Db, Zero
  <2>2. QED  BY <1>9, <2>1, Counted DEF TypeOK, ZeroAll
<1>10. QED  BY <1>1, <1>2, <1>3, <1>4, <1>5, <1>6, <1>7, <1>8, <1>9

\* The variables of TrafficAccounting always have their types.
THEOREM TypeCorrect == Spec => []TypeOK
<1>1. Init => TypeOK
  <2> SUFFICES ASSUME Init  PROVE TypeOK
    OBVIOUS
  <2>1. WellFormed(db)
    BY ConstantsAssumption DEF Init, WellFormed, Db, Zero
  <2>2. Zero \in [Clients -> Nat] /\ Zero \in [Clients -> Int]
    BY DEF Zero
  <2>3. /\ running \in BOOLEAN /\ counter \in [Clients -> Nat]
        /\ seen \subseteq Clients /\ last \in [Clients -> Nat]
        /\ poll \in {"idle", "apply"} /\ heard \subseteq Clients
        /\ delta \in [Clients -> Nat]
        /\ asked \in BOOLEAN /\ restart \in {"free", "job", "other"}
    BY <2>2 DEF Init
  <2>4. /\ edits \in 0..MaxEdits /\ left \in 0..MaxMoved
        /\ owed \in [Clients -> Int] /\ torn \subseteq Clients
    BY <2>2, ConstantsAssumption DEF Init
  <2>5. edit \in Edits /\ edit.at = "idle"
    BY NoEditTyped DEF Init
  <2>6. QED  BY <2>1, <2>3, <2>4, <2>5 DEF TypeOK
<1>2. TypeOK /\ [Next]_vars => TypeOK'
  <2> SUFFICES ASSUME TypeOK, [Next]_vars  PROVE TypeOK'
    OBVIOUS
  <2>1. CASE Next
    BY <2>1, JobTypes, EditTypes DEF Next
  <2>2. CASE UNCHANGED vars
    BY <2>2 DEF TypeOK, vars, coreVars, jobVars, lockVars, ghosts
  <2>3. QED  BY <2>1, <2>2
<1>3. QED  BY <1>1, <1>2, PTL DEF Spec
--------------------------------------------------------------------------------
(***************************************************************************)
(* No byte is counted twice.                                               *)
(***************************************************************************)
\* What a step must leave alone for Counting to stay.
LEMMA CountingStays ==
    ASSUME Counting, UNCHANGED <<counter, seen, last, poll, delta, owed>>
    PROVE  Counting'
BY DEF Counting, Uncollected

LEMMA CountingStep ==
    ASSUME TypeOK, Counting, Next
    PROVE  Counting'
<1> USE DEF coreVars, jobVars, lockVars, ghosts
<1>1. CASE \E e \in Busy : Move(e)
  <2>1. PICK b \in Clients : Move(b)
    BY <1>1, ConstantsAssumption
  <2>2. ASSUME NEW e \in Clients
        PROVE  delta'[e] + Uncollected(e)' <= owed'[e]
    <3>1. delta[e] + Uncollected(e) <= owed[e]
      BY DEF Counting
    <3>2. /\ delta' = delta /\ seen' = seen /\ last' = last
          /\ counter[e] \in Nat /\ last[e] \in Nat /\ delta[e] \in Nat /\ owed[e] \in Int
          /\ \/ counter'[e] = counter[e] /\ owed'[e] = owed[e]
             \/ counter'[e] = counter[e] + 1 /\ owed'[e] = owed[e] + 1
      BY <2>1 DEF Move, TypeOK
    <3>3. QED  BY <3>1, <3>2 DEF Uncollected
  <2>3. QED  BY <2>1, <2>2 DEF Counting, Move
<1>2. CASE Fetch
  <2>1. ASSUME NEW e \in Clients
        PROVE  delta'[e] + Uncollected(e)' <= owed'[e]
    <3>1. Uncollected(e) <= owed[e] /\ owed' = owed /\ counter' = counter
      BY <1>2 DEF Counting, Fetch, Zero, TypeOK, Uncollected
    <3>2. /\ counter[e] \in Nat /\ last[e] \in Nat /\ owed[e] \in Int
          /\ delta'[e] = IF e \in Reported THEN counter[e] - last[e] ELSE 0
          /\ last'[e] = IF counter[e] > 0 THEN counter[e] ELSE last[e]
      BY <1>2 DEF TypeOK, Fetch, Noted
    <3>3. Uncollected(e)' = 0
      BY <3>1, <3>2 DEF Uncollected, TypeOK
    <3>4. delta'[e] <= Uncollected(e)
      BY <3>2 DEF Reported, Uncollected
    <3>5. delta'[e] \in Nat /\ Uncollected(e) \in Nat
      BY <3>2 DEF Reported, Uncollected
    <3>6. QED  BY <3>1, <3>2, <3>3, <3>4, <3>5
  <2>2. QED  BY <1>2, <2>1 DEF Counting, Fetch
<1>3. CASE ApplyCommits
  <2>1. ASSUME NEW e \in Clients
        PROVE  delta'[e] + Uncollected(e)' <= owed'[e]
    <3>1. delta[e] + Uncollected(e) <= owed[e] /\ Uncollected(e)' = Uncollected(e)
      BY <1>3 DEF Counting, ApplyCommits, Uncollected
    <3>2. /\ delta[e] \in Nat /\ owed[e] \in Int /\ Uncollected(e) \in Nat
          /\ delta'[e] = 0 /\ owed'[e] = owed[e] - delta[e]
      BY <1>3 DEF ApplyCommits, PollEnds, Zero, TypeOK, Uncollected
    <3>3. QED  BY <3>1, <3>2
  <2>2. QED  BY <1>3, <2>1 DEF Counting, ApplyCommits, PollEnds
<1>4. CASE ApplyFails
  <2>1. ASSUME NEW e \in Clients
        PROVE  delta'[e] + Uncollected(e)' <= owed'[e]
    <3>1. delta[e] + Uncollected(e) <= owed[e] /\ Uncollected(e)' = Uncollected(e)
      BY <1>4 DEF Counting, ApplyFails, Uncollected
    <3>2. /\ delta[e] \in Nat /\ owed[e] \in Int /\ Uncollected(e) \in Nat
          /\ delta'[e] = 0 /\ owed' = owed
      BY <1>4 DEF ApplyFails, PollEnds, Zero, TypeOK, Uncollected
    <3>3. QED  BY <3>1, <3>2
  <2>2. QED  BY <1>4, <2>1 DEF Counting, ApplyFails, PollEnds
<1>5. ASSUME counter' = Zero, UNCHANGED <<seen, last>> \/ seen' = {},
             UNCHANGED <<poll, delta, owed>>
      PROVE  Counting'
  <2>1. ASSUME NEW e \in Clients
        PROVE  delta'[e] + Uncollected(e)' <= owed'[e]
    <3>1. delta[e] + Uncollected(e) <= owed[e]
      BY DEF Counting
    <3>2. /\ counter[e] \in Nat /\ last[e] \in Nat /\ delta[e] \in Nat /\ owed[e] \in Int
          /\ counter'[e] = 0
      BY <1>5 DEF TypeOK, Zero
    <3>3. Uncollected(e)' = 0 /\ Uncollected(e) \in Nat
      BY <1>5, <3>2 DEF Uncollected
    <3>4. QED  BY <1>5, <3>1, <3>2, <3>3
  <2>2. QED  BY <1>5, <2>1 DEF Counting
<1>6. CASE Relaunch
  BY <1>5, <1>6 DEF Relaunch
<1>7. CASE CoreDies
  BY <1>5, <1>7 DEF CoreDies
<1>8. CASE \/ \E e \in Clients : Expire(e)
           \/ \E who \in {"job", "other"} : RestartBegins(who)
           \/ RestartKeepsCore
  BY <1>8, CountingStays DEF Expire, RestartBegins, RestartKeepsCore
<1>9. CASE \/ \E e \in Clients, x \in Given :
                 ResetBegins(e, x) \/ \E on \in BOOLEAN : EditBegins(e, on, x)
           \/ \E i \in Inbounds : ReadInbound(i) \/ ZeroRow(i)
           \/ CommitInbound \/ EditFails \/ ResetFails
           \/ \E S \in {Attached[i] : i \in Inbounds} \cup {Clients} : ResetMany(S)
           \/ ZeroAll
  BY <1>9, CountingStays DEF ResetBegins, EditBegins, ReadInbound, ZeroRow,
       CommitInbound, EditFails, ResetFails, ResetMany, ZeroAll
<1>10. QED
  BY <1>1, <1>2, <1>3, <1>4, <1>6, <1>7, <1>8, <1>9 DEF Next

\* What is added to a row was moved before, and is added once, whatever core
\* and job do in between.
THEOREM NoOvercount == Spec => []NeverOvercounts
<1>1. Init => Counting
  BY DEF Init, Counting, Uncollected, Zero
<1>2. TypeOK /\ Counting /\ [Next]_vars => Counting'
  <2>1. TypeOK /\ Counting /\ UNCHANGED vars => Counting'
    BY CountingStays DEF vars, coreVars, jobVars, ghosts
  <2>2. QED  BY <2>1, CountingStep
<1>3. TypeOK /\ Counting => NeverOvercounts
  <2> SUFFICES ASSUME TypeOK, Counting, NEW e \in Clients  PROVE owed[e] >= 0
    BY DEF NeverOvercounts
  <2>1. delta[e] \in Nat /\ owed[e] \in Int /\ Uncollected(e) \in Nat
    BY DEF TypeOK, Uncollected
  <2>2. QED  BY <2>1 DEF Counting
<1>4. QED  BY <1>1, <1>2, <1>3, TypeCorrect, PTL DEF Spec
--------------------------------------------------------------------------------
(***************************************************************************)
(* The places where a client is written down agree.                        *)
(***************************************************************************)
\* What a step must leave alone for the rest of the invariant to stay.
LEMMA AgreementStays ==
    ASSUME TypeOK, Consistent, Written, Enabling,
           db'.rowOn = db.rowOn, db'.recOn = db.recOn, db'.setOn = db.setOn,
           UNCHANGED <<edit, torn>>
    PROVE  Consistent' /\ Written' /\ Enabling'
<1>1. Consistent'
  BY DEF Consistent, Untouched, Updating, Agrees
<1>2. Written'
  BY DEF Written
<1>3. Enabling'
  BY DEF Enabling
<1>4. QED  BY <1>1, <1>2, <1>3

LEMMA JobAgreement ==
    ASSUME TypeOK, Consistent, Written, Enabling,
           \/ \E e \in Busy : Move(e)
           \/ \E e \in Clients : Expire(e)
           \/ Fetch \/ ApplyCommits \/ ApplyFails
           \/ \E who \in {"job", "other"} : RestartBegins(who)
           \/ RestartKeepsCore \/ Relaunch \/ CoreDies \/ ZeroAll
    PROVE  Consistent' /\ Written' /\ Enabling'
<1> USE DEF coreVars, jobVars, lockVars, ghosts
<1>1. CASE ApplyCommits
  <2> DEFINE d == Added(db, heard, delta)
  <2>1. Maintain(d)
    BY <1>1 DEF ApplyCommits
  <2>2. WellFormed(d)
    BY AddedWell DEF TypeOK
  <2>3. d.setOn = db.setOn
    BY DEF Added
  <2>4. \A e \in Clients : Agrees(db, e) => Agrees(d, e)
    BY AddedAgrees
  <2> HIDE DEF d
  <2>5. QED  BY <2>1, <2>2, <2>3, <2>4, MaintainKeeps
<1>2. CASE \E who \in {"job", "other"} : RestartBegins(who)
  <2>1. CASE Maintain(db)
    BY <2>1, MaintainKeeps DEF TypeOK
  <2>2. CASE UNCHANGED <<db, edit, torn>>
    BY <2>2, AgreementStays
  <2>3. QED  BY <1>2, <2>1, <2>2 DEF RestartBegins
<1>3. CASE \E e \in Clients : Expire(e)
  BY <1>3, AgreementStays DEF Expire, TypeOK, WellFormed, Db
<1>4. CASE ZeroAll
  BY <1>4, AgreementStays DEF ZeroAll, TypeOK, WellFormed, Db
<1>5. CASE (\E e \in Busy : Move(e)) \/ Fetch \/ ApplyFails
           \/ RestartKeepsCore \/ Relaunch \/ CoreDies
  BY <1>5, AgreementStays DEF Move, Fetch, ApplyFails, RestartKeepsCore, Relaunch,
       CoreDies
<1>6. QED  BY <1>1, <1>2, <1>3, <1>4, <1>5

\* A commit: the client edited agrees once all its inbounds are written; whoever
\* is reverted is torn; nobody else has changed in these settings.
LEMMA CommitAgreement ==
    ASSUME TypeOK, Consistent, Written, Enabling, CommitInbound
    PROVE  Consistent' /\ Written' /\ Enabling'
<1> DEFINE c == edit.client
           i == edit.inbound
           over == edit.todo = {i}
<1>1. /\ c \in Clients /\ i \in Of(c) /\ i \in Inbounds /\ i \in edit.todo
      /\ edit.at = "copied" /\ edit.copy \subseteq Attached[i] /\ edit \in Edits
      /\ edit.todo \subseteq Of(c) /\ WellFormed(db)
  BY DEF CommitInbound, TypeOK, Of
<1>2. /\ db'.rowOn = IF edit.on THEN db.rowOn \cup {c} ELSE db.rowOn \ {c}
      /\ db'.recOn = Synced(db.recOn, db'.setOn, {i})
      /\ db'.setOn[i] = IF edit.on THEN edit.copy \cup {c} ELSE edit.copy \ {c}
      /\ \A j \in Inbounds \ {i} : db'.setOn[j] = db.setOn[j]
  BY <1>1 DEF CommitInbound, Edited, WellFormed, Db
<1>3. /\ torn \ {c} \subseteq torn' /\ Reverted \subseteq torn'
      /\ over /\ edit.disturbed => c \in torn'
  BY DEF CommitInbound
<1>4. c \in db'.setOn[i] <=> edit.on
  BY <1>2
<1>5. c \in db'.recOn <=> edit.on
  <2>1. c \in Synced(db.recOn, db'.setOn, {i}) <=> c \in db'.setOn[i]
    BY <1>1, SyncedOne
  <2>2. QED  BY <1>2, <1>4, <2>1
<1>6. ASSUME over
      PROVE  /\ edit'.at \in {"idle", "zero"} /\ Enabling'
             /\ c \notin torn' => Agrees(db', c)
  <2>1. UpdateEnds(edit.disturbed) /\ edit.disturbed \in BOOLEAN
    BY <1>1, <1>6 DEF CommitInbound, Edits
  <2>2. edit'.at \in {"idle", "zero"}
    BY <1>1, <2>1, UpdateEndsTyped
  <2>3. \/ /\ edit'.client = c /\ edit'.on /\ edit'.disturbed = edit.disturbed
           /\ edit.on
        \/ edit'.at = "idle" /\ ~edit'.reset
    BY <2>1 DEF UpdateEnds, NoEdit, Enabling
  <2>4. Enabling'
    BY <1>3, <1>5, <1>6, <2>3 DEF Enabling
  <2>5. c \notin torn' => Agrees(db', c)
    BY <1>1, <1>2, <1>3, <1>4, <1>5, <1>6 DEF Written, Agrees, Of
  <2>6. QED  BY <2>2, <2>4, <2>5
<1>7. ASSUME ~over
      PROVE  /\ edit'.at = "next" /\ edit'.client = c /\ edit'.on = edit.on
             /\ edit'.todo = edit.todo \ {i} /\ edit'.reset = edit.reset
             /\ edit'.disturbed = edit.disturbed
  BY <1>1, <1>7 DEF CommitInbound, Edits
<1>8. Consistent'
  <2> SUFFICES ASSUME NEW e \in Clients, e \notin torn', Untouched(e)'
               PROVE  Agrees(db', e)
    BY DEF Consistent
  <2>1. CASE e = c
    <3>1. over
      BY <1>1, <1>7, <2>1 DEF Untouched, Updating
    <3>2. QED  BY <1>6, <2>1, <3>1
  <2>2. CASE e # c
    <3>1. Agrees(db, e)
      BY <1>3, <2>2 DEF Consistent, Untouched, Updating
    <3>2. \A j \in Of(e) : e \in db'.setOn[j] <=> e \in db.setOn[j]
      BY <1>2, <1>3, <2>2 DEF Reverted, Of
    <3>3. e \in db'.recOn <=> e \in db.recOn
      BY <1>1, <1>2, <3>1, <3>2, SyncedKeeps DEF Agrees, Of
    <3>4. QED  BY <1>2, <2>2, <3>1, <3>2, <3>3 DEF Agrees
  <2>3. QED  BY <2>1, <2>2
<1>9. Written'
  <2>1. CASE over
    BY <1>6, <2>1 DEF Written
  <2>2. CASE ~over
    <3> SUFFICES ASSUME ~edit.disturbed, NEW j \in Of(c) \ (edit.todo \ {i})
                 PROVE  c \in db'.setOn[j] <=> edit.on
      BY <1>7, <2>2 DEF Written
    <3>1. CASE j = i
      BY <1>4, <3>1
    <3>2. CASE j # i
      BY <1>1, <1>2, <3>2 DEF Written, Of
    <3>3. QED  BY <3>1, <3>2
  <2>3. QED  BY <2>1, <2>2
<1>10. Enabling'
  BY <1>6, <1>7 DEF Enabling
<1>11. QED  BY <1>8, <1>9, <1>10

\* The other steps of edits and resets.
LEMMA EditAgreement ==
    ASSUME TypeOK, Consistent, Written, Enabling,
           \/ \E e \in Clients, x \in Given :
                 ResetBegins(e, x) \/ \E on \in BOOLEAN : EditBegins(e, on, x)
           \/ \E i \in Inbounds : ReadInbound(i) \/ ZeroRow(i)
           \/ EditFails \/ ResetFails
           \/ \E S \in {Attached[i] : i \in Inbounds} \cup {Clients} : ResetMany(S)
    PROVE  Consistent' /\ Written' /\ Enabling'
<1> USE DEF coreVars, jobVars, lockVars, ghosts
<1>1. ASSUME edit'.at \in {"idle", "zero"},
             \A e \in Clients : Agrees(db, e) => Agrees(db', e),
             torn \subseteq torn',
             \A e \in Clients \ torn' : Untouched(e)
      PROVE  Consistent' /\ Written'
  BY <1>1 DEF Consistent, Written, Untouched
<1>2. ASSUME edit.at = "idle", UNCHANGED <<db, torn>>
      PROVE  Consistent'
  BY <1>2 DEF Consistent, Untouched, Updating
<1>3. ASSUME NEW e \in Clients, NEW x \in Given, ResetBegins(e, x)
      PROVE  Consistent' /\ Written' /\ Enabling'
  <2>1. /\ edit.at = "idle" /\ UNCHANGED <<db, torn>>
        /\ edit'.client = e /\ edit'.on /\ edit'.todo = Of(e)
        /\ edit'.at = IF e \in db.recOn THEN "zero" ELSE "next"
    BY <1>3 DEF ResetBegins, FirstStep, NoEdit
  <2>2. QED  BY <1>2, <2>1 DEF Written, Enabling
<1>4. ASSUME NEW e \in Clients, NEW x \in Given, NEW on \in BOOLEAN,
             EditBegins(e, on, x)
      PROVE  Consistent' /\ Written' /\ Enabling'
  <2>1. /\ edit.at = "idle" /\ UNCHANGED <<db, torn>>
        /\ edit'.client = e /\ edit'.todo = Of(e) /\ edit'.at = "next" /\ ~edit'.reset
    BY <1>4 DEF EditBegins, NoEdit
  <2>2. QED  BY <1>2, <2>1 DEF Written, Enabling
<1>5. ASSUME NEW i \in Inbounds, ReadInbound(i)
      PROVE  Consistent' /\ Written' /\ Enabling'
  <2>1. /\ edit.at = "next" /\ edit'.at = "copied" /\ UNCHANGED <<db, torn>>
        /\ edit'.client = edit.client /\ edit'.todo = edit.todo /\ edit'.on = edit.on
        /\ edit'.reset = edit.reset /\ edit'.disturbed = edit.disturbed
    BY <1>5 DEF ReadInbound, TypeOK, Edits
  <2>2. Consistent'
    BY <2>1 DEF Consistent, Untouched, Updating
  <2>3. Written' /\ Enabling'
    BY <2>1 DEF Written, Enabling
  <2>4. QED  BY <2>2, <2>3
<1>6. ASSUME NEW i \in Inbounds, ZeroRow(i)
      PROVE  Consistent' /\ Written' /\ Enabling'
  <2>1. /\ edit.at = "zero" /\ edit'.at \in {"idle", "zero"} /\ torn' = torn
        /\ db' = Zeroed(db, {edit.client}) /\ db'.recOn = db.recOn
    BY <1>6, NoEditTyped DEF ZeroRow, TypeOK, Edits, Zeroed, WellFormed, Db
  <2>2. \/ edit' = NoEdit
        \/ /\ edit'.client = edit.client /\ edit'.on = edit.on
           /\ edit'.reset = edit.reset /\ edit'.disturbed = edit.disturbed
    BY <1>6 DEF ZeroRow, TypeOK, Edits
  <2>3. \A e \in Clients : Agrees(db, e) => Agrees(db', e)
    BY <2>1, ZeroedAgrees DEF TypeOK
  <2>4. Consistent' /\ Written'
    BY <1>1, <2>1, <2>3 DEF Untouched, Updating
  <2>5. Enabling'
    BY <2>1, <2>2 DEF Enabling, NoEdit
  <2>6. QED  BY <2>4, <2>5
<1>7. CASE EditFails
  <2>1. /\ UpdateEnds(TRUE) /\ edit'.at \in {"idle", "zero"} /\ db' = db
        /\ torn \subseteq torn'
        /\ edit.todo # Of(edit.client) => edit.client \in torn'
    BY <1>7, UpdateEndsTyped DEF EditFails
  <2>2. Consistent' /\ Written'
    BY <1>1, <2>1 DEF Untouched, Updating
  <2>3. Enabling'
    BY <2>1 DEF UpdateEnds, NoEdit, Enabling
  <2>4. QED  BY <2>2, <2>3
<1>8. CASE ResetFails
  <2>1. edit.at = "zero" /\ edit' = NoEdit /\ UNCHANGED <<db, torn>>
    BY <1>8 DEF ResetFails
  <2>2. Consistent' /\ Written'
    BY <1>1, <2>1, NoEditTyped DEF Untouched, Updating
  <2>3. Enabling'
    BY <2>1 DEF NoEdit, Enabling
  <2>4. QED  BY <2>2, <2>3
<1>9. ASSUME NEW S \in {Attached[i] : i \in Inbounds} \cup {Clients}, ResetMany(S)
      PROVE  Consistent' /\ Written' /\ Enabling'
  <2>1. /\ edit' = edit /\ torn' = torn /\ db' = Zeroed(db, S)
        /\ db'.recOn = db.recOn /\ db'.setOn = db.setOn
    BY <1>9 DEF ResetMany, Zeroed, TypeOK, WellFormed, Db
  <2>2. \A e \in Clients : Agrees(db, e) => Agrees(db', e)
    BY <2>1, ZeroedAgrees DEF TypeOK
  <2>3. Consistent'
    BY <2>1, <2>2 DEF Consistent, Untouched, Updating
  <2>4. Written' /\ Enabling'
    BY <2>1 DEF Written, Enabling
  <2>5. QED  BY <2>3, <2>4
<1>10. QED  BY <1>3, <1>4, <1>5, <1>6, <1>7, <1>8, <1>9

LEMMA Agreement == Spec => [](Consistent /\ Written /\ Enabling)
<1>1. Init => Consistent /\ Written /\ Enabling
  BY ConstantsAssumption DEF Init, Consistent, Written, Enabling, Agrees, NoEdit, Of
<1>2. TypeOK /\ Consistent /\ Written /\ Enabling /\ [Next]_vars
      => (Consistent /\ Written /\ Enabling)'
  <2> SUFFICES ASSUME TypeOK, Consistent, Written, Enabling, [Next]_vars
               PROVE  Consistent' /\ Written' /\ Enabling'
    OBVIOUS
  <2>1. CASE Next
    BY <2>1, JobAgreement, CommitAgreement, EditAgreement DEF Next
  <2>2. CASE UNCHANGED vars
    BY <2>2, AgreementStays DEF vars, ghosts
  <2>3. QED  BY <2>1, <2>2
<1>3. QED  BY <1>1, <1>2, TypeCorrect, PTL DEF Spec

\* Record and settings of a client who is neither torn nor being updated agree.
THEOREM Siblings == Spec => []SiblingsAgree
<1>1. Consistent => SiblingsAgree
  BY DEF Consistent, SiblingsAgree, Untouched
<1>2. QED  BY <1>1, Agreement, PTL

\* A reset that neither failed on the way nor was disturbed enables.
THEOREM Restored == Spec => ResetRestores
<1>1. TypeOK /\ Consistent /\ Enabling /\ [Next]_vars
      => [\A i \in Inbounds :
             ZeroRow(i) /\ edit'.at = "idle" /\ ~edit.disturbed
             /\ edit.client \notin torn
             => edit.client \in db'.rowOn \cap db'.recOn]_vars
  <2> SUFFICES ASSUME TypeOK, Consistent, Enabling, NEW i \in Inbounds, ZeroRow(i),
                      ~edit.disturbed, edit.client \notin torn
               PROVE  edit.client \in db'.rowOn \cap db'.recOn
    OBVIOUS
  <2>1. edit.client \in db.recOn
    BY DEF ZeroRow, Enabling
  <2>2. edit.client \in db'.rowOn /\ db'.recOn = db.recOn
    BY DEF ZeroRow, Zeroed, TypeOK, WellFormed, Db
  <2>3. QED  BY <2>1, <2>2
<1>2. QED  BY <1>1, TypeCorrect, Agreement, PTL DEF Spec, ResetRestores
================================================================================
