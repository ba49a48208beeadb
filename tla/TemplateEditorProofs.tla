------------------------- MODULE TemplateEditorProofs -------------------------
(***************************************************************************)
(* TemplateEditor: what holds of the settings page for every template,     *)
(* every set of tags and any number of edits, visits and saves.            *)
(***************************************************************************)
EXTENDS TemplateEditor, XrayTemplateProofs

-----------------------------------------------------------------------------
(* The two copies of the page. *)

\* A form or a button writes the template and its text in one go.
LEMMA FormEditSets == FormEdit => \E t : SetTemplate(t)
  BY DEF FormEdit, MoveOutbounds, MoveRules, ToggleRules, BasicDomains, WarpOutbound,
         NordOutbound, ConfirmOutbound, ConfirmRule, ConfirmBalancer,
         ConfirmDelete, Confirm, InPlace, EditTo

\* It touches nothing but the template, the text and the open form.
LEMMA FormEditKeepsRest == FormEdit => UNCHANGED pageRest
  BY DEF FormEdit, MoveOutbounds, MoveRules, ToggleRules, BasicDomains, WarpOutbound,
         NordOutbound, ConfirmOutbound, ConfirmRule, ConfirmBalancer,
         ConfirmDelete, Confirm, InPlace

\* A text that parses is the template of the forms, after every step of the page
\* (setXraySetting, setTemplateSettings, the seeding effect, the late answers).
THEOREM TextTells == Spec => []TextTellsTemplate
<1>1. Init => TextTellsTemplate
  BY DEF Init, TextTellsTemplate, Unfinished
<1>2. ASSUME TextTellsTemplate, [Next]_vars
      PROVE  TextTellsTemplate'
  <2>1. (\E t : SetTemplate(t)) => TextTellsTemplate'
    BY DEF SetTemplate, TextTellsTemplate, Json
  <2>2. UNCHANGED <<text, template>> => TextTellsTemplate'
    BY <1>2 DEF TextTellsTemplate
  <2>3. (\E data : Seed(data)) => TextTellsTemplate'
    BY DEF Seed, TextTellsTemplate, Json
  <2>4. (\E next : Type(next)) => TextTellsTemplate'
    BY <1>2 DEF Type, TextTellsTemplate
  <2>5. CASE FetchLand
    BY <2>5, <2>2, <2>3 DEF FetchLand, pageVars
  <2>6. CASE OpenPage
    BY <2>6, <2>2, <2>3 DEF OpenPage
  <2>7. CASE ClosePage
    BY <2>7 DEF ClosePage, TextTellsTemplate, Unfinished
  <2>8. CASE TypeText \/ FinishText
    BY <2>8, <2>4 DEF TypeText, FinishText
  <2>9. CASE TypeSection
    BY <2>9, <2>1 DEF TypeSection, InPlace, EditTo
  <2>10. CASE FormEdit
    BY <2>10, <2>1, FormEditSets
  <2>11. CASE WarpLeaveAnswer \/ NordLogoutAnswer \/ DefaultAnswer
    BY <2>11, <2>1, <2>2 DEF WarpLeaveAnswer, NordLogoutAnswer, DefaultAnswer, ChangeUnderForm
  <2>12. CASE RotateAnswer
    BY <2>12, <2>1, <2>2 DEF RotateAnswer
  <2>13. CASE \/ FetchRead \/ FetchFail \/ Refetch \/ InvalidateElsewhere \/ Collect
              \/ SubOperation \/ SubsJob \/ OtherAdmin \/ RotationJob
              \/ Save \/ SaveAccept \/ SaveStoredOnly \/ SaveRefuse \/ SaveAnswer
    BY <2>13, <2>2 DEF FetchRead, FetchFail, Refetch, InvalidateElsewhere, Collect,
         SubOperation, SubsJob, OtherAdmin, RotationJob, Save, SaveAccept,
         SaveStoredOnly, SaveRefuse, SaveAnswer, pageVars
  <2>14. CASE \/ OpenForm \/ CancelForm \/ WarpLeaveAsk \/ NordLogoutAsk \/ RotateAsk \/ RotateServe
              \/ Poll \/ DefaultAsk
    BY <2>14, <2>2 DEF OpenForm, CancelForm, WarpLeaveAsk, NordLogoutAsk, RotateAsk, RotateServe,
         Poll, DefaultAsk, pageVars
  <2>15. CASE UNCHANGED vars
    BY <2>15, <2>2 DEF vars, pageVars
  <2> QED
    BY <1>2, <2>5, <2>6, <2>7, <2>8, <2>9, <2>10, <2>11, <2>12, <2>13, <2>14, <2>15
       DEF Next
<1> QED
  BY <1>1, <1>2, PTL DEF Spec

-----------------------------------------------------------------------------
(* Without news. *)

\* What the steps of the page that reach neither the panel nor the query leave alone.
queryView == <<server, subs, others, key, stored, config, fetch, rotation>>

LEMMA PageStepsKeepQuery ==
    \/ TypeText \/ FinishText \/ TypeSection \/ OpenForm \/ CancelForm \/ FormEdit
    \/ WarpLeaveAsk \/ NordLogoutAsk \/ WarpLeaveAnswer \/ NordLogoutAnswer \/ Save \/ SaveRefuse
    \/ Poll \/ DefaultAsk \/ DefaultAnswer \/ UNCHANGED vars
    => UNCHANGED queryView
<1> USE DEF queryView, panelVars, queryVars, callVars, pageVars, pageRest
<1>2. FormEdit => UNCHANGED queryView
  BY FormEditKeepsRest
<1>3. TypeText \/ FinishText \/ TypeSection \/ OpenForm \/ CancelForm => UNCHANGED queryView
  BY DEF TypeText, FinishText, TypeSection, Type, InPlace, OpenForm, CancelForm
<1>4. WarpLeaveAsk \/ NordLogoutAsk \/ WarpLeaveAnswer \/ NordLogoutAnswer \/ Save \/ SaveRefuse
      => UNCHANGED queryView
  BY DEF WarpLeaveAsk, NordLogoutAsk, WarpLeaveAnswer, NordLogoutAnswer, Save, SaveRefuse
<1>5. Poll \/ DefaultAsk \/ DefaultAnswer \/ UNCHANGED vars => UNCHANGED queryView
  BY DEF Poll, DefaultAsk, DefaultAnswer, vars
<1> QED
  BY <1>2, <1>3, <1>4, <1>5

\* As long as nothing has changed what the query brings, there is one thing it can bring.
First == Answer(Initial, 0)
Unchanged ==
    /\ {subs, others, key} \subseteq Nat
    /\ rotation = [at |-> rotation.at, index |-> rotation.index,
                   key |-> rotation.key, mine |-> rotation.mine]
    /\ rotation.at = "done" => key > 0
    /\ fetch.at = "answered" => fetch.data.got
    /\ ~ News =>
        /\ server = Initial /\ subs = 0
        /\ config.got => config = First
        /\ fetch.at = "answered" => fetch.data = First

LEMMA UnchangedInit == Init => Unchanged
  BY DEF Init, Unchanged, News, Idle, NoData, NoRotation

LEMMA UnchangedStep == Unchanged /\ [Next]_vars => Unchanged'
<1> SUFFICES ASSUME Unchanged, [Next]_vars PROVE Unchanged'
  OBVIOUS
<1> USE DEF Unchanged, News, First
<1>1. CASE UNCHANGED queryView
  BY <1>1 DEF queryView
<1>2. CASE FetchRead
  BY <1>2 DEF FetchRead, Answer, panelVars, callVars
<1>3. CASE FetchLand
  BY <1>3 DEF FetchLand, Idle, NoData, panelVars, callVars
<1>4. CASE FetchFail \/ Refetch
  BY <1>4 DEF FetchFail, Refetch, Idle, Asked, NoData, panelVars, callVars
<1>5. CASE InvalidateElsewhere
  BY <1>5 DEF InvalidateElsewhere, Invalidate, Asked, NoData, panelVars, callVars
<1>6. CASE Collect
  BY <1>6 DEF Collect, NoData, panelVars, callVars
<1>7. CASE OpenPage
  BY <1>7 DEF OpenPage, Asked, NoData, panelVars, callVars
<1>8. CASE ClosePage
  <2>1. rotation' = [at |-> rotation.at, index |-> rotation.index,
                     key |-> rotation.key, mine |-> FALSE]
    BY <1>8 DEF ClosePage
  <2> QED
    BY <1>8, <2>1 DEF ClosePage, panelVars, queryVars
<1>9. CASE RotateAsk
  BY <1>9 DEF RotateAsk, panelVars, queryVars
<1>10. CASE RotateServe
  <2>1. CASE key' = key + 1 /\ rotation' = [rotation EXCEPT !.at = "done", !.key = key + 1]
    <3>1. rotation' = [at |-> "done", index |-> rotation.index,
                       key |-> key + 1, mine |-> rotation.mine]
      BY <2>1
    <3>2. UNCHANGED <<subs, others, stored, config, fetch>> /\ key' \in Nat /\ key' > 0
      BY <1>10, <2>1 DEF RotateServe, queryVars
    <3> QED
      BY <3>1, <3>2
  <2>2. CASE UNCHANGED <<key, server>> /\ rotation' = [rotation EXCEPT !.at = "failed"]
    <3>1. rotation' = [at |-> "failed", index |-> rotation.index,
                       key |-> rotation.key, mine |-> rotation.mine]
      BY <2>2
    <3> QED
      BY <1>10, <2>2, <3>1 DEF RotateServe, queryVars
  <2> QED
    BY <1>10, <2>1, <2>2 DEF RotateServe
<1>11. CASE RotateAnswer
  BY <1>11 DEF RotateAnswer, NoRotation, panelVars, queryVars
<1>12. CASE SaveAccept \/ SaveStoredOnly
  <2>1. /\ UNCHANGED <<subs, key, config, fetch, rotation>>
        /\ others' = others \/ others' = others + 1
        /\ stored'
    BY <1>12 DEF SaveAccept, SaveStoredOnly, queryVars
  <2> QED
    BY <2>1
<1>13. CASE SaveAnswer
  BY <1>13 DEF SaveAnswer, Invalidate, Asked, NoData
<1>14. CASE SubOperation
  BY <1>14 DEF SubOperation, Invalidate, Asked, NoData, callVars
<1>15. CASE SubsJob \/ OtherAdmin \/ RotationJob
  BY <1>15 DEF SubsJob, OtherAdmin, RotationJob, queryVars, callVars
<1> QED
  BY <1>1, <1>2, <1>3, <1>4, <1>5, <1>6, <1>7, <1>8, <1>9, <1>10, <1>11, <1>12, <1>13,
     <1>14, <1>15, PageStepsKeepQuery DEF Next

\* Without news no refetch takes an unsaved edit away (the seeding effect of useXraySetting
\* runs for changed data only).
THEOREM EditsStay == Spec => EditsGiveWayToNews
<1>1. ASSUME Unchanged, Next, FetchLand, Ready, text # old
      PROVE  News \/ text' = text
  BY <1>1 DEF Unchanged, FetchLand, Ready, pageVars
<1> QED
  BY <1>1, UnchangedInit, UnchangedStep, PTL DEF Spec, EditsGiveWayToNews

-----------------------------------------------------------------------------
(* Forms. *)

\* News is never taken back.
LEMMA NewsStays == Unchanged /\ [Next]_vars /\ News => News'
<1> SUFFICES ASSUME Unchanged, [Next]_vars, News PROVE News'
  OBVIOUS
<1> USE DEF News
<1>1. CASE UNCHANGED <<subs, others, key, stored>>
  BY <1>1
<1>2. {subs, others, key} \subseteq Nat
  BY DEF Unchanged
<1>3. CASE RotateServe
  BY <1>2, <1>3 DEF RotateServe
<1>4. CASE SaveAccept \/ SaveStoredOnly
  BY <1>4 DEF SaveAccept, SaveStoredOnly
<1>5. CASE SaveAnswer
  BY <1>2, <1>5 DEF SaveAnswer
<1>6. CASE SubOperation \/ SubsJob
  BY <1>2, <1>6 DEF SubOperation, SubsJob
<1>7. CASE OtherAdmin \/ RotationJob
  BY <1>2, <1>7 DEF OtherAdmin, RotationJob
<1>8. CASE \/ FetchRead \/ FetchLand \/ FetchFail \/ Refetch \/ InvalidateElsewhere \/ Collect
           \/ OpenPage \/ ClosePage \/ RotateAsk \/ RotateAnswer
  BY <1>1, <1>8 DEF FetchRead, FetchLand, FetchFail, Refetch, InvalidateElsewhere, Collect,
     OpenPage, ClosePage, RotateAsk, RotateAnswer, panelVars
<1> QED
  BY <1>1, <1>3, <1>4, <1>5, <1>6, <1>7, <1>8, PageStepsKeepQuery DEF Next, queryView

\* A form is open on a page that shows its editors, and fits unless it was replaced.
FormsInv ==
    /\ modal = [kind |-> modal.kind, index |-> modal.index, seen |-> modal.seen,
                tags |-> modal.tags, replaced |-> modal.replaced]
    /\ modal.kind # "none" => open /\ config.got
    /\ FormsHitTheirTarget

formView == <<template, modal, open, config>>

LEMMA FormsStep == Unchanged /\ FormsInv /\ [Next]_vars => FormsInv'
<1> SUFFICES ASSUME Unchanged, FormsInv, [Next]_vars PROVE FormsInv'
  OBVIOUS
<1>1. ~ News' => ~ News
  BY NewsStays
<1>2. CASE UNCHANGED formView
  BY <1>1, <1>2 DEF formView, FormsInv, FormsHitTheirTarget, Fits, Items
<1>3. CASE modal' = Closed
  BY <1>3 DEF FormsInv, FormsHitTheirTarget, Fits, Closed
<1>4. CASE modal.kind = "none" /\ UNCHANGED modal
  BY <1>4 DEF FormsInv, FormsHitTheirTarget, Fits
<1>5. CASE UNCHANGED <<open, config>> /\ \E t : ChangeUnderForm(t)
  <2>0. PICK t : ChangeUnderForm(t)
    BY <1>5
  <2>1. modal' = [kind |-> modal.kind, index |-> modal.index, seen |-> modal.seen,
                  tags |-> modal.tags,
                  replaced |-> modal.replaced \/ (modal.kind # "none" /\ t # template)]
    BY <2>0 DEF ChangeUnderForm, FormsInv
  <2>2. /\ modal'.kind = modal.kind /\ modal'.index = modal.index
        /\ modal'.seen = modal.seen /\ modal'.tags = modal.tags
        /\ ~ modal'.replaced /\ modal.kind # "none" => ~ modal.replaced /\ template' = template
    BY <2>0, <2>1 DEF ChangeUnderForm, SetTemplate
  <2>3. FormsHitTheirTarget'
    BY <1>1, <2>2 DEF FormsInv, FormsHitTheirTarget, Fits, Items
  <2>4. modal' = [kind |-> modal'.kind, index |-> modal'.index, seen |-> modal'.seen,
                  tags |-> modal'.tags, replaced |-> modal'.replaced]
    BY <2>1
  <2> QED
    BY <1>5, <2>2, <2>3, <2>4 DEF FormsInv
<1>6. CASE FetchLand
  <2>1. CASE News \/ fetch.data # First \/ ~ open
    <3>1. fetch.data.got /\ UNCHANGED <<open, modal>>
      BY <1>6 DEF FetchLand, Unchanged, pageVars
    <3>2. News' \/ modal.kind = "none"
      BY <1>6, <2>1, NewsStays DEF Unchanged, FetchLand, FormsInv
    <3> QED
      BY <1>6, <3>1, <3>2 DEF FetchLand, FormsInv, FormsHitTheirTarget, Fits
  <2>2. CASE ~ News /\ fetch.data = First /\ open
    <3>1. CASE config.got
      BY <1>2, <1>6, <2>2, <3>1 DEF FetchLand, Unchanged, pageVars, formView
    <3>2. CASE ~ config.got
      <4>1. modal.kind = "none" /\ UNCHANGED modal
        BY <1>6, <3>2 DEF FetchLand, pageVars, FormsInv
      <4> QED
        BY <1>4, <4>1
    <3> QED
      BY <3>1, <3>2
  <2> QED
    BY <2>1, <2>2
<1>7. CASE Collect \/ OpenPage
  BY <1>4, <1>7 DEF Collect, OpenPage, pageVars, FormsInv
<1>8. CASE ClosePage \/ CancelForm
  BY <1>3, <1>8 DEF ClosePage, CancelForm
<1>9. CASE OpenForm
  <2> DEFINE opened(kind, i) ==
        [kind |-> kind, index |-> i,
         seen |-> IF i = 0 THEN None ELSE Items(kind)[i],
         tags |-> {template.outbounds[j].tag : j \in DOMAIN template.outbounds \ {i}} \ {None},
         replaced |-> FALSE]
  <2>a. PICK kind \in {"outbound", "rule", "balancer", "delOutbound", "delRule", "delBalancer"} :
        \E i \in DOMAIN Items(kind) \cup (IF kind \in {"outbound", "rule", "balancer"}
                                         THEN {0} ELSE {}) :
            modal' = opened(kind, i)
    BY <1>9 DEF OpenForm
  <2>b. PICK i \in DOMAIN Items(kind) \cup {0} : modal' = opened(kind, i)
    BY <2>a
  <2>0. /\ kind \in {"outbound", "rule", "balancer", "delOutbound", "delRule", "delBalancer"}
        /\ i \in DOMAIN Items(kind) \cup {0}
        /\ modal' = opened(kind, i)
    BY <2>a, <2>b
  <2>1. open /\ config.got /\ UNCHANGED <<template, open, config>>
    BY <1>9 DEF OpenForm, Free, Ready, pageRest, queryVars
  <2>2. modal'.tags \subseteq TagsOf(template)
    BY <2>0 DEF TagsOf
  <2>3. modal'.index = i /\ modal'.kind = kind
        /\ (i # 0 => modal'.seen = Items(kind)[i])
    BY <2>0
  <2>4. Fits'
    BY <2>0, <2>1, <2>2, <2>3 DEF Fits, Items, TagsOf
  <2> QED
    BY <2>0, <2>1, <2>4 DEF FormsInv, FormsHitTheirTarget
<1>10. CASE FormEdit
  <2>1. UNCHANGED <<open, config>>
    BY <1>10, FormEditKeepsRest DEF pageRest, queryVars
  <2>2. MoveOutbounds \/ MoveRules \/ ToggleRules \/ BasicDomains
        \/ WarpOutbound \/ NordOutbound => UNCHANGED modal
    BY DEF MoveOutbounds, MoveRules, ToggleRules, BasicDomains, WarpOutbound, NordOutbound, InPlace
  <2>3. ConfirmOutbound \/ ConfirmRule \/ ConfirmBalancer \/ ConfirmDelete => modal' = Closed
    BY DEF ConfirmOutbound, ConfirmRule, ConfirmBalancer, ConfirmDelete, Confirm
  <2> QED
    BY <1>3, <1>4, <1>10, <2>1, <2>2, <2>3 DEF FormEdit, Free
<1>11. CASE TypeText \/ FinishText \/ TypeSection
  BY <1>4, <1>11 DEF TypeText, FinishText, TypeSection, Type, InPlace, Free
<1>12. CASE WarpLeaveAnswer \/ NordLogoutAnswer \/ DefaultAnswer
  BY <1>2, <1>5, <1>12 DEF WarpLeaveAnswer, NordLogoutAnswer, DefaultAnswer, queryVars, formView
<1>13. CASE RotateAnswer
  <2>1. CASE rotation.at = "done"
    <3>1. News' /\ UNCHANGED <<modal, open, config>>
      BY <1>13, <2>1, NewsStays DEF RotateAnswer, Unchanged, News, queryVars
    <3> QED
      BY <3>1 DEF FormsInv, FormsHitTheirTarget
  <2>2. CASE rotation.at # "done"
    BY <1>2, <1>13, <2>2 DEF RotateAnswer, queryVars, formView
  <2> QED
    BY <2>1, <2>2
<1>14. CASE \/ FetchRead \/ FetchFail \/ Refetch \/ InvalidateElsewhere
            \/ WarpLeaveAsk \/ NordLogoutAsk \/ RotateAsk \/ RotateServe
  BY <1>2, <1>14 DEF FetchRead, FetchFail, Refetch, InvalidateElsewhere, WarpLeaveAsk,
     NordLogoutAsk,
     RotateAsk, RotateServe, pageVars, queryVars, formView
<1>15. CASE \/ Save \/ SaveAccept \/ SaveStoredOnly \/ SaveRefuse \/ SaveAnswer
            \/ Poll \/ DefaultAsk
  BY <1>2, <1>15 DEF Save, SaveAccept, SaveStoredOnly, SaveRefuse, SaveAnswer, Poll,
     DefaultAsk, pageVars, queryVars, formView
<1>16. CASE SubOperation \/ SubsJob \/ OtherAdmin \/ RotationJob \/ UNCHANGED vars
  BY <1>2, <1>16 DEF SubOperation, SubsJob, OtherAdmin, RotationJob, vars, pageVars,
     queryVars, formView
<1> QED
  BY <1>6, <1>7, <1>8, <1>9, <1>10, <1>11, <1>12, <1>13, <1>14, <1>15, <1>16 DEF Next

\* A form or a confirmation is applied to the item it was opened on, unless news or a late
\* answer came in under it (editingIndex and idx are kept while the template may be
\* seeded again).
THEOREM FormsHit == Spec => []FormsHitTheirTarget
<1>1. Init => Unchanged /\ FormsInv
  BY UnchangedInit DEF Init, FormsInv, FormsHitTheirTarget, Fits, Closed
<1>2. Unchanged /\ FormsInv /\ [Next]_vars => (Unchanged /\ FormsInv)'
  BY UnchangedStep, FormsStep
<1>3. FormsInv => FormsHitTheirTarget
  BY DEF FormsInv
<1> QED
  BY <1>1, <1>2, <1>3, PTL DEF Spec

-----------------------------------------------------------------------------
(* Saves. *)

\* Every write of the panel came from the page, and the page has been told.
Quiet == others = 0 /\ key = 0
\* A save that has succeeded, and that the page has not heard of.
Landed(s) == s.at = "answered" /\ s.ok
Pending == \E s \in saves : Landed(s)

SavesShape ==
    /\ events \in Nat /\ {others, key} \subseteq Nat
    /\ \A s \in saves :
        /\ s = [id |-> s.id, sent |-> s.sent, at |-> s.at, ok |-> s.ok, mine |-> s.mine]
        /\ s.id \in Nat /\ s.id < events
        /\ \A r \in saves : r.id = s.id => r = s
    /\ saves # {} => config.got
    /\ fetch.at = "answered" => fetch.data.got
    /\ fetch.at = "idle" => fetch = Idle

\* (1) what a fetch brings and (2) what the query holds is what the panel stores, unless a
\* save is pending or the query is marked; (3) the baseline is the query's or, once
\* normalised, the panel's; (4) the one save that is pending is what the panel stores;
\* (5) a page that was left with a save in flight has been seeded since.
FetchTrue == ~ Pending /\ fetch.at = "answered" => fetch.data.template = server
QueryTrue == ~ Pending /\ config.got /\ ~ invalid => config.template = server
BaselineTrue ==
    open /\ config.got =>
        /\ old.json
        /\ Pending \/ EnsureStatsRouting(old.of) = server \/ old = Json(config.template)
LastSaveTrue ==
    \A s \in saves :
        Landed(s) /\ (\A r \in saves : Landed(r) => r = s)
            => server = EnsureStatsRouting(s.sent)
StrangersSeeded ==
    open /\ config.got /\ (\E s \in saves : ~ s.mine) => old = Json(config.template)

StoredInv ==
    /\ SavesShape
    /\ Quiet => FetchTrue /\ QueryTrue /\ BaselineTrue /\ LastSaveTrue /\ StrangersSeeded

savesView == <<server, others, key, config, invalid, fetch, open, old, saves>>

LEMMA StoredFrame == StoredInv /\ UNCHANGED savesView /\ events' \in {events, events + 1}
                     => StoredInv'
<1> SUFFICES ASSUME StoredInv, UNCHANGED savesView, events' \in {events, events + 1}
             PROVE  StoredInv'
  OBVIOUS
<1>1. Pending' = Pending
  BY DEF savesView, Pending, Landed
<1>2. SavesShape'
  BY DEF StoredInv, SavesShape, savesView
<1>3. Quiet' = Quiet /\ FetchTrue' = FetchTrue /\ QueryTrue' = QueryTrue
  BY <1>1 DEF savesView, Quiet, FetchTrue, QueryTrue
<1>4. BaselineTrue' = BaselineTrue
  BY <1>1 DEF savesView, BaselineTrue
<1>5. LastSaveTrue' = LastSaveTrue /\ StrangersSeeded' = StrangersSeeded
  BY DEF savesView, LastSaveTrue, StrangersSeeded, Landed
<1> QED
  BY <1>2, <1>3, <1>4, <1>5 DEF StoredInv

\* Steps that leave the saves, the panel and the baseline alone.
LEMMA StoredFrameSteps ==
    StoredInv /\ (\/ TypeText \/ FinishText \/ TypeSection \/ OpenForm \/ CancelForm \/ FormEdit
                  \/ WarpLeaveAsk \/ NordLogoutAsk \/ WarpLeaveAnswer \/ NordLogoutAnswer
                  \/ RotateAsk \/ RotateAnswer
                  \/ Poll \/ DefaultAsk \/ DefaultAnswer \/ SubsJob \/ UNCHANGED vars)
    => StoredInv'
<1> SUFFICES ASSUME StoredInv PROVE
    (\/ TypeText \/ FinishText \/ TypeSection \/ OpenForm \/ CancelForm \/ FormEdit
     \/ WarpLeaveAsk \/ NordLogoutAsk \/ WarpLeaveAnswer \/ NordLogoutAnswer \/ RotateAsk
     \/ RotateAnswer
     \/ Poll \/ DefaultAsk \/ DefaultAnswer \/ SubsJob \/ UNCHANGED vars)
    => UNCHANGED savesView /\ events' \in {events, events + 1}
  BY StoredFrame
<1> USE DEF savesView, panelVars, queryVars, callVars, pageRest, Edit, Event
<1>1. (\E t : EditTo(t)) => events' \in {events, events + 1}
  BY DEF EditTo
<1>2. FormEdit => \E t : EditTo(t)
  BY DEF FormEdit, MoveOutbounds, MoveRules, ToggleRules, BasicDomains, WarpOutbound,
         NordOutbound, ConfirmOutbound, ConfirmRule, ConfirmBalancer,
         ConfirmDelete, Confirm, InPlace
<1>3. FormEdit => UNCHANGED savesView /\ events' \in {events, events + 1}
  BY <1>1, <1>2, FormEditKeepsRest
<1>4. TypeText \/ FinishText \/ OpenForm \/ CancelForm
      => UNCHANGED savesView /\ events' \in {events, events + 1}
  BY DEF TypeText, FinishText, Type, OpenForm, CancelForm
<1>5. TypeSection => UNCHANGED savesView /\ events' \in {events, events + 1}
  BY <1>1 DEF TypeSection, InPlace
<1>6. \/ WarpLeaveAsk \/ NordLogoutAsk \/ WarpLeaveAnswer \/ NordLogoutAnswer
      \/ RotateAsk \/ RotateAnswer
      => UNCHANGED savesView /\ events' \in {events, events + 1}
  BY DEF WarpLeaveAsk, NordLogoutAsk, WarpLeaveAnswer, NordLogoutAnswer, RotateAsk,
     RotateAnswer, pageVars
<1>7. Poll \/ DefaultAsk \/ DefaultAnswer \/ SubsJob \/ UNCHANGED vars
      => UNCHANGED savesView /\ events' \in {events, events + 1}
  BY DEF Poll, DefaultAsk, DefaultAnswer, SubsJob, vars, pageVars
<1> QED
  BY <1>3, <1>4, <1>5, <1>6, <1>7

\* A save that is answered, and one that is disowned.
LEMMA SaveAnsweredIs ==
    ASSUME NEW s, NEW ok, NEW t,
           s = [id |-> s.id, sent |-> s.sent, at |-> s.at, ok |-> s.ok, mine |-> s.mine],
           t = [s EXCEPT !.at = "answered", !.ok = ok]
    PROVE  t = [id |-> s.id, sent |-> s.sent, at |-> "answered", ok |-> ok, mine |-> s.mine]
  OBVIOUS

LEMMA SaveDisownedIs ==
    ASSUME NEW s, NEW t,
           s = [id |-> s.id, sent |-> s.sent, at |-> s.at, ok |-> s.ok, mine |-> s.mine],
           t = [s EXCEPT !.mine = FALSE]
    PROVE  t = [id |-> s.id, sent |-> s.sent, at |-> s.at, ok |-> s.ok, mine |-> FALSE]
  OBVIOUS

\* Answering a save keeps the shape of the set, its numbers and what was sent.
LEMMA AnsweredShape ==
    ASSUME SavesShape, NEW s \in saves, NEW ok \in BOOLEAN, saves' = Answered(s, ok),
           UNCHANGED <<config, fetch, events>>, {others', key'} \subseteq Nat
    PROVE  /\ SavesShape'
           /\ \E new \in saves' :
                /\ new = [id |-> s.id, sent |-> s.sent, at |-> "answered",
                          ok |-> ok, mine |-> s.mine]
                /\ saves' = (saves \ {s}) \cup {new}
<1> DEFINE new == [id |-> s.id, sent |-> s.sent, at |-> "answered", ok |-> ok, mine |-> s.mine]
<1>1. [s EXCEPT !.at = "answered", !.ok = ok] = new
  BY SaveAnsweredIs, Zenon DEF SavesShape
<1>2. saves' = (saves \ {s}) \cup {new}
  BY <1>1 DEF Answered
<1>3. ASSUME NEW r \in saves'
      PROVE  /\ r = [id |-> r.id, sent |-> r.sent, at |-> r.at, ok |-> r.ok, mine |-> r.mine]
             /\ r.id \in Nat /\ r.id < events
             /\ \A q \in saves' : q.id = r.id => q = r
  <2> new.id = s.id
    OBVIOUS
  <2> QED
    BY <1>2 DEF SavesShape
<1>4. SavesShape'
  BY <1>3 DEF SavesShape
<1> QED
  BY <1>2, <1>4

LEMMA StoredInit == Init => StoredInv
  BY DEF Init, StoredInv, SavesShape, FetchTrue, QueryTrue, BaselineTrue, LastSaveTrue,
         StrangersSeeded, Idle, NoData

\* The query: it reads what the panel stores, and seeds a page it finds open.
LEMMA StoredQuery ==
    StoredInv /\ (FetchRead \/ FetchLand \/ FetchFail \/ Refetch \/ InvalidateElsewhere
                  \/ Collect) => StoredInv'
<1> SUFFICES ASSUME StoredInv, FetchRead \/ FetchLand \/ FetchFail \/ Refetch
                               \/ InvalidateElsewhere \/ Collect
             PROVE  StoredInv'
  OBVIOUS
<1>1. /\ UNCHANGED <<server, others, key, saves, open, events>>
      /\ Pending' = Pending /\ Quiet' = Quiet
  BY DEF FetchRead, FetchLand, FetchFail, Refetch, InvalidateElsewhere, Collect,
         panelVars, pageVars, callVars, Seed, Pending, Landed, Quiet
<1>2. LastSaveTrue => LastSaveTrue'
  BY <1>1 DEF LastSaveTrue, Landed
<1> USE DEF StoredInv, FetchTrue, QueryTrue
<1>3. CASE FetchRead
  <2>1. UNCHANGED <<config, invalid, old>> /\ fetch' = [at |-> "answered", data |-> Answer(server, subs)]
    BY <1>3 DEF FetchRead, pageVars
  <2>2. SavesShape'
    BY <1>1, <2>1 DEF SavesShape, Answer
  <2>3. FetchTrue' /\ (QueryTrue => QueryTrue')
    BY <1>1, <2>1 DEF Answer
  <2>4. (BaselineTrue => BaselineTrue') /\ (StrangersSeeded => StrangersSeeded')
    BY <1>1, <2>1 DEF BaselineTrue, StrangersSeeded
  <2> QED
    BY <1>1, <1>2, <2>2, <2>3, <2>4
<1>4. CASE FetchLand
  <2>1. fetch.data.got /\ fetch' = Idle /\ config' = fetch.data
    BY <1>4 DEF FetchLand, SavesShape
  <2>2. \/ UNCHANGED old /\ (open => config' = config)
        \/ old' = Json(config'.template)
    BY <1>4 DEF FetchLand, Seed, pageVars
  <2>3. SavesShape'
    BY <1>1, <2>1 DEF SavesShape, Idle, NoData
  <2>4. FetchTrue => FetchTrue' /\ QueryTrue'
    BY <1>1, <1>4, <2>1 DEF FetchLand, Idle
  <2>5. BaselineTrue => BaselineTrue'
    BY <1>1, <2>2 DEF BaselineTrue, Json
  <2>6. StrangersSeeded => StrangersSeeded'
    BY <1>1, <2>2 DEF StrangersSeeded
  <2> QED
    BY <1>1, <1>2, <2>3, <2>4, <2>5, <2>6
<1>5. CASE FetchFail \/ Refetch \/ InvalidateElsewhere
  <2>1. /\ UNCHANGED <<config, old>> /\ (fetch' = fetch \/ fetch' = Idle \/ fetch' = Asked)
        /\ invalid' = invalid \/ invalid' = TRUE
    BY <1>5 DEF FetchFail, Refetch, InvalidateElsewhere, Invalidate, pageVars
  <2>2. SavesShape'
    BY <1>1, <2>1 DEF SavesShape, Idle, Asked, NoData
  <2>3. (FetchTrue => FetchTrue') /\ (QueryTrue => QueryTrue')
    BY <1>1, <2>1 DEF Idle, Asked
  <2>4. (BaselineTrue => BaselineTrue') /\ (StrangersSeeded => StrangersSeeded')
    BY <1>1, <2>1 DEF BaselineTrue, StrangersSeeded
  <2> QED
    BY <1>1, <1>2, <2>2, <2>3, <2>4
<1>6. CASE Collect
  <2>1. /\ saves = {} /\ ~ open /\ config' = NoData /\ UNCHANGED <<fetch, old>>
    BY <1>6 DEF Collect, pageVars
  <2>2. SavesShape' /\ BaselineTrue' /\ StrangersSeeded' /\ QueryTrue'
    BY <1>1, <2>1 DEF SavesShape, BaselineTrue, StrangersSeeded, NoData
  <2>3. FetchTrue => FetchTrue'
    BY <1>1, <2>1
  <2> QED
    BY <1>1, <1>2, <2>2, <2>3
<1> QED
  BY <1>3, <1>4, <1>5, <1>6

\* Visits: a page opened on cached data is seeded with it; one left disowns its saves.
LEMMA StoredVisits == StoredInv /\ (OpenPage \/ ClosePage) => StoredInv'
<1> SUFFICES ASSUME StoredInv, OpenPage \/ ClosePage PROVE StoredInv'
  OBVIOUS
<1> USE DEF StoredInv, FetchTrue, QueryTrue
<1>1. CASE OpenPage
  <2>1. /\ UNCHANGED <<server, others, key, saves, config, invalid>> /\ events' = events + 1
        /\ fetch' = fetch \/ fetch' = Asked
        /\ config.got => old' = Json(config.template)
    BY <1>1 DEF OpenPage, panelVars, callVars, Event, Seed
  <2>2. Pending' = Pending /\ Quiet' = Quiet
    BY <2>1 DEF Pending, Landed, Quiet
  <2>3. SavesShape'
    BY <2>1 DEF SavesShape, Asked
  <2>4. (FetchTrue => FetchTrue') /\ (QueryTrue => QueryTrue')
    BY <2>1, <2>2 DEF Asked
  <2>5. BaselineTrue' /\ StrangersSeeded'
    BY <2>1 DEF BaselineTrue, StrangersSeeded, Json
  <2>6. LastSaveTrue => LastSaveTrue'
    BY <2>1 DEF LastSaveTrue, Landed
  <2> QED
    BY <2>2, <2>3, <2>4, <2>5, <2>6
<1>2. CASE ClosePage
  <2> DEFINE left(s) == [id |-> s.id, sent |-> s.sent, at |-> s.at, ok |-> s.ok, mine |-> FALSE]
  <2>1. /\ UNCHANGED <<server, others, key, config, invalid, fetch, events>> /\ ~ open'
        /\ saves' = {[s EXCEPT !.mine = FALSE] : s \in saves}
    BY <1>2 DEF ClosePage, panelVars, queryVars
  <2>2. \A s \in saves : [s EXCEPT !.mine = FALSE] = left(s)
    BY SaveDisownedIs, Zenon DEF SavesShape
  <2>3. /\ \A s \in saves : left(s) \in saves'
        /\ \A r \in saves' : \E s \in saves : r = left(s)
    BY <2>1, <2>2
  <2>4. \A s \in saves : /\ left(s).id = s.id /\ left(s).sent = s.sent
                         /\ Landed(left(s)) = Landed(s)
    BY DEF Landed
  <2> HIDE DEF left
  <2>5. Pending' = Pending /\ Quiet' = Quiet
    BY <2>1, <2>3, <2>4 DEF Pending, Landed, Quiet
  <2>6. SavesShape'
    <3> SUFFICES ASSUME NEW r \in saves'
                 PROVE  /\ r = [id |-> r.id, sent |-> r.sent, at |-> r.at, ok |-> r.ok,
                                mine |-> r.mine]
                        /\ r.id \in Nat /\ r.id < events
                        /\ \A q \in saves' : q.id = r.id => q = r
      BY <2>1, <2>3 DEF SavesShape
    <3>1. PICK s \in saves : r = left(s)
      BY <2>3
    <3>2. r = [id |-> r.id, sent |-> r.sent, at |-> r.at, ok |-> r.ok, mine |-> r.mine]
      BY <3>1 DEF left
    <3>3. r.id \in Nat /\ r.id < events
      BY <2>4, <3>1 DEF SavesShape
    <3>4. ASSUME NEW q \in saves', q.id = r.id PROVE q = r
      <4>1. PICK p \in saves : q = left(p)
        BY <2>3
      <4>2. p.id = s.id
        BY <2>4, <3>1, <3>4, <4>1
      <4> QED
        BY <3>1, <4>1, <4>2 DEF SavesShape
    <3> QED
      BY <3>2, <3>3, <3>4
  <2>7. (FetchTrue => FetchTrue') /\ (QueryTrue => QueryTrue')
    BY <2>1, <2>5
  <2>8. BaselineTrue' /\ StrangersSeeded'
    BY <2>1 DEF BaselineTrue, StrangersSeeded
  <2>9. ASSUME LastSaveTrue, NEW r \in saves', Landed(r), \A q \in saves' : Landed(q) => q = r
        PROVE  server = EnsureStatsRouting(r.sent)
    <3>1. PICK s \in saves : r = left(s)
      BY <2>3
    <3>2. \A p \in saves : Landed(p) => p = s
      <4> SUFFICES ASSUME NEW p \in saves, Landed(p) PROVE p = s
        OBVIOUS
      <4>1. left(p) = left(s)
        BY <2>3, <2>4, <2>9, <3>1
      <4> QED
        BY <2>4, <4>1 DEF SavesShape
    <3> QED
      BY <2>4, <2>9, <3>1, <3>2 DEF LastSaveTrue
  <2>10. LastSaveTrue => LastSaveTrue'
    BY <2>1, <2>9 DEF LastSaveTrue, Landed
  <2> QED
    BY <2>5, <2>6, <2>7, <2>8, <2>10
<1> QED
  BY <1>1, <1>2

\* Writes of the panel that the page is not told of: there is nothing to show but the shape.
LEMMA StoredUntold ==
    StoredInv /\ (RotateServe \/ SaveStoredOnly \/ OtherAdmin \/ RotationJob) => StoredInv'
<1> SUFFICES ASSUME StoredInv,
                    RotateServe \/ SaveStoredOnly \/ OtherAdmin \/ RotationJob
             PROVE  StoredInv'
  OBVIOUS
<1>1. {others, key} \subseteq Nat /\ events \in Nat /\ SavesShape
  BY DEF StoredInv, SavesShape
<1>2. CASE RotateServe
  <2>1. /\ UNCHANGED <<others, config, invalid, fetch, open, old, saves, events>>
        /\ key' = key + 1 \/ UNCHANGED <<key, server>>
    BY <1>2 DEF RotateServe, queryVars, pageVars
  <2>2. CASE key' = key + 1
    <3>1. SavesShape' /\ ~ Quiet'
      BY <1>1, <2>1, <2>2 DEF SavesShape, Quiet
    <3> QED
      BY <3>1 DEF StoredInv
  <2>3. CASE UNCHANGED <<key, server>>
    BY <2>1, <2>3, StoredFrame DEF savesView
  <2> QED
    BY <2>1, <2>2, <2>3
<1>3. CASE SaveStoredOnly
  <2>1. PICK s \in saves : s.at = "sent" /\ saves' = Answered(s, FALSE)
    BY <1>3 DEF SaveStoredOnly
  <2>2. UNCHANGED <<key, config, fetch, events>> /\ others' = others + 1
    BY <1>3 DEF SaveStoredOnly, queryVars
  <2>3. {others', key'} \subseteq Nat /\ ~ Quiet'
    BY <1>1, <2>2 DEF Quiet
  <2>4. SavesShape'
    BY <1>1, <2>1, <2>2, <2>3, AnsweredShape
  <2> QED
    BY <2>3, <2>4 DEF StoredInv
<1>4. CASE OtherAdmin \/ RotationJob
  <2>1. /\ UNCHANGED <<config, fetch, saves>> /\ key' \in {key, key + 1}
        /\ others' = others + 1 /\ events' = events + 1
    BY <1>4 DEF OtherAdmin, RotationJob, queryVars, callVars, Event
  <2>2. SavesShape' /\ ~ Quiet'
    BY <1>1, <2>1 DEF SavesShape, Quiet
  <2> QED
    BY <2>2 DEF StoredInv
<1> QED
  BY <1>2, <1>3, <1>4

\* Save, and what the panel makes of one.
LEMMA StoredSave == StoredInv /\ (Save \/ SaveAccept \/ SaveRefuse) => StoredInv'
<1> SUFFICES ASSUME StoredInv, Save \/ SaveAccept \/ SaveRefuse PROVE StoredInv'
  OBVIOUS
<1>1. SavesShape /\ {others, key} \subseteq Nat /\ events \in Nat
  BY DEF StoredInv, SavesShape
<1>2. CASE Save
  <2> DEFINE new == [id |-> events, sent |-> text.of, at |-> "sent", ok |-> FALSE, mine |-> TRUE]
  <2>1. /\ UNCHANGED <<server, others, key, config, invalid, fetch, open, old>>
        /\ saves' = saves \cup {new} /\ events' = events + 1 /\ config.got
    BY <1>2 DEF Save, Free, Ready, Event, panelVars, queryVars, pageVars
  <2>2. new.mine /\ ~ Landed(new) /\ new.id = events
        /\ new = [id |-> new.id, sent |-> new.sent, at |-> new.at, ok |-> new.ok, mine |-> new.mine]
    BY DEF Landed
  <2> HIDE DEF new
  <2>3. Pending' = Pending /\ Quiet' = Quiet
    BY <2>1, <2>2 DEF Pending, Landed, Quiet
  <2>4. \A r \in saves' :
            /\ r = [id |-> r.id, sent |-> r.sent, at |-> r.at, ok |-> r.ok, mine |-> r.mine]
            /\ r.id \in Nat /\ r.id < events'
            /\ \A q \in saves' : q.id = r.id => q = r
    BY <1>1, <2>1, <2>2 DEF SavesShape
  <2>5. SavesShape'
    BY <1>1, <2>1, <2>4 DEF SavesShape
  <2>6. (FetchTrue => FetchTrue') /\ (QueryTrue => QueryTrue') /\ (BaselineTrue => BaselineTrue')
    BY <2>1, <2>3 DEF FetchTrue, QueryTrue, BaselineTrue
  <2>7. (LastSaveTrue => LastSaveTrue') /\ (StrangersSeeded => StrangersSeeded')
    BY <2>1, <2>2 DEF LastSaveTrue, StrangersSeeded, Landed
  <2> QED
    BY <2>3, <2>5, <2>6, <2>7 DEF StoredInv
<1>3. CASE SaveAccept
  <2>1. PICK s \in saves : /\ s.at = "sent" /\ server' = EnsureStatsRouting(s.sent)
                           /\ saves' = Answered(s, TRUE)
    BY <1>3 DEF SaveAccept
  <2>2. UNCHANGED <<others, key, config, invalid, fetch, open, old, events>>
    BY <1>3 DEF SaveAccept, queryVars, pageVars
  <2>3. {others', key'} \subseteq Nat
    BY <1>1, <2>2
  <2>4. /\ SavesShape'
        /\ \E r \in saves' :
             /\ r = [id |-> s.id, sent |-> s.sent, at |-> "answered", ok |-> TRUE, mine |-> s.mine]
             /\ saves' = (saves \ {s}) \cup {r}
    BY <1>1, <2>1, <2>2, <2>3, AnsweredShape
  <2>5. PICK new \in saves' :
             /\ new = [id |-> s.id, sent |-> s.sent, at |-> "answered", ok |-> TRUE, mine |-> s.mine]
             /\ saves' = (saves \ {s}) \cup {new}
    BY <2>4
  <2>6. Landed(new) /\ new.sent = s.sent /\ new.mine = s.mine
    BY <2>5 DEF Landed
  <2>7. Pending' /\ Quiet' = Quiet
    BY <2>2, <2>5, <2>6 DEF Pending, Quiet, Landed
  <2>8. FetchTrue' /\ QueryTrue' /\ (BaselineTrue => BaselineTrue')
    BY <2>2, <2>7 DEF FetchTrue, QueryTrue, BaselineTrue
  <2>9. LastSaveTrue'
    BY <2>1, <2>5, <2>6 DEF LastSaveTrue, Landed
  <2>10. StrangersSeeded => StrangersSeeded'
    BY <2>2, <2>5, <2>6 DEF StrangersSeeded
  <2> QED
    BY <2>4, <2>7, <2>8, <2>9, <2>10 DEF StoredInv
<1>4. CASE SaveRefuse
  <2>1. PICK s \in saves : s.at = "sent" /\ saves' = Answered(s, FALSE)
    BY <1>4 DEF SaveRefuse
  <2>2. UNCHANGED <<server, others, key, config, invalid, fetch, open, old, events>>
    BY <1>4 DEF SaveRefuse, panelVars, queryVars, pageVars
  <2>3. {others', key'} \subseteq Nat
    BY <1>1, <2>2
  <2>4. /\ SavesShape'
        /\ \E r \in saves' :
             /\ r = [id |-> s.id, sent |-> s.sent, at |-> "answered", ok |-> FALSE, mine |-> s.mine]
             /\ saves' = (saves \ {s}) \cup {r}
    BY <1>1, <2>1, <2>2, <2>3, AnsweredShape
  <2>5. PICK new \in saves' :
             /\ new = [id |-> s.id, sent |-> s.sent, at |-> "answered", ok |-> FALSE, mine |-> s.mine]
             /\ saves' = (saves \ {s}) \cup {new}
    BY <2>4
  <2>6. ~ Landed(new) /\ ~ Landed(s) /\ new.mine = s.mine
    BY <2>1, <2>5 DEF Landed
  <2>7. Pending' = Pending /\ Quiet' = Quiet
    BY <2>2, <2>5, <2>6 DEF Pending, Quiet, Landed
  <2>8. (FetchTrue => FetchTrue') /\ (QueryTrue => QueryTrue') /\ (BaselineTrue => BaselineTrue')
    BY <2>2, <2>7 DEF FetchTrue, QueryTrue, BaselineTrue
  <2>9. LastSaveTrue => LastSaveTrue'
    BY <2>2, <2>5, <2>6 DEF LastSaveTrue, Landed
  <2>10. StrangersSeeded => StrangersSeeded'
    BY <2>2, <2>5, <2>6 DEF StrangersSeeded
  <2> QED
    BY <2>4, <2>7, <2>8, <2>9, <2>10 DEF StoredInv
<1> QED
  BY <1>2, <1>3, <1>4

\* The answer of a save, and of an operation on the subscriptions.
LEMMA StoredAnswer == StoredInv /\ (SaveAnswer \/ SubOperation) => StoredInv'
<1> SUFFICES ASSUME StoredInv, SaveAnswer \/ SubOperation PROVE StoredInv'
  OBVIOUS
<1>1. SavesShape /\ {others, key} \subseteq Nat /\ events \in Nat
  BY DEF StoredInv, SavesShape
<1>2. CASE SubOperation
  <2>1. /\ UNCHANGED <<server, others, key, config, open, old, saves>> /\ events' = events + 1
        /\ invalid' /\ (fetch' = fetch \/ fetch' = Asked)
    BY <1>2 DEF SubOperation, Event, Invalidate, pageVars, callVars
  <2>2. Pending' = Pending /\ Quiet' = Quiet
    BY <2>1 DEF Pending, Landed, Quiet
  <2>3. SavesShape'
    BY <1>1, <2>1 DEF SavesShape, Asked
  <2>4. (FetchTrue => FetchTrue') /\ QueryTrue' /\ (BaselineTrue => BaselineTrue')
    BY <2>1, <2>2 DEF FetchTrue, QueryTrue, BaselineTrue, Asked
  <2>5. (LastSaveTrue => LastSaveTrue') /\ (StrangersSeeded => StrangersSeeded')
    BY <2>1 DEF LastSaveTrue, StrangersSeeded, Landed
  <2> QED
    BY <2>2, <2>3, <2>4, <2>5 DEF StoredInv
<1>3. CASE SaveAnswer
  <2>1. PICK s \in saves :
            /\ s.at = "answered" /\ saves' = saves \ {s} /\ SaveBaseline(s)
            /\ IF s.ok THEN Invalidate ELSE UNCHANGED <<invalid, fetch>>
            /\ others' = IF Untold(s) THEN others + 1 ELSE others
            /\ UNCHANGED <<server, key, config, open, events>>
    BY <1>3 DEF SaveAnswer
  <2>2. config.got /\ (fetch' = fetch \/ fetch' = Asked) /\ {others', key'} \subseteq Nat
    BY <1>1, <2>1 DEF SavesShape, Invalidate
  <2>3. SavesShape'
    BY <1>1, <2>1, <2>2 DEF SavesShape, Asked
  <2>4. Quiet' => Quiet /\ ~ Untold(s)
    BY <1>1, <2>1 DEF Quiet
  <2>5. CASE s.ok /\ ~ Untold(s)
    <3>1. saves' = {} /\ (open \/ fetch = Idle)
      BY <2>1, <2>5 DEF Untold
    <3>2. invalid' /\ fetch'.at # "answered"
      BY <2>1, <2>2, <2>5, <3>1 DEF Invalidate, Asked, Idle
    <3>3. FetchTrue' /\ QueryTrue' /\ LastSaveTrue' /\ StrangersSeeded'
      BY <3>1, <3>2 DEF FetchTrue, QueryTrue, LastSaveTrue, StrangersSeeded
    <3>4. LastSaveTrue => server = EnsureStatsRouting(s.sent)
      BY <2>1, <2>5, <3>1 DEF LastSaveTrue, Landed
    <3>5. CASE s.mine
      <4>1. old' = Json(s.sent)
        BY <2>1, <2>5, <3>5 DEF SaveBaseline, Baseline
      <4>2. LastSaveTrue => BaselineTrue'
        BY <2>1, <3>4, <4>1 DEF BaselineTrue, Json
      <4> QED
        BY <2>3, <2>4, <3>3, <4>2 DEF StoredInv
    <3>6. CASE ~ s.mine
      <4>1. old' = old
        BY <2>1, <2>5, <3>6 DEF SaveBaseline, Baseline
      <4>2. BaselineTrue /\ StrangersSeeded => BaselineTrue'
        BY <2>1, <3>6, <4>1 DEF BaselineTrue, StrangersSeeded
      <4> QED
        BY <2>3, <2>4, <3>3, <4>2 DEF StoredInv
    <3> QED
      BY <3>5, <3>6
  <2>6. CASE ~ s.ok
    <3>1. UNCHANGED <<invalid, fetch, old>>
      BY <2>1, <2>6 DEF SaveBaseline, Baseline
    <3>2. Pending' = Pending
      BY <2>1, <2>6 DEF Pending, Landed
    <3>3. (FetchTrue => FetchTrue') /\ (QueryTrue => QueryTrue') /\ (BaselineTrue => BaselineTrue')
      BY <2>1, <3>1, <3>2 DEF FetchTrue, QueryTrue, BaselineTrue
    <3>4. (LastSaveTrue => LastSaveTrue') /\ (StrangersSeeded => StrangersSeeded')
      BY <2>1, <2>6, <3>1 DEF LastSaveTrue, StrangersSeeded, Landed
    <3> QED
      BY <2>3, <2>4, <3>3, <3>4 DEF StoredInv
  <2> QED
    BY <2>3, <2>4, <2>5, <2>6 DEF StoredInv
<1> QED
  BY <1>2, <1>3

\* A page at rest that calls itself clean shows what the panel stores, or what the panel has
\* normalised, as long as nobody else has written it (saveMut's baseline, the invalidation
\* after it, the structural sharing of the query).
THEOREM CleanStored == Spec => []CleanMeansStored
<1>1. StoredInv /\ [Next]_vars => StoredInv'
  BY StoredFrameSteps, StoredQuery, StoredVisits, StoredUntold, StoredSave, StoredAnswer DEF Next
<1>2. StoredInv /\ TextTellsTemplate => CleanMeansStored
  <2> SUFFICES ASSUME StoredInv, TextTellsTemplate, Settled, text = old, others = 0, key = 0
               PROVE  server \in {template, EnsureStatsRouting(template)}
    BY DEF CleanMeansStored
  <2>1. open /\ config.got /\ ~ Pending /\ ~ invalid
    BY DEF Settled, Ready, Pending
  <2>2. QueryTrue /\ BaselineTrue
    BY DEF StoredInv, Quiet
  <2>3. config.template = server /\ text.json
    BY <2>1, <2>2 DEF QueryTrue, BaselineTrue
  <2>4. template = old.of
    BY <2>3 DEF TextTellsTemplate
  <2> QED
    BY <2>1, <2>2, <2>3, <2>4 DEF BaselineTrue, Json
<1> QED
  BY <1>1, <1>2, StoredInit, TextTells, PTL DEF Spec

-----------------------------------------------------------------------------
(* The types of the page's state. *)

Brought == [got : {TRUE}, template : Template, subs : Nat]
Texts   == {Unfinished} \cup [json : {TRUE}, of : Template]
Kinds   == {"none", "outbound", "rule", "balancer", "delOutbound", "delRule", "delBalancer"}

\* What a form of the kind is opened on.
ItemType(kind) ==
    IF kind \in {"outbound", "delOutbound"} THEN Outbound
    ELSE IF kind \in {"rule", "delRule"} THEN Rule ELSE Balancer

PanelTyped ==
    /\ server \in Template /\ subs \in Nat /\ others \in Nat /\ key \in Nat
    /\ stored \in BOOLEAN
QueryTyped ==
    /\ config \in {NoData} \cup Brought /\ invalid \in BOOLEAN /\ failed \in BOOLEAN
    /\ fetch \in [at : {"idle", "asked"}, data : {NoData}] \cup [at : {"answered"}, data : Brought]
\* A page that has been seeded has a template.
PageTyped ==
    /\ open \in BOOLEAN /\ saveDisabled \in BOOLEAN
    /\ text \in Texts /\ old \in Texts
    /\ template \in {None} \cup Template
    /\ open /\ config.got => template \in Template
ModalTyped ==
    /\ modal \in [kind : Kinds, index : Nat, seen : {None} \cup Outbound \cup Rule \cup Balancer,
                  tags : SUBSET Tag, replaced : BOOLEAN]
    /\ modal.kind # "none" => open /\ config.got
    /\ modal.kind # "none" /\ modal.index > 0 => modal.seen \in ItemType(modal.kind)
CallsTyped ==
    /\ saves \subseteq [id : Nat, sent : Template, at : {"sent", "answered"},
                       ok : BOOLEAN, mine : BOOLEAN]
    /\ resetting \in BOOLEAN
    /\ rotation \in [at : {"none", "asked", "done", "failed"}, index : Nat,
                     key : Nat, mine : BOOLEAN]
    /\ leaving \in Nat \cup {None} /\ deleting \in BOOLEAN
CountsTyped == edits \in Nat /\ events \in Nat

Typed == PanelTyped /\ QueryTyped /\ PageTyped /\ ModalTyped /\ CallsTyped /\ CountsTyped

LEMMA TypedInit == Init => Typed
<1> SUFFICES ASSUME Init PROVE Typed
  OBVIOUS
<1>1. PanelTyped
  BY EditorAssumption DEF Init, PanelTyped
<1>2. QueryTyped
  BY DEF Init, QueryTyped, Idle
<1>3. PageTyped
  BY DEF Init, PageTyped, Texts, NoData
<1>4. ModalTyped
  BY DEF Init, ModalTyped, Closed, Kinds
<1>5. CallsTyped /\ CountsTyped
  BY DEF Init, CallsTyped, CountsTyped, NoRotation
<1> QED
  BY <1>1, <1>2, <1>3, <1>4, <1>5 DEF Typed

LEMMA TypedGivesTypeOK == Typed => TypeOK
<1> SUFFICES ASSUME Typed PROVE TypeOK
  OBVIOUS
<1>1. /\ server \in Template /\ subs \in Nat /\ others \in Nat /\ key \in Nat
      /\ stored \in BOOLEAN
  BY DEF Typed, PanelTyped
<1>2. /\ config \in {NoData} \cup [got : {TRUE}, template : Template, subs : Nat]
      /\ invalid \in BOOLEAN /\ failed \in BOOLEAN
  BY DEF Typed, QueryTyped, Brought
<1>3. fetch \in [at : {"idle", "asked", "answered"},
                 data : {NoData} \cup [got : {TRUE}, template : Template, subs : Nat]]
  BY DEF Typed, QueryTyped, Brought
<1>4. \A x \in Texts : x \in [json : BOOLEAN, of : {None} \cup Template]
  <2>1. \A x \in [json : {TRUE}, of : Template] : x \in [json : BOOLEAN, of : {None} \cup Template]
    OBVIOUS
  <2>2. [json |-> FALSE, of |-> None] \in [json : BOOLEAN, of : {None} \cup Template]
    OBVIOUS
  <2> QED
    BY <2>1, <2>2 DEF Texts, Unfinished
<1>5. /\ open \in BOOLEAN /\ saveDisabled \in BOOLEAN /\ template \in {None} \cup Template
      /\ text \in [json : BOOLEAN, of : {None} \cup Template]
      /\ old \in [json : BOOLEAN, of : {None} \cup Template]
  BY <1>4 DEF Typed, PageTyped
<1>6. /\ modal.kind \in Kinds /\ modal.index \in Nat /\ modal.tags \subseteq Tag
      /\ modal.replaced \in BOOLEAN
  BY DEF Typed, ModalTyped
<1>7. /\ saves \subseteq [id : Nat, sent : Template, at : {"sent", "answered"},
                          ok : BOOLEAN, mine : BOOLEAN]
      /\ resetting \in BOOLEAN
      /\ rotation \in [at : {"none", "asked", "done", "failed"}, index : Nat,
                       key : Nat, mine : BOOLEAN]
      /\ leaving \in Nat \cup {None} /\ deleting \in BOOLEAN /\ edits \in Nat /\ events \in Nat
  BY DEF Typed, CallsTyped, CountsTyped
<1> QED
  BY <1>1, <1>2, <1>3, <1>5, <1>6, <1>7 DEF TypeOK, Kinds

\* What a list of the template holds is what its forms are opened on.
LEMMA ItemsTyped ==
    ASSUME template \in Template, NEW kind \in Kinds \ {"none"}
    PROVE  /\ Items(kind) \in Seq(ItemType(kind))
           /\ ItemType(kind) \subseteq Outbound \cup Rule \cup Balancer
<1>1. CASE kind \in {"outbound", "delOutbound"}
  <2>1. Items(kind) = template.outbounds /\ ItemType(kind) = Outbound
    BY <1>1 DEF Items, ItemType
  <2> QED
    BY <2>1, TemplateFields
<1>2. CASE kind \in {"rule", "delRule"}
  <2>1. Items(kind) = template.rules /\ ItemType(kind) = Rule
    BY <1>2 DEF Items, ItemType
  <2> QED
    BY <2>1, TemplateFields
<1>3. CASE kind \in {"balancer", "delBalancer"}
  <2>1. Items(kind) = template.balancers /\ ItemType(kind) = Balancer
    BY <1>3 DEF Items, ItemType
  <2> QED
    BY <2>1, TemplateFields
<1> QED
  BY <1>1, <1>2, <1>3 DEF Kinds

\* What a form submits, whatever it was opened on.
LEMMA OutboundOfForm ==
    ASSUME Typed, FormEdit, ConfirmOutbound
    PROVE  \E o \in Outbound :
              /\ o.tag # None
              /\ \/ o.dialer \in modal.tags \cup {None}
                 \/ modal.index > 0 /\ o.dialer = modal.seen.dialer
              /\ \/ modal.index = 0 /\ template' = AddOutbound(template, o)
                 \/ /\ modal.index \in Nat \ {0}
                    /\ template' = ReplaceOutbound(template, modal.index, o)
<1>1. /\ modal.index \in Nat /\ modal.tags \subseteq Tag
      /\ modal.index > 0 => modal.seen \in Outbound
  BY DEF Typed, ModalTyped, ConfirmOutbound, ItemType
<1>2. PICK o : /\ \/ modal.index = 0 /\ template' = AddOutbound(template, o)
                  \/ modal.index > 0 /\ template' = ReplaceOutbound(template, modal.index, o)
               /\ \E tag \in Tag \ modal.tags,
                     dialer \in modal.tags \cup {None} \cup
                               (IF modal.index = 0 THEN {} ELSE {modal.seen.dialer}) :
                      o = [tag |-> tag, dialer |-> dialer,
                           key |-> IF modal.index = 0 THEN 0 ELSE modal.seen.key]
  BY <1>1 DEF ConfirmOutbound, Confirm, EditTo, SetTemplate
<1>3. /\ (IF modal.index = 0 THEN 0 ELSE modal.seen.key) \in Nat
      /\ modal.index > 0 => modal.seen.dialer \in Tag \cup {None}
  BY <1>1 DEF Outbound
<1>4. /\ o \in Outbound /\ o.tag # None
      /\ \/ o.dialer \in modal.tags \cup {None}
         \/ modal.index > 0 /\ o.dialer = modal.seen.dialer
  BY <1>1, <1>2, <1>3, TemplateAssumption DEF Outbound
<1> QED
  BY <1>1, <1>2, <1>4

LEMMA RuleOfForm ==
    ASSUME Typed, FormEdit, ConfirmRule, template \in Template
    PROVE  \E i \in Nat \ {0}, r \in Rule :
              /\ template' = PutRule(template, i, r)
              /\ i = IF modal.index = 0 THEN Len(template.rules) + 1 ELSE modal.index
              /\ LET was == IF modal.index = 0 THEN NoRule ELSE modal.seen
                 IN /\ r.out \in TagsOf(template) \cup Offered \cup {was.out, None}
                    /\ r.bal \in BalancersOf(template) \cup {was.bal, None}
<1> DEFINE was == IF modal.index = 0 THEN NoRule ELSE modal.seen
           i == IF modal.index = 0 THEN Len(template.rules) + 1 ELSE modal.index
<1>1. was \in Rule /\ modal.index \in Nat
  BY HolesAreTyped DEF Typed, ModalTyped, ConfirmRule, ItemType
<1>2. i \in Nat \ {0}
  BY <1>1, TemplateFields
<1>3. PICK out \in TagsOf(template) \cup Offered \cup {was.out, None},
           bal \in BalancersOf(template) \cup {was.bal, None} :
              Confirm(PutRule(template, i, [was EXCEPT !.out = out, !.bal = bal]))
  BY DEF ConfirmRule
<1> DEFINE r == [was EXCEPT !.out = out, !.bal = bal]
<1>4. template' = PutRule(template, i, r)
  BY <1>3 DEF Confirm, EditTo, SetTemplate
<1>5. TagsOf(template) \subseteq Tag /\ BalancersOf(template) \subseteq BalancerTag
  BY TagsTyped
<1>6. r \in Rule /\ r.out = out /\ r.bal = bal
  <2> HIDE DEF was
  <2>1. out \in Tag \cup {Api, None} /\ bal \in BalancerTag \cup {None}
    BY <1>1, <1>3, <1>5, TemplateAssumption DEF Rule
  <2>2. \A w \in Rule : LET q == [w EXCEPT !.out = out, !.bal = bal]
                        IN  q \in Rule /\ q.out = out /\ q.bal = bal
    BY <2>1 DEF Rule
  <2> QED
    BY <1>1, <2>2
<1> HIDE DEF r
<1> QED
  BY <1>2, <1>3, <1>4, <1>6

LEMMA BalancerOfForm ==
    ASSUME Typed, FormEdit, ConfirmBalancer, template \in Template
    PROVE  \E b \in Balancer :
              /\ \/ modal.index = 0 /\ template' = AddBalancer(template, b)
                 \/ /\ modal.index \in Nat \ {0}
                    /\ template' = ReplaceBalancer(template, modal.index, b)
              /\ \/ b.fallback \in TagsOf(template) \cup Offered \cup {None}
                 \/ modal.index > 0 /\ b.fallback = modal.seen.fallback
<1> DEFINE was == IF modal.index = 0 THEN {} ELSE {modal.seen}
<1>1. modal.index \in Nat /\ was \subseteq Balancer
  BY DEF Typed, ModalTyped, ConfirmBalancer, ItemType
<1>2. TagsOf(template) \cup Offered \subseteq Tag /\ Selectors \subseteq SUBSET Tag
  BY TagsTyped, TemplateAssumption, EditorAssumption
<1>3. PICK b \in [tag : BalancerTag \ {template.balancers[j].tag :
                          j \in DOMAIN template.balancers \ {modal.index}},
                  strategy : Strategies,
                  selector : Selectors \cup {w.selector : w \in was},
                  fallback : {None} \cup TagsOf(template) \cup Offered
                             \cup {w.fallback : w \in was}] :
          \/ modal.index = 0 /\ template' = AddBalancer(template, b)
          \/ modal.index > 0 /\ template' = ReplaceBalancer(template, modal.index, b)
  BY <1>1 DEF ConfirmBalancer, Confirm, EditTo, SetTemplate
<1>4. b.fallback \in {None} \cup TagsOf(template) \cup Offered \cup {w.fallback : w \in was}
  BY <1>3
<1>5. \A w \in was : w = modal.seen /\ modal.index > 0
  BY <1>1
<1> HIDE DEF was
<1>6. b \in Balancer
  BY <1>1, <1>2, <1>3 DEF Balancer
<1>7. \/ b.fallback \in TagsOf(template) \cup Offered \cup {None}
      \/ modal.index > 0 /\ b.fallback = modal.seen.fallback
  BY <1>4, <1>5
<1> QED
  BY <1>1, <1>3, <1>6, <1>7

\* Every form and every button leaves a template.
LEMMA FormEditTyped ==
    ASSUME Typed, FormEdit
    PROVE  template' \in Template /\ text' = Json(template') /\ template \in Template
<1>0. template \in Template
  BY DEF FormEdit, Free, Ready, Typed, PageTyped
<1>1. key \in Nat /\ Account(Warp) \in Outbound /\ \A tag \in Nord : Account(tag) \in Outbound
  <2>1. key \in Nat
    BY DEF Typed, PanelTyped
  <2>2. \A tag \in Tag : Account(tag) \in Outbound
    BY <2>1 DEF Account, Outbound
  <2>3. Warp \in Tag /\ Nord \subseteq Tag
    BY TemplateAssumption
  <2> QED
    BY <2>1, <2>2, <2>3
<1>2. \A t : (InPlace(t) \/ Confirm(t)) => template' = t /\ text' = Json(t)
  BY DEF InPlace, Confirm, EditTo, SetTemplate
<1> SUFFICES template' \in Template
  BY <1>0, <1>2 DEF FormEdit, MoveOutbounds, MoveRules, ToggleRules, BasicDomains, WarpOutbound,
     NordOutbound, ConfirmOutbound, ConfirmRule, ConfirmBalancer, ConfirmDelete
<1>3. CASE MoveOutbounds
  BY <1>0, <1>2, <1>3, MoveOutboundTyped DEF MoveOutbounds
<1>4. CASE MoveRules
  BY <1>0, <1>2, <1>4, MoveRuleTyped DEF MoveRules
<1>5. CASE ToggleRules
  BY <1>0, <1>2, <1>5, ToggleRuleFacts DEF ToggleRules
<1>6. CASE BasicDomains
  <2>1. {Direct, Blocked} \subseteq Tag
    BY TemplateAssumption
  <2> QED
    BY <1>0, <1>2, <1>6, <2>1, SetBasicDomainsTyped DEF BasicDomains
<1>7. CASE WarpOutbound
  <2> DEFINE i == FindIndex(template, {Warp})
             list == Put(template.outbounds, i, Account(Warp), Hole)
  <2>1. i \in Nat
    BY <1>0, FindIndexFacts, TemplateFields
  <2>2. \/ template' = AddOutbound(template, Account(Warp))
        \/ i # 0 /\ template' = [template EXCEPT !.outbounds = list]
    BY <1>2, <1>7 DEF WarpOutbound
  <2> HIDE DEF i
  <2>3. i # 0 => list \in Seq(Outbound)
    BY <1>0, <1>1, <2>1, TemplateFields, HolesAreTyped, PutFacts
  <2> HIDE DEF list
  <2> QED
    BY <1>0, <1>1, <2>2, <2>3, AddOutboundTyped, WithOutbounds
<1>9. CASE NordOutbound
  <2> DEFINE i == FindIndex(template, Nord)
  <2>1. i \in Nat
    BY <1>0, FindIndexFacts, TemplateFields
  <2>2. PICK tag \in Nord : \/ template' = AddOutbound(template, Account(tag))
                            \/ i # 0 /\ template' = ReplaceOutbound(template, i, Account(tag))
    BY <1>2, <1>9 DEF NordOutbound
  <2> HIDE DEF i
  <2> QED
    BY <1>0, <1>1, <2>1, <2>2, AddOutboundTyped, ReplaceOutboundTyped
<1>10. CASE ConfirmDelete
  BY <1>0, <1>2, <1>10, DeleteOutboundTyped, DeleteRuleTyped, DeleteBalancerTyped
     DEF ConfirmDelete
<1>11. CASE ConfirmOutbound
  BY <1>0, <1>11, OutboundOfForm, AddOutboundTyped, ReplaceOutboundTyped
<1>12. CASE ConfirmRule
  BY <1>0, <1>12, RuleOfForm, PutRuleTyped
<1>13. CASE ConfirmBalancer
  BY <1>0, <1>13, BalancerOfForm, AddBalancerTyped, ReplaceBalancerTyped
<1> QED
  BY <1>3, <1>4, <1>5, <1>6, <1>7, <1>9, <1>10, <1>11, <1>12, <1>13 DEF FormEdit

-----------------------------------------------------------------------------
(* No step takes the state out of its types. *)

LEMMA PanelStep == Typed /\ [Next]_vars => PanelTyped'
<1> SUFFICES ASSUME Typed, [Next]_vars PROVE PanelTyped'
  OBVIOUS
<1>1. /\ server \in Template /\ subs \in Nat /\ others \in Nat /\ key \in Nat
      /\ stored \in BOOLEAN
  BY DEF Typed, PanelTyped
<1>2. \A s \in saves : s.sent \in Template
  BY DEF Typed, CallsTyped
<1>3. CASE UNCHANGED panelVars
  BY <1>1, <1>3 DEF PanelTyped, panelVars
<1>4. CASE RotateServe \/ RotationJob
  <2>1. key + 1 \in Nat /\ UpdateWarp(server, key + 1) \in Template /\ others + 1 \in Nat
    BY <1>1, UpdateWarpTyped
  <2>2. /\ UNCHANGED <<subs, stored>>
        /\ \/ key' = key + 1 /\ server' = UpdateWarp(server, key + 1)
           \/ UNCHANGED <<key, server>>
        /\ others' = others \/ others' = others + 1
    BY <1>4 DEF RotateServe, RotationJob
  <2> QED
    BY <1>1, <2>1, <2>2 DEF PanelTyped
<1>5. CASE SaveAccept \/ SaveStoredOnly
  <2>1. PICK s \in saves : server' = EnsureStatsRouting(s.sent)
    BY <1>5 DEF SaveAccept, SaveStoredOnly
  <2>2. /\ stored' = TRUE /\ UNCHANGED <<subs, key>>
        /\ others' = others \/ others' = others + 1
    BY <1>5 DEF SaveAccept, SaveStoredOnly
  <2>3. server' \in Template
    BY <1>2, <2>1, EnsureStatsRoutingTyped
  <2> QED
    BY <1>1, <2>2, <2>3 DEF PanelTyped
<1>6. CASE SaveAnswer
  BY <1>1, <1>6 DEF PanelTyped, SaveAnswer
<1>7. CASE SubOperation \/ SubsJob
  BY <1>1, <1>7 DEF PanelTyped, SubOperation, SubsJob
<1>8. CASE OtherAdmin
  BY <1>1, <1>8, EnsureStatsRoutingTyped, EditorAssumption DEF PanelTyped, OtherAdmin
<1>9. CASE \/ FetchRead \/ FetchLand \/ FetchFail \/ Refetch \/ InvalidateElsewhere \/ Collect
           \/ OpenPage \/ ClosePage \/ RotateAsk \/ RotateAnswer
  BY <1>3, <1>9 DEF FetchRead, FetchLand, FetchFail, Refetch, InvalidateElsewhere, Collect,
     OpenPage, ClosePage, RotateAsk, RotateAnswer
<1>10. UNCHANGED queryView => UNCHANGED panelVars
  BY DEF queryView, panelVars
<1> QED
  BY <1>3, <1>4, <1>5, <1>6, <1>7, <1>8, <1>9, <1>10, PageStepsKeepQuery DEF Next

LEMMA QueryStep == Typed /\ [Next]_vars => QueryTyped'
<1> SUFFICES ASSUME Typed, [Next]_vars PROVE QueryTyped'
  OBVIOUS
<1>1. /\ config \in {NoData} \cup Brought /\ invalid \in BOOLEAN /\ failed \in BOOLEAN
      /\ fetch \in [at : {"idle", "asked"}, data : {NoData}] \cup [at : {"answered"}, data : Brought]
  BY DEF Typed, QueryTyped
<1>2. Idle \in [at : {"idle", "asked"}, data : {NoData}]
      /\ Asked \in [at : {"idle", "asked"}, data : {NoData}]
  BY DEF Idle, Asked
<1>3. CASE UNCHANGED queryVars
  BY <1>1, <1>3 DEF QueryTyped, queryVars
<1>4. CASE FetchRead
  <2>1. Answer(server, subs) \in Brought
    BY DEF Typed, PanelTyped, Answer, Brought
  <2>2. fetch' \in [at : {"answered"}, data : Brought] /\ UNCHANGED <<config, invalid, failed>>
    BY <1>4, <2>1 DEF FetchRead
  <2> QED
    BY <1>1, <2>2 DEF QueryTyped
<1>5. CASE FetchLand
  <2>1. fetch.data \in Brought
    BY <1>1, <1>5 DEF FetchLand
  <2> QED
    BY <1>2, <1>5, <2>1 DEF FetchLand, QueryTyped
<1>6. CASE FetchFail \/ Refetch \/ Collect
  BY <1>1, <1>2, <1>6 DEF FetchFail, Refetch, Collect, QueryTyped
<1>7. CASE InvalidateElsewhere \/ SubOperation
  BY <1>1, <1>2, <1>7 DEF InvalidateElsewhere, SubOperation, Invalidate, QueryTyped
<1>8. CASE OpenPage
  BY <1>1, <1>2, <1>8 DEF OpenPage, QueryTyped
<1>9. CASE SaveAnswer
  BY <1>1, <1>2, <1>9 DEF SaveAnswer, Invalidate, QueryTyped
<1>10. CASE \/ ClosePage \/ TypeText \/ FinishText \/ TypeSection \/ OpenForm \/ CancelForm
            \/ FormEdit \/ WarpLeaveAsk \/ NordLogoutAsk \/ WarpLeaveAnswer \/ NordLogoutAnswer
  BY <1>3, <1>10, FormEditKeepsRest DEF ClosePage, TypeText, FinishText, Type, TypeSection,
     InPlace, OpenForm, CancelForm, WarpLeaveAsk, NordLogoutAsk, WarpLeaveAnswer,
     NordLogoutAnswer, pageRest
<1>11. CASE \/ RotateAsk \/ RotateServe \/ RotateAnswer \/ Save \/ SaveAccept
            \/ SaveStoredOnly \/ SaveRefuse
  BY <1>3, <1>11 DEF RotateAsk, RotateServe, RotateAnswer, Save, SaveAccept, SaveStoredOnly,
     SaveRefuse
<1>12. CASE \/ Poll \/ DefaultAsk \/ DefaultAnswer \/ SubsJob \/ OtherAdmin \/ RotationJob
            \/ UNCHANGED vars
  BY <1>3, <1>12 DEF Poll, DefaultAsk, DefaultAnswer, SubsJob, OtherAdmin, RotationJob, vars
<1> QED
  BY <1>4, <1>5, <1>6, <1>7, <1>8, <1>9, <1>10, <1>11, <1>12 DEF Next

LEMMA PageStep == Typed /\ [Next]_vars => PageTyped'
<1> SUFFICES ASSUME Typed, [Next]_vars PROVE PageTyped'
  OBVIOUS
<1>1. /\ open \in BOOLEAN /\ saveDisabled \in BOOLEAN /\ text \in Texts /\ old \in Texts
      /\ template \in {None} \cup Template
      /\ open /\ config.got => template \in Template
  BY DEF Typed, PageTyped
<1>2. Default \in Template /\ Unfinished \in Texts
  BY EditorAssumption DEF Texts
<1>3. \A t \in Template : Json(t) \in Texts
  BY DEF Json, Texts
<1>4. \A data \in Brought : data.got /\ data.template \in Template
  BY DEF Brought
<1>5. CASE UNCHANGED <<open, saveDisabled, text, old, template, config>>
  BY <1>1, <1>5 DEF PageTyped
\* The template is written with its text.
<1>6. ASSUME NEW t \in Template, SetTemplate(t),
             UNCHANGED <<open, saveDisabled, old>>
      PROVE  PageTyped'
  BY <1>1, <1>3, <1>6 DEF PageTyped, SetTemplate
<1>7. CASE FetchLand
  <2>1. fetch.data \in Brought /\ config' = fetch.data
    BY <1>7 DEF Typed, QueryTyped, FetchLand
  <2>2. CASE open /\ fetch.data # config
    BY <1>1, <1>3, <1>4, <1>7, <2>1, <2>2 DEF FetchLand, Seed, PageTyped
  <2>3. CASE ~ (open /\ fetch.data # config)
    BY <1>1, <1>7, <2>1, <2>3 DEF FetchLand, pageVars, PageTyped
  <2> QED
    BY <2>2, <2>3
<1>8. CASE OpenPage
  <2>1. config.got => config.template \in Template
    BY <1>4 DEF Typed, QueryTyped, NoData
  <2>2. CASE config.got
    BY <1>3, <1>8, <2>1, <2>2 DEF OpenPage, Seed, PageTyped
  <2>3. CASE ~ config.got
    BY <1>1, <1>8, <2>3 DEF OpenPage, PageTyped
  <2> QED
    BY <2>2, <2>3
<1>9. CASE ClosePage
  BY <1>2, <1>9 DEF ClosePage, PageTyped
<1>10. CASE Collect
  BY <1>1, <1>10 DEF Collect, pageVars, PageTyped
<1>11. CASE TypeText \/ FinishText
  <2>1. template \in Template
    BY <1>1, <1>11 DEF TypeText, FinishText, Free, Ready
  <2>2. PICK next \in {Unfinished, Json(Default), Json(template), old} : Type(next)
    BY <1>11 DEF TypeText, FinishText
  <2>3. next \in Texts
    BY <1>1, <1>2, <1>3, <2>1, <2>2
  <2>4. next.json => next.of \in Template
    <3>1. ~ Unfinished.json /\ \A x \in [json : {TRUE}, of : Template] : x.of \in Template
      BY DEF Unfinished
    <3> QED
      BY <2>3, <3>1 DEF Texts
  <2> QED
    BY <1>1, <2>1, <2>2, <2>3, <2>4 DEF Type, PageTyped, pageRest
<1>12. CASE TypeSection
  <2>1. template \in Template
    BY <1>1, <1>12 DEF TypeSection, Free, Ready
  <2>2. /\ [template EXCEPT !.outbounds = Default.outbounds] \in Template
        /\ [template EXCEPT !.rules = Default.rules] \in Template
    BY <1>2, <2>1, TemplateFields, WithOutbounds, WithRules
  <2>3. PICK t \in Template : InPlace(t)
    BY <1>12, <2>2 DEF TypeSection
  <2> QED
    BY <1>6, <2>3 DEF InPlace, EditTo, pageRest
<1>13. CASE FormEdit
  <2>1. template' \in Template /\ text' = Json(template') /\ template \in Template
    BY <1>13, FormEditTyped
  <2>2. UNCHANGED <<open, saveDisabled, old>>
    BY <1>13, FormEditKeepsRest DEF pageRest
  <2> QED
    BY <1>1, <1>3, <2>1, <2>2 DEF PageTyped
<1>14. CASE WarpLeaveAnswer \/ NordLogoutAnswer \/ DefaultAnswer
  <2>1. /\ UNCHANGED <<open, saveDisabled, old, config>>
        /\ \/ \E t \in Template : SetTemplate(t)
           \/ UNCHANGED <<text, template>>
    BY <1>1, <1>2, <1>14, NordLogoutTyped, DeleteOutboundTyped
       DEF RemoveOutboundByTag, WarpLeaveAnswer, NordLogoutAnswer, DefaultAnswer,
           ChangeUnderForm, queryVars
  <2> QED
    BY <1>5, <1>6, <2>1
<1>15. CASE RotateAnswer
  <2> DEFINE o == [tag |-> Warp, dialer |-> None, key |-> rotation.key]
             list == Put(template.outbounds, rotation.index, o, Hole)
             t == [template EXCEPT !.outbounds = list]
  <2>1. rotation.key \in Nat /\ rotation.index \in Nat
    BY DEF Typed, CallsTyped
  <2>2. o \in Outbound /\ Hole \in Outbound
    BY <2>1, TemplateAssumption, HolesAreTyped DEF Outbound
  <2>3. /\ UNCHANGED <<open, saveDisabled, old, config>>
        /\ \/ rotation.index > 0 /\ template # None /\ SetTemplate(t)
           \/ UNCHANGED <<text, template>>
    BY <1>15 DEF RotateAnswer, queryVars
  <2>4. t = [template EXCEPT !.outbounds = list]
    OBVIOUS
  <2> HIDE DEF o, t
  <2>5. rotation.index > 0 /\ template # None => t \in Template
    <3> SUFFICES ASSUME rotation.index > 0, template # None PROVE t \in Template
      OBVIOUS
    <3>1. template \in Template /\ rotation.index \in Nat \ {0}
      BY <1>1, <2>1
    <3>2. list \in Seq(Outbound)
      BY <2>2, <3>1, TemplateFields, PutFacts
    <3> HIDE DEF list
    <3> QED
      BY <2>4, <3>1, <3>2, WithOutbounds
  <2> QED
    BY <1>5, <1>6, <2>3, <2>5
<1>16. CASE SaveAnswer
  <2>1. PICK s \in saves : SaveBaseline(s) /\ UNCHANGED <<open, text, template, config>>
    BY <1>16 DEF SaveAnswer
  <2>2. s.sent \in Template
    BY DEF Typed, CallsTyped
  <2>3. old' \in Texts /\ saveDisabled' \in BOOLEAN
    BY <1>1, <1>3, <2>1, <2>2 DEF SaveBaseline, Baseline
  <2> QED
    BY <1>1, <2>1, <2>3 DEF PageTyped
<1>17. CASE Poll
  BY <1>1, <1>17 DEF Poll, PageTyped, queryVars
<1>18. CASE \/ FetchRead \/ FetchFail \/ Refetch \/ InvalidateElsewhere \/ OpenForm \/ CancelForm
            \/ WarpLeaveAsk \/ NordLogoutAsk \/ RotateAsk \/ RotateServe \/ DefaultAsk
  BY <1>5, <1>18 DEF FetchRead, FetchFail, Refetch, InvalidateElsewhere, OpenForm, CancelForm,
     WarpLeaveAsk, NordLogoutAsk, RotateAsk, RotateServe, DefaultAsk, pageRest, pageVars, queryVars
<1>19. CASE \/ Save \/ SaveAccept \/ SaveStoredOnly \/ SaveRefuse \/ SubOperation \/ SubsJob
            \/ OtherAdmin \/ RotationJob \/ UNCHANGED vars
  BY <1>5, <1>19 DEF Save, SaveAccept, SaveStoredOnly, SaveRefuse, SubOperation, SubsJob,
     OtherAdmin, RotationJob, pageVars, queryVars, vars
<1> QED
  BY <1>7, <1>8, <1>9, <1>10, <1>11, <1>12, <1>13, <1>14, <1>15, <1>16, <1>17, <1>18, <1>19
     DEF Next

LEMMA ModalStep == Typed /\ [Next]_vars => ModalTyped'
<1> SUFFICES ASSUME Typed, [Next]_vars PROVE ModalTyped'
  OBVIOUS
<1> DEFINE Modals == [kind : Kinds, index : Nat, seen : {None} \cup Outbound \cup Rule \cup Balancer,
                      tags : SUBSET Tag, replaced : BOOLEAN]
<1>1. /\ modal \in Modals
      /\ modal.kind # "none" => open /\ config.got
      /\ modal.kind # "none" /\ modal.index > 0 => modal.seen \in ItemType(modal.kind)
  BY DEF Typed, ModalTyped
<1>2. Closed \in Modals /\ Closed.kind = "none"
  BY DEF Closed, Kinds
<1>3. CASE modal' = Closed
  BY <1>2, <1>3 DEF ModalTyped
<1>4. CASE UNCHANGED <<modal, open, config>>
  BY <1>1, <1>4 DEF ModalTyped
<1>5. CASE modal.kind = "none" /\ UNCHANGED modal
  BY <1>1, <1>5 DEF ModalTyped
<1>6. CASE UNCHANGED <<open, config>> /\ \E t : ChangeUnderForm(t)
  <2>0. PICK t : ChangeUnderForm(t)
    BY <1>6
  <2>1. modal' = [modal EXCEPT !.replaced = modal.replaced \/ (modal.kind # "none" /\ t # template)]
    BY <2>0 DEF ChangeUnderForm
  <2>2. (modal.replaced \/ (modal.kind # "none" /\ t # template)) \in BOOLEAN
    OBVIOUS
  <2>3. /\ modal' \in Modals
        /\ modal'.kind = modal.kind /\ modal'.index = modal.index /\ modal'.seen = modal.seen
    BY <1>1, <2>1, <2>2
  <2> HIDE DEF Modals
  <2> QED
    BY <1>1, <1>6, <2>3 DEF ModalTyped, Modals
<1>7. CASE FetchLand
  <2>1. fetch.data \in Brought /\ config' = fetch.data /\ UNCHANGED <<open, modal>>
    BY <1>7 DEF Typed, QueryTyped, FetchLand, pageVars
  <2>2. config'.got
    BY <2>1 DEF Brought
  <2> QED
    BY <1>1, <2>1, <2>2 DEF ModalTyped
<1>8. CASE OpenForm
  <2>1. template \in Template /\ open /\ config.got /\ UNCHANGED <<open, config>>
    BY <1>8 DEF OpenForm, Free, Ready, Typed, PageTyped, pageRest, queryVars
  <2> DEFINE tags(i) == {template.outbounds[j].tag : j \in DOMAIN template.outbounds \ {i}} \ {None}
             opened(kind, i) == [kind |-> kind, index |-> i,
                                 seen |-> IF i = 0 THEN None ELSE Items(kind)[i],
                                 tags |-> tags(i), replaced |-> FALSE]
  <2>2. PICK kind \in Kinds \ {"none"} :
            \E i \in DOMAIN Items(kind) \cup (IF kind \in {"outbound", "rule", "balancer"}
                                             THEN {0} ELSE {}) :
                modal' = opened(kind, i)
    BY <1>8 DEF OpenForm, Kinds
  <2>3. PICK i \in DOMAIN Items(kind) \cup {0} : modal' = opened(kind, i)
    BY <2>2
  <2>4. tags(i) \subseteq Tag
    <3>1. tags(i) \subseteq TagsOf(template)
      BY DEF TagsOf
    <3> QED
      BY <2>1, <3>1, TagsTyped
  <2> HIDE DEF tags
  <2>5. Items(kind) \in Seq(ItemType(kind))
        /\ ItemType(kind) \subseteq Outbound \cup Rule \cup Balancer
    BY <2>1, <2>2, ItemsTyped
  <2>6. i \in Nat /\ (i > 0 => Items(kind)[i] \in ItemType(kind))
    BY <2>3, <2>5
  <2>7. opened(kind, i) \in Modals
    BY <2>4, <2>5, <2>6
  <2>8. /\ opened(kind, i).kind = kind /\ opened(kind, i).index = i
        /\ i > 0 => opened(kind, i).seen = Items(kind)[i]
    BY <2>6
  <2> HIDE DEF opened, Modals
  <2> QED
    BY <2>1, <2>3, <2>6, <2>7, <2>8 DEF ModalTyped, Modals
<1>9. CASE ClosePage \/ CancelForm
  BY <1>3, <1>9 DEF ClosePage, CancelForm
<1>10. CASE Collect \/ OpenPage
  BY <1>1, <1>5, <1>10 DEF Collect, OpenPage, pageVars
<1>11. CASE FormEdit
  <2>1. UNCHANGED <<open, config>>
    BY <1>11, FormEditKeepsRest DEF pageRest, queryVars
  <2>2. modal' = Closed \/ UNCHANGED modal
    BY <1>11 DEF FormEdit, MoveOutbounds, MoveRules, ToggleRules, BasicDomains, WarpOutbound,
       NordOutbound, ConfirmOutbound, ConfirmRule, ConfirmBalancer, ConfirmDelete,
       Confirm, InPlace
  <2> QED
    BY <1>3, <1>4, <2>1, <2>2
<1>12. CASE WarpLeaveAnswer \/ NordLogoutAnswer \/ DefaultAnswer
  BY <1>4, <1>6, <1>12 DEF WarpLeaveAnswer, NordLogoutAnswer, DefaultAnswer, queryVars
<1>13. CASE \/ TypeText \/ FinishText \/ TypeSection \/ RotateAnswer \/ SaveAnswer \/ Poll
  BY <1>4, <1>13 DEF TypeText, FinishText, Type, TypeSection, InPlace, RotateAnswer, SaveAnswer,
     Poll, pageRest, queryVars
<1>14. CASE \/ FetchRead \/ FetchFail \/ Refetch \/ InvalidateElsewhere
            \/ WarpLeaveAsk \/ NordLogoutAsk \/ RotateAsk \/ RotateServe \/ DefaultAsk
  BY <1>4, <1>14 DEF FetchRead, FetchFail, Refetch, InvalidateElsewhere,
     WarpLeaveAsk, NordLogoutAsk, RotateAsk, RotateServe, DefaultAsk, pageVars, queryVars
<1>15. CASE \/ Save \/ SaveAccept \/ SaveStoredOnly \/ SaveRefuse \/ SubOperation \/ SubsJob
            \/ OtherAdmin \/ RotationJob \/ UNCHANGED vars
  BY <1>4, <1>15 DEF Save, SaveAccept, SaveStoredOnly, SaveRefuse, SubOperation, SubsJob,
     OtherAdmin, RotationJob, pageVars, queryVars, vars
<1> QED
  BY <1>7, <1>8, <1>9, <1>10, <1>11, <1>12, <1>13, <1>14, <1>15 DEF Next

LEMMA CallsStep == Typed /\ [Next]_vars => CallsTyped'
<1> SUFFICES ASSUME Typed, [Next]_vars PROVE CallsTyped'
  OBVIOUS
<1> DEFINE Saves == [id : Nat, sent : Template, at : {"sent", "answered"}, ok : BOOLEAN, mine : BOOLEAN]
           Rotations == [at : {"none", "asked", "done", "failed"}, index : Nat, key : Nat, mine : BOOLEAN]
<1>1. /\ saves \subseteq Saves /\ resetting \in BOOLEAN /\ rotation \in Rotations
      /\ leaving \in Nat \cup {None} /\ deleting \in BOOLEAN
  BY DEF Typed, CallsTyped
<1>2. CASE UNCHANGED callVars
  BY <1>1, <1>2 DEF CallsTyped, callVars
<1>3. \A tags : Free => FindIndex(template, tags) \in Nat
  <2>1. Free => template \in Template
    BY DEF Free, Ready, Typed, PageTyped
  <2> QED
    BY <2>1, FindIndexFacts, TemplateFields
<1>4. \A s \in saves, ok \in BOOLEAN : Answered(s, ok) \subseteq Saves
  <2>1. ASSUME NEW s \in Saves, NEW ok \in BOOLEAN
        PROVE  [s EXCEPT !.at = "answered", !.ok = ok] \in Saves
    OBVIOUS
  <2> HIDE DEF Saves
  <2> QED
    BY <1>1, <2>1 DEF Answered
<1>5. CASE ClosePage
  <2>1. \A s \in Saves : [s EXCEPT !.mine = FALSE] \in Saves
    OBVIOUS
  <2>2. [rotation EXCEPT !.mine = FALSE] \in Rotations
    BY <1>1
  <2>3. saves' \subseteq Saves
    <3> HIDE DEF Saves
    <3> QED
      BY <1>1, <1>5, <2>1 DEF ClosePage
  <2> QED
    BY <1>5, <2>2, <2>3 DEF ClosePage, CallsTyped
<1>6. CASE WarpLeaveAsk \/ NordLogoutAsk \/ WarpLeaveAnswer \/ NordLogoutAnswer
  BY <1>1, <1>3, <1>6 DEF WarpLeaveAsk, NordLogoutAsk, WarpLeaveAnswer, NordLogoutAnswer, CallsTyped
<1>7. CASE RotateAsk
  BY <1>1, <1>3, <1>7 DEF RotateAsk, CallsTyped
<1>8. CASE RotateServe
  <2>1. key + 1 \in Nat
    BY DEF Typed, PanelTyped
  <2>2. \/ rotation' = [rotation EXCEPT !.at = "done", !.key = key + 1]
        \/ rotation' = [rotation EXCEPT !.at = "failed"]
    BY <1>8 DEF RotateServe
  <2>3. rotation' \in Rotations
    BY <1>1, <2>1, <2>2
  <2> QED
    BY <1>1, <1>8, <2>3 DEF RotateServe, CallsTyped
<1>9. CASE RotateAnswer
  BY <1>1, <1>9 DEF RotateAnswer, NoRotation, CallsTyped
<1>10. CASE Save
  <2> DEFINE new == [id |-> events, sent |-> text.of, at |-> "sent", ok |-> FALSE, mine |-> TRUE]
  <2>1. text.of \in Template
    <3>1. text \in Texts /\ text.json
      BY <1>10 DEF Save, Typed, PageTyped
    <3>2. ~ Unfinished.json /\ \A x \in [json : {TRUE}, of : Template] : x.of \in Template
      BY DEF Unfinished
    <3> QED
      BY <3>1, <3>2 DEF Texts
  <2>2. new \in Saves
    BY <2>1 DEF Typed, CountsTyped
  <2>3. saves' \subseteq Saves
    BY <1>1, <1>10, <2>2 DEF Save
  <2> QED
    BY <1>1, <1>10, <2>3 DEF Save, CallsTyped
<1>11. CASE SaveAccept \/ SaveStoredOnly \/ SaveRefuse
  <2>1. /\ \E s \in saves, ok \in BOOLEAN : saves' = Answered(s, ok)
        /\ UNCHANGED <<resetting, rotation, leaving, deleting>>
    BY <1>11 DEF SaveAccept, SaveStoredOnly, SaveRefuse
  <2>2. saves' \subseteq Saves
    BY <1>4, <2>1
  <2> QED
    BY <1>1, <2>1, <2>2 DEF CallsTyped
<1>12. CASE SaveAnswer
  BY <1>1, <1>12 DEF SaveAnswer, CallsTyped
<1>13. CASE DefaultAsk \/ DefaultAnswer
  BY <1>1, <1>13 DEF DefaultAsk, DefaultAnswer, CallsTyped
<1>14. CASE \/ FetchRead \/ FetchLand \/ FetchFail \/ Refetch \/ InvalidateElsewhere \/ Collect
            \/ OpenPage \/ TypeText \/ FinishText \/ TypeSection \/ FormEdit
  BY <1>2, <1>14, FormEditKeepsRest DEF FetchRead, FetchLand, FetchFail, Refetch,
     InvalidateElsewhere, Collect, OpenPage, TypeText, FinishText, Type, TypeSection, InPlace,
     pageRest
<1>15. CASE \/ OpenForm \/ CancelForm \/ Poll \/ SubOperation \/ SubsJob \/ OtherAdmin
            \/ RotationJob \/ UNCHANGED vars
  BY <1>2, <1>15 DEF OpenForm, CancelForm, Poll, SubOperation, SubsJob, OtherAdmin, RotationJob,
     pageRest, vars
<1> QED
  BY <1>5, <1>6, <1>7, <1>8, <1>9, <1>10, <1>11, <1>12, <1>13, <1>14, <1>15 DEF Next

LEMMA CountsStep == Typed /\ [Next]_vars => CountsTyped'
<1> SUFFICES ASSUME Typed, [Next]_vars PROVE CountsTyped'
  OBVIOUS
<1>1. edits \in Nat /\ events \in Nat
  BY DEF Typed, CountsTyped
<1>2. edits' \in {edits, edits + 1} /\ events' \in {events, events + 1} => CountsTyped'
  BY <1>1 DEF CountsTyped
<1>3. CASE FormEdit
  BY <1>2, <1>3 DEF FormEdit, MoveOutbounds, MoveRules, ToggleRules, BasicDomains, WarpOutbound,
     NordOutbound, ConfirmOutbound, ConfirmRule, ConfirmBalancer, ConfirmDelete,
     Confirm, InPlace, EditTo, Edit, Event
<1>4. CASE \/ OpenPage \/ TypeText \/ TypeSection \/ WarpLeaveAsk \/ NordLogoutAsk
           \/ RotateAsk \/ Save
           \/ DefaultAsk \/ SubOperation \/ SubsJob \/ OtherAdmin \/ RotationJob
  BY <1>2, <1>4 DEF OpenPage, TypeText, TypeSection, InPlace, EditTo, WarpLeaveAsk,
     NordLogoutAsk, RotateAsk,
     Save, DefaultAsk, SubOperation, SubsJob, OtherAdmin, RotationJob, Edit, Event
<1>5. CASE \/ FetchRead \/ FetchLand \/ FetchFail \/ Refetch \/ InvalidateElsewhere \/ Collect
           \/ ClosePage \/ FinishText \/ OpenForm \/ CancelForm
  BY <1>2, <1>5 DEF FetchRead, FetchLand, FetchFail, Refetch, InvalidateElsewhere, Collect,
     ClosePage, FinishText, OpenForm, CancelForm
<1>6. CASE \/ WarpLeaveAnswer \/ NordLogoutAnswer \/ RotateServe \/ RotateAnswer
           \/ SaveAccept \/ SaveStoredOnly
           \/ SaveRefuse \/ SaveAnswer \/ Poll \/ DefaultAnswer \/ UNCHANGED vars
  BY <1>2, <1>6 DEF WarpLeaveAnswer, NordLogoutAnswer, RotateServe, RotateAnswer, SaveAccept,
     SaveStoredOnly,
     SaveRefuse, SaveAnswer, Poll, DefaultAnswer, vars
<1> QED
  BY <1>3, <1>4, <1>5, <1>6 DEF Next

LEMMA TypedAlways == Spec => []Typed
<1>1. Typed /\ [Next]_vars => Typed'
  BY PanelStep, QueryStep, PageStep, ModalStep, CallsStep, CountsStep DEF Typed
<1> QED
  BY <1>1, TypedInit, PTL DEF Spec

\* Whatever the forms, the answers and the panel put into them, the page, its query and the
\* panel hold templates (every function of pages/xray that the page applies to one).
THEOREM TypeCorrect == Spec => []TypeOK
  BY TypedAlways, TypedGivesTypeOK, PTL

-----------------------------------------------------------------------------
(* References and observatories. *)

\* What a form that fits is opened on is there to be pointed at.
LEMMA FitsFacts ==
    ASSUME Typed, Fits, modal.kind # "none"
    PROVE  /\ modal.tags \subseteq TagsOf(template)
           /\ modal.index \in Nat
           /\ modal.index > 0 => modal.seen \in ItemType(modal.kind)
           /\ modal.kind = "outbound" /\ modal.index > 0 =>
                 modal.index \in DOMAIN template.outbounds
                 /\ template.outbounds[modal.index] = modal.seen
           /\ modal.kind = "rule" /\ modal.index > 0 =>
                 modal.index \in DOMAIN template.rules /\ template.rules[modal.index] = modal.seen
           /\ modal.kind = "balancer" /\ modal.index > 0 =>
                 modal.index \in DOMAIN template.balancers
                 /\ template.balancers[modal.index] = modal.seen
<1>1. modal.index \in Nat /\ (modal.index > 0 => modal.seen \in ItemType(modal.kind))
  BY DEF Typed, ModalTyped
<1>2. /\ Items("outbound") = template.outbounds /\ Items("rule") = template.rules
      /\ Items("balancer") = template.balancers
  BY DEF Items
<1> QED
  BY <1>1, <1>2 DEF Fits

\* What needs no form, and the confirmations of a removal.
ButtonEdit ==
    \/ MoveOutbounds \/ MoveRules \/ ToggleRules \/ BasicDomains
    \/ WarpOutbound \/ NordOutbound \/ ConfirmDelete

LEMMA ButtonEditFollows ==
    ASSUME Typed, FormEdit, ButtonEdit
    PROVE  Follows(template, template')
<1>0. template \in Template
  BY FormEditTyped
<1>1. /\ Account(Warp) \in Outbound /\ Account(Warp).tag = Warp /\ Account(Warp).dialer = None
      /\ \A tag \in Nord : /\ Account(tag) \in Outbound /\ Account(tag).tag # None
                           /\ Account(tag).dialer = None
  <2>1. \A tag \in Tag : Account(tag) \in Outbound
    BY DEF Typed, PanelTyped, Account, Outbound
  <2>2. Warp \in Tag /\ Nord \subseteq Tag /\ None \notin Tag
    BY TemplateAssumption
  <2> QED
    BY <2>1, <2>2 DEF Account
<1>2. \A t : (InPlace(t) \/ Confirm(t)) => template' = t
  BY DEF InPlace, Confirm, EditTo, SetTemplate
<1>3. CASE MoveOutbounds
  BY <1>0, <1>2, <1>3, MoveOutboundFollows DEF MoveOutbounds
<1>4. CASE MoveRules
  BY <1>0, <1>2, <1>4, MoveRuleFollows DEF MoveRules
<1>5. CASE ToggleRules
  BY <1>0, <1>2, <1>5, ToggleRuleFollows DEF ToggleRules
<1>6. CASE BasicDomains
  BY <1>0, <1>2, <1>6, SetBasicDomainsFollows DEF BasicDomains
<1>7. CASE WarpOutbound
  <2> DEFINE i == FindIndex(template, {Warp})
  <2>1. i # 0 => i \in DOMAIN template.outbounds /\ template.outbounds[i].tag \in {Warp}
    BY <1>0, FindIndexFacts
  <2>2. \/ template' = AddOutbound(template, Account(Warp))
        \/ i # 0 /\ template' = [template EXCEPT !.outbounds =
                                    Put(template.outbounds, i, Account(Warp), Hole)]
    BY <1>2, <1>7 DEF WarpOutbound
  <2> HIDE DEF i
  <2>3. CASE template' = AddOutbound(template, Account(Warp))
    BY <1>0, <1>1, <2>3, AddOutboundFollows
  <2>4. CASE i # 0 /\ template' = [template EXCEPT !.outbounds =
                                    Put(template.outbounds, i, Account(Warp), Hole)]
    <3>1. Follows(template, [template EXCEPT !.outbounds =
                                    Put(template.outbounds, i, Account(Warp), Hole)])
      BY <1>0, <1>1, <2>1, <2>4, PutOutboundFollows
    <3> QED
      BY <2>4, <3>1
  <2> QED
    BY <2>2, <2>3, <2>4
<1>9. CASE NordOutbound
  <2> DEFINE i == FindIndex(template, Nord)
  <2>1. i # 0 => i \in DOMAIN template.outbounds
    BY <1>0, FindIndexFacts
  <2>2. PICK tag \in Nord : \/ template' = AddOutbound(template, Account(tag))
                            \/ i # 0 /\ template' = ReplaceOutbound(template, i, Account(tag))
    BY <1>2, <1>9 DEF NordOutbound
  <2> HIDE DEF i
  <2> QED
    BY <1>0, <1>1, <2>1, <2>2, AddOutboundFollows, ReplaceOutboundFollows
<1>10. CASE ConfirmDelete
  BY <1>0, <1>2, <1>10, DeleteOutboundFollows, DeleteRuleFollows, DeleteBalancerFollows
     DEF ConfirmDelete
<1> QED
  BY <1>3, <1>4, <1>5, <1>6, <1>7, <1>9, <1>10 DEF ButtonEdit

\* What a user types into the form that is open.
FreeText == IF modal.kind = "balancer" THEN {"selector"} \X Tag ELSE {}

LEMMA FormEditFollows ==
    ASSUME Typed, FormEdit, Fits
    PROVE  NoneLostBut(template, template', FreeText)
<1>1. template \in Template
  BY FormEditTyped
<1>2. Follows(template, template') => NoneLostBut(template, template', FreeText)
  BY DEF Follows, NoneLost, NoneLostBut
<1>3. CASE ConfirmOutbound
  <2>1. /\ modal.tags \subseteq TagsOf(template)
        /\ modal.index > 0 => /\ modal.index \in DOMAIN template.outbounds
                             /\ template.outbounds[modal.index] = modal.seen
    BY <1>3, FitsFacts DEF ConfirmOutbound
  <2>2. PICK o \in Outbound :
            /\ o.tag # None
            /\ \/ o.dialer \in TagsOf(template) \cup {None}
               \/ modal.index > 0 /\ o.dialer = modal.seen.dialer
            /\ \/ modal.index = 0 /\ template' = AddOutbound(template, o)
               \/ modal.index > 0 /\ template' = ReplaceOutbound(template, modal.index, o)
    BY <1>3, <2>1, OutboundOfForm
  <2> QED
    BY <1>1, <1>2, <2>1, <2>2, AddOutboundFollows, ReplaceOutboundFollows
<1>4. CASE ConfirmRule
  <2> DEFINE was == IF modal.index = 0 THEN NoRule ELSE modal.seen
             at == IF modal.index = 0 THEN Len(template.rules) + 1 ELSE modal.index
  <2>1. template.rules \in Seq(Rule) /\ Len(template.rules) \in Nat
    BY <1>1, TemplateFields
  <2>2. at \in 1 .. Len(template.rules) + 1 /\ (was = NoRule \/ was \in Range(template.rules))
    BY <1>4, <2>1, FitsFacts DEF ConfirmRule, Range
  <2>3. PICK r \in Rule :
            /\ template' = PutRule(template, at, r)
            /\ r.out \in TagsOf(template) \cup Offered \cup {was.out, None}
            /\ r.bal \in BalancersOf(template) \cup {was.bal, None}
    BY <1>1, <1>4, RuleOfForm
  <2> HIDE DEF was, at
  <2>4. RuleNames(template, r)
    BY <2>2, <2>3 DEF RuleNames, NoRule
  <2> QED
    BY <1>1, <1>2, <2>2, <2>3, <2>4, PutRuleFollows
<1>5. CASE ConfirmBalancer
  <2>1. modal.index > 0 => /\ modal.index \in DOMAIN template.balancers
                           /\ modal.seen \in Range(template.balancers)
    BY <1>5, FitsFacts DEF ConfirmBalancer, Range
  <2>2. PICK b \in Balancer :
            /\ \/ template' = AddBalancer(template, b)
               \/ modal.index > 0 /\ template' = ReplaceBalancer(template, modal.index, b)
            /\ \/ b.fallback \in TagsOf(template) \cup Offered \cup {None}
               \/ modal.index > 0 /\ b.fallback = modal.seen.fallback
    BY <1>1, <1>5, BalancerOfForm
  <2>3. BalancerNames(template, b, Tag)
    BY <2>1, <2>2 DEF BalancerNames, Balancer
  <2>4. FollowsBut(template, template', {"selector"} \X Tag)
    BY <1>1, <2>1, <2>2, <2>3, AddBalancerFollows, ReplaceBalancerFollows
  <2> QED
    BY <1>5, <2>4 DEF ConfirmBalancer, FreeText, FollowsBut
<1> QED
  BY <1>2, <1>3, <1>4, <1>5, ButtonEditFollows DEF FormEdit, ButtonEdit

\* A form may be opened on one thing and applied to another; one that is not leaves no
\* reference that names nothing, but to what it took out of a list, to "blocked", and to
\* what is typed as a selector (propagateOutboundTagRename, the renaming of a balancer, the
\* basic view's setters).
THEOREM NoDangling == Spec => NoNewDangling
<1>1. ASSUME Typed, FormEdit, Fits
      PROVE  Dangling(template') \subseteq Dangling(template) \cup {<<"rule", Blocked>>} \cup
                (IF modal.kind = "balancer" THEN {"selector"} \X Tag ELSE {}) \cup
                {m \in Mentions(template) :
                    \/ /\ m[1] = "balancer" /\ m[2] \notin BalancersOf(template')
                       /\ Len(template'.balancers) < Len(template.balancers)
                    \/ /\ m[1] # "balancer" /\ m[2] \notin TagsOf(template')
                       /\ Len(template'.outbounds) < Len(template.outbounds)}
  <2>1. Dangling(template') \subseteq Dangling(template) \cup {<<"rule", Blocked>>}
            \cup Excused(template, template') \cup FreeText
    BY <1>1, FormEditFollows DEF NoneLostBut
  <2>2. \A free, excused, some, now, then :
            now \subseteq then \cup some \cup excused \cup free
            => now \subseteq then \cup some \cup free \cup excused
    OBVIOUS
  <2> QED
    BY <2>1, <2>2 DEF Excused, FreeText
<1> QED
  BY <1>1, TypedAlways, PTL DEF NoNewDangling

LEMMA FormEditObserves ==
    ASSUME Typed, FormEdit
    PROVE  ObserversKept(template, template')
<1>1. template \in Template
  BY FormEditTyped
<1>2. CASE ButtonEdit
  BY <1>2, ButtonEditFollows DEF Follows
<1>3. CASE ConfirmOutbound
  <2>1. PICK o \in Outbound : \/ template' = AddOutbound(template, o)
                             \/ /\ modal.index \in Nat \ {0}
                                /\ template' = ReplaceOutbound(template, modal.index, o)
    BY <1>3, OutboundOfForm
  <2>2. CASE template' = AddOutbound(template, o)
    <3>1. Append(template.outbounds, o) \in Seq(Outbound)
      BY <1>1, TemplateFields, RangeAppend
    <3>2. template'.balancers = template.balancers /\ Rest(template') = Rest(template)
      BY <1>1, <2>2, <3>1, WithOutbounds DEF AddOutbound
    <3> QED
      BY <3>2, AlignedDepends DEF ObserversKept
  <2> QED
    BY <1>1, <2>1, <2>2, ReplaceOutboundObserves
<1>4. CASE ConfirmRule
  <2>1. PICK i \in Nat \ {0}, r \in Rule : template' = PutRule(template, i, r)
    BY <1>1, <1>4, RuleOfForm
  <2> QED
    BY <1>1, <2>1, PutRuleObserves
<1>5. CASE ConfirmBalancer
  <2>1. Aligned(template')
    BY <1>1, <1>5, BalancerOfForm, AddBalancerTyped, ReplaceBalancerTyped
  <2> QED
    BY <2>1 DEF ObserversKept
<1> QED
  BY <1>2, <1>3, <1>4, <1>5 DEF FormEdit, ButtonEdit

\* Saving, adding and removing a balancer rebuilds the observatories, and so leaves nothing
\* stale whatever they held; no other form touches what they are built from, but for the
\* renaming of an outbound, which syncObservatories does not hear of.
THEOREM Observers == Spec => ObserversFollow
<1>1. ASSUME Typed, FormEdit, Aligned(template)
      PROVE  \/ Aligned(template')
             \/ template'.balancers # template.balancers /\ template'.outbounds # template.outbounds
  BY <1>1, FormEditObserves DEF ObserversKept
<1> QED
  BY <1>1, TypedAlways, PTL DEF ObserversFollow

=============================================================================
