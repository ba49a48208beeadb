---------------------------- MODULE TemplateEditor ----------------------------
(***************************************************************************)
(* The Xray settings page of the panel (src/frontend/src/pages/xray with   *)
(* hooks/useXraySetting.ts): one template edited as JSON text and through  *)
(* forms, seeded from a cached query, compared with a baseline once a      *)
(* second, and saved whole.  The panel's own copy is also written by other *)
(* admins, by the rotation of the WARP account and by its normalisation of *)
(* what it stores; nothing tells the page.                                 *)
(*                                                                         *)
(* The test URL travels with the text in the seed, the save and the        *)
(* comparison, and is not kept apart from it.  The spinner of a save comes *)
(* after 200 ms and stops the pointer, not the keyboard: the page can be   *)
(* edited meanwhile.                                                       *)
(***************************************************************************)
EXTENDS XrayTemplate, FiniteSets

CONSTANTS
    Initial,        \* the template the panel holds at first
    Default,        \* the built-in template, also what another admin saves
    Selectors,      \* what a user types or picks as the selector of a balancer
    MaxEdits,       \* bound on the edits made on the page
    MaxEvents,      \* bound on the edits and everything else somebody starts: visits,
                    \* saves, rotations, subscription operations, foreign writes
    MaxSaves        \* bound on the saves in flight

ASSUME EditorAssumption ==
    /\ Initial \in Template /\ Default \in Template
    /\ Selectors \subseteq SUBSET Tag
    /\ {MaxEdits, MaxEvents, MaxSaves} \subseteq Nat

VARIABLES
    server,         \* xrayTemplateConfig in the panel's settings
    subs,           \* version of the outbounds the subscriptions bring
    others, key,    \* writes nobody told the page of; rotations so far
    stored,         \* a save of the page has been stored
    config,         \* cached data of the config query
    invalid, failed,\* its isInvalidated and isError
    fetch,          \* its fetch in flight
    open,           \* the page is mounted
    text,           \* xraySetting
    template,       \* templateSettings
    old,            \* oldXraySettingRef
    saveDisabled,
    modal,          \* the form or the confirmation that is open
    saves,          \* saves in flight
    resetting,      \* a request for the built-in template is in flight
    rotation,       \* changeIp in flight
    leaving,        \* logout of NordVPN in flight: the position it is to remove, or None
    deleting,       \* the deletion of the WARP account is in flight
    edits, events   \* how many so far

panelVars == <<server, subs, others, key, stored>>
queryVars == <<config, invalid, failed, fetch>>
pageVars  == <<open, text, template, old, saveDisabled, modal>>
callVars  == <<saves, resetting, rotation, leaving, deleting>>
vars == <<panelVars, queryVars, pageVars, callVars, edits, events>>

-----------------------------------------------------------------------------
(* JSON.stringify, and the text a user has not finished. *)

Json(t)    == [json |-> TRUE, of |-> t]
Unfinished == [json |-> FALSE, of |-> None]

\* What the query brings, and the data of a query that has not brought any.
Answer(t, n) == [got |-> TRUE, template |-> t, subs |-> n]
NoData   == [got |-> FALSE, template |-> None, subs |-> 0]
Idle     == [at |-> "idle", data |-> NoData]
Closed   == [kind |-> "none", index |-> 0, seen |-> None, tags |-> {}, replaced |-> FALSE]
NoRotation == [at |-> "none", index |-> 0, key |-> 0, mine |-> FALSE]

TypeOK ==
    /\ server \in Template /\ subs \in Nat /\ others \in Nat /\ key \in Nat
    /\ stored \in BOOLEAN
    /\ config \in {NoData} \cup [got : {TRUE}, template : Template, subs : Nat]
    /\ invalid \in BOOLEAN /\ failed \in BOOLEAN
    /\ fetch \in [at : {"idle", "asked", "answered"}, data : {NoData} \cup [got : {TRUE}, template : Template, subs : Nat]]
    /\ open \in BOOLEAN
    /\ text \in [json : BOOLEAN, of : {None} \cup Template]
    /\ old \in [json : BOOLEAN, of : {None} \cup Template]
    /\ template \in {None} \cup Template
    /\ saveDisabled \in BOOLEAN
    /\ modal.kind \in {"none", "outbound", "rule", "balancer",
                       "delOutbound", "delRule", "delBalancer"}
    /\ modal.index \in Nat /\ modal.tags \subseteq Tag /\ modal.replaced \in BOOLEAN
    /\ saves \subseteq [id : Nat, sent : Template, at : {"sent", "answered"},
                       ok : BOOLEAN, mine : BOOLEAN]
    /\ resetting \in BOOLEAN
    /\ rotation \in [at : {"none", "asked", "done", "failed"}, index : Nat,
                     key : Nat, mine : BOOLEAN]
    /\ leaving \in Nat \cup {None} /\ deleting \in BOOLEAN
    /\ edits \in Nat /\ events \in Nat

Init ==
    /\ server = Initial /\ subs = 0 /\ others = 0 /\ key = 0 /\ stored = FALSE
    /\ config = NoData /\ invalid = FALSE /\ failed = FALSE /\ fetch = Idle
    /\ open = FALSE /\ text = Unfinished /\ template = None /\ old = Unfinished
    /\ saveDisabled = TRUE /\ modal = Closed
    /\ saves = {} /\ resetting = FALSE /\ rotation = NoRotation
    /\ leaving = None /\ deleting = FALSE
    /\ edits = 0 /\ events = 0

-----------------------------------------------------------------------------
\* Somebody starts something; and something that changes the template on the page.
Event == events < MaxEvents /\ events' = events + 1
Edit  == edits < MaxEdits /\ edits' = edits + 1 /\ Event

-----------------------------------------------------------------------------
(* The config query. *)

Asked == [at |-> "asked", data |-> NoData]

\* invalidateQueries: a mounted query is fetched again, dropping the fetch in flight
\* unless it is the first one; an unmounted one is only marked.
Invalidate ==
    /\ invalid' = TRUE
    /\ fetch' = IF open /\ (config.got \/ fetch = Idle) THEN Asked ELSE fetch

FetchRead ==
    /\ fetch.at = "asked"
    /\ fetch' = [at |-> "answered", data |-> Answer(server, subs)]
    /\ UNCHANGED <<panelVars, config, invalid, failed, pageVars, callVars, edits, events>>

\* The seeding effect: everything on the page gives way to the data.
Seed(data) ==
    /\ text' = Json(data.template)
    /\ template' = data.template
    /\ old' = Json(data.template)
    /\ saveDisabled' = TRUE

\* Mutant: every answer seeds the page.
LandAlwaysSeeds ==
    /\ fetch.at = "answered"
    /\ fetch' = Idle /\ invalid' = FALSE /\ failed' = FALSE
    /\ config' = fetch.data
    /\ IF open THEN Seed(fetch.data) /\ UNCHANGED <<open, modal>> ELSE UNCHANGED pageVars
    /\ UNCHANGED <<panelVars, callVars, edits, events>>

\* Equal data keeps its identity in the cache (structural sharing): no effect runs then.
FetchLand ==
    /\ fetch.at = "answered"
    /\ fetch' = Idle /\ invalid' = FALSE /\ failed' = FALSE
    /\ config' = fetch.data
    /\ IF open /\ fetch.data # config
       THEN Seed(fetch.data) /\ UNCHANGED <<open, modal>>
       ELSE UNCHANGED pageVars
    /\ UNCHANGED <<panelVars, callVars, edits, events>>

FetchFail ==
    /\ fetch.at # "idle"
    /\ fetch' = Idle /\ failed' = TRUE
    /\ UNCHANGED <<panelVars, config, invalid, pageVars, callVars, edits, events>>

\* The button of the error page, and a window that gets the focus with the query stale.
Refetch ==
    /\ open /\ fetch = Idle /\ (failed \/ invalid)
    /\ fetch' = Asked
    /\ UNCHANGED <<panelVars, config, invalid, failed, pageVars, callVars, edits, events>>

\* useClients invalidates the query from another page after each of its mutations.
InvalidateElsewhere ==
    /\ ~ open /\ config.got /\ ~ invalid
    /\ Invalidate
    /\ UNCHANGED <<panelVars, config, failed, pageVars, callVars, edits, events>>

\* An unused query is dropped from the cache after five minutes, longer than calls last.
Collect ==
    /\ ~ open /\ config.got /\ fetch = Idle /\ saves = {} /\ rotation = NoRotation
    /\ config' = NoData /\ invalid' = FALSE /\ failed' = FALSE
    /\ UNCHANGED <<panelVars, fetch, pageVars, callVars, edits, events>>

-----------------------------------------------------------------------------
(* The page. *)

\* The hook starts from nothing, and is seeded with the cached data if there is some.
OpenPage ==
    /\ ~ open /\ Event
    /\ open' = TRUE
    /\ IF config.got THEN Seed(config) ELSE UNCHANGED <<text, template, old, saveDisabled>>
    /\ UNCHANGED modal
    /\ fetch' = IF (~ config.got \/ invalid \/ failed) /\ fetch = Idle THEN Asked ELSE fetch
    /\ UNCHANGED <<panelVars, config, invalid, failed, callVars, edits>>

\* Local state is gone; requests go on, and their answers find nobody.
ClosePage ==
    /\ open
    /\ open' = FALSE /\ text' = Unfinished /\ template' = None /\ old' = Unfinished
    /\ saveDisabled' = TRUE /\ modal' = Closed
    /\ saves' = {[s EXCEPT !.mine = FALSE] : s \in saves}
    /\ rotation' = [rotation EXCEPT !.mine = FALSE]
    /\ resetting' = FALSE /\ leaving' = None /\ deleting' = FALSE
    /\ UNCHANGED <<panelVars, queryVars, edits, events>>

\* The page shows its editors, not the spinner of the first fetch or the error.
Ready == open /\ config.got /\ ~ failed
Free  == Ready /\ modal.kind = "none"

pageRest == <<panelVars, queryVars, open, old, saveDisabled, callVars>>

\* setTemplateSettings: the template, and the text with it.
SetTemplate(t) == template' = t /\ text' = Json(t)

\* An edit of the model is a change it can tell.
EditTo(t) ==
    /\ t # template
    /\ SetTemplate(t)
    /\ Edit

\* A change made in place, with no form open.
InPlace(t) == EditTo(t) /\ UNCHANGED <<pageRest, modal>>

\* Mutant: the text alone.
TypeKeepsTemplate(next) ==
    /\ next # text
    /\ text' = next
    /\ UNCHANGED <<template, pageRest, modal>>

\* setXraySetting: the template follows as soon as the text parses.
Type(next) ==
    /\ next # text
    /\ text' = next
    /\ template' = IF next.json THEN next.of ELSE template
    /\ UNCHANGED <<pageRest, modal>>

TypeText ==
    /\ Free /\ text.json
    /\ \E next \in {Unfinished, Json(Default)} : Type(next)
    /\ Edit
\* Finished again, or undone.
FinishText ==
    /\ Ready /\ modal.kind = "none"
    /\ \E next \in {Json(template), old} : Type(next)
    /\ UNCHANGED <<edits, events>>

\* The advanced editors of one section: ignored until they parse.
TypeSection ==
    Free /\ \E t \in {[template EXCEPT !.outbounds = Default.outbounds],
              [template EXCEPT !.rules = Default.rules]} : InPlace(t)

MoveOutbounds ==
    \E from, to \in DOMAIN template.outbounds :
        /\ to \in {1, from - 1, from + 1}
        /\ InPlace(MoveOutbound(template, from, to))
MoveRules == \E from, to \in DOMAIN template.rules : InPlace(MoveRule(template, from, to))
ToggleRules ==
    \E i \in DOMAIN template.rules :
        template.rules[i].out # Api /\ InPlace(ToggleRule(template, i))
BasicDomains ==
    \E tag \in {Direct, Blocked}, some \in BOOLEAN :
        /\ some \/ \E i \in DOMAIN template.rules :
                        template.rules[i].out = tag /\ template.rules[i].domains
        /\ InPlace(SetBasicDomains(template, tag, some))

-----------------------------------------------------------------------------
(* Forms and confirmations: opened on a position, applied to it later.     *)

Items(kind) ==
    CASE kind \in {"outbound", "delOutbound"} -> template.outbounds
      [] kind \in {"rule", "delRule"}         -> template.rules
      [] kind \in {"balancer", "delBalancer"} -> template.balancers

\* index 0 adds.  The tags an outbound may not take are read here.
OpenForm ==
    /\ Free /\ edits < MaxEdits /\ events < MaxEvents
    /\ \E kind \in {"outbound", "rule", "balancer", "delOutbound", "delRule", "delBalancer"} :
       \E i \in DOMAIN Items(kind) \cup (IF kind \in {"outbound", "rule", "balancer"}
                                         THEN {0} ELSE {}) :
          modal' = [kind |-> kind, index |-> i,
                    seen |-> IF i = 0 THEN None ELSE Items(kind)[i],
                    tags |-> {template.outbounds[j].tag :
                                j \in DOMAIN template.outbounds \ {i}} \ {None},
                    replaced |-> FALSE]
    /\ UNCHANGED <<pageRest, text, template, edits, events>>

CancelForm ==
    /\ modal.kind # "none"
    /\ modal' = Closed
    /\ UNCHANGED <<pageRest, text, template, edits, events>>

\* The form closes whether or not it changed anything; two changes are two edits.
OneChange(item) == Cardinality({f \in DOMAIN item : item[f] # modal.seen[f]}) <= 1
Confirm(t) ==
    /\ modal' = Closed
    /\ EditTo(t)
    /\ UNCHANGED pageRest

ConfirmOutbound ==
    /\ modal.kind = "outbound"
    /\ \E tag \in Tag \ modal.tags,
          dialer \in modal.tags \cup {None} \cup
                    (IF modal.index = 0 THEN {} ELSE {modal.seen.dialer}) :
        LET o == [tag |-> tag, dialer |-> dialer,
                  key |-> IF modal.index = 0 THEN 0 ELSE modal.seen.key]
        IN /\ modal.index > 0 => OneChange(o)
           /\ Confirm(IF modal.index = 0 THEN AddOutbound(template, o)
                      ELSE ReplaceOutbound(template, modal.index, o))

\* The choices are the tags of the moment, those offered besides, and the one the rule
\* already has.
ConfirmRule ==
    /\ modal.kind = "rule"
    /\ LET was == IF modal.index = 0 THEN NoRule ELSE modal.seen
       IN \E out \in TagsOf(template) \cup Offered \cup {was.out, None},
             bal \in BalancersOf(template) \cup {was.bal, None} :
          /\ out = was.out \/ bal = was.bal
          /\ Confirm(PutRule(template,
                             IF modal.index = 0 THEN Len(template.rules) + 1 ELSE modal.index,
                             [was EXCEPT !.out = out, !.bal = bal]))

\* The selector is free text with suggestions, the fallback one of the tags on offer; each
\* may stay what it was.  Past the end the list would hold a null, on which the page fails
\* to render.
ConfirmBalancer ==
    /\ modal.kind = "balancer" /\ modal.index <= Len(template.balancers) + 1
    /\ LET otherTags == {template.balancers[j].tag :
                            j \in DOMAIN template.balancers \ {modal.index}}
           was       == IF modal.index = 0 THEN {} ELSE {modal.seen}
       IN \E b \in [tag : BalancerTag \ otherTags, strategy : Strategies,
                    selector : Selectors \cup {w.selector : w \in was},
                    fallback : {None} \cup TagsOf(template) \cup Offered
                               \cup {w.fallback : w \in was}] :
          /\ b.selector # {}
          /\ modal.index > 0 => OneChange(b)
          /\ Confirm(IF modal.index = 0 THEN AddBalancer(template, b)
                     ELSE ReplaceBalancer(template, modal.index, b))

ConfirmDelete ==
    \/ modal.kind = "delOutbound" /\ Confirm(DeleteOutbound(template, modal.index))
    \/ modal.kind = "delRule" /\ Confirm(DeleteRule(template, modal.index))
    \/ modal.kind = "delBalancer" /\ Confirm(DeleteBalancer(template, modal.index))

-----------------------------------------------------------------------------
(* The WARP and NordVPN windows. *)

\* Mutant: credentials that have not been fetched.
AccountUnread(tag) == [tag |-> tag, dialer |-> None, key |-> None]

Account(tag) == [tag |-> tag, dialer |-> None, key |-> key]

\* Added when there is none, else put in its place.
WarpOutbound ==
    LET i == FindIndex(template, {Warp})
    IN InPlace(IF i = 0 THEN AddOutbound(template, Account(Warp))
               ELSE [template EXCEPT !.outbounds = Put(template.outbounds, i, Account(Warp), Hole)])

NordOutbound ==
    \E tag \in Nord :
        LET i == FindIndex(template, Nord)
        IN InPlace(IF i = 0 THEN AddOutbound(template, Account(tag))
                   ELSE ReplaceOutbound(template, i, Account(tag)))

\* A request that changes the template when it is answered; what is open by then has it
\* changed under it.
ChangeUnderForm(t) ==
    /\ SetTemplate(t)
    /\ modal' = [modal EXCEPT !.replaced = @ \/ (modal.kind # "none" /\ t # template)]

\* delConfig: the outbound is looked up when the request is answered; the window can be
\* closed, and a form opened, in between.
WarpLeaveAsk ==
    /\ Free /\ ~ deleting /\ Edit
    /\ deleting' = TRUE
    /\ UNCHANGED <<panelVars, queryVars, pageVars, saves, resetting, rotation, leaving>>

WarpLeaveAnswer ==
    /\ deleting
    /\ deleting' = FALSE
    /\ \/ template # None /\ ChangeUnderForm(RemoveOutboundByTag(template, Warp))
       \/ UNCHANGED <<text, template, modal>>
    /\ UNCHANGED <<panelVars, queryVars, open, old, saveDisabled, saves, resetting, rotation,
                   leaving, edits, events>>

\* logout: the position is read before the request, the rules when it is answered.
NordLogoutAsk ==
    /\ Free /\ leaving = None /\ Edit
    /\ leaving' = FindIndex(template, Nord)
    /\ UNCHANGED <<panelVars, queryVars, pageVars, saves, resetting, rotation, deleting>>

NordLogoutAnswer ==
    /\ leaving # None
    /\ leaving' = None
    /\ \/ template # None /\ ChangeUnderForm(NordLogout(template, leaving))
       \/ UNCHANGED <<text, template, modal>>
    /\ UNCHANGED <<panelVars, queryVars, open, old, saveDisabled, saves, resetting, rotation,
                   deleting, edits, events>>

\* changeIp: the position is read before the request and used after it; the window can be
\* closed, and the page edited, in between.
RotateAsk ==
    /\ Free /\ rotation.at = "none" /\ Event
    /\ rotation' = [at |-> "asked", index |-> FindIndex(template, {Warp}),
                    key |-> 0, mine |-> TRUE]
    /\ UNCHANGED <<panelVars, queryVars, pageVars, saves, resetting, leaving, deleting,
                   edits>>

RotateServe ==
    /\ rotation.at = "asked"
    /\ \/ /\ key' = key + 1
          /\ server' = UpdateWarp(server, key + 1)
          /\ rotation' = [rotation EXCEPT !.at = "done", !.key = key + 1]
       \/ /\ rotation' = [rotation EXCEPT !.at = "failed"]
          /\ UNCHANGED <<key, server>>
    /\ UNCHANGED <<subs, others, stored, queryVars, pageVars, saves, resetting, leaving, deleting,
                   edits, events>>

RotateAnswer ==
    /\ rotation.at \in {"done", "failed"}
    /\ rotation' = NoRotation
    /\ IF rotation.at = "done" /\ rotation.mine /\ rotation.index > 0 /\ template # None
       THEN SetTemplate([template EXCEPT !.outbounds =
                Put(template.outbounds, rotation.index,
                    [tag |-> Warp, dialer |-> None, key |-> rotation.key], Hole)])
       ELSE UNCHANGED <<text, template>>
    /\ UNCHANGED <<panelVars, queryVars, open, old, saveDisabled, modal, saves,
                   resetting, leaving, deleting, edits, events>>

-----------------------------------------------------------------------------
(* Saving, the baseline, and the built-in template. *)

\* onSaveAll refuses a text that does not parse.  The spinner over a save in flight keeps
\* the button from being pressed again, until the page is left.
Save ==
    /\ Free /\ ~ saveDisabled /\ text.json
    /\ \A s \in saves : ~ s.mine
    /\ Cardinality(saves) < MaxSaves /\ Event
    /\ saves' = saves \cup
        {[id |-> events, sent |-> text.of, at |-> "sent", ok |-> FALSE, mine |-> TRUE]}
    /\ UNCHANGED <<panelVars, queryVars, pageVars, resetting, rotation, leaving, deleting,
                   edits>>

Answered(s, ok) == (saves \ {s}) \cup {[s EXCEPT !.at = "answered", !.ok = ok]}

\* Normalised, stored, and taken in by the core.
SaveAccept ==
    \E s \in saves :
        /\ s.at = "sent"
        /\ server' = EnsureStatsRouting(s.sent) /\ stored' = TRUE
        /\ saves' = Answered(s, TRUE)
        /\ UNCHANGED <<subs, others, key, queryVars, pageVars, resetting, rotation, leaving,
                       deleting, edits, events>>

\* Stored, but the restart fails or the answer is lost: the page hears of a failure.
SaveStoredOnly ==
    \E s \in saves :
        /\ s.at = "sent"
        /\ server' = EnsureStatsRouting(s.sent) /\ stored' = TRUE
        /\ others' = others + 1
        /\ saves' = Answered(s, FALSE)
        /\ UNCHANGED <<subs, key, queryVars, pageVars, resetting, rotation, leaving, deleting,
                       edits, events>>

SaveRefuse ==
    \E s \in saves :
        /\ s.at = "sent"
        /\ saves' = Answered(s, FALSE)
        /\ UNCHANGED <<panelVars, queryVars, pageVars, resetting, rotation, leaving, deleting,
                       edits, events>>

\* What onSuccess of saveMut does with the page; with one left since, nothing.
Baseline(s, text1) ==
    IF s.ok /\ s.mine
    THEN old' = text1 /\ saveDisabled' = TRUE
    ELSE UNCHANGED <<old, saveDisabled>>

\* Mutant: what the page holds by now becomes the baseline.
SaveTakesText(s) == Baseline(s, text)

\* What was sent is the baseline, whatever has been edited since.
SaveBaseline(s) == Baseline(s, Json(s.sent))

\* With the page closed the query is only marked, and a fetch in flight, which may have
\* read the panel before the save, takes the mark away; and of two saves in flight
\* together (of two visits) the last to be answered need not be the last stored.  Either
\* way the page may not be told what the panel holds.
Untold(s) == s.ok /\ ((~ open /\ fetch # Idle) \/ \E r \in saves : r # s)

SaveAnswer ==
    \E s \in saves :
        /\ s.at = "answered"
        /\ saves' = saves \ {s}
        /\ SaveBaseline(s)
        /\ IF s.ok THEN Invalidate ELSE UNCHANGED <<invalid, fetch>>
        /\ others' = IF Untold(s) THEN others + 1 ELSE others
        /\ UNCHANGED <<server, subs, key, stored, config, failed, open, text, template,
                       modal, resetting, rotation, leaving, deleting, edits, events>>

\* The dirty check of every second.
Poll ==
    /\ open /\ saveDisabled # (old = text)
    /\ saveDisabled' = (old = text)
    /\ UNCHANGED <<panelVars, queryVars, open, text, template, old, modal,
                   callVars, edits, events>>

DefaultAsk ==
    /\ Free /\ ~ resetting /\ Edit
    /\ resetting' = TRUE
    /\ UNCHANGED <<panelVars, queryVars, pageVars, saves, rotation, leaving, deleting>>

DefaultAnswer ==
    /\ resetting
    /\ resetting' = FALSE
    /\ \/ ChangeUnderForm(Default)
       \/ UNCHANGED <<text, template, modal>>
    /\ UNCHANGED <<panelVars, queryVars, open, old, saveDisabled, saves, rotation, leaving,
                   deleting, edits, events>>

-----------------------------------------------------------------------------
(* What goes on behind the page. *)

\* The subscription drawer: whatever it did, the config query is refreshed after it.
SubOperation ==
    /\ Free /\ Event
    /\ subs' \in {subs, subs + 1}
    /\ Invalidate
    /\ UNCHANGED <<server, others, key, stored, config, failed, pageVars, callVars, edits>>

\* The subscription job of the panel.
SubsJob ==
    /\ Event
    /\ subs' = subs + 1
    /\ UNCHANGED <<server, others, key, stored, queryVars, pageVars, callVars, edits>>

OtherAdmin ==
    /\ Event
    /\ server' = EnsureStatsRouting(Default) /\ server' # server
    /\ others' = others + 1
    /\ UNCHANGED <<subs, key, stored, queryVars, pageVars, callVars, edits>>

\* The scheduled rotation.
RotationJob ==
    /\ Event
    /\ key' = key + 1 /\ others' = others + 1
    /\ server' = UpdateWarp(server, key + 1)
    /\ UNCHANGED <<subs, stored, queryVars, pageVars, callVars, edits>>

-----------------------------------------------------------------------------
\* Edits made through a form or a button; typed JSON is not one of them.
FormEdit ==
    \/ Free /\ \/ MoveOutbounds \/ MoveRules \/ ToggleRules \/ BasicDomains
               \/ WarpOutbound \/ NordOutbound
    \/ Ready /\ \/ ConfirmOutbound \/ ConfirmRule \/ ConfirmBalancer \/ ConfirmDelete

Next ==
    \/ FetchRead \/ FetchLand \/ FetchFail \/ Refetch \/ InvalidateElsewhere \/ Collect
    \/ OpenPage \/ ClosePage
    \/ TypeText \/ FinishText \/ TypeSection
    \/ OpenForm \/ CancelForm \/ FormEdit
    \/ WarpLeaveAsk \/ WarpLeaveAnswer \/ NordLogoutAsk \/ NordLogoutAnswer
    \/ RotateAsk \/ RotateServe \/ RotateAnswer
    \/ Save \/ SaveAccept \/ SaveStoredOnly \/ SaveRefuse \/ SaveAnswer
    \/ Poll \/ DefaultAsk \/ DefaultAnswer
    \/ SubOperation \/ SubsJob \/ OtherAdmin \/ RotationJob

Spec == Init /\ [][Next]_vars

-----------------------------------------------------------------------------
(* Properties. *)

\* The two copies of the page never tell different stories: a text that parses is the
\* template the forms show, whoever wrote last (setXraySetting, setTemplateSettings, the
\* seeding effect, the answers of changeIp and of the built-in template).
TextTellsTemplate == text.json => template = text.of

\* The page has no call in flight.
Settled == Ready /\ fetch = Idle /\ ~ invalid /\ saves = {} /\ rotation = NoRotation

\* A page at rest that calls itself clean shows what the panel stores, or what the panel
\* has normalised; unless the panel was written without the page being told (updateSetting
\* that stores and then fails, changeIp and its job, another admin).
CleanMeansStored ==
    Settled /\ text = old /\ others = 0 /\ key = 0
        => server \in {template, EnsureStatsRouting(template)}

\* Something the page did not do itself, or a save of its own, changed what the query brings.
News == others > 0 \/ key > 0 \/ subs > 0 \/ stored

\* Without news no refetch takes an unsaved edit away.
EditsGiveWayToNews ==
    [][FetchLand /\ Ready /\ text # old => News \/ text' = text]_vars

\* What an open form was opened on is still there.
Fits ==
    modal.kind # "none" =>
        /\ modal.tags \subseteq TagsOf(template)
        /\ modal.index > 0 => /\ modal.index \in DOMAIN Items(modal.kind)
                             /\ Items(modal.kind)[modal.index] = modal.seen

\* A form or a confirmation is applied to the item it was opened on, unless news came in
\* under it, or the answer to a request that changes the template: for the built-in one, the
\* logout of NordVPN, the deletion of the WARP account.
FormsHitTheirTarget == ~ News /\ ~ modal.replaced => Fits

\* No form that fits leaves a reference that names nothing, except to what it takes out of a
\* list, to what its user types as the selector of a balancer (an entry that only begins
\* tags names none of them), and the basic view's rule that blocks where there is no
\* outbound to block with.
NoNewDangling ==
    [][FormEdit /\ Fits =>
        Dangling(template') \subseteq Dangling(template) \cup {<<"rule", Blocked>>} \cup
            (IF modal.kind = "balancer" THEN {"selector"} \X Tag ELSE {}) \cup
            {m \in Mentions(template) :
                \/ /\ m[1] = "balancer" /\ m[2] \notin BalancersOf(template')
                   /\ Len(template'.balancers) < Len(template.balancers)
                \/ /\ m[1] # "balancer" /\ m[2] \notin TagsOf(template')
                   /\ Len(template'.outbounds) < Len(template.outbounds)}]_vars

\* The observatories stay what the balancers need through every form, except when an
\* observed outbound is renamed from the outbounds' side.
ObserversFollow ==
    [][FormEdit /\ Aligned(template) =>
        \/ Aligned(template')
        \/ template'.balancers # template.balancers /\ template'.outbounds # template.outbounds]_vars

=============================================================================
