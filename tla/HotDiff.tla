------------------------------- MODULE HotDiff -------------------------------
(***************************************************************************)
(* From what the panel stores to what the core runs: the configuration     *)
(* generated from the template and the rest of the database                *)
(* (GetXrayConfig), the operations that lead a core from one configuration *)
(* to another (ComputeHotDiff), and their application (tryHotApply).       *)
(*                                                                         *)
(* Configurations are compared as JSON values.  A port stands for the      *)
(* address and port an inbound listens on.  Of the sections without a      *)
(* reload API the observatories are kept, and `static` for the others;     *)
(* `rest` is what the routing section says besides rules and balancers.    *)
(***************************************************************************)
EXTENDS XrayTemplate

CONSTANTS
    InboundTag,
    Settings,               \* what an inbound serves, and to whom
    PanelEgressInboundTag,
    PanelEgressBasePort     \* the first port tried for the panel's egress bridge

ASSUME EgressAssumption == PanelEgressBasePort \in Nat

Inbound == [tag : InboundTag \cup {PanelEgressInboundTag, None}, port : Nat,
            body : Settings \cup {None}]

TagsIn(list)  == {list[i].tag : i \in DOMAIN list}
Ports(list)  == {list[i].port : i \in DOMAIN list}

-----------------------------------------------------------------------------
(* GetXrayConfig. *)

\* A rule as the core gets it: what it matches (the bridge, or what the template says),
\* and where it sends the traffic.
CoreRule(from, out, bal, domains) == [from |-> from, out |-> out, bal |-> bal, domains |-> domains]

\* Disabled rules are left out, but for the api rule.
stripDisabledRules(rules) ==
    LET active == Without(rules, {i \in DOMAIN rules : ~ rules[i].enabled /\ rules[i].out # Api})
    IN [i \in DOMAIN active |->
            CoreRule(None, active[i].out, active[i].bal, active[i].domains)]

\* The first port from the base on that no inbound has.
FreePort(inbounds) ==
    CHOOSE port \in PanelEgressBasePort .. PanelEgressBasePort + Len(inbounds) :
        /\ port \notin Ports(inbounds)
        /\ PanelEgressBasePort .. port - 1 \subseteq Ports(inbounds)

Bridge(port) == [tag |-> PanelEgressInboundTag, port |-> port, body |-> None]

\* The panel's own traffic: an inbound for it, and a rule before all others.
injectPanelEgress(config, egress) ==
    IF egress = None \/ PanelEgressInboundTag \in TagsIn(config.inbounds) THEN config
    ELSE LET balanced == egress \in TagsIn(config.routing.balancers)
             rule     == CoreRule(PanelEgressInboundTag, IF balanced THEN None ELSE egress,
                                  IF balanced THEN egress ELSE None, FALSE)
         IN [config EXCEPT
                !.inbounds = Append(@, Bridge(FreePort(config.inbounds))),
                !.routing.rules = Cons(rule, @)]

\* db: enabled inbounds, the outbounds of subscriptions to go before and after those of
\* the template, the outbound or balancer of the panel's own traffic; and, of the
\* template, what the editor's model leaves out.
GetXrayConfig(t, db) ==
    injectPanelEgress(
        [static    |-> <<db.static, t.observatory, t.burstObservatory>>,
         api       |-> db.api,
         inbounds  |-> db.inbounds,
         outbounds |-> db.before \o t.outbounds \o db.after,
         routing   |-> [rest |-> db.rest, balancers |-> t.balancers,
                        rules |-> stripDisabledRules(t.rules)]],
        db.egress)

-----------------------------------------------------------------------------
(* ComputeHotDiff. *)

\* inboundsByTag, parseOutbounds: no entry without a tag, no two with the same.
Addressable(list) ==
    /\ None \notin TagsIn(list)
    /\ \A i, j \in DOMAIN list : list[i].tag = list[j].tag => i = j

ByTag(list, tag) == list[CHOOSE i \in DOMAIN list : list[i].tag = tag]

\* Entries of the list a that b has too, word for word.
Kept(a, b) == {i \in DOMAIN a : a[i].tag \in TagsIn(b) /\ ByTag(b, a[i].tag) = a[i]}

RemovedTags(a, b) == {a[i].tag : i \in DOMAIN a \ Kept(a, b)}

\* What was changed, in the order of a, and then what is new, in the order of b.
AddedEntries(a, b) ==
    LET successors == [i \in DOMAIN a |->
                          IF a[i].tag \in TagsIn(b) THEN ByTag(b, a[i].tag) ELSE a[i]]
    IN Without(successors, Kept(a, b) \cup {i \in DOMAIN a : a[i].tag \notin TagsIn(b)})
       \o Without(b, {i \in DOMAIN b : b[i].tag \in TagsIn(a)})

\* The inbound of the API the panel talks through must stay as it is.
diffInbounds(old, new) ==
    /\ Addressable(old.inbounds) /\ Addressable(new.inbounds)
    /\ LET touched == RemovedTags(old.inbounds, new.inbounds)
                      \cup TagsIn(AddedEntries(old.inbounds, new.inbounds))
       IN new.api \notin touched /\ Api \notin touched

\* Mutant: the default outbound may change place.
DefaultMayMove(old, new) ==
    /\ Addressable(old.outbounds) /\ Addressable(new.outbounds)
    /\ old.outbounds = << >> <=> new.outbounds = << >>

\* The first outbound is the default one, and the API can only append.
diffOutbounds(old, new) ==
    /\ Addressable(old.outbounds) /\ Addressable(new.outbounds)
    /\ old.outbounds = << >> <=> new.outbounds = << >>
    /\ old.outbounds # << >> => old.outbounds[1] = new.outbounds[1]

\* None: no routing section.
diffRouting(old, new) ==
    \/ old.routing = new.routing
    \/ None \notin {old.routing, new.routing} /\ old.routing.rest = new.routing.rest

ComputeHotDiff(old, new) ==
    [ok |-> /\ old.static = new.static /\ old.api = new.api
            /\ diffInbounds(old, new) /\ diffOutbounds(old, new) /\ diffRouting(old, new),
     RemovedInboundTags  |-> RemovedTags(old.inbounds, new.inbounds),
     AddedInbounds       |-> AddedEntries(old.inbounds, new.inbounds),
     RemovedOutboundTags |-> RemovedTags(old.outbounds, new.outbounds),
     AddedOutbounds      |-> AddedEntries(old.outbounds, new.outbounds),
     RoutingConfig       |-> IF old.routing = new.routing THEN None ELSE new.routing]

-----------------------------------------------------------------------------
(* The core: its handlers by tag, and the outbound added first.  It takes no inbound on *)
(* a port that is taken.                                                                *)

Entries(list) == {list[i] : i \in DOMAIN list}

CoreStart(config) ==
    [inbounds  |-> Entries(config.inbounds),
     outbounds |-> Entries(config.outbounds),
     default   |-> IF config.outbounds = << >> THEN {} ELSE {config.outbounds[1]},
     routing   |-> config.routing,
     static    |-> config.static, api |-> config.api]

DelHandlers(handlers, tags) == {h \in handlers : h.tag \notin tags}

\* Each addition replaces a handler that has its tag already (addInboundReconciling).
AddHandlers(handlers, added) == DelHandlers(handlers, TagsIn(added)) \cup Entries(added)

\* What the core has when it is to take the i-th addition.
BeforeAdding(handlers, added, i) ==
    DelHandlers(AddHandlers(handlers, SubSeq(added, 1, i - 1)), {added[i].tag})

\* A default outbound that is removed leaves its place to the next addition.
DefaultAfter(default, removed, added) ==
    LET left == DelHandlers(default, removed)
    IN IF left = {} THEN IF added = << >> THEN {} ELSE {added[1]}
       ELSE {IF h.tag \in TagsIn(added) THEN ByTag(added, h.tag) ELSE h : h \in left}

\* Mutant: the additions come before the removals.
AddsFirst(core, d) == core.inbounds

InboundsLeft(core, d) == DelHandlers(core.inbounds, d.RemovedInboundTags)

\* ok: every call succeeds.
tryHotApply(core, d) ==
    [ok |-> \A i \in DOMAIN d.AddedInbounds :
              \A h \in BeforeAdding(InboundsLeft(core, d), d.AddedInbounds, i) :
                 h.port # d.AddedInbounds[i].port,
     core |-> [core EXCEPT
        !.inbounds  = AddHandlers(InboundsLeft(core, d), d.AddedInbounds),
        !.outbounds = AddHandlers(DelHandlers(@, d.RemovedOutboundTags), d.AddedOutbounds),
        !.default   = DefaultAfter(@, d.RemovedOutboundTags, d.AddedOutbounds),
        !.routing   = IF d.RoutingConfig = None THEN @
                      ELSE [d.RoutingConfig EXCEPT !.rest = core.routing.rest]]]

=============================================================================
