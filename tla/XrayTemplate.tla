----------------------------- MODULE XrayTemplate -----------------------------
(***************************************************************************)
(* The Xray template as the panel's settings page edits it, and what each  *)
(* form of the page does to it (src/frontend/src/pages/xray): outbounds,   *)
(* routing rules and balancers name each other by tag, and the             *)
(* observatories list the tags the balancers want probed.                  *)
(*                                                                         *)
(* Kept of an outbound: its tag, the outbound it dials through, and the    *)
(* version of its credentials.  Kept of a rule: where it sends traffic,    *)
(* whether it carries the domain list the basic view edits, and its        *)
(* switch.  A selector is a set of whole tags.                             *)
(***************************************************************************)
EXTENDS Naturals, SequencesExt

CONSTANTS
    Tag,             \* tags of outbounds, "api" not among them
    BalancerTag,
    Api,             \* the tag of the core's internal api outbound
    Direct, Blocked, \* the outbounds the basic view routes to
    Warp,            \* the outbound of the WARP account
    Nord,            \* the tags that begin with "nord-"
    Offered,         \* outbounds from outside the template that its forms offer: those of
                     \* subscriptions and of the clients' reverse proxies
    None             \* undefined, null or the empty string

ASSUME TemplateAssumption ==
    /\ {Direct, Blocked, Warp} \cup Nord \cup Offered \subseteq Tag
    /\ Api \notin Tag /\ None \notin Tag \cup BalancerTag \cup {Api}
    /\ \A tags \in SUBSET Tag : None # tags

Strategies == {"random", "roundRobin", "leastPing", "leastLoad"}

Outbound == [tag : Tag \cup {None}, dialer : Tag \cup {None}, key : Nat]
Rule     == [out : Tag \cup {Api, None}, bal : BalancerTag \cup {None},
             domains : BOOLEAN, enabled : BOOLEAN]
Balancer == [tag : BalancerTag, selector : SUBSET Tag,
             fallback : Tag \cup {None}, strategy : Strategies]

Template == [outbounds : Seq(Outbound), rules : Seq(Rule), balancers : Seq(Balancer),
             observatory : {None} \cup SUBSET Tag,
             burstObservatory : {None} \cup SUBSET Tag]

\* What an assignment past the end of a list leaves in between (null in the JSON).
Hole == [tag |-> None, dialer |-> None, key |-> 0]
NoRule == [out |-> None, bal |-> None, domains |-> FALSE, enabled |-> TRUE]

-----------------------------------------------------------------------------
(* Lists.  list[i] = x in JavaScript, and splice(from, 1) with splice(to, 0). *)

Put(list, i, x, hole) ==
    [j \in 1 .. (IF i > Len(list) THEN i ELSE Len(list)) |->
        IF j = i THEN x ELSE IF j <= Len(list) THEN list[j] ELSE hole]

Move(list, from, to) == InsertAt(RemoveAt(list, from), to, list[from])

\* filter: all but the entries at the positions gone.
Without(list, gone) ==
    LET kept[i \in 0 .. Len(list)] ==
            IF i = 0 THEN << >>
            ELSE IF i \in gone THEN kept[i - 1] ELSE Append(kept[i - 1], list[i])
    IN kept[Len(list)]

TagsOf(t) == {t.outbounds[i].tag : i \in DOMAIN t.outbounds} \ {None}
BalancersOf(t) == {t.balancers[i].tag : i \in DOMAIN t.balancers}
Positions(t, tags) == {i \in DOMAIN t.outbounds : t.outbounds[i].tag \in tags}

\* findIndex: the first position, 0 for -1.
FindIndex(t, tags) ==
    IF Positions(t, tags) = {} THEN 0
    ELSE CHOOSE i \in Positions(t, tags) : \A j \in Positions(t, tags) : i <= j

\* Everything that points at an outbound or a balancer: what, and which tag.
Mentions(t) ==
    LET rules == {t.rules[i] : i \in DOMAIN t.rules}
        lbs   == {t.balancers[i] : i \in DOMAIN t.balancers}
        obs   == {t.outbounds[i] : i \in DOMAIN t.outbounds}
    IN {m \in {<<"rule", r.out>> : r \in rules} \cup {<<"balancer", r.bal>> : r \in rules}
              \cup {<<"fallback", b.fallback>> : b \in lbs}
              \cup {<<"dialer", o.dialer>> : o \in obs}
              \cup UNION {{<<"selector", s>> : s \in b.selector} : b \in lbs} : m[2] # None}

Dangling(t) ==
    {m \in Mentions(t) :
        m[2] \notin (IF m[1] = "balancer" THEN BalancersOf(t)
                     ELSE TagsOf(t) \cup Offered \cup {Api})}

-----------------------------------------------------------------------------
(* Outbounds. *)

Renamed(tag, old, new) == IF tag = old THEN new ELSE tag

\* Mutant: the fallback of a balancer is forgotten.
RenameWithoutFallback(t, old, new) ==
    [t EXCEPT
        !.rules = [i \in DOMAIN t.rules |->
            [t.rules[i] EXCEPT !.out = Renamed(t.rules[i].out, old, new)]],
        !.balancers = [i \in DOMAIN t.balancers |->
            [t.balancers[i] EXCEPT
                !.selector = {Renamed(s, old, new) : s \in t.balancers[i].selector}]],
        !.outbounds = [i \in DOMAIN t.outbounds |->
            [t.outbounds[i] EXCEPT !.dialer = Renamed(t.outbounds[i].dialer, old, new)]]]

propagateOutboundTagRename(t, old, new) ==
    [t EXCEPT
        !.rules = [i \in DOMAIN t.rules |->
            [t.rules[i] EXCEPT !.out = Renamed(t.rules[i].out, old, new)]],
        !.balancers = [i \in DOMAIN t.balancers |->
            [t.balancers[i] EXCEPT
                !.fallback = Renamed(t.balancers[i].fallback, old, new),
                !.selector = {Renamed(s, old, new) : s \in t.balancers[i].selector}]],
        !.outbounds = [i \in DOMAIN t.outbounds |->
            [t.outbounds[i] EXCEPT !.dialer = Renamed(t.outbounds[i].dialer, old, new)]]]

AddOutbound(t, o) == [t EXCEPT !.outbounds = Append(@, o)]

\* list[index] = outbound, then the rename if the tag it replaced was another one.
ReplaceOutbound(t, i, o) ==
    LET oldTag == IF i \in DOMAIN t.outbounds THEN t.outbounds[i].tag ELSE None
        put    == [t EXCEPT !.outbounds = Put(t.outbounds, i, o, Hole)]
    IN IF oldTag \in {None, o.tag} \/ o.tag = None
       THEN put ELSE propagateOutboundTagRename(put, oldTag, o.tag)

\* splice(idx, 1): nothing past the end.
DeleteOutbound(t, i) ==
    IF i \in DOMAIN t.outbounds THEN [t EXCEPT !.outbounds = RemoveAt(t.outbounds, i)] ELSE t

\* setFirst, moveUp and moveDown.
MoveOutbound(t, from, to) == [t EXCEPT !.outbounds = Move(t.outbounds, from, to)]

\* Leaving the WARP account removes its outbound; leaving NordVPN removes the first of
\* its outbounds and every rule that sends to any of them.
RemoveOutboundByTag(t, tag) == DeleteOutbound(t, FindIndex(t, {tag}))
NordLogout(t, i) ==
    [DeleteOutbound(t, i) EXCEPT
        !.rules = Without(t.rules, {j \in DOMAIN t.rules : t.rules[j].out \in Nord})]

-----------------------------------------------------------------------------
(* Rules. *)

PutRule(t, i, r)     == [t EXCEPT !.rules = Put(t.rules, i, r, NoRule)]
DeleteRule(t, i) ==
    IF i \in DOMAIN t.rules THEN [t EXCEPT !.rules = RemoveAt(t.rules, i)] ELSE t
MoveRule(t, from, to) == [t EXCEPT !.rules = Move(t.rules, from, to)]
ToggleRule(t, i)     == [t EXCEPT !.rules[i].enabled = ~ t.rules[i].enabled]

\* The basic view keeps one rule with the domains for a tag: the first that has some is
\* rewritten or, when the list is emptied, all of them go; with none, one is added.
ruleSetter(t, tag, some) ==
    LET holders == {i \in DOMAIN t.rules : t.rules[i].out = tag /\ t.rules[i].domains}
    IN IF holders = {}
       THEN [t EXCEPT !.rules =
                Append(@, [out |-> tag, bal |-> None, domains |-> some, enabled |-> TRUE])]
       ELSE [t EXCEPT !.rules =
                Without(t.rules, IF some THEN {i \in holders : \E j \in holders : j < i}
                                 ELSE holders)]

\* The outbound follows the rules: added with the first, removed with the last one,
\* except from the head of the list, where it is the default route.
syncOutbound(t, tag) ==
    LET haveRules == \E i \in DOMAIN t.rules : t.rules[i].out = tag
        idx       == FindIndex(t, {tag})
    IN IF ~ haveRules /\ idx > 1 THEN DeleteOutbound(t, idx)
       ELSE IF haveRules /\ idx = 0
       THEN AddOutbound(t, [tag |-> tag, dialer |-> None, key |-> 0])
       ELSE t

\* "direct" keeps its outbound in step, "blocked" does not.
SetBasicDomains(t, tag, some) ==
    IF tag = Direct THEN syncOutbound(ruleSetter(t, tag, some), tag)
    ELSE ruleSetter(t, tag, some)

-----------------------------------------------------------------------------
(* Balancers and the observatories they need. *)

Using(t, strategies) ==
    {t.balancers[i] : i \in {j \in DOMAIN t.balancers : t.balancers[j].strategy \in strategies}}
collectSelectors(lbs) == UNION {b.selector : b \in lbs}

\* Mutant: an observatory is never taken away.
SyncKeepsObservatory(t) ==
    LET leastPings == Using(t, {"leastPing"})
        users      == Using(t, {"leastLoad", "random", "roundRobin"})
    IN [t EXCEPT
        !.observatory = IF leastPings # {} THEN collectSelectors(leastPings) ELSE t.observatory,
        !.burstObservatory = IF users # {} THEN collectSelectors(users) ELSE None]

syncObservatories(t) ==
    LET leastPings == Using(t, {"leastPing"})
        required   == Using(t, {"leastLoad"})
        optional   == Using(t, {"random", "roundRobin"})
    IN [t EXCEPT
        !.observatory = IF leastPings # {} THEN collectSelectors(leastPings) ELSE None,
        !.burstObservatory =
            IF required # {} \/ (optional # {} /\ t.burstObservatory # None)
            THEN collectSelectors(required \cup optional)
            ELSE IF required = {} /\ optional = {} THEN None ELSE t.burstObservatory]

\* What the comment above syncObservatories promises of the sections.
Aligned(t) ==
    LET leastPings == Using(t, {"leastPing"})
        required   == Using(t, {"leastLoad"})
        users      == Using(t, {"leastLoad", "random", "roundRobin"})
    IN /\ t.observatory = IF leastPings = {} THEN None ELSE collectSelectors(leastPings)
       /\ (users = {} => t.burstObservatory = None)
       /\ (required # {} => t.burstObservatory # None)
       /\ (t.burstObservatory # None => t.burstObservatory = collectSelectors(users))

AddBalancer(t, b) == syncObservatories([t EXCEPT !.balancers = Append(@, b)])

ReplaceBalancer(t, i, b) ==
    LET oldTag == IF i \in DOMAIN t.balancers THEN t.balancers[i].tag ELSE None
        put    == [t EXCEPT !.balancers = Put(t.balancers, i, b, b)]
    IN syncObservatories(
        IF oldTag \in {None, b.tag} THEN put
        ELSE [put EXCEPT !.rules = [j \in DOMAIN t.rules |->
                [t.rules[j] EXCEPT !.bal = Renamed(t.rules[j].bal, oldTag, b.tag)]]])

DeleteBalancer(t, i) ==
    syncObservatories(IF i \in DOMAIN t.balancers
                      THEN [t EXCEPT !.balancers = RemoveAt(t.balancers, i)] ELSE t)

-----------------------------------------------------------------------------
(* What the panel does to a template it is to store. *)

ApiRule == [out |-> Api, bal |-> None, domains |-> FALSE, enabled |-> TRUE]

\* EnsureStatsRouting: the api rule first, and on.
EnsureStatsRouting(t) ==
    LET apiIdx == SelectInSeq(t.rules, LAMBDA r : r.out = Api)
        others == IF apiIdx = 0 THEN t.rules ELSE RemoveAt(t.rules, apiIdx)
        rule   == IF apiIdx = 0 THEN ApiRule ELSE [t.rules[apiIdx] EXCEPT !.enabled = TRUE]
    IN IF apiIdx = 1 THEN t ELSE [t EXCEPT !.rules = Cons(rule, others)]

\* UpdateWarpXraySetting: new credentials for the first outbound of the WARP account.
UpdateWarp(t, key) ==
    LET idx == FindIndex(t, {Warp})
    IN IF idx = 0 THEN t
       ELSE EnsureStatsRouting([t EXCEPT !.outbounds = Put(t.outbounds, idx,
                [t.outbounds[idx] EXCEPT !.key = key], Hole)])

=============================================================================
