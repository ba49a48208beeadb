--------------------------- MODULE MCTemplateEditor ---------------------------
(***************************************************************************)
(* TemplateEditor on a template with one balancer, an outbound it watches  *)
(* and falls back to, and the WARP outbound.                               *)
(***************************************************************************)
EXTENDS SettingsReachCore

CONSTANTS b, direct, blocked, warp, api, lb, lb2

MCOutbound(tag, dialer) == [tag |-> tag, dialer |-> dialer, key |-> 0]
MCRule(out, bal) == [out |-> out, bal |-> bal, domains |-> FALSE, enabled |-> TRUE]

MCInitial ==
    [outbounds |-> <<MCOutbound(direct, warp), MCOutbound(warp, None)>>,
     rules |-> <<MCRule(api, None), MCRule(warp, None), MCRule(None, lb)>>,
     balancers |-> <<[tag |-> lb, selector |-> {warp}, fallback |-> warp,
                      strategy |-> "leastPing"]>>,
     observatory |-> {warp}, burstObservatory |-> None]

MCDefault ==
    [outbounds |-> <<MCOutbound(direct, None), MCOutbound(blocked, None)>>,
     rules |-> <<MCRule(api, None), MCRule(blocked, None)>>,
     balancers |-> <<>>, observatory |-> None, burstObservatory |-> None]

\* A selector with an entry that names an outbound and, at first, one that names none.
MCSelectors == {{direct, blocked}}

MCInbound(tag, port, body) == [tag |-> tag, port |-> port, body |-> body]
MCDb(inbounds, subscribed, egress) ==
    [inbounds |-> <<MCInbound(api, 9, "api")>> \o inbounds,
     before |-> <<>>, after |-> subscribed,
     egress |-> egress, static |-> "", rest |-> "", api |-> api]

\* One inbound; another client in it, and a bridge; a second one, so that the ports change
\* place and the bridge moves; the outbounds of a subscription in one order and another.
MCOne     == MCDb(<<MCInbound("in1", 1, "a")>>, <<>>, None)
MCBridge  == MCDb(<<MCInbound("in1", 1, "b")>>, <<>>, lb)
MCSwapped == MCDb(<<MCInbound("in1", 2, "b"), MCInbound("in2", 1, "a")>>, <<>>, direct)
MCSubs(list) == MCDb(<<>>, [i \in DOMAIN list |-> MCOutbound(list[i], None)], direct)
MCChanges ==
    {<<MCOne, MCBridge>>, <<MCBridge, MCSwapped>>,
     <<MCSubs(<<blocked, b>>), MCSubs(<<b, blocked>>)>>}

=============================================================================
