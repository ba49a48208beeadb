-------------------------- MODULE SettingsReachCore --------------------------
(***************************************************************************)
(* The settings page (TemplateEditor) and the core that is to follow what  *)
(* the page saves without a restart (HotDiff).  The rest of the database   *)
(* may have changed as well since the core was given its configuration.    *)
(***************************************************************************)
EXTENDS TemplateEditor, HotDiff

CONSTANT Changes    \* of the rest of the database: pairs of what was and what is there

\* checkPortConflict lets no two inbounds listen on one port, that of the API included.
Surrounds(db) ==
    /\ db.inbounds \in Seq(Inbound)
    /\ db.before \in Seq(Outbound) /\ db.after \in Seq(Outbound)
    /\ \A i, j \in DOMAIN db.inbounds : db.inbounds[i].port = db.inbounds[j].port => i = j

ASSUME ChangesAssumption == \A c \in Changes : Surrounds(c[1]) /\ Surrounds(c[2])

\* What the API may have made of a core, past the snapshot, before the operations of d:
\* inbounds they touch are gone, or are there already.
Drifts(core, d) ==
    {[core EXCEPT !.inbounds = (@ \ gone) \cup made] :
        gone \in SUBSET {h \in core.inbounds :
                            h.tag \in d.RemovedInboundTags \cup TagsIn(d.AddedInbounds)},
        made \in SUBSET Entries(d.AddedInbounds)}

Before(c) == GetXrayConfig(server, c[1])
After(c)  == GetXrayConfig(EnsureStatsRouting(text.of), c[2])
Diff(c)   == ComputeHotDiff(Before(c), After(c))

\* tryHotApply "returns true when the running instance now matches newCfg": what a save
\* of the page and the rest of the database lead to through the API is the core that a
\* restart would have given, its default outbound included, also when inbounds the
\* operations touch had been added or deleted through the API before.
HotReloadMatches ==
    [][Save => \A c \in Changes :
        LET d == Diff(c)
        IN d.ok => \A core \in Drifts(CoreStart(Before(c)), d) :
                      LET done == tryHotApply(core, d)
                      IN done.ok => done.core = CoreStart(After(c))]_vars

\* "Removals first so changed handlers and port swaps never collide with the additions
\* that follow": from a core that runs what it was given no addition is refused, the
\* bridge included, which takes a port the inbounds leave free.
HotReloadSucceeds ==
    [][Save => \A c \in Changes :
        Diff(c).ok => tryHotApply(CoreStart(Before(c)), Diff(c)).ok]_vars

=============================================================================
