---------------------------- MODULE HotDiffProofs ----------------------------
(***************************************************************************)
(* That the operations of a hot diff make the core a restart would have    *)
(* given, for configurations of any size, and that none is refused.        *)
(***************************************************************************)
EXTENDS SettingsReachCore, TemplateEditorProofs, FiniteSetTheorems

-----------------------------------------------------------------------------
(* The difference of two lists. *)

LEMMA EntriesIsRange == \A list : Entries(list) = Range(list)
  BY DEF Entries, Range

\* A tag names one entry of an addressable list.
LEMMA OneEntryPerTag ==
    ASSUME NEW list, Addressable(list), NEW x \in Entries(list), NEW y \in Entries(list),
           x.tag = y.tag
    PROVE  x = y
  BY DEF Addressable, Entries

LEMMA ByTagFacts ==
    ASSUME NEW list, Addressable(list), NEW tag \in TagsIn(list)
    PROVE  ByTag(list, tag) \in Entries(list) /\ ByTag(list, tag).tag = tag
  BY DEF ByTag, TagsIn, Entries

LEMMA KeptFacts ==
    ASSUME NEW p, NEW q, Addressable(q)
    PROVE  Kept(p, q) = {i \in DOMAIN p : p[i] \in Entries(q)}
<1>1. ASSUME NEW i \in DOMAIN p, p[i] \in Entries(q)
      PROVE  p[i].tag \in TagsIn(q) /\ ByTag(q, p[i].tag) = p[i]
  <2>1. p[i].tag \in TagsIn(q)
    BY <1>1 DEF TagsIn, Entries
  <2> QED
    BY <1>1, <2>1, ByTagFacts, OneEntryPerTag
<1>2. ASSUME NEW i \in DOMAIN p, p[i].tag \in TagsIn(q), ByTag(q, p[i].tag) = p[i]
      PROVE  p[i] \in Entries(q)
  BY <1>2, ByTagFacts
<1> QED
  BY <1>1, <1>2 DEF Kept

\* What is removed: the tags of the entries that q does not have.
LEMMA RemovedFacts ==
    ASSUME NEW p, NEW q, Addressable(q)
    PROVE  RemovedTags(p, q) = {x.tag : x \in Entries(p) \ Entries(q)}
  BY KeptFacts DEF RemovedTags, Entries

\* What is added: the entries of q that p does not have.
LEMMA AddedFacts ==
    ASSUME NEW S, NEW p \in Seq(S), NEW q \in Seq(S), Addressable(p), Addressable(q)
    PROVE  /\ AddedEntries(p, q) \in Seq(S)
           /\ Entries(AddedEntries(p, q)) = Entries(q) \ Entries(p)
<1> DEFINE successors == [i \in DOMAIN p |->
                            IF p[i].tag \in TagsIn(q) THEN ByTag(q, p[i].tag) ELSE p[i]]
           gone    == Kept(p, q) \cup {i \in DOMAIN p : p[i].tag \notin TagsIn(q)}
           changed == Without(successors, gone)
           new     == Without(q, {i \in DOMAIN q : q[i].tag \in TagsIn(p)})
<1>1. DOMAIN p = 1 .. Len(p) /\ Len(p) \in Nat /\ Entries(q) \subseteq S /\ Entries(p) \subseteq S
  BY DEF Entries
<1>2. successors \in Seq(S) /\ DOMAIN successors = DOMAIN p
  <2>1. \A i \in 1 .. Len(p) : successors[i] \in S
    BY <1>1, ByTagFacts
  <2> QED
    BY <1>1, <2>1
<1>3. changed \in Seq(S) /\ Range(changed) = {successors[i] : i \in DOMAIN p \ gone}
  <2> HIDE DEF successors, gone
  <2> QED
    BY <1>2, WithoutFacts
<1>4. new \in Seq(S) /\ Range(new) = {q[i] : i \in {j \in DOMAIN q : q[j].tag \notin TagsIn(p)}}
  <2>1. DOMAIN q \ {i \in DOMAIN q : q[i].tag \in TagsIn(p)} = {j \in DOMAIN q : q[j].tag \notin TagsIn(p)}
    OBVIOUS
  <2> QED
    BY <2>1, WithoutFacts
<1>5. AddedEntries(p, q) = changed \o new
  BY DEF AddedEntries
<1>6. changed \o new \in Seq(S) /\ Range(changed \o new) = Range(changed) \cup Range(new)
  <2> HIDE DEF changed, new
  <2>1. /\ changed \o new \in Seq(S) /\ Len(changed \o new) = Len(changed) + Len(new)
        /\ \A j \in 1 .. Len(changed) + Len(new) :
              (changed \o new)[j] = IF j <= Len(changed) THEN changed[j] ELSE new[j - Len(changed)]
    BY <1>3, <1>4, ConcatFacts
  <2>2. \A k \in 1 .. Len(new) : (changed \o new)[Len(changed) + k] = new[k]
    BY <1>3, <1>4, <2>1
  <2>3. Range(changed) \cup Range(new) \subseteq Range(changed \o new)
    <3>1. \A j \in 1 .. Len(changed) : j \in DOMAIN (changed \o new) /\ (changed \o new)[j] = changed[j]
      BY <1>3, <1>4, <2>1
    <3>2. \A k \in 1 .. Len(new) : Len(changed) + k \in DOMAIN (changed \o new)
      BY <1>3, <1>4, <2>1
    <3>3. DOMAIN changed = 1 .. Len(changed) /\ DOMAIN new = 1 .. Len(new)
      BY <1>3, <1>4
    <3>4. \A j \in DOMAIN changed : changed[j] \in Range(changed \o new)
      BY <3>1, <3>3 DEF Range
    <3>5. \A k \in DOMAIN new : new[k] \in Range(changed \o new)
      BY <2>2, <3>2, <3>3 DEF Range
    <3> QED
      BY <3>4, <3>5 DEF Range
  <2>4. Range(changed \o new) \subseteq Range(changed) \cup Range(new)
    <3>1. ASSUME NEW j \in DOMAIN (changed \o new)
          PROVE  \/ j \in DOMAIN changed /\ (changed \o new)[j] = changed[j]
                 \/ /\ j - Len(changed) \in DOMAIN new
                    /\ (changed \o new)[j] = new[j - Len(changed)]
      BY <1>3, <1>4, <2>1
    <3> QED
      BY <3>1 DEF Range
  <2> QED
    BY <2>1, <2>3, <2>4
<1>7. Range(changed) = {x \in Entries(q) \ Entries(p) : x.tag \in TagsIn(p)}
  <2>1. ASSUME NEW i \in DOMAIN p \ gone
        PROVE  successors[i] \in {x \in Entries(q) \ Entries(p) : x.tag \in TagsIn(p)}
    <3>1. p[i].tag \in TagsIn(q) /\ p[i] \notin Entries(q) /\ p[i].tag \in TagsIn(p)
      BY <2>1, KeptFacts DEF TagsIn
    <3>2. successors[i] \in Entries(q) /\ successors[i].tag = p[i].tag
      BY <2>1, <3>1, ByTagFacts
    <3>3. successors[i] \notin Entries(p)
      BY <2>1, <3>1, <3>2, OneEntryPerTag DEF Entries
    <3> QED
      BY <3>1, <3>2, <3>3
  <2>2. ASSUME NEW x \in Entries(q) \ Entries(p), x.tag \in TagsIn(p)
        PROVE  \E i \in DOMAIN p \ gone : x = successors[i]
    <3>1. PICK i \in DOMAIN p : p[i].tag = x.tag
      BY <2>2 DEF TagsIn
    <3>2. x.tag \in TagsIn(q) /\ p[i] \in Entries(p)
      BY <2>2, <3>1 DEF TagsIn, Entries
    <3>3. p[i] \notin Entries(q)
      BY <2>2, <3>1, <3>2, OneEntryPerTag
    <3>4. i \notin gone
      BY <3>1, <3>2, <3>3, KeptFacts
    <3>5. successors[i] = x
      BY <2>2, <3>1, <3>2, ByTagFacts, OneEntryPerTag
    <3> QED
      BY <3>1, <3>4, <3>5
  <2> HIDE DEF successors, gone, changed
  <2> QED
    BY <1>3, <2>1, <2>2
<1>8. Range(new) = {x \in Entries(q) \ Entries(p) : x.tag \notin TagsIn(p)}
  <2>1. \A x \in Entries(p) : x.tag \in TagsIn(p)
    BY DEF Entries, TagsIn
  <2> HIDE DEF new
  <2> QED
    BY <1>4, <2>1 DEF Entries
<1> HIDE DEF changed, new
<1> QED
  BY <1>5, <1>6, <1>7, <1>8, EntriesIsRange

\* An entry that both lists have is neither removed nor added.
LEMMA SharedUntouched ==
    ASSUME NEW S, NEW p \in Seq(S), NEW q \in Seq(S), Addressable(p), Addressable(q),
           NEW x \in Entries(p) \cap Entries(q)
    PROVE  x.tag \notin RemovedTags(p, q) \cup TagsIn(AddedEntries(p, q))
<1>1. x.tag \notin RemovedTags(p, q)
  BY RemovedFacts, OneEntryPerTag
<1>2. TagsIn(AddedEntries(p, q)) = {y.tag : y \in Entries(q) \ Entries(p)}
  <2>1. TagsIn(AddedEntries(p, q)) = {y.tag : y \in Entries(AddedEntries(p, q))}
    BY DEF TagsIn, Entries
  <2> QED
    BY <2>1, AddedFacts
<1>3. x.tag \notin TagsIn(AddedEntries(p, q))
  BY <1>2, OneEntryPerTag
<1> QED
  BY <1>1, <1>3

-----------------------------------------------------------------------------
(* The operations on handlers. *)

\* Handlers that are those of p but for the tags the operations touch become those of q.
LEMMA HandlersReach ==
    ASSUME NEW S, NEW p \in Seq(S), NEW q \in Seq(S), Addressable(p), Addressable(q), NEW H,
           LET touched == RemovedTags(p, q) \cup TagsIn(AddedEntries(p, q))
           IN DelHandlers(H, touched) = DelHandlers(Entries(p), touched)
    PROVE  AddHandlers(DelHandlers(H, RemovedTags(p, q)), AddedEntries(p, q)) = Entries(q)
<1> DEFINE R == RemovedTags(p, q)
           A == AddedEntries(p, q)
<1>1. AddHandlers(DelHandlers(H, R), A) = DelHandlers(H, R \cup TagsIn(A)) \cup Entries(A)
  BY DEF AddHandlers, DelHandlers
<1>2. DelHandlers(H, R \cup TagsIn(A)) = DelHandlers(Entries(p), R \cup TagsIn(A))
  OBVIOUS
<1>3. DelHandlers(Entries(p), R \cup TagsIn(A)) = Entries(p) \cap Entries(q)
  <2>1. \A x \in Entries(p) \cap Entries(q) : x.tag \notin R \cup TagsIn(A)
    BY SharedUntouched
  <2>2. \A x \in Entries(p) \ Entries(q) : x.tag \in R
    BY RemovedFacts
  <2> HIDE DEF R, A
  <2> QED
    BY <2>1, <2>2 DEF DelHandlers
<1>4. Entries(A) = Entries(q) \ Entries(p)
  BY AddedFacts
<1> HIDE DEF R, A
<1>5. AddHandlers(DelHandlers(H, R), A) = Entries(q)
  BY <1>1, <1>2, <1>3, <1>4
<1> QED
  BY <1>5 DEF R, A

\* The default outbound stays.
LEMMA DefaultStays ==
    ASSUME NEW S, NEW p \in Seq(S), NEW q \in Seq(S), Addressable(p), Addressable(q),
           p = << >> <=> q = << >>, p # << >> => p[1] = q[1]
    PROVE  DefaultAfter(IF p = << >> THEN {} ELSE {p[1]}, RemovedTags(p, q), AddedEntries(p, q))
            = IF q = << >> THEN {} ELSE {q[1]}
<1> DEFINE R == RemovedTags(p, q)
           A == AddedEntries(p, q)
<1>1. CASE p = << >>
  <2>1. A \in Seq(S) /\ Entries(A) = {}
    <3>1. Entries(q) = {}
      BY <1>1 DEF Entries
    <3> QED
      BY <3>1, AddedFacts
  <2> HIDE DEF R, A
  <2>2. A = << >>
    <3>1. \A i \in DOMAIN A : FALSE
      BY <2>1 DEF Entries
    <3>2. Len(A) \in Nat /\ (Len(A) > 0 => 1 \in DOMAIN A)
      BY <2>1
    <3>3. Len(A) = 0
      BY <3>1, <3>2
    <3> QED
      BY <2>1, <3>3
  <2>3. DefaultAfter({}, R, A) = {}
    BY <2>2 DEF DefaultAfter, DelHandlers
  <2> QED
    BY <1>1, <2>3 DEF R, A
<1>2. CASE p # << >>
  <2>1. 1 \in DOMAIN p /\ 1 \in DOMAIN q /\ p[1] = q[1]
    BY <1>2
  <2>2. p[1] \in Entries(p) \cap Entries(q)
    BY <2>1 DEF Entries
  <2>3. p[1].tag \notin R \cup TagsIn(A)
    BY <2>2, SharedUntouched
  <2> HIDE DEF R, A
  <2>4. DefaultAfter({p[1]}, R, A) = {p[1]}
    <3>1. DelHandlers({p[1]}, R) = {p[1]}
      BY <2>3 DEF DelHandlers
    <3> QED
      BY <2>3, <3>1 DEF DefaultAfter
  <2> QED
    BY <1>2, <2>1, <2>4 DEF R, A
<1> QED
  BY <1>1, <1>2

\* With a port each for the inbounds of q, no addition finds its port taken.
LEMMA NoneRefused ==
    ASSUME NEW S, NEW p \in Seq(S), NEW q \in Seq(S), Addressable(p), Addressable(q),
           \A i, j \in DOMAIN q : q[i].port = q[j].port => i = j,
           NEW i \in DOMAIN AddedEntries(p, q),
           NEW h \in BeforeAdding(DelHandlers(Entries(p), RemovedTags(p, q)), AddedEntries(p, q), i)
    PROVE  h.port # AddedEntries(p, q)[i].port
<1> DEFINE R == RemovedTags(p, q)
           A == AddedEntries(p, q)
<1>1. A \in Seq(S) /\ Entries(A) \subseteq Entries(q)
  BY AddedFacts
<1>2. DelHandlers(Entries(p), R) \subseteq Entries(q)
  BY RemovedFacts DEF DelHandlers
<1>3. i \in DOMAIN A /\ h \in BeforeAdding(DelHandlers(Entries(p), R), A, i)
  OBVIOUS
<1> HIDE DEF R, A
<1>4. i \in 1 .. Len(A) /\ A[i] \in Entries(q)
  BY <1>1, <1>3 DEF Entries
<1>5. Entries(SubSeq(A, 1, i - 1)) \subseteq Entries(A)
  BY <1>1, <1>4 DEF Entries
<1>6. h \in Entries(q) /\ h.tag # A[i].tag
  BY <1>1, <1>2, <1>3, <1>5 DEF BeforeAdding, AddHandlers, DelHandlers
<1>7. h.port # A[i].port
  BY <1>4, <1>6 DEF Entries
<1> QED
  BY <1>7 DEF A

-----------------------------------------------------------------------------
(* Configurations. *)

HasConfigShape(c) ==
    /\ c.inbounds \in Seq(Inbound) /\ c.outbounds \in Seq(Outbound)
    /\ \E rest, balancers, rules :
          c.routing = [rest |-> rest, balancers |-> balancers, rules |-> rules]

LEMMA HotApplicableFacts ==
    ASSUME NEW p, NEW q, ComputeHotDiff(p, q).ok
    PROVE  /\ p.static = q.static /\ p.api = q.api
           /\ Addressable(p.inbounds) /\ Addressable(q.inbounds)
           /\ Addressable(p.outbounds) /\ Addressable(q.outbounds)
           /\ p.outbounds = << >> <=> q.outbounds = << >>
           /\ p.outbounds # << >> => p.outbounds[1] = q.outbounds[1]
           /\ \/ p.routing = q.routing
              \/ q.routing # None /\ p.routing.rest = q.routing.rest
  BY DEF ComputeHotDiff, diffInbounds, diffOutbounds, diffRouting

\* A core that drifted only where the operations touch it has the other inbounds of p.
LEMMA DriftFacts ==
    ASSUME NEW p, NEW d, NEW core \in Drifts(CoreStart(p), d)
    PROVE  \E H :
             /\ core = [inbounds |-> H, outbounds |-> Entries(p.outbounds),
                        default |-> IF p.outbounds = << >> THEN {} ELSE {p.outbounds[1]},
                        routing |-> p.routing, static |-> p.static, api |-> p.api]
             /\ LET touched == d.RemovedInboundTags \cup TagsIn(d.AddedInbounds)
                IN DelHandlers(H, touched) = DelHandlers(Entries(p.inbounds), touched)
<1> DEFINE touched == d.RemovedInboundTags \cup TagsIn(d.AddedInbounds)
<1>1. PICK gone \in SUBSET {h \in CoreStart(p).inbounds : h.tag \in touched},
           made \in SUBSET Entries(d.AddedInbounds) :
        core = [CoreStart(p) EXCEPT !.inbounds = (@ \ gone) \cup made]
  BY DEF Drifts
<1> DEFINE H == (Entries(p.inbounds) \ gone) \cup made
<1>2. core = [inbounds |-> H, outbounds |-> Entries(p.outbounds),
              default |-> IF p.outbounds = << >> THEN {} ELSE {p.outbounds[1]},
              routing |-> p.routing, static |-> p.static, api |-> p.api]
  BY <1>1 DEF CoreStart
<1>3. \A h \in gone \cup made : h.tag \in touched
  BY DEF Entries, TagsIn
<1>4. gone \subseteq Entries(p.inbounds)
  BY DEF CoreStart
<1>5. DelHandlers(H, touched) = DelHandlers(Entries(p.inbounds), touched)
  BY <1>3, <1>4 DEF DelHandlers
<1> QED
  BY <1>2, <1>5

\* The operations between two configurations make the core of the second.
LEMMA ReloadReaches ==
    ASSUME NEW p, NEW q, HasConfigShape(p), HasConfigShape(q), ComputeHotDiff(p, q).ok,
           NEW core \in Drifts(CoreStart(p), ComputeHotDiff(p, q))
    PROVE  tryHotApply(core, ComputeHotDiff(p, q)).core = CoreStart(q)
<1> DEFINE d == ComputeHotDiff(p, q)
           default == IF p.outbounds = << >> THEN {} ELSE {p.outbounds[1]}
<1>1. /\ p.inbounds \in Seq(Inbound) /\ q.inbounds \in Seq(Inbound)
      /\ p.outbounds \in Seq(Outbound) /\ q.outbounds \in Seq(Outbound)
  BY DEF HasConfigShape
<1>2. /\ d.RemovedInboundTags = RemovedTags(p.inbounds, q.inbounds)
      /\ d.AddedInbounds = AddedEntries(p.inbounds, q.inbounds)
      /\ d.RemovedOutboundTags = RemovedTags(p.outbounds, q.outbounds)
      /\ d.AddedOutbounds = AddedEntries(p.outbounds, q.outbounds)
      /\ d.RoutingConfig = IF p.routing = q.routing THEN None ELSE q.routing
  BY DEF ComputeHotDiff
<1>3. /\ Addressable(p.inbounds) /\ Addressable(q.inbounds)
      /\ Addressable(p.outbounds) /\ Addressable(q.outbounds)
      /\ p.outbounds = << >> <=> q.outbounds = << >>
      /\ p.outbounds # << >> => p.outbounds[1] = q.outbounds[1]
  BY HotApplicableFacts
<1>4. PICK H :
        /\ core = [inbounds |-> H, outbounds |-> Entries(p.outbounds), default |-> default,
                   routing |-> p.routing, static |-> p.static, api |-> p.api]
        /\ LET touched == d.RemovedInboundTags \cup TagsIn(d.AddedInbounds)
           IN DelHandlers(H, touched) = DelHandlers(Entries(p.inbounds), touched)
  BY DriftFacts
<1> HIDE DEF d, default
<1>5. AddHandlers(DelHandlers(H, d.RemovedInboundTags), d.AddedInbounds) = Entries(q.inbounds)
  <2> DEFINE touched == RemovedTags(p.inbounds, q.inbounds)
                        \cup TagsIn(AddedEntries(p.inbounds, q.inbounds))
  <2>1. DelHandlers(H, touched) = DelHandlers(Entries(p.inbounds), touched)
    BY <1>2, <1>4
  <2>2. AddHandlers(DelHandlers(H, RemovedTags(p.inbounds, q.inbounds)),
                    AddedEntries(p.inbounds, q.inbounds)) = Entries(q.inbounds)
    BY <1>1, <1>3, <2>1, HandlersReach
  <2> QED
    BY <1>2, <2>2
<1>6. AddHandlers(DelHandlers(Entries(p.outbounds), d.RemovedOutboundTags), d.AddedOutbounds)
        = Entries(q.outbounds)
  <2> DEFINE a == p.outbounds
             b == q.outbounds
  <2>1. a \in Seq(Outbound) /\ b \in Seq(Outbound) /\ Addressable(a) /\ Addressable(b)
    BY <1>1, <1>3
  <2> HIDE DEF a, b
  <2>2. AddHandlers(DelHandlers(Entries(a), RemovedTags(a, b)), AddedEntries(a, b)) = Entries(b)
    BY <2>1, HandlersReach
  <2> QED
    BY <1>2, <2>2 DEF a, b
<1>7. DefaultAfter(default, d.RemovedOutboundTags, d.AddedOutbounds)
        = IF q.outbounds = << >> THEN {} ELSE {q.outbounds[1]}
  <2> DEFINE a == p.outbounds
             b == q.outbounds
  <2>1. /\ a \in Seq(Outbound) /\ b \in Seq(Outbound) /\ Addressable(a) /\ Addressable(b)
        /\ a = << >> <=> b = << >>
        /\ a # << >> => a[1] = b[1]
    BY <1>1, <1>3
  <2> HIDE DEF a, b
  <2>2. DefaultAfter(IF a = << >> THEN {} ELSE {a[1]}, RemovedTags(a, b), AddedEntries(a, b))
          = IF b = << >> THEN {} ELSE {b[1]}
    BY <2>1, DefaultStays
  <2> QED
    BY <1>2, <2>2 DEF default, a, b
<1>8. (IF d.RoutingConfig = None THEN p.routing
       ELSE [d.RoutingConfig EXCEPT !.rest = p.routing.rest]) = q.routing
  <2>1. CASE p.routing = q.routing
    BY <1>2, <2>1
  <2>2. CASE p.routing # q.routing
    <3>1. d.RoutingConfig = q.routing /\ q.routing # None /\ p.routing.rest = q.routing.rest
      BY <1>2, <2>2, HotApplicableFacts
    <3>2. [q.routing EXCEPT !.rest = q.routing.rest] = q.routing
      BY DEF HasConfigShape
    <3> QED
      BY <3>1, <3>2
  <2> QED
    BY <2>1, <2>2
<1>9. tryHotApply(core, d).core =
        [inbounds |-> Entries(q.inbounds), outbounds |-> Entries(q.outbounds),
         default |-> IF q.outbounds = << >> THEN {} ELSE {q.outbounds[1]},
         routing |-> q.routing, static |-> p.static, api |-> p.api]
  BY <1>4, <1>5, <1>6, <1>7, <1>8 DEF tryHotApply, InboundsLeft
<1>10. p.static = q.static /\ p.api = q.api
  BY HotApplicableFacts
<1> QED
  BY <1>9, <1>10 DEF CoreStart, d

\* From the core of the first none of them is refused, if the second has a port for each.
LEMMA ReloadSucceeds ==
    ASSUME NEW p, NEW q, HasConfigShape(p), HasConfigShape(q), ComputeHotDiff(p, q).ok,
           \A i, j \in DOMAIN q.inbounds : q.inbounds[i].port = q.inbounds[j].port => i = j
    PROVE  tryHotApply(CoreStart(p), ComputeHotDiff(p, q)).ok
<1> DEFINE d == ComputeHotDiff(p, q)
<1>1. p.inbounds \in Seq(Inbound) /\ q.inbounds \in Seq(Inbound)
  BY DEF HasConfigShape
<1>2. /\ d.RemovedInboundTags = RemovedTags(p.inbounds, q.inbounds)
      /\ d.AddedInbounds = AddedEntries(p.inbounds, q.inbounds)
  BY DEF ComputeHotDiff
<1> HIDE DEF d
<1>3. \A i \in DOMAIN d.AddedInbounds :
      \A h \in BeforeAdding(DelHandlers(Entries(p.inbounds), d.RemovedInboundTags), d.AddedInbounds, i) :
        h.port # d.AddedInbounds[i].port
  BY <1>1, <1>2, HotApplicableFacts, NoneRefused
<1>4. InboundsLeft(CoreStart(p), d) = DelHandlers(Entries(p.inbounds), d.RemovedInboundTags)
  BY DEF InboundsLeft, CoreStart
<1> QED
  BY <1>3, <1>4 DEF tryHotApply, d

-----------------------------------------------------------------------------
(* What the panel generates. *)

\* Among one more port than there are inbounds, one is free; FreePort is the first.
LEMMA FreePortFacts ==
    ASSUME NEW list \in Seq(Inbound)
    PROVE  FreePort(list) \in Nat /\ FreePort(list) \notin Ports(list)
<1> DEFINE base  == PanelEgressBasePort
           range == base .. base + Len(list)
           Free0 == {port \in range : port \notin Ports(list)}
<1>1. base \in Nat /\ Len(list) \in Nat /\ DOMAIN list = 1 .. Len(list) /\ range \subseteq Nat
  BY EgressAssumption
<1>2. Free0 # {}
  <2> SUFFICES ASSUME Free0 = {} PROVE FALSE
    OBVIOUS
  <2> DEFINE at == [port \in range |-> CHOOSE i \in DOMAIN list : list[i].port = port]
  <2>1. \A port \in range : at[port] \in DOMAIN list /\ list[at[port]].port = port
    BY DEF Ports
  <2> HIDE DEF at
  <2>2. at \in [range -> DOMAIN list]
    <3>1. at = [port \in range |-> at[port]]
      BY DEF at
    <3> QED
      BY <2>1, <3>1
  <2>3. /\ IsFiniteSet(range) /\ Cardinality(range) = Len(list) + 1
        /\ IsFiniteSet(DOMAIN list) /\ Cardinality(DOMAIN list) = Len(list)
    <3>1. base \in Int /\ base + Len(list) \in Int /\ ~ base > base + Len(list)
          /\ (base + Len(list)) - base + 1 = Len(list) + 1
      BY <1>1
    <3>2. IsFiniteSet(range) /\ Cardinality(range) = Len(list) + 1
      BY <3>1, FS_Interval
    <3>3. IsFiniteSet(1 .. Len(list)) /\ Cardinality(1 .. Len(list)) = Len(list)
      <4> DEFINE n == Len(list)
      <4>1. n \in Nat /\ 1 \in Int /\ n \in Int
        BY <1>1
      <4> HIDE DEF n
      <4>2. IsFiniteSet(1 .. n) /\ Cardinality(1 .. n) = IF 1 > n THEN 0 ELSE n - 1 + 1
        BY <4>1, FS_Interval
      <4>3. IsFiniteSet(1 .. n) /\ Cardinality(1 .. n) = n
        BY <4>1, <4>2
      <4> QED
        BY <4>3 DEF n
    <3> QED
      BY <1>1, <3>2, <3>3
  <2>4. Cardinality(DOMAIN list) < Cardinality(range)
    BY <1>1, <2>3
  <2> HIDE DEF range
  <2>5. \E x, y \in range : x # y /\ at[x] = at[y]
    BY <2>2, <2>3, <2>4, FS_PigeonHole
  <2> QED
    BY <2>1, <2>5
<1>3. PICK port \in Free0 : \A m \in Free0 : port <= m
  <2>1. Free0 \subseteq Nat
    BY <1>1
  <2> HIDE DEF Free0
  <2> QED
    BY <1>2, <2>1, LeastOf
<1>4. base .. port - 1 \subseteq Ports(list)
  <2> SUFFICES ASSUME NEW m \in base .. port - 1, m \notin Ports(list) PROVE FALSE
    OBVIOUS
  <2>1. m \in Free0
    BY <1>1
  <2> QED
    BY <1>1, <1>3, <2>1
<1>5. \E free \in range : free \notin Ports(list) /\ base .. free - 1 \subseteq Ports(list)
  BY <1>4
<1>6. FreePort(list) \in range /\ FreePort(list) \notin Ports(list)
  BY <1>5 DEF FreePort
<1> QED
  BY <1>1, <1>6

\* Whatever the template and the rest of the database, the configuration has its shape and
\* a port for each of its inbounds, the bridge included.
LEMMA GeneratedFacts ==
    ASSUME NEW t \in Template, NEW db, Surrounds(db)
    PROVE  /\ HasConfigShape(GetXrayConfig(t, db))
           /\ LET list == GetXrayConfig(t, db).inbounds
              IN \A i, j \in DOMAIN list : list[i].port = list[j].port => i = j
<1> DEFINE routing == [rest |-> db.rest, balancers |-> t.balancers,
                       rules |-> stripDisabledRules(t.rules)]
           out    == db.before \o t.outbounds \o db.after
           static == <<db.static, t.observatory, t.burstObservatory>>
           plain  == [static |-> static, api |-> db.api, inbounds |-> db.inbounds,
                      outbounds |-> out, routing |-> routing]
           c      == GetXrayConfig(t, db)
           tunnel == Bridge(FreePort(db.inbounds))
<1>1. /\ db.inbounds \in Seq(Inbound) /\ db.before \in Seq(Outbound) /\ db.after \in Seq(Outbound)
      /\ \A i, j \in DOMAIN db.inbounds : db.inbounds[i].port = db.inbounds[j].port => i = j
  BY DEF Surrounds
<1>2. out \in Seq(Outbound)
  <2>1. t.outbounds \in Seq(Outbound)
    BY DEF Template
  <2>2. db.before \o t.outbounds \in Seq(Outbound)
    BY <1>1, <2>1, ConcatFacts
  <2> QED
    BY <1>1, <2>2, ConcatFacts
<1>3. c = injectPanelEgress(plain, db.egress)
  BY DEF GetXrayConfig
<1> HIDE DEF routing, out, static, c
<1>4. CASE c = plain
  <2>1. HasConfigShape(plain)
    BY <1>1, <1>2 DEF HasConfigShape, routing
  <2> QED
    BY <1>1, <1>4, <2>1 DEF c
<1>5. ASSUME NEW rule, c = [plain EXCEPT !.inbounds = Append(@, tunnel),
                                         !.routing.rules = Cons(rule, @)]
      PROVE  /\ HasConfigShape(c)
             /\ \A i, j \in DOMAIN c.inbounds : c.inbounds[i].port = c.inbounds[j].port => i = j
  <2> DEFINE n    == Len(db.inbounds)
             port == FreePort(db.inbounds)
  <2>1. /\ c.inbounds = Append(db.inbounds, tunnel) /\ c.outbounds = out
        /\ c.routing = [routing EXCEPT !.rules = Cons(rule, @)]
    BY <1>5
  <2>2. port \in Nat /\ port \notin Ports(db.inbounds)
    BY <1>1, FreePortFacts
  <2>3. tunnel \in Inbound /\ tunnel.port = port
    BY <2>2 DEF Bridge, Inbound
  <2>4. HasConfigShape(c)
    <3>1. c.inbounds \in Seq(Inbound)
      BY <1>1, <2>1, <2>3
    <3>2. c.routing = [rest |-> db.rest, balancers |-> t.balancers,
                       rules |-> Cons(rule, stripDisabledRules(t.rules))]
      BY <2>1 DEF routing
    <3> QED
      BY <1>2, <2>1, <3>1, <3>2 DEF HasConfigShape
  <2> HIDE DEF tunnel, port
  <2>5. /\ n \in Nat /\ DOMAIN db.inbounds = 1 .. n /\ DOMAIN c.inbounds = 1 .. n + 1
        /\ c.inbounds[n + 1] = tunnel
        /\ \A i \in 1 .. n : c.inbounds[i] = db.inbounds[i]
    BY <1>1, <2>1, <2>3
  <2>6. \A i \in 1 .. n : db.inbounds[i].port # port
    BY <2>2, <2>5 DEF Ports
  <2>7. ASSUME NEW i \in 1 .. n + 1, NEW j \in 1 .. n + 1, c.inbounds[i].port = c.inbounds[j].port
        PROVE  i = j
    <3>1. CASE i \in 1 .. n /\ j \in 1 .. n
      BY <1>1, <2>5, <2>7, <3>1
    <3>2. CASE i = n + 1 /\ j \in 1 .. n
      BY <2>3, <2>5, <2>6, <2>7, <3>2
    <3>3. CASE j = n + 1 /\ i \in 1 .. n
      BY <2>3, <2>5, <2>6, <2>7, <3>3
    <3> QED
      BY <2>5, <3>1, <3>2, <3>3
  <2> QED
    BY <2>4, <2>5, <2>7
<1>6. c = plain \/ \E rule : c = [plain EXCEPT !.inbounds = Append(@, tunnel),
                                               !.routing.rules = Cons(rule, @)]
  BY <1>3 DEF injectPanelEgress
<1> QED
  BY <1>4, <1>5, <1>6 DEF c

-----------------------------------------------------------------------------
(* A save of the settings page. *)

\* What is there before and after it are configurations of the kind above.
LEMMA SavedConfigs ==
    ASSUME Typed, Save, NEW c \in Changes
    PROVE  /\ HasConfigShape(Before(c)) /\ HasConfigShape(After(c))
           /\ LET list == After(c).inbounds
              IN \A i, j \in DOMAIN list : list[i].port = list[j].port => i = j
<1>1. server \in Template
  BY DEF Typed, PanelTyped
<1>2. EnsureStatsRouting(text.of) \in Template
  <2>1. text \in Texts /\ text.json
    BY DEF Typed, PageTyped, Save
  <2>2. text.of \in Template
    <3>1. Unfinished.json = FALSE
      BY DEF Unfinished
    <3>2. text \in [json : {TRUE}, of : Template]
      BY <2>1, <3>1 DEF Texts
    <3> QED
      BY <3>2
  <2> QED
    BY <2>2, EnsureStatsRoutingTyped
<1>3. Surrounds(c[1]) /\ Surrounds(c[2])
  BY ChangesAssumption
<1> QED
  BY <1>1, <1>2, <1>3, GeneratedFacts DEF Before, After

\* What a save and the rest of the database lead to through the API is the core a restart
\* would have given, for templates, inbounds and changes of any size (ComputeHotDiff,
\* tryHotApply, addInboundReconciling).
THEOREM ReloadMatches == Spec => HotReloadMatches
<1> DEFINE Matches ==
        \A c \in Changes :
            LET d == Diff(c)
            IN d.ok => \A core \in Drifts(CoreStart(Before(c)), d) :
                          LET done == tryHotApply(core, d)
                          IN done.ok => done.core = CoreStart(After(c))
<1>1. ASSUME Typed, Save PROVE Matches
  <2> SUFFICES ASSUME NEW c \in Changes, Diff(c).ok,
                      NEW core \in Drifts(CoreStart(Before(c)), Diff(c))
               PROVE  tryHotApply(core, Diff(c)).core = CoreStart(After(c))
    OBVIOUS
  <2>1. HasConfigShape(Before(c)) /\ HasConfigShape(After(c))
    BY <1>1, SavedConfigs
  <2> QED
    BY <2>1, ReloadReaches DEF Diff
<1> HIDE DEF Matches
<1>2. Typed /\ [Next]_vars => [Save => Matches]_vars
  BY <1>1
<1>3. Spec => [][Save => Matches]_vars
  BY <1>2, TypedAlways, PTL DEF Spec
<1> QED
  BY <1>3 DEF HotReloadMatches, Matches

\* From a core that runs what it was given no addition is refused ("Removals first so
\* changed handlers and port swaps never collide with the additions that follow").
THEOREM ReloadNeverRefused == Spec => HotReloadSucceeds
<1> DEFINE Succeeds ==
        \A c \in Changes : Diff(c).ok => tryHotApply(CoreStart(Before(c)), Diff(c)).ok
<1>1. ASSUME Typed, Save PROVE Succeeds
  <2> SUFFICES ASSUME NEW c \in Changes, Diff(c).ok
               PROVE  tryHotApply(CoreStart(Before(c)), Diff(c)).ok
    OBVIOUS
  <2>1. /\ HasConfigShape(Before(c)) /\ HasConfigShape(After(c))
        /\ LET list == After(c).inbounds
           IN \A i, j \in DOMAIN list : list[i].port = list[j].port => i = j
    BY <1>1, SavedConfigs
  <2> QED
    BY <2>1, ReloadSucceeds DEF Diff
<1> HIDE DEF Succeeds
<1>2. Typed /\ [Next]_vars => [Save => Succeeds]_vars
  BY <1>1
<1>3. Spec => [][Save => Succeeds]_vars
  BY <1>2, TypedAlways, PTL DEF Spec
<1> QED
  BY <1>3 DEF HotReloadSucceeds, Succeeds

=============================================================================
