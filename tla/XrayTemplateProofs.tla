-------------------------- MODULE XrayTemplateProofs --------------------------
(***************************************************************************)
(* What the functions of XrayTemplate do to any template: what the list    *)
(* operations keep, that every function gives a template back, and what    *)
(* each form leaves of the references and of the observatories.            *)
(***************************************************************************)
EXTENDS XrayTemplate, WellFoundedInduction, TLAPS

-----------------------------------------------------------------------------
(* Lists. *)

\* Every set of positions has a first one.
LEMMA LeastOf ==
    ASSUME NEW S, S \subseteq Nat, S # {}
    PROVE  \E n \in S : \A m \in S : n <= m
<1> DEFINE R == OpToRel(<, Nat)
<1>1. IsWellFoundedOn(R, Nat)
  BY NatLessThanWellFounded
<1>2. PICK n \in S : \A m \in S : ~ (<<m, n>> \in R)
  BY <1>1, WFMin
<1>3. \A m \in S : ~ (m < n)
  BY <1>2 DEF OpToRel
<1> QED
  BY <1>3

\* The recursion of Without, up to the position n.
Filters(f, n, list, gone) ==
    f = [i \in 0 .. n |->
            IF i = 0 THEN << >>
            ELSE IF i \in gone THEN f[i - 1] ELSE Append(f[i - 1], list[i])]

LEMMA FilterExists ==
    ASSUME NEW list, NEW gone, NEW k \in Nat
    PROVE  \E f : Filters(f, k, list, gone)
<1> DEFINE Bad == {n \in Nat : ~ \E f : Filters(f, n, list, gone)}
<1> SUFFICES ASSUME Bad # {} PROVE FALSE
  OBVIOUS
<1>1. PICK n \in Bad : \A m \in Bad : n <= m
  BY LeastOf
<1>2. CASE n = 0
  <2> DEFINE f == [i \in 0 .. 0 |-> << >>]
  <2>1. f = [i \in 0 .. 0 |->
              IF i = 0 THEN << >>
              ELSE IF i \in gone THEN f[i - 1] ELSE Append(f[i - 1], list[i])]
    OBVIOUS
  <2> QED
    BY <1>2, <2>1 DEF Filters
<1>3. CASE n # 0
  <2>1. n - 1 \in Nat /\ n - 1 \notin Bad
    BY <1>1, <1>3
  <2>2. PICK f : Filters(f, n - 1, list, gone)
    BY <2>1
  <2> DEFINE last == IF n \in gone THEN f[n - 1] ELSE Append(f[n - 1], list[n])
             g    == [i \in 0 .. n |-> IF i = n THEN last ELSE f[i]]
  <2>3. \A i \in 0 .. n : g[i] = IF i = 0 THEN << >>
                                 ELSE IF i \in gone THEN g[i - 1] ELSE Append(g[i - 1], list[i])
    <3> SUFFICES ASSUME NEW i \in 0 .. n
                 PROVE  g[i] = IF i = 0 THEN << >>
                               ELSE IF i \in gone THEN g[i - 1] ELSE Append(g[i - 1], list[i])
      OBVIOUS
    <3>1. CASE i = n
      BY <1>1, <1>3, <3>1
    <3>2. CASE i # n
      <4>1. i \in 0 .. n - 1 /\ g[i] = f[i]
        BY <1>1, <3>2
      <4>2. i # 0 => g[i - 1] = f[i - 1]
        BY <1>1, <4>1
      <4>3. f[i] = IF i = 0 THEN << >>
                   ELSE IF i \in gone THEN f[i - 1] ELSE Append(f[i - 1], list[i])
        BY <2>2, <4>1 DEF Filters
      <4> QED
        BY <4>1, <4>2, <4>3
    <3> QED
      BY <3>1, <3>2
  <2>4. Filters(g, n, list, gone)
    <3> DEFINE body(i) == IF i = 0 THEN << >>
                          ELSE IF i \in gone THEN g[i - 1] ELSE Append(g[i - 1], list[i])
    <3>1. \A i \in 0 .. n : g[i] = body(i)
      BY <2>3
    <3>2. g = [i \in 0 .. n |-> g[i]]
      OBVIOUS
    <3> HIDE DEF g, body
    <3>3. g = [i \in 0 .. n |-> body(i)]
      BY <3>1, <3>2
    <3> QED
      BY <3>3 DEF Filters, body
  <2> QED
    BY <1>1, <2>4
<1> QED
  BY <1>2, <1>3

\* What the recursion has kept by the position i.
KeptUpTo(f, i, list, gone, S) ==
    /\ f[i] \in Seq(S)
    /\ Range(f[i]) = {list[j] : j \in 1 .. i \ gone}

LEMMA RangeAppend ==
    ASSUME NEW S, NEW s \in Seq(S), NEW x \in S
    PROVE  Append(s, x) \in Seq(S) /\ Range(Append(s, x)) = Range(s) \cup {x}
<1>1. /\ Append(s, x) \in Seq(S) /\ Len(Append(s, x)) = Len(s) + 1
      /\ \A j \in 1 .. Len(s) : Append(s, x)[j] = s[j]
      /\ Append(s, x)[Len(s) + 1] = x
  OBVIOUS
<1>2. DOMAIN Append(s, x) = 1 .. (Len(s) + 1) /\ DOMAIN s = 1 .. Len(s)
  BY <1>1
<1>3. Range(Append(s, x)) = {Append(s, x)[j] : j \in 1 .. (Len(s) + 1)}
  BY <1>2 DEF Range
<1>4. Range(s) = {s[j] : j \in 1 .. Len(s)}
  BY <1>2 DEF Range
<1> QED
  BY <1>1, <1>3, <1>4

LEMMA KeptStep ==
    ASSUME NEW S, NEW list \in Seq(S), NEW gone, NEW f,
           NEW i \in 1 .. Len(list), KeptUpTo(f, i - 1, list, gone, S),
           f[i] = IF i \in gone THEN f[i - 1] ELSE Append(f[i - 1], list[i])
    PROVE  KeptUpTo(f, i, list, gone, S)
<1>1. 1 .. i = 1 .. (i - 1) \cup {i} /\ list[i] \in S
  OBVIOUS
<1>2. CASE i \in gone
  <2>1. 1 .. i \ gone = 1 .. (i - 1) \ gone
    BY <1>1, <1>2
  <2> QED
    BY <1>2, <2>1 DEF KeptUpTo
<1>3. CASE i \notin gone
  <2>1. 1 .. i \ gone = (1 .. (i - 1) \ gone) \cup {i}
    BY <1>1, <1>3
  <2>2. {list[j] : j \in 1 .. i \ gone} = {list[j] : j \in 1 .. (i - 1) \ gone} \cup {list[i]}
    BY <2>1
  <2>3. f[i] \in Seq(S) /\ Range(f[i]) = Range(f[i - 1]) \cup {list[i]}
    BY <1>1, <1>3, RangeAppend DEF KeptUpTo
  <2> QED
    BY <2>2, <2>3 DEF KeptUpTo
<1> QED
  BY <1>2, <1>3

LEMMA FilterFacts ==
    ASSUME NEW S, NEW list \in Seq(S), NEW gone, NEW F, Filters(F, Len(list), list, gone)
    PROVE  KeptUpTo(F, Len(list), list, gone, S)
<1> DEFINE n == Len(list)
           Bad == {i \in 0 .. n : ~ KeptUpTo(F, i, list, gone, S)}
<1>1. \A i \in 0 .. n : F[i] = IF i = 0 THEN << >>
                               ELSE IF i \in gone THEN F[i - 1] ELSE Append(F[i - 1], list[i])
  BY DEF Filters
<1>2. KeptUpTo(F, 0, list, gone, S)
  <2>1. F[0] = << >>
    BY <1>1
  <2> QED
    BY <2>1 DEF KeptUpTo, Range
<1>3. ASSUME Bad # {} PROVE FALSE
  <2>1. PICK i \in Bad : \A j \in Bad : i <= j
    <3>1. Bad \subseteq Nat
      OBVIOUS
    <3> HIDE DEF Bad
    <3> QED
      BY <1>3, <3>1, LeastOf
  <2>2. i \in 1 .. n
    BY <1>2, <2>1
  <2>3. KeptUpTo(F, i - 1, list, gone, S)
    BY <2>1, <2>2
  <2>4. KeptUpTo(F, i, list, gone, S)
    BY <1>1, <2>2, <2>3, KeptStep
  <2> QED
    BY <2>4
<1> QED
  BY <1>3

\* Without keeps the elements it was not asked to drop, and no others.
LEMMA WithoutFacts ==
    ASSUME NEW S, NEW list \in Seq(S), NEW gone
    PROVE  /\ Without(list, gone) \in Seq(S)
           /\ Range(Without(list, gone)) = {list[i] : i \in DOMAIN list \ gone}
<1> DEFINE F == CHOOSE f : Filters(f, Len(list), list, gone)
<1>1. Filters(F, Len(list), list, gone)
  BY FilterExists
<1>2. Without(list, gone) = F[Len(list)]
  BY DEF Without, Filters
<1> HIDE DEF F
<1>3. KeptUpTo(F, Len(list), list, gone, S)
  BY <1>1, FilterFacts
<1>4. 1 .. Len(list) = DOMAIN list
  OBVIOUS
<1> QED
  BY <1>2, <1>3, <1>4 DEF KeptUpTo

LEMMA ConcatFacts ==
    ASSUME NEW S, NEW a \in Seq(S), NEW b \in Seq(S)
    PROVE  /\ a \o b \in Seq(S) /\ Len(a \o b) = Len(a) + Len(b)
           /\ \A j \in 1 .. Len(a) + Len(b) :
                 (a \o b)[j] = IF j <= Len(a) THEN a[j] ELSE b[j - Len(a)]
  OBVIOUS

\* splice(i, 1)
LEMMA RemoveAtFacts ==
    ASSUME NEW S, NEW list \in Seq(S), NEW i \in DOMAIN list
    PROVE  /\ RemoveAt(list, i) \in Seq(S)
           /\ Len(RemoveAt(list, i)) = Len(list) - 1
           /\ Range(list) = Range(RemoveAt(list, i)) \cup {list[i]}
<1> DEFINE r == RemoveAt(list, i)
           n == Len(list)
<1>1. i \in 1 .. n /\ n \in Nat /\ DOMAIN list = 1 .. n
  OBVIOUS
<1> DEFINE a == SubSeq(list, 1, i - 1)
           b == SubSeq(list, i + 1, n)
<1>2. a \in Seq(S) /\ Len(a) = i - 1 /\ \A j \in 1 .. i - 1 : a[j] = list[j]
  BY <1>1
<1>3. b \in Seq(S) /\ Len(b) = n - i /\ \A j \in 1 .. n - i : b[j] = list[i + j]
  BY <1>1
<1>a. r = a \o b
  BY DEF RemoveAt
<1> HIDE DEF r, a, b, n
<1>b. /\ r \in Seq(S) /\ Len(r) = Len(a) + Len(b)
      /\ \A j \in 1 .. Len(a) + Len(b) : r[j] = IF j <= Len(a) THEN a[j] ELSE b[j - Len(a)]
  BY <1>2, <1>3, <1>a, ConcatFacts
<1>c. Len(a) + Len(b) = n - 1
  BY <1>1, <1>2, <1>3
<1>d. ASSUME NEW j \in 1 .. n - 1 PROVE r[j] = IF j < i THEN list[j] ELSE list[j + 1]
  <2>1. CASE j < i
    BY <1>1, <1>2, <1>b, <1>c, <2>1
  <2>2. CASE ~ (j < i)
    <3>1. j - (i - 1) \in 1 .. n - i /\ i + (j - (i - 1)) = j + 1
      BY <1>1, <2>2
    <3>2. r[j] = b[j - (i - 1)]
      BY <1>1, <1>2, <1>b, <1>c, <2>2
    <3> QED
      BY <1>3, <2>2, <3>1, <3>2
  <2> QED
    BY <2>1, <2>2
<1>4. r \in Seq(S) /\ Len(r) = n - 1
      /\ \A j \in 1 .. n - 1 : r[j] = IF j < i THEN list[j] ELSE list[j + 1]
  BY <1>b, <1>c, <1>d
<1>5. DOMAIN r = 1 .. n - 1
  BY <1>1, <1>4
<1>6. Range(r) \subseteq Range(list)
  BY <1>1, <1>4, <1>5 DEF Range
<1>7. ASSUME NEW j \in 1 .. n, j # i PROVE list[j] \in Range(r)
  <2>1. CASE j < i
    BY <1>1, <1>4, <1>5, <2>1 DEF Range
  <2>2. CASE j > i
    <3>1. j - 1 \in 1 .. n - 1 /\ r[j - 1] = list[j]
      BY <1>1, <1>4, <2>2
    <3> QED
      BY <1>5, <3>1 DEF Range
  <2> QED
    BY <1>1, <1>7, <2>1, <2>2
<1>8. Range(list) = Range(r) \cup {list[i]}
  BY <1>1, <1>6, <1>7 DEF Range
<1> QED
  BY <1>4, <1>6, <1>8 DEF r, n

\* splice(i, 0, x)
LEMMA InsertAtFacts ==
    ASSUME NEW S, NEW list \in Seq(S), NEW i \in 1 .. Len(list) + 1, NEW x \in S
    PROVE  /\ InsertAt(list, i, x) \in Seq(S)
           /\ Len(InsertAt(list, i, x)) = Len(list) + 1
           /\ Range(InsertAt(list, i, x)) = Range(list) \cup {x}
<1> DEFINE r == InsertAt(list, i, x)
           n == Len(list)
<1>1. n \in Nat /\ DOMAIN list = 1 .. n /\ i \in 1 .. n + 1
  OBVIOUS
<1> DEFINE a == SubSeq(list, 1, i - 1)
           b == SubSeq(list, i, n)
           c == a \o <<x>>
<1>2. a \in Seq(S) /\ Len(a) = i - 1 /\ \A j \in 1 .. i - 1 : a[j] = list[j]
  BY <1>1
<1>3. b \in Seq(S) /\ Len(b) = n - i + 1 /\ \A j \in 1 .. n - i + 1 : b[j] = list[i + j - 1]
  BY <1>1
<1>a. r = c \o b
  BY DEF InsertAt
<1>b. <<x>> \in Seq(S) /\ Len(<<x>>) = 1 /\ <<x>>[1] = x
  OBVIOUS
<1> HIDE DEF r, a, b, n
<1>c. c \in Seq(S) /\ Len(c) = i /\ \A j \in 1 .. i : c[j] = IF j < i THEN list[j] ELSE x
  BY <1>1, <1>2, <1>b, ConcatFacts
<1> HIDE DEF c
<1>d. /\ r \in Seq(S) /\ Len(r) = Len(c) + Len(b)
      /\ \A j \in 1 .. Len(c) + Len(b) : r[j] = IF j <= Len(c) THEN c[j] ELSE b[j - Len(c)]
  BY <1>3, <1>a, <1>c, ConcatFacts
<1>e. Len(c) + Len(b) = n + 1
  BY <1>1, <1>3, <1>c
<1>f. ASSUME NEW j \in 1 .. n + 1
      PROVE  r[j] = IF j < i THEN list[j] ELSE IF j = i THEN x ELSE list[j - 1]
  <2>1. CASE j <= i
    BY <1>1, <1>c, <1>d, <1>e, <2>1
  <2>2. CASE j > i
    <3>1. j - i \in 1 .. n - i + 1 /\ i + (j - i) - 1 = j - 1
      BY <1>1, <2>2
    <3>2. r[j] = b[j - i]
      BY <1>1, <1>c, <1>d, <1>e, <2>2
    <3> QED
      BY <1>3, <2>2, <3>1, <3>2
  <2> QED
    BY <1>1, <2>1, <2>2
<1>4. r \in Seq(S) /\ Len(r) = n + 1
      /\ \A j \in 1 .. n + 1 :
            r[j] = IF j < i THEN list[j] ELSE IF j = i THEN x ELSE list[j - 1]
  BY <1>d, <1>e, <1>f
<1>5. DOMAIN r = 1 .. n + 1
  BY <1>1, <1>4
<1>6. Range(r) \subseteq Range(list) \cup {x}
  <2>1. ASSUME NEW j \in 1 .. n + 1 PROVE r[j] \in Range(list) \cup {x}
    <3>1. CASE j < i
      BY <1>1, <1>f, <3>1 DEF Range
    <3>2. CASE j > i
      <4>1. j - 1 \in 1 .. n /\ r[j] = list[j - 1]
        BY <1>1, <1>f, <3>2
      <4> QED
        BY <1>1, <4>1 DEF Range
    <3> QED
      BY <1>1, <1>f, <3>1, <3>2
  <2> QED
    BY <1>5, <2>1 DEF Range
<1>7. x \in Range(r)
  BY <1>1, <1>4, <1>5 DEF Range
<1>8. ASSUME NEW j \in 1 .. n PROVE list[j] \in Range(r)
  <2>1. CASE j < i
    BY <1>1, <1>4, <1>5, <2>1 DEF Range
  <2>2. CASE j >= i
    <3>1. j + 1 \in 1 .. n + 1 /\ r[j + 1] = list[j]
      BY <1>1, <1>4, <2>2
    <3> QED
      BY <1>5, <3>1 DEF Range
  <2> QED
    BY <1>1, <2>1, <2>2
<1>9. Range(r) = Range(list) \cup {x}
  BY <1>1, <1>6, <1>7, <1>8 DEF Range
<1> QED
  BY <1>4, <1>9 DEF r, n

\* Moving an entry changes the order alone.
LEMMA MoveFacts ==
    ASSUME NEW S, NEW list \in Seq(S), NEW from \in DOMAIN list, NEW to \in DOMAIN list
    PROVE  Move(list, from, to) \in Seq(S) /\ Range(Move(list, from, to)) = Range(list)
<1> DEFINE r == RemoveAt(list, from)
<1>1. /\ r \in Seq(S) /\ Len(r) = Len(list) - 1
      /\ Range(list) = Range(r) \cup {list[from]}
  BY RemoveAtFacts
<1>2. to \in 1 .. Len(r) + 1 /\ list[from] \in S
  BY <1>1
<1> HIDE DEF r
<1>3. /\ InsertAt(r, to, list[from]) \in Seq(S)
      /\ Range(InsertAt(r, to, list[from])) = Range(r) \cup {list[from]}
  BY <1>1, <1>2, InsertAtFacts
<1> QED
  BY <1>1, <1>3 DEF Move, r

\* list[i] = x, with holes up to i.
LEMMA PutFacts ==
    ASSUME NEW S, NEW list \in Seq(S), NEW i \in Nat \ {0}, NEW x \in S, NEW hole \in S
    PROVE  /\ Put(list, i, x, hole) \in Seq(S)
           /\ Len(Put(list, i, x, hole)) = IF i > Len(list) THEN i ELSE Len(list)
           /\ Put(list, i, x, hole)[i] = x
           /\ \A j \in DOMAIN list \ {i} : Put(list, i, x, hole)[j] = list[j]
           /\ Range(Put(list, i, x, hole)) \subseteq Range(list) \cup {x, hole}
           /\ i \in 1 .. Len(list) + 1 => Range(Put(list, i, x, hole)) \subseteq Range(list) \cup {x}
<1> DEFINE r == Put(list, i, x, hole)
           m == IF i > Len(list) THEN i ELSE Len(list)
<1>1. m \in Nat /\ Len(list) \in Nat /\ DOMAIN list = 1 .. Len(list) /\ i \in 1 .. m
  OBVIOUS
<1>2. r = [j \in 1 .. m |-> IF j = i THEN x ELSE IF j <= Len(list) THEN list[j] ELSE hole]
  BY DEF Put
<1>3. \A j \in 1 .. Len(list) : list[j] \in S
  OBVIOUS
<1>4. r \in [1 .. m -> S] /\ DOMAIN r = 1 .. m
  BY <1>1, <1>2, <1>3
<1> HIDE DEF r
<1>5. r \in Seq(S) /\ Len(r) = m
  BY <1>1, <1>4
<1>6. Range(r) \subseteq Range(list) \cup {x, hole}
  BY <1>1, <1>2, <1>4 DEF Range
<1>7. i \in 1 .. Len(list) + 1 => Range(r) \subseteq Range(list) \cup {x}
  BY <1>1, <1>2, <1>4 DEF Range
<1>8. r[i] = x /\ \A j \in DOMAIN list \ {i} : r[j] = list[j]
  BY <1>1, <1>2
<1> QED
  BY <1>5, <1>6, <1>7, <1>8 DEF r

\* The same inside the list.
IsPut(r, list, i, x) ==
    /\ DOMAIN r = DOMAIN list /\ Len(r) = Len(list)
    /\ \A j \in DOMAIN list : r[j] = IF j = i THEN x ELSE list[j]
    /\ Range(r) \subseteq Range(list) \cup {x}

LEMMA PutInside ==
    ASSUME NEW S, NEW list \in Seq(S), NEW i \in DOMAIN list, NEW x \in S, NEW hole \in S
    PROVE  /\ Put(list, i, x, hole) \in Seq(S)
           /\ IsPut(Put(list, i, x, hole), list, i, x)
<1> DEFINE r == Put(list, i, x, hole)
<1>1. Len(list) \in Nat /\ DOMAIN list = 1 .. Len(list) /\ i \in 1 .. Len(list)
  OBVIOUS
<1>2. r = [j \in 1 .. Len(list) |-> IF j = i THEN x ELSE IF j <= Len(list) THEN list[j] ELSE hole]
  BY <1>1 DEF Put
<1>3. \A j \in 1 .. Len(list) : list[j] \in S
  OBVIOUS
<1>4. r \in [1 .. Len(list) -> S]
  BY <1>1, <1>2, <1>3
<1>5. \A j \in 1 .. Len(list) : r[j] = IF j = i THEN x ELSE list[j]
  BY <1>2
<1> HIDE DEF r
<1>6. r \in Seq(S) /\ Len(r) = Len(list) /\ DOMAIN r = 1 .. Len(list)
  BY <1>1, <1>4
<1>7. Range(r) \subseteq Range(list) \cup {x}
  BY <1>1, <1>5, <1>6 DEF Range
<1> QED
  BY <1>1, <1>5, <1>6, <1>7 DEF r, IsPut

-----------------------------------------------------------------------------
(* Templates with one list replaced. *)

Rest(t) == <<t.observatory, t.burstObservatory>>

LEMMA TemplateFields ==
    ASSUME NEW t \in Template
    PROVE  /\ t.outbounds \in Seq(Outbound) /\ t.rules \in Seq(Rule)
           /\ t.balancers \in Seq(Balancer)
           /\ t.observatory \in {None} \cup SUBSET Tag
           /\ t.burstObservatory \in {None} \cup SUBSET Tag
  BY DEF Template

LEMMA WithOutbounds ==
    ASSUME NEW t \in Template, NEW list \in Seq(Outbound)
    PROVE  /\ [t EXCEPT !.outbounds = list] \in Template
           /\ [t EXCEPT !.outbounds = list].outbounds = list
           /\ [t EXCEPT !.outbounds = list].rules = t.rules
           /\ [t EXCEPT !.outbounds = list].balancers = t.balancers
           /\ Rest([t EXCEPT !.outbounds = list]) = Rest(t)
  BY DEF Template, Rest

LEMMA WithRules ==
    ASSUME NEW t \in Template, NEW list \in Seq(Rule)
    PROVE  /\ [t EXCEPT !.rules = list] \in Template
           /\ [t EXCEPT !.rules = list].outbounds = t.outbounds
           /\ [t EXCEPT !.rules = list].rules = list
           /\ [t EXCEPT !.rules = list].balancers = t.balancers
           /\ Rest([t EXCEPT !.rules = list]) = Rest(t)
  BY DEF Template, Rest

LEMMA WithBalancers ==
    ASSUME NEW t \in Template, NEW list \in Seq(Balancer)
    PROVE  /\ [t EXCEPT !.balancers = list] \in Template
           /\ [t EXCEPT !.balancers = list].outbounds = t.outbounds
           /\ [t EXCEPT !.balancers = list].rules = t.rules
           /\ [t EXCEPT !.balancers = list].balancers = list
           /\ Rest([t EXCEPT !.balancers = list]) = Rest(t)
  BY DEF Template, Rest

LEMMA TagsTyped ==
    ASSUME NEW t \in Template
    PROVE  TagsOf(t) \subseteq Tag /\ BalancersOf(t) \subseteq BalancerTag
<1>1. /\ \A i \in DOMAIN t.outbounds : t.outbounds[i].tag \in Tag \cup {None}
      /\ \A i \in DOMAIN t.balancers : t.balancers[i].tag \in BalancerTag
  <2>1. /\ \A i \in DOMAIN t.outbounds : t.outbounds[i] \in Outbound
        /\ \A i \in DOMAIN t.balancers : t.balancers[i] \in Balancer
    BY TemplateFields
  <2>2. (\A o \in Outbound : o.tag \in Tag \cup {None}) /\ \A b \in Balancer : b.tag \in BalancerTag
    BY DEF Outbound, Balancer
  <2> QED
    BY <2>1, <2>2
<1> QED
  BY <1>1 DEF TagsOf, BalancersOf

LEMMA HolesAreTyped == Hole \in Outbound /\ NoRule \in Rule
  BY DEF Hole, Outbound, NoRule, Rule

\* findIndex: the first position with one of the tags, or 0.
LEMMA FindIndexFacts ==
    ASSUME NEW t \in Template, NEW tags
    PROVE  /\ FindIndex(t, tags) \in 0 .. Len(t.outbounds)
           /\ FindIndex(t, tags) # 0 =>
                 /\ FindIndex(t, tags) \in DOMAIN t.outbounds
                 /\ t.outbounds[FindIndex(t, tags)].tag \in tags
           /\ FindIndex(t, tags) = 0 => \A i \in DOMAIN t.outbounds : t.outbounds[i].tag \notin tags
<1> DEFINE P == Positions(t, tags)
<1>1. DOMAIN t.outbounds = 1 .. Len(t.outbounds) /\ Len(t.outbounds) \in Nat
  BY TemplateFields
<1>2. P \subseteq 1 .. Len(t.outbounds)
  BY <1>1 DEF Positions
<1>3. CASE P = {}
  BY <1>1, <1>3 DEF FindIndex, Positions
<1>4. CASE P # {}
  <2>1. \E i \in P : \A j \in P : i <= j
    <3>1. P \subseteq Nat
      BY <1>1, <1>2
    <3> HIDE DEF P
    <3> QED
      BY <1>4, <3>1, LeastOf
  <2>2. FindIndex(t, tags) \in P
    BY <1>4, <2>1 DEF FindIndex
  <2> QED
    BY <1>1, <1>2, <2>2 DEF Positions
<1> QED
  BY <1>3, <1>4

-----------------------------------------------------------------------------
(* Every function keeps a template a template. *)

LEMMA RenameTyped ==
    ASSUME NEW t \in Template, NEW old, NEW new \in Tag
    PROVE  /\ propagateOutboundTagRename(t, old, new) \in Template
           /\ Rest(propagateOutboundTagRename(t, old, new)) = Rest(t)
           /\ Len(propagateOutboundTagRename(t, old, new).outbounds) = Len(t.outbounds)
<1> DEFINE rules == [i \in DOMAIN t.rules |->
                        [t.rules[i] EXCEPT !.out = Renamed(t.rules[i].out, old, new)]]
           balancers == [i \in DOMAIN t.balancers |->
                            [t.balancers[i] EXCEPT
                                !.fallback = Renamed(t.balancers[i].fallback, old, new),
                                !.selector = {Renamed(s, old, new) : s \in t.balancers[i].selector}]]
           outbounds == [i \in DOMAIN t.outbounds |->
                            [t.outbounds[i] EXCEPT
                                !.dialer = Renamed(t.outbounds[i].dialer, old, new)]]
           u == [t EXCEPT !.rules = rules, !.balancers = balancers, !.outbounds = outbounds]
<1>1. t.outbounds \in Seq(Outbound) /\ t.rules \in Seq(Rule) /\ t.balancers \in Seq(Balancer)
  BY TemplateFields
<1>2. rules \in Seq(Rule)
  <2>1. ASSUME NEW r \in Rule PROVE [r EXCEPT !.out = Renamed(r.out, old, new)] \in Rule
    BY DEF Rule, Renamed
  <2> QED
    BY <1>1, <2>1
<1>3. balancers \in Seq(Balancer)
  <2> DEFINE image(b) == [b EXCEPT !.fallback = Renamed(b.fallback, old, new),
                                   !.selector = {Renamed(s, old, new) : s \in b.selector}]
  <2>1. ASSUME NEW b \in Balancer PROVE image(b) \in Balancer
    <3>1. {Renamed(s, old, new) : s \in b.selector} \in SUBSET Tag
      BY DEF Balancer, Renamed
    <3> QED
      BY <3>1 DEF Balancer, Renamed
  <2>2. balancers = [i \in DOMAIN t.balancers |-> image(t.balancers[i])]
    OBVIOUS
  <2> HIDE DEF image, balancers
  <2>3. DOMAIN t.balancers = 1 .. Len(t.balancers) /\ Len(t.balancers) \in Nat
        /\ \A i \in DOMAIN t.balancers : t.balancers[i] \in Balancer
    BY <1>1
  <2>4. \A i \in DOMAIN t.balancers : image(t.balancers[i]) \in Balancer
    BY <2>1, <2>3
  <2> QED
    BY <2>2, <2>3, <2>4
<1>4. outbounds \in Seq(Outbound) /\ Len(outbounds) = Len(t.outbounds)
  <2>1. ASSUME NEW o \in Outbound PROVE [o EXCEPT !.dialer = Renamed(o.dialer, old, new)] \in Outbound
    BY DEF Outbound, Renamed
  <2> QED
    BY <1>1, <2>1
<1>5. propagateOutboundTagRename(t, old, new) = u
  BY DEF propagateOutboundTagRename
<1> HIDE DEF rules, balancers, outbounds
<1>6. u \in Template /\ Rest(u) = Rest(t) /\ u.outbounds = outbounds
  BY <1>2, <1>3, <1>4 DEF Template, Rest
<1> QED
  BY <1>4, <1>5, <1>6

LEMMA AddOutboundTyped ==
    ASSUME NEW t \in Template, NEW o \in Outbound
    PROVE  AddOutbound(t, o) \in Template
  BY TemplateFields, RangeAppend, WithOutbounds DEF AddOutbound

LEMMA ReplaceOutboundTyped ==
    ASSUME NEW t \in Template, NEW i \in Nat \ {0}, NEW o \in Outbound
    PROVE  ReplaceOutbound(t, i, o) \in Template
<1> DEFINE put == [t EXCEPT !.outbounds = Put(t.outbounds, i, o, Hole)]
           oldTag == IF i \in DOMAIN t.outbounds THEN t.outbounds[i].tag ELSE None
<1>1. put \in Template
  BY TemplateFields, PutFacts, HolesAreTyped, WithOutbounds
<1>2. ReplaceOutbound(t, i, o) = IF oldTag \in {None, o.tag} \/ o.tag = None
                                 THEN put ELSE propagateOutboundTagRename(put, oldTag, o.tag)
  BY DEF ReplaceOutbound
<1>3. o.tag \in Tag \cup {None}
  BY DEF Outbound
<1> HIDE DEF put, oldTag
<1> QED
  BY <1>1, <1>2, <1>3, RenameTyped

LEMMA DeleteOutboundTyped ==
    ASSUME NEW t \in Template, NEW i
    PROVE  DeleteOutbound(t, i) \in Template
  BY TemplateFields, RemoveAtFacts, WithOutbounds DEF DeleteOutbound

LEMMA MoveOutboundTyped ==
    ASSUME NEW t \in Template, NEW from \in DOMAIN t.outbounds, NEW to \in DOMAIN t.outbounds
    PROVE  MoveOutbound(t, from, to) \in Template
  BY TemplateFields, MoveFacts, WithOutbounds DEF MoveOutbound

LEMMA NordLogoutTyped ==
    ASSUME NEW t \in Template, NEW i
    PROVE  NordLogout(t, i) \in Template
<1> DEFINE rules == Without(t.rules, {j \in DOMAIN t.rules : t.rules[j].out \in Nord})
<1>1. rules \in Seq(Rule)
  BY TemplateFields, WithoutFacts
<1>2. NordLogout(t, i) = [DeleteOutbound(t, i) EXCEPT !.rules = rules]
  BY DEF NordLogout
<1> HIDE DEF rules
<1> QED
  BY <1>1, <1>2, DeleteOutboundTyped, WithRules

LEMMA PutRuleTyped ==
    ASSUME NEW t \in Template, NEW i \in Nat \ {0}, NEW r \in Rule
    PROVE  PutRule(t, i, r) \in Template
  BY TemplateFields, PutFacts, HolesAreTyped, WithRules DEF PutRule

LEMMA DeleteRuleTyped ==
    ASSUME NEW t \in Template, NEW i
    PROVE  DeleteRule(t, i) \in Template
  BY TemplateFields, RemoveAtFacts, WithRules DEF DeleteRule

LEMMA MoveRuleTyped ==
    ASSUME NEW t \in Template, NEW from \in DOMAIN t.rules, NEW to \in DOMAIN t.rules
    PROVE  MoveRule(t, from, to) \in Template
  BY TemplateFields, MoveFacts, WithRules DEF MoveRule

\* A rule that is switched keeps its place and its targets.
LEMMA ToggleRuleFacts ==
    ASSUME NEW t \in Template, NEW i \in DOMAIN t.rules
    PROVE  /\ ToggleRule(t, i) \in Template
           /\ ToggleRule(t, i).outbounds = t.outbounds
           /\ ToggleRule(t, i).balancers = t.balancers
           /\ Rest(ToggleRule(t, i)) = Rest(t)
           /\ DOMAIN ToggleRule(t, i).rules = DOMAIN t.rules
           /\ \A j \in DOMAIN t.rules : /\ ToggleRule(t, i).rules[j].out = t.rules[j].out
                                        /\ ToggleRule(t, i).rules[j].bal = t.rules[j].bal
<1> DEFINE rule == [t.rules[i] EXCEPT !.enabled = ~ t.rules[i].enabled]
           rules == [t.rules EXCEPT ![i] = rule]
<1>1. t.rules \in Seq(Rule) /\ t.rules[i] \in Rule
  BY TemplateFields
<1>2. rule \in Rule /\ rule.out = t.rules[i].out /\ rule.bal = t.rules[i].bal
  BY <1>1 DEF Rule
<1>3. ToggleRule(t, i) = [t EXCEPT !.rules = rules]
  BY DEF ToggleRule, Template
<1> HIDE DEF rule
<1>4. rules \in Seq(Rule) /\ DOMAIN rules = DOMAIN t.rules
      /\ \A j \in DOMAIN t.rules : rules[j] = IF j = i THEN rule ELSE t.rules[j]
  BY <1>1, <1>2
<1> HIDE DEF rules
<1> QED
  BY <1>2, <1>3, <1>4, WithRules

LEMMA ruleSetterFacts ==
    ASSUME NEW t \in Template, NEW tag \in Tag, NEW some \in BOOLEAN
    PROVE  /\ ruleSetter(t, tag, some) \in Template
           /\ ruleSetter(t, tag, some).outbounds = t.outbounds
           /\ ruleSetter(t, tag, some).balancers = t.balancers
           /\ Rest(ruleSetter(t, tag, some)) = Rest(t)
           /\ \A r \in Range(ruleSetter(t, tag, some).rules) :
                 r \in Range(t.rules) \/ (r.out = tag /\ r.bal = None)
<1> DEFINE holders == {i \in DOMAIN t.rules : t.rules[i].out = tag /\ t.rules[i].domains}
           gone == IF some THEN {i \in holders : \E j \in holders : j < i} ELSE holders
           new == [out |-> tag, bal |-> None, domains |-> some, enabled |-> TRUE]
<1>1. t.rules \in Seq(Rule) /\ new \in Rule /\ new.out = tag /\ new.bal = None
  BY TemplateFields DEF Rule
<1>2. ruleSetter(t, tag, some) =
        IF holders = {} THEN [t EXCEPT !.rules = Append(t.rules, new)]
        ELSE [t EXCEPT !.rules = Without(t.rules, gone)]
  BY DEF ruleSetter
<1> HIDE DEF new, holders, gone
<1>3. Append(t.rules, new) \in Seq(Rule) /\ Range(Append(t.rules, new)) = Range(t.rules) \cup {new}
  BY <1>1, RangeAppend
<1>4. Without(t.rules, gone) \in Seq(Rule) /\ Range(Without(t.rules, gone)) \subseteq Range(t.rules)
  <2>1. Without(t.rules, gone) \in Seq(Rule)
        /\ Range(Without(t.rules, gone)) = {t.rules[i] : i \in DOMAIN t.rules \ gone}
    BY <1>1, WithoutFacts
  <2> QED
    BY <2>1 DEF Range
<1>5. PICK list \in Seq(Rule) :
            /\ ruleSetter(t, tag, some) = [t EXCEPT !.rules = list]
            /\ \A r \in Range(list) : r \in Range(t.rules) \/ (r.out = tag /\ r.bal = None)
  BY <1>1, <1>2, <1>3, <1>4
<1> QED
  BY <1>5, WithRules

\* The outbound of a tag that rules send to is there afterwards; one no rule sends to may go.
LEMMA syncOutboundFacts ==
    ASSUME NEW t \in Template, NEW tag \in Tag
    PROVE  /\ syncOutbound(t, tag) \in Template
           /\ syncOutbound(t, tag).rules = t.rules
           /\ syncOutbound(t, tag).balancers = t.balancers
           /\ Rest(syncOutbound(t, tag)) = Rest(t)
           /\ (\E r \in Range(t.rules) : r.out = tag) =>
                 \E o \in Range(syncOutbound(t, tag).outbounds) : o.tag = tag
           /\ \A o \in Range(syncOutbound(t, tag).outbounds) :
                 o \in Range(t.outbounds) \/ o.dialer = None
           /\ \/ Range(t.outbounds) \subseteq Range(syncOutbound(t, tag).outbounds)
              \/ Len(syncOutbound(t, tag).outbounds) < Len(t.outbounds)
<1> DEFINE new == [tag |-> tag, dialer |-> None, key |-> 0]
           haveRules == \E i \in DOMAIN t.rules : t.rules[i].out = tag
           idx == FindIndex(t, {tag})
<1>1. /\ t.outbounds \in Seq(Outbound) /\ new \in Outbound
      /\ new.dialer = None /\ new.tag = tag
  BY TemplateFields DEF Outbound
<1>2. haveRules <=> \E r \in Range(t.rules) : r.out = tag
  BY DEF Range
<1>3. /\ idx \in Nat
      /\ idx # 0 => idx \in DOMAIN t.outbounds /\ t.outbounds[idx].tag = tag
  <2>1. Len(t.outbounds) \in Nat
    BY <1>1
  <2> QED
    BY <2>1, FindIndexFacts
<1>4. syncOutbound(t, tag) = IF ~ haveRules /\ idx > 1 THEN DeleteOutbound(t, idx)
                             ELSE IF haveRules /\ idx = 0 THEN AddOutbound(t, new) ELSE t
  BY DEF syncOutbound
<1> HIDE DEF new, haveRules, idx
<1>5. CASE ~ haveRules /\ idx > 1
  <2> DEFINE list == RemoveAt(t.outbounds, idx)
  <2>1. idx \in DOMAIN t.outbounds
    BY <1>3, <1>5
  <2>2. list \in Seq(Outbound) /\ Len(list) = Len(t.outbounds) - 1
        /\ Range(list) \subseteq Range(t.outbounds)
    BY <2>1, TemplateFields, RemoveAtFacts
  <2>3. syncOutbound(t, tag) = [t EXCEPT !.outbounds = list]
    BY <1>4, <1>5, <2>1 DEF DeleteOutbound
  <2> HIDE DEF list
  <2>4. Len(list) < Len(t.outbounds)
    BY <1>1, <2>2
  <2> QED
    BY <1>2, <1>5, <2>2, <2>3, <2>4, WithOutbounds
<1>6. CASE haveRules /\ idx = 0
  <2>1. PICK list \in Seq(Outbound) :
              list = Append(t.outbounds, new) /\ Range(list) = Range(t.outbounds) \cup {new}
    BY <1>1, RangeAppend
  <2>2. syncOutbound(t, tag) = [t EXCEPT !.outbounds = list]
    BY <1>4, <1>6, <2>1 DEF AddOutbound
  <2> DEFINE u == syncOutbound(t, tag)
  <2>3. u \in Template /\ u.rules = t.rules /\ u.balancers = t.balancers /\ Rest(u) = Rest(t)
        /\ u.outbounds = list
    BY <2>2, WithOutbounds
  <2> HIDE DEF u
  <2> QED
    BY <1>1, <2>1, <2>3 DEF u
<1>7. CASE (haveRules => idx # 0) /\ (~ haveRules => ~ idx > 1)
  <2>1. syncOutbound(t, tag) = t
    BY <1>4, <1>7
  <2> QED
    BY <1>2, <1>3, <1>7, <2>1 DEF Range
<1> QED
  BY <1>5, <1>6, <1>7

LEMMA SetBasicDomainsTyped ==
    ASSUME NEW t \in Template, NEW tag \in Tag, NEW some \in BOOLEAN
    PROVE  SetBasicDomains(t, tag, some) \in Template
  BY ruleSetterFacts, syncOutboundFacts DEF SetBasicDomains

\* The sections are what the balancers need, whatever they were before.
LEMMA syncObservatoriesFacts ==
    ASSUME NEW t \in Template
    PROVE  /\ syncObservatories(t) \in Template
           /\ syncObservatories(t).outbounds = t.outbounds
           /\ syncObservatories(t).rules = t.rules
           /\ syncObservatories(t).balancers = t.balancers
           /\ Aligned(syncObservatories(t))
<1> DEFINE leastPings == Using(t, {"leastPing"})
           required   == Using(t, {"leastLoad"})
           optional   == Using(t, {"random", "roundRobin"})
           users      == Using(t, {"leastLoad", "random", "roundRobin"})
           obs == IF leastPings # {} THEN collectSelectors(leastPings) ELSE None
           burst == IF required # {} \/ (optional # {} /\ t.burstObservatory # None)
                    THEN collectSelectors(required \cup optional)
                    ELSE IF required = {} /\ optional = {} THEN None ELSE t.burstObservatory
           u == syncObservatories(t)
<1>1. \A S : Using(t, S) \subseteq Balancer
  BY TemplateFields DEF Using
<1>2. ASSUME NEW lbs \in SUBSET Balancer
      PROVE  collectSelectors(lbs) \in SUBSET Tag /\ collectSelectors(lbs) # None
  <2>1. collectSelectors(lbs) \in SUBSET Tag
    BY DEF collectSelectors, Balancer
  <2> QED
    BY <2>1, TemplateAssumption
<1>3. users = required \cup optional
  BY DEF Using
<1>4. /\ leastPings \in SUBSET Balancer /\ required \in SUBSET Balancer
      /\ optional \in SUBSET Balancer
  BY <1>1
<1>5. u = [t EXCEPT !.observatory = obs, !.burstObservatory = burst]
  BY DEF syncObservatories
<1>6. u.balancers = t.balancers => /\ Using(u, {"leastPing"}) = leastPings
                                   /\ Using(u, {"leastLoad"}) = required
                                   /\ Using(u, {"leastLoad", "random", "roundRobin"}) = users
  BY DEF Using
<1> HIDE DEF leastPings, required, optional, users, u
<1>7. obs \in {None} \cup SUBSET Tag /\ burst \in {None} \cup SUBSET Tag
  BY <1>2, <1>4, TemplateFields
<1> HIDE DEF obs, burst
<1>8. /\ u \in Template /\ u.outbounds = t.outbounds /\ u.rules = t.rules
      /\ u.balancers = t.balancers /\ u.observatory = obs /\ u.burstObservatory = burst
  BY <1>5, <1>7 DEF Template
<1>9. /\ obs = IF leastPings = {} THEN None ELSE collectSelectors(leastPings)
      /\ (users = {} => burst = None)
      /\ (required # {} => burst # None)
      /\ (burst # None => burst = collectSelectors(users))
  <2>1. collectSelectors(required \cup optional) # None
    BY <1>2, <1>4
  <2> QED
    BY <1>3, <2>1 DEF obs, burst
<1>10. Aligned(u)
  BY <1>6, <1>8, <1>9 DEF Aligned
<1> QED
  BY <1>8, <1>10 DEF u

LEMMA AddBalancerTyped ==
    ASSUME NEW t \in Template, NEW b \in Balancer
    PROVE  AddBalancer(t, b) \in Template /\ Aligned(AddBalancer(t, b))
  BY TemplateFields, RangeAppend, WithBalancers, syncObservatoriesFacts DEF AddBalancer

\* Renaming a balancer: what the rules send to follows.
RenameBalancer(t, old, new) ==
    [t EXCEPT !.rules = [j \in DOMAIN t.rules |->
        [t.rules[j] EXCEPT !.bal = Renamed(t.rules[j].bal, old, new)]]]

LEMMA RenameBalancerFacts ==
    ASSUME NEW t \in Template, NEW old, NEW new \in BalancerTag
    PROVE  /\ RenameBalancer(t, old, new) \in Template
           /\ RenameBalancer(t, old, new).outbounds = t.outbounds
           /\ RenameBalancer(t, old, new).balancers = t.balancers
           /\ \A r \in Range(RenameBalancer(t, old, new).rules) :
                 \E q \in Range(t.rules) : r.out = q.out /\ r.bal = Renamed(q.bal, old, new)
<1> DEFINE image(r) == [r EXCEPT !.bal = Renamed(r.bal, old, new)]
           rules == [j \in DOMAIN t.rules |-> image(t.rules[j])]
<1>1. ASSUME NEW r \in Rule
      PROVE  image(r) \in Rule /\ image(r).out = r.out /\ image(r).bal = Renamed(r.bal, old, new)
  BY DEF Rule, Renamed
<1>2. DOMAIN t.rules = 1 .. Len(t.rules) /\ Len(t.rules) \in Nat
      /\ \A i \in DOMAIN t.rules : t.rules[i] \in Rule
  BY TemplateFields
<1>3. RenameBalancer(t, old, new) = [t EXCEPT !.rules = rules]
  BY DEF RenameBalancer
<1> HIDE DEF image
<1>4. rules \in Seq(Rule)
  BY <1>1, <1>2
<1>5. ASSUME NEW r \in Range(rules)
      PROVE  \E q \in Range(t.rules) : r.out = q.out /\ r.bal = Renamed(q.bal, old, new)
  <2>1. PICK j \in DOMAIN t.rules : r = image(t.rules[j])
    BY DEF Range
  <2> QED
    BY <1>1, <1>2, <2>1 DEF Range
<1> HIDE DEF rules
<1> QED
  BY <1>3, <1>4, <1>5, WithRules

LEMMA ReplaceBalancerIs ==
    ASSUME NEW t, NEW i, NEW b
    PROVE  LET oldTag == IF i \in DOMAIN t.balancers THEN t.balancers[i].tag ELSE None
               put == [t EXCEPT !.balancers = Put(t.balancers, i, b, b)]
           IN ReplaceBalancer(t, i, b) = syncObservatories(
                IF oldTag \in {None, b.tag} THEN put ELSE RenameBalancer(put, oldTag, b.tag))
  BY DEF ReplaceBalancer, RenameBalancer

LEMMA ReplaceBalancerTyped ==
    ASSUME NEW t \in Template, NEW i \in Nat \ {0}, NEW b \in Balancer
    PROVE  ReplaceBalancer(t, i, b) \in Template /\ Aligned(ReplaceBalancer(t, i, b))
<1> DEFINE put == [t EXCEPT !.balancers = Put(t.balancers, i, b, b)]
           oldTag == IF i \in DOMAIN t.balancers THEN t.balancers[i].tag ELSE None
           u == IF oldTag \in {None, b.tag} THEN put ELSE RenameBalancer(put, oldTag, b.tag)
<1>1. put \in Template
  BY TemplateFields, PutFacts, WithBalancers
<1>2. b.tag \in BalancerTag
  BY DEF Balancer
<1>3. ReplaceBalancer(t, i, b) = syncObservatories(u)
  BY ReplaceBalancerIs
<1> HIDE DEF put, oldTag
<1>4. u \in Template
  BY <1>1, <1>2, RenameBalancerFacts
<1> QED
  BY <1>3, <1>4, syncObservatoriesFacts

LEMMA DeleteBalancerTyped ==
    ASSUME NEW t \in Template, NEW i
    PROVE  DeleteBalancer(t, i) \in Template /\ Aligned(DeleteBalancer(t, i))
  BY TemplateFields, RemoveAtFacts, WithBalancers, syncObservatoriesFacts DEF DeleteBalancer

\* The api rule the panel puts first is one of the rules.
LEMMA EnsureStatsRoutingTyped ==
    ASSUME NEW t \in Template
    PROVE  EnsureStatsRouting(t) \in Template
<1> DEFINE P == {i \in 1 .. Len(t.rules) : t.rules[i].out = Api}
           apiIdx == IF P # {} THEN Min(P) ELSE 0
           others == IF apiIdx = 0 THEN t.rules ELSE RemoveAt(t.rules, apiIdx)
           rule   == IF apiIdx = 0 THEN ApiRule ELSE [t.rules[apiIdx] EXCEPT !.enabled = TRUE]
<1>1. t.rules \in Seq(Rule) /\ DOMAIN t.rules = 1 .. Len(t.rules) /\ Len(t.rules) \in Nat
  BY TemplateFields
<1>2. apiIdx = 0 \/ apiIdx \in DOMAIN t.rules
  <2>1. ASSUME P # {} PROVE Min(P) \in P
    <3>1. P \subseteq Nat
      OBVIOUS
    <3> HIDE DEF P
    <3>2. \E i \in P : \A j \in P : i <= j
      BY <2>1, <3>1, LeastOf
    <3> QED
      BY <3>2 DEF Min
  <2> QED
    BY <1>1, <2>1
<1>3. EnsureStatsRouting(t) = IF apiIdx = 1 THEN t ELSE [t EXCEPT !.rules = Cons(rule, others)]
  BY DEF EnsureStatsRouting, SelectInSeq
<1> HIDE DEF P, apiIdx
<1>4. others \in Seq(Rule)
  BY <1>1, <1>2, RemoveAtFacts
<1>5. rule \in Rule
  <2>1. ApiRule \in Rule
    BY DEF ApiRule, Rule
  <2>2. \A r \in Rule : [r EXCEPT !.enabled = TRUE] \in Rule
    BY DEF Rule
  <2> QED
    BY <1>1, <1>2, <2>1, <2>2
<1> HIDE DEF rule, others
<1>6. Cons(rule, others) \in Seq(Rule)
  BY <1>4, <1>5 DEF Cons
<1> QED
  BY <1>3, <1>6, WithRules

LEMMA UpdateWarpTyped ==
    ASSUME NEW t \in Template, NEW key \in Nat
    PROVE  UpdateWarp(t, key) \in Template
<1> DEFINE idx == FindIndex(t, {Warp})
           o == [t.outbounds[idx] EXCEPT !.key = key]
           list == Put(t.outbounds, idx, o, Hole)
<1>1. t.outbounds \in Seq(Outbound) /\ Len(t.outbounds) \in Nat
  BY TemplateFields
<1>2. idx \in Nat /\ (idx # 0 => idx \in DOMAIN t.outbounds)
  BY <1>1, FindIndexFacts
<1>3. UpdateWarp(t, key) = IF idx = 0 THEN t
                           ELSE EnsureStatsRouting([t EXCEPT !.outbounds = list])
  BY DEF UpdateWarp
<1> HIDE DEF idx
<1>4. idx # 0 => o \in Outbound
  <2>1. \A x \in Outbound : [x EXCEPT !.key = key] \in Outbound
    BY DEF Outbound
  <2> QED
    BY <1>1, <1>2, <2>1
<1> HIDE DEF o
<1>5. idx # 0 => list \in Seq(Outbound)
  BY <1>1, <1>2, <1>4, PutFacts, HolesAreTyped
<1> HIDE DEF list
<1> QED
  BY <1>3, <1>5, WithOutbounds, EnsureStatsRoutingTyped

-----------------------------------------------------------------------------
(* References. *)

\* A mention in t of the kind what, and what it takes for it to name something.
Mentioned(t, what, tag) ==
    \/ what = "rule"     /\ \E r \in Range(t.rules) : r.out = tag
    \/ what = "balancer" /\ \E r \in Range(t.rules) : r.bal = tag
    \/ what = "fallback" /\ \E b \in Range(t.balancers) : b.fallback = tag
    \/ what = "selector" /\ \E b \in Range(t.balancers) : tag \in b.selector
    \/ what = "dialer"   /\ \E o \in Range(t.outbounds) : o.dialer = tag

Names(t, what, tag) ==
    tag \in (IF what = "balancer" THEN BalancersOf(t) ELSE TagsOf(t) \cup Offered \cup {Api})

LEMMA MentionsAre ==
    ASSUME NEW t, NEW m
    PROVE  m \in Mentions(t) <=>
              \E what, tag : m = <<what, tag>> /\ tag # None /\ Mentioned(t, what, tag)
<1> DEFINE rules == {t.rules[i] : i \in DOMAIN t.rules}
           lbs   == {t.balancers[i] : i \in DOMAIN t.balancers}
           obs   == {t.outbounds[i] : i \in DOMAIN t.outbounds}
           all   == {<<"rule", r.out>> : r \in rules} \cup {<<"balancer", r.bal>> : r \in rules}
              \cup {<<"fallback", b.fallback>> : b \in lbs}
              \cup {<<"dialer", o.dialer>> : o \in obs}
              \cup UNION {{<<"selector", s>> : s \in b.selector} : b \in lbs}
<1>1. rules = Range(t.rules) /\ lbs = Range(t.balancers) /\ obs = Range(t.outbounds)
  BY DEF Range
<1>2. Mentions(t) = {x \in all : x[2] # None}
  BY DEF Mentions
<1> HIDE DEF rules, lbs, obs
<1>3. m \in all <=> \E what, tag : m = <<what, tag>> /\ Mentioned(t, what, tag)
  <2>1. m \in all <=> \/ \E r \in rules : m = <<"rule", r.out>>
                      \/ \E r \in rules : m = <<"balancer", r.bal>>
                      \/ \E b \in lbs : m = <<"fallback", b.fallback>>
                      \/ \E b \in lbs : \E s \in b.selector : m = <<"selector", s>>
                      \/ \E o \in obs : m = <<"dialer", o.dialer>>
    OBVIOUS
  <2> HIDE DEF all
  <2>2. ASSUME m \in all PROVE \E what, tag : m = <<what, tag>> /\ Mentioned(t, what, tag)
    BY <1>1, <2>1, <2>2, Zenon DEF Mentioned
  <2>3. ASSUME NEW what, NEW tag, m = <<what, tag>>, Mentioned(t, what, tag) PROVE m \in all
    BY <1>1, <2>1, <2>3 DEF Mentioned
  <2> QED
    BY <2>2, <2>3
<1> HIDE DEF all
<1>4. \A what, tag : m = <<what, tag>> => m[2] = tag
  OBVIOUS
<1> QED
  BY <1>2, <1>3, <1>4

LEMMA TagsAre ==
    ASSUME NEW t
    PROVE  /\ TagsOf(t) = {o.tag : o \in Range(t.outbounds)} \ {None}
           /\ BalancersOf(t) = {b.tag : b \in Range(t.balancers)}
  BY DEF TagsOf, BalancersOf, Range

\* What a change may leave hanging: what hung before, and what named something in a list
\* that got shorter.
Excused(t, u) ==
    {m \in Mentions(t) :
        \/ /\ m[1] = "balancer" /\ m[2] \notin BalancersOf(u)
           /\ Len(u.balancers) < Len(t.balancers)
        \/ /\ m[1] # "balancer" /\ m[2] \notin TagsOf(u)
           /\ Len(u.outbounds) < Len(t.outbounds)}

NoneLostBut(t, u, free) ==
    Dangling(u) \subseteq Dangling(t) \cup {<<"rule", Blocked>>} \cup Excused(t, u) \cup free
NoneLost(t, u) == NoneLostBut(t, u, {})

\* A mention of u is free to name nothing, or names something, or was there when what it
\* names was lost from no list.
LEMMA NoneLostButBy ==
    ASSUME NEW t, NEW u, NEW free,
           \A what, tag : Mentioned(u, what, tag) /\ tag # None =>
              \/ <<what, tag>> \in free
              \/ Names(u, what, tag)
              \/ what = "rule" /\ tag = Blocked
              \/ /\ Mentioned(t, what, tag)
                 /\ Names(t, what, tag) =>
                        IF what = "balancer" THEN Len(u.balancers) < Len(t.balancers)
                        ELSE Len(u.outbounds) < Len(t.outbounds)
    PROVE  NoneLostBut(t, u, free)
<1> SUFFICES ASSUME NEW m \in Dangling(u), m \notin free
             PROVE  m \in Dangling(t) \cup {<<"rule", Blocked>>} \cup Excused(t, u)
  BY DEF NoneLostBut
<1>1. PICK what, tag : m = <<what, tag>> /\ tag # None /\ Mentioned(u, what, tag)
  BY MentionsAre DEF Dangling
<1>2. m[1] = what /\ m[2] = tag
  BY <1>1
<1>3. ~ Names(u, what, tag)
  BY <1>2 DEF Dangling, Names
<1>4. CASE what = "rule" /\ tag = Blocked
  BY <1>1, <1>4
<1>5. CASE ~ (what = "rule" /\ tag = Blocked)
  <2>1. m \in Mentions(t)
    BY <1>1, <1>3, <1>5, MentionsAre
  <2>2. CASE ~ Names(t, what, tag)
    BY <1>2, <2>1, <2>2 DEF Dangling, Names
  <2>3. CASE Names(t, what, tag)
    <3>1. IF what = "balancer" THEN Len(u.balancers) < Len(t.balancers)
          ELSE Len(u.outbounds) < Len(t.outbounds)
      BY <1>1, <1>3, <1>5, <2>3
    <3> QED
      BY <1>2, <1>3, <2>1, <3>1 DEF Excused, Names
  <2> QED
    BY <2>2, <2>3
<1> QED
  BY <1>4, <1>5

LEMMA NoneLostBy ==
    ASSUME NEW t, NEW u,
           \A what, tag : Mentioned(u, what, tag) /\ tag # None =>
              \/ Names(u, what, tag)
              \/ what = "rule" /\ tag = Blocked
              \/ /\ Mentioned(t, what, tag)
                 /\ Names(t, what, tag) =>
                        IF what = "balancer" THEN Len(u.balancers) < Len(t.balancers)
                        ELSE Len(u.outbounds) < Len(t.outbounds)
    PROVE  NoneLost(t, u)
  BY NoneLostButBy DEF NoneLost

\* The usual case: what is new names something, and a list that lost a tag got shorter.
LEMMA NoneLostWhen ==
    ASSUME NEW t, NEW u,
           \A what, tag : Mentioned(u, what, tag) /\ tag # None =>
              \/ Mentioned(t, what, tag)
              \/ Names(u, what, tag)
              \/ what = "rule" /\ tag = Blocked,
           TagsOf(t) \subseteq TagsOf(u) \/ Len(u.outbounds) < Len(t.outbounds),
           BalancersOf(t) \subseteq BalancersOf(u) \/ Len(u.balancers) < Len(t.balancers)
    PROVE  NoneLost(t, u)
  BY NoneLostBy DEF Names

\* The observatories stay aligned as long as they and the balancers are left alone.
ObserversKept(t, u) ==
    Aligned(t) => Aligned(u) \/ (u.balancers # t.balancers /\ u.outbounds # t.outbounds)

LEMMA AlignedDepends ==
    ASSUME NEW t, NEW u, u.balancers = t.balancers, Rest(u) = Rest(t)
    PROVE  Aligned(t) => Aligned(u)
<1>1. u.observatory = t.observatory /\ u.burstObservatory = t.burstObservatory
  BY DEF Rest
<1>2. \A S : Using(u, S) = Using(t, S)
  BY DEF Using
<1> QED
  BY <1>1, <1>2 DEF Aligned

-----------------------------------------------------------------------------
(* What each form leaves of the references and of the observatories. *)

FollowsBut(t, u, free) == NoneLostBut(t, u, free) /\ ObserversKept(t, u)
Follows(t, u) == NoneLost(t, u) /\ ObserversKept(t, u)

\* The outbounds alone change: nothing new is mentioned but outbounds that are there.
LEMMA OutboundsFollow ==
    ASSUME NEW t \in Template, NEW list \in Seq(Outbound), NEW u,
           u = [t EXCEPT !.outbounds = list],
           \A o \in Range(list) : \/ o.dialer \in TagsOf(u) \cup {None}
                                  \/ \E p \in Range(t.outbounds) : o.dialer = p.dialer,
           TagsOf(t) \subseteq TagsOf(u) \/ Len(list) < Len(t.outbounds)
    PROVE  Follows(t, u)
<1>1. /\ u.outbounds = list /\ u.rules = t.rules /\ u.balancers = t.balancers
      /\ Rest(u) = Rest(t)
  BY WithOutbounds
<1>2. BalancersOf(u) = BalancersOf(t)
  BY <1>1 DEF BalancersOf
<1>3. ASSUME NEW what, NEW tag, Mentioned(u, what, tag), tag # None
      PROVE  Mentioned(t, what, tag) \/ Names(u, what, tag)
  <2>1. CASE what = "dialer"
    BY <1>1, <1>3, <2>1 DEF Mentioned, Names
  <2>2. CASE what # "dialer"
    BY <1>1, <1>3, <2>2 DEF Mentioned
  <2> QED
    BY <2>1, <2>2
<1>4. NoneLost(t, u)
  BY <1>1, <1>2, <1>3, NoneLostWhen
<1> QED
  BY <1>1, <1>4, AlignedDepends DEF Follows, ObserversKept

\* The rules alone change.
LEMMA RulesFollow ==
    ASSUME NEW t \in Template, NEW list \in Seq(Rule), NEW u,
           u = [t EXCEPT !.rules = list],
           \A r \in Range(list) :
              /\ \/ r.out \in TagsOf(t) \cup Offered \cup {Api, None, Blocked}
                 \/ \E q \in Range(t.rules) : r.out = q.out
              /\ \/ r.bal \in BalancersOf(t) \cup {None}
                 \/ \E q \in Range(t.rules) : r.bal = q.bal
    PROVE  Follows(t, u)
<1>1. /\ u.outbounds = t.outbounds /\ u.rules = list /\ u.balancers = t.balancers
      /\ Rest(u) = Rest(t)
  BY WithRules
<1>2. BalancersOf(u) = BalancersOf(t) /\ TagsOf(u) = TagsOf(t)
  BY <1>1 DEF BalancersOf, TagsOf
<1>3. ASSUME NEW what, NEW tag, Mentioned(u, what, tag), tag # None
      PROVE  Mentioned(t, what, tag) \/ Names(u, what, tag) \/ (what = "rule" /\ tag = Blocked)
  <2>1. CASE what \in {"rule", "balancer"}
    BY <1>1, <1>2, <1>3, <2>1 DEF Mentioned, Names
  <2>2. CASE what \notin {"rule", "balancer"}
    BY <1>1, <1>3, <2>2 DEF Mentioned
  <2> QED
    BY <2>1, <2>2
<1>4. NoneLost(t, u)
  BY <1>1, <1>2, <1>3, NoneLostWhen
<1> QED
  BY <1>1, <1>4, AlignedDepends DEF Follows, ObserversKept

LEMMA FollowsItself ==
    ASSUME NEW t PROVE Follows(t, t)
  BY NoneLostWhen DEF Follows, ObserversKept

LEMMA AddOutboundFollows ==
    ASSUME NEW t \in Template, NEW o \in Outbound, o.dialer \in TagsOf(t) \cup {None}
    PROVE  Follows(t, AddOutbound(t, o))
<1> DEFINE list == Append(t.outbounds, o)
           u == AddOutbound(t, o)
<1>1. list \in Seq(Outbound) /\ Range(list) = Range(t.outbounds) \cup {o}
  BY TemplateFields, RangeAppend
<1>2. u = [t EXCEPT !.outbounds = list]
  BY DEF AddOutbound
<1> HIDE DEF list, u
<1>3. u.outbounds = list
  BY <1>1, <1>2, WithOutbounds
<1>4. TagsOf(t) \subseteq TagsOf(u)
  BY <1>1, <1>3, TagsAre
<1> QED
  BY <1>1, <1>2, <1>4, OutboundsFollow DEF u

LEMMA MoveOutboundFollows ==
    ASSUME NEW t \in Template, NEW from \in DOMAIN t.outbounds, NEW to \in DOMAIN t.outbounds
    PROVE  Follows(t, MoveOutbound(t, from, to))
<1> DEFINE list == Move(t.outbounds, from, to)
           u == MoveOutbound(t, from, to)
<1>1. list \in Seq(Outbound) /\ Range(list) = Range(t.outbounds)
  BY TemplateFields, MoveFacts
<1>2. u = [t EXCEPT !.outbounds = list]
  BY DEF MoveOutbound
<1> HIDE DEF list, u
<1>3. u.outbounds = list
  BY <1>1, <1>2, WithOutbounds
<1>4. TagsOf(t) \subseteq TagsOf(u)
  BY <1>1, <1>3, TagsAre
<1> QED
  BY <1>1, <1>2, <1>4, OutboundsFollow DEF u

LEMMA DeleteOutboundFollows ==
    ASSUME NEW t \in Template, NEW i
    PROVE  Follows(t, DeleteOutbound(t, i))
<1> DEFINE list == RemoveAt(t.outbounds, i)
           u == DeleteOutbound(t, i)
<1>1. CASE i \in DOMAIN t.outbounds
  <2>0. t.outbounds \in Seq(Outbound) /\ Len(t.outbounds) \in Nat
    BY TemplateFields
  <2>a. /\ list \in Seq(Outbound) /\ Len(list) = Len(t.outbounds) - 1
        /\ Range(t.outbounds) = Range(list) \cup {t.outbounds[i]}
    BY <1>1, <2>0, RemoveAtFacts
  <2>1. /\ list \in Seq(Outbound) /\ Range(list) \subseteq Range(t.outbounds)
        /\ Len(list) = Len(t.outbounds) - 1
    BY <2>a
  <2>2. u = [t EXCEPT !.outbounds = list]
    BY <1>1 DEF DeleteOutbound
  <2> HIDE DEF list, u
  <2>3. Len(list) < Len(t.outbounds)
    BY <2>0, <2>1
  <2> QED
    BY <2>1, <2>2, <2>3, OutboundsFollow DEF u
<1>2. CASE i \notin DOMAIN t.outbounds
  BY <1>2, FollowsItself DEF DeleteOutbound
<1> QED
  BY <1>1, <1>2

\* Credentials put in the place of an outbound of the same tag.
LEMMA PutOutboundFollows ==
    ASSUME NEW t \in Template, NEW i \in DOMAIN t.outbounds, NEW o \in Outbound,
           t.outbounds[i].tag \in {o.tag, None},
           o.dialer \in TagsOf(t) \cup {None, t.outbounds[i].dialer}
    PROVE  Follows(t, [t EXCEPT !.outbounds = Put(t.outbounds, i, o, Hole)])
<1>1. t.outbounds \in Seq(Outbound) /\ Hole \in Outbound
  BY TemplateFields, HolesAreTyped
<1> DEFINE list == Put(t.outbounds, i, o, Hole)
<1>2. list \in Seq(Outbound) /\ IsPut(list, t.outbounds, i, o)
  BY <1>1, PutInside
<1> DEFINE u == [t EXCEPT !.outbounds = list]
<1>e. u = [t EXCEPT !.outbounds = list]
  OBVIOUS
<1> HIDE DEF list, u
<1>4. u.outbounds = list
  BY <1>2, <1>e, WithOutbounds
<1>5. TagsOf(t) \subseteq TagsOf(u)
  <2>1. \A j \in DOMAIN t.outbounds : t.outbounds[j].tag \in {list[j].tag, None}
    BY <1>2 DEF IsPut
  <2>2. DOMAIN list = DOMAIN t.outbounds
    BY <1>2 DEF IsPut
  <2> QED
    BY <1>4, <2>1, <2>2 DEF TagsOf
<1>6. Follows(t, u)
  <2>1. Range(list) \subseteq Range(t.outbounds) \cup {o}
    BY <1>2 DEF IsPut
  <2>2. t.outbounds[i] \in Range(t.outbounds)
    BY DEF Range
  <2> QED
    BY <2>1, <2>2, <1>2, <1>5, <1>e, OutboundsFollow
<1> QED
  BY <1>6 DEF u, list

\* Renaming an outbound: everything that mentioned the old tag mentions the new one.
LEMMA RenameMentions ==
    ASSUME NEW t \in Template, NEW old, NEW new \in Tag, NEW what, NEW tag,
           Mentioned(propagateOutboundTagRename(t, old, new), what, tag)
    PROVE  IF what = "balancer" THEN Mentioned(t, what, tag)
           ELSE \E was : Mentioned(t, what, was) /\ tag = Renamed(was, old, new)
<1> DEFINE rule(r) == [r EXCEPT !.out = Renamed(r.out, old, new)]
           balancer(b) == [b EXCEPT !.fallback = Renamed(b.fallback, old, new),
                                    !.selector = {Renamed(s, old, new) : s \in b.selector}]
           outbound(o) == [o EXCEPT !.dialer = Renamed(o.dialer, old, new)]
           u == propagateOutboundTagRename(t, old, new)
<1>1. /\ u.rules = [i \in DOMAIN t.rules |-> rule(t.rules[i])]
      /\ u.balancers = [i \in DOMAIN t.balancers |-> balancer(t.balancers[i])]
      /\ u.outbounds = [i \in DOMAIN t.outbounds |-> outbound(t.outbounds[i])]
  BY DEF propagateOutboundTagRename, Template
<1>2. \A r \in Rule : rule(r).out = Renamed(r.out, old, new) /\ rule(r).bal = r.bal
  BY DEF Rule
<1>3. \A b \in Balancer : /\ balancer(b).fallback = Renamed(b.fallback, old, new)
                          /\ balancer(b).selector = {Renamed(s, old, new) : s \in b.selector}
  BY DEF Balancer
<1>4. \A o \in Outbound : outbound(o).dialer = Renamed(o.dialer, old, new)
  BY DEF Outbound
<1>5. /\ \A i \in DOMAIN t.rules : t.rules[i] \in Rule
      /\ \A i \in DOMAIN t.balancers : t.balancers[i] \in Balancer
      /\ \A i \in DOMAIN t.outbounds : t.outbounds[i] \in Outbound
  BY TemplateFields
<1>6. Mentioned(u, what, tag)
  OBVIOUS
<1> HIDE DEF rule, balancer, outbound, u
<1>7. ASSUME NEW r \in Range(u.rules)
      PROVE  \E q \in Range(t.rules) : r.out = Renamed(q.out, old, new) /\ r.bal = q.bal
  BY <1>1, <1>2, <1>5 DEF Range
<1>8. ASSUME NEW b \in Range(u.balancers)
      PROVE  \E c \in Range(t.balancers) :
                 /\ b.fallback = Renamed(c.fallback, old, new)
                 /\ b.selector = {Renamed(s, old, new) : s \in c.selector}
  <2>1. PICK i \in DOMAIN t.balancers : b = balancer(t.balancers[i])
    BY <1>1 DEF Range
  <2>2. t.balancers[i] \in Range(t.balancers) /\ t.balancers[i] \in Balancer
    BY <1>5 DEF Range
  <2> QED
    BY <1>3, <2>1, <2>2
<1>9. ASSUME NEW o \in Range(u.outbounds)
      PROVE  \E p \in Range(t.outbounds) : o.dialer = Renamed(p.dialer, old, new)
  BY <1>1, <1>4, <1>5 DEF Range
<1>10. CASE what = "rule"
  BY <1>6, <1>7, <1>10 DEF Mentioned
<1>11. CASE what = "balancer"
  BY <1>6, <1>7, <1>11 DEF Mentioned
<1>12. CASE what = "fallback"
  BY <1>6, <1>8, <1>12 DEF Mentioned
<1>13. CASE what = "selector"
  <2>1. PICK b \in Range(u.balancers) : tag \in b.selector
    BY <1>6, <1>13 DEF Mentioned
  <2>2. PICK c \in Range(t.balancers) : b.selector = {Renamed(s, old, new) : s \in c.selector}
    BY <1>8
  <2>3. PICK s \in c.selector : tag = Renamed(s, old, new)
    BY <2>1, <2>2
  <2> QED
    BY <1>13, <2>3 DEF Mentioned
<1>14. CASE what = "dialer"
  BY <1>6, <1>9, <1>14 DEF Mentioned
<1> QED
  BY <1>6, <1>10, <1>11, <1>12, <1>13, <1>14 DEF Mentioned

\* The tags stay where they are.
LEMMA RenameKeepsTags ==
    ASSUME NEW t \in Template, NEW old, NEW new \in Tag
    PROVE  /\ TagsOf(propagateOutboundTagRename(t, old, new)) = TagsOf(t)
           /\ BalancersOf(propagateOutboundTagRename(t, old, new)) = BalancersOf(t)
           /\ \A i \in DOMAIN t.outbounds :
                 propagateOutboundTagRename(t, old, new).outbounds[i].tag = t.outbounds[i].tag
<1> DEFINE balancer(b) == [b EXCEPT !.fallback = Renamed(b.fallback, old, new),
                                    !.selector = {Renamed(s, old, new) : s \in b.selector}]
           outbound(o) == [o EXCEPT !.dialer = Renamed(o.dialer, old, new)]
           u == propagateOutboundTagRename(t, old, new)
<1>1. /\ u.balancers = [i \in DOMAIN t.balancers |-> balancer(t.balancers[i])]
      /\ u.outbounds = [i \in DOMAIN t.outbounds |-> outbound(t.outbounds[i])]
  BY DEF propagateOutboundTagRename, Template
<1>2. \A b \in Balancer : balancer(b).tag = b.tag
  BY DEF Balancer
<1>3. \A o \in Outbound : outbound(o).tag = o.tag
  BY DEF Outbound
<1>4. /\ \A i \in DOMAIN t.balancers : t.balancers[i] \in Balancer
      /\ \A i \in DOMAIN t.outbounds : t.outbounds[i] \in Outbound
  BY TemplateFields
<1> HIDE DEF balancer, outbound, u
<1>5. DOMAIN u.balancers = DOMAIN t.balancers
      /\ \A i \in DOMAIN t.balancers : u.balancers[i].tag = t.balancers[i].tag
  BY <1>1, <1>2, <1>4
<1>6. DOMAIN u.outbounds = DOMAIN t.outbounds
      /\ \A i \in DOMAIN t.outbounds : u.outbounds[i].tag = t.outbounds[i].tag
  BY <1>1, <1>3, <1>4
<1>7. TagsOf(u) = TagsOf(t) /\ BalancersOf(u) = BalancersOf(t)
  BY <1>5, <1>6 DEF TagsOf, BalancersOf
<1> QED
  BY <1>6, <1>7 DEF u

\* An outbound rewritten under another tag takes the references with it.
LEMMA ReplaceOutboundFollows ==
    ASSUME NEW t \in Template, NEW i \in DOMAIN t.outbounds, NEW o \in Outbound,
           o.tag # None, o.dialer \in TagsOf(t) \cup {None, t.outbounds[i].dialer}
    PROVE  Follows(t, ReplaceOutbound(t, i, o))
<1> DEFINE old == t.outbounds[i].tag
           list == Put(t.outbounds, i, o, Hole)
           put == [t EXCEPT !.outbounds = list]
           u == propagateOutboundTagRename(put, old, o.tag)
<1>1. CASE old \in {None, o.tag}
  <2>1. ReplaceOutbound(t, i, o) = put
    BY <1>1 DEF ReplaceOutbound
  <2> QED
    BY <1>1, <2>1, PutOutboundFollows
<1>2. CASE old \notin {None, o.tag}
  <2>1. ReplaceOutbound(t, i, o) = u
    BY <1>2 DEF ReplaceOutbound
  <2>2. t.outbounds \in Seq(Outbound) /\ Hole \in Outbound /\ o.tag \in Tag
    BY TemplateFields, HolesAreTyped DEF Outbound
  <2>3. list \in Seq(Outbound) /\ IsPut(list, t.outbounds, i, o)
    BY <2>2, PutInside
  <2>4. put = [t EXCEPT !.outbounds = list]
    OBVIOUS
  <2> HIDE DEF list, put, old, u
  <2>5. /\ put \in Template /\ put.outbounds = list /\ put.rules = t.rules
        /\ put.balancers = t.balancers /\ Rest(put) = Rest(t)
    BY <2>3, <2>4, WithOutbounds
  <2>6. TagsOf(t) \subseteq TagsOf(put) \cup {old} /\ o.tag \in TagsOf(put)
    <3>1. \A j \in DOMAIN t.outbounds : t.outbounds[j].tag \in {list[j].tag, old}
      BY <2>3 DEF IsPut, old
    <3>2. DOMAIN list = DOMAIN t.outbounds /\ list[i] = o
      BY <2>3 DEF IsPut
    <3> QED
      BY <2>5, <3>1, <3>2 DEF TagsOf
  <2>7. /\ TagsOf(u) = TagsOf(put) /\ BalancersOf(u) = BalancersOf(put)
        /\ u.outbounds[i].tag = list[i].tag
    BY <2>2, <2>3, <2>5, RenameKeepsTags DEF IsPut, u
  <2>8. BalancersOf(put) = BalancersOf(t)
    BY <2>5 DEF BalancersOf
  <2>9. ASSUME NEW what, NEW was, Mentioned(put, what, was)
        PROVE  Mentioned(t, what, was) \/ (what = "dialer" /\ was \in TagsOf(t) \cup {None})
    <3>1. Range(list) \subseteq Range(t.outbounds) \cup {o}
      BY <2>3 DEF IsPut
    <3>2. t.outbounds[i] \in Range(t.outbounds)
      BY DEF Range
    <3> QED
      BY <2>5, <2>9, <3>1, <3>2 DEF Mentioned
  <2>10. ASSUME NEW what, NEW tag, Mentioned(u, what, tag), tag # None, ~ Names(u, what, tag)
         PROVE  Mentioned(t, what, tag) /\ ~ Names(t, what, tag)
    <3>1. CASE what = "balancer"
      <4>1. Mentioned(put, what, tag)
        BY <2>2, <2>5, <2>10, <3>1, RenameMentions DEF u
      <4> QED
        BY <2>7, <2>8, <2>9, <2>10, <3>1, <4>1 DEF Names
    <3>2. CASE what # "balancer"
      <4>1. PICK was : Mentioned(put, what, was) /\ tag = Renamed(was, old, o.tag)
        BY <2>2, <2>5, <2>10, <3>2, RenameMentions DEF u
      <4>2. tag \notin TagsOf(put) \cup Offered \cup {Api}
        BY <2>7, <2>10, <3>2 DEF Names
      <4>3. tag = was /\ was # old
        BY <2>6, <4>1, <4>2 DEF Renamed
      <4>4. tag \notin TagsOf(t)
        BY <2>6, <4>2, <4>3
      <4>5. Mentioned(t, what, tag)
        BY <2>9, <2>10, <4>1, <4>3, <4>4
      <4> QED
        BY <3>2, <4>2, <4>4, <4>5 DEF Names
    <3> QED
      BY <3>1, <3>2
  <2>11. NoneLost(t, u)
    BY <2>10, NoneLostBy
  <2>12. Rest(u) = Rest(t)
    BY <2>2, <2>5, RenameTyped DEF u
  <2>13. u.outbounds # t.outbounds
    BY <1>2, <2>3, <2>7 DEF IsPut, old
  <2>14. Follows(t, u)
    BY <2>11, <2>12, <2>13, AlignedDepends DEF Follows, ObserversKept
  <2> QED
    BY <2>1, <2>14
<1> QED
  BY <1>1, <1>2

\* The rules of the form send to what is there, or where they did.
RuleNames(t, r) ==
    /\ \/ r.out \in TagsOf(t) \cup Offered \cup {Api, None}
       \/ \E q \in Range(t.rules) : r.out = q.out
    /\ \/ r.bal \in BalancersOf(t) \cup {None}
       \/ \E q \in Range(t.rules) : r.bal = q.bal

LEMMA PutRuleFollows ==
    ASSUME NEW t \in Template, NEW i \in 1 .. Len(t.rules) + 1, NEW r \in Rule, RuleNames(t, r)
    PROVE  Follows(t, PutRule(t, i, r))
<1> DEFINE list == Put(t.rules, i, r, NoRule)
           u == PutRule(t, i, r)
<1>1. t.rules \in Seq(Rule) /\ NoRule \in Rule /\ i \in Nat \ {0}
  BY TemplateFields, HolesAreTyped
<1>2. list \in Seq(Rule) /\ Range(list) \subseteq Range(t.rules) \cup {r}
  BY <1>1, PutFacts
<1>3. u = [t EXCEPT !.rules = list]
  BY DEF PutRule
<1> HIDE DEF list, u
<1>4. ASSUME NEW x \in Range(list)
      PROVE  /\ \/ x.out \in TagsOf(t) \cup Offered \cup {Api, None, Blocked}
                \/ \E q \in Range(t.rules) : x.out = q.out
             /\ \/ x.bal \in BalancersOf(t) \cup {None}
                \/ \E q \in Range(t.rules) : x.bal = q.bal
  BY <1>2 DEF RuleNames
<1> QED
  BY <1>2, <1>3, <1>4, RulesFollow DEF u

LEMMA DeleteRuleFollows ==
    ASSUME NEW t \in Template, NEW i
    PROVE  Follows(t, DeleteRule(t, i))
<1> DEFINE list == RemoveAt(t.rules, i)
           u == DeleteRule(t, i)
<1>1. CASE i \in DOMAIN t.rules
  <2>1. list \in Seq(Rule) /\ Range(t.rules) = Range(list) \cup {t.rules[i]}
    BY <1>1, TemplateFields, RemoveAtFacts
  <2>2. u = [t EXCEPT !.rules = list]
    BY <1>1 DEF DeleteRule
  <2> HIDE DEF list, u
  <2> QED
    BY <2>1, <2>2, RulesFollow DEF u
<1>2. CASE i \notin DOMAIN t.rules
  BY <1>2, FollowsItself DEF DeleteRule
<1> QED
  BY <1>1, <1>2

LEMMA MoveRuleFollows ==
    ASSUME NEW t \in Template, NEW from \in DOMAIN t.rules, NEW to \in DOMAIN t.rules
    PROVE  Follows(t, MoveRule(t, from, to))
<1> DEFINE list == Move(t.rules, from, to)
           u == MoveRule(t, from, to)
<1>1. list \in Seq(Rule) /\ Range(list) = Range(t.rules)
  BY TemplateFields, MoveFacts
<1>2. u = [t EXCEPT !.rules = list]
  BY DEF MoveRule
<1> HIDE DEF list, u
<1> QED
  BY <1>1, <1>2, RulesFollow DEF u

LEMMA ToggleRuleFollows ==
    ASSUME NEW t \in Template, NEW i \in DOMAIN t.rules
    PROVE  Follows(t, ToggleRule(t, i))
<1> DEFINE u == ToggleRule(t, i)
<1>1. /\ u.outbounds = t.outbounds /\ u.balancers = t.balancers /\ Rest(u) = Rest(t)
      /\ DOMAIN u.rules = DOMAIN t.rules
      /\ \A j \in DOMAIN t.rules : u.rules[j].out = t.rules[j].out /\ u.rules[j].bal = t.rules[j].bal
  BY ToggleRuleFacts
<1> HIDE DEF u
<1>2. ASSUME NEW r \in Range(u.rules)
      PROVE  \E q \in Range(t.rules) : r.out = q.out /\ r.bal = q.bal
  BY <1>1 DEF Range
<1>3. ASSUME NEW what, NEW tag, Mentioned(u, what, tag) PROVE Mentioned(t, what, tag)
  BY <1>1, <1>2, <1>3 DEF Mentioned
<1>4. TagsOf(u) = TagsOf(t) /\ BalancersOf(u) = BalancersOf(t)
  BY <1>1 DEF TagsOf, BalancersOf
<1>5. NoneLost(t, u)
  BY <1>3, <1>4, NoneLostWhen
<1> QED
  BY <1>1, <1>5, AlignedDepends DEF Follows, ObserversKept, u

\* The basic view sends to "direct", which it then provides, or to "blocked".
LEMMA SetBasicDomainsFollows ==
    ASSUME NEW t \in Template, NEW tag \in {Direct, Blocked}, NEW some \in BOOLEAN
    PROVE  Follows(t, SetBasicDomains(t, tag, some))
<1> DEFINE v == ruleSetter(t, tag, some)
           u == SetBasicDomains(t, tag, some)
<1>1. tag \in Tag /\ tag # None /\ None \notin BalancerTag /\ None \notin Tag
  BY TemplateAssumption
<1>2. /\ v \in Template /\ v.outbounds = t.outbounds /\ v.balancers = t.balancers
      /\ Rest(v) = Rest(t)
      /\ \A r \in Range(v.rules) : r \in Range(t.rules) \/ (r.out = tag /\ r.bal = None)
  BY <1>1, ruleSetterFacts
<1>3. CASE tag = Direct
  <2>1. u = syncOutbound(v, tag)
    BY <1>3 DEF SetBasicDomains
  <2> HIDE DEF u, v
  <2>2. /\ u.rules = v.rules /\ u.balancers = t.balancers /\ Rest(u) = Rest(t)
        /\ (\E r \in Range(v.rules) : r.out = tag) => \E o \in Range(u.outbounds) : o.tag = tag
        /\ \A o \in Range(u.outbounds) : o \in Range(t.outbounds) \/ o.dialer = None
        /\ \/ Range(t.outbounds) \subseteq Range(u.outbounds)
           \/ Len(u.outbounds) < Len(t.outbounds)
    BY <1>1, <1>2, <2>1, syncOutboundFacts
  <2>3. BalancersOf(u) = BalancersOf(t)
    BY <2>2 DEF BalancersOf
  <2>4. TagsOf(t) \subseteq TagsOf(u) \/ Len(u.outbounds) < Len(t.outbounds)
    BY <2>2, TagsAre
  <2>5. (\E r \in Range(v.rules) : r.out = tag) => tag \in TagsOf(u)
    BY <1>1, <2>2, TagsAre
  <2>6. ASSUME NEW what, NEW x, Mentioned(u, what, x), x # None
        PROVE  Mentioned(t, what, x) \/ Names(u, what, x)
    <3>1. CASE what = "rule"
      BY <1>2, <2>2, <2>5, <2>6, <3>1 DEF Mentioned, Names
    <3>2. CASE what = "balancer"
      BY <1>2, <2>2, <2>6, <3>2 DEF Mentioned
    <3>3. CASE what = "dialer"
      BY <2>2, <2>6, <3>3 DEF Mentioned
    <3>4. CASE what \notin {"rule", "balancer", "dialer"}
      BY <2>2, <2>6, <3>4 DEF Mentioned
    <3> QED
      BY <3>1, <3>2, <3>3, <3>4
  <2>7. NoneLost(t, u)
    BY <2>3, <2>4, <2>6, NoneLostWhen
  <2> QED
    BY <2>2, <2>7, AlignedDepends DEF Follows, ObserversKept, u
<1>4. CASE tag = Blocked /\ tag # Direct
  <2>1. u = v
    BY <1>4 DEF SetBasicDomains
  <2> HIDE DEF u, v
  <2>2. TagsOf(v) = TagsOf(t) /\ BalancersOf(v) = BalancersOf(t)
    BY <1>2 DEF TagsOf, BalancersOf
  <2>3. ASSUME NEW what, NEW x, Mentioned(v, what, x), x # None
        PROVE  Mentioned(t, what, x) \/ (what = "rule" /\ x = Blocked)
    BY <1>2, <1>4, <2>3 DEF Mentioned
  <2>4. NoneLost(t, v)
    BY <2>2, <2>3, NoneLostWhen
  <2> QED
    BY <1>2, <2>1, <2>4, AlignedDepends DEF Follows, ObserversKept, u
<1> QED
  BY <1>3, <1>4

\* The balancer of the form falls back to what is there, or what it did, and watches that
\* or one of the tags that are typed.
BalancerNames(t, b, typed) ==
    /\ \/ b.fallback \in TagsOf(t) \cup Offered \cup {None}
       \/ \E c \in Range(t.balancers) : b.fallback = c.fallback
    /\ \A s \in b.selector : s \in typed \/ \E c \in Range(t.balancers) : s \in c.selector

\* The balancers change, and the rules that send to them; the observatories follow.
LEMMA BalancersFollow ==
    ASSUME NEW t \in Template, NEW v \in Template, NEW typed, v.outbounds = t.outbounds,
           \A r \in Range(v.rules) : \E q \in Range(t.rules) :
              /\ r.out = q.out
              /\ \/ r.bal \in BalancersOf(v)
                 \/ /\ r.bal = q.bal
                    /\ r.bal \in BalancersOf(t) => Len(v.balancers) < Len(t.balancers),
           \A b \in Range(v.balancers) : BalancerNames(t, b, typed)
    PROVE  FollowsBut(t, syncObservatories(v), {"selector"} \X typed)
<1> DEFINE u == syncObservatories(v)
<1>1. /\ u.outbounds = t.outbounds /\ u.rules = v.rules /\ u.balancers = v.balancers
      /\ Aligned(u)
  BY syncObservatoriesFacts
<1> HIDE DEF u
<1>2. TagsOf(u) = TagsOf(t) /\ BalancersOf(u) = BalancersOf(v)
  BY <1>1 DEF TagsOf, BalancersOf
<1>3. ASSUME NEW what, NEW tag, Mentioned(u, what, tag), tag # None, ~ Names(u, what, tag),
             <<what, tag>> \notin {"selector"} \X typed
      PROVE  /\ Mentioned(t, what, tag)
             /\ Names(t, what, tag) => what = "balancer" /\ Len(u.balancers) < Len(t.balancers)
  <2>1. CASE what = "rule"
    BY <1>1, <1>2, <1>3, <2>1 DEF Mentioned, Names
  <2>2. CASE what = "balancer"
    <3>1. PICK r \in Range(v.rules) : r.bal = tag
      BY <1>1, <1>3, <2>2 DEF Mentioned
    <3>2. tag \notin BalancersOf(v)
      BY <1>2, <1>3, <2>2 DEF Names
    <3>3. PICK q \in Range(t.rules) :
            r.bal = q.bal /\ (r.bal \in BalancersOf(t) => Len(v.balancers) < Len(t.balancers))
      BY <3>1, <3>2
    <3> QED
      BY <1>1, <2>2, <3>1, <3>3 DEF Mentioned, Names
  <2>3. CASE what = "fallback"
    BY <1>1, <1>2, <1>3, <2>3 DEF Mentioned, Names, BalancerNames
  <2>4. CASE what = "selector"
    BY <1>1, <1>2, <1>3, <2>4 DEF Mentioned, Names, BalancerNames
  <2>5. CASE what = "dialer"
    BY <1>1, <1>2, <1>3, <2>5 DEF Mentioned, Names
  <2> QED
    BY <1>3, <2>1, <2>2, <2>3, <2>4, <2>5 DEF Mentioned
<1>4. NoneLostBut(t, u, {"selector"} \X typed)
  <2> DEFINE free == {"selector"} \X typed
  <2>1. \A what, tag : Mentioned(u, what, tag) /\ tag # None =>
              \/ <<what, tag>> \in free
              \/ Names(u, what, tag)
              \/ /\ Mentioned(t, what, tag)
                 /\ Names(t, what, tag) =>
                        IF what = "balancer" THEN Len(u.balancers) < Len(t.balancers)
                        ELSE Len(u.outbounds) < Len(t.outbounds)
    BY <1>3
  <2> HIDE DEF free
  <2>2. NoneLostBut(t, u, free)
    BY <2>1, NoneLostButBy
  <2> QED
    BY <2>2 DEF free
<1> QED
  BY <1>1, <1>4 DEF FollowsBut, ObserversKept, u

LEMMA OwnNames ==
    ASSUME NEW t, NEW b \in Range(t.balancers), NEW typed
    PROVE  BalancerNames(t, b, typed)
  BY DEF BalancerNames

LEMMA AddBalancerFollows ==
    ASSUME NEW t \in Template, NEW b \in Balancer, NEW typed, BalancerNames(t, b, typed)
    PROVE  FollowsBut(t, AddBalancer(t, b), {"selector"} \X typed)
<1> DEFINE list == Append(t.balancers, b)
           v == [t EXCEPT !.balancers = list]
<1>1. list \in Seq(Balancer) /\ Range(list) = Range(t.balancers) \cup {b}
  BY TemplateFields, RangeAppend
<1>2. v = [t EXCEPT !.balancers = list] /\ AddBalancer(t, b) = syncObservatories(v)
  BY DEF AddBalancer
<1> HIDE DEF list, v
<1>3. /\ v \in Template /\ v.outbounds = t.outbounds /\ v.rules = t.rules
      /\ v.balancers = list
  BY <1>1, <1>2, WithBalancers
<1>4. BalancersOf(t) \subseteq BalancersOf(v)
  BY <1>1, <1>3, TagsAre
<1>5. \A c \in Range(list) : BalancerNames(t, c, typed)
  BY <1>1, OwnNames
<1> QED
  BY <1>2, <1>3, <1>4, <1>5, BalancersFollow

LEMMA DeleteBalancerFollows ==
    ASSUME NEW t \in Template, NEW i
    PROVE  Follows(t, DeleteBalancer(t, i))
<1> DEFINE list == RemoveAt(t.balancers, i)
           v == IF i \in DOMAIN t.balancers THEN [t EXCEPT !.balancers = list] ELSE t
<1>1. DeleteBalancer(t, i) = syncObservatories(v)
  BY DEF DeleteBalancer
<1>2. t.balancers \in Seq(Balancer) /\ Len(t.balancers) \in Nat
  BY TemplateFields
<1>3. /\ v \in Template /\ v.outbounds = t.outbounds /\ v.rules = t.rules
      /\ Range(v.balancers) \subseteq Range(t.balancers)
      /\ v = t \/ Len(v.balancers) < Len(t.balancers)
  <2>1. CASE i \in DOMAIN t.balancers
    <3>1. /\ list \in Seq(Balancer) /\ Len(list) = Len(t.balancers) - 1
          /\ Range(t.balancers) = Range(list) \cup {t.balancers[i]}
      BY <1>2, <2>1, RemoveAtFacts
    <3>2. v = [t EXCEPT !.balancers = list]
      BY <2>1
    <3> HIDE DEF list, v
    <3> QED
      BY <1>2, <3>1, <3>2, WithBalancers
  <2>2. CASE i \notin DOMAIN t.balancers
    BY <2>2
  <2> QED
    BY <2>1, <2>2
<1> HIDE DEF v
<1>4. \A b \in Range(v.balancers) : BalancerNames(t, b, {})
  BY <1>3, OwnNames
<1>5. FollowsBut(t, syncObservatories(v), {"selector"} \X {})
  BY <1>3, <1>4, BalancersFollow
<1>6. {"selector"} \X {} = {}
  OBVIOUS
<1> QED
  BY <1>1, <1>5, <1>6 DEF FollowsBut, Follows, NoneLost

\* A balancer rewritten under another tag takes the rules with it.
LEMMA ReplaceBalancerFollows ==
    ASSUME NEW t \in Template, NEW i \in DOMAIN t.balancers, NEW b \in Balancer,
           NEW typed, BalancerNames(t, b, typed)
    PROVE  FollowsBut(t, ReplaceBalancer(t, i, b), {"selector"} \X typed)
<1> DEFINE old == t.balancers[i].tag
           list == Put(t.balancers, i, b, b)
           put == [t EXCEPT !.balancers = list]
           v == IF old \in {None, b.tag} THEN put ELSE RenameBalancer(put, old, b.tag)
<1>1. ReplaceBalancer(t, i, b) = syncObservatories(v)
  BY ReplaceBalancerIs
<1>2. t.balancers \in Seq(Balancer) /\ b.tag \in BalancerTag
  BY TemplateFields DEF Balancer
<1>3. list \in Seq(Balancer) /\ IsPut(list, t.balancers, i, b)
  BY <1>2, PutInside
<1>4. put = [t EXCEPT !.balancers = list]
  OBVIOUS
<1>5. old \in BalancerTag /\ old # None
  <2>1. t.balancers[i] \in Balancer
    BY <1>2
  <2>2. old \in BalancerTag
    BY <2>1 DEF Balancer
  <2> QED
    BY <2>2, TemplateAssumption
<1> HIDE DEF list, put, old
<1>6. /\ put \in Template /\ put.outbounds = t.outbounds /\ put.rules = t.rules
      /\ put.balancers = list
  BY <1>3, <1>4, WithBalancers
<1>7. BalancersOf(t) \subseteq BalancersOf(put) \cup {old} /\ b.tag \in BalancersOf(put)
  <2>1. \A j \in DOMAIN t.balancers : t.balancers[j].tag \in {list[j].tag, old}
    BY <1>3 DEF IsPut, old
  <2>2. DOMAIN list = DOMAIN t.balancers /\ list[i] = b
    BY <1>3 DEF IsPut
  <2> QED
    BY <1>6, <2>1, <2>2 DEF BalancersOf
<1>8. \A c \in Range(list) : BalancerNames(t, c, typed)
  <2>1. Range(list) \subseteq Range(t.balancers) \cup {b}
    BY <1>3 DEF IsPut
  <2> QED
    BY <2>1, OwnNames
<1>9. CASE old = b.tag
  <2>1. v = put
    BY <1>9
  <2>2. BalancersOf(t) \subseteq BalancersOf(put)
    BY <1>7, <1>9
  <2> HIDE DEF v
  <2> QED
    BY <1>1, <1>6, <1>8, <2>1, <2>2, BalancersFollow
<1>10. CASE old # b.tag
  <2>1. v = RenameBalancer(put, old, b.tag)
    BY <1>5, <1>10
  <2> HIDE DEF v
  <2>2. /\ v \in Template /\ v.outbounds = t.outbounds /\ v.balancers = list
        /\ \A r \in Range(v.rules) :
              \E q \in Range(t.rules) : r.out = q.out /\ r.bal = Renamed(q.bal, old, b.tag)
    BY <1>2, <1>6, <2>1, RenameBalancerFacts
  <2>3. BalancersOf(v) = BalancersOf(put)
    BY <1>6, <2>2 DEF BalancersOf
  <2>4. \A r \in Range(v.rules) : \E q \in Range(t.rules) :
              /\ r.out = q.out
              /\ \/ r.bal \in BalancersOf(v)
                 \/ r.bal = q.bal /\ r.bal \notin BalancersOf(t)
    BY <1>7, <2>2, <2>3 DEF Renamed
  <2> QED
    BY <1>1, <1>8, <2>2, <2>4, BalancersFollow
<1> QED
  BY <1>9, <1>10

\* A form applied to another position than it was opened on leaves the observatories aligned
\* all the same.
LEMMA ReplaceOutboundObserves ==
    ASSUME NEW t \in Template, NEW i \in Nat \ {0}, NEW o \in Outbound
    PROVE  ObserversKept(t, ReplaceOutbound(t, i, o))
<1> DEFINE list == Put(t.outbounds, i, o, Hole)
           put == [t EXCEPT !.outbounds = list]
           oldTag == IF i \in DOMAIN t.outbounds THEN t.outbounds[i].tag ELSE None
           u == propagateOutboundTagRename(put, oldTag, o.tag)
<1>1. ReplaceOutbound(t, i, o) = IF oldTag \in {None, o.tag} \/ o.tag = None THEN put ELSE u
  BY DEF ReplaceOutbound
<1>2. t.outbounds \in Seq(Outbound) /\ Hole \in Outbound /\ o.tag \in Tag \cup {None}
  BY TemplateFields, HolesAreTyped DEF Outbound
<1>3. list \in Seq(Outbound)
  BY <1>2, PutFacts
<1>4. oldTag # None => i \in DOMAIN t.outbounds /\ oldTag = t.outbounds[i].tag
  OBVIOUS
<1>5. put = [t EXCEPT !.outbounds = list]
  OBVIOUS
<1>6. i \in DOMAIN t.outbounds => IsPut(list, t.outbounds, i, o)
  BY <1>2, PutInside
<1> HIDE DEF list, put, oldTag, u
<1>7. /\ put \in Template /\ put.outbounds = list /\ put.balancers = t.balancers
      /\ Rest(put) = Rest(t)
  BY <1>3, <1>5, WithOutbounds
<1>8. CASE oldTag \in {None, o.tag} \/ o.tag = None
  BY <1>1, <1>7, <1>8, AlignedDepends DEF ObserversKept
<1>9. CASE ~ (oldTag \in {None, o.tag} \/ o.tag = None)
  <2>1. ReplaceOutbound(t, i, o) = u /\ o.tag \in Tag /\ oldTag # None /\ oldTag # o.tag
    BY <1>1, <1>2, <1>9
  <2>2. i \in DOMAIN list /\ list[i] = o /\ oldTag = t.outbounds[i].tag
    BY <1>4, <1>6, <2>1 DEF IsPut
  <2>3. u.outbounds[i].tag = o.tag /\ Rest(u) = Rest(t)
    BY <1>7, <2>1, <2>2, RenameTyped, RenameKeepsTags DEF u
  <2>4. u.outbounds # t.outbounds
    BY <2>1, <2>2, <2>3
  <2> QED
    BY <2>1, <2>3, <2>4, AlignedDepends DEF ObserversKept
<1> QED
  BY <1>8, <1>9

LEMMA PutRuleObserves ==
    ASSUME NEW t \in Template, NEW i \in Nat \ {0}, NEW r \in Rule
    PROVE  ObserversKept(t, PutRule(t, i, r))
<1> DEFINE list == Put(t.rules, i, r, NoRule)
           u == PutRule(t, i, r)
<1>1. list \in Seq(Rule)
  BY TemplateFields, HolesAreTyped, PutFacts
<1>2. u = [t EXCEPT !.rules = list]
  BY DEF PutRule
<1> HIDE DEF list, u
<1>3. u.balancers = t.balancers /\ Rest(u) = Rest(t)
  BY <1>1, <1>2, WithRules
<1> QED
  BY <1>3, AlignedDepends DEF ObserversKept, u

=============================================================================
