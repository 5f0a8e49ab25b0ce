------------------------- MODULE PatchThreads_proofs -------------------------
(***************************************************************************)
(* What the operators of PatchThreads return, for any commits and any log: *)
(* commits in order are a line, and a chain of patches goes from its tip   *)
(* to the root of its set.                                                 *)
(***************************************************************************)
EXTENDS PatchThreads, FiniteSetTheorems, TLAPS

-----------------------------------------------------------------------------
(* Commits.                                                                *)

\* Of finitely many commits one has none of the others below it.
LEMMA LowestExists ==
    ASSUME NEW ks \in SUBSET Commits, IsFiniteSet(ks), ks # {}
    PROVE  \E m \in ks : \A k \in ks : k \in Ancestors[m] => k = m
<1> DEFINE Below(k) == ks \cap Ancestors[k]
           sets == {Below(k) : k \in ks}
<1>1. sets \subseteq FiniteSubsetsOf(ks) /\ sets # {}
  <2>1. \A k \in ks : Below(k) \in FiniteSubsetsOf(ks)
    BY FS_Subset DEF FiniteSubsetsOf
  <2> QED
    BY <2>1
<1>2. PICK x \in sets : \A y \in sets : <<y, x>> \notin StrictSubsetOrdering(ks)
  BY <1>1, FS_StrictSubsetOrderingWellFounded, WFMin
<1>3. PICK m \in ks : x = Below(m)
  OBVIOUS
<1>4. ASSUME NEW k \in ks, k \in Ancestors[m], k # m
      PROVE  FALSE
  <2>1. Below(k) \subseteq Below(m) /\ m \in Below(m) /\ m \notin Below(k)
    BY <1>4, AncestorsAssumption, PatchThreadsAssumption
  <2>2. <<Below(k), Below(m)>> \in StrictSubsetOrdering(ks)
    BY <2>1 DEF StrictSubsetOrdering
  <2> QED
    BY <1>2, <1>3, <2>2
<1> QED
  BY <1>4

\* And one has none of the others above it.
LEMMA HighestExists ==
    ASSUME NEW ks \in SUBSET Commits, IsFiniteSet(ks), ks # {}
    PROVE  \E m \in ks : \A k \in ks : m \in Ancestors[k] => k = m
<1> DEFINE Above(k) == {a \in ks : k \in Ancestors[a]}
           sets == {Above(k) : k \in ks}
<1>1. sets \subseteq FiniteSubsetsOf(ks) /\ sets # {}
  <2>1. \A k \in ks : Above(k) \in FiniteSubsetsOf(ks)
    BY FS_Subset DEF FiniteSubsetsOf
  <2> QED
    BY <2>1
<1>2. PICK x \in sets : \A y \in sets : <<y, x>> \notin StrictSubsetOrdering(ks)
  BY <1>1, FS_StrictSubsetOrderingWellFounded, WFMin
<1>3. PICK m \in ks : x = Above(m)
  OBVIOUS
<1>4. ASSUME NEW k \in ks, m \in Ancestors[k], k # m
      PROVE  FALSE
  <2>1. Above(k) \subseteq Above(m) /\ m \in Above(m) /\ m \notin Above(k)
    BY <1>4, AncestorsAssumption, PatchThreadsAssumption
  <2>2. <<Above(k), Above(m)>> \in StrictSubsetOrdering(ks)
    BY <2>1 DEF StrictSubsetOrdering
  <2> QED
    BY <1>2, <1>3, <2>2
<1> QED
  BY <1>4

\* A commit with ancestors that is no merge has one parent, above all of them.
LEMMA OnlyParent ==
    ASSUME NEW z \in Commits, ~IsMerge(z), NEW x \in Ancestors[z], x # z
    PROVE  \E w \in Ancestors[z] \ {z} :
              Parents(z) = {w} /\ \A a \in Ancestors[z] \ {z} : a \in Ancestors[w]
<1> DEFINE strict == Ancestors[z] \ {z}
<1>1. strict \in SUBSET Commits /\ IsFiniteSet(strict)
  BY AncestorsAssumption, PatchThreadsAssumption, FS_Subset
<1>2. ASSUME NEW a \in strict
      PROVE  \E m \in Parents(z) : a \in Ancestors[m]
  <2> DEFINE above == {b \in strict : a \in Ancestors[b]}
  <2>1. above \in SUBSET Commits /\ IsFiniteSet(above) /\ a \in above
    BY <1>1, <1>2, FS_Subset, AncestorsAssumption
  <2>2. PICK m \in above : \A k \in above : m \in Ancestors[k] => k = m
    BY <2>1, HighestExists
  <2>3. ASSUME NEW b \in strict \ {m}, m \in Ancestors[b]
        PROVE  FALSE
    BY <1>1, <2>2, <2>3, AncestorsAssumption
  <2>4. m \in Parents(z)
    BY <2>3 DEF Parents
  <2> QED
    BY <2>4
<1>3. Parents(z) \subseteq strict /\ IsFiniteSet(Parents(z))
  BY <1>1, FS_Subset DEF Parents
<1>4. PICK w \in Parents(z) : TRUE
  BY <1>2
<1>5. ASSUME NEW v \in Parents(z), v # w
      PROVE  FALSE
  <2>1. IsFiniteSet({w, v}) /\ Cardinality({w, v}) = 2
    <3>1. IsFiniteSet({w}) /\ Cardinality({w}) = 1
      BY FS_Singleton
    <3>2. /\ IsFiniteSet({w} \cup {v})
          /\ Cardinality({w} \cup {v}) = IF v \in {w} THEN Cardinality({w})
                                                      ELSE Cardinality({w}) + 1
      BY <3>1, FS_AddElement, Zenon
    <3>3. {w} \cup {v} = {w, v} /\ v \notin {w}
      BY <1>5
    <3> QED
      BY <3>1, <3>2, <3>3
  <2>2. Cardinality({w, v}) <= Cardinality(Parents(z)) /\ Cardinality(Parents(z)) \in Nat
    BY <1>3, <1>4, FS_Subset, FS_CardinalityType
  <2> QED
    BY <2>1, <2>2 DEF IsMerge
<1>6. Parents(z) = {w}
  BY <1>4, <1>5
<1> QED
  BY <1>2, <1>3, <1>6

-----------------------------------------------------------------------------
(* Orders of commits.                                                      *)

\* s lists the commits ks, none before one of its ancestors.
IsOrder(s, ks) ==
    /\ s \in SetToSeqs(ks)
    /\ \A i, j \in DOMAIN s : i < j => s[j] \notin Ancestors[s[i]]

\* Finitely many commits have an order: the highest comes last.
LEMMA OrderExists ==
    ASSUME NEW ks \in SUBSET Commits, IsFiniteSet(ks)
    PROVE  \E s : IsOrder(s, ks)
<1> DEFINE without == {S \in FiniteSubsetsOf(ks) : ~\E s : IsOrder(s, S)}
<1> SUFFICES ASSUME without # {} PROVE FALSE
  BY DEF FiniteSubsetsOf
<1>1. PICK S \in without : \A T \in without : <<T, S>> \notin StrictSubsetOrdering(ks)
  BY FS_StrictSubsetOrderingWellFounded, WFMin
<1>2. S \in SUBSET Commits /\ IsFiniteSet(S) /\ S \subseteq ks
  BY DEF FiniteSubsetsOf
<1>3. S # {}
  <2>1. IsOrder(<< >>, {})
    <3>1. Cardinality({}) = 0
      BY FS_EmptySet
    <3>2. << >> \in [1..0 -> {}]
      OBVIOUS
    <3> QED
      BY <3>1, <3>2 DEF IsOrder, SetToSeqs
  <2> QED
    BY <2>1
<1>4. PICK m \in S : \A k \in S : m \in Ancestors[k] => k = m
  BY <1>2, <1>3, HighestExists
<1> DEFINE T == S \ {m}
<1>5. /\ IsFiniteSet(T) /\ Cardinality(T) \in Nat
      /\ Cardinality(S) = Cardinality(T) + 1
  <2>1. IsFiniteSet(S \ {m}) /\ Cardinality(S \ {m}) = Cardinality(S) - 1
    BY <1>2, FS_RemoveElement
  <2>2. Cardinality(S \ {m}) \in Nat /\ Cardinality(S) \in Nat
    BY <1>2, <2>1, FS_CardinalityType
  <2> QED
    BY <2>1, <2>2
<1>6. \E s : IsOrder(s, T)
  <2>1. T \in FiniteSubsetsOf(ks) /\ <<T, S>> \in StrictSubsetOrdering(ks)
    BY <1>2, <1>5 DEF FiniteSubsetsOf, StrictSubsetOrdering
  <2> QED
    BY <1>1, <2>1
<1>7. PICK s : IsOrder(s, T)
  BY <1>6
<1> DEFINE n == Cardinality(S)
           t == [i \in 1..n |-> IF i = n THEN m ELSE s[i]]
<1>8. s \in [1..n - 1 -> T] /\ \A i, j \in 1..n - 1 : i # j => s[i] # s[j]
  <2>1. n - 1 = Cardinality(T)
    BY <1>5
  <2>2. s \in [1..Cardinality(T) -> T]
        /\ \A i, j \in 1..Cardinality(T) : i # j => s[i] # s[j]
    BY <1>7 DEF IsOrder, SetToSeqs
  <2> QED
    BY <2>1, <2>2
<1>9. n \in Nat /\ n >= 1
  BY <1>5
<1> HIDE DEF n
<1>10. t \in [1..n -> S] /\ \A i, j \in 1..n : i # j => t[i] # t[j]
  BY <1>8, <1>9
<1>11. \A i, j \in 1..n : i < j => t[j] \notin Ancestors[t[i]]
  <2> SUFFICES ASSUME NEW i \in 1..n, NEW j \in 1..n, i < j
               PROVE  t[j] \notin Ancestors[t[i]]
    OBVIOUS
  <2>1. i \in 1..n - 1 /\ t[i] = s[i] /\ s[i] \in T
    BY <1>8, <1>9
  <2>2. CASE j = n
    BY <1>4, <2>1, <2>2
  <2>3. CASE j # n
    <3>1. j \in 1..n - 1 /\ t[j] = s[j] /\ DOMAIN s = 1..n - 1
      BY <1>8, <1>9, <2>3
    <3> HIDE DEF t
    <3> QED
      BY <1>7, <2>1, <3>1 DEF IsOrder
  <2> QED
    BY <2>2, <2>3
<1>12. IsOrder(t, S)
  BY <1>10, <1>11 DEF IsOrder, SetToSeqs, n
<1> QED
  BY <1>12

\* What Ordered returns: all of ks, in order.
LEMMA OrderedIs ==
    ASSUME NEW ks \in SUBSET Commits, IsFiniteSet(ks)
    PROVE  /\ Ordered(ks) \in [1..Cardinality(ks) -> ks]
           /\ Cardinality(ks) \in Nat
           /\ \A i, j \in 1..Cardinality(ks) : i < j => Ordered(ks)[j] \notin Ancestors[Ordered(ks)[i]]
           /\ \A k \in ks : \E i \in 1..Cardinality(ks) : Ordered(ks)[i] = k
<1> DEFINE s == Ordered(ks)
           n == Cardinality(ks)
<1>1. IsOrder(s, ks)
  BY OrderExists DEF Ordered, IsOrder
<1>2. n \in Nat
  BY FS_CardinalityType
<1>3. s \in [1..n -> ks] /\ \A i, j \in 1..n : i # j => s[i] # s[j]
  BY <1>1 DEF IsOrder, SetToSeqs
<1>4. IsFiniteSet(1..n) /\ Cardinality(1..n) = n
  BY <1>2, FS_Interval
<1>5. s \in Injection(1..n, ks)
  BY <1>3 DEF Injection, IsInjective
<1>6. s \in Surjection(1..n, ks)
  BY <1>4, <1>5, FS_Injection
<1>7. \A k \in ks : \E i \in 1..n : s[i] = k
  BY <1>6 DEF Surjection
<1>8. \A i, j \in 1..n : i < j => s[j] \notin Ancestors[s[i]]
  BY <1>1, <1>3 DEF IsOrder
<1> QED
  BY <1>2, <1>3, <1>7, <1>8

\* What k has and base lacks is a line if there are no merges in it: each
\* commit there and any below k are one above the other.
LEMMA Line ==
    ASSUME NEW base \in Commits, NEW k \in Commits, \A c \in Ahead(base, k) : ~IsMerge(c),
           NEW x \in Ahead(base, k), NEW y \in Ancestors[k]
    PROVE  x \in Ancestors[y] \/ y \in Ancestors[x]
<1> DEFINE both == {z \in Ahead(base, k) : x \in Ancestors[z] /\ y \in Ancestors[z]}
<1>1. Ahead(base, k) \in SUBSET Commits /\ Ahead(base, k) \subseteq Ancestors[k]
  BY AncestorsAssumption DEF Ahead
<1>2. IsFiniteSet(both)
  BY <1>1, PatchThreadsAssumption, FS_Subset
<1>3. k \in both
  BY AncestorsAssumption DEF Ahead
<1>4. PICK z \in both : \A a \in both : a \in Ancestors[z] => a = z
  BY <1>1, <1>2, <1>3, LowestExists
<1>5. CASE z = x \/ z = y
  BY <1>5
<1>6. CASE z # x /\ z # y
  <2>1. PICK w \in Ancestors[z] \ {z} : \A a \in Ancestors[z] \ {z} : a \in Ancestors[w]
    BY <1>1, <1>6, OnlyParent
  <2>2. x \in Ancestors[w] /\ y \in Ancestors[w]
    BY <1>6, <2>1
  <2>3. w \in Ahead(base, k)
    <3>1. w \in Ancestors[k] /\ w \in Commits
      BY <1>1, <2>1, AncestorsAssumption
    <3>2. w \notin Ancestors[base]
      BY <2>2, <3>1, AncestorsAssumption DEF Ahead
    <3> QED
      BY <3>1, <3>2 DEF Ahead
  <2> QED
    BY <1>4, <2>1, <2>2, <2>3
<1> QED
  BY <1>5, <1>6

\* In the order of such a line each commit has the one before it as its parent,
\* and the first has base, if k descends from it.
LEMMA OrderedLine ==
    ASSUME NEW base \in Commits, NEW k \in Commits, \A c \in Ahead(base, k) : ~IsMerge(c)
    PROVE  LET s == Ordered(Ahead(base, k))
           IN  /\ s \in Seq(Commits)
               /\ \A i \in 1..Len(s) - 1 : Parents(s[i + 1]) = {s[i]}
               /\ Len(s) >= 1 /\ FastForward(base, k) => Parents(s[1]) = {base}
<1> DEFINE ks == Ahead(base, k)
           s == Ordered(ks)
           n == Cardinality(ks)
<1>1. ks \in SUBSET Commits /\ IsFiniteSet(ks)
  BY AncestorsAssumption, PatchThreadsAssumption, FS_Subset DEF Ahead
<1>2. /\ s \in [1..n -> ks] /\ n \in Nat
      /\ \A i, j \in 1..n : i < j => s[j] \notin Ancestors[s[i]]
      /\ \A c \in ks : \E i \in 1..n : s[i] = c
  BY <1>1, OrderedIs
<1> HIDE DEF s, n
<1>3. s \in Seq(Commits) /\ Len(s) = n
  BY <1>1, <1>2
\* The parent w of x is above every commit y below x.
<1>4. ASSUME NEW x \in ks, NEW y \in Ancestors[x] \ {x}
      PROVE  \E w \in Ancestors[x] \ {x} : Parents(x) = {w} /\ y \in Ancestors[w]
  BY <1>1, OnlyParent
<1>5. ASSUME NEW x \in ks, NEW w \in Ancestors[x], w \notin ks
      PROVE  w \in Ancestors[base]
  BY <1>5, AncestorsAssumption DEF Ahead
<1>6. ASSUME NEW i \in 1..n - 1
      PROVE  Parents(s[i + 1]) = {s[i]}
  <2> DEFINE x == s[i + 1]
             y == s[i]
  <2>1. x \in ks /\ y \in ks /\ x \notin Ancestors[y] /\ i + 1 \in 1..n /\ i \in 1..n
    BY <1>2
  <2>2. y \in Ancestors[x] \ {x}
    BY <1>1, <2>1, Line, AncestorsAssumption DEF Ahead
  <2>3. PICK w \in Ancestors[x] \ {x} : Parents(x) = {w} /\ y \in Ancestors[w]
    BY <1>4, <2>1, <2>2
  <2>4. w \in Commits
    BY <1>1, <2>1, <2>3, AncestorsAssumption
  <2>5. w \in ks
    BY <1>5, <2>1, <2>3, <2>4, AncestorsAssumption DEF Ahead
  <2>6. PICK j \in 1..n : w = s[j]
    BY <1>2, <2>5
  <2>7. ~(i + 1 < j) /\ j # i + 1
    BY <1>2, <2>1, <2>3, <2>6
  <2>8. ~(j < i)
    BY <1>2, <2>1, <2>3, <2>6
  <2> QED
    BY <2>3, <2>6, <2>7, <2>8
<1>7. ASSUME n >= 1, FastForward(base, k)
      PROVE  Parents(s[1]) = {base}
  <2> DEFINE x == s[1]
  <2>1. x \in ks /\ base \in Ancestors[k] /\ x \notin Ancestors[base]
    BY <1>2, <1>7 DEF FastForward, Ahead
  <2>2. base \in Ancestors[x] \ {x}
    BY <1>1, <2>1, Line, AncestorsAssumption
  <2>3. PICK w \in Ancestors[x] \ {x} : Parents(x) = {w} /\ base \in Ancestors[w]
    BY <1>4, <2>1, <2>2
  <2>4. w \notin ks
    <3> SUFFICES ASSUME w \in ks PROVE FALSE
      OBVIOUS
    <3>1. PICK j \in 1..n : w = s[j]
      BY <1>2
    <3> QED
      BY <1>2, <1>7, <2>3, <3>1
  <2>5. w \in Ancestors[base]
    BY <1>5, <2>1, <2>3, <2>4
  <2> QED
    BY <2>3, <2>5, PatchThreadsAssumption
<1> QED
  BY <1>3, <1>6, <1>7 DEF s

-----------------------------------------------------------------------------
(* Chains of patches.                                                      *)

LEMMA Smallest ==
    ASSUME NEW S \in SUBSET Nat, NEW n \in S
    PROVE  \E m \in S : \A k \in S : m <= k
<1> DEFINE T == {k \in S : k <= n}
           sets == {0..k : k \in T}
<1>1. \A k \in T : 0..k \in FiniteSubsetsOf(0..n)
  <2> SUFFICES ASSUME NEW k \in T PROVE 0..k \in FiniteSubsetsOf(0..n)
    OBVIOUS
  <2>1. 0..k \subseteq 0..n /\ k \in Nat
    OBVIOUS
  <2>2. IsFiniteSet(0..k)
    BY <2>1, FS_Interval
  <2> QED
    BY <2>1, <2>2 DEF FiniteSubsetsOf
<1>2. sets \subseteq FiniteSubsetsOf(0..n) /\ sets # {}
  BY <1>1
<1>3. PICK x \in sets : \A y \in sets : <<y, x>> \notin StrictSubsetOrdering(0..n)
  BY <1>2, FS_StrictSubsetOrderingWellFounded, WFMin
<1>4. PICK m \in T : x = 0..m
  OBVIOUS
<1>5. ASSUME NEW k \in T, k < m
      PROVE  FALSE
  <2>1. 0..k \subseteq 0..m /\ m \in 0..m /\ m \notin 0..k /\ 0..m \subseteq 0..n
    BY <1>5
  <2>2. <<0..k, 0..m>> \in StrictSubsetOrdering(0..n)
    BY <2>1 DEF StrictSubsetOrdering
  <2> QED
    BY <1>3, <1>4, <2>2
<1> QED
  BY <1>5

\* Replies go to earlier events.
Backwards(lg, patches) ==
    /\ Len(lg) \in Nat /\ patches \subseteq 1..Len(lg)
    /\ \A i \in patches : ~lg[i].root => ParentOf(lg[i]) \in 0..i - 1

\* The chain from event i, by those from earlier events.
From(lg, patches, f, i) ==
    IF i \notin patches THEN << >>
    ELSE IF lg[i].root THEN <<i>>
    ELSE <<i>> \o f[ParentOf(lg[i])]

\* The chains of all events exist: so they do of the first n, for each n.
LEMMA ChainsExist ==
    ASSUME NEW lg, NEW patches, Backwards(lg, patches)
    PROVE  \E f : f = [i \in 0..Len(lg) |-> From(lg, patches, f, i)]
<1> DEFINE IsUpTo(f, n) == f = [i \in 0..n |-> From(lg, patches, f, i)]
           without == {n \in 0..Len(lg) : ~\E f : IsUpTo(f, n)}
<1> SUFFICES ASSUME without # {} PROVE FALSE
  BY DEF Backwards
<1>1. PICK n \in without : \A k \in without : n <= k
  <2>1. without \in SUBSET Nat
    BY DEF Backwards
  <2> HIDE DEF without
  <2> QED
    BY <2>1, Smallest
<1>2. n \in Nat /\ n <= Len(lg)
  BY DEF Backwards
<1>3. n # 0
  <2> DEFINE g == [i \in 0..0 |-> << >>]
  <2>1. \A i \in 0..0 : From(lg, patches, g, i) = << >>
    BY DEF From, Backwards
  <2>2. IsUpTo(g, 0)
    BY <2>1
  <2> QED
    BY <2>2
<1>4. n - 1 \in 0..Len(lg) /\ n - 1 \notin without
  BY <1>1, <1>2, <1>3
<1>5. PICK f : IsUpTo(f, n - 1)
  BY <1>4
<1> DEFINE g == [i \in 0..n |-> From(lg, patches, f, i)]
<1>6. ASSUME NEW i \in 0..n
      PROVE  From(lg, patches, f, i) = From(lg, patches, g, i)
  <2>1. CASE i \in patches /\ ~lg[i].root
    <3>1. ParentOf(lg[i]) \in 0..n - 1
      BY <1>2, <2>1 DEF Backwards
    <3>2. f[ParentOf(lg[i])] = g[ParentOf(lg[i])]
      BY <1>2, <1>5, <3>1
    <3> QED
      BY <3>2 DEF From
  <2>2. CASE ~(i \in patches /\ ~lg[i].root)
    BY <2>2 DEF From
  <2> QED
    BY <2>1, <2>2
<1>7. IsUpTo(g, n)
  <2>1. g = [i \in 0..n |-> From(lg, patches, g, i)]
    BY <1>6
  <2> QED
    BY <2>1
<1> QED
  BY <1>7

\* A chain goes from its tip through patches, each a reply to the next, to a
\* root or to where the next is missing.
LEMMA ChainIs ==
    ASSUME NEW lg, NEW patches, Backwards(lg, patches), NEW t \in patches
    PROVE  LET c == Chain(lg, patches, t)
           IN  /\ c \in Seq(patches) /\ Len(c) >= 1 /\ c[1] = t
               /\ \A i \in 1..Len(c) - 1 : ~lg[c[i]].root /\ c[i + 1] = ParentOf(lg[c[i]])
               /\ lg[c[Len(c)]].root \/ ParentOf(lg[c[Len(c)]]) \notin patches
<1> DEFINE f == CHOOSE f : f = [i \in 0..Len(lg) |-> From(lg, patches, f, i)]
<1>1. f = [i \in 0..Len(lg) |-> From(lg, patches, f, i)]
  BY ChainsExist
<1>2. \A i \in patches : Chain(lg, patches, i) = f[i]
  BY DEF Chain, From
<1> HIDE DEF f
<1> DEFINE Good(i) ==
             LET c == f[i]
             IN  /\ c \in Seq(patches) /\ Len(c) >= 1 /\ c[1] = i
                 /\ \A j \in 1..Len(c) - 1 : ~lg[c[j]].root /\ c[j + 1] = ParentOf(lg[c[j]])
                 /\ lg[c[Len(c)]].root \/ ParentOf(lg[c[Len(c)]]) \notin patches
           bad == {i \in patches : ~Good(i)}
<1> SUFFICES ASSUME bad # {} PROVE FALSE
  BY <1>2
<1>3. patches \subseteq Nat
  BY DEF Backwards
<1>4. PICK n \in bad : \A k \in bad : n <= k
  BY <1>3, Smallest
<1> DEFINE p == ParentOf(lg[n])
<1>5. n \in patches /\ n \in 0..Len(lg) /\ f[n] = From(lg, patches, f, n)
  BY <1>1 DEF Backwards
<1>6. ~lg[n].root
  <2> SUFFICES ASSUME lg[n].root PROVE Good(n)
    OBVIOUS
  <2>1. f[n] = <<n>>
    BY <1>5 DEF From
  <2> QED
    BY <1>5, <2>1
<1>7. p \in 0..n - 1 /\ p \in 0..Len(lg) /\ f[n] = <<n>> \o f[p]
  BY <1>5, <1>6 DEF From, Backwards
<1>8. p \in patches
  <2> SUFFICES ASSUME p \notin patches PROVE Good(n)
    OBVIOUS
  <2>1. f[p] = << >>
    BY <1>1, <1>7 DEF From
  <2>2. f[n] = <<n>>
    BY <1>7, <2>1
  <2> QED
    BY <1>5, <2>2
<1>9. Good(p)
  <2>1. p \notin bad
    <3> HIDE DEF bad, p
    <3> QED
      BY <1>3, <1>4, <1>5, <1>7
  <2> HIDE DEF Good
  <2> QED
    BY <1>8, <2>1
<1> DEFINE c == f[n]
           d == f[p]
<1>10. d \in Seq(patches) /\ Len(d) \in Nat /\ Len(d) >= 1 /\ d[1] = p
  BY <1>9
<1>11. /\ c \in Seq(patches) /\ Len(c) = Len(d) + 1 /\ c[1] = n
       /\ \A j \in 1..Len(d) : c[j + 1] = d[j]
  BY <1>5, <1>7, <1>10
<1>12. ASSUME NEW j \in 1..Len(c) - 1
       PROVE  ~lg[c[j]].root /\ c[j + 1] = ParentOf(lg[c[j]])
  <2>1. CASE j = 1
    BY <1>6, <1>10, <1>11, <2>1
  <2>2. CASE j # 1
    <3>1. j - 1 \in 1..Len(d) - 1 /\ c[j] = d[j - 1] /\ c[j + 1] = d[(j - 1) + 1]
      BY <1>10, <1>11, <2>2
    <3> QED
      BY <1>9, <3>1
  <2> QED
    BY <2>1, <2>2
<1>13. lg[c[Len(c)]].root \/ ParentOf(lg[c[Len(c)]]) \notin patches
  <2>1. c[Len(c)] = d[Len(d)]
    BY <1>10, <1>11
  <2> QED
    BY <1>9, <2>1
<1>14. Good(n)
  BY <1>10, <1>11, <1>12, <1>13
<1> QED
  BY <1>14
==============================================================================
