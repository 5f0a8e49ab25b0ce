--------------------------- MODULE Checkout_proofs ---------------------------
(***************************************************************************)
(* The branches of proposals in one clone, for any commits, accounts and   *)
(* published events.                                                       *)
(***************************************************************************)
EXTENDS Checkout, PatchThreads_proofs

-----------------------------------------------------------------------------
(* Commits.                                                                *)

\* Who has all commits below the parents of a commit lacks only the commit.
LEMMA BelowParents ==
    ASSUME NEW k \in Commits, NEW have \in SUBSET Commits,
           \A a \in have : Ancestors[a] \subseteq have,
           Parents(k) \subseteq have
    PROVE  Ancestors[k] \subseteq have \cup {k}
<1> DEFINE strict == Ancestors[k] \ {k}
<1> SUFFICES ASSUME NEW x \in strict, x \notin have PROVE FALSE
  OBVIOUS
<1> DEFINE above == {z \in strict : x \in Ancestors[z]}
<1>1. Ancestors[k] \in SUBSET Commits /\ IsFiniteSet(Ancestors[k])
  BY AncestorsAssumption, PatchThreadsAssumption
<1>2. above \in SUBSET Commits /\ IsFiniteSet(above) /\ x \in above
  BY <1>1, FS_Subset, AncestorsAssumption
<1>3. PICK m \in above : \A z \in above : m \in Ancestors[z] => z = m
  BY <1>2, HighestExists
<1>4. \A z \in strict \ {m} : m \notin Ancestors[z]
  BY <1>1, <1>2, <1>3, AncestorsAssumption
<1>5. m \in Parents(k)
  BY <1>3, <1>4 DEF Parents
<1> QED
  BY <1>3, <1>5

\* The first commit has no other below it.
LEMMA RootAlone == Ancestors[Root] = {Root}
<1>1. \A a \in Ancestors[Root] : a \in Commits /\ Root \in Ancestors[a]
  BY CheckoutAssumption, AncestorsAssumption
<1> QED
  BY <1>1, CheckoutAssumption, PatchThreadsAssumption, AncestorsAssumption

\* What may be sent is a line above the first commit.
LEMMA SentLine ==
    ASSUME NEW a \in Commits, NEW b \in Commits, Ahead(a, b) \in Sendable
    PROVE  LET cs == Ordered(Ahead(a, b))
           IN  /\ cs \in Seq(Commits) /\ Len(cs) >= 1
               /\ \A i \in 1..Len(cs) - 1 : Parents(cs[i + 1]) = {cs[i]}
               /\ FastForward(a, b) => Parents(cs[1]) = {a}
               /\ \A i \in 1..Len(cs) : OneParent(cs[i])
<1> DEFINE ks == Ahead(a, b)
           cs == Ordered(ks)
<1>1. /\ ks # {} /\ Root \notin ks /\ \A k \in ks : ~IsMerge(k)
      /\ ks \in SUBSET Commits /\ IsFiniteSet(ks)
  BY AncestorsAssumption, PatchThreadsAssumption, FS_Subset DEF Sendable, Ranges, Ahead
<1>2. /\ cs \in Seq(Commits)
      /\ \A i \in 1..Len(cs) - 1 : Parents(cs[i + 1]) = {cs[i]}
      /\ Len(cs) >= 1 /\ FastForward(a, b) => Parents(cs[1]) = {a}
  BY <1>1, OrderedLine
<1>3. /\ cs \in [1..Cardinality(ks) -> ks] /\ Cardinality(ks) \in Nat
      /\ \A k \in ks : \E i \in 1..Cardinality(ks) : cs[i] = k
  BY <1>1, OrderedIs
<1> HIDE DEF cs
<1>4. Len(cs) = Cardinality(ks) /\ Len(cs) >= 1
  BY <1>1, <1>2, <1>3
<1>5. ASSUME NEW i \in 1..Len(cs) PROVE OneParent(cs[i])
  <2>1. cs[i] \in ks
    BY <1>3, <1>4
  <2>2. cs[i] \in Commits /\ Root \in Ancestors[cs[i]] /\ Root # cs[i] /\ ~IsMerge(cs[i])
    BY <1>1, <2>1, CheckoutAssumption
  <2>3. PICK w \in Ancestors[cs[i]] \ {cs[i]} : Parents(cs[i]) = {w}
    BY <2>2, OnlyParent
  <2> QED
    BY <2>2, <2>3, AncestorsAssumption DEF OneParent
<1> QED
  BY <1>2, <1>4, <1>5 DEF cs

-----------------------------------------------------------------------------
(* Events.                                                                 *)

LogOK(lg) ==
    /\ lg \in Seq(Patch) /\ Len(lg) <= MaxLog
    /\ \A i \in 1..Len(lg) : InPlace(lg, i)

\* Event i of a set that is added to lg.
Fits(lg, events, i) ==
    LET e == events[i]
        before == IF e.parent <= Len(lg) THEN lg[e.parent] ELSE events[e.parent - Len(lg)]
    IN /\ e.commit # NoCommit => OneParent(e.commit)
       /\ ~e.root => /\ e.commit # NoCommit /\ e.parent \in 1..Len(lg) + i - 1
                     /\ before.commit = NoCommit \/ Parents(e.commit) = {before.commit}

\* The first n events of a set are appended.
LEMMA MorePlaced ==
    ASSUME NEW lg, LogOK(lg), NEW events \in Seq(Patch), Len(lg) + Len(events) <= MaxLog,
           \A i \in 1..Len(events) : Fits(lg, events, i), NEW n \in 0..Len(events)
    PROVE  LET lg2 == lg \o SubSeq(events, 1, n)
           IN  /\ LogOK(lg2) /\ Len(lg2) = Len(lg) + n
               /\ \A i \in 1..Len(lg) : lg2[i] = lg[i]
               /\ \A i \in 1..n : lg2[Len(lg) + i] = events[i]
<1> DEFINE es == SubSeq(events, 1, n)
           lg2 == lg \o es
<1>1. Len(lg) \in Nat /\ Len(events) \in Nat /\ lg \in Seq(Patch) /\ MaxLog \in Nat
  BY CheckoutAssumption DEF LogOK
<1>2. es \in Seq(Patch) /\ Len(es) = n /\ \A i \in 1..n : es[i] = events[i]
  BY <1>1
<1> HIDE DEF es
<1>3. /\ lg2 \in Seq(Patch) /\ Len(lg2) = Len(lg) + n
      /\ \A i \in 1..Len(lg) : lg2[i] = lg[i]
      /\ \A i \in 1..n : lg2[Len(lg) + i] = events[i]
  BY <1>1, <1>2
<1> HIDE DEF lg2
<1>4. ASSUME NEW i \in 1..Len(lg) PROVE InPlace(lg2, i)
  <2>1. InPlace(lg, i) /\ lg2[i] = lg[i] /\ i \in Nat
    BY <1>1, <1>3, <1>4 DEF LogOK
  <2>2. ~lg[i].root => lg2[lg[i].parent] = lg[lg[i].parent]
    <3> SUFFICES ASSUME ~lg[i].root PROVE lg2[lg[i].parent] = lg[lg[i].parent]
      OBVIOUS
    <3>1. lg[i].parent \in 1..i - 1 /\ i <= Len(lg)
      BY <1>1, <2>1 DEF InPlace
    <3>2. lg[i].parent \in 1..Len(lg)
      BY <1>1, <2>1, <3>1
    <3> QED
      BY <1>3, <3>2
  <2> QED
    BY <2>1, <2>2 DEF InPlace, NextCommit
<1>5. ASSUME NEW i \in 1..n PROVE InPlace(lg2, Len(lg) + i)
  <2> DEFINE e == events[i]
  <2>1. Fits(lg, events, i) /\ lg2[Len(lg) + i] = e /\ i \in Nat /\ i <= Len(events) /\ e \in Patch
    BY <1>1, <1>3, <1>5
  <2>2. ASSUME ~e.root
        PROVE  NextCommit(lg2, Len(lg) + i)
    <3>1. e.parent \in 1..Len(lg) + i - 1
      BY <2>1, <2>2 DEF Fits
    <3>2. CASE e.parent <= Len(lg)
      <4>1. lg2[e.parent] = lg[e.parent]
        BY <1>1, <1>3, <3>1, <3>2
      <4> QED
        BY <2>1, <2>2, <3>2, <4>1 DEF Fits, NextCommit
    <3>3. CASE ~(e.parent <= Len(lg))
      <4>1. e.parent - Len(lg) \in 1..n /\ Len(lg) + (e.parent - Len(lg)) = e.parent
        BY <1>1, <1>5, <3>1, <3>3
      <4>2. lg2[e.parent] = events[e.parent - Len(lg)]
        BY <1>3, <4>1
      <4> QED
        BY <2>1, <2>2, <3>3, <4>2 DEF Fits, NextCommit
    <3> QED
      BY <3>2, <3>3
  <2> QED
    BY <2>1, <2>2 DEF Fits, InPlace
<1>6. \A i \in 1..Len(lg2) : InPlace(lg2, i)
  <2> SUFFICES ASSUME NEW i \in 1..Len(lg2), i > Len(lg) PROVE InPlace(lg2, i)
    BY <1>1, <1>3, <1>4
  <2>1. i - Len(lg) \in 1..n /\ Len(lg) + (i - Len(lg)) = i
    BY <1>1, <1>3
  <2> QED
    BY <1>5, <2>1
<1>7. Len(lg2) <= MaxLog
  BY <1>1, <1>3
<1> QED
  BY <1>3, <1>6, <1>7 DEF LogOK, lg2, es

\* The commits of a set, perhaps with a cover letter before them.
IsLine(cs) ==
    /\ cs \in Seq(CommitOrNone) /\ Len(cs) >= 1
    /\ \A i \in 2..Len(cs) : cs[i] # NoCommit
    /\ \A i \in 1..Len(cs) : cs[i] # NoCommit => OneParent(cs[i])
    /\ \A i \in 1..Len(cs) - 1 : cs[i] = NoCommit \/ Parents(cs[i + 1]) = {cs[i]}

\* A cover letter may be put before a line.
LEMMA LetterLine ==
    ASSUME NEW a \in Commits, NEW b \in Commits, Ahead(a, b) \in Sendable, NEW letter
    PROVE  LET cs == (IF letter THEN <<NoCommit>> ELSE << >>) \o Ordered(Ahead(a, b))
           IN  IsLine(cs) /\ cs[Len(cs)] # NoCommit
<1> DEFINE s == Ordered(Ahead(a, b))
           cs == (IF letter THEN <<NoCommit>> ELSE << >>) \o s
<1>1. /\ s \in Seq(Commits) /\ Len(s) >= 1
      /\ \A i \in 1..Len(s) - 1 : Parents(s[i + 1]) = {s[i]}
      /\ \A i \in 1..Len(s) : OneParent(s[i])
  BY SentLine
<1> HIDE DEF s
<1>2. Len(s) \in Nat /\ \A i \in 1..Len(s) : s[i] \in Commits /\ s[i] # NoCommit
  BY <1>1, NoCommitAssumption
<1>3. CASE ~letter
  <2>1. cs = s
    BY <1>1, <1>3
  <2>2. s \in Seq(CommitOrNone) /\ \A i \in 2..Len(s) : i \in 1..Len(s)
    BY <1>1, <1>2 DEF CommitOrNone
  <2>3. Len(s) \in 1..Len(s)
    BY <1>1, <1>2
  <2>4. IsLine(s) /\ s[Len(s)] # NoCommit
    BY <1>1, <1>2, <2>2, <2>3 DEF IsLine
  <2> QED
    BY <2>1, <2>4 DEF s
<1>4. CASE letter
  <2> DEFINE n == Len(s) + 1
             r == [i \in 1..n |-> IF i = 1 THEN NoCommit ELSE s[i - 1]]
  <2>1. n \in Nat /\ n >= 2 /\ n \in 2..n
    BY <1>1, <1>2
  <2>2. ASSUME NEW i \in 2..n
        PROVE  i - 1 \in 1..Len(s) /\ i \in 1..n /\ r[i] = s[i - 1]
    BY <1>2, <2>1
  <2>3. r \in Seq(CommitOrNone) /\ Len(r) = n /\ r[1] = NoCommit
    <3>1. ASSUME NEW i \in 1..n PROVE r[i] \in CommitOrNone
      <4>1. i = 1 \/ i \in 2..n
        BY <2>1
      <4> QED
        BY <1>2, <2>2, <4>1 DEF CommitOrNone
    <3> QED
      BY <2>1, <3>1
  <2>4. cs = r
    BY <1>1, <1>4, <2>1
  <2> HIDE DEF r
  <2>5. ASSUME NEW i \in 2..n
        PROVE  r[i] # NoCommit /\ OneParent(r[i])
    BY <1>1, <1>2, <2>2
  <2>6. \A i \in 1..n : r[i] # NoCommit => OneParent(r[i])
    <3> SUFFICES ASSUME NEW i \in 1..n, r[i] # NoCommit PROVE i \in 2..n
      BY <2>5
    <3> QED
      BY <2>1, <2>3
  <2>7. ASSUME NEW i \in 1..n - 1, r[i] # NoCommit
        PROVE  Parents(r[i + 1]) = {r[i]}
    <3>1. i \in 2..n /\ i + 1 \in 2..n /\ i - 1 \in 1..Len(s) - 1
      BY <1>2, <2>1, <2>3, <2>7
    <3>2. r[i] = s[i - 1] /\ r[i + 1] = s[(i - 1) + 1]
      BY <2>2, <3>1
    <3> QED
      BY <1>1, <3>1, <3>2
  <2> HIDE DEF n
  <2>8. r[n] # NoCommit /\ n >= 1 /\ \A i \in 2..n : r[i] # NoCommit
    BY <2>1, <2>5
  <2>9. \A i \in 1..n - 1 : r[i] = NoCommit \/ Parents(r[i + 1]) = {r[i]}
    BY <2>7
  <2>10. IsLine(r) /\ r[Len(r)] # NoCommit
    BY <2>3, <2>6, <2>8, <2>9 DEF IsLine
  <2> QED
    BY <2>4, <2>10 DEF s, r
<1> QED
  BY <1>3, <1>4 DEF s

\* What a set begins with: a root, and a revision if it has a parent.
IsHead(e) == e \in Patch /\ e.root = TRUE /\ e.revision = (e.parent # 0) /\ e.thread = 0

\* The events of a set, in its place.
LEMMA SetFits ==
    ASSUME NEW lg, LogOK(lg), NEW cs, IsLine(cs), NEW head1, IsHead(head1),
           NEW events, events = Threaded(lg, head1, cs)
    PROVE  /\ events \in Seq(Patch) /\ Len(events) = Len(cs)
           /\ \A i \in 1..Len(cs) : Fits(lg, events, i)
           /\ events[1].revision <=> head1.parent # 0
           /\ events[1].parent = head1.parent /\ events[1].thread = 0
           /\ \A i \in 1..Len(cs) : /\ events[i].author = head1.author /\ events[i].at = head1.at
                                    /\ events[i].commit = cs[i]
                                    /\ events[i].root <=> i = 1
           /\ \A i \in 2..Len(cs) : /\ ~events[i].revision /\ events[i].thread = Len(lg) + 1
                                    /\ events[i].parent = Len(lg) + i - 1
<1> DEFINE n == Len(cs)
           first == [head1 EXCEPT !.commit = cs[1]]
           next(i) == [head1 EXCEPT !.root = FALSE, !.revision = FALSE, !.thread = Len(lg) + 1,
                          !.parent = Len(lg) + i - 1, !.mentions = {}, !.commit = cs[i]]
<1>1. /\ n \in Nat /\ n >= 1 /\ Len(lg) \in Nat /\ cs \in Seq(CommitOrNone)
      /\ \A i \in 1..n : cs[i] \in CommitOrNone
  BY DEF LogOK, IsLine
<1>2. events = [i \in 1..n |-> IF i = 1 THEN first ELSE next(i)]
  BY DEF Threaded
<1>3. /\ first \in Patch /\ first.author = head1.author /\ first.at = head1.at
      /\ first.commit = cs[1] /\ first.root = TRUE /\ first.parent = head1.parent /\ first.thread = 0
      /\ first.revision = (head1.parent # 0)
  <2>1. cs[1] \in CommitOrNone
    BY <1>1
  <2> QED
    BY <2>1 DEF IsHead, Patch
<1>4. ASSUME NEW i \in 2..n
      PROVE  /\ next(i) \in Patch /\ next(i).author = head1.author /\ next(i).at = head1.at
             /\ next(i).commit = cs[i] /\ next(i).root = FALSE /\ next(i).revision = FALSE
             /\ next(i).thread = Len(lg) + 1 /\ next(i).parent = Len(lg) + i - 1
  <2>1. Len(lg) + i - 1 \in Nat /\ Len(lg) + 1 \in Nat /\ cs[i] \in CommitOrNone
    BY <1>1
  <2> QED
    BY <2>1 DEF IsHead, Patch
<1> HIDE DEF first, next
<1>5. events \in Seq(Patch) /\ Len(events) = n
  <2>1. ASSUME NEW i \in 1..n PROVE (IF i = 1 THEN first ELSE next(i)) \in Patch
    <3>1. i = 1 \/ i \in 2..n
      BY <1>1
    <3> QED
      BY <1>3, <1>4, <3>1
  <2> QED
    BY <1>1, <1>2, <2>1
<1>6. /\ events[1] = first /\ \A i \in 2..n : events[i] = next(i)
      /\ \A i \in 1..n : i # 1 => i \in 2..n
  BY <1>1, <1>2
<1> HIDE DEF n
<1>7. ASSUME NEW i \in 1..n
      PROVE  /\ events[i].author = head1.author /\ events[i].at = head1.at
             /\ events[i].commit = cs[i]
             /\ events[i].root <=> i = 1
  <2>1. CASE i = 1
    BY <1>3, <1>6, <2>1
  <2>2. CASE i # 1
    <3>1. i \in 2..n /\ events[i] = next(i)
      BY <1>6, <2>2
    <3> QED
      BY <1>4, <2>2, <3>1
  <2> QED
    BY <2>1, <2>2
<1>8. ASSUME NEW i \in 1..n PROVE Fits(lg, events, i)
  <2>1. i \in Nat
    BY <1>1
  <2>2. events[i].commit # NoCommit => OneParent(events[i].commit)
    BY <1>7 DEF IsLine, n
  <2>3. CASE i = 1
    BY <1>7, <2>1, <2>2, <2>3 DEF Fits
  <2>4. CASE i # 1
    <3>1. i \in 2..n /\ events[i] = next(i) /\ events[i].parent = Len(lg) + i - 1
      BY <1>4, <1>6, <2>4
    <3>2. /\ events[i].parent \in 1..Len(lg) + i - 1 /\ ~(events[i].parent <= Len(lg))
          /\ events[i].parent - Len(lg) = i - 1
      BY <1>1, <3>1
    <3>3. i - 1 \in 1..n - 1 /\ i - 1 \in 1..n /\ (i - 1) + 1 = i
      BY <1>1, <3>1
    <3>4. /\ events[i - 1].commit = cs[i - 1] /\ events[i].commit = cs[i] /\ cs[i] # NoCommit
          /\ cs[i - 1] = NoCommit \/ Parents(cs[i]) = {cs[i - 1]}
      <4>1. events[i - 1].commit = cs[i - 1] /\ events[i].commit = cs[i]
        BY <1>7, <3>3
      <4>2. cs[i] # NoCommit
        BY <3>1 DEF IsLine, n
      <4>3. cs[i - 1] = NoCommit \/ Parents(cs[(i - 1) + 1]) = {cs[i - 1]}
        BY <3>3 DEF IsLine, n
      <4> QED
        BY <3>3, <4>1, <4>2, <4>3
    <3>5. (IF events[i].parent <= Len(lg) THEN lg[events[i].parent]
           ELSE events[events[i].parent - Len(lg)]) = events[i - 1]
      BY <3>2
    <3>6. /\ events[i].commit # NoCommit
          /\ OneParent(events[i].commit) /\ events[i].parent \in 1..Len(lg) + i - 1
      BY <2>1, <2>2, <3>2, <3>4
    <3>7. events[i - 1].commit = NoCommit \/ Parents(events[i].commit) = {events[i - 1].commit}
      BY <3>4
    <3> QED
      BY <3>5, <3>6, <3>7 DEF Fits
  <2> QED
    BY <2>3, <2>4
<1>9. /\ events[1].revision <=> head1.parent # 0
      /\ events[1].parent = head1.parent /\ events[1].thread = 0
  BY <1>3, <1>6
<1>10. \A i \in 2..n : /\ ~events[i].revision /\ events[i].thread = Len(lg) + 1
                       /\ events[i].parent = Len(lg) + i - 1
  BY <1>4, <1>6
<1> QED
  BY <1>5, <1>7, <1>8, <1>9, <1>10 DEF n

\* Patches on top of another.
LEMMA AppendedFits ==
    ASSUME NEW lg, LogOK(lg), NEW user \in Users, NEW t \in 1..Len(lg), lg[t].commit \in Commits,
           NEW at \in Nat, NEW k \in Commits, FastForward(lg[t].commit, k), Ahead(lg[t].commit, k) \in Sendable
    PROVE  LET events == Appended(lg, user, at, t, Ahead(lg[t].commit, k))
           IN  /\ events \in Seq(Patch)
               /\ \A i \in 1..Len(events) : Fits(lg, events, i)
<1> DEFINE order == Ordered(Ahead(lg[t].commit, k))
           n == Len(order)
           next(i) == [author |-> user, at |-> at, root |-> FALSE, revision |-> FALSE,
                       thread |-> IF lg[t].thread # 0 THEN lg[t].thread ELSE t,
                       parent |-> IF i = 1 THEN t ELSE Len(lg) + i - 1, mentions |-> {},
                       name |-> lg[t].name, commit |-> order[i]]
           events == Appended(lg, user, at, t, Ahead(lg[t].commit, k))
<1>1. /\ order \in Seq(Commits) /\ n >= 1
      /\ \A i \in 1..n - 1 : Parents(order[i + 1]) = {order[i]}
      /\ Parents(order[1]) = {lg[t].commit}
      /\ \A i \in 1..n : OneParent(order[i])
  BY SentLine
<1>2. n \in Nat /\ Len(lg) \in Nat /\ lg[t] \in Patch /\ t \in Nat
  BY <1>1 DEF LogOK
<1>3. events = [i \in 1..n |-> next(i)]
  BY DEF Appended
<1> HIDE DEF order, n
<1>4. ASSUME NEW i \in 1..n PROVE next(i) \in Patch
  <2>1. /\ Len(lg) + i - 1 \in Nat /\ Len(lg) + 1 \in Nat /\ order[i] \in CommitOrNone
        /\ lg[t].thread \in Nat /\ lg[t].name \in Names
    BY <1>1, <1>2 DEF CommitOrNone, Patch, n
  <2> QED
    BY <1>2, <2>1 DEF Patch
<1> HIDE DEF next
<1>5. events \in Seq(Patch) /\ Len(events) = n /\ \A i \in 1..n : events[i] = next(i)
  BY <1>2, <1>3, <1>4
<1>6. \A i \in 1..n :
        /\ events[i].at = at /\ ~events[i].root /\ events[i].commit = order[i]
        /\ events[i].parent = IF i = 1 THEN t ELSE Len(lg) + i - 1
  <2>1. \A i \in 1..n :
          /\ next(i).at = at /\ ~next(i).root /\ next(i).commit = order[i]
          /\ next(i).parent = IF i = 1 THEN t ELSE Len(lg) + i - 1
    BY DEF next
  <2> HIDE DEF events, next
  <2> QED
    BY <1>5, <2>1
<1> HIDE DEF events, next
<1>7. ASSUME NEW i \in 1..n PROVE Fits(lg, events, i)
  <2>1. /\ i \in Nat /\ order[i] \in Commits /\ order[i] # NoCommit
        /\ OneParent(order[i])
    BY <1>1, <1>2, NoCommitAssumption DEF n
  <2>2. CASE i = 1
    <3>1. events[i].parent = t /\ t \in 1..Len(lg) + i - 1 /\ t <= Len(lg)
      BY <1>2, <1>6, <2>2
    <3> QED
      BY <1>1, <1>6, <2>1, <2>2, <3>1 DEF Fits
  <2>3. CASE i # 1
    <3>1. events[i].parent = Len(lg) + i - 1
      BY <1>6, <2>3
    <3>2. /\ events[i].parent \in 1..Len(lg) + i - 1 /\ ~(events[i].parent <= Len(lg))
          /\ events[i].parent - Len(lg) = i - 1
          /\ i - 1 \in 1..n - 1 /\ i - 1 \in 1..n /\ (i - 1) + 1 = i
      BY <1>2, <2>1, <2>3, <3>1
    <3>3. events[i - 1].commit = order[i - 1] /\ Parents(order[i]) = {order[i - 1]}
      BY <1>1, <1>6, <3>2
    <3> QED
      BY <1>6, <2>1, <3>2, <3>3 DEF Fits
  <2> QED
    BY <2>2, <2>3
<1> QED
  BY <1>5, <1>7 DEF events

-----------------------------------------------------------------------------
(* What is published.                                                      *)

\* A log with more events at its end.
Grown(lg, lg2) == Len(lg) <= Len(lg2) /\ \A i \in 1..Len(lg) : lg2[i] = lg[i]

\* A patch of a proposal is one of a commit.
LEMMA InPatches ==
    ASSUME NEW lg, LogOK(lg), NEW S \in SUBSET (1..Len(lg)), NEW p \in Roots(lg, S),
           NEW i \in PatchesOf(lg, S, p)
    PROVE  /\ i \in S /\ i \in 1..Len(lg) /\ lg[i] \in Patch
           /\ lg[i].commit \in Commits /\ OneParent(lg[i].commit)
           /\ lg[i].author \in Permissioned(lg, p) /\ ~IsCoverLetter(lg[i])
<1>1. p \in S
  BY DEF Roots, Patches
<1>2. /\ i \in S /\ lg[i].author \in Permissioned(lg, p) /\ ~IsCoverLetter(lg[i])
  BY <1>1 DEF PatchesOf, Tagging, Patches
<1>3. i \in 1..Len(lg) /\ lg[i] \in Patch /\ InPlace(lg, i)
  BY <1>2 DEF LogOK
<1>4. lg[i].commit # NoCommit /\ lg[i].commit \in CommitOrNone
  BY <1>2, <1>3 DEF IsCoverLetter, InPlace, Patch
<1> QED
  BY <1>2, <1>3, <1>4 DEF InPlace, CommitOrNone

\* Events arrive in order, perhaps not all.
LEMMA PublishedPlaced ==
    ASSUME LogOK(log), NEW events \in Seq(Patch), \A i \in 1..Len(events) : Fits(log, events, i),
           Published(events)
    PROVE  /\ LogOK(log') /\ Grown(log, log')
           /\ Len(log') = Len(log) + Len(events) =>
                \A i \in 1..Len(events) : log'[Len(log) + i] = events[i]
<1>1. Len(log) \in Nat /\ Len(events) \in Nat /\ Len(log) + Len(events) <= MaxLog
  BY DEF LogOK, Published
<1>2. PICK n \in 0..Len(events) : log' = log \o SubSeq(events, 1, n)
  <2>1. PICK n \in IF "relay_fault" \in Env THEN 0..Len(events) ELSE {Len(events)} :
          log' = log \o SubSeq(events, 1, n)
    BY DEF Published
  <2>2. n \in 0..Len(events)
    BY <1>1
  <2> QED
    BY <2>1, <2>2
<1>3. /\ LogOK(log') /\ Len(log') = Len(log) + n
      /\ \A i \in 1..Len(log) : log'[i] = log[i]
      /\ \A i \in 1..n : log'[Len(log) + i] = events[i]
  BY <1>1, <1>2, MorePlaced
<1>4. Len(log') = Len(log) + Len(events) => n = Len(events)
  BY <1>1, <1>3
<1> QED
  BY <1>1, <1>3, <1>4 DEF Grown

\* What a proposal or a revision is made of.
SentAs(user, p, mentions, letter, a, b, name, at) ==
    PatchSet(log, RootEvent(user, at, name, p, mentions), letter, Ahead(a, b))

\* A set by user, in reply to p: of one date, with one event for each commit.
IsSet(lg, events, user, p) ==
    LET n == Len(events) IN
    /\ n >= 1
    /\ \A i \in 1..n : /\ events[i].author = user /\ events[i].at = events[1].at
                       /\ events[i].root <=> i = 1
    /\ events[1].revision <=> p # 0
    /\ events[1].parent = p /\ events[1].thread = 0
    /\ \A i \in 2..n : /\ ~events[i].revision /\ events[i].thread = Len(lg) + 1
                       /\ events[i].parent = Len(lg) + i - 1
    /\ events[n].commit # NoCommit

\* Its events are in their place.
LEMMA SentFits ==
    ASSUME LogOK(log), NEW user \in Users, NEW name \in Names, NEW p \in Nat,
           NEW mentions \in SUBSET Nat, NEW letter,
           NEW a \in Commits, NEW b \in Commits, Ahead(a, b) \in Sendable, NEW at \in Nat,
           NEW events, events = SentAs(user, p, mentions, letter, a, b, name, at)
    PROVE  /\ events \in Seq(Patch)
           /\ \A i \in 1..Len(events) : Fits(log, events, i)
           /\ IsSet(log, events, user, p)
<1> DEFINE cs == (IF letter THEN <<NoCommit>> ELSE << >>) \o Ordered(Ahead(a, b))
           head1 == RootEvent(user, at, name, p, mentions)
<1>1. IsLine(cs) /\ cs[Len(cs)] # NoCommit
  BY LetterLine
<1>2. events = Threaded(log, head1, cs)
  BY DEF SentAs, PatchSet
<1>3. IsHead(head1) /\ head1.author = user /\ head1.at = at /\ head1.parent = p
  <2>1. (p # 0) \in BOOLEAN /\ head1 = RootEvent(user, at, name, p, mentions)
    OBVIOUS
  <2> QED
    BY <2>1 DEF IsHead, RootEvent, Patch, CommitOrNone
<1> HIDE DEF cs, head1
<1>4. /\ events \in Seq(Patch) /\ Len(events) = Len(cs)
      /\ \A i \in 1..Len(cs) : Fits(log, events, i)
      /\ events[1].revision <=> head1.parent # 0
      /\ events[1].parent = head1.parent /\ events[1].thread = 0
      /\ \A i \in 1..Len(cs) : /\ events[i].author = head1.author /\ events[i].at = head1.at
                               /\ events[i].commit = cs[i]
                               /\ events[i].root <=> i = 1
      /\ \A i \in 2..Len(cs) : /\ ~events[i].revision /\ events[i].thread = Len(log) + 1
                               /\ events[i].parent = Len(log) + i - 1
  BY <1>1, <1>2, <1>3, SetFits
<1>5. Len(cs) >= 1 /\ Len(cs) \in 1..Len(cs)
  BY <1>1 DEF IsLine
<1> QED
  BY <1>1, <1>3, <1>4, <1>5 DEF IsSet

\* The events of some such set are published.
SentNow(user, ks, letter) ==
    \E p \in {0} \cup {i \in Ids : log[i].root},
       mentions \in SUBSET Nat, name \in Names, a \in Commits, b \in Commits, at \in Nat :
      LET events == SentAs(user, p, mentions, letter, a, b, name, at)
      IN  /\ Ahead(a, b) = ks /\ Published(events)
          /\ sent' = [author |-> user, reply |-> p, mentions |-> mentions,
                      first |-> Len(log) + 1,
                      complete |-> Len(log') = Len(log) + Len(events)]

LEMMA DatesType == LogOK(log) => Dates \subseteq Nat
BY DEF LogOK, Dates

\* ngit send publishes a set.
LEMMA SendIs ==
    ASSUME LogOK(log), NEW user \in Users, NEW ks \in Sendable, NEW reply \in {0} \cup Ids,
           NEW mentioned \in SUBSET Nat, NEW letter,
           Send(user, ks, reply, mentioned, letter)
    PROVE  SentNow(user, ks, letter)
<1>1. PICK cached \in {Ids} \cup (IF "relay_fault" \in Env THEN {{}} ELSE {}),
           name \in Names, at \in Dates :
        LET to == ReplyOf(reply, cached)
            head1 == RootEvent(user, at, name, to.root, to.mentions \cup mentioned)
            events == PatchSet(log, head1, letter, ks)
        IN /\ Published(events)
           /\ sent' = [author |-> user, reply |-> to.root, mentions |-> head1.mentions,
                       first |-> Len(log) + 1,
                       complete |-> Len(log') = Len(log) + Len(events)]
  BY DEF Send
<1>2. PICK a \in Commits, b \in Commits : ks = Ahead(a, b)
  BY DEF Sendable, Ranges
<1> DEFINE to == ReplyOf(reply, cached)
           p == to.root
           mentions == to.mentions \cup mentioned
<1>3. p \in {0} \cup {i \in Ids : log[i].root} /\ to.mentions \subseteq {reply}
  BY DEF ReplyOf
<1>4. mentions \in SUBSET Nat
  <2>1. reply \in Nat
    BY DEF Ids, LogOK
  <2> HIDE DEF to
  <2> QED
    BY <1>3, <2>1
<1>5. RootEvent(user, at, name, p, mentions).mentions = mentions
  BY DEF RootEvent
<1>6. at \in Nat
  BY DatesType
<1> HIDE DEF to
<1> QED
  BY <1>1, <1>2, <1>3, <1>4, <1>5, <1>6 DEF SentAs, to, SentNow

\* Whatever others publish is in its place.
LEMMA OthersPlaced ==
    ASSUME LogOK(log), Others
    PROVE  LogOK(log') /\ Grown(log, log')
<1>1. CASE \E user \in Users, ks \in Sendable, letter \in BOOLEAN, reply \in {0} \cup Ids,
              mentioned \in {{}} \cup (IF "mention" \in Env THEN {{i} : i \in Ids} ELSE {}) :
            Send(user, ks, reply, mentioned, letter)
  <2>1. PICK user \in Users, ks \in Sendable, letter \in BOOLEAN, reply \in {0} \cup Ids,
             mentioned \in {{}} \cup (IF "mention" \in Env THEN {{i} : i \in Ids} ELSE {}) :
          Send(user, ks, reply, mentioned, letter)
    BY <1>1
  <2>2. mentioned \in SUBSET Nat
    BY DEF Ids, LogOK
  <2>0. SentNow(user, ks, letter)
    BY <2>1, <2>2, SendIs
  <2>3. PICK p \in {0} \cup {i \in Ids : log[i].root},
             mentions \in SUBSET Nat, name \in Names, a \in Commits, b \in Commits, at \in Nat :
          LET events == SentAs(user, p, mentions, letter, a, b, name, at)
          IN  /\ Ahead(a, b) = ks /\ Published(events)
              /\ sent' = [author |-> user, reply |-> p, mentions |-> mentions,
                          first |-> Len(log) + 1,
                          complete |-> Len(log') = Len(log) + Len(events)]
    BY <2>0 DEF SentNow
  <2> DEFINE events == SentAs(user, p, mentions, letter, a, b, name, at)
  <2>6. p \in Nat
    BY DEF Ids, LogOK
  <2>7. Ahead(a, b) \in Sendable /\ events = SentAs(user, p, mentions, letter, a, b, name, at)
    BY <2>3
  <2>8. Published(events)
    BY <2>3
  <2> HIDE DEF events
  <2>9. events \in Seq(Patch) /\ \A i \in 1..Len(events) : Fits(log, events, i)
    BY <2>6, <2>7, SentFits
  <2> QED
    BY <2>8, <2>9, PublishedPlaced
<1>2. CASE \E user \in Users, p \in Roots(log, Ids), k \in Commits : Add(user, p, k)
  <2>1. PICK user \in Users, p \in Roots(log, Ids), k \in Commits : Add(user, p, k)
    BY <1>2
  <2>2. PICK t \in Tips(log, PatchesOf(log, Ids, p)), at \in Dates :
          /\ FastForward(log[t].commit, k) /\ Ahead(log[t].commit, k) \in Sendable
          /\ Published(Appended(log, user, at, t, Ahead(log[t].commit, k)))
    BY <2>1 DEF Add
  <2>3. t \in PatchesOf(log, Ids, p)
    BY DEF Tips, Youngest
  <2>4. t \in 1..Len(log) /\ log[t].commit \in Commits
    BY <2>3, InPatches DEF Ids
  <2> DEFINE events == Appended(log, user, at, t, Ahead(log[t].commit, k))
  <2>5. events \in Seq(Patch) /\ \A i \in 1..Len(events) : Fits(log, events, i)
    BY <2>2, <2>4, DatesType, AppendedFits
  <2> QED
    BY <2>2, <2>5, PublishedPlaced
<1> QED
  BY <1>1, <1>2 DEF Others

\* Nothing else is published.
LEMMA LogStays ==
    ASSUME LogOK(log), [Next]_vars
    PROVE  /\ LogOK(log') /\ Grown(log, log')
           /\ ~Others => log' = log
<1>1. CASE Others
  BY <1>1, OthersPlaced
<1>2. CASE ~Others
  <2>1. log' = log
    BY <1>2 DEF Next, Reviewer, List, Edit, Commit, Launch, Back, Leave, GitAm, Answer, Work,
       Finish, Broken, Choose, Look, vars
  <2> QED
    BY <1>2, <2>1 DEF Grown, LogOK
<1> QED
  BY <1>1, <1>2

-----------------------------------------------------------------------------
(* More events.                                                            *)

\* Who has more events of a longer log has no fewer proposals and patches.
LEMMA MorePatches ==
    ASSUME NEW lg, LogOK(lg), NEW lg2, LogOK(lg2), Grown(lg, lg2),
           NEW S \in SUBSET (1..Len(lg)), NEW S2 \in SUBSET (1..Len(lg2)), S \subseteq S2,
           NEW p \in Roots(lg, S)
    PROVE  /\ p \in Roots(lg2, S2)
           /\ PatchesOf(lg, S, p) \subseteq PatchesOf(lg2, S2, p)
           /\ \A i \in PatchesOf(lg, S, p) : lg2[i] = lg[i]
<1>1. \A i \in S : lg2[i] = lg[i] /\ i \in S2
  BY DEF Grown
<1>2. p \in S /\ Permissioned(lg2, p) = Permissioned(lg, p)
  BY <1>1 DEF Roots, Patches, Permissioned
<1>3. p \in Roots(lg2, S2)
  BY <1>1 DEF Roots, Patches
<1>4. \A T, T2 : T \subseteq T2 => Tagging(lg, S, T) \subseteq Tagging(lg2, S2, T2)
  BY <1>1 DEF Tagging, Patches
<1> DEFINE mine == {i \in {p} \cup Tagging(lg, S, {p}) : lg[i].author \in Permissioned(lg, p)}
           mine2 == {i \in {p} \cup Tagging(lg2, S2, {p}) : lg2[i].author \in Permissioned(lg2, p)}
           revisions == {i \in mine : lg[i].revision}
           revisions2 == {i \in mine2 : lg2[i].revision}
<1>5. mine \subseteq S
  BY <1>2 DEF Tagging, Patches
<1>6. mine \subseteq mine2 /\ revisions \subseteq revisions2
  BY <1>1, <1>2, <1>4, <1>5
<1>7. Tagging(lg, S, revisions) \subseteq Tagging(lg2, S2, revisions2) /\ Tagging(lg, S, revisions) \subseteq S
  <2> HIDE DEF mine, mine2, revisions, revisions2
  <2>1. Tagging(lg, S, revisions) \subseteq S
    BY DEF Tagging, Patches
  <2> QED
    BY <1>4, <1>6, <2>1
<1>8. /\ PatchesOf(lg, S, p) = {i \in mine \cup Tagging(lg, S, revisions) :
            lg[i].author \in Permissioned(lg, p) /\ ~IsCoverLetter(lg[i])}
      /\ PatchesOf(lg2, S2, p) = {i \in mine2 \cup Tagging(lg2, S2, revisions2) :
            lg2[i].author \in Permissioned(lg2, p) /\ ~IsCoverLetter(lg2[i])}
  BY DEF PatchesOf
<1> HIDE DEF mine, mine2, revisions, revisions2
<1> QED
  BY <1>1, <1>2, <1>3, <1>5, <1>6, <1>7, <1>8

-----------------------------------------------------------------------------
(* A complete set is the latest version of its proposal.                   *)

\* The last n events are newer than other patches, and each replies to the one
\* before.
Continues(lg, patches, L, n, at) ==
    /\ n >= 1 /\ patches \in SUBSET (1..L + n)
    /\ at \in Nat /\ \A i \in patches : lg[i].at \in Nat
    /\ \A i \in patches : i <= L => lg[i].at < at
    /\ \A i \in L + 1..L + n : lg[i].at = at
    /\ \A i \in L + 2..L + n : i \in patches /\ ParentOf(lg[i]) = i - 1
    /\ L + n \in patches /\ ParentOf(lg[L + 1]) \in 0..L

\* Then the last is the tip.
LEMMA LastIsTip ==
    ASSUME NEW L \in Nat, NEW n \in Nat, NEW lg, NEW patches, NEW at,
           Continues(lg, patches, L, n, at)
    PROVE  Tips(lg, patches) = {L + n}
<1> USE DEF Continues
<1>1. \A i \in patches : i \in 1..L \/ i \in L + 1..L + n
  OBVIOUS
<1>2. L + n \in L + 1..L + n
  OBVIOUS
<1>3. \A j \in patches : lg[j].at \in Nat /\ lg[j].at <= at
  BY <1>1
<1>4. Youngest(lg, patches) = patches \cap (L + 1..L + n)
  <2>1. ASSUME NEW i \in patches, i \in L + 1..L + n PROVE i \in Youngest(lg, patches)
    BY <1>3, <2>1 DEF Youngest
  <2>2. ASSUME NEW i \in Youngest(lg, patches) PROVE i \in patches /\ i \in L + 1..L + n
    <3>1. i \in patches /\ lg[L + n].at <= lg[i].at /\ lg[L + n].at = at
      BY <1>2 DEF Youngest
    <3>2. i \notin 1..L
      BY <3>1
    <3> QED
      BY <1>1, <3>1, <3>2
  <2> QED
    BY <2>1, <2>2
<1> DEFINE last == Youngest(lg, patches)
<1> HIDE DEF last
<1>5. ASSUME NEW i \in last, i # L + n PROVE \E j \in last : ParentOf(lg[j]) = i
  <2>1. i \in L + 1..L + n
    BY <1>4 DEF last
  <2>2. i + 1 \in L + 2..L + n /\ i + 1 \in L + 1..L + n /\ (i + 1) - 1 = i
    BY <1>5, <2>1
  <2>3. i + 1 \in last
    BY <1>4, <2>2 DEF last
  <2>4. ParentOf(lg[i + 1]) = (i + 1) - 1
    BY <2>2
  <2> QED
    BY <2>2, <2>3, <2>4
<1>6. ASSUME NEW j \in last PROVE ParentOf(lg[j]) # L + n
  <2>1. j \in L + 1..L + n
    BY <1>4 DEF last
  <2>2. CASE j = L + 1
    BY <2>2
  <2>3. CASE j # L + 1
    <3>1. j \in L + 2..L + n
      BY <2>1, <2>3
    <3> QED
      BY <3>1
  <2> QED
    BY <2>2, <2>3
<1>7. L + n \in last
  BY <1>2, <1>4 DEF last
<1>8. Tips(lg, patches) = {i \in last : \A j \in last : ParentOf(lg[j]) # i}
  BY DEF Tips, last
<1> QED
  BY <1>5, <1>6, <1>7, <1>8

\* A log to which all of a set has been added.
Added(lg, lg2, events) ==
    /\ Grown(lg, lg2) /\ Len(lg2) = Len(lg) + Len(events)
    /\ \A i \in 1..Len(events) : lg2[Len(lg) + i] = events[i]

\* So it is of a set, whether it is a new proposal or revises one.
LEMMA SetIsTip ==
    ASSUME NEW lg, LogOK(lg), NEW lg2, LogOK(lg2), NEW events \in Seq(Patch),
           NEW user, NEW p \in 0..Len(lg), IsSet(lg, events, user, p), Added(lg, lg2, events),
           p # 0 => lg2[p].root,
           NEW q, q = IF p = 0 THEN Len(lg) + 1 ELSE p,
           user \in Permissioned(lg2, q),
           \A i \in PatchesOf(lg2, 1..Len(lg2), q) :
               i < Len(lg) + 1 => lg2[i].at < events[1].at
    PROVE  Tips(lg2, PatchesOf(lg2, 1..Len(lg2), q)) = {Len(lg2)}
<1> DEFINE L == Len(lg)
           n == Len(events)
           at == events[1].at
           S == 1..L + n
           patches == PatchesOf(lg2, S, q)
           mine == {i \in {q} \cup Tagging(lg2, S, {q}) : lg2[i].author \in Permissioned(lg2, q)}
           revisions == {i \in mine : lg2[i].revision}
<1>0. L \in Nat /\ n \in Nat /\ n >= 1 /\ at \in Nat
  <2>1. L \in Nat /\ n \in Nat /\ n >= 1
    BY DEF LogOK, IsSet
  <2>2. events[1] \in Patch
    BY <2>1
  <2> QED
    BY <2>1, <2>2 DEF Patch
<1> HIDE DEF at
<1>1. /\ L \in Nat /\ n \in Nat /\ n >= 1 /\ S = 1..Len(lg2)
      /\ \A i \in S : lg2[i] \in Patch /\ InPlace(lg2, i)
  BY DEF LogOK, IsSet, Added
<1>2. \A i \in L + 1..L + n : i - L \in 1..n /\ L + (i - L) = i /\ lg2[i] = events[i - L]
  BY <1>1 DEF Added
<1>3. ASSUME NEW i \in L + 1..L + n
      PROVE  /\ lg2[i].author = user /\ lg2[i].at = at
             /\ lg2[i].root <=> i = L + 1
  <2>1. i - L \in 1..n /\ lg2[i] = events[i - L] /\ (i - L = 1 <=> i = L + 1)
    BY <1>1, <1>2
  <2>2. /\ events[i - L].author = user /\ events[i - L].at = at
        /\ events[i - L].root <=> i - L = 1
    BY <2>1 DEF IsSet, at
  <2> QED
    BY <2>1, <2>2
<1>4. ASSUME NEW i \in L + 2..L + n
      PROVE  lg2[i].thread = L + 1 /\ lg2[i].parent = i - 1 /\ ~lg2[i].root
  <2>1. i \in L + 1..L + n /\ i - L \in 2..n /\ L + (i - L) - 1 = i - 1
    BY <1>1
  <2>2. events[i - L].thread = L + 1 /\ events[i - L].parent = L + (i - L) - 1
    BY <2>1 DEF IsSet
  <2>3. lg2[i] = events[i - L] /\ i # L + 1
    BY <1>1, <1>2, <2>1
  <2> QED
    BY <1>3, <2>1, <2>2, <2>3
<1>5. /\ L + 1 \in L + 1..L + n /\ lg2[L + 1] = events[1]
      /\ lg2[L + 1].revision <=> p # 0
      /\ lg2[L + 1].parent = p /\ lg2[L + 1].thread = 0
  <2>1. L + 1 \in L + 1..L + n /\ (L + 1) - L = 1
    BY <1>1
  <2>2. lg2[L + 1] = events[1]
    BY <1>2, <2>1
  <2>3. (events[1].revision <=> p # 0) /\ events[1].parent = p /\ events[1].thread = 0
    BY DEF IsSet
  <2> QED
    BY <2>1, <2>2, <2>3
<1>6. q \in S /\ lg2[q].root
  BY <1>1, <1>3, <1>5
<1>7. \A i \in S : i \in Patches(lg2, S)
  BY <1>1 DEF Patches, IsPatch, Patch
<1>8. L + 1 \in mine
  <2>1. CASE p = 0
    BY <1>3, <1>5, <2>1
  <2>2. CASE p # 0
    <3>1. L + 1 \in Tagging(lg2, S, {q})
      BY <1>1, <1>5, <1>7, <2>2 DEF Tagging
    <3> QED
      BY <1>3, <1>5, <3>1
  <2> QED
    BY <2>1, <2>2
<1>9. \A i \in L + 2..L + n : i \in mine \cup Tagging(lg2, S, revisions)
  <2> SUFFICES ASSUME NEW i \in L + 2..L + n PROVE i \in mine \cup Tagging(lg2, S, revisions)
    OBVIOUS
  <2>1. i \in S /\ i \in Patches(lg2, S) /\ i \in L + 1..L + n
    BY <1>1, <1>7
  <2>2. \A T : L + 1 \in T => i \in Tagging(lg2, S, T)
    BY <1>4, <2>1 DEF Tagging
  <2>3. CASE p = 0
    <3>1. i \in Tagging(lg2, S, {q})
      BY <2>2, <2>3
    <3> QED
      BY <1>3, <2>1, <3>1
  <2>4. CASE p # 0
    <3>1. L + 1 \in revisions
      BY <1>5, <1>8, <2>4
    <3> HIDE DEF revisions
    <3> QED
      BY <2>2, <3>1
  <2> QED
    BY <2>3, <2>4
<1>10. patches = {i \in mine \cup Tagging(lg2, S, revisions) :
                    lg2[i].author \in Permissioned(lg2, q) /\ ~IsCoverLetter(lg2[i])}
  BY DEF PatchesOf
<1>11. patches \in SUBSET S
  BY <1>6, <1>10 DEF Tagging, Patches
<1> HIDE DEF mine, revisions, patches
<1>12. \A i \in L + 2..L + n : i \in patches /\ ParentOf(lg2[i]) = i - 1
  <2> SUFFICES ASSUME NEW i \in L + 2..L + n PROVE i \in patches /\ ParentOf(lg2[i]) = i - 1
    OBVIOUS
  <2>1. i \in L + 1..L + n /\ i - 1 # 0
    BY <1>1
  <2>2. lg2[i].author = user /\ lg2[i].parent = i - 1 /\ ~IsCoverLetter(lg2[i])
    BY <1>3, <1>4, <2>1 DEF IsCoverLetter
  <2> QED
    BY <1>9, <1>10, <2>1, <2>2 DEF ParentOf
<1>13. L + n \in patches
  <2>1. CASE n = 1
    <3>1. lg2[L + n].commit # NoCommit
      BY <1>5, <2>1 DEF IsSet
    <3>2. lg2[L + n].author = user /\ L + n \in mine
      BY <1>3, <1>5, <1>8, <2>1
    <3> QED
      BY <1>10, <3>1, <3>2 DEF IsCoverLetter
  <2>2. CASE n # 1
    <3> HIDE DEF L, n
    <3>1. L + n \in L + 2..L + n
      BY <1>0, <2>2
    <3> QED
      BY <1>12, <3>1
  <2> QED
    BY <2>1, <2>2
<1>14. \A i \in patches : lg2[i].at \in Nat /\ (i <= L => lg2[i].at < at)
  <2> SUFFICES ASSUME NEW i \in patches
               PROVE  lg2[i].at \in Nat /\ (i <= L => lg2[i].at < at)
    OBVIOUS
  <2>1. i \in S /\ i \in Nat /\ lg2[i] \in Patch
    BY <1>1, <1>11
  <2>2. i <= L => lg2[i].at < at
    BY <1>1, <2>1 DEF patches, at
  <2> QED
    BY <2>1, <2>2 DEF Patch
<1>15. ParentOf(lg2[L + 1]) \in 0..L
  BY <1>1, <1>5 DEF ParentOf
<1>16. \A i \in L + 1..L + n : lg2[i].at = at
  BY <1>3
<1>17. patches \in SUBSET (1..L + n)
  BY <1>11
<1> HIDE DEF L, n, S
<1>18. Continues(lg2, patches, L, n, at)
  BY <1>0, <1>12, <1>13, <1>14, <1>15, <1>16, <1>17 DEF Continues
<1>19. Tips(lg2, patches) = {L + n}
  BY <1>0, <1>18, LastIsTip
<1> QED
  BY <1>1, <1>19 DEF patches, S, L, n

\* What is sent is seen as it was sent, and no other step sends anything.
LEMMA SentStep ==
    ASSUME LogOK(log), SentIsTip, [Next]_vars
    PROVE  SentIsTip'
<1>1. CASE sent' = None
  BY <1>1 DEF SentIsTip
<1>2. CASE UNCHANGED vars
  BY <1>2 DEF vars, SentIsTip, SentLast, SentProposal, Ids
<1>3. CASE \E user \in Users, ks \in Sendable, letter \in BOOLEAN, reply \in {0} \cup Ids,
              mentioned \in {{}} \cup (IF "mention" \in Env THEN {{i} : i \in Ids} ELSE {}) :
            Send(user, ks, reply, mentioned, letter)
  <2>1. PICK user \in Users, ks \in Sendable, letter \in BOOLEAN, reply \in {0} \cup Ids,
             mentioned \in {{}} \cup (IF "mention" \in Env THEN {{i} : i \in Ids} ELSE {}) :
          Send(user, ks, reply, mentioned, letter)
    BY <1>3
  <2>2. mentioned \in SUBSET Nat
    BY DEF Ids, LogOK
  <2>0. SentNow(user, ks, letter)
    BY <2>1, <2>2, SendIs
  <2>3. PICK p \in {0} \cup {i \in Ids : log[i].root},
             mentions \in SUBSET Nat, name \in Names, a \in Commits, b \in Commits, at \in Nat :
          LET events == SentAs(user, p, mentions, letter, a, b, name, at)
          IN  /\ Ahead(a, b) = ks /\ Published(events)
              /\ sent' = [author |-> user, reply |-> p, mentions |-> mentions,
                          first |-> Len(log) + 1,
                          complete |-> Len(log') = Len(log) + Len(events)]
    BY <2>0 DEF SentNow
  <2> DEFINE events == SentAs(user, p, mentions, letter, a, b, name, at)
             q == IF p = 0 THEN Len(log) + 1 ELSE p
  <2>4. p \in Nat /\ p \in 0..Len(log) /\ Len(log) \in Nat /\ (p # 0 => log[p].root)
    BY DEF Ids, LogOK
  <2>5. Ahead(a, b) \in Sendable /\ events = SentAs(user, p, mentions, letter, a, b, name, at)
    BY <2>3
  <2>6. /\ Published(events) /\ sent'.author = user /\ sent'.reply = p
        /\ sent'.first = Len(log) + 1
        /\ sent'.complete => Len(log') = Len(log) + Len(events)
    BY <2>3
  <2> HIDE DEF events
  <2>7. /\ events \in Seq(Patch) /\ \A i \in 1..Len(events) : Fits(log, events, i)
        /\ IsSet(log, events, user, p)
    BY <2>4, <2>5, SentFits
  <2>8. /\ LogOK(log') /\ Grown(log, log')
        /\ Len(log') = Len(log) + Len(events) =>
             \A i \in 1..Len(events) : log'[Len(log) + i] = events[i]
    BY <2>6, <2>7, PublishedPlaced
  <2>9. SentProposal' = q
    BY <2>6 DEF SentProposal
  <2>10. p # 0 => log'[p].root
    BY <2>4, <2>8 DEF Grown
  <2> HIDE DEF q
  <2> SUFFICES ASSUME sent'.complete, user \in Permissioned(log', q), SentLast'
               PROVE  Tips(log', PatchesOf(log', 1..Len(log'), q)) = {Len(log')}
    BY <2>6, <2>9 DEF SentIsTip, Ids
  <2>11. Added(log, log', events)
    BY <2>6, <2>8 DEF Added
  <2>12. q = IF p = 0 THEN Len(log) + 1 ELSE p
    BY DEF q
  <2>13. log'[Len(log) + 1].at = events[1].at
    <3>1. Len(events) \in Nat /\ Len(events) >= 1
      BY <2>7 DEF IsSet
    <3> QED
      BY <3>1, <2>11 DEF Added
  <2>14. \A i \in PatchesOf(log', 1..Len(log'), q) :
            i < Len(log) + 1 => log'[i].at < events[1].at
    BY <2>6, <2>9, <2>13 DEF SentLast, Ids
  <2> QED
    BY <2>4, <2>7, <2>8, <2>10, <2>11, <2>12, <2>14, SetIsTip
<1>4. CASE Next /\ sent' # None /\ ~\E user \in Users, ks \in Sendable, letter \in BOOLEAN, reply \in {0} \cup Ids,
              mentioned \in {{}} \cup (IF "mention" \in Env THEN {{i} : i \in Ids} ELSE {}) :
            Send(user, ks, reply, mentioned, letter)
  BY <1>4 DEF Next, Others, Reviewer, List, Add, Edit, Commit, Launch, Back, Leave, GitAm,
     Answer, Work, Finish, Broken, Choose, Look
<1> QED
  BY <1>1, <1>2, <1>3, <1>4

\* What ngit send published completely, in reply to nothing or to what its author
\* may revise, everybody sees as the latest version, if no patch that was there
\* has its date or a later one: whatever the clocks of others did.
THEOREM SentShown == Spec => []SentIsTip
<1> DEFINE Inv == LogOK(log) /\ SentIsTip
<1>1. Init => Inv
  BY CheckoutAssumption DEF Init, LogOK, SentIsTip
<1>2. Inv /\ [Next]_vars => Inv'
  BY LogStays, SentStep DEF LogOK
<1> QED
  BY <1>1, <1>2, PTL DEF Spec

-----------------------------------------------------------------------------
(* The clone and the task, for the other properties.                       *)

\* The commits of the patches of t, newest first, and the one below the newest k.
At(t, i) == log[t.chain[i]].commit
Below(t, k) == IF k = Len(t.chain) THEN BaseOf(t) ELSE At(t, k + 1)
OfChain(t) == {BaseOf(t)} \cup {At(t, i) : i \in 1..Len(t.chain)}

\* Each patch is of the commit after that of the next.
IsChainOf(t) ==
    /\ t.chain \in Seq(PatchesOf(log, ids, t.proposal)) /\ Len(t.chain) >= 1
    /\ \A i \in 1..Len(t.chain) - 1 : Parents(At(t, i)) = {At(t, i + 1)}

\* What the branch of the chosen proposal was compared with is still true.
Calm == "meanwhile" \notin Env \/ task.proposal \notin own

\* The chosen proposal has patches, and the branch that was compared with them is there.
TaskOK ==
    /\ task.proposal \in Roots(log, ids) /\ IsChainOf(task)
    /\ task.kind # "baseless" => BaseOf(task) \in objects
    /\ task.kind \notin {"baseless", "new"} => branch[task.proposal] # NoCommit

\* The comparison is of the branch as it is.
Compared ==
    LET local == branch[task.proposal] IN
    /\ task.kind = "new" => local = NoCommit
    /\ task.kind = "same" => local = TipOf(task)
    /\ task.kind = "behind" => local \in OfChain(task)
    /\ task.kind = "replaced" => local \in CommitsOf(PatchesOf(log, ids, task.proposal))

\* The operations there are.
GitStep == [op : {"main", "checkout", "apply", "move", "make", "loop"},
            commit : CommitOrNone, left : SUBSET Nat]

\* The operations to come move the branch at most once, at once or after one other
\* operation, then check it out and apply patches.
Shape(ops) ==
    /\ ops \in Seq(GitStep)
    /\ \A j \in 3..Len(ops) : ops[j].op \in {"checkout", "apply", "loop"}
    /\ Len(ops) >= 2 => /\ ops[2].op \in {"move", "checkout", "apply", "loop"}
                        /\ ops[2].op = "move" <=> ops[1].op \in {"main", "make"}
    /\ Len(ops) >= 1 /\ ops[1].op \in {"main", "make"} => Len(ops) >= 3 /\ ops[3].op = "checkout"
    /\ Len(ops) >= 1 /\ ops[1].op = "make" => ops[1].commit = ops[2].commit
    /\ \A i, j \in 1..Len(ops) : {ops[i].op, ops[j].op} \subseteq {"apply", "loop"} => i = j

\* Where the branch, which is here, is once they have moved it.
Aim(ops, here) ==
    IF Len(ops) >= 1 /\ ops[1].op = "move" THEN ops[1].commit
    ELSE IF Len(ops) >= 2 /\ ops[2].op = "move" THEN ops[2].commit
    ELSE here

\* Which there are among some operations.
All(ops) == {ops[j] : j \in 1..Len(ops)}
Has(ops, names) == \E x \in All(ops) : x.op \in names

\* They put the branch where the oldest patch goes that is missing, and end with the
\* tip; each is possible when it is done.
Doing(ops, here, have, at) ==
    /\ Shape(ops)
    /\ \A x \in All(ops) : x.op = "loop" =>
          \E k \in 0..Len(task.chain) : x.left = 1..k /\ Aim(ops, here) = Below(task, k)
    /\ Has(ops, {"apply"}) /\ Calm => Aim(ops, here) \in {NoCommit} \cup OfChain(task)
    /\ ~Has(ops, {"apply", "loop"}) /\ Calm /\ task.choice # "existing" =>
          Aim(ops, here) = TipOf(task)
    /\ at = task.proposal \/ Has(ops, {"checkout", "apply"})
    /\ Has(ops, {"checkout"}) => Aim(ops, here) # NoCommit
    /\ \A x \in All(ops) : x.op = "move" =>
          x.commit \in OfChain(task) /\ (x.commit \in have \/ ops[1].op = "make")
    /\ Len(ops) >= 1 /\ ops[1].op = "make" => Parents(ops[1].commit) \subseteq have
    /\ task.choice \in {"existing", "checkout"} => \A x \in All(ops) : x.op = "checkout"

\* The operations to come lead to what the answer asked for.
WorkOK ==
    LET local == branch[task.proposal] IN
    /\ task.kind # "baseless" /\ task.choice \in Answered
    /\ Doing(todo, local, objects, head)
    /\ Calm /\ task.choice \in {"apply", "overwrite"} =>
          local \in {NoCommit} \cup PublishedOf(task.proposal)

\* A branch that nobody committed to is at a published commit of its proposal.
OwnOK ==
    \A q \in Events :
        /\ branch[q] # NoCommit /\ q \notin own
        /\ ~(pc = "working" /\ task.proposal = q /\ task.choice # "existing")
        => branch[q] \in CommitsOf(PatchesOf(log, ids, q))

\* The clone has the history of what it has, and branches only of proposals it knows.
CloneOK ==
    /\ LogOK(log) /\ ids \subseteq Ids /\ own \subseteq Ids
    /\ objects \subseteq Commits /\ \A k \in objects : Ancestors[k] \subseteq objects
    /\ branch \in [Events -> CommitOrNone]
    /\ \A q \in Events : branch[q] # NoCommit => q \in Roots(log, ids) /\ branch[q] \in objects
    /\ head \in {0} \cup {p \in Events : branch[p] # NoCommit}
    /\ dirty \in BOOLEAN
    /\ pc \in {"idle", "menu", "asked", "working"}
    /\ task \in Task \cup {None}
    /\ task # None <=> pc \in {"asked", "working"}

\* What all steps keep.
IInv ==
    /\ CloneOK
    /\ pc \in {"asked", "working"} => TaskOK
    /\ pc = "asked" /\ Calm => Compared
    /\ pc = "working" => WorkOK
    /\ Env \cap {"fault", "killed"} = {} => OwnOK /\ AmendedIsOwn
    /\ "meanwhile" \notin Env => ReportedIsTip

-----------------------------------------------------------------------------
(* The commits of a chain.                                                 *)

\* A chain is of commits that follow each other.
LEMMA ChainLine ==
    ASSUME LogOK(log), ids \subseteq Ids, NEW p \in Roots(log, ids),
           NEW tip \in PatchesOf(log, ids, p), NEW t, t.proposal = p,
           t.chain = Chain(log, PatchesOf(log, ids, p), tip)
    PROVE  IsChainOf(t)
<1> DEFINE patches == PatchesOf(log, ids, p)
           c == t.chain
<1>1. Len(log) \in Nat /\ ids \in SUBSET (1..Len(log))
  BY DEF LogOK, Ids
<1>2. ASSUME NEW i \in patches
      PROVE  /\ i \in 1..Len(log) /\ InPlace(log, i) /\ log[i].commit \in Commits
             /\ ~log[i].root => ParentOf(log[i]) = log[i].parent /\ log[i].parent \in 1..i - 1
  <2>1. i \in 1..Len(log) /\ log[i].commit \in Commits
    BY <1>1, InPatches
  <2>2. InPlace(log, i)
    BY <2>1 DEF LogOK
  <2> QED
    BY <2>1, <2>2 DEF InPlace, ParentOf
<1>3. Backwards(log, patches)
  BY <1>1, <1>2 DEF Backwards
<1> HIDE DEF patches
<1>4. /\ c \in Seq(patches) /\ Len(c) >= 1
      /\ \A i \in 1..Len(c) - 1 : ~log[c[i]].root /\ c[i + 1] = ParentOf(log[c[i]])
  BY <1>3, ChainIs DEF patches
<1>5. ASSUME NEW i \in 1..Len(c) - 1 PROVE Parents(At(t, i)) = {At(t, i + 1)}
  <2>1. i \in 1..Len(c) /\ i + 1 \in 1..Len(c)
    BY <1>4
  <2>2. c[i] \in patches /\ c[i + 1] \in patches
    BY <1>4, <2>1
  <2>3. ~log[c[i]].root /\ c[i + 1] = log[c[i]].parent
    BY <1>2, <1>4, <2>2
  <2>4. NextCommit(log, c[i]) /\ log[c[i + 1]].commit # NoCommit
    BY <1>2, <2>2, <2>3, NoCommitAssumption DEF InPlace
  <2> QED
    BY <2>3, <2>4 DEF NextCommit, At
<1> QED
  BY <1>4, <1>5 DEF IsChainOf, patches

\* The commits, and the one below them, from the newest.
LEMMA ChainCommits ==
    ASSUME LogOK(log), ids \subseteq Ids, NEW t, t.proposal \in Roots(log, ids), IsChainOf(t),
           NEW m, m = Len(t.chain)
    PROVE  /\ m \in Nat /\ m >= 1
           /\ \A i \in 1..m : t.chain[i] \in PatchesOf(log, ids, t.proposal)
           /\ \A k \in 0..m : Below(t, k) \in Commits
           /\ \A k \in 1..m : At(t, k) = Below(t, k - 1) /\ Parents(At(t, k)) = {Below(t, k)}
           /\ Below(t, 0) = TipOf(t) /\ Below(t, m) = BaseOf(t)
           /\ OfChain(t) = {Below(t, k) : k \in 0..m}
<1> DEFINE patches == PatchesOf(log, ids, t.proposal)
<1>1. m \in Nat /\ m >= 1 /\ \A i \in 1..m : t.chain[i] \in patches
  BY DEF IsChainOf
<1>2. \A i \in 1..m : At(t, i) \in Commits /\ OneParent(At(t, i))
  BY <1>1, InPatches DEF At, Ids, LogOK
<1>3. \A k \in 1..m - 1 : Parents(At(t, k)) = {At(t, k + 1)}
  BY DEF IsChainOf
<1>4. BaseOf(t) \in Commits /\ Parents(At(t, m)) = {BaseOf(t)}
  <2>1. PICK a \in Commits : Parents(At(t, m)) = {a}
    BY <1>1, <1>2 DEF OneParent
  <2>2. BaseOf(t) = CHOOSE k \in Parents(At(t, m)) : TRUE
    BY DEF BaseOf, Last, At
  <2> QED
    BY <2>1, <2>2
<1>5. \A k \in 0..m : k = m \/ k + 1 \in 1..m
  BY <1>1
<1>6. \A k \in 0..m : Below(t, k) \in Commits
  BY <1>2, <1>4, <1>5 DEF Below
<1>7. \A k \in 1..m : At(t, k) = Below(t, k - 1)
  BY <1>1 DEF Below
<1>8. \A k \in 1..m : Parents(At(t, k)) = {Below(t, k)}
  <2> SUFFICES ASSUME NEW k \in 1..m PROVE Parents(At(t, k)) = {Below(t, k)}
    OBVIOUS
  <2>1. CASE k = m
    BY <1>4, <2>1 DEF Below
  <2>2. CASE k # m
    BY <1>1, <1>3, <2>2 DEF Below
  <2> QED
    BY <2>1, <2>2
<1>9. Below(t, 0) = TipOf(t) /\ Below(t, m) = BaseOf(t)
  BY <1>1 DEF Below, TipOf, At
<1>10. OfChain(t) = {Below(t, k) : k \in 0..m}
  <2>1. \A k \in 0..m : Below(t, k) \in OfChain(t)
    BY <1>5 DEF Below, OfChain
  <2>2. \A i \in 1..m : i - 1 \in 0..m /\ At(t, i) = Below(t, i - 1)
    BY <1>1, <1>7
  <2>3. m \in 0..m
    BY <1>1
  <2> QED
    BY <1>9, <2>1, <2>2, <2>3 DEF OfChain
<1> QED
  BY <1>1, <1>6, <1>7, <1>8, <1>9, <1>10

\* Each is an ancestor of those before it and of none after it.
LEMMA ChainOrder ==
    ASSUME LogOK(log), ids \subseteq Ids, NEW t, t.proposal \in Roots(log, ids), IsChainOf(t),
           NEW i \in 0..Len(t.chain), NEW j \in 0..Len(t.chain)
    PROVE  /\ i <= j => Below(t, j) \in Ancestors[Below(t, i)]
           /\ i < j => Below(t, i) \notin Ancestors[Below(t, j)]
<1> DEFINE m == Len(t.chain)
<1>1. /\ m \in Nat /\ m >= 1
      /\ \A k \in 0..m : Below(t, k) \in Commits
      /\ \A k \in 1..m : At(t, k) = Below(t, k - 1) /\ Parents(At(t, k)) = {Below(t, k)}
  BY ChainCommits
<1>2. ASSUME NEW k \in 1..m
      PROVE  Below(t, k) \in Ancestors[Below(t, k - 1)] /\ Below(t, k) # Below(t, k - 1)
  <2>1. Below(t, k) \in Parents(Below(t, k - 1))
    BY <1>1
  <2> QED
    BY <2>1 DEF Parents
<1> HIDE DEF m
<1>3. ASSUME NEW a \in 0..m, NEW b \in a..m PROVE Below(t, b) \in Ancestors[Below(t, a)]
  <2> DEFINE bad == {k \in a..m : Below(t, k) \notin Ancestors[Below(t, a)]}
  <2> SUFFICES ASSUME b \in bad PROVE FALSE
    OBVIOUS
  <2>1. bad \in SUBSET Nat
    BY <1>1
  <2>2. PICK k \in bad : \A l \in bad : k <= l
    BY <2>1, Smallest
  <2>3. k \in a..m /\ Below(t, k) \notin Ancestors[Below(t, a)]
    OBVIOUS
  <2>4. k # a
    BY <1>1, <2>3, AncestorsAssumption
  <2>5. k \in 1..m /\ k - 1 \in a..m /\ k - 1 \in 0..m /\ ~(k <= k - 1)
    BY <1>1, <2>3, <2>4
  <2>6. Below(t, k - 1) \in Ancestors[Below(t, a)]
    BY <2>2, <2>5
  <2>7. Below(t, k) \in Ancestors[Below(t, k - 1)]
    BY <1>2, <2>5
  <2> QED
    BY <1>1, <2>3, <2>5, <2>6, <2>7, AncestorsAssumption
<1>4. ASSUME i < j, Below(t, i) \in Ancestors[Below(t, j)] PROVE FALSE
  <2>1. i + 1 \in 1..m /\ i + 1 \in 0..m /\ j \in i + 1..m /\ (i + 1) - 1 = i
    BY <1>1, <1>4 DEF m
  <2>2. /\ Below(t, i + 1) \in Ancestors[Below(t, i)] /\ Below(t, i + 1) # Below(t, i)
        /\ Below(t, j) \in Ancestors[Below(t, i + 1)]
    BY <1>2, <1>3, <2>1
  <2>3. Below(t, i) \in Ancestors[Below(t, i + 1)]
    BY <1>1, <1>4, <2>1, <2>2, AncestorsAssumption
  <2> QED
    BY <1>1, <2>1, <2>2, <2>3, PatchThreadsAssumption
<1> QED
  BY <1>1, <1>3, <1>4 DEF m

-----------------------------------------------------------------------------
(* The operations to come.                                                 *)

\* Without a move ahead the branch is where it will be.
LEMMA NoMove ==
    ASSUME NEW ops, Shape(ops), NEW here, \A x \in All(ops) : x.op # "move"
    PROVE  Aim(ops, here) = here
<1>1. Len(ops) \in Nat
  BY DEF Shape
<1>2. Len(ops) >= 1 => ops[1].op # "move"
  <2> SUFFICES ASSUME Len(ops) >= 1 PROVE ops[1] \in All(ops)
    OBVIOUS
  <2> QED
    BY <1>1 DEF All
<1>3. Len(ops) >= 2 => ops[2].op # "move"
  <2> SUFFICES ASSUME Len(ops) >= 2 PROVE ops[2] \in All(ops)
    OBVIOUS
  <2> QED
    BY <1>1 DEF All
<1> QED
  BY <1>2, <1>3 DEF Aim

\* The branch is moved next.
MovesNext(ops, rest, here) ==
    /\ Len(rest) >= 1 /\ rest[1].op = "move" /\ Has(rest, {"checkout"})
    /\ Aim(rest, here) = Aim(ops, here)
    /\ \A x \in All(rest) : x.op \in {"checkout", "apply", "loop"} \/ x = rest[1]
    /\ ops[1].op = "make" => rest[1].commit = ops[1].commit

\* The operations after the first.
LEMMA RestOf ==
    ASSUME NEW ops, Shape(ops), Len(ops) >= 1, NEW here, NEW rest, rest = Tail(ops)
    PROVE  /\ Shape(rest) /\ ops[1] \in GitStep /\ All(ops) = {ops[1]} \cup All(rest)
           /\ ops[1].op \in {"apply", "loop"} => \A x \in All(rest) : x.op = "checkout"
           /\ ops[1].op \notin {"main", "make"} =>
                \A x \in All(rest) : x.op \in {"checkout", "apply", "loop"}
           /\ ops[1].op \in {"main", "make"} => MovesNext(ops, rest, here)
<1>1. /\ Len(ops) \in Nat /\ ops \in Seq(GitStep) /\ rest \in Seq(GitStep)
      /\ Len(rest) = Len(ops) - 1 /\ \A j \in 1..Len(rest) : rest[j] = ops[j + 1]
  BY DEF Shape
<1>2. ops[1] \in GitStep /\ \A j \in 1..Len(ops) : ops[j] \in GitStep
  BY <1>1
<1>3. All(ops) = {ops[1]} \cup All(rest)
  <2>1. ASSUME NEW j \in 1..Len(ops) PROVE ops[j] \in {ops[1]} \cup All(rest)
    <3>1. j = 1 \/ (j - 1 \in 1..Len(rest) /\ (j - 1) + 1 = j)
      BY <1>1
    <3> QED
      BY <1>1, <3>1 DEF All
  <2>2. ASSUME NEW j \in 1..Len(rest) PROVE rest[j] \in All(ops)
    BY <1>1 DEF All
  <2>3. ops[1] \in All(ops)
    BY <1>1 DEF All
  <2> QED
    BY <2>1, <2>2, <2>3 DEF All
<1>4. /\ Len(ops) >= 2 => /\ ops[2].op \in {"move", "checkout", "apply", "loop"}
                          /\ ops[2].op = "move" <=> ops[1].op \in {"main", "make"}
      /\ \A j \in 3..Len(ops) : ops[j].op \in {"checkout", "apply", "loop"}
      /\ ops[1].op \in {"main", "make"} => Len(ops) >= 3 /\ ops[3].op = "checkout"
      /\ ops[1].op = "make" => ops[1].commit = ops[2].commit
      /\ \A i, j \in 1..Len(ops) : {ops[i].op, ops[j].op} \subseteq {"apply", "loop"} => i = j
  BY DEF Shape
<1>5. Shape(rest)
  <2>1. \A j \in 3..Len(rest) : rest[j].op \in {"checkout", "apply", "loop"}
    <3> SUFFICES ASSUME NEW j \in 3..Len(rest) PROVE rest[j].op \in {"checkout", "apply", "loop"}
      OBVIOUS
    <3>1. j + 1 \in 3..Len(ops) /\ rest[j] = ops[j + 1]
      BY <1>1
    <3> QED
      BY <1>4, <3>1
  <2>2. Len(rest) >= 1 => rest[1].op \notin {"main", "make"}
    <3> SUFFICES ASSUME Len(rest) >= 1 PROVE rest[1].op \notin {"main", "make"}
      OBVIOUS
    <3>1. rest[1] = ops[2] /\ Len(ops) >= 2
      BY <1>1
    <3> QED
      BY <1>4, <3>1
  <2>3. Len(rest) >= 2 => rest[2].op \in {"checkout", "apply", "loop"}
    <3> SUFFICES ASSUME Len(rest) >= 2 PROVE rest[2].op \in {"checkout", "apply", "loop"}
      OBVIOUS
    <3>1. rest[2] = ops[3] /\ 3 \in 3..Len(ops)
      BY <1>1
    <3> QED
      BY <1>4, <3>1
  <2>4. ASSUME NEW i \in 1..Len(rest), NEW j \in 1..Len(rest),
               {rest[i].op, rest[j].op} \subseteq {"apply", "loop"}
        PROVE  i = j
    <3>1. /\ i + 1 \in 1..Len(ops) /\ j + 1 \in 1..Len(ops)
          /\ rest[i] = ops[i + 1] /\ rest[j] = ops[j + 1]
      BY <1>1
    <3>2. i + 1 = j + 1
      BY <1>4, <2>4, <3>1
    <3> QED
      BY <1>1, <3>2
  <2> QED
    BY <1>1, <2>1, <2>2, <2>3, <2>4 DEF Shape
<1>6. \A j \in 1..Len(rest) : ops[1].op \notin {"main", "make"} => rest[j].op \in {"checkout", "apply", "loop"}
  <2> SUFFICES ASSUME NEW j \in 1..Len(rest), ops[1].op \notin {"main", "make"}
               PROVE  rest[j].op \in {"checkout", "apply", "loop"}
    OBVIOUS
  <2>1. rest[j] = ops[j + 1] /\ Len(ops) >= 2 /\ (j + 1 = 2 \/ j + 1 \in 3..Len(ops))
    BY <1>1
  <2> QED
    BY <1>4, <2>1
<1>7. \A j \in 1..Len(rest) : ops[1].op \in {"apply", "loop"} => rest[j].op = "checkout"
  <2> SUFFICES ASSUME NEW j \in 1..Len(rest), ops[1].op \in {"apply", "loop"}
               PROVE  rest[j].op = "checkout"
    OBVIOUS
  <2>1. rest[j] = ops[j + 1] /\ j + 1 \in 1..Len(ops) /\ 1 \in 1..Len(ops) /\ j + 1 # 1
    BY <1>1
  <2>2. ops[j + 1].op \notin {"apply", "loop"}
    BY <1>4, <2>1
  <2> QED
    BY <1>6, <2>1, <2>2
<1>8. ASSUME ops[1].op \in {"main", "make"}
      PROVE  /\ Len(rest) >= 2 /\ rest[1].op = "move" /\ rest[1] = ops[2] /\ Has(rest, {"checkout"})
             /\ Aim(rest, here) = Aim(ops, here)
             /\ \A x \in All(rest) : x.op \in {"checkout", "apply", "loop"} \/ x = rest[1]
  <2>1. Len(rest) >= 2 /\ rest[1] = ops[2] /\ rest[2] = ops[3] /\ Len(ops) >= 2 /\ 2 \in 1..Len(rest)
    BY <1>1, <1>4, <1>8
  <2>2. rest[1].op = "move" /\ rest[2].op = "checkout" /\ ops[1].op # "move"
    BY <1>4, <1>8, <2>1
  <2>3. rest[2] \in All(rest)
    BY <2>1 DEF All
  <2>4. Aim(rest, here) = Aim(ops, here)
    BY <1>1, <2>1, <2>2 DEF Aim
  <2>5. ASSUME NEW j \in 1..Len(rest) PROVE rest[j].op \in {"checkout", "apply", "loop"} \/ rest[j] = rest[1]
    <3>1. j = 1 \/ (j + 1 \in 3..Len(ops) /\ rest[j] = ops[j + 1])
      BY <1>1
    <3> QED
      BY <1>4, <3>1
  <2> QED
    BY <2>1, <2>2, <2>3, <2>4, <2>5 DEF Has, All
<1>9. /\ ops[1].op \in {"apply", "loop"} => \A x \in All(rest) : x.op = "checkout"
      /\ ops[1].op \notin {"main", "make"} =>
           \A x \in All(rest) : x.op \in {"checkout", "apply", "loop"}
  BY <1>6, <1>7 DEF All
<1>10. ops[1].op = "make" => rest[1].commit = ops[1].commit
  BY <1>4, <1>8
<1>11. ops[1].op \in {"main", "make"} => Len(rest) >= 1
  BY <1>1, <1>8
<1>12. ops[1].op \in {"main", "make"} => MovesNext(ops, rest, here)
  BY <1>8, <1>10, <1>11 DEF MovesNext
<1> QED
  BY <1>2, <1>3, <1>5, <1>9, <1>12

\* What may come before the others.
MayPrecede(x, rest) ==
    /\ x.op \in {"apply", "loop"} => \A y \in All(rest) : y.op = "checkout"
    /\ x.op \notin {"main", "make"} => \A y \in All(rest) : y.op \in {"checkout", "apply", "loop"}
    /\ x.op \in {"main", "make"} => /\ Len(rest) >= 2 /\ rest[1].op = "move"
                                    /\ rest[2].op = "checkout"
    /\ x.op = "make" => rest[1].commit = x.commit

\* One more operation in front.
LEMMA InFront ==
    ASSUME NEW x \in GitStep, NEW rest, Shape(rest), NEW here, MayPrecede(x, rest),
           NEW ops, ops = Cons(x, rest)
    PROVE  /\ Shape(ops) /\ All(ops) = {x} \cup All(rest)
           /\ Len(ops) = Len(rest) + 1 /\ ops[1] = x /\ \A j \in 1..Len(rest) : ops[j + 1] = rest[j]
           /\ Aim(ops, here) = IF x.op = "move" THEN x.commit ELSE Aim(rest, here)
<1> USE DEF MayPrecede
<1>1. /\ Len(rest) \in Nat /\ rest \in Seq(GitStep) /\ ops \in Seq(GitStep)
      /\ Len(ops) = Len(rest) + 1 /\ ops[1] = x /\ \A j \in 1..Len(rest) : ops[j + 1] = rest[j]
  BY DEF Shape, Cons
<1>2. \A j \in 1..Len(ops) : j = 1 \/ (j - 1 \in 1..Len(rest) /\ ops[j] = rest[j - 1])
  <2> SUFFICES ASSUME NEW j \in 1..Len(ops), j # 1 PROVE j - 1 \in 1..Len(rest) /\ ops[j] = rest[j - 1]
    OBVIOUS
  <2>1. j - 1 \in 1..Len(rest) /\ (j - 1) + 1 = j
    BY <1>1
  <2> QED
    BY <1>1, <2>1
<1>3. All(ops) = {x} \cup All(rest)
  <2>1. ASSUME NEW j \in 1..Len(ops) PROVE ops[j] \in {x} \cup All(rest)
    BY <1>1, <1>2 DEF All
  <2>2. ASSUME NEW j \in 1..Len(rest) PROVE rest[j] \in All(ops)
    <3>1. j + 1 \in 1..Len(ops)
      BY <1>1
    <3> QED
      BY <1>1, <3>1 DEF All
  <2>3. x \in All(ops)
    <3>1. 1 \in 1..Len(ops)
      BY <1>1
    <3> QED
      BY <1>1, <3>1 DEF All
  <2> QED
    BY <2>1, <2>2, <2>3 DEF All
<1>4. /\ \A j \in 3..Len(rest) : rest[j].op \in {"checkout", "apply", "loop"}
      /\ Len(rest) >= 2 => /\ rest[2].op \in {"move", "checkout", "apply", "loop"}
                           /\ rest[2].op = "move" <=> rest[1].op \in {"main", "make"}
      /\ \A i, j \in 1..Len(rest) : {rest[i].op, rest[j].op} \subseteq {"apply", "loop"} => i = j
  BY DEF Shape
<1>5. \A j \in 1..Len(rest) : rest[j] \in All(rest)
  BY DEF All
<1>6. \A j \in 3..Len(ops) : ops[j].op \in {"checkout", "apply", "loop"}
  <2> SUFFICES ASSUME NEW j \in 3..Len(ops) PROVE ops[j].op \in {"checkout", "apply", "loop"}
    OBVIOUS
  <2>1. ops[j] = rest[j - 1] /\ j - 1 \in 1..Len(rest) /\ (j - 1 = 2 \/ j - 1 \in 3..Len(rest))
    BY <1>1, <1>2
  <2>2. CASE x.op \in {"main", "make"}
    BY <1>4, <2>1, <2>2
  <2>3. CASE x.op \notin {"main", "make"}
    BY <1>5, <2>1, <2>3
  <2> QED
    BY <2>2, <2>3
<1>7. Len(ops) >= 2 => /\ ops[2].op \in {"move", "checkout", "apply", "loop"}
                       /\ ops[2].op = "move" <=> ops[1].op \in {"main", "make"}
  <2> SUFFICES ASSUME Len(ops) >= 2
               PROVE  /\ ops[2].op \in {"move", "checkout", "apply", "loop"}
                      /\ ops[2].op = "move" <=> ops[1].op \in {"main", "make"}
    OBVIOUS
  <2>1. ops[2] = rest[1] /\ 1 \in 1..Len(rest)
    BY <1>1, <1>2
  <2>2. CASE x.op \in {"main", "make"}
    BY <1>1, <2>1, <2>2
  <2>3. CASE x.op \notin {"main", "make"}
    BY <1>1, <1>5, <2>1, <2>3
  <2> QED
    BY <2>2, <2>3
<1>8. ops[1].op \in {"main", "make"} => Len(ops) >= 3 /\ ops[3].op = "checkout"
  <2> SUFFICES ASSUME ops[1].op \in {"main", "make"} PROVE Len(ops) >= 3 /\ ops[3].op = "checkout"
    OBVIOUS
  <2>1. Len(rest) >= 2 /\ 2 \in 1..Len(rest) /\ rest[2].op = "checkout"
    BY <1>1
  <2>2. ops[2 + 1] = rest[2]
    BY <1>1, <2>1
  <2> QED
    BY <1>1, <2>1, <2>2
<1>9. ops[1].op = "make" => ops[1].commit = ops[2].commit
  <2> SUFFICES ASSUME ops[1].op = "make" PROVE ops[1].commit = ops[2].commit
    OBVIOUS
  <2>1. 1 \in 1..Len(rest)
    BY <1>1
  <2>2. ops[1 + 1] = rest[1]
    BY <1>1, <2>1
  <2> QED
    BY <1>1, <2>2
<1>10. ASSUME NEW i \in 1..Len(ops), NEW j \in 1..Len(ops),
              {ops[i].op, ops[j].op} \subseteq {"apply", "loop"}
       PROVE  i = j
  <2>1. CASE x.op \in {"apply", "loop"}
    <3>1. \A k \in 1..Len(ops) : ops[k].op \in {"apply", "loop"} => k = 1
      BY <1>2, <1>5, <2>1
    <3> QED
      BY <1>10, <3>1
  <2>2. CASE x.op \notin {"apply", "loop"}
    <3>1. i # 1 /\ j # 1
      BY <1>1, <1>10, <2>2
    <3>2. i - 1 \in 1..Len(rest) /\ j - 1 \in 1..Len(rest) /\ ops[i] = rest[i - 1] /\ ops[j] = rest[j - 1]
      BY <1>2, <3>1
    <3>3. i - 1 = j - 1
      BY <1>4, <1>10, <3>2
    <3> QED
      BY <3>3
  <2> QED
    BY <2>1, <2>2
<1>11. Shape(ops)
  BY <1>1, <1>6, <1>7, <1>8, <1>9, <1>10 DEF Shape
<1>12. Aim(ops, here) = IF x.op = "move" THEN x.commit ELSE Aim(rest, here)
  <2>1. CASE x.op = "move"
    BY <1>1, <2>1 DEF Aim
  <2>2. CASE x.op \in {"main", "make"}
    <3>1. ops[1 + 1] = rest[1] /\ Len(ops) >= 2
      BY <1>1, <2>2
    <3> QED
      BY <1>1, <2>2, <3>1 DEF Aim
  <2>3. CASE x.op \notin {"main", "make", "move"}
    <3>1. Aim(rest, here) = here
      BY <2>3, NoMove
    <3>2. Aim(ops, here) = here
      BY <1>3, <1>11, <2>3, NoMove
    <3> QED
      BY <2>3, <3>1, <3>2
  <2> QED
    BY <2>1, <2>2, <2>3
<1> QED
  BY <1>1, <1>3, <1>11, <1>12

\* No operation is left.
LEMMA NoneLeft ==
    ASSUME NEW here
    PROVE  Shape(<< >>) /\ All(<< >>) = {} /\ Aim(<< >>, here) = here
  BY DEF Shape, All, Aim

\* Operations are put in front one by one.
LEMMA OneInFront ==
    ASSUME NEW S, NEW a \in S, NEW rest \in Seq(S), NEW ops \in Seq(S),
           Len(ops) = Len(rest) + 1, ops[1] = a, \A i \in 1..Len(rest) : ops[i + 1] = rest[i]
    PROVE  ops = Cons(a, rest)
  BY DEF Cons

\* Operations put in front of others, as those that Cons puts there one by one.
LEMMA TwoInFront ==
    ASSUME NEW S, NEW a \in S, NEW b \in S, NEW rest \in Seq(S)
    PROVE  <<a, b>> \o rest = Cons(a, Cons(b, rest))
<1> DEFINE r1 == Cons(b, rest)
           r2 == <<a, b>> \o rest
<1>1. r1 \in Seq(S) /\ Len(r1) = Len(rest) + 1 /\ r1[1] = b /\ \A i \in 1..Len(rest) : r1[i + 1] = rest[i]
  BY DEF Cons
<1>2. /\ r2 \in Seq(S) /\ Len(r2) = Len(rest) + 2 /\ r2[1] = a /\ r2[2] = b
      /\ \A i \in 1..Len(rest) : r2[i + 2] = rest[i]
  OBVIOUS
<1> HIDE DEF r1, r2
<1>3. ASSUME NEW i \in 1..Len(r1) PROVE r2[i + 1] = r1[i]
  <2>1. CASE i = 1
    BY <1>1, <1>2, <2>1
  <2>2. CASE i # 1
    <3>1. i - 1 \in 1..Len(rest) /\ (i - 1) + 1 = i /\ (i - 1) + 2 = i + 1
      BY <1>1, <2>2
    <3>2. r1[(i - 1) + 1] = rest[i - 1] /\ r2[(i - 1) + 2] = rest[i - 1]
      BY <1>1, <1>2, <3>1
    <3> QED
      BY <3>1, <3>2
  <2> QED
    BY <2>1, <2>2
<1>4. Len(r2) = Len(r1) + 1
  BY <1>1, <1>2
<1>5. r2 = Cons(a, r1)
  BY <1>1, <1>2, <1>3, <1>4, OneInFront
<1> QED
  BY <1>5 DEF r1, r2

\* The same, for three.
LEMMA ThreeInFront ==
    ASSUME NEW S, NEW a \in S, NEW b \in S, NEW c \in S, NEW rest \in Seq(S)
    PROVE  <<a, b, c>> \o rest = Cons(a, Cons(b, Cons(c, rest)))
<1> DEFINE r1 == <<b, c>> \o rest
           r2 == <<a, b, c>> \o rest
<1>1. /\ r1 \in Seq(S) /\ Len(r1) = Len(rest) + 2 /\ r1[1] = b /\ r1[2] = c
      /\ \A i \in 1..Len(rest) : r1[i + 2] = rest[i]
  OBVIOUS
<1>2. /\ r2 \in Seq(S) /\ Len(r2) = Len(rest) + 3 /\ r2[1] = a /\ r2[2] = b /\ r2[3] = c
      /\ \A i \in 1..Len(rest) : r2[i + 3] = rest[i]
  OBVIOUS
<1> HIDE DEF r1, r2
<1>3. ASSUME NEW i \in 1..Len(r1) PROVE r2[i + 1] = r1[i]
  <2>1. CASE i = 1
    BY <1>1, <1>2, <2>1
  <2>2. CASE i = 2
    BY <1>1, <1>2, <2>2
  <2>3. CASE i # 1 /\ i # 2
    <3>1. i - 2 \in 1..Len(rest) /\ (i - 2) + 2 = i /\ (i - 2) + 3 = i + 1
      BY <1>1, <2>3
    <3>2. r1[(i - 2) + 2] = rest[i - 2] /\ r2[(i - 2) + 3] = rest[i - 2]
      BY <1>1, <1>2, <3>1
    <3> QED
      BY <3>1, <3>2
  <2> QED
    BY <2>1, <2>2, <2>3
<1>4. Len(r2) = Len(r1) + 1
  BY <1>1, <1>2
<1>5. r2 = Cons(a, r1)
  BY <1>1, <1>2, <1>3, <1>4, OneInFront
<1>6. r1 = Cons(b, Cons(c, rest))
  BY TwoInFront DEF r1
<1> QED
  BY <1>5, <1>6 DEF r2

\* The same, for four.
LEMMA FourInFront ==
    ASSUME NEW a \in GitStep, NEW b \in GitStep, NEW c \in GitStep, NEW d \in GitStep,
           NEW rest \in Seq(GitStep)
    PROVE  <<a, b, c, d>> \o rest = Cons(a, Cons(b, Cons(c, Cons(d, rest))))
<1> DEFINE r1 == <<b, c, d>> \o rest
           r2 == <<a, b, c, d>> \o rest
<1>1. /\ r1 \in Seq(GitStep) /\ Len(r1) = Len(rest) + 3 /\ r1[1] = b /\ r1[2] = c /\ r1[3] = d
      /\ \A i \in 1..Len(rest) : r1[i + 3] = rest[i]
  OBVIOUS
<1>2. /\ r2 \in Seq(GitStep) /\ Len(r2) = Len(rest) + 4
      /\ r2[1] = a /\ r2[2] = b /\ r2[3] = c /\ r2[4] = d
      /\ \A i \in 1..Len(rest) : r2[i + 4] = rest[i]
  OBVIOUS
<1> HIDE DEF r1, r2
<1>3. ASSUME NEW i \in 1..Len(r1) PROVE r2[i + 1] = r1[i]
  <2>1. CASE i = 1
    BY <1>1, <1>2, <2>1
  <2>2. CASE i = 2
    BY <1>1, <1>2, <2>2
  <2>3. CASE i = 3
    BY <1>1, <1>2, <2>3
  <2>4. CASE i # 1 /\ i # 2 /\ i # 3
    <3>1. i - 3 \in 1..Len(rest) /\ (i - 3) + 3 = i /\ (i - 3) + 4 = i + 1
      BY <1>1, <2>4
    <3>2. r1[(i - 3) + 3] = rest[i - 3] /\ r2[(i - 3) + 4] = rest[i - 3]
      BY <1>1, <1>2, <3>1
    <3> QED
      BY <3>1, <3>2
  <2> QED
    BY <2>1, <2>2, <2>3, <2>4
<1>4. Len(r2) = Len(r1) + 1
  BY <1>1, <1>2
<1>5. r2 = Cons(a, r1)
  BY <1>1, <1>2, <1>3, <1>4, OneInFront
<1>6. r1 = Cons(b, Cons(c, Cons(d, rest)))
  BY ThreeInFront DEF r1
<1> QED
  BY <1>5, <1>6 DEF r2

\* The git operations are different ones.
LEMMA StepsAre ==
    ASSUME NEW k \in CommitOrNone, NEW S \in SUBSET Nat
    PROVE  /\ {ToMain, ToBranch, Apply, Move(k), Make(k), Loop(S)} \subseteq GitStep
           /\ ToMain.op = "main" /\ ToBranch.op = "checkout" /\ Apply.op = "apply"
           /\ Move(k).op = "move" /\ Move(k).commit = k
           /\ Make(k).op = "make" /\ Make(k).commit = k
           /\ Loop(S).op = "loop" /\ Loop(S).left = S
<1> NoCommit \in CommitOrNone
  BY DEF CommitOrNone
<1> QED
  BY DEF ToMain, ToBranch, Apply, Move, Make, Loop, Operation, GitStep

\* The branch is checked out first.
LEMMA BranchInFront ==
    ASSUME NEW rest, Shape(rest), NEW here, \A x \in All(rest) : x.op \in {"checkout", "apply", "loop"},
           NEW ops, ops = Cons(ToBranch, rest)
    PROVE  /\ Shape(ops) /\ All(ops) = {ToBranch} \cup All(rest) /\ Aim(ops, here) = Aim(rest, here)
           /\ ops[1] = ToBranch /\ Len(ops) = Len(rest) + 1
<1>1. ToBranch \in GitStep /\ ToBranch.op = "checkout"
  BY StepsAre DEF CommitOrNone
<1>2. MayPrecede(ToBranch, rest)
  BY <1>1 DEF MayPrecede
<1> QED
  BY <1>1, <1>2, InFront

\* The branch is moved, after main has been checked out.
LEMMA DetourInFront ==
    ASSUME NEW rest, Shape(rest), NEW here, \A x \in All(rest) : x.op \in {"checkout", "apply", "loop"},
           NEW x \in GitStep, x.op = "move",
           NEW ops, ops = Cons(ToMain, Cons(x, Cons(ToBranch, rest)))
    PROVE  /\ Shape(ops) /\ All(ops) = {ToMain, x, ToBranch} \cup All(rest)
           /\ Aim(ops, here) = x.commit /\ ops[1] = ToMain
<1> DEFINE r1 == Cons(ToBranch, rest)
           r2 == Cons(x, r1)
<1>1. ToMain \in GitStep /\ ToMain.op = "main" /\ ToBranch \in GitStep /\ ToBranch.op = "checkout"
  BY StepsAre DEF CommitOrNone
<1>2. ops = Cons(ToMain, r2)
  OBVIOUS
<1>3. /\ Shape(r1) /\ All(r1) = {ToBranch} \cup All(rest)
      /\ r1[1] = ToBranch /\ Len(r1) = Len(rest) + 1
  BY BranchInFront
<1> HIDE DEF r1
<1>4. \A y \in All(r1) : y.op \in {"checkout", "apply", "loop"}
  BY <1>1, <1>3
<1>5. /\ Shape(r2) /\ All(r2) = {x} \cup All(r1) /\ Len(r2) = Len(r1) + 1
      /\ r2[1] = x /\ \A j \in 1..Len(r1) : r2[j + 1] = r1[j]
      /\ Aim(r2, here) = x.commit
  BY <1>3, <1>4, InFront DEF MayPrecede
<1> HIDE DEF r2
<1>6. Len(rest) \in Nat
  BY DEF Shape
<1>7. Len(r2) >= 2 /\ r2[1].op = "move" /\ r2[2].op = "checkout"
  <2>1. 1 \in 1..Len(r1)
    BY <1>3, <1>6
  <2>2. r2[1 + 1] = r1[1]
    BY <1>5, <2>1
  <2> QED
    BY <1>1, <1>3, <1>5, <1>6, <2>2
<1>8. MayPrecede(ToMain, r2)
  BY <1>1, <1>7 DEF MayPrecede
<1>9. /\ Shape(ops) /\ All(ops) = {ToMain} \cup All(r2) /\ ops[1] = ToMain /\ Aim(ops, here) = Aim(r2, here)
  BY <1>1, <1>2, <1>5, <1>8, InFront
<1> QED
  BY <1>3, <1>5, <1>9

OnlyCheckouts(ops) == \A x \in All(ops) : x.op = "checkout"

MovedFirst(ops, rest, here, k, S) ==
    /\ Shape(ops) /\ All(ops) = {Move(k), ToBranch, Loop(S)} \cup All(rest)
    /\ Aim(ops, here) = k /\ ops[1] = Move(k) /\ Len(ops) = Len(rest) + 3
    /\ ops[2] = ToBranch

\* The branch is moved, checked out and patches are applied.
LEMMA MoveInFront ==
    ASSUME NEW rest, Shape(rest), NEW here, OnlyCheckouts(rest),
           NEW k \in Commits, NEW S \in SUBSET Nat,
           NEW ops, ops = Cons(Move(k), Cons(ToBranch, Cons(Loop(S), rest)))
    PROVE  MovedFirst(ops, rest, here, k, S)
<1> DEFINE r1 == Cons(Loop(S), rest)
           r2 == Cons(ToBranch, r1)
<1>1. /\ ToBranch \in GitStep /\ ToBranch.op = "checkout"
      /\ Move(k) \in GitStep /\ Move(k).op = "move" /\ Move(k).commit = k
      /\ Loop(S) \in GitStep /\ Loop(S).op = "loop"
  BY StepsAre DEF CommitOrNone
<1>2. ops = Cons(Move(k), r2)
  OBVIOUS
<1>3. Shape(r1) /\ All(r1) = {Loop(S)} \cup All(rest) /\ Len(r1) = Len(rest) + 1
  <2>1. MayPrecede(Loop(S), rest)
    BY <1>1 DEF MayPrecede, OnlyCheckouts
  <2> QED
    BY <1>1, <2>1, InFront
<1> HIDE DEF r1
<1>4. \A y \in All(r1) : y.op \in {"checkout", "apply", "loop"}
  BY <1>1, <1>3 DEF OnlyCheckouts
<1>5. /\ Shape(r2) /\ All(r2) = {ToBranch} \cup All(r1) /\ r2[1] = ToBranch
      /\ Len(r2) = Len(r1) + 1
  BY <1>3, <1>4, BranchInFront
<1> HIDE DEF r2
<1>6. \A y \in All(r2) : y.op \in {"checkout", "apply", "loop"}
  BY <1>1, <1>4, <1>5
<1>7. /\ Shape(ops) /\ All(ops) = {Move(k)} \cup All(r2) /\ Aim(ops, here) = k /\ ops[1] = Move(k)
      /\ Len(ops) = Len(r2) + 1 /\ \A j \in 1..Len(r2) : ops[j + 1] = r2[j]
  <2>1. MayPrecede(Move(k), r2)
    BY <1>1, <1>6 DEF MayPrecede
  <2> QED
    BY <1>1, <1>2, <1>5, <2>1, InFront
<1>8. Len(rest) \in Nat
  BY DEF Shape
<1>9. 1 \in 1..Len(r2)
  BY <1>3, <1>5, <1>8
<1>10. ops[2] = ToBranch
  <2>1. ops[1 + 1] = r2[1]
    BY <1>7, <1>9
  <2> QED
    BY <1>5, <2>1
<1> QED
  BY <1>3, <1>5, <1>7, <1>8, <1>10 DEF MovedFirst

\* The commit to which the branch is moved is made first.
LEMMA MakeInFront ==
    ASSUME NEW r, Shape(r), Len(r) >= 2, NEW k \in Commits, r[1] = Move(k), r[2] = ToBranch,
           NEW here, Aim(r, here) = k,
           NEW ops, ops = Cons(Make(k), r)
    PROVE  /\ Shape(ops) /\ All(ops) = {Make(k)} \cup All(r)
           /\ Aim(ops, here) = k /\ ops[1] = Make(k)
<1>1. /\ Make(k) \in GitStep /\ Make(k).op = "make" /\ Make(k).commit = k
      /\ ToBranch.op = "checkout"
      /\ Move(k).op = "move" /\ Move(k).commit = k
  BY StepsAre DEF CommitOrNone
<1>2. MayPrecede(Make(k), r)
  BY <1>1 DEF MayPrecede
<1> QED
  BY <1>1, <1>2, InFront

-----------------------------------------------------------------------------
(* apply_patch_chain.                                                      *)

\* The last of the first k numbers.
LEMMA MaxOf ==
    ASSUME NEW k \in Nat, k >= 1
    PROVE  Max(1..k) = k
<1>1. k \in 1..k /\ \A y \in 1..k : k >= y
  OBVIOUS
<1>2. \A x \in 1..k : (\A y \in 1..k : x >= y) => x = k
  OBVIOUS
<1> QED
  BY <1>1, <1>2 DEF Max

\* The patches that are missing from a branch are the newest.
LEMMA MissingAre ==
    ASSUME LogOK(log), ids \subseteq Ids, task.proposal \in Roots(log, ids), IsChainOf(task),
           NEW b, b = branch[task.proposal], b = NoCommit \/ b \in Commits
    PROVE  \E k \in 0..Len(task.chain) :
              /\ Missing(task.proposal, task.chain) = 1..k
              /\ k < Len(task.chain) => b # NoCommit /\ Below(task, k) \in Ancestors[b]
              /\ k > 0 => b = NoCommit \/ Below(task, k - 1) \notin Ancestors[b]
<1> DEFINE m == Len(task.chain)
           missing == Missing(task.proposal, task.chain)
           present == {i \in 1..m : b # NoCommit /\ Below(task, i - 1) \in Ancestors[b]}
<1>1. /\ m \in Nat /\ m >= 1 /\ \A k \in 0..m : Below(task, k) \in Commits
      /\ \A k \in 1..m : At(task, k) = Below(task, k - 1)
  BY ChainCommits
<1>2. missing = (1..m) \ present
  <2>1. DOMAIN task.chain = 1..m
    BY DEF IsChainOf
  <2>2. missing = {i \in 1..m : b = NoCommit \/ At(task, i) \notin Ancestors[b]}
    BY <2>1 DEF Missing, At
  <2> QED
    BY <1>1, <2>2
<1> HIDE DEF m, missing
<1>3. CASE present = {}
  <2>1. m \in 1..m /\ m \in 0..m /\ m - 1 \in 0..m
    BY <1>1
  <2>2. missing = 1..m
    BY <1>2, <1>3
  <2>3. b = NoCommit \/ Below(task, m - 1) \notin Ancestors[b]
    BY <1>3, <2>1
  <2> QED
    BY <1>1, <2>1, <2>2, <2>3 DEF m, missing
<1>4. CASE present # {}
  <2>1. present \in SUBSET Nat
    BY <1>1
  <2>2. PICK s \in present : \A i \in present : s <= i
    BY <1>4, <2>1, Smallest
  <2>3. s \in 1..m /\ b # NoCommit /\ Below(task, s - 1) \in Ancestors[b] /\ b \in Commits
    OBVIOUS
  <2>4. ASSUME NEW i \in 1..m, s <= i PROVE i \in present
    <3>1. i - 1 \in 0..m /\ s - 1 \in 0..m /\ s - 1 <= i - 1
      BY <1>1, <2>3, <2>4
    <3>2. Below(task, i - 1) \in Ancestors[Below(task, s - 1)]
      BY <3>1, ChainOrder DEF m
    <3>3. Below(task, i - 1) \in Ancestors[b]
      BY <1>1, <2>3, <3>1, <3>2, AncestorsAssumption
    <3> QED
      BY <2>3, <3>3
  <2>5. \A i \in 1..m : i \in present <=> s <= i
    BY <2>2, <2>4
  <2>6. missing = 1..s - 1
    <3>1. \A i \in missing : i \in 1..s - 1
      BY <1>1, <1>2, <2>3, <2>5
    <3>2. \A i \in 1..s - 1 : i \in missing
      BY <1>1, <1>2, <2>3, <2>5
    <3> QED
      BY <3>1, <3>2
  <2>7. s - 1 \in 0..m /\ s - 1 < m
    BY <1>1, <2>3
  <2>8. s - 1 > 0 => Below(task, (s - 1) - 1) \notin Ancestors[b]
    <3> SUFFICES ASSUME s - 1 > 0 PROVE Below(task, (s - 1) - 1) \notin Ancestors[b]
      OBVIOUS
    <3>1. s - 1 \in 1..m /\ ~(s <= s - 1)
      BY <1>1, <2>3
    <3>2. s - 1 \notin present
      BY <2>5, <3>1
    <3> QED
      BY <2>3, <3>1, <3>2
  <2> QED
    BY <2>3, <2>6, <2>7, <2>8 DEF m, missing
<1> QED
  BY <1>3, <1>4

\* They are looped over from where the oldest goes.
LEMMA ApplyIs ==
    ASSUME LogOK(log), ids \subseteq Ids, task.proposal \in Roots(log, ids), IsChainOf(task),
           NEW k \in 0..Len(task.chain), Missing(task.proposal, task.chain) = 1..k
    PROVE  ApplyChain(task.proposal, task.chain) =
              IF k = 0 THEN <<ToBranch>> ELSE <<Move(Below(task, k)), ToBranch, Loop(1..k)>>
<1>1. /\ Len(task.chain) \in Nat
      /\ \A i \in 1..Len(task.chain) : Parents(At(task, i)) = {Below(task, i)}
  BY ChainCommits
<1>2. CASE k = 0
  <2>1. Missing(task.proposal, task.chain) = {}
    BY <1>2
  <2> QED
    BY <1>2, <2>1 DEF ApplyChain
<1>3. CASE k # 0
  <2>1. k \in Nat /\ k >= 1 /\ k \in 1..Len(task.chain) /\ k \in 1..k
    BY <1>1, <1>3
  <2>2. Max(1..k) = k /\ 1..k # {}
    BY <2>1, MaxOf
  <2>3. Parents(log[task.chain[Max(1..k)]].commit) = {Below(task, k)}
    BY <1>1, <2>1, <2>2 DEF At
  <2> DEFINE parent == CHOOSE c \in Parents(log[task.chain[Max(1..k)]].commit) : TRUE
  <2>4. parent = Below(task, k)
    BY <2>3
  <2>5. ApplyChain(task.proposal, task.chain) = <<Move(parent), ToBranch, Loop(1..k)>>
    BY <2>2 DEF ApplyChain
  <2> HIDE DEF parent
  <2> QED
    BY <1>3, <2>4, <2>5
<1> QED
  BY <1>2, <1>3

\* The loop makes the oldest commit and moves the branch there.
LEMMA LoopIs ==
    ASSUME NEW k \in Nat
    PROVE  LoopOver(task.chain, 1..k) =
              IF k = 0 THEN << >>
              ELSE <<Make(At(task, k)), Move(At(task, k)), ToBranch, Loop(1..k - 1)>>
<1>1. CASE k = 0
  <2>1. 1..k = {}
    BY <1>1
  <2> QED
    BY <1>1, <2>1 DEF LoopOver
<1>2. CASE k # 0
  <2>1. Max(1..k) = k /\ 1..k # {}
    BY <1>2, MaxOf
  <2>2. (1..k) \ {k} = 1..k - 1
    OBVIOUS
  <2> QED
    BY <1>2, <2>1, <2>2 DEF LoopOver, NextOf, At
<1> QED
  BY <1>1, <1>2

-----------------------------------------------------------------------------
(* At work.                                                                *)

\* What a step looks like that leaves the task alone.
LEMMA SameTask ==
    ASSUME UNCHANGED <<log, ids, task, own>>
    PROVE  /\ \A k : Below(task, k)' = Below(task, k)
           /\ OfChain(task)' = OfChain(task) /\ TipOf(task)' = TipOf(task)
           /\ BaseOf(task)' = BaseOf(task) /\ IsChainOf(task)' = IsChainOf(task)
           /\ Calm' = Calm /\ PublishedOf(task.proposal)' = PublishedOf(task.proposal)
           /\ Roots(log, ids)' = Roots(log, ids)
<1>1. log' = log /\ ids' = ids /\ task' = task /\ own' = own
  OBVIOUS
<1>2. \A i : At(task, i)' = At(task, i)
  BY <1>1 DEF At
<1>3. BaseOf(task)' = BaseOf(task)
  BY <1>1 DEF BaseOf
<1>4. \A k : Below(task, k)' = Below(task, k)
  BY <1>1, <1>2, <1>3 DEF Below
<1>5. OfChain(task)' = OfChain(task)
  BY <1>1, <1>2, <1>3 DEF OfChain
<1>6. TipOf(task)' = TipOf(task)
  BY <1>1 DEF TipOf
<1>7. IsChainOf(task)' = IsChainOf(task)
  BY <1>1, <1>2 DEF IsChainOf
<1>8. Calm' = Calm
  BY <1>1 DEF Calm
<1>9. PublishedOf(task.proposal)' = PublishedOf(task.proposal)
  BY <1>1 DEF PublishedOf, CommitsOf, Ids
<1>10. Roots(log, ids)' = Roots(log, ids)
  BY <1>1
<1> QED
  BY <1>3, <1>4, <1>5, <1>6, <1>7, <1>8, <1>9, <1>10

\* The proposal chosen has a chain.
Ready ==
    /\ LogOK(log) /\ ids \subseteq Ids
    /\ task.proposal \in Roots(log, ids) /\ IsChainOf(task)

\* Main is checked out.
LEMMA MainDone ==
    ASSUME NEW ops, NEW here, NEW have, NEW at, Doing(ops, here, have, at), Len(ops) >= 1,
           NEW rest, rest = Tail(ops), ops[1].op = "main"
    PROVE  Doing(rest, here, have, 0)
<1>1. Shape(ops)
  BY DEF Doing
<1>2. /\ Shape(rest) /\ All(ops) = {ops[1]} \cup All(rest)
      /\ MovesNext(ops, rest, here)
  BY <1>1, RestOf
<1>3. /\ Has(rest, {"apply"}) <=> Has(ops, {"apply"})
      /\ Has(rest, {"apply", "loop"}) <=> Has(ops, {"apply", "loop"})
      /\ Has(rest, {"checkout"}) <=> Has(ops, {"checkout"})
      /\ Has(rest, {"checkout", "apply"})
  BY <1>2 DEF Has, MovesNext
<1> QED
  BY <1>2, <1>3 DEF Doing, MovesNext

\* Operations that move the branch no more.
LEMMA RestStays ==
    ASSUME NEW ops, Shape(ops), Len(ops) >= 1, NEW here, NEW rest, rest = Tail(ops),
           ops[1].op \notin {"main", "make"}
    PROVE  /\ Shape(rest) /\ All(ops) = {ops[1]} \cup All(rest)
           /\ \A x \in All(rest) : x.op \in {"checkout", "apply", "loop"}
           /\ Aim(rest, here) = here
           /\ ops[1].op # "move" => Aim(ops, here) = here
           /\ Len(rest) >= 1 => rest[1].op \notin {"make", "move"}
<1>1. /\ Shape(rest) /\ All(ops) = {ops[1]} \cup All(rest)
      /\ \A x \in All(rest) : x.op \in {"checkout", "apply", "loop"}
  BY RestOf
<1>2. \A x \in All(rest) : x.op # "move"
  BY <1>1
<1>3. Aim(rest, here) = here
  BY <1>1, <1>2, NoMove
<1>4. ops[1].op # "move" => \A x \in All(ops) : x.op # "move"
  BY <1>1, <1>2
<1>5. ops[1].op # "move" => Aim(ops, here) = here
  BY <1>4, NoMove
<1>6. Len(rest) >= 1 => rest[1] \in All(rest)
  <2> SUFFICES ASSUME Len(rest) >= 1 PROVE rest[1] \in All(rest)
    OBVIOUS
  <2>1. Len(rest) \in Nat
    BY <1>1 DEF Shape
  <2>2. 1 \in 1..Len(rest)
    BY <2>1
  <2> QED
    BY <2>2 DEF All
<1> QED
  BY <1>1, <1>3, <1>5, <1>6

\* The branch is checked out.
LEMMA CheckoutDone ==
    ASSUME NEW ops, NEW here, NEW have, NEW at, Doing(ops, here, have, at), Len(ops) >= 1,
           NEW rest, rest = Tail(ops), ops[1].op = "checkout"
    PROVE  Doing(rest, here, have, task.proposal) /\ here # NoCommit
<1>1. Shape(ops)
  BY DEF Doing
<1>2. /\ Shape(rest) /\ All(ops) = {ops[1]} \cup All(rest)
      /\ \A x \in All(rest) : x.op \in {"checkout", "apply", "loop"}
      /\ Aim(rest, here) = here /\ Aim(ops, here) = here
      /\ Len(rest) >= 1 => rest[1].op # "make"
  BY <1>1, RestStays
<1>3. /\ Has(rest, {"apply"}) <=> Has(ops, {"apply"})
      /\ Has(rest, {"apply", "loop"}) <=> Has(ops, {"apply", "loop"})
      /\ Has(ops, {"checkout"})
  BY <1>2 DEF Has
<1> QED
  BY <1>2, <1>3 DEF Doing

\* The branch is moved.
LEMMA MoveDone ==
    ASSUME NEW ops, NEW here, NEW have, NEW at, Doing(ops, here, have, at), Len(ops) >= 1,
           NEW rest, rest = Tail(ops), ops[1].op = "move"
    PROVE  Doing(rest, ops[1].commit, have, at) /\ ops[1].commit \in have \cap OfChain(task)
<1> DEFINE k == ops[1].commit
<1>1. Shape(ops)
  BY DEF Doing
<1>2. /\ Shape(rest) /\ All(ops) = {ops[1]} \cup All(rest)
      /\ \A x \in All(rest) : x.op \in {"checkout", "apply", "loop"}
      /\ Aim(rest, k) = k
      /\ Len(rest) >= 1 => rest[1].op # "make"
  <2>1. ops[1].op \notin {"main", "make"}
    OBVIOUS
  <2> HIDE DEF k
  <2> QED
    BY <1>1, <2>1, RestStays
<1>3. Aim(ops, here) = k
  BY DEF Aim
<1>4. /\ Has(rest, {"apply"}) <=> Has(ops, {"apply"})
      /\ Has(rest, {"apply", "loop"}) <=> Has(ops, {"apply", "loop"})
      /\ Has(rest, {"checkout"}) <=> Has(ops, {"checkout"})
      /\ Has(rest, {"checkout", "apply"}) <=> Has(ops, {"checkout", "apply"})
  BY <1>2 DEF Has
<1>5. k \in have \cap OfChain(task)
  BY <1>2 DEF Doing
<1>6. \A x \in All(rest) : x.op # "move"
  BY <1>2
<1> QED
  BY <1>2, <1>3, <1>4, <1>5, <1>6 DEF Doing

\* It is checked out, and main comes first.
LEMMA DetourDone ==
    ASSUME Ready,
           NEW ops, NEW here, NEW have, NEW at, Doing(ops, here, have, at), Len(ops) >= 1,
           NEW rest, rest = Tail(ops), ops[1].op = "move",
           NEW ops2, ops2 = Cons(ToMain, Cons(ops[1], Cons(ToBranch, rest)))
    PROVE  Doing(ops2, here, have, at)
<1> DEFINE k == ops[1].commit
<1>1. Shape(ops)
  BY DEF Doing
<1>2. /\ Shape(rest) /\ All(ops) = {ops[1]} \cup All(rest) /\ ops[1] \in GitStep
      /\ \A x \in All(rest) : x.op \in {"checkout", "apply", "loop"}
  BY <1>1, RestOf
<1>3. Aim(ops, here) = k
  BY DEF Aim
<1>4. /\ Shape(ops2) /\ All(ops2) = {ToMain, ops[1], ToBranch} \cup All(rest)
      /\ Aim(ops2, here) = k /\ ops2[1] = ToMain
  BY <1>2, DetourInFront
<1>5. ToMain.op = "main" /\ ToBranch.op = "checkout"
  BY StepsAre DEF CommitOrNone
<1>6. k \in have \cap OfChain(task) /\ k # NoCommit
  <2>1. k \in have \cap OfChain(task)
    BY <1>2 DEF Doing
  <2>2. OfChain(task) = {Below(task, i) : i \in 0..Len(task.chain)}
    BY ChainCommits DEF Ready
  <2>3. \A i \in 0..Len(task.chain) : Below(task, i) \in Commits
    BY ChainCommits DEF Ready
  <2> QED
    BY <2>1, <2>2, <2>3, NoCommitAssumption
<1>7. /\ Has(ops2, {"apply"}) <=> Has(ops, {"apply"})
      /\ Has(ops2, {"apply", "loop"}) <=> Has(ops, {"apply", "loop"})
      /\ Has(ops2, {"checkout", "apply"})
  BY <1>2, <1>4, <1>5 DEF Has
<1>8. task.choice \notin {"existing", "checkout"}
  BY <1>2 DEF Doing
<1>9. \A x \in All(ops2) : x.op \in {"move", "apply", "loop"} => x \in All(ops)
  BY <1>2, <1>4, <1>5
<1>10. \A x \in All(ops2) : x.op = "move" => x = ops[1]
  BY <1>2, <1>4, <1>5
<1> QED
  BY <1>2, <1>3, <1>4, <1>5, <1>6, <1>7, <1>8, <1>9, <1>10 DEF Doing

\* A commit is made.
LEMMA MakeDone ==
    ASSUME NEW ops, NEW here, NEW have, NEW at, Doing(ops, here, have, at), Len(ops) >= 1,
           NEW rest, rest = Tail(ops), ops[1].op = "make"
    PROVE  Doing(rest, here, have \cup {ops[1].commit}, at) /\ Parents(ops[1].commit) \subseteq have
           /\ ops[1].commit \in OfChain(task)
<1> DEFINE k == ops[1].commit
           have2 == have \cup {k}
<1>1. Shape(ops)
  BY DEF Doing
<1>2. /\ Shape(rest) /\ All(ops) = {ops[1]} \cup All(rest)
      /\ MovesNext(ops, rest, here)
  BY <1>1, RestOf
<1>3. rest[1] \in All(rest)
  BY <1>2 DEF Shape, All, MovesNext
<1>4. /\ Has(rest, {"apply"}) <=> Has(ops, {"apply"})
      /\ Has(rest, {"apply", "loop"}) <=> Has(ops, {"apply", "loop"})
      /\ Has(rest, {"checkout"}) <=> Has(ops, {"checkout"})
      /\ Has(rest, {"checkout", "apply"})
  BY <1>2 DEF Has, MovesNext
<1>5. k \in OfChain(task) /\ Parents(k) \subseteq have
  BY <1>2, <1>3 DEF Doing, MovesNext
<1>6. \A x \in All(rest) : x.op = "move" => x.commit \in OfChain(task) /\ x.commit \in have2
  BY <1>2, <1>5 DEF MovesNext
<1> HIDE DEF have2
<1>7. Doing(rest, here, have2, at)
  BY <1>2, <1>4, <1>6 DEF Doing, MovesNext
<1> QED
  BY <1>5, <1>7 DEF have2

\* The commits of the clone, here is the branch.
Placed(here, have) ==
    /\ have \in SUBSET Commits /\ \A k \in have : Ancestors[k] \subseteq have
    /\ here = NoCommit \/ here \in have

\* The branch has all patches, and is checked out.
LEMMA NothingMissing ==
    ASSUME Ready,
           NEW ops, NEW here, NEW have, NEW at, Doing(ops, here, have, at), Len(ops) >= 1,
           NEW rest, rest = Tail(ops), ops[1].op = "apply", here = branch[task.proposal],
           Placed(here, have), Missing(task.proposal, task.chain) = 1..0,
           NEW ops2, ops2 = Cons(ToBranch, rest)
    PROVE  Doing(ops2, here, have, at)
<1> DEFINE m == Len(task.chain)
<1>1. Shape(ops)
  BY DEF Doing
<1>2. Shape(rest) /\ All(ops) = {ops[1]} \cup All(rest) /\ \A x \in All(rest) : x.op = "checkout"
  BY <1>1, RestOf
<1>3. Aim(ops, here) = here /\ Aim(rest, here) = here
  <2>1. Aim(ops, here) = here
    BY <1>1, RestStays
  <2>2. \A x \in All(rest) : x.op # "move"
    BY <1>2
  <2>3. Aim(rest, here) = here
    BY <1>2, <2>2, NoMove
  <2> QED
    BY <2>1, <2>3
<1>4. ToBranch.op = "checkout"
  BY StepsAre DEF CommitOrNone
<1>5. /\ Shape(ops2) /\ All(ops2) = {ToBranch} \cup All(rest)
      /\ Aim(ops2, here) = here /\ ops2[1] = ToBranch
  <2>1. \A x \in All(rest) : x.op \in {"checkout", "apply", "loop"}
    BY <1>2
  <2> QED
    BY <1>2, <1>3, <2>1, BranchInFront
<1>6. /\ m \in Nat /\ m >= 1 /\ \A k \in 0..m : Below(task, k) \in Commits
      /\ Below(task, 0) = TipOf(task) /\ OfChain(task) = {Below(task, k) : k \in 0..m}
  BY ChainCommits DEF Ready
<1>7. here # NoCommit /\ Below(task, 0) \in Ancestors[here]
  <2>1. here = NoCommit \/ here \in Commits
    BY DEF Placed
  <2>2. PICK k \in 0..m :
              /\ Missing(task.proposal, task.chain) = 1..k
              /\ k < m => here # NoCommit /\ Below(task, k) \in Ancestors[here]
    BY <2>1, MissingAre DEF Ready
  <2>3. k = 0
    <3>1. k \notin 1..0
      BY <1>6
    <3>2. k \notin 1..k
      BY <2>2, <3>1
    <3> QED
      BY <1>6, <3>2
  <2> QED
    BY <1>6, <2>2, <2>3
<1>8. Calm => here = TipOf(task)
  <2> SUFFICES ASSUME Calm PROVE here = TipOf(task)
    OBVIOUS
  <2>1. Has(ops, {"apply"})
    BY <1>2 DEF Has
  <2>2. here \in OfChain(task)
    BY <1>3, <1>7, <2>1 DEF Doing
  <2>3. PICK j \in 0..m : here = Below(task, j)
    BY <1>6, <2>2
  <2>4. j = 0
    <3> SUFFICES ASSUME j # 0 PROVE FALSE
      OBVIOUS
    <3>1. 0 \in 0..m /\ 0 < j
      BY <1>6
    <3> QED
      BY <1>7, <2>3, <3>1, ChainOrder DEF Ready
  <2> QED
    BY <1>6, <2>3, <2>4
<1>9. task.choice \notin {"existing", "checkout"}
  BY <1>2 DEF Doing
<1>10. \A x \in All(ops2) : x.op = "checkout"
  BY <1>2, <1>4, <1>5
<1>11. Has(ops2, {"checkout", "apply"}) /\ ~Has(ops2, {"apply"})
  BY <1>5, <1>10 DEF Has
<1> QED
  BY <1>4, <1>5, <1>7, <1>8, <1>9, <1>10, <1>11 DEF Doing

\* Patches are missing: the branch is put below the oldest.
LEMMA SomeMissing ==
    ASSUME Ready,
           NEW ops, NEW here, NEW have, NEW at, Doing(ops, here, have, at), Len(ops) >= 1,
           NEW rest, rest = Tail(ops), ops[1].op = "apply", here = branch[task.proposal],
           Placed(here, have), BaseOf(task) \in have,
           NEW k \in 1..Len(task.chain), Missing(task.proposal, task.chain) = 1..k,
           NEW c, c = Below(task, k),
           NEW ops2, ops2 = Cons(Move(c), Cons(ToBranch, Cons(Loop(1..k), rest)))
    PROVE  Doing(ops2, here, have, at)
<1> DEFINE m == Len(task.chain)
<1>1. Shape(ops)
  BY DEF Doing
<1>2. Shape(rest) /\ All(ops) = {ops[1]} \cup All(rest) /\ \A x \in All(rest) : x.op = "checkout"
  BY <1>1, RestOf
<1>3. /\ m \in Nat /\ m >= 1 /\ \A i \in 0..m : Below(task, i) \in Commits
      /\ Below(task, m) = BaseOf(task) /\ OfChain(task) = {Below(task, i) : i \in 0..m}
  BY ChainCommits DEF Ready
<1>4. k \in 0..m /\ 1..k \in SUBSET Nat /\ c \in Commits /\ c \in OfChain(task)
  BY <1>3
<1>5. c \in have
  <2>1. here = NoCommit \/ here \in Commits
    BY DEF Placed
  <2>2. PICK i \in 0..m :
              /\ Missing(task.proposal, task.chain) = 1..i
              /\ i < m => here # NoCommit /\ Below(task, i) \in Ancestors[here]
    BY <2>1, MissingAre DEF Ready
  <2>3. i = k
    <3>1. k \in 1..k
      BY <1>4
    <3>2. k <= i
      BY <2>2, <3>1
    <3>3. i \in 1..i
      BY <1>3, <3>2
    <3> QED
      BY <1>3, <2>2, <3>2, <3>3
  <2>4. CASE k = m
    BY <1>3, <2>4
  <2>5. CASE k # m
    BY <1>3, <2>2, <2>3, <2>5 DEF Placed
  <2> QED
    BY <2>4, <2>5
<1>6. /\ ToBranch.op = "checkout" /\ Move(c).op = "move" /\ Move(c).commit = c
      /\ Loop(1..k).op = "loop" /\ Loop(1..k).left = 1..k
  BY <1>4, StepsAre DEF CommitOrNone
<1>7. /\ Shape(ops2) /\ All(ops2) = {Move(c), ToBranch, Loop(1..k)} \cup All(rest)
      /\ Aim(ops2, here) = c /\ ops2[1] = Move(c)
  <2>0. OnlyCheckouts(rest)
    BY <1>2 DEF OnlyCheckouts
  <2> DEFINE left == 1..k
  <2>1. ops2 = Cons(Move(c), Cons(ToBranch, Cons(Loop(left), rest)))
    OBVIOUS
  <2>2. left \in SUBSET Nat /\ c \in Commits
    BY <1>4
  <2> HIDE DEF left
  <2>3. /\ Shape(ops2) /\ All(ops2) = {Move(c), ToBranch, Loop(left)} \cup All(rest)
        /\ Aim(ops2, here) = c /\ ops2[1] = Move(c)
    <3>1. MovedFirst(ops2, rest, here, c, left)
      BY <1>2, <2>1, <2>2, <2>0, MoveInFront
    <3> QED
      BY <3>1 DEF MovedFirst
  <2> QED
    BY <2>3 DEF left
<1>8. task.choice \notin {"existing", "checkout"}
  BY <1>2 DEF Doing
<1>9. ~Has(ops2, {"apply"}) /\ Has(ops2, {"apply", "loop"}) /\ Has(ops2, {"checkout", "apply"})
  BY <1>2, <1>6, <1>7 DEF Has
<1>10. /\ \A x \in All(ops2) : x.op = "loop" => x = Loop(1..k)
       /\ \A x \in All(ops2) : x.op = "move" => x = Move(c)
  BY <1>2, <1>6, <1>7
<1>11. c # NoCommit
  BY <1>4, NoCommitAssumption
<1> QED
  BY <1>4, <1>5, <1>6, <1>7, <1>8, <1>9, <1>10, <1>11 DEF Doing

\* The loop has come to its end.
LEMMA LoopEnds ==
    ASSUME Ready,
           NEW ops, NEW here, NEW have, NEW at, Doing(ops, here, have, at), Len(ops) >= 1,
           NEW rest, rest = Tail(ops), ops[1].op = "loop", ops[1].left = {}
    PROVE  Doing(rest, here, have, at)
<1> DEFINE m == Len(task.chain)
<1>1. Shape(ops)
  BY DEF Doing
<1>2. Shape(rest) /\ All(ops) = {ops[1]} \cup All(rest) /\ \A x \in All(rest) : x.op = "checkout"
  BY <1>1, RestOf
<1>3. Aim(ops, here) = here /\ Aim(rest, here) = here
  BY <1>1, RestStays
<1>4. m \in Nat /\ Below(task, 0) = TipOf(task)
  BY ChainCommits DEF Ready
<1>5. here = TipOf(task)
  <2>1. PICK k \in 0..m : ops[1].left = 1..k /\ Aim(ops, here) = Below(task, k)
    BY <1>2 DEF Doing
  <2>2. k \notin 1..k
    BY <2>1
  <2>3. k = 0
    BY <1>4, <2>2
  <2> QED
    BY <1>3, <1>4, <2>1, <2>3
<1>6. task.choice \notin {"existing", "checkout"}
  BY <1>2 DEF Doing
<1>7. /\ Has(rest, {"checkout"}) <=> Has(ops, {"checkout"})
      /\ Has(rest, {"checkout", "apply"}) <=> Has(ops, {"checkout", "apply"})
      /\ ~Has(rest, {"apply"})
  BY <1>2 DEF Has
<1>8. Len(rest) >= 1 => rest[1].op = "checkout"
  <2> SUFFICES ASSUME Len(rest) >= 1 PROVE rest[1] \in All(rest)
    BY <1>2
  <2>1. 1 \in 1..Len(rest)
    BY <1>2 DEF Shape
  <2> QED
    BY <2>1 DEF All
<1> QED
  BY <1>2, <1>3, <1>5, <1>6, <1>7, <1>8 DEF Doing

\* The loop goes on.
LEMMA LoopGoesOn ==
    ASSUME Ready,
           NEW ops, NEW here, NEW have, NEW at, Doing(ops, here, have, at), Len(ops) >= 1,
           NEW rest, rest = Tail(ops), ops[1].op = "loop", Placed(here, have),
           NEW k \in 1..Len(task.chain), ops[1].left = 1..k,
           NEW c, c = At(task, k),
           NEW ops2, ops2 = Cons(Make(c), Cons(Move(c), Cons(ToBranch, Cons(Loop(1..k - 1), rest))))
    PROVE  Doing(ops2, here, have, at)
<1> DEFINE m == Len(task.chain)
<1>1. Shape(ops)
  BY DEF Doing
<1>2. Shape(rest) /\ All(ops) = {ops[1]} \cup All(rest) /\ \A x \in All(rest) : x.op = "checkout"
  BY <1>1, RestOf
<1>3. Aim(ops, here) = here
  BY <1>1, RestStays
<1>4. /\ m \in Nat /\ m >= 1 /\ \A i \in 0..m : Below(task, i) \in Commits
      /\ \A i \in 1..m : At(task, i) = Below(task, i - 1) /\ Parents(At(task, i)) = {Below(task, i)}
      /\ OfChain(task) = {Below(task, i) : i \in 0..m}
  BY ChainCommits DEF Ready
<1>5. /\ k - 1 \in 0..m /\ k \in 0..m /\ 1..k - 1 \in SUBSET Nat /\ c \in Commits /\ c \in OfChain(task)
      /\ c = Below(task, k - 1)
  BY <1>4
<1>6. here = Below(task, k)
  <2>1. PICK i \in 0..m : ops[1].left = 1..i /\ Aim(ops, here) = Below(task, i)
    BY <1>2 DEF Doing
  <2>2. i = k
    <3>1. k \in 1..i
      BY <1>4, <2>1
    <3>2. i \in 1..k
      BY <1>4, <2>1, <3>1
    <3> QED
      BY <1>4, <3>1, <3>2
  <2> QED
    BY <1>3, <2>1, <2>2
<1>7. Parents(c) \subseteq have
  BY <1>4, <1>5, <1>6, NoCommitAssumption DEF Placed
<1>8. /\ ToBranch.op = "checkout" /\ Move(c).op = "move" /\ Move(c).commit = c
      /\ Make(c).op = "make" /\ Make(c).commit = c
      /\ Loop(1..k - 1).op = "loop" /\ Loop(1..k - 1).left = 1..k - 1
  BY <1>5, StepsAre DEF CommitOrNone
<1>9. /\ Shape(ops2) /\ All(ops2) = {Make(c), Move(c), ToBranch, Loop(1..k - 1)} \cup All(rest)
      /\ Aim(ops2, here) = c /\ ops2[1] = Make(c)
  <2>0. OnlyCheckouts(rest)
    BY <1>2 DEF OnlyCheckouts
  <2> DEFINE left == 1..k - 1
  <2>1. ops2 = Cons(Make(c), Cons(Move(c), Cons(ToBranch, Cons(Loop(left), rest))))
    OBVIOUS
  <2>2. left \in SUBSET Nat /\ c \in Commits
    BY <1>5
  <2> HIDE DEF left
  <2> DEFINE r == Cons(Move(c), Cons(ToBranch, Cons(Loop(left), rest)))
  <2>3. r = Cons(Move(c), Cons(ToBranch, Cons(Loop(left), rest))) /\ ops2 = Cons(Make(c), r)
    BY <2>1
  <2> HIDE DEF r
  <2>4. /\ Shape(r) /\ All(r) = {Move(c), ToBranch, Loop(left)} \cup All(rest)
        /\ Aim(r, here) = c /\ r[1] = Move(c) /\ Len(r) = Len(rest) + 3
        /\ r[2] = ToBranch
    <3>1. MovedFirst(r, rest, here, c, left)
      BY <1>2, <2>2, <2>3, <2>0, MoveInFront
    <3> QED
      BY <3>1 DEF MovedFirst
  <2>5. Len(r) >= 2
    BY <1>2, <2>4 DEF Shape
  <2>6. /\ Shape(ops2) /\ All(ops2) = {Make(c)} \cup All(r)
        /\ Aim(ops2, here) = c /\ ops2[1] = Make(c)
    BY <2>2, <2>3, <2>4, <2>5, MakeInFront
  <2> QED
    BY <2>4, <2>6 DEF left
<1>10. task.choice \notin {"existing", "checkout"}
  BY <1>2 DEF Doing
<1>11. ~Has(ops2, {"apply"}) /\ Has(ops2, {"apply", "loop"}) /\ Has(ops2, {"checkout", "apply"})
  BY <1>2, <1>8, <1>9 DEF Has
<1>12. /\ \A x \in All(ops2) : x.op = "loop" => x = Loop(1..k - 1)
       /\ \A x \in All(ops2) : x.op = "move" => x = Move(c)
  BY <1>2, <1>8, <1>9
<1>13. c # NoCommit
  BY <1>5, NoCommitAssumption
<1> QED
  BY <1>5, <1>7, <1>8, <1>9, <1>10, <1>11, <1>12, <1>13 DEF Doing

-----------------------------------------------------------------------------
(* The steps.                                                              *)

\* A cache that is fetched, or a longer log, takes no patches away.
LEMMA KnowMore ==
    ASSUME LogOK(log), LogOK(log'), Grown(log, log'), ids \subseteq Ids, ids' \subseteq Ids',
           ids \subseteq ids', NEW q \in Roots(log, ids)
    PROVE  /\ q \in Roots(log', ids') /\ q \in Events
           /\ CommitsOf(PatchesOf(log, ids, q)) \subseteq CommitsOf(PatchesOf(log, ids, q))'
<1>1. ids \in SUBSET (1..Len(log)) /\ ids' \in SUBSET (1..Len(log'))
  BY DEF Ids
<1>2. /\ q \in Roots(log', ids')
      /\ PatchesOf(log, ids, q) \subseteq PatchesOf(log', ids', q)
      /\ \A i \in PatchesOf(log, ids, q) : log'[i] = log[i]
  BY <1>1, MorePatches
<1>3. CommitsOf(PatchesOf(log, ids, q)) \subseteq CommitsOf(PatchesOf(log, ids, q))'
  BY <1>2 DEF CommitsOf
<1>4. q \in Events
  BY <1>1, CheckoutAssumption DEF Roots, Patches, LogOK, Events
<1> QED
  BY <1>2, <1>3, <1>4

\* What is known of others may change.
Informed ==
    /\ LogOK(log') /\ Grown(log, log')
    /\ ids \subseteq ids' /\ ids' \subseteq Ids'

\* The branches stay.
LEMMA BranchesStay ==
    ASSUME CloneOK, Informed, UNCHANGED <<objects, branch, own>>,
           head' \in {0, head}, dirty' \in BOOLEAN,
           pc' \in {"idle", "menu", "asked", "working"}, task' \in Task \cup {None},
           task' # None <=> pc' \in {"asked", "working"}
    PROVE  CloneOK'
<1>1. /\ LogOK(log) /\ ids \subseteq Ids /\ own \subseteq Ids
      /\ \A q \in Events : branch[q] # NoCommit => q \in Roots(log, ids) /\ branch[q] \in objects
      /\ head \in {0} \cup {p \in Events : branch[p] # NoCommit}
  BY DEF CloneOK
<1>2. \A q \in Roots(log, ids) : q \in Roots(log', ids')
  BY <1>1, KnowMore DEF Informed
<1>3. own' \subseteq Ids'
  BY <1>1 DEF Informed, Grown, Ids, LogOK
<1>4. Roots(log, ids)' = Roots(log', ids')
  OBVIOUS
<1>5. LogOK(log)' = LogOK(log')
  BY DEF LogOK
<1> QED
  BY <1>1, <1>2, <1>3, <1>4, <1>5 DEF CloneOK, Informed

\* What the clone learns leaves the branches that nobody committed to published.
LEMMA OwnStays ==
    ASSUME CloneOK, OwnOK, Informed, UNCHANGED <<branch, own>>, pc # "working", pc' # "working"
    PROVE  OwnOK'
<1>1. /\ LogOK(log) /\ ids \subseteq Ids
      /\ \A q \in Events : branch[q] # NoCommit => q \in Roots(log, ids)
  BY DEF CloneOK
<1>2. \A q \in Roots(log, ids) :
        CommitsOf(PatchesOf(log, ids, q)) \subseteq CommitsOf(PatchesOf(log, ids, q))'
  BY <1>1, KnowMore DEF Informed
<1>3. ASSUME NEW q \in Events, branch[q] # NoCommit, q \notin own
      PROVE  branch[q] \in CommitsOf(PatchesOf(log, ids, q))'
  <2>1. branch[q] \in CommitsOf(PatchesOf(log, ids, q))
    BY <1>3 DEF OwnOK
  <2> QED
    BY <1>1, <1>2, <1>3, <2>1
<1> QED
  BY <1>3 DEF OwnOK

\* Nothing is known anew.
LEMMA NoNews ==
    ASSUME CloneOK, UNCHANGED <<log, ids>>
    PROVE  Informed
  BY DEF CloneOK, Informed, Grown, LogOK, Ids

\* A step after which no task is at hand, and that leaves the branches alone.
LEMMA IdleStep ==
    ASSUME IInv, Informed, UNCHANGED <<objects, branch, own>>,
           head' \in {0, head}, dirty' \in BOOLEAN, pc # "working",
           pc' \in {"idle", "menu"}, task' = None, told' = None
    PROVE  IInv'
<1>1. CloneOK'
  BY BranchesStay DEF IInv
<1>2. Env \cap {"fault", "killed"} = {} => OwnOK' /\ AmendedIsOwn'
  BY OwnStays DEF IInv, AmendedIsOwn
<1>3. ReportedIsTip'
  BY DEF ReportedIsTip
<1> QED
  BY <1>1, <1>2, <1>3 DEF IInv

\* Others publish, ngit list begins or ends, main is checked out.
LEMMA QuietStep ==
    ASSUME IInv, Others \/ Edit \/ Launch \/ Back \/ Leave
    PROVE  IInv'
<1>1. /\ LogOK(log) /\ ids \subseteq Ids /\ dirty \in BOOLEAN
      /\ task # None <=> pc \in {"asked", "working"}
  BY DEF IInv, CloneOK
<1>2. CASE Others
  <2>1. LogOK(log') /\ Grown(log, log')
    BY <1>1, <1>2, OthersPlaced
  <2>2. pc = "idle" /\ told' = None /\ UNCHANGED <<ids, repo, dirty, run, own>>
    <3>1. ASSUME NEW user, NEW ks, NEW reply, NEW mentioned, NEW letter,
                 Send(user, ks, reply, mentioned, letter)
          PROVE  told' = None /\ UNCHANGED <<ids, repo, dirty, run, own>>
      BY <3>1 DEF Send, Published
    <3>2. ASSUME NEW user, NEW p, NEW k, Add(user, p, k)
          PROVE  told' = None /\ UNCHANGED <<ids, repo, dirty, run, own>>
      BY <3>2 DEF Add, Published
    <3> QED
      BY <1>2, <3>1, <3>2 DEF Others
  <2>3. Informed
    BY <1>1, <2>1, <2>2 DEF Informed, Grown, Ids, LogOK
  <2> QED
    BY <1>1, <2>2, <2>3, IdleStep DEF repo, run
<1>3. CASE Edit
  <2>1. /\ pc = "idle" /\ told' = None /\ UNCHANGED <<log, ids, objects, branch, run, own>>
        /\ head' \in {0, head} /\ dirty' \in BOOLEAN
    BY <1>1, <1>3 DEF Edit
  <2>2. Informed
    BY <2>1, NoNews DEF IInv
  <2> QED
    BY <1>1, <2>1, <2>2, IdleStep DEF run
<1>4. CASE Launch
  <2>1. /\ pc = "idle" /\ pc' = "menu" /\ told' = None /\ UNCHANGED <<log, repo, dirty, own, task>>
        /\ ids' = Ids \/ ids' = ids
    BY <1>4 DEF Launch, Look
  <2>2. log' = log /\ Ids' = Ids
    BY <2>1 DEF Ids
  <2>3. Informed
    BY <1>1, <2>1, <2>2 DEF Informed, Grown, LogOK
  <2> QED
    BY <1>1, <2>1, <2>3, IdleStep DEF repo
<1>5. CASE Back \/ Leave
  <2>1. /\ pc \in {"menu", "asked"} /\ pc' \in {"idle", "menu"} /\ told' = None /\ task' = None
        /\ UNCHANGED <<log, ids, repo, dirty, own>>
    BY <1>5 DEF Back, Leave, Look
  <2>2. Informed
    BY <2>1, NoNews DEF IInv
  <2> QED
    BY <1>1, <2>1, <2>2, IdleStep DEF repo
<1> QED
  BY <1>2, <1>3, <1>4, <1>5

\* A proposal is chosen and its branch compared.
LEMMA ChooseStep ==
    ASSUME IInv, NEW p \in Roots(log, ids), NEW t \in Tips(log, PatchesOf(log, ids, p)), Choose(p, t)
    PROVE  IInv'
<1> DEFINE chain == Chain(log, PatchesOf(log, ids, p), t)
           next == [proposal |-> p, chain |-> chain, kind |-> Comparison(p, chain), choice |-> None]
           patches == PatchesOf(log, ids, p)
           local == branch[p]
<1>1. /\ CloneOK /\ LogOK(log) /\ ids \subseteq Ids /\ dirty \in BOOLEAN
      /\ ids \in SUBSET (1..Len(log)) /\ p \in Events
  BY CheckoutAssumption DEF IInv, CloneOK, Ids, Roots, Patches, LogOK, Events
<1>2. /\ pc = "menu" /\ pc' = "asked" /\ task' = next /\ told' = None
      /\ UNCHANGED <<log, ids, repo, dirty, own>>
  BY DEF Choose, Look
<1>3. Informed
  BY <1>1, <1>2, NoNews
<1>4. t \in patches
  BY DEF Tips, Youngest
<1>5. next.proposal = p /\ next.chain = chain /\ next.kind = Comparison(p, chain)
  OBVIOUS
<1> HIDE DEF next
<1>6. IsChainOf(next)
  BY <1>1, <1>4, <1>5, ChainLine
<1>7. chain \in Seq(patches) /\ Len(chain) \in Nat /\ Len(chain) >= 1 /\ DOMAIN chain = 1..Len(chain)
  BY <1>5, <1>6 DEF IsChainOf
<1>8. chain \in Seq(Events)
  <2>1. patches \subseteq Events
    <3>1. \A i \in patches : i \in 1..Len(log)
      BY <1>1, InPatches
    <3>2. 1..Len(log) \subseteq Events
      BY <1>1, CheckoutAssumption DEF Events, LogOK
    <3> QED
      BY <3>1, <3>2
  <2> QED
    BY <1>7, <2>1
<1>9. Comparison(p, chain) \in Kinds
  BY DEF Comparison, Kinds
<1>10. task' \in Task
  BY <1>1, <1>2, <1>8, <1>9 DEF Task, next
<1>11. /\ BaseOf(next) = CHOOSE k \in Parents(log[Last(chain)].commit) : TRUE
       /\ TipOf(next) = log[Head(chain)].commit
       /\ next.kind = Comparison(p, chain)
  BY <1>5 DEF BaseOf, TipOf
<1>12. CommitsOf(Range(chain)) \subseteq OfChain(next)
  <2>1. ASSUME NEW i \in Range(chain) PROVE log[i].commit \in OfChain(next)
    <3>1. PICK j \in 1..Len(chain) : chain[j] = i
      BY <1>7, <2>1 DEF Range
    <3> QED
      BY <1>5, <3>1 DEF OfChain, At
  <2> QED
    BY <2>1 DEF CommitsOf
<1>13. /\ next.kind # "baseless" => BaseOf(next) \in objects
       /\ next.kind \notin {"baseless", "new"} => local # NoCommit
       /\ next.kind = "new" => local = NoCommit
       /\ next.kind = "same" => local = TipOf(next)
       /\ next.kind = "behind" => local \in CommitsOf(Range(chain))
       /\ next.kind = "replaced" => local \in CommitsOf(patches)
       /\ next.kind = "amended" => local # NoCommit /\ local \notin CommitsOf(patches)
  BY <1>11 DEF Comparison
<1> HIDE DEF chain
<1>14. CloneOK'
  BY <1>1, <1>2, <1>3, <1>10, BranchesStay, NoneAssumption DEF repo
<1>15. TaskOK'
  <2>1. /\ log' = log /\ ids' = ids /\ task' = next /\ objects' = objects /\ branch' = branch
    BY <1>2 DEF repo
  <2>2. IsChainOf(task)'
    BY <1>6, <2>1 DEF IsChainOf, At
  <2>3. BaseOf(task)' = BaseOf(next)
    BY <2>1 DEF BaseOf
  <2> QED
    BY <1>5, <1>13, <2>1, <2>2, <2>3 DEF TaskOK
<1>16. Compared'
  <2>1. /\ log' = log /\ ids' = ids /\ task' = next /\ branch' = branch
    BY <1>2 DEF repo
  <2>2. OfChain(task)' = OfChain(next)
    BY <2>1 DEF OfChain, BaseOf, At
  <2>3. TipOf(task)' = TipOf(next)
    BY <2>1 DEF TipOf
  <2>4. CommitsOf(PatchesOf(log, ids, task.proposal))' = CommitsOf(patches)
    BY <1>5, <2>1 DEF CommitsOf
  <2>5. (branch[task.proposal])' = local
    BY <1>5, <2>1
  <2> QED
    BY <1>5, <1>12, <1>13, <2>1, <2>2, <2>3, <2>4, <2>5 DEF Compared
<1>17. Env \cap {"fault", "killed"} = {} => OwnOK' /\ AmendedIsOwn'
  <2> SUFFICES ASSUME Env \cap {"fault", "killed"} = {} PROVE OwnOK' /\ AmendedIsOwn'
    OBVIOUS
  <2>1. OwnOK
    BY DEF IInv
  <2>2. OwnOK'
    BY <1>1, <1>2, <1>3, <2>1, OwnStays DEF repo
  <2>3. next.kind = "amended" => p \in own
    BY <1>1, <1>2, <1>13, <2>1 DEF OwnOK
  <2> QED
    BY <1>2, <1>5, <2>2, <2>3 DEF AmendedIsOwn
<1>18. ReportedIsTip'
  BY <1>2 DEF ReportedIsTip
<1> QED
  BY <1>2, <1>14, <1>15, <1>16, <1>17, <1>18 DEF IInv

\* A commit is made on the branch that is checked out, or instead of its last.
Committed(k) ==
    /\ head # 0 /\ k \in Local \ objects
    /\ Parents(k) = {branch[head]} \/ Parents(k) = Parents(branch[head])
    /\ branch' = [branch EXCEPT ![head] = k]
    /\ objects' = objects \cup {k}
    /\ own' = own \cup {head}
    /\ head' = head

\* A commit of the reviewer leaves the clone well formed.
LEMMA CommitKeeps ==
    ASSUME CloneOK, NEW k, Committed(k), UNCHANGED <<log, ids>>, dirty' \in BOOLEAN,
           pc' \in {"idle", "menu", "asked", "working"}, task' \in Task \cup {None},
           task' # None <=> pc' \in {"asked", "working"}
    PROVE  /\ CloneOK'
           /\ head \in Events /\ head \in Roots(log, ids) /\ k # NoCommit
           /\ \A q \in Events \ {head} : branch'[q] = branch[q]
           /\ branch'[head] = k
<1>1. /\ LogOK(log) /\ ids \subseteq Ids /\ own \subseteq Ids
      /\ objects \in SUBSET Commits /\ \A a \in objects : Ancestors[a] \subseteq objects
      /\ branch \in [Events -> CommitOrNone]
      /\ \A q \in Events : branch[q] # NoCommit => q \in Roots(log, ids) /\ branch[q] \in objects
      /\ head \in {0} \cup {p \in Events : branch[p] # NoCommit}
  BY DEF CloneOK
<1>2. /\ head \in Events /\ branch[head] \in objects /\ head \in Roots(log, ids)
      /\ head \in Ids
  BY <1>1 DEF Committed, Roots, Patches
<1>3. k \in Commits /\ k # NoCommit
  BY CheckoutAssumption, NoCommitAssumption DEF Committed
<1>4. Parents(k) \subseteq objects
  BY <1>1, <1>2 DEF Committed, Parents
<1>5. Ancestors[k] \subseteq objects \cup {k}
  BY <1>1, <1>3, <1>4, BelowParents
<1>6. objects' \subseteq Commits /\ \A a \in objects' : Ancestors[a] \subseteq objects'
  BY <1>1, <1>3, <1>5 DEF Committed
<1>7. /\ branch' \in [Events -> CommitOrNone] /\ branch'[head] = k
      /\ \A q \in Events \ {head} : branch'[q] = branch[q]
  BY <1>1, <1>2, <1>3 DEF Committed, CommitOrNone
<1>8. \A q \in Events : branch'[q] # NoCommit => q \in Roots(log, ids)' /\ branch'[q] \in objects'
  BY <1>1, <1>2, <1>7 DEF Committed
<1>9. head' \in {0} \cup {p \in Events : branch'[p] # NoCommit}
  BY <1>2, <1>3, <1>7 DEF Committed
<1>10. own' \subseteq Ids' /\ LogOK(log)' /\ ids' \subseteq Ids'
  BY <1>1, <1>2 DEF Committed, Ids, LogOK
<1> QED
  BY <1>2, <1>3, <1>6, <1>7, <1>8, <1>9, <1>10 DEF CloneOK

\* The reviewer's own commits keep the invariant, also during a prompt.
LEMMA CommitStep ==
    ASSUME IInv, (\E k \in Local : Commit(k)) \/ GitAm
    PROVE  IInv'
<1>1. CASE \E k \in Local : Commit(k)
  <2>1. PICK k \in Local : Commit(k)
    BY <1>1
  <2>2. /\ Committed(k) /\ UNCHANGED <<log, ids, pc, task, todo>> /\ dirty' \in BOOLEAN /\ told' = None
        /\ pc # "working"
        /\ pc \in {"menu", "asked"} => "meanwhile" \in Env
    BY <2>1 DEF Commit, Committed, run
  <2>3. CloneOK /\ pc \in {"idle", "menu", "asked", "working"} /\ task \in Task \cup {None}
        /\ (task # None <=> pc \in {"asked", "working"})
    BY DEF IInv, CloneOK
  <2>4. /\ CloneOK'
        /\ head \in Events /\ head \in Roots(log, ids) /\ k # NoCommit
        /\ \A q \in Events \ {head} : branch'[q] = branch[q]
        /\ branch'[head] = k
    BY <2>2, <2>3, CommitKeeps
  <2>5. ASSUME pc = "asked"
        PROVE  /\ TaskOK' /\ (Calm' => Compared')
               /\ Calm' => Calm /\ task.proposal # head
    <3>1. TaskOK /\ log' = log /\ ids' = ids /\ task' = task
      BY <2>2, <2>5 DEF IInv
    <3>2. task.proposal \in Events
      BY <2>3, <2>5, NoneAssumption DEF Task
    <3>3. IsChainOf(task)' /\ BaseOf(task)' = BaseOf(task)
      BY <3>1 DEF TaskOK, IsChainOf, At, BaseOf
    <3>4. /\ objects \subseteq objects'
          /\ branch[task.proposal] # NoCommit => branch'[task.proposal] # NoCommit
      BY <2>2, <2>4, <3>2 DEF Committed
    <3>5. TaskOK'
      BY <3>1, <3>3, <3>4 DEF TaskOK
    <3>6. Calm' => Calm /\ task.proposal # head
      BY <2>2, <2>5, <3>1 DEF Calm, Committed
    <3>7. ASSUME Calm' PROVE Compared'
      <4>1. Compared
        BY <2>5, <3>6, <3>7 DEF IInv
      <4>2. branch'[task.proposal] = branch[task.proposal]
        BY <2>4, <3>2, <3>6, <3>7
      <4>3. OfChain(task)' = OfChain(task)
        BY <3>1, <3>3 DEF OfChain, At
      <4>4. TipOf(task)' = TipOf(task)
        BY <3>1 DEF TipOf
      <4>5. CommitsOf(PatchesOf(log, ids, task.proposal))' = CommitsOf(PatchesOf(log, ids, task.proposal))
        BY <3>1 DEF CommitsOf
      <4> QED
        BY <3>1, <4>1, <4>2, <4>3, <4>4, <4>5 DEF Compared
    <3> QED
      BY <3>5, <3>6, <3>7
  <2>6. ASSUME Env \cap {"fault", "killed"} = {} PROVE OwnOK' /\ AmendedIsOwn'
    <3>1. OwnOK /\ AmendedIsOwn
      BY <2>6 DEF IInv
    <3>2. AmendedIsOwn'
      BY <2>2, <3>1 DEF AmendedIsOwn, Committed
    <3>3. ASSUME NEW q \in Events, branch'[q] # NoCommit, q \notin own'
          PROVE  branch'[q] \in CommitsOf(PatchesOf(log, ids, q))'
      <4>1. q # head /\ q \notin own /\ branch'[q] = branch[q]
        BY <2>2, <2>4, <3>3 DEF Committed
      <4>2. branch[q] \in CommitsOf(PatchesOf(log, ids, q))
        BY <2>2, <3>1, <3>3, <4>1 DEF OwnOK
      <4>3. CommitsOf(PatchesOf(log, ids, q))' = CommitsOf(PatchesOf(log, ids, q))
        BY <2>2 DEF CommitsOf
      <4> QED
        BY <4>1, <4>2, <4>3
    <3> QED
      BY <3>2, <3>3 DEF OwnOK
  <2>7. ReportedIsTip'
    BY <2>2 DEF ReportedIsTip
  <2> QED
    BY <2>2, <2>4, <2>5, <2>6, <2>7 DEF IInv
<1>2. CASE GitAm
  <2>1. /\ pc = "asked" /\ pc' = "idle" /\ task' = None /\ told' = None
        /\ UNCHANGED <<log, ids, head, dirty, todo>>
        /\ \/ UNCHANGED <<objects, branch, own>>
           \/ \E k \in Local \ objects : Committed(k)
    BY <1>2 DEF GitAm, Committed
  <2>2. CloneOK /\ dirty \in BOOLEAN
    BY DEF IInv, CloneOK
  <2>3. CASE UNCHANGED <<objects, branch, own>>
    <3>1. Informed
      BY <2>1, <2>2, NoNews
    <3> QED
      BY <2>1, <2>2, <2>3, <3>1, IdleStep
  <2>4. CASE \E k \in Local \ objects : Committed(k)
    <3>1. PICK k : Committed(k)
      BY <2>4
    <3>2. /\ CloneOK'
          /\ \A q \in Events \ {head} : branch'[q] = branch[q]
      BY <2>1, <2>2, <3>1, CommitKeeps
    <3>3. ASSUME Env \cap {"fault", "killed"} = {} PROVE OwnOK' /\ AmendedIsOwn'
      <4>1. OwnOK
        BY <3>3 DEF IInv
      <4>2. AmendedIsOwn'
        BY <2>1 DEF AmendedIsOwn
      <4>3. ASSUME NEW q \in Events, branch'[q] # NoCommit, q \notin own'
            PROVE  branch'[q] \in CommitsOf(PatchesOf(log, ids, q))'
        <5>1. q # head /\ q \notin own /\ branch'[q] = branch[q]
          BY <3>1, <3>2, <4>3 DEF Committed
        <5>2. branch[q] \in CommitsOf(PatchesOf(log, ids, q))
          BY <2>1, <4>1, <4>3, <5>1 DEF OwnOK
        <5>3. CommitsOf(PatchesOf(log, ids, q))' = CommitsOf(PatchesOf(log, ids, q))
          BY <2>1 DEF CommitsOf
        <5> QED
          BY <5>1, <5>2, <5>3
      <4> QED
        BY <4>2, <4>3 DEF OwnOK
    <3>4. ReportedIsTip'
      BY <2>1 DEF ReportedIsTip
    <3> QED
      BY <2>1, <3>2, <3>3, <3>4 DEF IInv
  <2> QED
    BY <2>1, <2>3, <2>4
<1> QED
  BY <1>1, <1>2

\* The operations with which an answer begins.
LEMMA OneStep ==
    ASSUME NEW a \in GitStep, a.op \in {"checkout", "apply"}, NEW here, NEW ops, ops = <<a>>
    PROVE  Shape(ops) /\ All(ops) = {a} /\ Aim(ops, here) = here /\ Len(ops) = 1 /\ ops[1] = a
<1>1. ops \in Seq(GitStep) /\ Len(ops) = 1 /\ ops[1] = a /\ \A j \in 1..1 : j = 1
  OBVIOUS
<1>2. \A j \in 3..1 : FALSE
  OBVIOUS
<1>3. Shape(ops)
  BY <1>1, <1>2 DEF Shape
<1> QED
  BY <1>1, <1>3 DEF All, Aim

\* The shape of the operations of "apply" to a branch that is behind.
LEMMA TwoSteps ==
    ASSUME NEW a \in GitStep, NEW b \in GitStep, a.op = "checkout", b.op = "apply",
           NEW here, NEW ops, ops = <<a, b>>
    PROVE  Shape(ops) /\ All(ops) = {a, b} /\ Aim(ops, here) = here /\ Len(ops) = 2 /\ ops[1] = a
<1>1. ops \in Seq(GitStep) /\ Len(ops) = 2 /\ ops[1] = a /\ ops[2] = b /\ \A j \in 1..2 : j = 1 \/ j = 2
  OBVIOUS
<1>2. \A j \in 3..2 : FALSE
  OBVIOUS
<1>3. Shape(ops)
  BY <1>1, <1>2 DEF Shape
<1> QED
  BY <1>1, <1>3 DEF All, Aim

ApplyAndCheckout(b, c) ==
    \/ b.op = "checkout" /\ c.op = "apply"
    \/ b.op = "apply" /\ c.op = "checkout"

\* The shape of the operations of "overwrite" and "discard".
LEMMA ThreeSteps ==
    ASSUME NEW a \in GitStep, NEW b \in GitStep, NEW c \in GitStep, a.op = "move",
           ApplyAndCheckout(b, c), NEW here, NEW ops, ops = <<a, b, c>>
    PROVE  Shape(ops) /\ All(ops) = {a, b, c} /\ Aim(ops, here) = a.commit /\ Len(ops) = 3 /\ ops[1] = a
<1>1. /\ ops \in Seq(GitStep) /\ Len(ops) = 3 /\ ops[1] = a /\ ops[2] = b /\ ops[3] = c
      /\ \A j \in 1..3 : j = 1 \/ j = 2 \/ j = 3
  OBVIOUS
<1>2. \A j \in 3..3 : j = 3
  OBVIOUS
<1>3. Shape(ops)
  BY <1>1, <1>2 DEF Shape, ApplyAndCheckout
<1> QED
  BY <1>1, <1>3 DEF All, Aim

\* All of a chain is published.
LEMMA ChainPublished ==
    ASSUME Ready
    PROVE  /\ OfChain(task) \subseteq PublishedOf(task.proposal)
           /\ CommitsOf(PatchesOf(log, ids, task.proposal)) \subseteq PublishedOf(task.proposal)
           /\ TipOf(task) \in CommitsOf(PatchesOf(log, ids, task.proposal))
           /\ OfChain(task) \subseteq Commits /\ BaseOf(task) \in OfChain(task)
           /\ TipOf(task) \in OfChain(task)
<1> DEFINE m == Len(task.chain)
           p == task.proposal
           published == CommitsOf(PatchesOf(log, Ids, p))
<1>1. /\ LogOK(log) /\ ids \in SUBSET (1..Len(log)) /\ Ids \in SUBSET (1..Len(log)) /\ ids \subseteq Ids
      /\ p \in Roots(log, ids) /\ Grown(log, log)
  BY DEF Ready, Ids, Grown, LogOK
<1>2. PatchesOf(log, ids, p) \subseteq PatchesOf(log, Ids, p) /\ p \in Roots(log, Ids)
  BY <1>1, MorePatches
<1>3. CommitsOf(PatchesOf(log, ids, p)) \subseteq published
  BY <1>2 DEF CommitsOf
<1>4. published \subseteq Commits
  <2>1. \A i \in PatchesOf(log, Ids, p) : log[i].commit \in Commits
    BY <1>1, <1>2, InPatches
  <2> QED
    BY <2>1 DEF CommitsOf
<1>5. PublishedOf(p) = UNION {Ancestors[c] : c \in published}
  BY <1>4, NoCommitAssumption DEF PublishedOf, Closure
<1> HIDE DEF published
<1>6. \A c \in published : Ancestors[c] \subseteq PublishedOf(p) /\ c \in PublishedOf(p)
  BY <1>4, <1>5, AncestorsAssumption
<1>7. /\ m \in Nat /\ m >= 1
      /\ \A i \in 1..m : task.chain[i] \in PatchesOf(log, ids, p)
      /\ \A k \in 0..m : Below(task, k) \in Commits
      /\ \A k \in 1..m : Parents(At(task, k)) = {Below(task, k)}
      /\ OfChain(task) = {Below(task, k) : k \in 0..m}
      /\ Below(task, 0) = TipOf(task) /\ Below(task, m) = BaseOf(task)
  BY ChainCommits DEF Ready
<1>8. \A i \in 1..m : At(task, i) \in CommitsOf(PatchesOf(log, ids, p))
  BY <1>7 DEF CommitsOf, At
<1>9. TipOf(task) \in CommitsOf(PatchesOf(log, ids, p))
  BY <1>7 DEF CommitsOf, TipOf
<1>10. BaseOf(task) \in PublishedOf(p)
  <2>1. m \in 1..m
    BY <1>7
  <2>2. BaseOf(task) \in Ancestors[At(task, m)]
    BY <1>7, <2>1 DEF Parents
  <2> QED
    BY <1>3, <1>6, <1>8, <2>1, <2>2
<1>11. OfChain(task) \subseteq PublishedOf(p)
  BY <1>3, <1>6, <1>8, <1>10 DEF OfChain
<1>12. 0 \in 0..m /\ m \in 0..m
  BY <1>7
<1> QED
  BY <1>3, <1>6, <1>7, <1>9, <1>11, <1>12

\* The answers are about different branches.
LEMMA AnswersAre ==
    ASSUME NEW t, NEW a \in Answers(t)
    PROVE  \/ a.kind = "new" /\ a.choice = "apply" /\ a.todo = <<Apply>>
           \/ a.kind = "same" /\ a.choice = "checkout" /\ a.todo = <<ToBranch>>
           \/ a.kind = "behind" /\ a.choice = "apply" /\ a.todo = <<ToBranch, Apply>>
           \/ a.kind = "replaced" /\ a.choice = "overwrite" /\ a.todo = <<Move(BaseOf(t)), ToBranch, Apply>>
           \/ a.kind \in {"replaced", "ahead", "amended"} /\ a.choice = "existing" /\ a.todo = <<ToBranch>>
           \/ a.kind = "amended" /\ a.choice = "discard" /\ a.todo = <<Move(BaseOf(t)), Apply, ToBranch>>
  BY DEF Answers

\* The answer leaves all but the choice.
LEMMA SameChain ==
    ASSUME UNCHANGED <<log, ids, own>>, NEW c, task' = [task EXCEPT !.choice = c], task \in Task
    PROVE  /\ OfChain(task)' = OfChain(task) /\ TipOf(task)' = TipOf(task)
           /\ BaseOf(task)' = BaseOf(task) /\ IsChainOf(task)' = IsChainOf(task)
           /\ Calm' = Calm /\ PublishedOf(task.proposal)' = PublishedOf(task.proposal)
           /\ task'.proposal = task.proposal /\ task'.kind = task.kind /\ task'.choice = c
<1>1. /\ task'.proposal = task.proposal /\ task'.kind = task.kind /\ task'.choice = c
      /\ task'.chain = task.chain
  BY DEF Task
<1>2. log' = log /\ ids' = ids /\ own' = own
  OBVIOUS
<1>3. OfChain(task)' = OfChain(task)
  BY <1>1, <1>2 DEF OfChain, At, BaseOf
<1>4. TipOf(task)' = TipOf(task) /\ BaseOf(task)' = BaseOf(task)
  BY <1>1, <1>2 DEF TipOf, BaseOf
<1>5. IsChainOf(task)' = IsChainOf(task)
  BY <1>1, <1>2 DEF IsChainOf, At
<1>6. Calm' = Calm
  BY <1>1, <1>2 DEF Calm
<1>7. PublishedOf(task.proposal)' = PublishedOf(task.proposal)
  BY <1>1, <1>2 DEF PublishedOf, CommitsOf, Ids
<1> QED
  BY <1>1, <1>3, <1>4, <1>5, <1>6, <1>7

\* What Doing says of operations among which there is no loop.
Begins(ops, here, have, calm, chain, tip, choice) ==
    /\ Shape(ops)
    /\ Has(ops, {"apply"}) \/ Has(ops, {"checkout"})
    /\ \A x \in All(ops) : x.op # "loop"
    /\ Has(ops, {"apply"}) /\ calm => Aim(ops, here) \in {NoCommit} \cup chain
    /\ ~Has(ops, {"apply"}) /\ calm /\ choice # "existing" => Aim(ops, here) = tip
    /\ Has(ops, {"checkout"}) => Aim(ops, here) # NoCommit
    /\ \A x \in All(ops) : x.op = "move" => x.commit \in chain /\ x.commit \in have
    /\ Len(ops) >= 1 /\ ops[1].op # "make"
    /\ choice \in {"existing", "checkout"} => \A x \in All(ops) : x.op = "checkout"

\* The answers put the branch where patches may be applied.
LEMMA AnswerBegins ==
    ASSUME Ready, TaskOK, Calm => Compared, NEW a \in Answers(task), a.kind = task.kind,
           NEW local, local = branch[task.proposal]
    PROVE  /\ Begins(a.todo, local, objects, Calm, OfChain(task), TipOf(task), a.choice)
           /\ a.choice \in Answered /\ a.kind # "baseless"
           /\ Calm /\ a.choice \in {"apply", "overwrite"} =>
                local \in {NoCommit} \cup PublishedOf(task.proposal)
<1> DEFINE base == BaseOf(task)
<1>1. /\ OfChain(task) \subseteq PublishedOf(task.proposal)
      /\ CommitsOf(PatchesOf(log, ids, task.proposal)) \subseteq PublishedOf(task.proposal)
      /\ base \in Commits /\ base # NoCommit /\ base \in OfChain(task)
  BY ChainPublished, NoCommitAssumption
<1>2. /\ task.kind # "baseless" => base \in objects
      /\ task.kind \notin {"baseless", "new"} => local # NoCommit
  BY DEF TaskOK
<1>3. /\ {ToBranch, Apply, Move(base)} \subseteq GitStep
      /\ ToBranch.op = "checkout" /\ Apply.op = "apply"
      /\ Move(base).op = "move" /\ Move(base).commit = base
  <2>1. base \in CommitOrNone /\ {} \in SUBSET Nat
    BY <1>1 DEF CommitOrNone
  <2> HIDE DEF base
  <2> QED
    BY <2>1, StepsAre
<1> HIDE DEF base
<1>4. CASE a.kind = "new" /\ a.choice = "apply" /\ a.todo = <<Apply>>
  <2>1. /\ Shape(a.todo) /\ All(a.todo) = {Apply} /\ Aim(a.todo, local) = local
        /\ Len(a.todo) = 1 /\ a.todo[1] = Apply
    BY <1>3, <1>4, OneStep
  <2>2. Calm => local = NoCommit
    BY <1>4 DEF Compared
  <2>3. ~Has(a.todo, {"checkout"}) /\ Has(a.todo, {"apply"})
    BY <1>3, <2>1 DEF Has
  <2> QED
    BY <1>3, <1>4, <2>1, <2>2, <2>3 DEF Begins, Answered
<1>5. CASE a.kind = "same" /\ a.choice = "checkout" /\ a.todo = <<ToBranch>>
  <2>1. /\ Shape(a.todo) /\ All(a.todo) = {ToBranch} /\ Aim(a.todo, local) = local
        /\ Len(a.todo) = 1 /\ a.todo[1] = ToBranch
    BY <1>3, <1>5, OneStep
  <2>2. (Calm => local = TipOf(task)) /\ local # NoCommit
    BY <1>2, <1>5 DEF Compared
  <2>3. Has(a.todo, {"checkout"}) /\ ~Has(a.todo, {"apply"})
    BY <1>3, <2>1 DEF Has
  <2> QED
    BY <1>3, <1>5, <2>1, <2>2, <2>3 DEF Begins, Answered
<1>6. CASE a.kind = "behind" /\ a.choice = "apply" /\ a.todo = <<ToBranch, Apply>>
  <2>1. /\ Shape(a.todo) /\ All(a.todo) = {ToBranch, Apply} /\ Aim(a.todo, local) = local
        /\ Len(a.todo) = 2 /\ a.todo[1] = ToBranch
    BY <1>3, <1>6, TwoSteps
  <2>2. (Calm => local \in OfChain(task)) /\ local # NoCommit
    BY <1>2, <1>6 DEF Compared
  <2>3. Has(a.todo, {"checkout"}) /\ Has(a.todo, {"apply"})
    BY <1>3, <2>1 DEF Has
  <2> QED
    BY <1>1, <1>3, <1>6, <2>1, <2>2, <2>3 DEF Begins, Answered
<1>7. CASE a.kind = "replaced" /\ a.choice = "overwrite" /\ a.todo = <<Move(BaseOf(task)), ToBranch, Apply>>
  <2>0. a.todo = <<Move(base), ToBranch, Apply>> /\ ApplyAndCheckout(ToBranch, Apply)
    BY <1>3, <1>7 DEF base, ApplyAndCheckout
  <2>1. /\ Shape(a.todo) /\ All(a.todo) = {Move(base), ToBranch, Apply} /\ Aim(a.todo, local) = base
        /\ Len(a.todo) = 3 /\ a.todo[1] = Move(base)
    BY <1>3, <2>0, ThreeSteps
  <2>2. (Calm => local \in PublishedOf(task.proposal)) /\ base \in objects
    BY <1>1, <1>2, <1>7 DEF Compared
  <2>3. Has(a.todo, {"checkout"}) /\ Has(a.todo, {"apply"})
    BY <1>3, <2>1 DEF Has
  <2> QED
    BY <1>1, <1>3, <1>7, <2>1, <2>2, <2>3 DEF Begins, Answered
<1>8. CASE a.kind \in {"replaced", "ahead", "amended"} /\ a.choice = "existing" /\ a.todo = <<ToBranch>>
  <2>1. /\ Shape(a.todo) /\ All(a.todo) = {ToBranch} /\ Aim(a.todo, local) = local
        /\ Len(a.todo) = 1 /\ a.todo[1] = ToBranch
    BY <1>3, <1>8, OneStep
  <2>2. local # NoCommit
    BY <1>2, <1>8
  <2>3. Has(a.todo, {"checkout"}) /\ ~Has(a.todo, {"apply"})
    BY <1>3, <2>1 DEF Has
  <2> QED
    BY <1>3, <1>8, <2>1, <2>2, <2>3 DEF Begins, Answered
<1>9. CASE a.kind = "amended" /\ a.choice = "discard" /\ a.todo = <<Move(BaseOf(task)), Apply, ToBranch>>
  <2>0. a.todo = <<Move(base), Apply, ToBranch>> /\ ApplyAndCheckout(Apply, ToBranch)
    BY <1>3, <1>9 DEF base, ApplyAndCheckout
  <2>1. /\ Shape(a.todo) /\ All(a.todo) = {Move(base), Apply, ToBranch} /\ Aim(a.todo, local) = base
        /\ Len(a.todo) = 3 /\ a.todo[1] = Move(base)
    BY <1>3, <2>0, ThreeSteps
  <2>2. base \in objects
    BY <1>2, <1>9
  <2>3. Has(a.todo, {"checkout"}) /\ Has(a.todo, {"apply"})
    BY <1>3, <2>1 DEF Has
  <2> QED
    BY <1>1, <1>3, <1>9, <2>1, <2>2, <2>3 DEF Begins, Answered
<1> QED
  BY <1>4, <1>5, <1>6, <1>7, <1>8, <1>9, AnswersAre

\* What the user answers is done.
LEMMA AnswerStep ==
    ASSUME IInv, Answer
    PROVE  IInv'
<1>1. PICK a \in Answers(task) :
        a.kind = task.kind /\ task' = [task EXCEPT !.choice = a.choice] /\ todo' = a.todo
  BY DEF Answer
<1>2. /\ pc = "asked" /\ pc' = "working" /\ told' = None
      /\ UNCHANGED <<log, ids, objects, branch, head, dirty, own>>
  BY DEF Answer, repo
<1>3. CloneOK /\ TaskOK /\ (Calm => Compared) /\ LogOK(log) /\ ids \subseteq Ids /\ dirty \in BOOLEAN
      /\ task \in Task
  BY <1>2 DEF IInv, CloneOK
<1>4. Ready
  BY <1>3 DEF Ready, TaskOK
<1> DEFINE local == branch[task.proposal]
<1>5. /\ Begins(a.todo, local, objects, Calm, OfChain(task), TipOf(task), a.choice)
      /\ a.choice \in Answered /\ a.kind # "baseless"
      /\ Calm /\ a.choice \in {"apply", "overwrite"} =>
           local \in {NoCommit} \cup PublishedOf(task.proposal)
  BY <1>1, <1>3, <1>4, AnswerBegins
<1>6. /\ OfChain(task)' = OfChain(task) /\ TipOf(task)' = TipOf(task)
      /\ BaseOf(task)' = BaseOf(task) /\ IsChainOf(task)' = IsChainOf(task)
      /\ Calm' = Calm /\ PublishedOf(task.proposal)' = PublishedOf(task.proposal)
      /\ task'.proposal = task.proposal /\ task'.kind = task.kind /\ task'.choice = a.choice
  BY <1>1, <1>2, <1>3, SameChain
<1>7. (branch[task.proposal])' = local
  BY <1>2, <1>6
<1> HIDE DEF local
<1>8. task' \in Task /\ task' # None
  BY <1>1, <1>3, <1>5, NoneAssumption DEF Task
<1>9. CloneOK'
  <2>1. Informed
    BY <1>2, <1>3, NoNews
  <2> QED
    BY <1>2, <1>3, <1>8, <2>1, BranchesStay
<1>10. TaskOK'
  BY <1>2, <1>3, <1>6, <1>7 DEF TaskOK, local
<1>11. Doing(todo, branch[task.proposal], objects, head)'
  <2>1. \A x \in All(todo') : x.op = "loop" => FALSE
    BY <1>1, <1>5 DEF Begins
  <2>2. /\ Has(todo', {"apply", "loop"}) <=> Has(todo', {"apply"})
        /\ Has(todo', {"checkout", "apply"})
    BY <1>1, <1>5 DEF Begins, Has
  <2> QED
    BY <1>1, <1>2, <1>5, <1>6, <1>7, <2>1, <2>2 DEF Begins, Doing
<1>12. WorkOK'
  BY <1>1, <1>2, <1>5, <1>6, <1>7, <1>11 DEF WorkOK
<1>13. Env \cap {"fault", "killed"} = {} => OwnOK' /\ AmendedIsOwn'
  <2> SUFFICES ASSUME Env \cap {"fault", "killed"} = {} PROVE OwnOK'
    BY <1>2 DEF AmendedIsOwn
  <2>1. OwnOK
    BY DEF IInv
  <2>2. \A q : CommitsOf(PatchesOf(log, ids, q))' = CommitsOf(PatchesOf(log, ids, q))
    BY <1>2 DEF CommitsOf
  <2>3. \A q \in Events : branch[q] # NoCommit /\ q \notin own => branch[q] \in CommitsOf(PatchesOf(log, ids, q))
    BY <1>2, <2>1 DEF OwnOK
  <2> QED
    BY <1>2, <2>2, <2>3 DEF OwnOK
<1>14. ReportedIsTip'
  BY <1>2 DEF ReportedIsTip
<1> QED
  BY <1>2, <1>9, <1>10, <1>12, <1>13, <1>14 DEF IInv

\* Work as it changes the branch of the task.
Worked(ops, local, have, at) ==
    /\ todo' = ops /\ objects' = have /\ head' = at
    /\ branch' = branch \/ branch' = [branch EXCEPT ![task.proposal] = local]
    /\ branch'[task.proposal] = local

\* Every operation leads to the next.
LEMMA WorkDoes ==
    ASSUME Ready, TaskOK, WorkOK, Work, branch \in [Events -> CommitOrNone], task.proposal \in Events,
           NEW local, local = branch[task.proposal], Placed(local, objects)
    PROVE  \E ops, have, at, now :
              /\ Worked(ops, now, have, at) /\ Doing(ops, now, have, at)
              /\ now = local \/ (now \in objects \cap OfChain(task) /\ todo[1].op = "move")
              /\ \/ have = objects
                 \/ \E k \in OfChain(task) : have = objects \cup {k} /\ Parents(k) \subseteq objects
              /\ at = head \/ at = 0 \/ (at = task.proposal /\ local # NoCommit)
<1> DEFINE step == todo[1]
           rest == Tail(todo)
           p == task.proposal
           m == Len(task.chain)
<1>1. /\ Doing(todo, local, objects, head) /\ task.kind # "baseless" /\ BaseOf(task) \in objects
  BY DEF WorkOK, TaskOK
<1>2. Shape(todo) /\ todo \in Seq(GitStep) /\ todo # << >>
  BY <1>1 DEF Doing, Shape, Work
<1>3. Len(todo) >= 1 /\ Head(todo) = step /\ step \in GitStep /\ rest \in Seq(GitStep)
  BY <1>2
<1> DEFINE detour == step.op = "move" /\ head = p
<1>4. /\ todo' = IF detour THEN <<ToMain, step, ToBranch>> \o rest
                 ELSE IF step.op = "apply" THEN ApplyChain(p, task.chain) \o rest
                 ELSE IF step.op = "loop" THEN LoopOver(task.chain, step.left) \o rest
                 ELSE rest
      /\ head' = IF step.op = "main" THEN 0 ELSE IF step.op = "checkout" THEN p ELSE head
      /\ branch' = IF step.op = "move" /\ ~detour THEN [branch EXCEPT ![p] = step.commit] ELSE branch
      /\ objects' = IF step.op = "make" THEN objects \cup {step.commit} ELSE objects
  BY <1>3 DEF Work
<1>5. step.op \in {"main", "checkout", "apply", "move", "make", "loop"}
  BY <1>3 DEF GitStep
<1>6. /\ m \in Nat /\ m >= 1 /\ \A k \in 0..m : Below(task, k) \in Commits
      /\ \A k \in 1..m : At(task, k) = Below(task, k - 1)
  BY ChainCommits DEF Ready
<1>7. {ToMain, ToBranch} \subseteq GitStep
  BY StepsAre DEF CommitOrNone
<1> HIDE DEF rest, m
<1>8. CASE step.op = "main"
  <2>1. Worked(rest, local, objects, 0)
    BY <1>4, <1>8 DEF Worked
  <2>2. Doing(rest, local, objects, 0)
    BY <1>1, <1>3, <1>8, MainDone DEF rest
  <2> QED
    BY <2>1, <2>2
<1>9. CASE step.op = "checkout"
  <2>1. Worked(rest, local, objects, p)
    BY <1>4, <1>9 DEF Worked
  <2>2. Doing(rest, local, objects, p) /\ local # NoCommit
    BY <1>1, <1>3, <1>9, CheckoutDone DEF rest
  <2> QED
    BY <2>1, <2>2
<1>10. CASE step.op = "move" /\ ~detour
  <2>1. Worked(rest, step.commit, objects, head)
    BY <1>4, <1>10 DEF Worked
  <2>2. Doing(rest, step.commit, objects, head) /\ step.commit \in objects \cap OfChain(task)
    BY <1>1, <1>3, <1>10, MoveDone DEF rest
  <2> QED
    BY <1>10, <2>1, <2>2
<1>11. CASE detour
  <2> DEFINE ops == Cons(ToMain, Cons(step, Cons(ToBranch, rest)))
  <2>1. <<ToMain, step, ToBranch>> \o rest = ops
    BY <1>3, <1>7, ThreeInFront
  <2>2. Worked(ops, local, objects, head)
    BY <1>4, <1>11, <2>1 DEF Worked
  <2>3. Doing(ops, local, objects, head)
    BY <1>1, <1>3, <1>11, DetourDone DEF rest
  <2> QED
    BY <2>2, <2>3
<1>12. CASE step.op = "make"
  <2>1. Worked(rest, local, objects \cup {step.commit}, head)
    BY <1>4, <1>12 DEF Worked
  <2>2. Doing(rest, local, objects \cup {step.commit}, head) /\ Parents(step.commit) \subseteq objects
        /\ step.commit \in OfChain(task)
    BY <1>1, <1>3, <1>12, MakeDone DEF rest
  <2> QED
    BY <2>1, <2>2
<1>13. CASE step.op = "apply"
  <2>1. local = NoCommit \/ local \in Commits
    BY DEF CommitOrNone
  <2>2. PICK k \in 0..m : Missing(p, task.chain) = 1..k
    BY <2>1, MissingAre DEF Ready, m
  <2>3. ApplyChain(p, task.chain) =
          IF k = 0 THEN <<ToBranch>> ELSE <<Move(Below(task, k)), ToBranch, Loop(1..k)>>
    BY <2>2, ApplyIs DEF Ready, m
  <2>4. CASE k = 0
    <3> DEFINE ops == Cons(ToBranch, rest)
    <3>1. Worked(ops, local, objects, head)
      BY <1>4, <1>13, <2>3, <2>4 DEF Worked, Cons
    <3>2. Doing(ops, local, objects, head)
      BY <1>1, <1>3, <1>13, <2>2, <2>4, NothingMissing DEF rest
    <3> QED
      BY <3>1, <3>2
  <2>5. CASE k # 0
    <3>1. k \in 1..m /\ Below(task, k) \in Commits /\ 1..k \in SUBSET Nat
      BY <1>6, <2>5
    <3> DEFINE c == Below(task, k)
               ops == Cons(Move(c), Cons(ToBranch, Cons(Loop(1..k), rest)))
    <3>2. Move(c) \in GitStep /\ ToBranch \in GitStep /\ Loop(1..k) \in GitStep
      BY <3>1, StepsAre DEF CommitOrNone
    <3>3. <<Move(c), ToBranch, Loop(1..k)>> \o rest = ops
      BY <1>3, <1>7, <3>2, ThreeInFront
    <3>4. Worked(ops, local, objects, head)
      BY <1>4, <1>13, <2>3, <2>5, <3>3 DEF Worked
    <3>5. Doing(ops, local, objects, head)
      BY <1>1, <1>3, <1>13, <2>2, <3>1, SomeMissing DEF rest, m
    <3> QED
      BY <3>4, <3>5
  <2> QED
    BY <2>4, <2>5
<1>14. CASE step.op = "loop"
  <2>1. PICK k \in 0..m : step.left = 1..k
    <3>1. step \in All(todo)
      BY <1>2, <1>3 DEF All, Shape
    <3> QED
      BY <1>1, <1>14, <3>1 DEF Doing, m
  <2>2. k \in Nat /\ LoopOver(task.chain, step.left) =
          IF k = 0 THEN << >>
          ELSE <<Make(At(task, k)), Move(At(task, k)), ToBranch, Loop(1..k - 1)>>
    BY <1>6, <2>1, LoopIs
  <2>3. CASE k = 0
    <3>1. Worked(rest, local, objects, head)
      BY <1>3, <1>4, <1>14, <2>2, <2>3 DEF Worked
    <3>2. step.left = {}
      BY <2>1, <2>3
    <3>3. Doing(rest, local, objects, head)
      BY <1>1, <1>3, <1>14, <3>2, LoopEnds DEF rest
    <3> QED
      BY <3>1, <3>3
  <2>4. CASE k # 0
    <3>1. k \in 1..m /\ k - 1 \in 0..m /\ At(task, k) \in Commits /\ 1..k - 1 \in SUBSET Nat
      BY <1>6, <2>4
    <3> DEFINE c == At(task, k)
               ops == Cons(Make(c), Cons(Move(c), Cons(ToBranch, Cons(Loop(1..k - 1), rest))))
    <3>2. Make(c) \in GitStep /\ Move(c) \in GitStep /\ Loop(1..k - 1) \in GitStep
      BY <3>1, StepsAre DEF CommitOrNone
    <3>3. <<Make(c), Move(c), ToBranch, Loop(1..k - 1)>> \o rest = ops
      <4>1. ToBranch \in GitStep
        BY <1>7
      <4> HIDE DEF c
      <4> QED
        BY <1>3, <3>2, <4>1, FourInFront
    <3>4. Worked(ops, local, objects, head)
      BY <1>4, <1>14, <2>2, <2>4, <3>3 DEF Worked
    <3>5. Doing(ops, local, objects, head)
      BY <1>1, <1>3, <1>14, <2>1, <3>1, LoopGoesOn DEF rest, m
    <3> QED
      BY <3>4, <3>5
  <2> QED
    BY <2>3, <2>4
<1> QED
  BY <1>5, <1>8, <1>9, <1>10, <1>11, <1>12, <1>13, <1>14

\* The branch, the commits and the task of a command at work.
LEMMA AtWork ==
    ASSUME CloneOK, TaskOK, pc = "working"
    PROVE  /\ Ready /\ task \in Task /\ task.proposal \in Events
           /\ branch \in [Events -> CommitOrNone]
           /\ Placed(branch[task.proposal], objects)
<1>1. task \in Task
  BY DEF CloneOK
<1>2. task.proposal \in Events
  BY <1>1 DEF Task
<1>3. Ready
  BY DEF CloneOK, TaskOK, Ready
<1>4. Placed(branch[task.proposal], objects)
  BY <1>2 DEF CloneOK, Placed
<1> QED
  BY <1>1, <1>2, <1>3, <1>4 DEF CloneOK

\* One operation is done.
LEMMA WorkStep ==
    ASSUME IInv, Work
    PROVE  IInv'
<1> DEFINE p == task.proposal
           local == branch[p]
<1>1. /\ pc = "working" /\ told' = None
      /\ UNCHANGED <<log, ids, dirty, pc, task, own>>
  BY DEF Work
<1>2. CloneOK /\ TaskOK /\ WorkOK
  BY <1>1 DEF IInv
<1>3. /\ Ready /\ task \in Task /\ p \in Events
      /\ branch \in [Events -> CommitOrNone] /\ Placed(local, objects)
  BY <1>1, <1>2, AtWork
<1>4. PICK ops, have, at, now :
        /\ Worked(ops, now, have, at) /\ Doing(ops, now, have, at)
        /\ now = local \/ (now \in objects \cap OfChain(task) /\ todo[1].op = "move")
        /\ \/ have = objects
           \/ \E k \in OfChain(task) : have = objects \cup {k} /\ Parents(k) \subseteq objects
        /\ at = head \/ at = 0 \/ (at = p /\ local # NoCommit)
  BY <1>2, <1>3, WorkDoes
<1>5. /\ OfChain(task) \subseteq PublishedOf(p) /\ OfChain(task) \subseteq Commits
  BY <1>3, ChainPublished
<1>6. /\ objects \in SUBSET Commits /\ \A k \in objects : Ancestors[k] \subseteq objects
      /\ head \in {0} \cup {q \in Events : branch[q] # NoCommit}
      /\ \A q \in Events : branch[q] # NoCommit => q \in Roots(log, ids) /\ branch[q] \in objects
      /\ p \in Roots(log, ids)
  BY <1>2 DEF CloneOK, TaskOK
<1>7. /\ branch' \in [Events -> CommitOrNone] /\ branch'[p] = now
      /\ \A q \in Events \ {p} : branch'[q] = branch[q]
      /\ objects' = have /\ head' = at /\ todo' = ops
  <2>1. now \in CommitOrNone
    BY <1>3, <1>4, <1>5 DEF CommitOrNone
  <2> QED
    BY <1>3, <1>4, <2>1 DEF Worked
<1>8. now = NoCommit => local = NoCommit
  BY <1>4, <1>5, NoCommitAssumption
<1>9. objects \subseteq have /\ have \in SUBSET Commits /\ \A k \in have : Ancestors[k] \subseteq have
  <2>1. CASE have = objects
    BY <1>6, <2>1
  <2>2. CASE \E k \in OfChain(task) : have = objects \cup {k} /\ Parents(k) \subseteq objects
    <3>1. PICK k \in OfChain(task) : have = objects \cup {k} /\ Parents(k) \subseteq objects
      BY <2>2
    <3>2. k \in Commits
      BY <1>5
    <3>3. Ancestors[k] \subseteq objects \cup {k}
      BY <1>6, <3>1, <3>2, BelowParents
    <3> QED
      BY <1>6, <3>1, <3>2, <3>3
  <2> QED
    BY <1>4, <2>1, <2>2
<1>10. \A q \in Events : branch'[q] # NoCommit => q \in Roots(log, ids) /\ branch'[q] \in have
  <2>1. now # NoCommit => now \in objects
    BY <1>3, <1>4 DEF Placed
  <2> QED
    BY <1>6, <1>7, <1>9, <2>1
<1>11. at \in {0} \cup {q \in Events : branch'[q] # NoCommit}
  <2>1. \A q \in Events : branch[q] # NoCommit => branch'[q] # NoCommit
    BY <1>7, <1>8
  <2> QED
    BY <1>3, <1>4, <1>6, <2>1
<1>12. CloneOK'
  <2>1. LogOK(log)' /\ ids' \subseteq Ids' /\ own' \subseteq Ids'
    BY <1>1, <1>2 DEF CloneOK, LogOK, Ids
  <2> QED
    BY <1>1, <1>2, <1>7, <1>9, <1>10, <1>11, <2>1 DEF CloneOK
<1>13. /\ BaseOf(task)' = BaseOf(task) /\ IsChainOf(task)' = IsChainOf(task)
       /\ Calm' = Calm /\ PublishedOf(task.proposal)' = PublishedOf(p)
       /\ Roots(log, ids)' = Roots(log, ids)
  BY <1>1, SameTask
<1>14. TaskOK'
  <2>1. task' = task /\ objects \subseteq objects'
    BY <1>1, <1>7, <1>9
  <2>2. branch[task.proposal] # NoCommit => (branch[task.proposal])' # NoCommit
    BY <1>7, <1>8, <2>1
  <2> QED
    BY <1>2, <1>13, <2>1, <2>2 DEF TaskOK
<1>15. WorkOK'
  <2>1. /\ Calm' = Calm /\ OfChain(task)' = OfChain(task) /\ TipOf(task)' = TipOf(task)
        /\ \A k : Below(task, k)' = Below(task, k)
    BY <1>1, SameTask
  <2>2. Doing(todo, branch[task.proposal], objects, head)'
    BY <1>1, <1>4, <1>7, <2>1 DEF Doing
  <2>3. Calm /\ task.choice \in {"apply", "overwrite"} => now \in {NoCommit} \cup PublishedOf(p)
    BY <1>2, <1>4, <1>5 DEF WorkOK
  <2> QED
    BY <1>1, <1>2, <1>7, <1>13, <2>2, <2>3 DEF WorkOK
<1>16. Env \cap {"fault", "killed"} = {} => OwnOK' /\ AmendedIsOwn'
  <2> SUFFICES ASSUME Env \cap {"fault", "killed"} = {} PROVE OwnOK'
    BY <1>1 DEF AmendedIsOwn
  <2>1. OwnOK
    BY DEF IInv
  <2>2. \A q : CommitsOf(PatchesOf(log, ids, q))' = CommitsOf(PatchesOf(log, ids, q))
    BY <1>1 DEF CommitsOf
  <2>3. task.choice = "existing" => branch'[p] = branch[p]
    <3> SUFFICES ASSUME task.choice = "existing" PROVE todo[1].op # "move"
      BY <1>4, <1>7
    <3>1. \A x \in All(todo) : x.op = "checkout"
      BY <1>2 DEF WorkOK, Doing
    <3>2. todo[1] \in All(todo)
      <4>1. todo \in Seq(GitStep) /\ todo # << >>
        BY <1>2 DEF WorkOK, Doing, Shape, Work
      <4>2. 1 \in 1..Len(todo)
        BY <4>1
      <4> QED
        BY <4>2 DEF All
    <3> QED
      BY <3>1, <3>2
  <2>4. ASSUME NEW q \in Events, branch'[q] # NoCommit, q \notin own,
               ~(pc = "working" /\ p = q /\ task.choice # "existing")
        PROVE  branch'[q] \in CommitsOf(PatchesOf(log, ids, q))
    <3>1. branch'[q] = branch[q]
      BY <1>1, <1>7, <2>3, <2>4
    <3> QED
      BY <2>1, <2>4, <3>1 DEF OwnOK
  <2> QED
    BY <1>1, <2>2, <2>4 DEF OwnOK
<1>17. ReportedIsTip'
  BY <1>1 DEF ReportedIsTip
<1> QED
  BY <1>1, <1>12, <1>14, <1>15, <1>16, <1>17 DEF IInv

\* The first operation is possible.
LEMMA FirstPossible ==
    ASSUME WorkOK, todo # << >>
    PROVE  Possible(Head(todo))
<1>1. Doing(todo, branch[task.proposal], objects, head)
  BY DEF WorkOK
<1>2. todo \in Seq(GitStep)
  BY <1>1 DEF Doing, Shape
<1>3. Len(todo) >= 1 /\ Head(todo) = todo[1] /\ 1 \in 1..Len(todo)
  BY <1>2
<1>4. todo[1] \in All(todo)
  BY <1>3 DEF All
<1>5. todo[1].op = "move" => todo[1].commit \in objects
  BY <1>1, <1>4 DEF Doing
<1>6. todo[1].op = "make" => Parents(todo[1].commit) \subseteq objects
  BY <1>1, <1>3 DEF Doing
<1>7. todo[1].op = "checkout" => branch[task.proposal] # NoCommit
  BY <1>1, <1>3, CheckoutDone
<1>8. Possible(todo[1])
  BY <1>5, <1>6, <1>7 DEF Possible
<1> QED
  BY <1>3, <1>8

\* The command ends.
LEMMA EndStep ==
    ASSUME IInv, Finish \/ Broken
    PROVE  IInv'
<1> DEFINE p == task.proposal
           local == branch[p]
<1>1. /\ pc = "working" /\ pc' = "idle" /\ task' = None
      /\ UNCHANGED <<log, ids, objects, branch, head, dirty, own>>
  BY DEF Finish, Broken, repo
<1>2. CloneOK /\ TaskOK /\ WorkOK
  BY <1>1 DEF IInv
<1>3. Ready /\ p \in Events
  BY <1>1, <1>2, AtWork
<1>4. CloneOK'
  <2>1. Informed
    BY <1>1, <1>2, NoNews
  <2> QED
    BY <1>1, <1>2, <2>1, BranchesStay DEF CloneOK
<1>5. Broken => Env \cap {"fault", "killed"} # {}
  BY <1>2, FirstPossible DEF Broken
<1>6. Finish /\ Calm /\ task.choice # "existing" => head = p /\ local = TipOf(task)
  <2> SUFFICES ASSUME Finish, Calm, task.choice # "existing" PROVE head = p /\ local = TipOf(task)
    OBVIOUS
  <2>1. todo = << >> /\ Doing(<< >>, local, objects, head)
    BY <1>2 DEF Finish, WorkOK
  <2>2. All(<< >>) = {} /\ Aim(<< >>, local) = local
    BY NoneLeft
  <2>3. ~Has(<< >>, {"apply", "loop"}) /\ ~Has(<< >>, {"checkout", "apply"})
    BY <2>2 DEF Has
  <2> QED
    BY <2>1, <2>2, <2>3 DEF Doing
<1>7. Env \cap {"fault", "killed"} = {} => OwnOK' /\ AmendedIsOwn'
  <2> SUFFICES ASSUME Env \cap {"fault", "killed"} = {} PROVE OwnOK'
    BY <1>1 DEF AmendedIsOwn
  <2>1. OwnOK /\ Finish
    BY <1>5 DEF IInv
  <2>2. \A q : CommitsOf(PatchesOf(log, ids, q))' = CommitsOf(PatchesOf(log, ids, q))
    BY <1>1 DEF CommitsOf
  <2>3. ASSUME NEW q \in Events, branch[q] # NoCommit, q \notin own
        PROVE  branch[q] \in CommitsOf(PatchesOf(log, ids, q))
    <3>1. CASE q = p /\ task.choice # "existing"
      <4>1. Calm
        BY <2>3, <3>1 DEF Calm
      <4>2. TipOf(task) \in CommitsOf(PatchesOf(log, ids, p))
        BY <1>3, ChainPublished
      <4> QED
        BY <1>6, <2>1, <3>1, <4>1, <4>2
    <3>2. CASE ~(q = p /\ task.choice # "existing")
      BY <2>1, <2>3, <3>2 DEF OwnOK
    <3> QED
      BY <3>1, <3>2
  <2> QED
    BY <1>1, <2>2, <2>3 DEF OwnOK
<1>8. "meanwhile" \notin Env => ReportedIsTip'
  <2> SUFFICES ASSUME "meanwhile" \notin Env PROVE ReportedIsTip'
    OBVIOUS
  <2>1. CASE Broken
    BY <2>1 DEF Broken, ReportedIsTip
  <2>2. CASE Finish
    <3>1. told' = task
      BY <2>2 DEF Finish
    <3>2. Calm
      BY DEF Calm
    <3>3. TipOf(told)' = TipOf(task)
      BY <1>1, <3>1 DEF TipOf
    <3> QED
      BY <1>1, <1>6, <2>2, <3>1, <3>2, <3>3 DEF ReportedIsTip
  <2> QED
    BY <2>1, <2>2
<1> QED
  BY <1>1, <1>4, <1>7, <1>8 DEF IInv

-----------------------------------------------------------------------------
(* The theorems.                                                           *)

\* A clone without branches keeps what it is told.
LEMMA InitHolds == Init => IInv
<1> SUFFICES ASSUME Init PROVE IInv
  OBVIOUS
<1>1. /\ log = InitLog /\ ids = {} /\ objects = {Root} /\ branch = [p \in Events |-> NoCommit]
      /\ head = 0 /\ dirty = FALSE /\ pc = "idle" /\ task = None /\ todo = << >>
      /\ told = None /\ own = {}
  BY DEF Init
<1>2. LogOK(log)
  BY <1>1, CheckoutAssumption DEF LogOK
<1>3. objects \subseteq Commits /\ \A k \in objects : Ancestors[k] \subseteq objects
  BY <1>1, RootAlone, CheckoutAssumption
<1>4. CloneOK
  BY <1>1, <1>2, <1>3 DEF CloneOK, CommitOrNone
<1>5. OwnOK
  BY <1>1 DEF OwnOK
<1> QED
  BY <1>1, <1>4, <1>5 DEF IInv, AmendedIsOwn, ReportedIsTip

\* No step breaks the invariant.
LEMMA StepHolds == IInv /\ [Next]_vars => IInv'
<1> SUFFICES ASSUME IInv, [Next]_vars PROVE IInv'
  OBVIOUS
<1>1. CASE Others \/ Edit \/ Launch \/ Back \/ Leave
  BY <1>1, QuietStep
<1>2. CASE (\E k \in Local : Commit(k)) \/ GitAm
  BY <1>2, CommitStep
<1>3. CASE \E p \in Roots(log, ids) : \E t \in Tips(log, PatchesOf(log, ids, p)) : Choose(p, t)
  BY <1>3, ChooseStep
<1>4. CASE Answer
  BY <1>4, AnswerStep
<1>5. CASE Work
  BY <1>5, WorkStep
<1>6. CASE Finish \/ Broken
  BY <1>6, EndStep
<1>7. CASE UNCHANGED vars
  <2>1. /\ UNCHANGED <<log, ids, task, own>> /\ UNCHANGED <<objects, branch, head, dirty, pc, todo, told>>
    BY <1>7 DEF vars, repo, run
  <2>2. CloneOK'
    BY <2>1 DEF IInv, CloneOK, LogOK, Ids
  <2>3. /\ OfChain(task)' = OfChain(task) /\ TipOf(task)' = TipOf(task)
        /\ BaseOf(task)' = BaseOf(task) /\ IsChainOf(task)' = IsChainOf(task)
        /\ Calm' = Calm /\ PublishedOf(task.proposal)' = PublishedOf(task.proposal)
        /\ \A k : Below(task, k)' = Below(task, k)
    BY <2>1, SameTask
  <2>4. \A q : CommitsOf(PatchesOf(log, ids, q))' = CommitsOf(PatchesOf(log, ids, q))
    BY <2>1 DEF CommitsOf
  <2>5. pc' \in {"asked", "working"} => TaskOK'
    BY <2>1, <2>3 DEF IInv, TaskOK
  <2>6. pc' = "asked" /\ Calm' => Compared'
    BY <2>1, <2>3, <2>4 DEF IInv, Compared
  <2>7. pc' = "working" => WorkOK'
    <3> SUFFICES ASSUME pc = "working" PROVE WorkOK'
      BY <2>1
    <3>1. WorkOK
      BY DEF IInv
    <3>2. Doing(todo, branch[task.proposal], objects, head)'
      BY <2>1, <2>3, <3>1 DEF WorkOK, Doing
    <3> QED
      BY <2>1, <2>3, <3>1, <3>2 DEF WorkOK
  <2>8. Env \cap {"fault", "killed"} = {} => OwnOK' /\ AmendedIsOwn'
    BY <2>1, <2>4 DEF IInv, OwnOK, AmendedIsOwn
  <2>9. "meanwhile" \notin Env => ReportedIsTip'
    BY <2>1 DEF IInv, ReportedIsTip, TipOf
  <2> QED
    BY <2>2, <2>5, <2>6, <2>7, <2>8, <2>9 DEF IInv
<1> QED
  BY <1>1, <1>2, <1>3, <1>4, <1>5, <1>6, <1>7 DEF Next, Reviewer, List

\* The invariant that all theorems below rest on.
LEMMA Inductive == Spec => []IInv
  BY InitHolds, StepHolds, PTL DEF Spec

\* The clone, the published events and the command have their shape in every state:
\* the clone has the history of all its branches, a branch that is checked out exists.
THEOREM TypeCorrect == Spec => []TypeOK
<1>1. IInv => TypeOK
  <2> SUFFICES ASSUME IInv PROVE TypeOK
    OBVIOUS
  <2>1. CloneOK
    BY DEF IInv
  <2>2. Closure({branch[p] : p \in Events}) \subseteq objects
    BY <2>1 DEF CloneOK, Closure
  <2> QED
    BY <2>1, <2>2 DEF CloneOK, LogOK, TypeOK
<1> QED
  BY <1>1, Inductive, PTL

\* Unless the reviewer commits while ngit waits for an answer, a proposal that ngit list
\* says is checked out is, at the tip of its latest patches, whatever was cut short before.
THEOREM CheckedOut ==
    ASSUME "meanwhile" \notin Env
    PROVE  Spec => []ReportedIsTip
<1>1. IInv => ReportedIsTip
  BY DEF IInv
<1> QED
  BY <1>1, Inductive, PTL

\* Unless the reviewer commits while ngit waits, no operation takes commits off a branch
\* that are not published, except after "discard unpublished changes".
THEOREM UnpublishedKept ==
    ASSUME "meanwhile" \notin Env
    PROVE  Spec => [][KeepsUnpublished]_vars
<1>1. IInv /\ [Next]_vars => [KeepsUnpublished]_vars
  <2> SUFFICES ASSUME IInv, Next, pc = "working", task.choice # "discard",
                      NEW q \in DOMAIN branch, branch[q] # NoCommit
               PROVE  Ancestors[branch[q]] \ Ancestors[branch'[q]] \subseteq PublishedOf(q)
    BY DEF KeepsUnpublished
  <2>1. CloneOK /\ TaskOK /\ WorkOK
    BY DEF IInv
  <2>2. CASE branch' = branch
    BY <2>2
  <2>3. CASE branch' # branch
    <3>1. Work
      BY <2>3 DEF Next, Others, Send, Add, Published, Reviewer, List, Edit, Commit, Launch, Back,
         Leave, GitAm, Answer, Finish, Broken, Choose, Look, repo
    <3>2. /\ Ready /\ task \in Task /\ task.proposal \in Events
          /\ branch \in [Events -> CommitOrNone] /\ Placed(branch[task.proposal], objects)
      BY <2>1, AtWork
    <3>3. PICK ops, have, at, now :
            /\ Worked(ops, now, have, at)
            /\ now = branch[task.proposal] \/ (now \in objects \cap OfChain(task) /\ todo[1].op = "move")
      BY <2>1, <3>1, <3>2, WorkDoes
    <3>4. now # branch[task.proposal] => todo[1].op = "move"
      BY <3>3
    <3>5. CASE q # task.proposal \/ now = branch[task.proposal]
      <4>1. branch'[q] = branch[q]
        BY <3>2, <3>3, <3>5 DEF Worked
      <4> QED
        BY <4>1
    <3>6. CASE q = task.proposal /\ now # branch[task.proposal]
      <4>1. /\ Doing(todo, branch[task.proposal], objects, head) /\ task.choice \in Answered
            /\ todo # << >>
        BY <2>1, <3>1 DEF WorkOK, Work
      <4>2. todo[1] \in All(todo)
        <5>1. 1 \in 1..Len(todo)
          BY <4>1 DEF Doing, Shape
        <5> QED
          BY <5>1 DEF All
      <4>3. task.choice \in {"apply", "overwrite"}
        BY <3>4, <3>6, <4>1, <4>2 DEF Doing, Answered
      <4>4. Calm
        BY DEF Calm
      <4>5. branch[q] \in PublishedOf(q)
        BY <2>1, <3>6, <4>3, <4>4 DEF WorkOK
      <4>6. Ancestors[branch[q]] \subseteq PublishedOf(q)
        <5>1. PublishedOf(q) = UNION {Ancestors[c] : c \in CommitsOf(PatchesOf(log, Ids, q)) \ {NoCommit}}
          BY DEF PublishedOf, Closure
        <5>2. PICK c \in CommitsOf(PatchesOf(log, Ids, q)) \ {NoCommit} : branch[q] \in Ancestors[c]
          BY <4>5, <5>1
        <5>3. c \in Commits
          <6>1. /\ LogOK(log) /\ Ids \in SUBSET (1..Len(log)) /\ q \in Roots(log, Ids)
            BY <2>1, <3>6 DEF CloneOK, TaskOK, Ids, Roots, Patches
          <6>2. \A i \in PatchesOf(log, Ids, q) : log[i].commit \in Commits
            BY <6>1, InPatches
          <6> QED
            BY <5>2, <6>2 DEF CommitsOf
        <5> QED
          BY <5>1, <5>2, <5>3, AncestorsAssumption
      <4> QED
        BY <4>6
    <3> QED
      BY <3>5, <3>6
  <2> QED
    BY <2>2, <2>3
<1> QED
  BY <1>1, Inductive, PTL DEF Spec

\* If no git operation fails and ngit is not killed at work, a branch is called amended
\* only if the reviewer has committed to it.
THEOREM AmendedByOwner ==
    ASSUME Env \cap {"fault", "killed"} = {}
    PROVE  Spec => []AmendedIsOwn
<1>1. IInv => AmendedIsOwn
  BY DEF IInv
<1> QED
  BY <1>1, Inductive, PTL

==============================================================================
