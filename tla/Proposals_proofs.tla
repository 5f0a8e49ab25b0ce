--------------------------- MODULE Proposals_proofs ---------------------------
(***************************************************************************)
(* The pr/ branches proved for any commits, accounts and clones.  In every *)
(* environment: types, that a branch that is rebuilt from whatever a cache *)
(* holds of a thread is a line of commits (ChainIsHistory), and that the   *)
(* branch that an accepted push leaves to the pusher is what was pushed,   *)
(* if nothing there has a later date (PushShown).  With the premises that  *)
(* they need: that an account has one proposal per branch name (NoTwins),  *)
(* that commits leave a branch by force only (OnlyForceDrops), and that a  *)
(* merge closes what it merges (ClosesMerged).                             *)
(***************************************************************************)
EXTENDS Proposals, PatchThreads_proofs

-----------------------------------------------------------------------------
(* Threads.                                                                *)

Log == Seq(Patch \cup Status)

\* All events of a log.
All(lg) == 1..Len(lg)

WellThreaded(lg) == lg \in Log /\ \A i \in Patches(lg, All(lg)) : InThread(lg, i)

LEMMA PatchTypes ==
    ASSUME NEW lg \in Log
    PROVE  /\ Len(lg) \in Nat
           /\ \A i \in All(lg) : IsPatch(lg[i]) <=> lg[i] \in Patch
           /\ \A i \in Patches(lg, All(lg)) :
                /\ lg[i] \in Patch
                /\ i \in Nat \ {0} /\ i <= Len(lg)
<1>1. \A e \in Patch : IsPatch(e)
  BY DEF Patch, IsPatch
<1>2. \A e \in Status : ~IsPatch(e) /\ e \notin Patch
  BY DEF Status, Patch, IsPatch
<1>3. Len(lg) \in Nat /\ \A i \in All(lg) : lg[i] \in Patch \cup Status
  BY DEF Log, All
<1>4. \A i \in Patches(lg, All(lg)) : lg[i] \in Patch /\ i \in Nat \ {0} /\ i <= Len(lg)
  BY <1>2, <1>3 DEF Patches, All
<1> QED
  BY <1>1, <1>2, <1>3, <1>4

\* The sets a patch may belong to, and the proposal it belongs to.
LEMMA RootOfSet ==
    ASSUME NEW lg, WellThreaded(lg), NEW i \in Patches(lg, All(lg))
    PROVE  /\ SetRoot(lg, i) \in Patches(lg, 1..i) /\ lg[SetRoot(lg, i)].root
           /\ lg[i].root => SetRoot(lg, i) = i
           /\ ~lg[i].root => /\ lg[i].parent \in Patches(lg, 1..i - 1)
                             /\ ParentOf(lg[i]) = lg[i].parent
                             /\ SetRoot(lg, i) = lg[i].thread
                             /\ SetRoot(lg, lg[i].parent) = lg[i].thread
                             /\ ProposalOf(lg, lg[i].parent) = ProposalOf(lg, i)
           /\ ProposalOf(lg, i) \in Roots(lg, 1..i)
<1>1. lg[i] \in Patch /\ i \in Nat \ {0} /\ i <= Len(lg) /\ Len(lg) \in Nat
  BY PatchTypes DEF WellThreaded
<1>2. InThread(lg, i)
  BY DEF WellThreaded
<1>3. Patches(lg, 1..i - 1) \subseteq Patches(lg, 1..i) /\ i \in Patches(lg, 1..i)
  BY <1>1 DEF Patches
<1>4. Patches(lg, 1..i) \subseteq Patches(lg, All(lg))
  BY <1>1 DEF Patches, All
\* A root.
<1>5. \A r \in Patches(lg, 1..i) : lg[r].root =>
        IF lg[r].revision THEN lg[r].parent \in Roots(lg, 1..i) ELSE r \in Roots(lg, 1..i)
  <2> SUFFICES ASSUME NEW r \in Patches(lg, 1..i), lg[r].root
               PROVE  IF lg[r].revision THEN lg[r].parent \in Roots(lg, 1..i)
                                        ELSE r \in Roots(lg, 1..i)
    OBVIOUS
  <2>1. InThread(lg, r) /\ r \in 1..i
    BY <1>4 DEF WellThreaded, Patches
  <2>2. CASE lg[r].revision
    <3>1. lg[r].parent \in Roots(lg, 1..r - 1)
      BY <2>1, <2>2 DEF InThread
    <3>2. 1..r - 1 \subseteq 1..i
      BY <1>1, <2>1
    <3> QED
      BY <2>2, <3>1, <3>2 DEF Roots, Patches
  <2>3. CASE ~lg[r].revision
    BY <2>3 DEF Roots
  <2> QED
    BY <2>2, <2>3
<1>6. CASE lg[i].root
  <2>1. SetRoot(lg, i) = i
    BY <1>6 DEF SetRoot
  <2>2. ProposalOf(lg, i) \in Roots(lg, 1..i)
    BY <1>3, <1>5, <1>6, <2>1 DEF ProposalOf
  <2> QED
    BY <1>3, <1>6, <2>1, <2>2
<1>7. CASE ~lg[i].root
  <2>1. /\ lg[i].parent \in Patches(lg, 1..i - 1)
        /\ lg[i].thread \in Patches(lg, 1..i - 1) /\ lg[lg[i].thread].root
        /\ lg[i].thread = SetRoot(lg, lg[i].parent)
    BY <1>2, <1>7 DEF InThread
  <2>2. lg[i].thread # 0 /\ lg[i].parent # 0
    BY <1>1, <2>1 DEF Patches
  <2>3. SetRoot(lg, i) = lg[i].thread /\ ParentOf(lg[i]) = lg[i].parent
    BY <1>7, <2>2 DEF SetRoot, ParentOf
  <2>4. ProposalOf(lg, lg[i].parent) = ProposalOf(lg, i)
    BY <2>1, <2>3 DEF ProposalOf
  <2>5. ProposalOf(lg, i) \in Roots(lg, 1..i)
    BY <1>3, <1>5, <2>1, <2>3 DEF ProposalOf
  <2> QED
    BY <1>3, <1>7, <2>1, <2>3, <2>4, <2>5
<1> QED
  BY <1>6, <1>7

\* The roots of the sets that ids has of proposal p.
SetsOf(lg, ids, p) ==
    {p} \cup {r \in Tagging(lg, ids, {p}) : lg[r].author \in Permissioned(lg, p) /\ lg[r].revision}

\* A patch belongs to a set if it is its root or tags it.
LEMMA InSet ==
    ASSUME NEW lg, WellThreaded(lg), NEW i \in Patches(lg, All(lg)),
           NEW r \in Patches(lg, All(lg)), lg[r].root
    PROVE  /\ lg[i].thread = r \/ lg[i].parent = r =>
                 IF lg[i].root THEN lg[i].revision /\ lg[i].parent = r /\ r \in Roots(lg, All(lg))
                               ELSE SetRoot(lg, i) = r
           /\ ~lg[i].root /\ SetRoot(lg, i) = r => lg[i].thread = r
<1>1. InThread(lg, i) /\ r # 0
  BY PatchTypes DEF WellThreaded
<1>2. CASE lg[i].root
  <2> SUFFICES ASSUME lg[i].thread = r \/ lg[i].parent = r
               PROVE  lg[i].revision /\ lg[i].parent = r /\ r \in Roots(lg, All(lg))
    BY <1>2
  <2>1. lg[i].parent = r /\ lg[i].revision
    BY <1>1, <1>2 DEF InThread
  <2>2. r \in Roots(lg, 1..i - 1)
    BY <1>1, <1>2, <2>1 DEF InThread
  <2> QED
    BY <1>2, <2>1, <2>2 DEF Roots
<1>3. CASE ~lg[i].root
  <2>1. SetRoot(lg, i) = lg[i].thread /\ SetRoot(lg, lg[i].parent) = lg[i].thread
    BY <1>3, RootOfSet
  <2>2. lg[i].parent = r => SetRoot(lg, lg[i].parent) = r
    BY DEF SetRoot
  <2> QED
    BY <1>3, <2>1, <2>2
<1> QED
  BY <1>2, <1>3

\* PatchesOf: the patches that ids has of the sets of p, by those who may add
\* to p, without cover letters.
LEMMA PatchesOfIs ==
    ASSUME NEW lg, WellThreaded(lg), NEW ids \in SUBSET All(lg), NEW p \in Roots(lg, ids)
    PROVE  /\ SetsOf(lg, ids, p) \subseteq Patches(lg, ids)
           /\ \A r \in SetsOf(lg, ids, p) : lg[r].root /\ (r # p => lg[r].revision /\ lg[r].parent = p)
           /\ \A i : i \in PatchesOf(lg, ids, p) <=>
                /\ i \in Patches(lg, ids)
                /\ lg[i].author \in Permissioned(lg, p)
                /\ ~IsCoverLetter(lg[i])
                /\ SetRoot(lg, i) \in SetsOf(lg, ids, p)
<1>1. /\ p \in Patches(lg, ids) /\ lg[p].root /\ ~lg[p].revision
      /\ Patches(lg, ids) \subseteq Patches(lg, All(lg))
  BY DEF Roots, Patches
<1>2. lg[p].author \in Permissioned(lg, p) /\ SetRoot(lg, p) = p
  BY <1>1 DEF Permissioned, SetRoot
<1>3. \A i \in Patches(lg, ids) : lg[i].mentions = {}
  BY <1>1 DEF WellThreaded, InThread
<1>4. \A i \in Patches(lg, ids) : \A targets :
        i \in Tagging(lg, ids, targets) <=> lg[i].thread \in targets \/ lg[i].parent \in targets
  BY <1>3 DEF Tagging
<1>5. \A r \in SetsOf(lg, ids, p) :
        r \in Patches(lg, ids) /\ lg[r].root /\ (r # p => lg[r].revision /\ lg[r].parent = p)
  <2> SUFFICES ASSUME NEW r \in SetsOf(lg, ids, p), r # p
               PROVE  r \in Patches(lg, ids) /\ lg[r].root /\ lg[r].revision /\ lg[r].parent = p
    BY <1>1
  <2>1. r \in Tagging(lg, ids, {p}) /\ lg[r].revision
    BY DEF SetsOf
  <2>2. r \in Patches(lg, ids) /\ (lg[r].thread = p \/ lg[r].parent = p)
    <3>1. r \in Patches(lg, ids)
      BY <2>1 DEF Tagging
    <3> QED
      BY <1>4, <2>1, <3>1
  <2>3. lg[r].root
    BY <1>1, <2>1, <2>2 DEF WellThreaded, InThread
  <2> QED
    BY <1>1, <2>1, <2>2, <2>3, InSet
<1> DEFINE own == {i \in {p} \cup Tagging(lg, ids, {p}) : lg[i].author \in Permissioned(lg, p)}
           revisions == {i \in own : lg[i].revision}
           sets == SetsOf(lg, ids, p)
<1>6. sets = {p} \cup revisions /\ sets \subseteq own
  BY <1>1, <1>2 DEF SetsOf
<1>7. own \cup Tagging(lg, ids, revisions) \subseteq Patches(lg, ids)
  BY <1>1 DEF Tagging
<1>8. ASSUME NEW i \in Patches(lg, ids), lg[i].author \in Permissioned(lg, p)
      PROVE  i \in own \cup Tagging(lg, ids, revisions) <=> SetRoot(lg, i) \in sets
  <2>1. CASE lg[i].root
    <3>1. SetRoot(lg, i) = i
      BY <1>1, <2>1, RootOfSet
    <3>2. ASSUME i \in Tagging(lg, ids, sets)
          PROVE  i \in sets
      <4>1. PICK r \in sets : lg[i].thread = r \/ lg[i].parent = r
        BY <1>4, <3>2
      <4>2. r \in Patches(lg, All(lg)) /\ lg[r].root
        BY <1>1, <1>5
      <4>3. lg[i].revision /\ lg[i].parent = r /\ r \in Roots(lg, All(lg))
        BY <1>1, <2>1, <4>1, <4>2, InSet
      <4>4. r = p
        BY <1>5, <4>3 DEF Roots
      <4>5. i \in Tagging(lg, ids, {p})
        BY <1>4, <4>1, <4>4
      <4> QED
        BY <1>8, <4>3, <4>5 DEF SetsOf
    <3>3. i \in own \cup Tagging(lg, ids, revisions) => i \in {p} \cup Tagging(lg, ids, sets)
      <4>1. own \subseteq {p} \cup Tagging(lg, ids, {p})
        OBVIOUS
      <4> HIDE DEF sets, own, revisions
      <4> QED
        BY <1>4, <1>6, <4>1
    <3> HIDE DEF sets, own, revisions
    <3> QED
      BY <1>6, <3>1, <3>2, <3>3
  <2>2. CASE ~lg[i].root
    <3>1. \A r \in sets : lg[i].thread = r \/ lg[i].parent = r <=> SetRoot(lg, i) = r
      <4> SUFFICES ASSUME NEW r \in sets
                   PROVE  lg[i].thread = r \/ lg[i].parent = r <=> SetRoot(lg, i) = r
        OBVIOUS
      <4>1. r \in Patches(lg, All(lg)) /\ lg[r].root
        BY <1>1, <1>5
      <4> QED
        BY <1>1, <2>2, <4>1, InSet
    <3>2. i # p
      BY <1>1, <2>2
    <3>3. i \in own \cup Tagging(lg, ids, revisions)
            <=> i \in Tagging(lg, ids, {p}) \cup Tagging(lg, ids, revisions)
      BY <1>8, <3>2
    <3>4. i \in Tagging(lg, ids, {p}) \cup Tagging(lg, ids, revisions)
            <=> \E r \in {p} \cup revisions : lg[i].thread = r \/ lg[i].parent = r
      <4> HIDE DEF revisions
      <4> QED
        BY <1>4
    <3> HIDE DEF sets, own, revisions
    <3> QED
      BY <1>6, <3>1, <3>3, <3>4
  <2> QED
    BY <2>1, <2>2
<1>9. \A i : i \in PatchesOf(lg, ids, p) <=>
        /\ i \in own \cup Tagging(lg, ids, revisions)
        /\ lg[i].author \in Permissioned(lg, p)
        /\ ~IsCoverLetter(lg[i])
  BY DEF PatchesOf
<1> QED
  BY <1>5, <1>7, <1>8, <1>9

\* A chain of what a closed part of a log has of a proposal is a line of
\* history down to the root of its set or to a cover letter.
LEMMA ChainOfHistory ==
    ASSUME NEW lg, WellThreaded(lg), NEW ids \in SUBSET All(lg),
           \A i \in Patches(lg, ids) : ~lg[i].root => lg[i].parent \in ids,
           NEW p \in Roots(lg, ids), NEW t \in PatchesOf(lg, ids, p)
    PROVE  LET chain == Chain(lg, PatchesOf(lg, ids, p), t)
           IN  /\ \A i \in 1..Len(chain) - 1 :
                    Parents(lg[chain[i]].commit) = {lg[chain[i + 1]].commit}
               /\ \/ lg[Last(chain)].root
                  \/ IsCoverLetter(lg[ParentOf(lg[Last(chain)])])
<1> DEFINE patches == PatchesOf(lg, ids, p)
           chain == Chain(lg, patches, t)
<1>1. lg \in Log /\ Patches(lg, ids) \subseteq Patches(lg, All(lg))
  BY DEF WellThreaded, Patches
<1>2. patches \subseteq Patches(lg, ids)
  BY PatchesOfIs
<1>3. ASSUME NEW i \in patches
      PROVE  /\ lg[i] \in Patch /\ i \in 1..Len(lg)
             /\ lg[i].author \in Permissioned(lg, p) /\ ~IsCoverLetter(lg[i])
             /\ SetRoot(lg, i) \in SetsOf(lg, ids, p)
             /\ InThread(lg, i)
  BY <1>1, <1>2, PatchTypes, PatchesOfIs DEF WellThreaded, All
<1>4. \A i \in patches : ProposalOf(lg, i) = p
  <2> SUFFICES ASSUME NEW i \in patches PROVE ProposalOf(lg, i) = p
    OBVIOUS
  <2> DEFINE r == SetRoot(lg, i)
  <2>1. r \in SetsOf(lg, ids, p)
    BY <1>3
  <2>2. r # p => lg[r].revision /\ lg[r].parent = p
    BY <2>1, PatchesOfIs
  <2>3. ~lg[p].revision
    BY DEF Roots
  <2> QED
    BY <2>2, <2>3 DEF ProposalOf
<1>5. ASSUME NEW i \in patches, ~lg[i].root
      PROVE  /\ ParentOf(lg[i]) = lg[i].parent /\ lg[i].parent \in 0..i - 1
             /\ lg[i].parent \in Patches(lg, ids)
             /\ SetRoot(lg, lg[i].parent) = SetRoot(lg, i)
             /\ lg[lg[i].parent].author \in Permissioned(lg, p)
             /\ NextCommit(lg, i)
             /\ lg[i].parent \in patches \/ IsCoverLetter(lg[lg[i].parent])
  <2> DEFINE q == lg[i].parent
  <2>1. /\ q \in Patches(lg, 1..i - 1) /\ ParentOf(lg[i]) = q
        /\ SetRoot(lg, q) = SetRoot(lg, i) /\ ProposalOf(lg, q) = p
    BY <1>1, <1>2, <1>4, <1>5, RootOfSet
  <2>2. q \in Patches(lg, ids) /\ q \in 0..i - 1
    BY <1>2, <1>3, <1>5, <2>1 DEF Patches
  <2>3. MayAdd(lg, i)
    BY <1>3, <1>4 DEF MayAdd
  <2>4. MayAdd(lg, q) /\ NextCommit(lg, i)
    BY <1>3, <1>5, <2>3 DEF InThread
  <2>5. lg[q].author \in Permissioned(lg, p)
    BY <2>1, <2>4 DEF MayAdd
  <2>6. q \in patches \/ IsCoverLetter(lg[q])
    BY <1>3, <2>1, <2>2, <2>5, PatchesOfIs
  <2> QED
    BY <2>1, <2>2, <2>4, <2>5, <2>6
<1>6. Backwards(lg, patches)
  BY <1>1, <1>3, <1>5, PatchTypes DEF Backwards
<1>7. /\ chain \in Seq(patches) /\ Len(chain) >= 1
      /\ \A i \in 1..Len(chain) - 1 : ~lg[chain[i]].root /\ chain[i + 1] = ParentOf(lg[chain[i]])
      /\ lg[chain[Len(chain)]].root \/ ParentOf(lg[chain[Len(chain)]]) \notin patches
  <2>1. t \in patches
    OBVIOUS
  <2> HIDE DEF patches
  <2>2. LET c == Chain(lg, patches, t)
        IN  /\ c \in Seq(patches) /\ Len(c) >= 1
            /\ \A i \in 1..Len(c) - 1 : ~lg[c[i]].root /\ c[i + 1] = ParentOf(lg[c[i]])
            /\ lg[c[Len(c)]].root \/ ParentOf(lg[c[Len(c)]]) \notin patches
    BY <1>6, <2>1, ChainIs, SMTT(60)
  <2> QED
    BY <2>2
<1> HIDE DEF chain, patches
<1>8. Last(chain) = chain[Len(chain)] /\ Last(chain) \in patches
  BY <1>7 DEF Last
<1>9. ASSUME NEW i \in 1..Len(chain) - 1
      PROVE  Parents(lg[chain[i]].commit) = {lg[chain[i + 1]].commit}
  <2>1. chain[i] \in patches /\ chain[i + 1] \in patches
    BY <1>7
  <2>2. ~lg[chain[i]].root /\ chain[i + 1] = ParentOf(lg[chain[i]])
    BY <1>7
  <2>3. NextCommit(lg, chain[i]) /\ chain[i + 1] = lg[chain[i]].parent
    BY <1>5, <2>1, <2>2
  <2>4. lg[chain[i + 1]].commit # NoCommit
    BY <1>3, <2>1 DEF IsCoverLetter, InThread
  <2> QED
    BY <2>3, <2>4 DEF NextCommit
<1>10. lg[Last(chain)].root \/ IsCoverLetter(lg[ParentOf(lg[Last(chain)])])
  BY <1>5, <1>7, <1>8
<1> QED
  BY <1>9, <1>10 DEF chain, patches

-----------------------------------------------------------------------------
(* A log grows.                                                            *)

Extends(lg2, lg) ==
    /\ lg2 \in Log /\ Len(lg) <= Len(lg2)
    /\ \A i \in All(lg) : lg2[i] = lg[i]

\* What there is stays what it was.
LEMMA OlderStay ==
    ASSUME NEW lg, WellThreaded(lg), NEW lg2, Extends(lg2, lg)
    PROVE  /\ \A S \in SUBSET All(lg) :
                Patches(lg2, S) = Patches(lg, S) /\ Roots(lg2, S) = Roots(lg, S)
           /\ \A p \in All(lg) : Permissioned(lg2, p) = Permissioned(lg, p)
           /\ \A i \in Patches(lg, All(lg)) :
                /\ SetRoot(lg2, i) = SetRoot(lg, i)
                /\ ProposalOf(lg2, i) = ProposalOf(lg, i) /\ ProposalOf(lg, i) \in All(lg)
                /\ MayAdd(lg2, i) = MayAdd(lg, i)
                /\ InThread(lg2, i)
<1>1. \A i \in All(lg) : lg2[i] = lg[i]
  BY DEF Extends
<1>2. ASSUME NEW S \in SUBSET All(lg)
      PROVE  Patches(lg2, S) = Patches(lg, S) /\ Roots(lg2, S) = Roots(lg, S)
  BY <1>1 DEF Patches, Roots
<1>3. \A p \in All(lg) : Permissioned(lg2, p) = Permissioned(lg, p)
  BY <1>1 DEF Permissioned
<1>4. ASSUME NEW i \in Patches(lg, All(lg))
      PROVE  /\ SetRoot(lg2, i) = SetRoot(lg, i)
             /\ ProposalOf(lg2, i) = ProposalOf(lg, i) /\ ProposalOf(lg, i) \in All(lg)
             /\ MayAdd(lg2, i) = MayAdd(lg, i)
  <2>1. i \in All(lg) /\ i \in Nat /\ Len(lg) \in Nat /\ 1..i \subseteq All(lg)
    BY PatchTypes DEF WellThreaded, Patches, All
  <2>2. SetRoot(lg2, i) = SetRoot(lg, i)
    BY <1>1, <2>1 DEF SetRoot
  <2>3. SetRoot(lg, i) \in All(lg) /\ ProposalOf(lg, i) \in All(lg)
    BY <2>1, RootOfSet DEF Patches, Roots
  <2>4. ProposalOf(lg2, i) = ProposalOf(lg, i)
    BY <1>1, <2>2, <2>3 DEF ProposalOf
  <2> QED
    BY <1>1, <1>3, <2>1, <2>2, <2>3, <2>4 DEF MayAdd
<1>5. ASSUME NEW i \in Patches(lg, All(lg))
      PROVE  InThread(lg2, i)
  <2>1. /\ i \in All(lg) /\ i \in Nat /\ Len(lg) \in Nat /\ 1..i - 1 \subseteq All(lg)
        /\ lg2[i] = lg[i]
    BY <1>1, PatchTypes DEF WellThreaded, Patches, All
  <2>2. InThread(lg, i)
    BY DEF WellThreaded
  <2>3. Patches(lg2, 1..i - 1) = Patches(lg, 1..i - 1) /\ Roots(lg2, 1..i - 1) = Roots(lg, 1..i - 1)
    BY <1>2, <2>1
  <2>4. MayAdd(lg2, i) = MayAdd(lg, i)
    BY <1>4
  <2>5. CASE lg[i].root
    BY <2>1, <2>2, <2>3, <2>4, <2>5 DEF InThread
  <2>6. CASE ~lg[i].root
    <3>1. lg[i].parent \in Patches(lg, All(lg)) /\ lg[i].thread \in All(lg)
      BY <2>1, <2>2, <2>6 DEF InThread, Patches
    <3>2. /\ SetRoot(lg2, lg[i].parent) = SetRoot(lg, lg[i].parent)
          /\ MayAdd(lg2, lg[i].parent) = MayAdd(lg, lg[i].parent)
          /\ lg2[lg[i].parent] = lg[lg[i].parent] /\ lg2[lg[i].thread] = lg[lg[i].thread]
      BY <1>1, <1>4, <3>1 DEF Patches
    <3>3. NextCommit(lg2, i) = NextCommit(lg, i)
      BY <2>1, <3>2 DEF NextCommit
    <3> QED
      BY <2>1, <2>2, <2>3, <2>4, <2>6, <3>2, <3>3 DEF InThread
  <2> QED
    BY <2>5, <2>6
<1> QED
  BY <1>2, <1>3, <1>4, <1>5

\* A log that grows by events that are in their threads.
LEMMA Grows ==
    ASSUME NEW lg, WellThreaded(lg), NEW lg2, Extends(lg2, lg),
           \A i \in Patches(lg2, All(lg2) \ All(lg)) : InThread(lg2, i)
    PROVE  WellThreaded(lg2)
<1>1. All(lg) \subseteq All(lg2)
  BY PatchTypes DEF Extends, WellThreaded, All
<1>2. \A i \in Patches(lg2, All(lg)) : InThread(lg2, i)
  BY OlderStay
<1> QED
  BY <1>1, <1>2 DEF WellThreaded, Extends, Patches

\* The events of a log that events were added to, all or the first n.
LEMMA Added ==
    ASSUME NEW lg \in Log, NEW events \in Log, NEW n \in 0..Len(events)
    PROVE  LET lg2 == lg \o SubSeq(events, 1, n)
           IN  /\ Extends(lg2, lg) /\ Len(lg2) = Len(lg) + n
               /\ \A i \in 1..n : lg2[Len(lg) + i] = events[i]
<1> DEFINE es == SubSeq(events, 1, n)
<1>1. Len(events) \in Nat /\ Len(lg) \in Nat /\ \A i \in 1..Len(events) : events[i] \in Patch \cup Status
  BY DEF Log
<1>2. es \in Log /\ Len(es) = n /\ \A i \in 1..n : es[i] = events[i]
  BY <1>1 DEF Log
<1> HIDE DEF es
<1>3. /\ lg \o es \in Log /\ Len(lg \o es) = Len(lg) + n
      /\ \A i \in 1..Len(lg) : (lg \o es)[i] = lg[i]
      /\ \A i \in 1..n : (lg \o es)[Len(lg) + i] = es[i]
  BY <1>1, <1>2 DEF Log
<1> QED
  BY <1>1, <1>2, <1>3 DEF Extends, All, es

-----------------------------------------------------------------------------
(* What is added.                                                          *)

NoMerges(events) == \A i \in DOMAIN events : IsPatch(events[i]) => ~IsMerge(events[i].commit)

\* The new patches of a log reply to each other, or the first to t.
Linked(lg2, lg, t) ==
    \A i \in Patches(lg2, All(lg2) \ All(lg)) :
        ~lg2[i].root => lg2[i].parent \in {t} \cup (All(lg2) \ All(lg))

\* Commits that get a patch each are those of a line.
LEMMA NoMergeAhead ==
    ASSUME NEW base \in Commits, NEW k \in Commits, NEW events,
           LET s == Ordered(Ahead(base, k))
           IN  DOMAIN events = 1..Len(s)
               /\ \A i \in 1..Len(s) : IsPatch(events[i]) /\ events[i].commit = s[i],
           NoMerges(events)
    PROVE  \A c \in Ahead(base, k) : ~IsMerge(c)
<1> DEFINE ks == Ahead(base, k)
           s == Ordered(ks)
<1>1. ks \in SUBSET Commits /\ IsFiniteSet(ks)
  BY AncestorsAssumption, PatchThreadsAssumption, FS_Subset DEF Ahead
<1>2. /\ s \in [1..Cardinality(ks) -> ks] /\ Cardinality(ks) \in Nat
      /\ \A c \in ks : \E i \in 1..Cardinality(ks) : s[i] = c
  BY <1>1, OrderedIs
<1> HIDE DEF s
<1>3. Len(s) = Cardinality(ks)
  BY <1>2
<1> SUFFICES ASSUME NEW c \in ks PROVE ~IsMerge(c)
  OBVIOUS
<1>4. PICK i \in 1..Len(s) : s[i] = c
  BY <1>2, <1>3
<1> QED
  BY <1>4 DEF NoMerges, s

\* The commits of a set of patches, in order.
LEMMA AheadOrdered ==
    ASSUME NEW base \in Commits, NEW k \in Commits
    PROVE  /\ Ordered(Ahead(base, k)) \in Seq(Commits)
           /\ Ahead(base, k) \in SUBSET Commits
<1> DEFINE ks == Ahead(base, k)
<1>1. ks \in SUBSET Commits /\ IsFiniteSet(ks)
  BY AncestorsAssumption, PatchThreadsAssumption, FS_Subset DEF Ahead
<1>2. Ordered(ks) \in [1..Cardinality(ks) -> ks] /\ Cardinality(ks) \in Nat
  BY <1>1, OrderedIs
<1> QED
  BY <1>1, <1>2

\* The events of a push are of one second.
OfOneSecond(events, at) == \A i \in 1..Len(events) : events[i].at = at

\* The events of a thread for the commits cs by user, after x events.
IsThread(events, cs, user, x, r) ==
    /\ events \in Seq(Patch) /\ Len(events) = Len(cs)
    /\ \A i \in 1..Len(cs) :
        events[i].author = user /\ events[i].mentions = {} /\ events[i].commit = cs[i]
    /\ \A i \in 2..Len(cs) :
        /\ ~events[i].root /\ ~events[i].revision
        /\ events[i].thread = r /\ events[i].parent = x + i - 1

\* The root of a proposal, or of a revision of proposal p.
IsRoot(e, p) == e.root /\ (e.revision <=> p # 0) /\ e.thread = 0 /\ e.parent = p

\* A patch set as a push makes it: a root, and a thread below it.
LEMMA SetTypes ==
    ASSUME NEW lg \in Log, NEW user \in Users, NEW at \in Nat, NEW name \in Names, NEW p \in Nat,
           NEW base \in Commits, NEW k \in Commits
    PROVE  LET cs == Ordered(Ahead(base, k))
               events == PatchSet(lg, RootEvent(user, at, name, p, {}), FALSE, Ahead(base, k))
           IN  /\ IsThread(events, cs, user, Len(lg), Len(lg) + 1)
               /\ Len(cs) >= 1 => IsRoot(events[1], p)
<1> DEFINE cs == Ordered(Ahead(base, k))
           head == RootEvent(user, at, name, p, {})
           events == PatchSet(lg, head, FALSE, Ahead(base, k))
           rest(i) == [author |-> user, at |-> at, root |-> FALSE, revision |-> FALSE,
                       thread |-> Len(lg) + 1, parent |-> Len(lg) + i - 1, mentions |-> {},
                       name |-> name, commit |-> cs[i]]
<1>1. cs \in Seq(Commits) /\ Len(lg) \in Nat
  BY AheadOrdered DEF Log
<1> HIDE DEF cs
<1>2. << >> \o cs = cs /\ Len(cs) \in Nat /\ \A i \in 1..Len(cs) : cs[i] \in CommitOrNone
  BY <1>1 DEF CommitOrNone
<1>3. events = Threaded(lg, head, cs)
  BY <1>2 DEF PatchSet, cs
<1>4. DOMAIN events = 1..Len(cs)
  BY <1>3 DEF Threaded
<1>5. /\ head \in Patch
      /\ head.author = user /\ head.mentions = {} /\ head.thread = 0 /\ head.parent = p
      /\ head.root /\ (head.revision <=> p # 0)
  BY DEF RootEvent, Patch, CommitOrNone
<1>6. \A i \in 1..Len(cs) : i # 1 => events[i] = rest(i)
  BY <1>3 DEF Threaded, RootEvent
<1> HIDE DEF head, rest
<1>7. \A i \in 1..Len(cs) : i = 1 => events[i] = [head EXCEPT !.commit = cs[1]]
  BY <1>3 DEF Threaded
<1> HIDE DEF events
<1>8. ASSUME NEW i \in 1..Len(cs), i # 1
      PROVE  /\ events[i] \in Patch /\ events[i].author = user /\ events[i].mentions = {}
             /\ events[i].commit = cs[i] /\ ~events[i].root /\ ~events[i].revision
             /\ events[i].thread = Len(lg) + 1 /\ events[i].parent = Len(lg) + i - 1
  <2>1. Len(lg) + 1 \in Nat /\ Len(lg) + i - 1 \in Nat /\ cs[i] \in CommitOrNone
    BY <1>1, <1>2
  <2>2. events[i] = rest(i)
    BY <1>6, <1>8
  <2>3. rest(i) \in Patch
    BY <2>1 DEF Patch, rest
  <2> QED
    BY <2>2, <2>3 DEF rest
<1>9. ASSUME NEW i \in 1..Len(cs), i = 1
      PROVE  /\ events[i] \in Patch /\ events[i].author = user /\ events[i].mentions = {}
             /\ events[i].commit = cs[i] /\ events[i].root /\ (events[i].revision <=> p # 0)
             /\ events[i].thread = 0 /\ events[i].parent = p
  <2>1. events[i] = [head EXCEPT !.commit = cs[1]] /\ cs[i] \in CommitOrNone
    BY <1>2, <1>7, <1>9
  <2> QED
    BY <1>5, <1>9, <2>1 DEF Patch
<1>10. ASSUME NEW i \in 1..Len(cs)
      PROVE  events[i] \in Patch /\ events[i].author = user /\ events[i].mentions = {}
             /\ events[i].commit = cs[i]
  BY <1>8, <1>9
<1>11. \A i \in 2..Len(cs) : i \in 1..Len(cs) /\ i # 1
  BY <1>2
<1>12. events \in Seq(Patch) /\ Len(events) = Len(cs)
  <2>1. events = [i \in 1..Len(cs) |-> events[i]]
    BY <1>3 DEF Threaded, events
  <2> QED
    BY <1>2, <1>10, <2>1
<1>13. IsThread(events, cs, user, Len(lg), Len(lg) + 1)
  BY <1>8, <1>10, <1>11, <1>12 DEF IsThread
<1>14. Len(cs) >= 1 => IsRoot(events[1], p)
  <2>1. Len(cs) >= 1 => 1 \in 1..Len(cs)
    BY <1>2
  <2> QED
    BY <1>9, <2>1 DEF IsRoot
<1> QED
  BY <1>13, <1>14 DEF events, head, cs

\* Patches from first on, by one account: each but the first replies to the one
\* before it, for the commit after that, in the set with root r.
Threads(lg2, first, r) ==
    \A j \in first + 1..Len(lg2) :
        /\ lg2[j].author = lg2[first].author /\ lg2[j].mentions = {}
        /\ ~lg2[j].root /\ ~lg2[j].revision
        /\ lg2[j].thread = r /\ lg2[j].parent = j - 1
        /\ lg2[j].commit \in Commits /\ Parents(lg2[j].commit) = {lg2[j - 1].commit}

\* They are in their thread if the first is.
LEMMA ThreadAdded ==
    ASSUME NEW lg, WellThreaded(lg), NEW lg2, Extends(lg2, lg),
           NEW first, first = Len(lg) + 1, NEW r,
           \A j \in first..Len(lg2) : lg2[j] \in Patch,
           Threads(lg2, first, r),
           first <= Len(lg2) =>
               /\ InThread(lg2, first) /\ MayAdd(lg2, first)
               /\ SetRoot(lg2, first) = r
               /\ r \in Patches(lg2, 1..first) /\ lg2[r].root
    PROVE  /\ WellThreaded(lg2)
           /\ \A t : (first <= Len(lg2) /\ ~lg2[first].root => lg2[first].parent = t)
                        => Linked(lg2, lg, t)
<1>1. /\ lg \in Log /\ lg2 \in Log /\ Len(lg) \in Nat /\ Len(lg2) \in Nat /\ first \in Nat \ {0}
      /\ Len(lg) <= Len(lg2)
  BY DEF WellThreaded, Extends, Log
<1>2. All(lg2) \ All(lg) = first..Len(lg2)
  BY <1>1 DEF All
<1>3. \A j \in first..Len(lg2) : IsPatch(lg2[j])
  <2>1. \A j \in first..Len(lg2) : j \in All(lg2)
    BY <1>1 DEF All
  <2> QED
    BY <1>1, <2>1, PatchTypes
<1>4. ASSUME NEW j \in first + 1..Len(lg2)
      PROVE  /\ lg2[j].author = lg2[first].author /\ lg2[j].mentions = {}
             /\ ~lg2[j].root /\ ~lg2[j].revision
             /\ lg2[j].thread = r /\ lg2[j].parent = j - 1
             /\ lg2[j].commit \in Commits /\ Parents(lg2[j].commit) = {lg2[j - 1].commit}
  BY DEF Threads
<1>5. ASSUME NEW j \in first..Len(lg2)
      PROVE  SetRoot(lg2, j) = r /\ MayAdd(lg2, j)
  <2>1. CASE j = first
    <3>1. first <= Len(lg2)
      BY <1>1, <2>1
    <3> QED
      BY <2>1, <3>1
  <2>2. CASE j # first
    <3>1. j \in first + 1..Len(lg2) /\ first <= Len(lg2)
      BY <1>1, <2>2
    <3>2. r # 0
      BY <3>1 DEF Patches
    <3>3. SetRoot(lg2, j) = r
      BY <1>4, <3>1, <3>2 DEF SetRoot
    <3>4. ProposalOf(lg2, j) = ProposalOf(lg2, first)
      BY <3>1, <3>3 DEF ProposalOf
    <3> QED
      BY <1>4, <3>1, <3>3, <3>4 DEF MayAdd
  <2> QED
    BY <2>1, <2>2
<1>6. ASSUME NEW j \in first..Len(lg2)
      PROVE  InThread(lg2, j)
  <2>1. CASE j = first
    <3>1. first <= Len(lg2)
      BY <1>1, <2>1
    <3> QED
      BY <2>1, <3>1
  <2>2. CASE j # first
    <3>1. /\ j \in first + 1..Len(lg2) /\ first <= Len(lg2) /\ j - 1 \in first..Len(lg2)
          /\ j - 1 \in 1..j - 1 /\ 1..first \subseteq 1..j - 1
      BY <1>1, <2>2
    <3>2. j - 1 \in Patches(lg2, 1..j - 1)
      BY <1>3, <3>1 DEF Patches
    <3>3. r \in Patches(lg2, 1..j - 1) /\ lg2[r].root
      BY <3>1 DEF Patches
    <3>4. SetRoot(lg2, j - 1) = r /\ MayAdd(lg2, j - 1)
      BY <1>5, <3>1
    <3>5. lg2[j].commit # NoCommit /\ NextCommit(lg2, j)
      BY <1>4, <3>1, NoCommitAssumption DEF NextCommit
    <3> QED
      BY <1>4, <3>1, <3>2, <3>3, <3>4, <3>5 DEF InThread
  <2> QED
    BY <2>1, <2>2
<1>7. WellThreaded(lg2)
  BY <1>2, <1>6, Grows DEF Patches
<1>8. ASSUME NEW t, first <= Len(lg2) /\ ~lg2[first].root => lg2[first].parent = t,
             NEW j \in first..Len(lg2), ~lg2[j].root
      PROVE  lg2[j].parent \in {t} \cup first..Len(lg2)
  <2>1. CASE j = first
    <3>1. first <= Len(lg2)
      BY <1>1, <2>1
    <3> QED
      BY <1>8, <2>1, <3>1
  <2>2. CASE j # first
    <3>1. j \in first + 1..Len(lg2) /\ j - 1 \in first..Len(lg2)
      BY <1>1, <2>2
    <3> QED
      BY <1>4, <3>1
  <2> QED
    BY <2>1, <2>2
<1> QED
  BY <1>2, <1>7, <1>8 DEF Linked, Patches

\* Commits of a line of history, each the parent of the next.
IsLine(cs) ==
    cs \in Seq(Commits) /\ \A i \in 1..Len(cs) - 1 : Parents(cs[i + 1]) = {cs[i]}

\* If there is an event at first, it is the first of those for cs.
Begins(lg2, first, events, cs) ==
    first <= Len(lg2) => lg2[first] = events[1] /\ Len(cs) >= 1

\* The events of a thread, when the first of them were added to a log.
LEMMA ThreadsAre ==
    ASSUME NEW lg \in Log, NEW events, NEW cs, IsLine(cs), NEW user, NEW r,
           IsThread(events, cs, user, Len(lg), r),
           NEW n \in 0..Len(events), NEW lg2, lg2 = lg \o SubSeq(events, 1, n)
    PROVE  /\ Extends(lg2, lg) /\ Len(lg2) = Len(lg) + n
           /\ \A j \in Len(lg) + 1..Len(lg2) : lg2[j] \in Patch
           /\ Begins(lg2, Len(lg) + 1, events, cs)
           /\ Threads(lg2, Len(lg) + 1, r)
<1>1. /\ events \in Seq(Patch) /\ Len(events) = Len(cs)
      /\ \A i \in 1..Len(cs) :
            events[i].author = user /\ events[i].mentions = {} /\ events[i].commit = cs[i]
      /\ \A i \in 2..Len(cs) :
            /\ ~events[i].root /\ ~events[i].revision
            /\ events[i].thread = r /\ events[i].parent = Len(lg) + i - 1
  BY DEF IsThread
<1>2. events \in Log
  BY <1>1 DEF Log
<1>3. /\ Extends(lg2, lg) /\ Len(lg2) = Len(lg) + n
      /\ \A i \in 1..n : lg2[Len(lg) + i] = events[i]
  BY <1>2, Added
<1>4. Len(lg) \in Nat /\ Len(cs) \in Nat /\ n \in Nat /\ n <= Len(cs)
  BY <1>1 DEF Log, IsLine
<1>5. ASSUME NEW j \in Len(lg) + 1..Len(lg2)
      PROVE  j - Len(lg) \in 1..n /\ j - Len(lg) \in 1..Len(cs) /\ lg2[j] = events[j - Len(lg)]
  <2>1. j - Len(lg) \in 1..n /\ Len(lg) + (j - Len(lg)) = j /\ j - Len(lg) \in 1..Len(cs)
    BY <1>3, <1>4
  <2> QED
    BY <1>3, <2>1
<1>6. \A j \in Len(lg) + 1..Len(lg2) : lg2[j] \in Patch
  BY <1>1, <1>5
<1>7. Len(lg) + 1 <= Len(lg2) => lg2[Len(lg) + 1] = events[1] /\ Len(cs) >= 1
  BY <1>3, <1>4
<1>8. ASSUME NEW j \in Len(lg) + 2..Len(lg2)
      PROVE  /\ lg2[j].author = lg2[Len(lg) + 1].author /\ lg2[j].mentions = {}
             /\ ~lg2[j].root /\ ~lg2[j].revision
             /\ lg2[j].thread = r /\ lg2[j].parent = j - 1
             /\ lg2[j].commit \in Commits /\ Parents(lg2[j].commit) = {lg2[j - 1].commit}
  <2> DEFINE i == j - Len(lg)
  <2>1. j \in Int /\ Len(lg) + 2 <= j /\ j <= Len(lg) + n /\ Len(lg2) = Len(lg) + n
    BY <1>3, <1>4
  <2>2. /\ j \in Len(lg) + 1..Len(lg2) /\ j - 1 \in Len(lg) + 1..Len(lg2)
        /\ (j - 1) - Len(lg) = i - 1 /\ Len(lg) + i - 1 = j - 1 /\ Len(lg) + 1 <= Len(lg2)
    BY <1>4, <2>1
  <2>3. /\ i \in 2..Len(cs) /\ i \in 1..Len(cs) /\ i - 1 \in 1..Len(cs) - 1 /\ i - 1 \in 1..Len(cs)
        /\ (i - 1) + 1 = i /\ 1 \in 1..Len(cs)
    BY <1>4, <2>1
  <2>4. lg2[j] = events[i] /\ lg2[j - 1] = events[i - 1] /\ lg2[Len(lg) + 1] = events[1]
    BY <1>5, <1>7, <2>2, <2>3
  <2> HIDE DEF i
  <2>5. Parents(cs[i]) = {cs[i - 1]} /\ cs[i] \in Commits
    <3>1. Parents(cs[(i - 1) + 1]) = {cs[i - 1]}
      BY <2>2, <2>3 DEF IsLine
    <3> QED
      BY <2>2, <2>3, <3>1 DEF IsLine
  <2> QED
    BY <1>1, <2>2, <2>3, <2>4, <2>5
<1>9. Threads(lg2, Len(lg) + 1, r)
  <2>1. (Len(lg) + 1) + 1 = Len(lg) + 2
    BY <1>4
  <2> QED
    BY <1>8, <2>1 DEF Threads
<1> QED
  BY <1>3, <1>6, <1>7, <1>9 DEF Begins

\* The commits of a thread whose events were published are a line.
LEMMA LineOfThread ==
    ASSUME NEW base \in Commits, NEW k \in Commits, NEW events, NEW user, NEW x, NEW r,
           IsThread(events, Ordered(Ahead(base, k)), user, x, r), NoMerges(events)
    PROVE  LET cs == Ordered(Ahead(base, k))
           IN  /\ IsLine(cs)
               /\ Len(cs) >= 1 /\ FastForward(base, k) => Parents(cs[1]) = {base}
<1> DEFINE cs == Ordered(Ahead(base, k))
<1>1. /\ events \in Seq(Patch) /\ Len(events) = Len(cs)
      /\ \A i \in 1..Len(cs) : events[i].commit = cs[i]
  BY DEF IsThread
<1>2. \A e \in Patch : IsPatch(e)
  BY DEF Patch, IsPatch
<1> HIDE DEF cs
<1>3. DOMAIN events = 1..Len(cs) /\ \A i \in 1..Len(cs) : IsPatch(events[i])
  <2>1. DOMAIN events = 1..Len(cs)
    BY <1>1
  <2>2. \A i \in 1..Len(cs) : events[i] \in Patch
    BY <1>1
  <2> QED
    BY <1>2, <2>1, <2>2
<1>4. \A c \in Ahead(base, k) : ~IsMerge(c)
  BY <1>1, <1>3, NoMergeAhead DEF cs
<1> QED
  BY <1>4, OrderedLine DEF IsLine

\* A new proposal, or a revision of one by somebody who may.
LEMMA SetAdded ==
    ASSUME NEW lg, WellThreaded(lg), NEW user,
           NEW p \in Nat, p # 0 => p \in Roots(lg, All(lg)) /\ user \in Permissioned(lg, p),
           NEW first, first = Len(lg) + 1,
           NEW cs, IsLine(cs), NEW events, IsThread(events, cs, user, Len(lg), first),
           Len(cs) >= 1 => IsRoot(events[1], p),
           NEW n \in 0..Len(events), NEW lg2, lg2 = lg \o SubSeq(events, 1, n)
    PROVE  WellThreaded(lg2) /\ \A t : Linked(lg2, lg, t)
<1>1. lg \in Log /\ Len(lg) \in Nat
  BY DEF WellThreaded, Log
<1>2. /\ IsThread(events, cs, user, Len(lg), first)
      /\ Len(cs) >= 1 => IsRoot(events[1], p)
  OBVIOUS
<1>3. IsLine(cs)
  OBVIOUS
<1>4. /\ Extends(lg2, lg) /\ \A j \in first..Len(lg2) : lg2[j] \in Patch
      /\ first <= Len(lg2) => lg2[first] = events[1] /\ Len(cs) >= 1
      /\ Threads(lg2, first, first)
  <2>1. Extends(lg2, lg)
    BY <1>1, ThreadsAre
  <2>2. \A j \in first..Len(lg2) : lg2[j] \in Patch
    BY <1>1, ThreadsAre
  <2>3. Threads(lg2, first, first)
    BY <1>1, ThreadsAre
  <2>4. Begins(lg2, first, events, cs)
    BY <1>1, ThreadsAre
  <2> QED
    BY <2>1, <2>2, <2>3, <2>4 DEF Begins
<1>5. Len(cs) >= 1 => events[1].author = user /\ events[1].mentions = {}
  <2>1. Len(cs) >= 1 => 1 \in 1..Len(cs)
    BY <1>3 DEF IsLine
  <2> QED
    BY <1>2, <2>1 DEF IsThread
<1>6. ASSUME first <= Len(lg2)
      PROVE  /\ InThread(lg2, first) /\ MayAdd(lg2, first)
             /\ SetRoot(lg2, first) = first
             /\ first \in Patches(lg2, 1..first) /\ lg2[first].root
  <2> DEFINE e == lg2[first]
  <2>1. /\ e.root /\ (e.revision <=> p # 0) /\ e.thread = 0 /\ e.parent = p
        /\ e.author = user /\ e.mentions = {}
    BY <1>2, <1>4, <1>5, <1>6 DEF IsRoot
  <2>2. SetRoot(lg2, first) = first
    BY <2>1 DEF SetRoot
  <2>3. first - 1 = Len(lg)
    BY <1>1
  <2>4. MayAdd(lg2, first)
    <3>1. CASE p = 0
      <4>1. ProposalOf(lg2, first) = first
        BY <2>1, <2>2, <3>1 DEF ProposalOf
      <4> QED
        BY <4>1 DEF MayAdd, Permissioned
    <3>2. CASE p # 0
      <4>1. ProposalOf(lg2, first) = p
        BY <2>1, <2>2, <3>2 DEF ProposalOf
      <4>2. Permissioned(lg2, p) = Permissioned(lg, p)
        BY <1>4, <3>2, OlderStay DEF Roots, Patches
      <4> QED
        BY <2>1, <3>2, <4>1, <4>2 DEF MayAdd
    <3> QED
      BY <3>1, <3>2
  <2>5. p # 0 => p \in Roots(lg2, 1..first - 1)
    <3>1. Roots(lg2, All(lg)) = Roots(lg, All(lg))
      BY <1>4, OlderStay
    <3>2. 1..first - 1 = All(lg)
      BY <2>3 DEF All
    <3> QED
      BY <3>1, <3>2
  <2>6. first \in Patches(lg2, 1..first)
    <3>1. lg2 \in Log /\ Len(lg2) \in Nat /\ first \in Nat \ {0}
      BY <1>1, <1>4 DEF Extends, Log
    <3>2. first \in All(lg2) /\ first \in first..Len(lg2) /\ first \in 1..first
      BY <1>6, <3>1 DEF All
    <3>3. IsPatch(lg2[first])
      BY <1>4, <3>1, <3>2, PatchTypes
    <3> QED
      BY <3>2, <3>3 DEF Patches
  <2>7. InThread(lg2, first)
    BY <2>1, <2>4, <2>5 DEF InThread
  <2> QED
    BY <2>1, <2>2, <2>4, <2>6, <2>7
<1>7. /\ WellThreaded(lg2)
      /\ \A t : (first <= Len(lg2) /\ ~lg2[first].root => lg2[first].parent = t)
                  => Linked(lg2, lg, t)
  BY <1>4, <1>6, ThreadAdded
<1> QED
  BY <1>6, <1>7

\* A reply to patch t in the set with root r.
IsReply(e, r, t) == ~e.root /\ ~e.revision /\ e.thread = r /\ e.parent = t

\* Patches on top of patch t as a push makes them: a thread in the set of t.
LEMMA AppendedTypes ==
    ASSUME NEW lg, WellThreaded(lg), NEW user \in Users, NEW at \in Nat,
           NEW t \in Patches(lg, All(lg)), NEW base \in Commits, NEW k \in Commits
    PROVE  LET cs == Ordered(Ahead(base, k))
               events == Appended(lg, user, at, t, Ahead(base, k))
           IN  /\ IsThread(events, cs, user, Len(lg), SetRoot(lg, t))
               /\ Len(cs) >= 1 => IsReply(events[1], SetRoot(lg, t), t)
<1> DEFINE cs == Ordered(Ahead(base, k))
           events == Appended(lg, user, at, t, Ahead(base, k))
           r == SetRoot(lg, t)
           made(i) == [author |-> user, at |-> at, root |-> FALSE, revision |-> FALSE,
                       thread |-> r, parent |-> IF i = 1 THEN t ELSE Len(lg) + i - 1,
                       mentions |-> {}, name |-> lg[t].name, commit |-> cs[i]]
<1>1. cs \in Seq(Commits) /\ Len(lg) \in Nat /\ lg \in Log
  BY AheadOrdered DEF WellThreaded, Log
<1>2. lg[t] \in Patch /\ t \in Nat \ {0} /\ InThread(lg, t)
  BY PatchTypes DEF WellThreaded
<1>3. (IF lg[t].thread # 0 THEN lg[t].thread ELSE t) = r
  <2>1. CASE lg[t].root
    BY <1>2, <2>1 DEF InThread, SetRoot
  <2>2. CASE ~lg[t].root
    <3>1. lg[t].thread = r /\ lg[t].thread \in Patches(lg, 1..t - 1)
      BY <1>2, <2>2, RootOfSet DEF InThread
    <3> QED
      BY <1>2, <3>1 DEF Patches
  <2> QED
    BY <2>1, <2>2
<1>4. r \in Nat /\ lg[t].name \in Names
  <2>1. r \in Patches(lg, 1..t)
    BY RootOfSet
  <2> QED
    BY <1>2, <2>1 DEF Patch, Patches
<1> HIDE DEF r
<1>5. DOMAIN events = 1..Len(cs) /\ \A i \in 1..Len(cs) : events[i] = made(i)
  BY <1>3 DEF Appended
<1>6. events = [i \in 1..Len(cs) |-> events[i]]
  BY <1>3 DEF Appended
<1> HIDE DEF cs, events, made
<1>7. Len(cs) \in Nat /\ \A i \in 1..Len(cs) : cs[i] \in CommitOrNone
  BY <1>1 DEF CommitOrNone
<1>8. ASSUME NEW i \in 1..Len(cs)
      PROVE  /\ events[i] \in Patch /\ events[i].author = user /\ events[i].mentions = {}
             /\ events[i].commit = cs[i] /\ ~events[i].root /\ ~events[i].revision
             /\ events[i].thread = r
             /\ i = 1 => events[i].parent = t
             /\ i # 1 => events[i].parent = Len(lg) + i - 1
  <2>1. Len(lg) + i - 1 \in Nat
    BY <1>1
  <2>2. (IF i = 1 THEN t ELSE Len(lg) + i - 1) \in Nat
    BY <1>2, <2>1
  <2>3. made(i) \in Patch
    BY <1>4, <1>7, <2>2 DEF made, Patch
  <2>4. events[i] = made(i)
    BY <1>5
  <2>5. /\ made(i).author = user /\ made(i).mentions = {}
        /\ made(i).commit = cs[i] /\ ~made(i).root /\ ~made(i).revision
        /\ made(i).thread = r
    BY DEF made
  <2>6. made(i).parent = IF i = 1 THEN t ELSE Len(lg) + i - 1
    BY DEF made
  <2> QED
    BY <2>3, <2>4, <2>5, <2>6
<1>9. \A i \in 2..Len(cs) : i \in 1..Len(cs) /\ i # 1
  BY <1>7
<1>10. events \in Seq(Patch) /\ Len(events) = Len(cs)
  BY <1>6, <1>7, <1>8
<1>11. IsThread(events, cs, user, Len(lg), r)
  BY <1>8, <1>9, <1>10 DEF IsThread
<1>12. Len(cs) >= 1 => IsReply(events[1], r, t)
  <2>1. Len(cs) >= 1 => 1 \in 1..Len(cs)
    BY <1>7
  <2> QED
    BY <1>8, <2>1 DEF IsReply
<1> QED
  BY <1>11, <1>12 DEF events, cs, r

\* Patches on top of patch t, which is by somebody who may add to its proposal,
\* by another.
LEMMA PatchesAdded ==
    ASSUME NEW lg, WellThreaded(lg), NEW user, NEW t \in Patches(lg, All(lg)),
           MayAdd(lg, t), user \in Permissioned(lg, ProposalOf(lg, t)),
           NEW first, first = Len(lg) + 1, NEW r, r = SetRoot(lg, t),
           NEW cs, IsLine(cs), NEW events, IsThread(events, cs, user, Len(lg), r),
           Len(cs) >= 1 => IsReply(events[1], r, t) /\ Parents(cs[1]) = {lg[t].commit},
           NEW n \in 0..Len(events), NEW lg2, lg2 = lg \o SubSeq(events, 1, n)
    PROVE  WellThreaded(lg2) /\ Linked(lg2, lg, t)
<1>1. lg \in Log /\ Len(lg) \in Nat
  BY DEF WellThreaded, Log
<1>2. /\ IsThread(events, cs, user, Len(lg), r)
      /\ Len(cs) >= 1 => IsReply(events[1], r, t) /\ Parents(cs[1]) = {lg[t].commit}
  OBVIOUS
<1>3. IsLine(cs)
  OBVIOUS
<1>4. /\ Extends(lg2, lg) /\ \A j \in first..Len(lg2) : lg2[j] \in Patch
      /\ first <= Len(lg2) => lg2[first] = events[1] /\ Len(cs) >= 1
      /\ Threads(lg2, first, r)
  <2>1. Extends(lg2, lg)
    BY <1>1, ThreadsAre
  <2>2. \A j \in first..Len(lg2) : lg2[j] \in Patch
    BY <1>1, ThreadsAre
  <2>3. Threads(lg2, first, r)
    BY <1>1, ThreadsAre
  <2>4. Begins(lg2, first, events, cs)
    BY <1>1, ThreadsAre
  <2> QED
    BY <2>1, <2>2, <2>3, <2>4 DEF Begins
<1>5. Len(cs) >= 1 => /\ events[1].author = user /\ events[1].mentions = {}
                      /\ events[1].commit = cs[1] /\ cs[1] \in Commits
  <2>1. Len(cs) >= 1 => 1 \in 1..Len(cs) /\ cs[1] \in Commits
    BY <1>3 DEF IsLine
  <2> QED
    BY <1>2, <2>1 DEF IsThread
<1>6. /\ t \in 1..Len(lg) /\ lg2[t] = lg[t] /\ t # 0
      /\ r \in Patches(lg2, 1..Len(lg)) /\ lg2[r].root /\ r # 0
      /\ t \in Patches(lg2, 1..Len(lg))
      /\ SetRoot(lg2, t) = r /\ MayAdd(lg2, t)
      /\ ProposalOf(lg2, t) = ProposalOf(lg, t)
      /\ Permissioned(lg2, ProposalOf(lg, t)) = Permissioned(lg, ProposalOf(lg, t))
  <2>1. t \in 1..Len(lg) /\ t # 0 /\ lg2[t] = lg[t] /\ 1..t \subseteq 1..Len(lg)
    BY <1>1, <1>4, PatchTypes DEF Patches, Extends, All
  <2>2. r \in Patches(lg, 1..Len(lg)) /\ lg[r].root
    BY <2>1, RootOfSet DEF Patches
  <2>3. Patches(lg2, 1..Len(lg)) = Patches(lg, 1..Len(lg))
    BY <1>4, OlderStay DEF All
  <2>4. r # 0 /\ lg2[r] = lg[r]
    BY <1>4, <2>2 DEF Patches, Extends, All
  <2>5. /\ SetRoot(lg2, t) = r /\ MayAdd(lg2, t)
        /\ ProposalOf(lg2, t) = ProposalOf(lg, t) /\ ProposalOf(lg, t) \in All(lg)
    BY <1>4, OlderStay
  <2>6. Permissioned(lg2, ProposalOf(lg, t)) = Permissioned(lg, ProposalOf(lg, t))
    BY <1>4, <2>5, OlderStay
  <2> QED
    BY <2>1, <2>2, <2>3, <2>4, <2>5, <2>6 DEF All
<1>7. ASSUME first <= Len(lg2)
      PROVE  /\ InThread(lg2, first) /\ MayAdd(lg2, first)
             /\ SetRoot(lg2, first) = r
             /\ r \in Patches(lg2, 1..first) /\ lg2[r].root
             /\ ~lg2[first].root /\ lg2[first].parent = t
  <2> DEFINE e == lg2[first]
  <2>1. /\ ~e.root /\ ~e.revision /\ e.thread = r /\ e.parent = t
        /\ e.author = user /\ e.mentions = {} /\ e.commit \in Commits
        /\ Parents(e.commit) = {lg[t].commit}
    BY <1>2, <1>4, <1>5, <1>7 DEF IsReply
  <2>2. SetRoot(lg2, first) = r
    BY <1>6, <2>1 DEF SetRoot
  <2>3. first - 1 = Len(lg) /\ 1..Len(lg) \subseteq 1..first
    BY <1>1
  <2>4. ProposalOf(lg2, first) = ProposalOf(lg2, t)
    BY <1>6, <2>2 DEF ProposalOf
  <2>5. MayAdd(lg2, first)
    BY <1>6, <2>1, <2>4 DEF MayAdd
  <2>6. NextCommit(lg2, first) /\ e.commit # NoCommit
    BY <1>6, <2>1, NoCommitAssumption DEF NextCommit
  <2>7. InThread(lg2, first)
    BY <1>6, <2>1, <2>3, <2>5, <2>6 DEF InThread
  <2>8. r \in Patches(lg2, 1..first)
    BY <1>6, <2>3 DEF Patches
  <2> QED
    BY <1>6, <2>1, <2>2, <2>5, <2>7, <2>8
<1>8. /\ WellThreaded(lg2)
      /\ \A u : (first <= Len(lg2) /\ ~lg2[first].root => lg2[first].parent = u)
                  => Linked(lg2, lg, u)
  BY <1>4, <1>7, ThreadAdded
<1> QED
  BY <1>7, <1>8

\* Statuses are not in a thread.
LEMMA StatusesAdded ==
    ASSUME NEW lg, WellThreaded(lg), NEW lg2, Extends(lg2, lg),
           \A j \in Len(lg) + 1..Len(lg2) : lg2[j] \in Status
    PROVE  WellThreaded(lg2) /\ \A t : Linked(lg2, lg, t)
<1>1. lg2 \in Log /\ Len(lg) \in Nat /\ Len(lg2) \in Nat
  BY DEF WellThreaded, Extends, Log
<1>2. All(lg2) \ All(lg) = Len(lg) + 1..Len(lg2)
  BY <1>1 DEF All
<1>3. \A e \in Status : ~IsPatch(e)
  BY DEF Status, IsPatch
<1>4. Patches(lg2, All(lg2) \ All(lg)) = {}
  BY <1>2, <1>3 DEF Patches
<1>5. WellThreaded(lg2)
  BY <1>4, Grows
<1> QED
  BY <1>4, <1>5 DEF Linked

\* One event more.
LEMMA OneAdded ==
    ASSUME NEW lg \in Log, NEW e \in Patch \cup Status, NEW lg2, lg2 = Append(lg, e)
    PROVE  Extends(lg2, lg) /\ Len(lg2) = Len(lg) + 1 /\ lg2[Len(lg) + 1] = e
  BY DEF Extends, Log, All

\* A reply by somebody who may not add to the proposal.
LEMMA StrayAdded ==
    ASSUME NEW lg, WellThreaded(lg), NEW i \in Patches(lg, All(lg)), NEW k \in Commits,
           NEW e \in Patch, e.author \notin Permissioned(lg, ProposalOf(lg, i)),
           IsReply(e, SetRoot(lg, i), i), e.mentions = {}, e.commit = k,
           NEW lg2, lg2 = Append(lg, e)
    PROVE  WellThreaded(lg2) /\ ~MayAdd(lg2, Len(lg) + 1)
<1> DEFINE first == Len(lg) + 1
           r == SetRoot(lg, i)
<1>1. Extends(lg2, lg) /\ Len(lg2) = first /\ lg2[first] = e
  BY OneAdded DEF WellThreaded
<1>2. lg2 \in Log /\ lg \in Log /\ Len(lg) \in Nat
  BY <1>1 DEF WellThreaded, Extends, Log
<1>3. /\ i \in 1..Len(lg) /\ i # 0 /\ lg2[i] = lg[i] /\ 1..i \subseteq 1..Len(lg)
  BY <1>1, <1>2, PatchTypes DEF Patches, Extends, All
<1>4. r \in Patches(lg, 1..Len(lg)) /\ lg[r].root /\ r # 0 /\ lg2[r] = lg[r]
  <2>1. r \in Patches(lg, 1..i) /\ lg[r].root
    BY RootOfSet
  <2> QED
    BY <1>1, <1>3, <2>1 DEF Patches, Extends, All
<1>5. Patches(lg2, 1..Len(lg)) = Patches(lg, 1..Len(lg))
  BY <1>1, OlderStay DEF All
<1>6. /\ SetRoot(lg2, i) = r
      /\ ProposalOf(lg2, i) = ProposalOf(lg, i) /\ ProposalOf(lg, i) \in All(lg)
  BY <1>1, OlderStay
<1>7. Permissioned(lg2, ProposalOf(lg, i)) = Permissioned(lg, ProposalOf(lg, i))
  BY <1>1, <1>6, OlderStay
<1> HIDE DEF r
<1>8. /\ ~e.root /\ ~e.revision /\ e.thread = r /\ e.parent = i /\ e.mentions = {}
      /\ e.commit # NoCommit
  BY NoCommitAssumption DEF IsReply, r
<1>9. SetRoot(lg2, first) = r
  BY <1>1, <1>4, <1>8 DEF SetRoot
<1>10. ProposalOf(lg2, first) = ProposalOf(lg2, i)
  BY <1>6, <1>9 DEF ProposalOf
<1>11. ~MayAdd(lg2, first)
  BY <1>1, <1>6, <1>7, <1>10 DEF MayAdd
<1>12. first - 1 = Len(lg)
  BY <1>2
<1>13. InThread(lg2, first)
  BY <1>1, <1>3, <1>4, <1>5, <1>6, <1>8, <1>11, <1>12 DEF InThread, Patches
<1>14. All(lg2) \ All(lg) = {first}
  BY <1>1, <1>2 DEF All
<1>15. WellThreaded(lg2)
  BY <1>1, <1>13, <1>14, Grows DEF Patches
<1> QED
  BY <1>11, <1>15

-----------------------------------------------------------------------------
(* What a clone has of a log.                                              *)

\* With each patch the one it replies to.
Closed(lg, ids) == \A i \in Patches(lg, ids) : ~lg[i].root => lg[i].parent \in ids

\* All of a log, whoever has it.
LEMMA AllClosed ==
    ASSUME NEW lg, WellThreaded(lg)
    PROVE  Closed(lg, All(lg))
<1> SUFFICES ASSUME NEW i \in Patches(lg, All(lg)), ~lg[i].root
             PROVE  lg[i].parent \in All(lg)
  BY DEF Closed
<1>1. i \in Nat \ {0} /\ i <= Len(lg) /\ Len(lg) \in Nat
  BY PatchTypes DEF WellThreaded
<1>2. lg[i].parent \in 1..i - 1
  BY RootOfSet DEF Patches
<1> QED
  BY <1>1, <1>2 DEF All

\* What another has, when the log grows.
LEMMA StaysClosed ==
    ASSUME NEW lg, WellThreaded(lg), NEW lg2, Extends(lg2, lg),
           NEW ids \in SUBSET All(lg), Closed(lg, ids)
    PROVE  ids \in SUBSET All(lg2) /\ Closed(lg2, ids)
<1>1. Len(lg) \in Nat /\ Len(lg2) \in Nat /\ Len(lg) <= Len(lg2)
  BY DEF WellThreaded, Extends, Log
<1>2. ids \in SUBSET All(lg2)
  BY <1>1 DEF All
<1>3. Patches(lg2, ids) = Patches(lg, ids)
  BY OlderStay
<1>4. \A i \in Patches(lg, ids) : lg2[i] = lg[i]
  BY DEF Patches, Extends
<1> QED
  BY <1>2, <1>3, <1>4 DEF Closed

\* What the one has who added to it, on top of what he had.
LEMMA GetsClosed ==
    ASSUME NEW lg, WellThreaded(lg), NEW lg2, Extends(lg2, lg),
           NEW ids \in SUBSET All(lg), Closed(lg, ids),
           NEW t \in ids \cup {Len(lg) + 1}, Linked(lg2, lg, t),
           NEW n \in Nat, Len(lg2) = Len(lg) + n
    PROVE  LET mine == ids \cup Len(lg) + 1..Len(lg) + n
           IN  mine \in SUBSET All(lg2) /\ Closed(lg2, mine)
<1> DEFINE new == Len(lg) + 1..Len(lg) + n
           mine == ids \cup new
<1>1. Len(lg) \in Nat /\ Len(lg2) \in Nat
  BY DEF WellThreaded, Extends, Log
<1>2. new = All(lg2) \ All(lg)
  BY <1>1 DEF All
<1>3. ids \in SUBSET All(lg2) /\ Closed(lg2, ids)
  BY StaysClosed
<1>4. ASSUME NEW i \in Patches(lg2, new), ~lg2[i].root
      PROVE  lg2[i].parent \in mine
  <2>1. lg2[i].parent \in {t} \cup new
    BY <1>2, <1>4 DEF Linked
  <2>2. Len(lg) + 1 \in new
    BY <1>1, <1>4 DEF Patches
  <2> HIDE DEF new
  <2> QED
    BY <2>1, <2>2
<1>5. mine \in SUBSET All(lg2)
  BY <1>2, <1>3
<1> HIDE DEF new
<1>6. Closed(lg2, mine)
  BY <1>3, <1>4 DEF Closed, Patches
<1> QED
  BY <1>5, <1>6 DEF new

-----------------------------------------------------------------------------
(* What may be published.                                                  *)

\* Whatever part of the events a log takes, threads stay threads, and who has
\* the events ids, and gets the new ones, has what they reply to.
MayPublish(lg, ids, events) ==
    /\ events \in Log
    /\ NoMerges(events) =>
        \A n \in 0..Len(events) : \A lg2 : lg2 = lg \o SubSeq(events, 1, n) =>
            WellThreaded(lg2) /\ \E t \in ids \cup {Len(lg) + 1} : Linked(lg2, lg, t)

\* A new proposal (p is 0), or a revision of p.
LEMMA SetMayBe ==
    ASSUME NEW lg, WellThreaded(lg), NEW ids, NEW user \in Users, NEW at \in Nat, NEW name \in Names,
           NEW p \in Nat, p # 0 => p \in Roots(lg, All(lg)) /\ user \in Permissioned(lg, p),
           NEW base \in Commits, NEW k \in Commits
    PROVE  MayPublish(lg, ids, PatchSet(lg, RootEvent(user, at, name, p, {}), FALSE, Ahead(base, k)))
<1> DEFINE cs == Ordered(Ahead(base, k))
           events == PatchSet(lg, RootEvent(user, at, name, p, {}), FALSE, Ahead(base, k))
<1>1. lg \in Log
  BY DEF WellThreaded
<1>2. /\ IsThread(events, cs, user, Len(lg), Len(lg) + 1)
      /\ Len(cs) >= 1 => IsRoot(events[1], p)
  BY <1>1, SetTypes
<1> HIDE DEF events
<1>3. NoMerges(events) => IsLine(cs)
  BY <1>2, LineOfThread
<1> HIDE DEF cs
<1>4. events \in Log
  BY <1>2 DEF IsThread, Log
<1>5. ASSUME NoMerges(events), NEW n \in 0..Len(events), NEW lg2, lg2 = lg \o SubSeq(events, 1, n)
      PROVE  WellThreaded(lg2) /\ Linked(lg2, lg, Len(lg) + 1)
  BY <1>2, <1>3, <1>5, SetAdded
<1> QED
  BY <1>4, <1>5 DEF MayPublish, events

\* Patches on top of t, by somebody who may add to the proposal.
LEMMA PatchesMayBe ==
    ASSUME NEW lg, WellThreaded(lg), NEW ids, NEW user \in Users, NEW at \in Nat,
           NEW t \in Patches(lg, All(lg)), t \in ids,
           MayAdd(lg, t), user \in Permissioned(lg, ProposalOf(lg, t)),
           lg[t].commit \in Commits, NEW k \in Commits, FastForward(lg[t].commit, k)
    PROVE  MayPublish(lg, ids, Appended(lg, user, at, t, Ahead(lg[t].commit, k)))
<1> DEFINE base == lg[t].commit
           cs == Ordered(Ahead(base, k))
           events == Appended(lg, user, at, t, Ahead(base, k))
           r == SetRoot(lg, t)
<1>1. lg \in Log
  BY DEF WellThreaded
<1>2. /\ IsThread(events, cs, user, Len(lg), r)
      /\ Len(cs) >= 1 => IsReply(events[1], r, t)
  BY AppendedTypes
<1> HIDE DEF events, r
<1>3. NoMerges(events) => IsLine(cs) /\ (Len(cs) >= 1 => Parents(cs[1]) = {base})
  BY <1>2, LineOfThread
<1> HIDE DEF cs
<1>4. events \in Log
  BY <1>2 DEF IsThread, Log
<1>5. ASSUME NoMerges(events), NEW n \in 0..Len(events), NEW lg2, lg2 = lg \o SubSeq(events, 1, n)
      PROVE  WellThreaded(lg2) /\ Linked(lg2, lg, t)
  BY <1>2, <1>3, <1>5, PatchesAdded DEF r
<1> QED
  BY <1>4, <1>5 DEF MayPublish, events

\* Statuses.
LEMMA StatusesMayBe ==
    ASSUME NEW lg, WellThreaded(lg), NEW ids, NEW events \in Seq(Status)
    PROVE  MayPublish(lg, ids, events)
<1>1. events \in Log /\ lg \in Log /\ Len(lg) \in Nat /\ Len(events) \in Nat
  BY DEF WellThreaded, Log
<1>2. ASSUME NEW n \in 0..Len(events), NEW lg2, lg2 = lg \o SubSeq(events, 1, n)
      PROVE  WellThreaded(lg2) /\ Linked(lg2, lg, Len(lg) + 1)
  <2>1. /\ Extends(lg2, lg) /\ Len(lg2) = Len(lg) + n
        /\ \A i \in 1..n : lg2[Len(lg) + i] = events[i]
    BY <1>1, <1>2, Added
  <2>2. ASSUME NEW j \in Len(lg) + 1..Len(lg2)
        PROVE  lg2[j] \in Status
    <3>1. j - Len(lg) \in 1..n /\ j - Len(lg) \in 1..Len(events) /\ Len(lg) + (j - Len(lg)) = j
      BY <1>1, <2>1
    <3> QED
      BY <2>1, <3>1
  <2> QED
    BY <2>1, <2>2, StatusesAdded
<1> QED
  BY <1>1, <1>2 DEF MayPublish

-----------------------------------------------------------------------------
(* The invariant.                                                          *)

CachesClosed == \A c \in Clones : Closed(log, cache[c])

Inv == TypeOK /\ WellThreaded(log) /\ CachesClosed

\* The shape of the rest.
RestOK ==
    /\ clock \in Nat
    /\ main \in Commits
    /\ known \in [Clones -> SUBSET Commits]
    /\ tracked \in [Clones -> Commits]
    /\ pc \in [Clones -> {"idle", "listed"}]
    /\ listed \in [Clones -> SUBSET Listing]
    /\ last \in PushReport \cup {NoPush}

CachesOK == cache \in [Clones -> SUBSET All(log)] /\ CachesClosed

LEMMA InvIs == Inv <=> RestOK /\ WellThreaded(log) /\ CachesOK
  BY DEF Inv, TypeOK, RestOK, CachesOK, WellThreaded, Log, Ids, All

LEMMA Published ==
    ASSUME WellThreaded(log), CachesOK, clock \in Nat,
           NEW c \in Clones, NEW at \in Nat,
           NEW events, MayPublish(log, cache[c], events), Publish(c, events, at)
    PROVE  /\ WellThreaded(log)' /\ CachesOK' /\ clock' \in Nat
           /\ Len(log) \in Nat /\ Len(log') \in Nat
<1>1. log \in Log /\ Len(log) \in Nat /\ events \in Log /\ Len(events) \in Nat
  BY DEF WellThreaded, Log, MayPublish
<1>2. NoMerges(events)
  BY DEF Publish, NoMerges
<1>3. PICK n \in 0..Len(events) :
        /\ log' = log \o SubSeq(events, 1, n)
        /\ cache' = [cache EXCEPT ![c] = @ \cup (Len(log) + 1)..(Len(log) + n)]
  <2> DEFINE taken == IF "relay_fault" \in Env THEN 0..Len(events) ELSE {Len(events)}
  <2>1. taken \subseteq 0..Len(events)
    BY <1>1
  <2>2. \E n \in taken :
            /\ log' = log \o SubSeq(events, 1, n)
            /\ cache' = [cache EXCEPT ![c] = @ \cup (Len(log) + 1)..(Len(log) + n)]
    BY DEF Publish
  <2> HIDE DEF taken
  <2> QED
    BY <2>1, <2>2
<1>4. n \in Nat /\ Extends(log', log) /\ Len(log') = Len(log) + n
  <2> DEFINE longer == log \o SubSeq(events, 1, n)
  <2>1. Extends(longer, log) /\ Len(longer) = Len(log) + n
    BY <1>1, Added, SMTT(60)
  <2> HIDE DEF longer
  <2>2. log' = longer
    BY <1>3 DEF longer
  <2> QED
    BY <1>1, <2>1, <2>2
<1>5. WellThreaded(log') /\ \E t \in cache[c] \cup {Len(log) + 1} : Linked(log', log, t)
  BY <1>2, <1>3 DEF MayPublish
<1>6. cache[c] \in SUBSET All(log) /\ Closed(log, cache[c])
  BY DEF CachesOK, CachesClosed
<1>7. ASSUME NEW d \in Clones
      PROVE  cache'[d] \in SUBSET All(log') /\ Closed(log', cache'[d])
  <2>1. CASE d = c
    <3>1. cache'[c] = cache[c] \cup Len(log) + 1..Len(log) + n
      BY <1>3 DEF CachesOK
    <3>2. PICK t \in cache[c] \cup {Len(log) + 1} : Linked(log', log, t)
      BY <1>5
    <3> DEFINE mine == cache[c] \cup Len(log) + 1..Len(log) + n
    <3>3. mine \in SUBSET All(log') /\ Closed(log', mine)
      BY <1>4, <1>6, <3>2, GetsClosed
    <3> QED
      BY <2>1, <3>1, <3>3
  <2>2. CASE d # c
    <3>1. cache'[d] = cache[d] /\ cache[d] \in SUBSET All(log) /\ Closed(log, cache[d])
      BY <1>3, <2>2 DEF CachesOK, CachesClosed
    <3> QED
      BY <1>4, <3>1, StaysClosed
  <2> QED
    BY <2>1, <2>2
<1>8. cache' \in [Clones -> SUBSET All(log')]
  <2>1. cache' = [d \in Clones |-> cache'[d]]
    BY <1>3 DEF CachesOK
  <2> QED
    BY <1>7, <2>1
<1>9. CachesOK'
  BY <1>7, <1>8 DEF CachesOK, CachesClosed
<1>10. clock' \in Nat
  BY DEF Publish, Later
<1> QED
  BY <1>1, <1>4, <1>5, <1>9, <1>10

\* A proposal that a part of a log shows, its name and its tips.
LEMMA OfProposal ==
    ASSUME NEW lg, WellThreaded(lg), NEW ids \in SUBSET All(lg), NEW p \in AllProposals(lg, ids)
    PROVE  /\ p \in Roots(lg, ids) /\ p \in Roots(lg, All(lg)) /\ p \in Nat \ {0}
           /\ \A user : RefOf(lg, p, user) \in Ref
           /\ \A t \in Tips(lg, PatchesOf(lg, ids, p)) :
                /\ t \in PatchesOf(lg, ids, p) /\ t \in ids /\ t \in Patches(lg, All(lg))
                /\ ProposalOf(lg, t) = p /\ MayAdd(lg, t) /\ lg[t].commit \in Commits
<1>1. p \in Roots(lg, ids) /\ p \in Roots(lg, All(lg)) /\ p \in Patches(lg, All(lg))
  BY DEF AllProposals, Roots, Patches
<1>2. p \in Nat \ {0} /\ lg[p].name \in Names
  BY <1>1, PatchTypes DEF WellThreaded, Patch
<1>3. \A user : RefOf(lg, p, user) \in Ref
  BY <1>2 DEF RefOf, Ref
<1>4. ASSUME NEW t \in PatchesOf(lg, ids, p)
      PROVE  /\ t \in ids /\ t \in Patches(lg, All(lg))
             /\ ProposalOf(lg, t) = p /\ MayAdd(lg, t) /\ lg[t].commit \in Commits
  <2> DEFINE r == SetRoot(lg, t)
  <2>1. /\ t \in Patches(lg, ids) /\ lg[t].author \in Permissioned(lg, p)
        /\ ~IsCoverLetter(lg[t]) /\ r \in SetsOf(lg, ids, p)
    BY <1>1, PatchesOfIs
  <2>2. t \in ids /\ t \in Patches(lg, All(lg))
    BY <2>1 DEF Patches
  <2>3. r # p => lg[r].revision /\ lg[r].parent = p
    BY <1>1, <2>1, PatchesOfIs
  <2>4. ProposalOf(lg, t) = p
    BY <1>1, <2>3 DEF ProposalOf, Roots
  <2>5. lg[t] \in Patch /\ InThread(lg, t)
    BY <2>2, PatchTypes DEF WellThreaded
  <2>6. lg[t].commit # NoCommit
    BY <2>1, <2>5 DEF IsCoverLetter, InThread
  <2>7. lg[t].commit \in Commits
    BY <2>5, <2>6 DEF Patch, CommitOrNone
  <2> QED
    BY <2>1, <2>2, <2>4, <2>7 DEF MayAdd
<1>5. \A S : \A t \in Tips(lg, S) : t \in S
  BY DEF Tips, Youngest
<1> QED
  BY <1>1, <1>2, <1>3, <1>4, <1>5

\* What is remembered of a push.
LEMMA Reported ==
    ASSUME NEW c \in Clones, NEW p \in Nat, NEW k \in Commits, NEW force \in BOOLEAN, NEW events,
           Len(log) \in Nat, Len(log') \in Nat
    PROVE  Report(c, p, k, force, events) \in PushReport
<1>1. Len(log) + 1..Len(log') \in SUBSET Nat
  OBVIOUS
<1>2. (Len(log') = Len(log) + Len(events)) \in BOOLEAN
  OBVIOUS
<1> QED
  BY <1>1, <1>2 DEF Report, PushReport

\* A helper ends.
LEMMA Exited ==
    ASSUME NEW c \in Clones, pc \in [Clones -> {"idle", "listed"}],
           listed \in [Clones -> SUBSET Listing], Exit(c)
    PROVE  /\ pc' \in [Clones -> {"idle", "listed"}]
           /\ listed' \in [Clones -> SUBSET Listing]
  BY DEF Exit

LEMMA ConnectKeeps ==
    ASSUME RestOK, WellThreaded(log), CachesOK, NEW c \in Clones, Connect(c)
    PROVE  RestOK' /\ WellThreaded(log)' /\ CachesOK'
<1>1. Owner \in [Clones -> Users] /\ Ancestors \in [Commits -> SUBSET Commits]
  BY ProposalsAssumption, AncestorsAssumption
<1>2. PICK ids \in {Ids} \cup (IF "relay_fault" \in Env THEN {cache[c]} ELSE {}),
           have \in {known[c] \cup Ancestors[main]} :
        \E shown \in SUBSET UNION {ListingsOf(ids, p, Owner[c], have) : p \in OpenProposals(ids)} :
            /\ \A p \in SurelyOpen(ids) : ListingsOf(ids, p, Owner[c], have) # {} =>
                 \E l \in shown : l.ref = RefOf(log, p, Owner[c])
            /\ \A l, k \in shown : l.ref = k.ref => l = k
            /\ listed' = [listed EXCEPT ![c] = shown]
            /\ cache' = [cache EXCEPT ![c] = ids]
            /\ known' = [known EXCEPT ![c] = have \cup UNION {Ancestors[l.commit] : l \in shown}]
  BY DEF Connect
<1>3. PICK shown \in SUBSET UNION {ListingsOf(ids, p, Owner[c], have) : p \in OpenProposals(ids)} :
        /\ listed' = [listed EXCEPT ![c] = shown]
        /\ cache' = [cache EXCEPT ![c] = ids]
        /\ known' = [known EXCEPT ![c] = have \cup UNION {Ancestors[l.commit] : l \in shown}]
  BY <1>2
<1>4. /\ tracked' = [tracked EXCEPT ![c] = main] /\ pc' = [pc EXCEPT ![c] = "listed"]
      /\ last' = NoPush /\ log' = log /\ clock' = clock /\ main' = main
  BY DEF Connect
<1>5. ids \in SUBSET All(log) /\ Closed(log, ids)
  <2>1. ids = Ids \/ ids = cache[c]
    BY <1>2
  <2>2. Ids = All(log) /\ Closed(log, All(log))
    BY AllClosed DEF Ids, All
  <2>3. cache[c] \in SUBSET All(log) /\ Closed(log, cache[c])
    BY DEF CachesOK, CachesClosed
  <2> QED
    BY <2>1, <2>2, <2>3
<1>6. ASSUME NEW l \in shown
      PROVE  l \in Listing /\ l.commit \in Commits
  <2>1. PICK p \in OpenProposals(ids) : l \in ListingsOf(ids, p, Owner[c], have)
    BY <1>3
  <2>2. p \in AllProposals(log, ids)
    BY DEF OpenProposals
  <2>3. PICK t \in Tips(log, PatchesOf(log, ids, p)) :
            l = [ref |-> RefOf(log, p, Owner[c]), commit |-> log[t].commit]
    BY <2>1 DEF ListingsOf
  <2>4. RefOf(log, p, Owner[c]) \in Ref /\ log[t].commit \in Commits
    BY <1>5, <2>2, OfProposal
  <2> QED
    BY <2>3, <2>4 DEF Listing
<1>7. listed' \in [Clones -> SUBSET Listing]
  BY <1>3, <1>6 DEF RestOK
<1>8. have \cup UNION {Ancestors[l.commit] : l \in shown} \in SUBSET Commits
  <2>1. have \in SUBSET Commits
    BY <1>1, <1>2 DEF RestOK
  <2>2. \A l \in shown : Ancestors[l.commit] \in SUBSET Commits
    BY <1>1, <1>6
  <2> QED
    BY <2>1, <2>2
<1>9. known' \in [Clones -> SUBSET Commits]
  <2> DEFINE has == have \cup UNION {Ancestors[l.commit] : l \in shown}
  <2>1. known' = [known EXCEPT ![c] = has] /\ has \in SUBSET Commits
    BY <1>3, <1>8
  <2> HIDE DEF has
  <2> QED
    BY <2>1 DEF RestOK
<1>10. RestOK'
  BY <1>4, <1>7, <1>9 DEF RestOK
<1>11. cache' \in [Clones -> SUBSET All(log)] /\ \A d \in Clones : Closed(log, cache'[d])
  BY <1>3, <1>5 DEF CachesOK, CachesClosed
<1>12. CachesOK'
  BY <1>4, <1>11 DEF CachesOK, CachesClosed
<1> QED
  BY <1>4, <1>10, <1>12

\* A push to a pr/ branch.
LEMMA PushKeeps ==
    ASSUME RestOK, WellThreaded(log), CachesOK, NEW c \in Clones,
           NEW ref \in Ref, NEW k \in Commits, NEW force \in BOOLEAN, Push(c, ref, k, force)
    PROVE  RestOK' /\ WellThreaded(log)' /\ CachesOK'
<1>1. /\ Owner[c] \in Users /\ Safe \in [Names -> Names] /\ ref.name \in Names
      /\ clock \in Nat /\ log \in Log
  BY ProposalsAssumption, PatchThreadsAssumption DEF RestOK, WellThreaded, Ref
<1>2. cache[c] \in SUBSET All(log) /\ tracked[c] \in Commits
  BY DEF CachesOK, RestOK
<1>3. \A at \in Dates : at \in Nat
  BY <1>1 DEF Dates
<1> DEFINE Kept == /\ WellThreaded(log)' /\ CachesOK' /\ clock' \in Nat
                   /\ last' \in PushReport \cup {NoPush}
<1>4. ASSUME NEW at \in Dates, NEW p \in Nat, NEW events,
             MayPublish(log, cache[c], events), Publish(c, events, at),
             last' = Report(c, p, k, force, events)
      PROVE  Kept
  <2>1. at \in Nat
    BY <1>3
  <2>2. /\ WellThreaded(log)' /\ CachesOK' /\ clock' \in Nat
        /\ Len(log) \in Nat /\ Len(log') \in Nat
    BY <1>1, <1>4, <2>1, Published
  <2>3. Report(c, p, k, force, events) \in PushReport
    BY <2>2, Reported
  <2> QED
    BY <1>4, <2>2, <2>3
<1>5. ASSUME NEW at \in Dates, NewProposal(c, ref, k, force, at)
      PROVE  Kept
  <2>1. \E name \in Names :
            LET events == PatchSet(log, RootEvent(Owner[c], at, Safe[name], 0, {}), FALSE,
                                   Ahead(tracked[c], k))
            IN  Publish(c, events, at) /\ last' = Report(c, Len(log) + 1, k, force, events)
    BY <1>1, <1>5 DEF NewProposal
  <2>2. PICK name \in Names :
            LET events == PatchSet(log, RootEvent(Owner[c], at, Safe[name], 0, {}), FALSE,
                                   Ahead(tracked[c], k))
            IN  Publish(c, events, at) /\ last' = Report(c, Len(log) + 1, k, force, events)
    BY <2>1
  <2> DEFINE events == PatchSet(log, RootEvent(Owner[c], at, Safe[name], 0, {}), FALSE,
                                Ahead(tracked[c], k))
  <2>3. Safe[name] \in Names /\ at \in Nat /\ Len(log) + 1 \in Nat
    BY <1>1, <1>3 DEF Log
  <2>4. MayPublish(log, cache[c], events)
    BY <1>1, <1>2, <2>3, SetMayBe
  <2>5. Publish(c, events, at) /\ last' = Report(c, Len(log) + 1, k, force, events)
    BY <2>2
  <2> HIDE DEF events
  <2> QED
    BY <1>4, <2>3, <2>4, <2>5
<1>6. ASSUME NEW p \in Found(c, ref)
      PROVE  /\ p \in AllProposals(log, cache[c]) /\ p \in Nat \ {0}
             /\ p \in Roots(log, All(log))
  BY <1>2, OfProposal DEF Found
<1>7. ASSUME NEW p \in Found(c, ref), NEW at \in Dates, Revise(c, ref, p, k, force, at)
      PROVE  Kept
  <2> DEFINE events == PatchSet(log, RootEvent(Owner[c], at, ref.name, p, {}), FALSE,
                                Ahead(tracked[c], k))
  <2>1. Publish(c, events, at) /\ last' = Report(c, p, k, force, events)
    BY <1>7 DEF Revise
  <2>2. Owner[c] \in Permissioned(log, p)
    BY <1>7 DEF Revise
  <2>3. p \in Nat /\ p \in Roots(log, All(log)) /\ at \in Nat
    BY <1>3, <1>6
  <2>4. MayPublish(log, cache[c], events)
    BY <1>1, <1>2, <2>2, <2>3, SetMayBe
  <2> HIDE DEF events
  <2> QED
    BY <1>4, <2>1, <2>3, <2>4
<1>8. ASSUME NEW p \in Found(c, ref), NEW at \in Dates, Extend(c, ref, p, k, force, at)
      PROVE  Kept
  <2>1. PICK t \in Tips(log, PatchesOf(log, cache[c], p)) :
            LET events == Appended(log, Owner[c], at, t, Ahead(log[t].commit, k))
            IN  /\ FastForward(log[t].commit, k)
                /\ Publish(c, events, at) /\ last' = Report(c, p, k, force, events)
    BY <1>8 DEF Extend
  <2> DEFINE events == Appended(log, Owner[c], at, t, Ahead(log[t].commit, k))
  <2>2. Publish(c, events, at) /\ last' = Report(c, p, k, force, events)
    BY <2>1
  <2>3. /\ t \in cache[c] /\ t \in Patches(log, All(log)) /\ ProposalOf(log, t) = p
        /\ MayAdd(log, t) /\ log[t].commit \in Commits
    BY <1>2, <1>6, OfProposal
  <2>4. Owner[c] \in Permissioned(log, ProposalOf(log, t))
    BY <1>8, <2>3 DEF Extend
  <2>5. p \in Nat /\ at \in Nat
    BY <1>3, <1>6
  <2>6. MayPublish(log, cache[c], events)
    BY <1>1, <2>1, <2>3, <2>4, <2>5, PatchesMayBe
  <2> HIDE DEF events
  <2> QED
    BY <1>4, <2>2, <2>5, <2>6
<1>9. ASSUME NEW p \in Found(c, ref), Refuse(c, p, k, force)
      PROVE  Kept
  BY <1>1, <1>9 DEF Refuse, CachesOK, CachesClosed
<1>10. Kept
  BY <1>5, <1>7, <1>8, <1>9 DEF Push
<1>11. pc' \in [Clones -> {"idle", "listed"}] /\ listed' \in [Clones -> SUBSET Listing]
  BY Exited DEF Push, RestOK
<1>12. main' \in Commits /\ tracked' \in [Clones -> Commits] /\ known' \in [Clones -> SUBSET Commits]
  BY DEF Push, RestOK
<1> QED
  BY <1>10, <1>11, <1>12 DEF RestOK

\* Each of ps has its status among the events, "applied".
Closing(events, ps) ==
    /\ \A i \in 1..Len(events) : events[i].kind = "applied"
    /\ \A p \in ps : \E i \in 1..Len(events) : events[i].of = p

\* A push to main publishes a status for each proposal that it touches.
LEMMA MergePublishes ==
    ASSUME RestOK, WellThreaded(log), CachesOK, NEW c \in Clones, NEW k \in Commits, PushMain(c, k)
    PROVE  \E ahead \in Walks(tracked[c], k), at \in Nat, events \in Seq(Status) :
              /\ Publish(c, events, at) /\ OfOneSecond(events, at)
              /\ Closing(events, Touched(cache[c], ahead))
<1>1. /\ Owner[c] \in Users /\ clock \in Nat /\ log \in Log /\ Len(log) \in Nat
      /\ cache[c] \in SUBSET All(log)
      /\ Ancestors[k] \in SUBSET Commits
  BY ProposalsAssumption, AncestorsAssumption DEF RestOK, WellThreaded, CachesOK, Log
<1>2. PICK ahead \in Walks(tracked[c], k), at \in Dates :
        \E order \in SetToSeqs(Touched(cache[c], ahead)) :
            Publish(c, [i \in 1..Len(order) |->
                MergeStatus(Owner[c], at, order[i], Counted(cache[c], order[i], ahead))], at)
  BY DEF PushMain
<1>3. PICK order \in SetToSeqs(Touched(cache[c], ahead)) :
        Publish(c, [i \in 1..Len(order) |->
            MergeStatus(Owner[c], at, order[i], Counted(cache[c], order[i], ahead))], at)
  BY <1>2
<1>4. ahead \in SUBSET Commits /\ at \in Nat
  BY <1>1 DEF Walks, Dates
<1> DEFINE touched == Touched(cache[c], ahead)
           counted(p) == Counted(cache[c], p, ahead)
           events == [i \in 1..Len(order) |-> MergeStatus(Owner[c], at, order[i], counted(order[i]))]
<1>5. touched \subseteq 1..Len(log)
  <2> SUFFICES ASSUME NEW p \in touched PROVE p \in 1..Len(log)
    OBVIOUS
  <2>1. PICK a \in ahead : \E i \in Matching(log, cache[c], a) : p = ProposalOf(log, i)
    BY DEF Touched
  <2>2. PICK i \in Matching(log, cache[c], a) : p = ProposalOf(log, i)
    BY <2>1
  <2>3. i \in Patches(log, cache[c])
    BY DEF Matching
  <2>4. i \in Patches(log, All(log)) /\ i \in Nat /\ i <= Len(log)
    BY <1>1, <2>3, PatchTypes DEF Patches
  <2>5. p \in Roots(log, 1..i)
    BY <2>2, <2>4, RootOfSet
  <2> QED
    BY <1>1, <2>4, <2>5 DEF Roots, Patches
<1>6. order \in [1..Cardinality(touched) -> touched]
  BY DEF SetToSeqs
<1> HIDE DEF touched
<1>7. IsFiniteSet(touched) /\ Cardinality(touched) \in Nat
  <2>1. IsFiniteSet(1..Len(log))
    BY <1>1, FS_Interval
  <2>2. IsFiniteSet(touched)
    BY <1>5, <2>1, FS_Subset
  <2> QED
    BY <2>2, FS_CardinalityType
<1>8. Len(order) \in Nat /\ \A i \in 1..Len(order) : order[i] \in Nat
  <2>1. Len(order) = Cardinality(touched) /\ \A i \in 1..Cardinality(touched) : order[i] \in touched
    BY <1>6, <1>7
  <2>2. \A p \in touched : p \in Nat
    BY <1>1, <1>5
  <2> QED
    BY <1>7, <2>1, <2>2
<1>9. ASSUME NEW p \in Nat
      PROVE  MergeStatus(Owner[c], at, p, counted(p)) \in Status
  <2> DEFINE cs == counted(p)
             commits == IF \E m \in cs : IsMerge(m) THEN {CHOOSE m \in cs : IsMerge(m)} ELSE cs
  <2>1. cs \in SUBSET Commits
    BY <1>4 DEF Counted
  <2> HIDE DEF cs
  <2>2. commits \in SUBSET Commits
    BY <2>1
  <2>3. MergeStatus(Owner[c], at, p, cs) =
          [author |-> Owner[c], at |-> at, kind |-> "applied", of |-> p, revision |-> 0,
           commits |-> commits]
    BY DEF MergeStatus
  <2> HIDE DEF commits
  <2> QED
    BY <1>1, <1>4, <2>2, <2>3 DEF Status, StatusKinds, cs
<1> HIDE DEF counted
<1>10. events \in Seq(Status)
  BY <1>8, <1>9
<1>11. Publish(c, events, at)
  BY <1>3 DEF counted
<1>12. OfOneSecond(events, at)
  <2>1. Len(events) = Len(order)
    BY <1>8
  <2> QED
    BY <2>1 DEF OfOneSecond, MergeStatus
<1>13. Closing(events, touched)
  <2>1. Len(events) = Len(order) /\ Len(order) = Cardinality(touched)
    BY <1>6, <1>7, <1>8
  <2>2. \A i \in 1..Len(order) : events[i].kind = "applied" /\ events[i].of = order[i]
    BY DEF MergeStatus
  <2>3. IsFiniteSet(1..Cardinality(touched)) /\ Cardinality(1..Cardinality(touched)) = Cardinality(touched)
    BY <1>7, FS_Interval
  <2>4. order \in Injection(1..Cardinality(touched), touched)
    BY <1>6 DEF Injection, IsInjective, SetToSeqs, touched
  <2>5. order \in Surjection(1..Cardinality(touched), touched)
    BY <1>7, <2>3, <2>4, FS_Injection
  <2>6. \A p \in touched : \E i \in 1..Cardinality(touched) : order[i] = p
    BY <2>5 DEF Surjection
  <2> HIDE DEF events
  <2> QED
    BY <2>1, <2>2, <2>6 DEF Closing
<1> HIDE DEF events
<1> QED
  BY <1>4, <1>10, <1>11, <1>12, <1>13 DEF touched

LEMMA MainPublishes ==
    ASSUME RestOK, WellThreaded(log), CachesOK, NEW c \in Clones, NEW k \in Commits, PushMain(c, k)
    PROVE  \E at \in Nat, events \in Seq(Status) : Publish(c, events, at) /\ OfOneSecond(events, at)
  BY MergePublishes

LEMMA MainKeeps ==
    ASSUME RestOK, WellThreaded(log), CachesOK, NEW c \in Clones, NEW k \in Commits, PushMain(c, k)
    PROVE  RestOK' /\ WellThreaded(log)' /\ CachesOK'
<1>1. PICK at \in Nat, events \in Seq(Status) : Publish(c, events, at)
  BY MainPublishes
<1>2. WellThreaded(log)' /\ CachesOK' /\ clock' \in Nat
  <2>1. MayPublish(log, cache[c], events)
    BY StatusesMayBe
  <2> QED
    BY <1>1, <2>1, Published DEF RestOK
<1>3. pc' \in [Clones -> {"idle", "listed"}] /\ listed' \in [Clones -> SUBSET Listing]
  BY Exited DEF PushMain, RestOK
<1>4. /\ main' \in Commits /\ tracked' \in [Clones -> Commits]
      /\ known' \in [Clones -> SUBSET Commits] /\ last' = NoPush
  BY DEF PushMain, RestOK
<1> QED
  BY <1>2, <1>3, <1>4 DEF RestOK

\* Patches and statuses that are not from a helper.
LEMMA PostedKeeps ==
    ASSUME RestOK, WellThreaded(log), CachesOK, NEW e \in Patch \cup Status,
           Posted(e), WellThreaded(Append(log, e))
    PROVE  RestOK' /\ WellThreaded(log)' /\ CachesOK'
<1>1. /\ log' = Append(log, e) /\ clock' = Later(e.at) /\ last' = NoPush
      /\ main' = main /\ cache' = cache /\ known' = known /\ tracked' = tracked
      /\ pc' = pc /\ listed' = listed
  BY DEF Posted, cloneVars
<1>2. Extends(log', log)
  BY <1>1, OneAdded DEF WellThreaded
<1>3. e.at \in Nat
  BY DEF Patch, Status
<1>4. RestOK'
  BY <1>1, <1>3 DEF RestOK, Later
<1>5. \A d \in Clones : cache[d] \in SUBSET All(log') /\ Closed(log', cache[d])
  BY <1>2, StaysClosed DEF CachesOK, CachesClosed
<1>6. CachesOK'
  BY <1>1, <1>5 DEF CachesOK, CachesClosed
<1> QED
  BY <1>1, <1>4, <1>6

\* What others post is a status, or a patch that does not count.
LEMMA OthersPost ==
    ASSUME RestOK, WellThreaded(log), OtherClients
    PROVE  \E e \in Patch \cup Status :
                /\ Posted(e) /\ WellThreaded(Append(log, e))
                /\ IsPatch(e) => ~MayAdd(Append(log, e), Len(log) + 1)
<1>1. clock \in Nat /\ log \in Log /\ Ids = All(log) /\ \A at \in Dates : at \in Nat
  BY DEF RestOK, WellThreaded, Ids, All, Dates
<1>2. ASSUME NEW user \in Users, NEW i \in Patches(log, Ids), NEW k \in Commits, Stray(user, i, k)
      PROVE  \E e \in Patch : /\ Posted(e) /\ WellThreaded(Append(log, e))
                              /\ ~MayAdd(Append(log, e), Len(log) + 1)
  <2>1. PICK at \in Dates :
            Posted([author |-> user, at |-> at, root |-> FALSE, revision |-> FALSE,
                    thread |-> SetRoot(log, i), parent |-> i, mentions |-> {},
                    name |-> log[i].name, commit |-> k])
    BY <1>2 DEF Stray
  <2> DEFINE e == [author |-> user, at |-> at, root |-> FALSE, revision |-> FALSE,
                   thread |-> SetRoot(log, i), parent |-> i, mentions |-> {},
                   name |-> log[i].name, commit |-> k]
  <2>2. i \in Patches(log, All(log)) /\ at \in Nat
    BY <1>1
  <2>3. i \in Nat /\ log[i].name \in Names
    BY <1>1, <2>2, PatchTypes DEF Patch
  <2>4. SetRoot(log, i) \in Nat
    BY <2>2, RootOfSet DEF Patches
  <2>5. e \in Patch
    BY <2>2, <2>3, <2>4 DEF Patch, CommitOrNone
  <2>6. IsReply(e, SetRoot(log, i), i) /\ e.mentions = {} /\ e.commit = k /\ e.author = user
    BY DEF IsReply
  <2>7. Posted(e)
    BY <2>1
  <2> HIDE DEF e
  <2>8. user \notin Permissioned(log, ProposalOf(log, i))
    BY <1>2 DEF Stray
  <2>9. WellThreaded(Append(log, e)) /\ ~MayAdd(Append(log, e), Len(log) + 1)
    BY <2>2, <2>5, <2>6, <2>8, StrayAdded
  <2> QED
    BY <2>5, <2>7, <2>9
<1>3. ASSUME NEW user \in Users, NEW p \in Roots(log, Ids), NEW kind \in {"open", "closed"},
             SetStatus(user, p, kind)
      PROVE  \E e \in Status : Posted(e) /\ WellThreaded(Append(log, e))
  <2>1. PICK at \in Dates :
            Posted([author |-> user, at |-> at, kind |-> kind, of |-> p,
                    revision |-> 0, commits |-> {}])
    BY <1>3 DEF SetStatus
  <2> DEFINE e == [author |-> user, at |-> at, kind |-> kind, of |-> p,
                   revision |-> 0, commits |-> {}]
  <2>2. p \in Nat /\ at \in Nat
    BY <1>1 DEF Roots, Patches, Ids
  <2>3. e \in Status
    BY <2>2 DEF Status, StatusKinds
  <2>4. Posted(e)
    BY <2>1
  <2> HIDE DEF e
  <2>5. WellThreaded(Append(log, e))
    <3>1. /\ Extends(Append(log, e), log) /\ Len(Append(log, e)) = Len(log) + 1
          /\ Append(log, e)[Len(log) + 1] = e
      BY <1>1, <2>3, OneAdded
    <3>2. \A j \in Len(log) + 1..Len(Append(log, e)) : Append(log, e)[j] \in Status
      BY <1>1, <2>3, <3>1 DEF Log
    <3> QED
      BY <3>1, <3>2, StatusesAdded
  <2> QED
    BY <2>3, <2>4, <2>5
<1>4. \A e \in Status : ~IsPatch(e)
  BY DEF Status, IsPatch
<1> QED
  BY <1>2, <1>3, <1>4 DEF OtherClients

LEMMA OthersKeep ==
    ASSUME RestOK, WellThreaded(log), CachesOK, OtherClients
    PROVE  RestOK' /\ WellThreaded(log)' /\ CachesOK'
  BY OthersPost, PostedKeeps

LEMMA StopKeeps ==
    ASSUME RestOK, WellThreaded(log), CachesOK, NEW c \in Clones, Stop(c)
    PROVE  RestOK' /\ WellThreaded(log)' /\ CachesOK'
<1>1. pc' \in [Clones -> {"idle", "listed"}] /\ listed' \in [Clones -> SUBSET Listing]
  BY Exited DEF Stop, RestOK
<1>2. /\ last' = NoPush /\ log' = log /\ clock' = clock /\ main' = main
      /\ cache' = cache /\ known' = known /\ tracked' = tracked
  BY DEF Stop, cloneVars
<1> QED
  BY <1>1, <1>2 DEF RestOK, CachesOK, CachesClosed

LEMMA InitKeeps == Init => Inv
<1> SUFFICES ASSUME Init PROVE Inv
  OBVIOUS
<1>1. /\ InitLog \in Seq(Patch) /\ Owner \in [Clones -> Users] /\ Root \in Commits
      /\ \A i \in DOMAIN InitLog :
            /\ InThread(InitLog, i)
            /\ ~InitLog[i].root => InitLog[i].author = InitLog[InitLog[i].parent].author
  BY ProposalsAssumption
<1>2. log = InitLog /\ cache = [c \in Clones |-> {i \in DOMAIN InitLog : InitLog[i].author = Owner[c]}]
  BY DEF Init
<1>3. Len(log) \in Nat /\ DOMAIN log = All(log) /\ log \in Log
  BY <1>1, <1>2 DEF Log, All
<1>4. WellThreaded(log)
  BY <1>1, <1>2, <1>3 DEF WellThreaded, Patches
<1>5. ASSUME NEW c \in Clones
      PROVE  Closed(log, cache[c])
  <2> SUFFICES ASSUME NEW i \in Patches(log, cache[c]), ~log[i].root
               PROVE  log[i].parent \in cache[c]
    BY DEF Closed
  <2>1. i \in DOMAIN log /\ log[i].author = Owner[c] /\ i \in Patches(log, All(log))
    BY <1>2, <1>3 DEF Patches
  <2>2. i \in Nat \ {0} /\ i <= Len(log) /\ log[i].parent \in 1..i - 1
    BY <1>3, <1>4, <2>1, PatchTypes, RootOfSet DEF Patches
  <2>3. log[i].parent \in DOMAIN log
    BY <1>3, <2>2 DEF All
  <2>4. log[log[i].parent].author = log[i].author
    BY <1>1, <1>2, <2>1
  <2> QED
    BY <1>2, <2>1, <2>3, <2>4
<1>6. cache \in [Clones -> SUBSET All(log)]
  BY <1>2, <1>3
<1>7. RestOK
  BY <1>1 DEF Init, RestOK
<1> QED
  BY <1>4, <1>5, <1>6, <1>7, InvIs DEF CachesOK, CachesClosed

LEMMA PushableRefsAre ==
    ASSUME WellThreaded(log), CachesOK, NEW c \in Clones, NEW ref \in PushableRefs(c)
    PROVE  ref \in Ref
<1>1. cache[c] \in SUBSET All(log)
  BY DEF CachesOK
<1>2. \A p \in AllProposals(log, cache[c]) : RefOf(log, p, Owner[c]) \in Ref
  BY <1>1, OfProposal
<1>3. [name : Names, id : {0}] \subseteq Ref
  BY DEF Ref
<1> QED
  BY <1>2, <1>3 DEF PushableRefs

LEMMA NextKeeps == Inv /\ [Next]_vars => Inv'
<1> SUFFICES ASSUME Inv, [Next]_vars PROVE Inv'
  OBVIOUS
<1>1. RestOK /\ WellThreaded(log) /\ CachesOK
  BY InvIs
<1> DEFINE Kept == RestOK' /\ WellThreaded(log)' /\ CachesOK'
<1>2. ASSUME UNCHANGED vars PROVE Kept
  BY <1>1, <1>2 DEF vars, cloneVars, RestOK, CachesOK, CachesClosed
<1>3. ASSUME NEW c \in Clones, HelperStep(c)
      PROVE  Kept
  <2>1. ASSUME NEW ref \in PushableRefs(c)
        PROVE  ref \in Ref
    BY <1>1, PushableRefsAre
  <2>2. CASE Connect(c)
    BY <1>1, <2>2, ConnectKeeps
  <2>3. CASE Stop(c)
    BY <1>1, <2>3, StopKeeps
  <2>4. CASE \E k \in Commits : PushMain(c, k)
    BY <1>1, <2>4, MainKeeps
  <2>5. ASSUME NEW ref \in PushableRefs(c), NEW k \in Commits, NEW force \in BOOLEAN,
               Push(c, ref, k, force)
        PROVE  Kept
    BY <1>1, <2>1, <2>5, PushKeeps
  <2>6. HelperStep(c) => \/ Connect(c) \/ Stop(c) \/ \E k \in Commits : PushMain(c, k)
                         \/ \E ref \in PushableRefs(c), k \in Commits, force \in BOOLEAN :
                                Push(c, ref, k, force)
    BY DEF HelperStep
  <2> QED
    BY <1>3, <2>2, <2>3, <2>4, <2>5, <2>6
<1>4. ASSUME OtherClients PROVE Kept
  BY <1>1, <1>4, OthersKeep
<1>5. Kept
  BY <1>2, <1>3, <1>4 DEF Next
<1>6. (RestOK /\ WellThreaded(log) /\ CachesOK)' => Inv'
  BY <1>5 DEF Inv, TypeOK, RestOK, CachesOK, WellThreaded, Log, Ids, All
<1> QED
  BY <1>5, <1>6

\* Types, in all environments: whatever overlaps, fails or is posted by others.
THEOREM TypeCorrect == Spec => []TypeOK
<1>1. Inv => TypeOK
  BY DEF Inv
<1> QED
  BY InitKeeps, NextKeeps, <1>1, PTL DEF Spec

\* Every patch is in its thread.
THEOREM ThreadsHold == Spec => [](WellThreaded(log) /\ CachesClosed)
<1>1. Inv => WellThreaded(log) /\ CachesClosed
  BY DEF Inv
<1> QED
  BY InitKeeps, NextKeeps, <1>1, PTL DEF Spec

\* A branch that is rebuilt from whatever a clone has of a proposal's events is
\* a line of commits, down to the root of its set or to the cover letter: the
\* reading loop of get_most_recent_patch_with_ancestors never skips or joins
\* commits, however pushes, revisions and strangers' patches mix.
THEOREM ChainsAreHistory == Spec => []ChainIsHistory
<1>1. Inv => ChainIsHistory
  <2> SUFFICES ASSUME Inv, NEW c \in Clones, NEW p \in AllProposals(log, cache[c]),
                      NEW t \in Tips(log, PatchesOf(log, cache[c], p))
               PROVE  LET chain == Chain(log, PatchesOf(log, cache[c], p), t)
                      IN  /\ \A i \in 1..Len(chain) - 1 :
                                Parents(log[chain[i]].commit) = {log[chain[i + 1]].commit}
                          /\ \/ log[Last(chain)].root
                             \/ IsCoverLetter(log[ParentOf(log[Last(chain)])])
    BY DEF ChainIsHistory
  <2>1. WellThreaded(log) /\ cache[c] \in SUBSET All(log) /\ Closed(log, cache[c])
    BY InvIs DEF CachesOK, CachesClosed
  <2>2. p \in Roots(log, cache[c]) /\ t \in PatchesOf(log, cache[c], p)
    BY <2>1, OfProposal
  <2>3. \A i \in Patches(log, cache[c]) : ~log[i].root => log[i].parent \in cache[c]
    BY <2>1 DEF Closed
  <2> QED
    BY <2>1, <2>2, <2>3, ChainOfHistory
<1> QED
  BY InitKeeps, NextKeeps, <1>1, PTL DEF Spec

-----------------------------------------------------------------------------
(* Dates.                                                                  *)

\* Patch q is the youngest that ids has of its set, of those that count: what
\* get_most_recent_patch_with_ancestors takes for a tip of the set.
SeenYoungest(lg, ids, q) ==
    /\ q \in ids /\ Closed(lg, ids)
    /\ \A i \in Patches(lg, ids) :
          SetRoot(lg, i) = SetRoot(lg, q) /\ MayAdd(lg, i) /\ ~IsCoverLetter(lg[i])
              => lg[i].at <= lg[q].at

\* Patch j is of the second of the patch it replies to, or somebody saw that as
\* the youngest of its set.
Follows(lg, j) ==
    LET q == lg[j].parent
    IN  lg[j].at = lg[q].at \/ \E ids \in SUBSET All(lg) : SeenYoungest(lg, ids, q)

\* Each patch that counts does, whatever the clocks.
Dated(lg) ==
    \A j \in Patches(lg, All(lg)) : ~lg[j].root /\ MayAdd(lg, j) => Follows(lg, j)

\* It still does when the log grows.
LEMMA StaysSeen ==
    ASSUME NEW lg, WellThreaded(lg), NEW lg2, Extends(lg2, lg),
           NEW ids \in SUBSET All(lg), NEW q \in Patches(lg, All(lg)), SeenYoungest(lg, ids, q)
    PROVE  ids \in SUBSET All(lg2) /\ SeenYoungest(lg2, ids, q)
<1>1. ids \in SUBSET All(lg2) /\ Closed(lg2, ids)
  BY StaysClosed DEF SeenYoungest
<1>2. \A i \in All(lg) : lg2[i] = lg[i]
  BY DEF Extends
<1>3. Patches(lg2, ids) = Patches(lg, ids) /\ Patches(lg, ids) \subseteq Patches(lg, All(lg))
  BY OlderStay DEF Patches
<1>4. \A i \in Patches(lg, All(lg)) : SetRoot(lg2, i) = SetRoot(lg, i) /\ MayAdd(lg2, i) = MayAdd(lg, i)
  BY OlderStay
<1>5. ASSUME NEW i \in Patches(lg2, ids), SetRoot(lg2, i) = SetRoot(lg2, q),
             MayAdd(lg2, i), ~IsCoverLetter(lg2[i])
      PROVE  lg2[i].at <= lg2[q].at
  <2>1. i \in Patches(lg, ids) /\ lg2[i] = lg[i] /\ lg2[q] = lg[q]
    BY <1>2, <1>3 DEF Patches
  <2>2. SetRoot(lg, i) = SetRoot(lg, q) /\ MayAdd(lg, i)
    BY <1>3, <1>4, <1>5, <2>1
  <2> QED
    BY <1>5, <2>1, <2>2 DEF SeenYoungest
<1>6. q \in ids
  BY DEF SeenYoungest
<1> QED
  BY <1>1, <1>5, <1>6 DEF SeenYoungest

LEMMA StaysDated ==
    ASSUME NEW lg, WellThreaded(lg), Dated(lg), NEW lg2, Extends(lg2, lg),
           \A j \in Patches(lg2, All(lg2) \ All(lg)) :
              ~lg2[j].root /\ MayAdd(lg2, j) => Follows(lg2, j)
    PROVE  Dated(lg2)
<1> SUFFICES ASSUME NEW j \in Patches(lg2, All(lg2)), ~lg2[j].root, MayAdd(lg2, j)
             PROVE  Follows(lg2, j)
  BY DEF Dated
<1>1. CASE j \notin All(lg)
  BY <1>1 DEF Patches
<1>2. CASE j \in All(lg)
  <2>1. j \in Patches(lg, All(lg)) /\ lg2[j] = lg[j]
    <3>1. Patches(lg2, All(lg)) = Patches(lg, All(lg))
      BY OlderStay
    <3> QED
      BY <1>2, <3>1 DEF Patches, Extends
  <2>2. MayAdd(lg, j)
    BY <2>1, OlderStay
  <2>3. Follows(lg, j)
    BY <2>1, <2>2 DEF Dated
  <2> DEFINE q == lg[j].parent
  <2>4. q \in Patches(lg, All(lg)) /\ lg2[q] = lg[q]
    <3>1. j \in Nat \ {0} /\ j <= Len(lg) /\ Len(lg) \in Nat
      BY <2>1, PatchTypes DEF WellThreaded
    <3>2. q \in Patches(lg, 1..j - 1)
      BY <2>1, RootOfSet
    <3> QED
      BY <3>1, <3>2 DEF Patches, All, Extends
  <2> QED
    BY <2>1, <2>3, <2>4, StaysSeen DEF Follows
<1> QED
  BY <1>1, <1>2

LEMMA SetDates ==
    ASSUME NEW lg, NEW user \in Users, NEW at \in Nat, NEW name \in Names, NEW p \in Nat,
           NEW base \in Commits, NEW k \in Commits
    PROVE  OfOneSecond(PatchSet(lg, RootEvent(user, at, name, p, {}), FALSE, Ahead(base, k)), at)
<1> DEFINE cs == Ordered(Ahead(base, k))
           head == RootEvent(user, at, name, p, {})
           events == PatchSet(lg, head, FALSE, Ahead(base, k))
<1>1. cs \in Seq(Commits)
  BY AheadOrdered
<1> HIDE DEF cs
<1>2. << >> \o cs = cs /\ Len(cs) \in Nat
  BY <1>1
<1>3. events = Threaded(lg, head, cs)
  BY <1>2 DEF PatchSet, cs
<1>4. head \in Patch /\ head.at = at
  BY DEF RootEvent, Patch, CommitOrNone
<1> HIDE DEF head, events
<1>5. Len(events) = Len(cs)
  <2>1. events = [i \in 1..Len(cs) |-> events[i]]
    BY <1>3 DEF Threaded
  <2> QED
    BY <1>2, <2>1
<1>6. ASSUME NEW i \in 1..Len(cs)
      PROVE  events[i].at = at
  <2>1. CASE i = 1
    <3>1. events[i] = [head EXCEPT !.commit = cs[1]]
      BY <1>3, <2>1 DEF Threaded
    <3> QED
      BY <1>4, <3>1 DEF Patch
  <2>2. CASE i # 1
    <3>1. events[i] = [head EXCEPT !.root = FALSE, !.revision = FALSE, !.thread = Len(lg) + 1,
                                   !.parent = Len(lg) + i - 1, !.mentions = {}, !.commit = cs[i]]
      BY <1>3, <1>6, <2>2 DEF Threaded
    <3> QED
      BY <1>4, <3>1 DEF Patch
  <2> QED
    BY <2>1, <2>2
<1>7. OfOneSecond(events, at)
  BY <1>5, <1>6 DEF OfOneSecond
<1> QED
  BY <1>7 DEF events, head

LEMMA AppendedDates ==
    ASSUME NEW lg, NEW user, NEW at, NEW t, NEW base \in Commits, NEW k \in Commits
    PROVE  OfOneSecond(Appended(lg, user, at, t, Ahead(base, k)), at)
<1> DEFINE cs == Ordered(Ahead(base, k))
           events == Appended(lg, user, at, t, Ahead(base, k))
<1>1. cs \in Seq(Commits)
  BY AheadOrdered
<1> HIDE DEF cs
<1>2. DOMAIN events = 1..Len(cs) /\ Len(cs) \in Nat
  BY <1>1 DEF Appended, cs
<1>3. Len(events) = Len(cs)
  BY <1>1, <1>2 DEF Appended, cs
<1>4. ASSUME NEW i \in 1..Len(cs)
      PROVE  events[i].at = at
  BY <1>4 DEF Appended, cs
<1> HIDE DEF events
<1>5. OfOneSecond(events, at)
  BY <1>3, <1>4 DEF OfOneSecond
<1> QED
  BY <1>5 DEF events

\* What a push adds is dated if the first of it replies to a patch that
\* somebody saw as the youngest of its set.
LEMMA AddedDated ==
    ASSUME NEW lg, WellThreaded(lg), Dated(lg), NEW events \in Log, NEW at, OfOneSecond(events, at),
           NEW n \in 0..Len(events), NEW lg2, lg2 = lg \o SubSeq(events, 1, n), WellThreaded(lg2),
           NEW t, Linked(lg2, lg, t),
           \/ t = Len(lg) + 1
           \/ /\ t \in Patches(lg, All(lg))
              /\ \E ids \in SUBSET All(lg) : SeenYoungest(lg, ids, t)
    PROVE  Dated(lg2)
<1>1. lg \in Log /\ Len(lg) \in Nat /\ Len(events) \in Nat
  BY DEF WellThreaded, Log
<1>2. /\ Extends(lg2, lg) /\ Len(lg2) = Len(lg) + n
      /\ \A i \in 1..n : lg2[Len(lg) + i] = events[i]
  BY <1>1, Added
<1>3. All(lg2) \ All(lg) = Len(lg) + 1..Len(lg2)
  BY <1>1, <1>2 DEF All
<1>4. ASSUME NEW j \in All(lg2) \ All(lg)
      PROVE  lg2[j].at = at
  <2>1. j - Len(lg) \in 1..n /\ j - Len(lg) \in 1..Len(events) /\ Len(lg) + (j - Len(lg)) = j
    BY <1>1, <1>2, <1>3
  <2> QED
    BY <1>2, <2>1 DEF OfOneSecond
<1>5. ASSUME NEW j \in Patches(lg2, All(lg2) \ All(lg)), ~lg2[j].root
      PROVE  Follows(lg2, j)
  <2> DEFINE q == lg2[j].parent
  <2>1. q \in {t} \cup (All(lg2) \ All(lg)) /\ j \in All(lg2) \ All(lg)
    BY <1>5 DEF Linked, Patches
  <2>2. CASE q \in All(lg2) \ All(lg)
    BY <1>4, <2>1, <2>2 DEF Follows
  <2>3. CASE q \notin All(lg2) \ All(lg)
    <3>1. q = t /\ t # Len(lg) + 1
      BY <1>1, <1>2, <1>3, <2>1, <2>3
    <3>2. PICK ids \in SUBSET All(lg) : SeenYoungest(lg, ids, t)
      BY <3>1
    <3>3. ids \in SUBSET All(lg2) /\ SeenYoungest(lg2, ids, t)
      BY <1>2, <3>1, <3>2, StaysSeen
    <3> QED
      BY <3>1, <3>3 DEF Follows
  <2> QED
    BY <2>2, <2>3
<1> QED
  BY <1>2, <1>5, StaysDated

\* The youngest that a closed part of a log has of a proposal is that of its set.
LEMMA TipSeen ==
    ASSUME NEW lg, WellThreaded(lg), NEW ids \in SUBSET All(lg), Closed(lg, ids),
           NEW p \in Roots(lg, ids), NEW t \in Tips(lg, PatchesOf(lg, ids, p))
    PROVE  SeenYoungest(lg, ids, t)
<1> DEFINE patches == PatchesOf(lg, ids, p)
<1>1. t \in patches /\ \A j \in patches : lg[j].at <= lg[t].at
  BY DEF Tips, Youngest
<1> HIDE DEF patches
<1>2. /\ t \in Patches(lg, ids) /\ SetRoot(lg, t) \in SetsOf(lg, ids, p)
  BY <1>1, PatchesOfIs DEF patches
<1>3. ASSUME NEW i \in Patches(lg, ids), SetRoot(lg, i) = SetRoot(lg, t),
             MayAdd(lg, i), ~IsCoverLetter(lg[i])
      PROVE  lg[i].at <= lg[t].at
  <2> DEFINE r == SetRoot(lg, i)
  <2>1. r \in SetsOf(lg, ids, p) /\ (r # p => lg[r].revision /\ lg[r].parent = p)
    BY <1>2, <1>3, PatchesOfIs
  <2>2. ProposalOf(lg, i) = p
    BY <2>1 DEF ProposalOf, Roots
  <2>3. lg[i].author \in Permissioned(lg, p)
    BY <1>3, <2>2 DEF MayAdd
  <2>4. i \in patches
    BY <1>3, <2>1, <2>3, PatchesOfIs DEF patches
  <2> QED
    BY <1>1, <2>4
<1>4. t \in ids
  BY <1>2 DEF Patches
<1> QED
  BY <1>3, <1>4 DEF SeenYoungest

\* A patch that counts for p.
LEMMA OfPatches ==
    ASSUME NEW lg, WellThreaded(lg), NEW ids \in SUBSET All(lg), NEW p \in Roots(lg, ids),
           NEW i \in PatchesOf(lg, ids, p)
    PROVE  /\ i \in ids /\ i \in Patches(lg, All(lg)) /\ i \in 1..Len(lg) /\ lg[i] \in Patch
           /\ ProposalOf(lg, i) = p /\ MayAdd(lg, i) /\ ~IsCoverLetter(lg[i])
<1> DEFINE r == SetRoot(lg, i)
<1>1. /\ i \in Patches(lg, ids) /\ lg[i].author \in Permissioned(lg, p)
      /\ ~IsCoverLetter(lg[i]) /\ r \in SetsOf(lg, ids, p)
  BY PatchesOfIs
<1>2. r # p => lg[r].revision /\ lg[r].parent = p
  BY <1>1, PatchesOfIs
<1>3. ProposalOf(lg, i) = p
  BY <1>2 DEF ProposalOf, Roots
<1>4. i \in ids /\ i \in Patches(lg, All(lg)) /\ i \in 1..Len(lg)
  BY <1>1 DEF Patches, All
<1>5. lg[i] \in Patch
  BY <1>4, PatchTypes DEF WellThreaded
<1> QED
  BY <1>1, <1>3, <1>4, <1>5 DEF MayAdd

LEMMA PatchesBackwards ==
    ASSUME NEW lg, WellThreaded(lg), NEW ids \in SUBSET All(lg), NEW p \in Roots(lg, ids)
    PROVE  /\ Backwards(lg, PatchesOf(lg, ids, p))
           /\ \A i \in PatchesOf(lg, ids, p) : ~lg[i].root =>
                ParentOf(lg[i]) = lg[i].parent /\ lg[i].parent \in 0..i - 1
<1> DEFINE patches == PatchesOf(lg, ids, p)
<1>1. \A i \in patches : i \in Patches(lg, All(lg)) /\ i \in 1..Len(lg)
  BY OfPatches
<1>2. ASSUME NEW i \in patches, ~lg[i].root
      PROVE  ParentOf(lg[i]) = lg[i].parent /\ lg[i].parent \in 0..i - 1
  <2>1. ParentOf(lg[i]) = lg[i].parent /\ lg[i].parent \in Patches(lg, 1..i - 1)
    BY <1>1, <1>2, RootOfSet
  <2> QED
    BY <2>1 DEF Patches
<1>3. Len(lg) \in Nat
  BY DEF WellThreaded, Log
<1> HIDE DEF patches
<1>4. Backwards(lg, patches)
  BY <1>1, <1>2, <1>3 DEF Backwards
<1> QED
  BY <1>2, <1>4 DEF patches

\* Who has a patch of a chain has those below it, which are of its set.
LEMMA AlongChain ==
    ASSUME NEW lg, WellThreaded(lg), NEW seen, Closed(lg, seen),
           NEW c \in Seq(Patches(lg, All(lg))),
           \A i \in 1..Len(c) - 1 : ~lg[c[i]].root /\ c[i + 1] = lg[c[i]].parent,
           NEW x \in 1..Len(c), c[x] \in seen, NEW y \in x..Len(c)
    PROVE  c[y] \in seen /\ SetRoot(lg, c[y]) = SetRoot(lg, c[x])
<1> DEFINE Good(z) == c[z] \in seen /\ SetRoot(lg, c[z]) = SetRoot(lg, c[x])
           bad == {z \in x..Len(c) : ~Good(z)}
<1> SUFFICES ASSUME bad # {} PROVE FALSE
  OBVIOUS
<1>1. Len(c) \in Nat /\ \A i \in 1..Len(c) : c[i] \in Patches(lg, All(lg))
  OBVIOUS
<1>2. bad \in SUBSET Nat
  BY <1>1
<1>3. PICK z \in bad : \A y2 \in bad : z <= y2
  <2> HIDE DEF bad
  <2> QED
    BY <1>2, Smallest
<1>4. z # x /\ z \in x..Len(c)
  OBVIOUS
<1>5. z - 1 \in x..Len(c) /\ z - 1 \in 1..Len(c) - 1 /\ (z - 1) + 1 = z /\ z - 1 \in 1..Len(c)
  BY <1>1, <1>4
<1>6. Good(z - 1)
  <2>1. z - 1 \notin bad
    <3> HIDE DEF bad
    <3> QED
      BY <1>1, <1>3, <1>4
  <2> HIDE DEF Good
  <2> QED
    BY <1>5, <2>1
<1>7. ~lg[c[z - 1]].root /\ c[z] = lg[c[z - 1]].parent /\ c[z - 1] \in Patches(lg, All(lg))
  BY <1>1, <1>5
<1>8. c[z] \in seen
  <2>1. c[z - 1] \in Patches(lg, seen)
    BY <1>6, <1>7 DEF Patches
  <2> QED
    BY <1>7, <2>1 DEF Closed
<1>9. SetRoot(lg, c[z]) = SetRoot(lg, c[z - 1])
  BY <1>7, RootOfSet
<1>10. Good(z)
  BY <1>6, <1>8, <1>9
<1> QED
  BY <1>10

\* Patch i is older than patch newest, or of the same second and below it.
Below(lg, i, newest, patches) ==
    \/ lg[i].at < lg[newest].at
    \/ lg[i].at = lg[newest].at /\ i \in Range(Chain(lg, patches, newest))

\* If that is so, everything between them is of that second too: otherwise
\* somebody replied to a patch who saw a younger one of its set.
LEMMA SameSecondBetween ==
    ASSUME NEW lg, WellThreaded(lg), Dated(lg), NEW ids \in SUBSET All(lg), NEW p \in Roots(lg, ids),
           NEW newest \in PatchesOf(lg, ids, p),
           \A i \in PatchesOf(lg, ids, p) : lg[i].at <= lg[newest].at,
           NEW u \in Range(Chain(lg, PatchesOf(lg, ids, p), newest)),
           u # newest, lg[u].at = lg[newest].at
    PROVE  \E j \in PatchesOf(lg, ids, p) : lg[j].at = lg[newest].at /\ ParentOf(lg[j]) = u
<1> DEFINE patches == PatchesOf(lg, ids, p)
           c == Chain(lg, patches, newest)
<1>1. /\ Backwards(lg, patches)
      /\ \A i \in patches : ~lg[i].root =>
            ParentOf(lg[i]) = lg[i].parent /\ lg[i].parent \in 0..i - 1
  BY PatchesBackwards
<1>2. \A i \in patches :
        /\ i \in Patches(lg, All(lg)) /\ lg[i] \in Patch
        /\ MayAdd(lg, i) /\ ~IsCoverLetter(lg[i])
  BY OfPatches
<1>3. newest \in patches /\ \A i \in patches : lg[i].at <= lg[newest].at
  OBVIOUS
<1> HIDE DEF patches
<1>4. /\ c \in Seq(patches) /\ Len(c) >= 1 /\ c[1] = newest
      /\ \A i \in 1..Len(c) - 1 : ~lg[c[i]].root /\ c[i + 1] = ParentOf(lg[c[i]])
  BY <1>1, <1>3, ChainIs, SMTT(60)
<1>5. u \in Range(c)
  BY DEF patches
<1> HIDE DEF c
<1>6. PICK m \in 1..Len(c) : u = c[m]
  BY <1>4, <1>5 DEF Range
<1>7. /\ Len(c) \in Nat /\ m # 1
      /\ \A i \in 1..Len(c) : c[i] \in patches /\ lg[c[i]].at \in Nat
  BY <1>2, <1>4, <1>6 DEF Patch
<1>8. /\ c \in Seq(Patches(lg, All(lg)))
      /\ \A i \in 1..Len(c) - 1 : ~lg[c[i]].root /\ c[i + 1] = lg[c[i]].parent
  BY <1>1, <1>2, <1>4, <1>7
<1> DEFINE at == lg[newest].at
           others == {i \in 1..m - 1 : lg[c[i]].at # at}
<1>9. CASE others = {}
  <2>1. m - 1 \in 1..m - 1 /\ m - 1 \in 1..Len(c) - 1 /\ (m - 1) + 1 = m /\ m - 1 \in 1..Len(c)
    BY <1>6, <1>7
  <2>2. lg[c[m - 1]].at = at
    BY <1>9, <2>1
  <2> QED
    BY <1>4, <1>6, <1>7, <2>1, <2>2 DEF patches
<1>10. CASE others # {}
  <2>1. PICK x \in others : \A y \in others : x <= y
    <3>1. others \in SUBSET Nat
      BY <1>6, <1>7
    <3> HIDE DEF others
    <3> QED
      BY <1>10, <3>1, Smallest
  <2>2. x # 1 /\ x \in 1..m - 1 /\ lg[c[x]].at # at
    BY <1>4
  <2>3. /\ x - 1 \in 1..m - 1 /\ x - 1 \in 1..Len(c) - 1 /\ (x - 1) + 1 = x
        /\ x - 1 \in 1..Len(c) /\ x \in 1..Len(c) /\ m \in x..Len(c)
    BY <1>6, <1>7, <2>2
  <2>4. lg[c[x - 1]].at = at
    <3>1. x - 1 \notin others
      <4> HIDE DEF others
      <4> QED
        BY <2>1, <2>2, <2>3, <1>6, <1>7
    <3> QED
      BY <2>3, <3>1
  <2> DEFINE j == c[x - 1]
  <2>5. j \in patches /\ ~lg[j].root /\ c[x] = lg[j].parent
    BY <1>7, <1>8, <2>3
  <2>6. Follows(lg, j)
    BY <1>2, <2>5 DEF Dated
  <2>7. PICK seen \in SUBSET All(lg) : SeenYoungest(lg, seen, c[x])
    BY <2>2, <2>4, <2>5, <2>6 DEF Follows
  <2>8. u \in seen /\ SetRoot(lg, u) = SetRoot(lg, c[x])
    BY <1>6, <1>8, <2>3, <2>7, AlongChain DEF SeenYoungest
  <2>9. lg[u].at <= lg[c[x]].at
    <3>1. u \in Patches(lg, seen) /\ MayAdd(lg, u) /\ ~IsCoverLetter(lg[u])
      BY <1>2, <1>6, <1>7, <2>8 DEF Patches
    <3> QED
      BY <2>7, <2>8, <3>1 DEF SeenYoungest
  <2>10. lg[c[x]].at <= at /\ lg[c[x]].at \in Nat /\ at \in Nat
    BY <1>2, <1>3, <1>7, <2>3 DEF Patch
  <2> QED
    BY <2>2, <2>9, <2>10
<1> QED
  BY <1>9, <1>10

\* A branch ends with the patches of a push if each reply to the one before and
\* what else counts is older or below them.
LEMMA EndsWithPush ==
    ASSUME NEW lg, WellThreaded(lg), Dated(lg), NEW ids \in SUBSET All(lg), NEW p \in Roots(lg, ids),
           NEW first \in Nat \ {0}, first <= Len(lg), NEW at,
           \A u \in first..Len(lg) : u \in PatchesOf(lg, ids, p) /\ lg[u].at = at,
           \A u \in first + 1..Len(lg) : ~lg[u].root /\ lg[u].parent = u - 1,
           \A i \in PatchesOf(lg, ids, p) \ (first..Len(lg)) :
                Below(lg, i, Len(lg), PatchesOf(lg, ids, p))
    PROVE  Tips(lg, PatchesOf(lg, ids, p)) = {Len(lg)}
<1> DEFINE patches == PatchesOf(lg, ids, p)
           new == first..Len(lg)
           newest == Len(lg)
<1>1. /\ Backwards(lg, patches)
      /\ \A i \in patches : ~lg[i].root =>
            ParentOf(lg[i]) = lg[i].parent /\ lg[i].parent \in 0..i - 1
  BY PatchesBackwards
<1>2. \A i \in patches : i \in Patches(lg, All(lg)) /\ i \in 1..Len(lg) /\ lg[i] \in Patch
  BY OfPatches
<1>3. newest \in Nat /\ newest \in new
  BY DEF WellThreaded, Log
<1>4. newest \in patches /\ lg[newest].at = at /\ at \in Nat
  BY <1>2, <1>3 DEF Patch
<1>5. \A i \in patches : lg[i].at <= lg[newest].at
  BY <1>2, <1>4 DEF Below, Patch
<1>6. Youngest(lg, patches) = {i \in patches : lg[i].at = lg[newest].at}
  BY <1>2, <1>4, <1>5 DEF Youngest, Patch
\* A root has no parent there.
<1>7. \A i \in patches : ParentOf(lg[i]) # newest
  <2> SUFFICES ASSUME NEW i \in patches PROVE ParentOf(lg[i]) # newest
    OBVIOUS
  <2>1. i \in 1..newest
    BY <1>2
  <2>2. CASE ~lg[i].root
    BY <1>1, <1>3, <2>1, <2>2
  <2>3. CASE lg[i].root
    <3>1. InThread(lg, i)
      BY <1>2 DEF WellThreaded
    <3>2. lg[i].thread = 0 /\ (lg[i].parent # 0 => lg[i].parent \in 1..i - 1)
      BY <2>3, <3>1 DEF InThread, Roots, Patches
    <3> QED
      BY <1>3, <2>1, <3>2 DEF ParentOf
  <2> QED
    BY <2>2, <2>3
<1>8. newest \in Tips(lg, patches)
  BY <1>4, <1>6, <1>7 DEF Tips
<1>9. ASSUME NEW u \in Tips(lg, patches), u # newest
      PROVE  FALSE
  <2>1. u \in patches /\ lg[u].at = lg[newest].at
    BY <1>6 DEF Tips
  <2>2. \A j \in patches : lg[j].at = lg[newest].at => ParentOf(lg[j]) # u
    BY <1>6 DEF Tips
  <2>3. CASE u \in new
    <3>1. u + 1 \in first + 1..Len(lg) /\ u + 1 \in new /\ (u + 1) - 1 = u
      BY <1>3, <1>9, <2>3
    <3>2. u + 1 \in patches /\ lg[u + 1].at = lg[newest].at
      BY <1>4, <3>1
    <3>3. ParentOf(lg[u + 1]) = u
      BY <1>1, <3>1, <3>2
    <3> QED
      BY <2>2, <3>2, <3>3
  <2>4. CASE u \notin new
    <3>1. lg[u].at \in Nat
      BY <1>2, <2>1 DEF Patch
    <3>2. Below(lg, u, newest, patches)
      BY <2>1, <2>4
    <3>3. u \in Range(Chain(lg, patches, newest))
      BY <2>1, <3>1, <3>2 DEF Below
    <3>4. \E j \in patches : lg[j].at = lg[newest].at /\ ParentOf(lg[j]) = u
      BY <1>4, <1>5, <1>9, <2>1, <3>3, SameSecondBetween
    <3> QED
      BY <2>2, <3>4
  <2> QED
    BY <2>3, <2>4
<1> QED
  BY <1>8, <1>9

-----------------------------------------------------------------------------
(* What a push leaves.                                                     *)

\* The last commit of a set is the one that was pushed.
LEMMA LastAhead ==
    ASSUME NEW base \in Commits, NEW k \in Commits, Len(Ordered(Ahead(base, k))) >= 1
    PROVE  LET cs == Ordered(Ahead(base, k)) IN cs[Len(cs)] = k
<1> DEFINE ks == Ahead(base, k)
           cs == Ordered(ks)
           n == Cardinality(ks)
<1>1. ks \in SUBSET Commits /\ IsFiniteSet(ks)
  BY AncestorsAssumption, PatchThreadsAssumption, FS_Subset DEF Ahead
<1>2. /\ cs \in [1..n -> ks] /\ n \in Nat
      /\ \A i, j \in 1..n : i < j => cs[j] \notin Ancestors[cs[i]]
      /\ \A x \in ks : \E i \in 1..n : cs[i] = x
  BY <1>1, OrderedIs
<1>3. Len(cs) >= 1
  OBVIOUS
<1> HIDE DEF cs, n
<1>4. Len(cs) = n
  BY <1>2
<1>5. n \in 1..n /\ cs[n] \in ks
  BY <1>2, <1>3, <1>4
<1>6. k \in ks
  BY <1>5, AncestorsAssumption DEF Ahead
<1>7. PICK i \in 1..n : cs[i] = k
  BY <1>2, <1>6
<1>8. i = n
  <2>1. cs[n] \in Ancestors[k]
    BY <1>5 DEF Ahead
  <2> QED
    BY <1>2, <1>5, <1>7, <2>1
<1> QED
  BY <1>4, <1>7, <1>8 DEF cs

\* What ids has of proposal p ends with a thread from first on, of one second,
\* up to commit k.
EndsWith(lg, ids, p, first, at, k) ==
    /\ p \in Roots(lg, ids)
    /\ \A u \in first..Len(lg) : u \in PatchesOf(lg, ids, p) /\ lg[u].at = at
    /\ \A u \in first + 1..Len(lg) : ~lg[u].root /\ lg[u].parent = u - 1
    /\ lg[Len(lg)].commit = k

\* So it does when the thread is one of a set of p, by somebody who may add to p.
LEMMA ThreadCounts ==
    ASSUME NEW lg, WellThreaded(lg), NEW cs, IsLine(cs), Len(cs) >= 1, NEW user, NEW r, NEW events,
           IsThread(events, cs, user, Len(lg), r), NEW at, OfOneSecond(events, at),
           NEW n, n = Len(events), NEW lg2, lg2 = lg \o SubSeq(events, 1, n), WellThreaded(lg2),
           NEW first, first = Len(lg) + 1, r # 0, SetRoot(lg2, first) = r,
           NEW ids \in SUBSET All(lg2), first..Len(lg2) \subseteq ids,
           NEW p \in Roots(lg2, ids), r \in SetsOf(lg2, ids, p), user \in Permissioned(lg2, p)
    PROVE  first <= Len(lg2) /\ EndsWith(lg2, ids, p, first, at, cs[Len(cs)])
<1>1. lg \in Log /\ Len(lg) \in Nat /\ lg2 \in Log /\ Len(lg2) \in Nat
  BY DEF WellThreaded, Log
<1>2. /\ events \in Log /\ Len(events) = Len(cs) /\ Len(cs) \in Nat
      /\ \A i \in 1..Len(cs) : events[i] \in Patch /\ events[i].author = user /\ events[i].commit = cs[i]
  BY DEF IsThread, IsLine, Log
<1>3. n \in 0..Len(events) /\ n = Len(cs)
  BY <1>2
<1>4. /\ Extends(lg2, lg) /\ Len(lg2) = Len(lg) + n
      /\ \A i \in 1..n : lg2[Len(lg) + i] = events[i]
  BY <1>1, <1>2, <1>3, Added
<1>5. ASSUME NEW u \in first..Len(lg2)
      PROVE  /\ u - Len(lg) \in 1..Len(cs) /\ lg2[u] = events[u - Len(lg)] /\ u \in ids
  <2>1. u - Len(lg) \in 1..n /\ Len(lg) + (u - Len(lg)) = u
    BY <1>1, <1>4
  <2> QED
    BY <1>3, <1>4, <2>1
<1>6. first <= Len(lg2) /\ Len(lg2) \in first..Len(lg2) /\ Len(lg2) - Len(lg) = Len(cs)
  BY <1>1, <1>2, <1>3, <1>4
<1>7. ASSUME NEW u \in first + 1..Len(lg2)
      PROVE  /\ ~lg2[u].root /\ lg2[u].parent = u - 1 /\ lg2[u].thread = r
             /\ u \in first..Len(lg2)
  <2> DEFINE i == u - Len(lg)
  <2>1. i \in 2..Len(cs) /\ Len(lg) + i - 1 = u - 1 /\ u \in first..Len(lg2)
    BY <1>1, <1>2, <1>3, <1>4
  <2>2. lg2[u] = events[i]
    BY <1>5, <2>1
  <2> HIDE DEF i
  <2>3. ~events[i].root /\ events[i].thread = r /\ events[i].parent = Len(lg) + i - 1
    BY <2>1 DEF IsThread
  <2> QED
    BY <2>1, <2>2, <2>3
<1> DEFINE patches == PatchesOf(lg2, ids, p)
<1>0. \A i : i \in patches <=>
        /\ i \in Patches(lg2, ids)
        /\ lg2[i].author \in Permissioned(lg2, p)
        /\ ~IsCoverLetter(lg2[i])
        /\ SetRoot(lg2, i) \in SetsOf(lg2, ids, p)
  BY PatchesOfIs
<1> HIDE DEF patches
<1>8. ASSUME NEW u \in first..Len(lg2)
      PROVE  u \in PatchesOf(lg2, ids, p) /\ lg2[u].at = at
  <2>1. /\ lg2[u] \in Patch /\ lg2[u].author = user /\ lg2[u].commit \in Commits /\ u \in ids
        /\ lg2[u].at = at
    BY <1>2, <1>5 DEF IsLine, OfOneSecond
  <2>2. ~IsCoverLetter(lg2[u])
    BY <2>1, NoCommitAssumption DEF IsCoverLetter
  <2>3. u \in Patches(lg2, ids)
    BY <2>1, <1>1, PatchTypes DEF Patches
  <2>4. SetRoot(lg2, u) = r
    <3>1. CASE u = first
      BY <3>1
    <3>2. CASE u # first
      <4>1. u \in first + 1..Len(lg2)
        BY <1>1, <3>2
      <4> QED
        BY <1>7, <4>1 DEF SetRoot
    <3> QED
      BY <3>1, <3>2
  <2>5. lg2[u].author \in Permissioned(lg2, p) /\ SetRoot(lg2, u) \in SetsOf(lg2, ids, p)
    BY <2>1, <2>4
  <2>6. u \in patches
    BY <1>0, <2>2, <2>3, <2>5
  <2> QED
    BY <2>1, <2>6 DEF patches
<1>9. lg2[Len(lg2)].commit = cs[Len(cs)]
  BY <1>2, <1>5, <1>6
<1> QED
  BY <1>6, <1>7, <1>8, <1>9 DEF EndsWith

\* What somebody has of a proposal is still of it when the log grows and he gets more.
LEMMA SetsGrow ==
    ASSUME NEW lg, WellThreaded(lg), NEW lg2, Extends(lg2, lg), NEW ids \in SUBSET All(lg),
           NEW ids2 \in SUBSET All(lg2), ids \subseteq ids2, NEW p \in Roots(lg, ids)
    PROVE  /\ p \in Roots(lg2, ids2) /\ Permissioned(lg2, p) = Permissioned(lg, p)
           /\ SetsOf(lg, ids, p) \subseteq SetsOf(lg2, ids2, p)
<1>1. /\ Patches(lg2, ids) = Patches(lg, ids) /\ Roots(lg2, ids) = Roots(lg, ids)
      /\ \A i \in All(lg) : lg2[i] = lg[i]
  BY OlderStay DEF Extends
<1>2. p \in All(lg) /\ p \in Roots(lg2, ids2)
  BY <1>1 DEF Roots, Patches
<1>3. Permissioned(lg2, p) = Permissioned(lg, p)
  BY <1>2, OlderStay
<1>4. ASSUME NEW r \in Tagging(lg, ids, {p}), lg[r].author \in Permissioned(lg, p), lg[r].revision
      PROVE  r \in SetsOf(lg2, ids2, p)
  <2>1. r \in Patches(lg, ids) /\ lg2[r] = lg[r]
    BY <1>1 DEF Tagging, Patches
  <2>2. r \in Patches(lg2, ids2)
    BY <1>1, <2>1 DEF Patches
  <2>3. r \in Tagging(lg2, ids2, {p})
    BY <2>1, <2>2 DEF Tagging
  <2> QED
    BY <1>3, <1>4, <2>1, <2>3 DEF SetsOf
<1>5. SetsOf(lg, ids, p) \subseteq SetsOf(lg2, ids2, p)
  BY <1>4 DEF SetsOf
<1> QED
  BY <1>2, <1>3, <1>5

\* What a log and a cache are after events were published.
LEMMA PublishedIs ==
    ASSUME WellThreaded(log), CachesOK, NEW c \in Clones, NEW at, NEW events \in Log,
           Publish(c, events, at)
    PROVE  /\ NoMerges(events)
           /\ \E n \in 0..Len(events) :
                /\ log' = log \o SubSeq(events, 1, n)
                /\ Extends(log', log) /\ Len(log') = Len(log) + n
                /\ cache'[c] = cache[c] \cup Len(log) + 1..Len(log')
<1>1. log \in Log /\ Len(log) \in Nat /\ Len(events) \in Nat
  BY DEF WellThreaded, Log
<1>2. NoMerges(events)
  BY DEF Publish, NoMerges
<1>3. PICK n \in 0..Len(events) :
        /\ log' = log \o SubSeq(events, 1, n)
        /\ cache' = [cache EXCEPT ![c] = @ \cup (Len(log) + 1)..(Len(log) + n)]
  <2> DEFINE taken == IF "relay_fault" \in Env THEN 0..Len(events) ELSE {Len(events)}
  <2>1. taken \subseteq 0..Len(events)
    BY <1>1
  <2>2. \E n \in taken :
            /\ log' = log \o SubSeq(events, 1, n)
            /\ cache' = [cache EXCEPT ![c] = @ \cup (Len(log) + 1)..(Len(log) + n)]
    BY DEF Publish
  <2> HIDE DEF taken
  <2> QED
    BY <2>1, <2>2
<1>4. Extends(log', log) /\ Len(log') = Len(log) + n
  <2> DEFINE longer == log \o SubSeq(events, 1, n)
  <2>1. Extends(longer, log) /\ Len(longer) = Len(log) + n
    BY <1>1, Added, SMTT(60)
  <2> HIDE DEF longer
  <2>2. log' = longer
    BY <1>3 DEF longer
  <2> QED
    BY <1>1, <2>1, <2>2
<1>5. cache'[c] = cache[c] \cup Len(log) + 1..Len(log')
  BY <1>3, <1>4 DEF CachesOK
<1> QED
  BY <1>2, <1>3, <1>4, <1>5

\* What was reported of a push is how the pusher's cache ends.
Shown ==
    last # NoPush /\ last.complete /\ last.new # {} =>
        \E first \in Nat \ {0}, at \in Nat :
            /\ first <= Len(log) /\ last.new = first..Len(log)
            /\ EndsWith(log, cache[last.clone], last.proposal, first, at, last.commit)

\* A new proposal, or a revision of q.
LEMMA SetShows ==
    ASSUME WellThreaded(log), CachesOK, Dated(log), WellThreaded(log'), CachesOK',
           NEW c \in Clones, NEW at \in Nat, NEW q \in Nat,
           q # 0 => q \in Roots(log, cache[c]) /\ Owner[c] \in Permissioned(log, q),
           NEW base \in Commits, NEW k \in Commits, NEW force, NEW p,
           p = IF q = 0 THEN Len(log) + 1 ELSE q, NEW events,
           IsThread(events, Ordered(Ahead(base, k)), Owner[c], Len(log), Len(log) + 1),
           Len(Ordered(Ahead(base, k))) >= 1 => IsRoot(events[1], q),
           OfOneSecond(events, at),
           Publish(c, events, at), last' = Report(c, p, k, force, events)
    PROVE  Dated(log') /\ Shown'
<1> DEFINE cs == Ordered(Ahead(base, k))
           first == Len(log) + 1
           user == Owner[c]
           ids == cache'[c]
<1>1. log \in Log /\ Len(log) \in Nat
  BY DEF WellThreaded, Log
<1>2. IsThread(events, cs, user, Len(log), first)
  OBVIOUS
<1>3. Len(cs) >= 1 => IsRoot(events[1], q)
  OBVIOUS
<1>4. OfOneSecond(events, at)
  OBVIOUS
<1>5. events \in Log
  BY <1>2 DEF IsThread, Log
<1>6. NoMerges(events)
  BY <1>5, PublishedIs
<1>7. PICK n \in 0..Len(events) :
        /\ log' = log \o SubSeq(events, 1, n)
        /\ Extends(log', log) /\ Len(log') = Len(log) + n
        /\ ids = cache[c] \cup first..Len(log')
  BY <1>5, PublishedIs
<1>8. IsLine(cs)
  BY <1>2, <1>6, LineOfThread
<1>9. q # 0 => q \in Roots(log, All(log))
  <2>1. cache[c] \in SUBSET All(log)
    BY DEF CachesOK
  <2> QED
    BY <2>1 DEF Roots, Patches
<1>10. Linked(log', log, first)
  BY <1>2, <1>3, <1>7, <1>8, <1>9, SetAdded
<1>11. Dated(log')
  BY <1>4, <1>5, <1>7, <1>10, AddedDated
<1>12. ASSUME last'.complete, last'.new # {}
       PROVE  EndsWith(log', ids, p, first, at, k) /\ first <= Len(log')
  <2>1. n = Len(events) /\ n >= 1 /\ Len(events) = Len(cs) /\ Len(events) \in Nat
    <3>1. (last'.complete <=> Len(log') = Len(log) + Len(events)) /\ last'.new = first..Len(log')
      BY DEF Report
    <3>2. Len(events) = Len(cs) /\ Len(events) \in Nat
      BY <1>2, <1>5 DEF IsThread, Log
    <3> QED
      BY <1>1, <1>7, <1>12, <3>1, <3>2
  <2>2. /\ log'[first] = events[1] /\ first \in first..Len(log') /\ first \in ids /\ first # 0
        /\ first \in All(log')
    <3>1. Begins(log', first, events, cs)
      BY <1>1, <1>2, <1>7, <1>8, ThreadsAre
    <3> QED
      BY <1>1, <1>7, <2>1, <3>1 DEF Begins, All
  <2>3. /\ events[1].root /\ (events[1].revision <=> q # 0)
        /\ events[1].thread = 0 /\ events[1].parent = q
    BY <1>3, <2>1 DEF IsRoot
  <2>4. events[1].author = user /\ events[1] \in Patch
    BY <1>2, <2>1 DEF IsThread
  <2>5. SetRoot(log', first) = first
    BY <2>2, <2>3 DEF SetRoot
  <2>6. ids \in SUBSET All(log') /\ first..Len(log') \subseteq ids
    BY <1>7 DEF CachesOK
  <2>7. first \in Patches(log', ids)
    <3>1. log' \in Log
      BY DEF WellThreaded
    <3>2. IsPatch(log'[first])
      BY <2>2, <2>4, <3>1, PatchTypes
    <3> QED
      BY <2>2, <3>2 DEF Patches
  <2>8. p \in Roots(log', ids) /\ first \in SetsOf(log', ids, p) /\ user \in Permissioned(log', p)
    <3>1. CASE q = 0
      <4>1. p = first
        BY <3>1
      <4> QED
        BY <2>2, <2>3, <2>4, <2>7, <3>1, <4>1 DEF Roots, SetsOf, Permissioned
    <3>2. CASE q # 0
      <4>1. cache[c] \in SUBSET All(log) /\ cache[c] \subseteq ids /\ p = q
        BY <1>7, <3>2 DEF CachesOK
      <4>2. p \in Roots(log', ids) /\ Permissioned(log', p) = Permissioned(log, p)
        BY <1>7, <2>6, <3>2, <4>1, SetsGrow
      <4>3. first \in Tagging(log', ids, {p})
        BY <2>2, <2>3, <2>7, <4>1 DEF Tagging
      <4> QED
        BY <2>2, <2>3, <2>4, <3>2, <4>1, <4>2, <4>3 DEF SetsOf
    <3> QED
      BY <3>1, <3>2
  <2>9. first <= Len(log') /\ EndsWith(log', ids, p, first, at, cs[Len(cs)])
    BY <1>2, <1>4, <1>7, <1>8, <2>1, <2>2, <2>5, <2>6, <2>8, ThreadCounts
  <2>10. cs[Len(cs)] = k
    BY <2>1, LastAhead
  <2> QED
    BY <2>9, <2>10
<1>13. Shown'
  <2>1. /\ last'.clone = c /\ last'.proposal = p /\ last'.commit = k
        /\ last'.new = first..Len(log')
    BY DEF Report
  <2>2. first \in Nat \ {0}
    BY <1>1
  <2> HIDE DEF first
  <2> QED
    BY <1>12, <2>1, <2>2 DEF Shown
<1> QED
  BY <1>11, <1>13

\* Patches on top of a tip of what the pusher's cache has of p.
LEMMA PatchesShow ==
    ASSUME WellThreaded(log), CachesOK, Dated(log), WellThreaded(log'), CachesOK',
           NEW c \in Clones, NEW at \in Nat,
           NEW p \in AllProposals(log, cache[c]), Owner[c] \in Permissioned(log, p),
           NEW t \in Tips(log, PatchesOf(log, cache[c], p)),
           NEW k \in Commits, FastForward(log[t].commit, k), NEW force, NEW events,
           IsThread(events, Ordered(Ahead(log[t].commit, k)), Owner[c], Len(log), SetRoot(log, t)),
           Len(Ordered(Ahead(log[t].commit, k))) >= 1 => IsReply(events[1], SetRoot(log, t), t),
           OfOneSecond(events, at),
           Publish(c, events, at), last' = Report(c, p, k, force, events)
    PROVE  Dated(log') /\ Shown'
<1> DEFINE base == log[t].commit
           cs == Ordered(Ahead(base, k))
           first == Len(log) + 1
           user == Owner[c]
           ids == cache'[c]
           r == SetRoot(log, t)
<1>1. log \in Log /\ Len(log) \in Nat /\ cache[c] \in SUBSET All(log) /\ Closed(log, cache[c])
  BY DEF WellThreaded, Log, CachesOK, CachesClosed
<1>2. /\ p \in Roots(log, cache[c]) /\ p \in Nat \ {0}
      /\ t \in PatchesOf(log, cache[c], p) /\ t \in cache[c] /\ t \in Patches(log, All(log))
      /\ ProposalOf(log, t) = p /\ MayAdd(log, t) /\ base \in Commits
  BY <1>1, OfProposal
<1>3. IsThread(events, cs, user, Len(log), r)
  OBVIOUS
<1>4. Len(cs) >= 1 => IsReply(events[1], r, t)
  OBVIOUS
<1>5. OfOneSecond(events, at)
  OBVIOUS
<1>6. events \in Log
  BY <1>3 DEF IsThread, Log
<1>7. NoMerges(events)
  BY <1>6, PublishedIs
<1>8. PICK n \in 0..Len(events) :
        /\ log' = log \o SubSeq(events, 1, n)
        /\ Extends(log', log) /\ Len(log') = Len(log) + n
        /\ ids = cache[c] \cup first..Len(log')
  BY <1>6, PublishedIs
<1>9. IsLine(cs) /\ (Len(cs) >= 1 => Parents(cs[1]) = {base})
  BY <1>2, <1>3, <1>7, LineOfThread
<1> HIDE DEF cs
<1>10. Linked(log', log, t)
  BY <1>2, <1>3, <1>4, <1>8, <1>9, PatchesAdded
<1>11. Dated(log')
  <2>1. SeenYoungest(log, cache[c], t)
    BY <1>1, <1>2, TipSeen
  <2> QED
    BY <1>1, <1>2, <1>5, <1>6, <1>8, <1>10, <2>1, AddedDated
<1>12. ASSUME last'.complete, last'.new # {}
       PROVE  EndsWith(log', ids, p, first, at, k) /\ first <= Len(log')
  <2>1. n = Len(events) /\ n >= 1 /\ Len(events) = Len(cs) /\ Len(events) \in Nat
    <3>1. (last'.complete <=> Len(log') = Len(log) + Len(events)) /\ last'.new = first..Len(log')
      BY DEF Report
    <3>2. Len(events) = Len(cs) /\ Len(events) \in Nat
      BY <1>3, <1>6 DEF IsThread, Log
    <3> QED
      BY <1>1, <1>8, <1>12, <3>1, <3>2
  <2>2. log'[first] = events[1]
    <3>1. Begins(log', first, events, cs)
      BY <1>1, <1>3, <1>8, <1>9, ThreadsAre
    <3> QED
      BY <1>1, <1>8, <2>1, <3>1 DEF Begins
  <2>3. ~events[1].root /\ events[1].thread = r
    BY <1>4, <2>1 DEF IsReply
  <2>4. r # 0
    BY <1>2, RootOfSet DEF Patches
  <2>5. SetRoot(log', first) = r
    BY <2>2, <2>3, <2>4 DEF SetRoot
  <2>6. ids \in SUBSET All(log') /\ first..Len(log') \subseteq ids /\ cache[c] \subseteq ids
    BY <1>8 DEF CachesOK
  <2>7. r \in SetsOf(log, cache[c], p)
    BY <1>1, <1>2, PatchesOfIs
  <2>8. p \in Roots(log', ids) /\ r \in SetsOf(log', ids, p) /\ user \in Permissioned(log', p)
    <3>1. /\ Extends(log', log) /\ cache[c] \in SUBSET All(log) /\ p \in Roots(log, cache[c])
          /\ ids \in SUBSET All(log') /\ cache[c] \subseteq ids
      BY <1>1, <1>2, <1>8, <2>6
    <3> HIDE DEF ids
    <3>2. p \in Roots(log', ids)
      BY <3>1, SetsGrow
    <3>3. Permissioned(log', p) = Permissioned(log, p)
      BY <3>1, SetsGrow
    <3>4. SetsOf(log, cache[c], p) \subseteq SetsOf(log', ids, p)
      BY <3>1, SetsGrow
    <3> QED
      BY <2>7, <3>2, <3>3, <3>4
  <2> HIDE DEF r
  <2>9. first <= Len(log') /\ EndsWith(log', ids, p, first, at, cs[Len(cs)])
    BY <1>3, <1>5, <1>8, <1>9, <2>1, <2>4, <2>5, <2>6, <2>8, ThreadCounts
  <2>10. cs[Len(cs)] = k
    BY <1>2, <2>1, LastAhead DEF cs
  <2> QED
    BY <2>9, <2>10
<1>13. Shown'
  <2>1. /\ last'.clone = c /\ last'.proposal = p /\ last'.commit = k
        /\ last'.new = first..Len(log')
    BY DEF Report
  <2>2. first \in Nat \ {0}
    BY <1>1
  <2> HIDE DEF first
  <2> QED
    BY <1>12, <2>1, <2>2 DEF Shown
<1> QED
  BY <1>11, <1>13

\* A push to a pr/ branch.
LEMMA PushShows ==
    ASSUME RestOK, WellThreaded(log), CachesOK, Dated(log), NEW c \in Clones,
           NEW ref \in Ref, NEW k \in Commits, NEW force \in BOOLEAN, Push(c, ref, k, force)
    PROVE  Dated(log') /\ Shown'
<1>1. /\ Owner[c] \in Users /\ Safe \in [Names -> Names] /\ ref.name \in Names
      /\ clock \in Nat /\ log \in Log
  BY ProposalsAssumption, PatchThreadsAssumption DEF RestOK, WellThreaded, Ref
<1>2. cache[c] \in SUBSET All(log) /\ tracked[c] \in Commits
  BY DEF CachesOK, RestOK
<1>3. \A at \in Dates : at \in Nat
  BY <1>1 DEF Dates
<1>4. WellThreaded(log') /\ CachesOK'
  BY PushKeeps
<1> DEFINE Good == Dated(log') /\ Shown'
<1>5. ASSUME NEW at \in Nat, NEW name \in Names, NEW q \in Nat,
             q # 0 => q \in Roots(log, cache[c]) /\ Owner[c] \in Permissioned(log, q),
             NEW p, p = IF q = 0 THEN Len(log) + 1 ELSE q,
             LET events == PatchSet(log, RootEvent(Owner[c], at, name, q, {}), FALSE, Ahead(tracked[c], k))
             IN  Publish(c, events, at) /\ last' = Report(c, p, k, force, events)
      PROVE  Good
  <2> DEFINE events == PatchSet(log, RootEvent(Owner[c], at, name, q, {}), FALSE, Ahead(tracked[c], k))
             cs == Ordered(Ahead(tracked[c], k))
  <2>1. IsThread(events, cs, Owner[c], Len(log), Len(log) + 1)
    BY <1>1, <1>2, SetTypes
  <2>2. Len(cs) >= 1 => IsRoot(events[1], q)
    BY <1>1, <1>2, SetTypes
  <2>3. OfOneSecond(events, at)
    BY <1>1, <1>2, SetDates
  <2>4. Publish(c, events, at) /\ last' = Report(c, p, k, force, events)
    BY <1>5
  <2> HIDE DEF events, cs
  <2>5. Dated(log') /\ Shown'
    BY <1>2, <1>4, <1>5, <2>1, <2>2, <2>3, <2>4, SetShows DEF cs
  <2> QED
    BY <2>5
<1>6. ASSUME NEW at \in Dates, NewProposal(c, ref, k, force, at)
      PROVE  Good
  <2>1. \E name \in Names :
            LET events == PatchSet(log, RootEvent(Owner[c], at, Safe[name], 0, {}), FALSE,
                                   Ahead(tracked[c], k))
            IN  Publish(c, events, at) /\ last' = Report(c, Len(log) + 1, k, force, events)
    BY <1>1, <1>6 DEF NewProposal
  <2>2. PICK name \in Names :
            LET events == PatchSet(log, RootEvent(Owner[c], at, Safe[name], 0, {}), FALSE,
                                   Ahead(tracked[c], k))
            IN  Publish(c, events, at) /\ last' = Report(c, Len(log) + 1, k, force, events)
    BY <2>1
  <2>3. Safe[name] \in Names /\ at \in Nat
    BY <1>1, <1>3
  <2> HIDE DEF Good
  <2> QED
    BY <1>5, <2>2, <2>3
<1>7. ASSUME NEW p \in Found(c, ref)
      PROVE  p \in AllProposals(log, cache[c]) /\ p \in Nat \ {0} /\ p \in Roots(log, cache[c])
  BY <1>2, OfProposal DEF Found
<1>8. ASSUME NEW p \in Found(c, ref), NEW at \in Dates, Revise(c, ref, p, k, force, at)
      PROVE  Good
  <2>1. LET events == PatchSet(log, RootEvent(Owner[c], at, ref.name, p, {}), FALSE, Ahead(tracked[c], k))
        IN  Publish(c, events, at) /\ last' = Report(c, p, k, force, events)
    BY <1>8 DEF Revise
  <2>2. Owner[c] \in Permissioned(log, p) /\ p \in Nat /\ p # 0 /\ p \in Roots(log, cache[c])
    BY <1>7, <1>8 DEF Revise
  <2>3. at \in Nat
    BY <1>3
  <2> HIDE DEF Good
  <2> QED
    BY <1>1, <1>5, <2>1, <2>2, <2>3
<1>9. ASSUME NEW p \in Found(c, ref), NEW at \in Dates, Extend(c, ref, p, k, force, at)
      PROVE  Good
  <2>1. PICK t \in Tips(log, PatchesOf(log, cache[c], p)) :
            LET events == Appended(log, Owner[c], at, t, Ahead(log[t].commit, k))
            IN  /\ FastForward(log[t].commit, k)
                /\ Publish(c, events, at) /\ last' = Report(c, p, k, force, events)
    BY <1>9 DEF Extend
  <2> DEFINE events == Appended(log, Owner[c], at, t, Ahead(log[t].commit, k))
             cs == Ordered(Ahead(log[t].commit, k))
  <2>2. /\ t \in Patches(log, All(log)) /\ log[t].commit \in Commits
        /\ p \in AllProposals(log, cache[c]) /\ Owner[c] \in Permissioned(log, p) /\ at \in Nat
    BY <1>2, <1>3, <1>7, <1>9, OfProposal DEF Extend
  <2>3. IsThread(events, cs, Owner[c], Len(log), SetRoot(log, t))
    BY <1>1, <2>2, AppendedTypes
  <2>4. Len(cs) >= 1 => IsReply(events[1], SetRoot(log, t), t)
    BY <1>1, <2>2, AppendedTypes
  <2>5. OfOneSecond(events, at)
    BY <2>2, AppendedDates
  <2>6. Publish(c, events, at) /\ last' = Report(c, p, k, force, events)
    BY <2>1
  <2> HIDE DEF events, cs
  <2>7. Dated(log') /\ Shown'
    BY <1>4, <2>1, <2>2, <2>3, <2>4, <2>5, <2>6, PatchesShow DEF cs
  <2> QED
    BY <2>7
<1>10. ASSUME NEW p \in Found(c, ref), Refuse(c, p, k, force)
       PROVE  Good
  BY <1>10 DEF Refuse, Shown
<1> QED
  BY <1>6, <1>8, <1>9, <1>10 DEF Push

\* A log without more patches that count.
LEMMA MoreDated ==
    ASSUME WellThreaded(log), Dated(log), Extends(log', log),
           \A j \in Patches(log', All(log') \ All(log)) : ~MayAdd(log', j)
    PROVE  Dated(log')
  BY StaysDated

\* Statuses are no patches.
LEMMA StatusesPublished ==
    ASSUME WellThreaded(log), CachesOK, NEW c \in Clones, NEW at, NEW events \in Seq(Status),
           Publish(c, events, at)
    PROVE  Extends(log', log) /\ Patches(log', All(log') \ All(log)) = {}
<1>2. events \in Log /\ Len(events) \in Nat
  BY DEF Log
<1>3. PICK n \in 0..Len(events) :
        log' = log \o SubSeq(events, 1, n) /\ Extends(log', log) /\ Len(log') = Len(log) + n
  BY <1>2, PublishedIs
<1>4. /\ log \in Log /\ Len(log) \in Nat
      /\ \A i \in 1..n : log'[Len(log) + i] = events[i]
  BY <1>2, <1>3, Added DEF WellThreaded
<1>5. ASSUME NEW j \in All(log') \ All(log)
      PROVE  ~IsPatch(log'[j])
  <2>1. j - Len(log) \in 1..n /\ j - Len(log) \in 1..Len(events) /\ Len(log) + (j - Len(log)) = j
    <3>1. Len(log) \in Nat /\ Len(log') = Len(log) + n /\ n \in Nat /\ n <= Len(events)
      BY <1>2, <1>3, <1>4
    <3>2. j \in Len(log) + 1..Len(log')
      BY <3>1 DEF All
    <3>3. j - Len(log) \in 1..n
      BY <3>1, <3>2
    <3>4. \A i \in 1..n : i \in 1..Len(events)
      BY <1>2, <3>1
    <3> QED
      BY <3>1, <3>2, <3>3, <3>4
  <2>2. log'[j] \in Status
    <3>1. log'[j] = events[j - Len(log)]
      BY <1>4, <2>1
    <3> QED
      BY <2>1, <3>1
  <2> QED
    BY <2>2 DEF Status, IsPatch
<1>6. Patches(log', All(log') \ All(log)) = {}
  BY <1>5 DEF Patches
<1> QED
  BY <1>3, <1>6

LEMMA MainDates ==
    ASSUME RestOK, WellThreaded(log), CachesOK, Dated(log),
           NEW c \in Clones, NEW k \in Commits, PushMain(c, k)
    PROVE  Dated(log') /\ last' = NoPush
<1>1. PICK at \in Nat, events \in Seq(Status) : Publish(c, events, at)
  BY MainPublishes
<1>2. Extends(log', log) /\ Patches(log', All(log') \ All(log)) = {}
  BY <1>1, StatusesPublished
<1>3. last' = NoPush
  BY DEF PushMain
<1> QED
  BY <1>2, <1>3, MoreDated

LEMMA OthersDate ==
    ASSUME RestOK, WellThreaded(log), Dated(log), OtherClients
    PROVE  Dated(log') /\ last' = NoPush
<1>1. PICK e \in Patch \cup Status :
        Posted(e) /\ (IsPatch(e) => ~MayAdd(Append(log, e), Len(log) + 1))
  BY OthersPost
<1>2. log' = Append(log, e) /\ last' = NoPush
  BY <1>1 DEF Posted
<1>3. Extends(log', log) /\ Len(log') = Len(log) + 1 /\ log'[Len(log) + 1] = e
  BY <1>2, OneAdded DEF WellThreaded
<1>4. All(log') \ All(log) = {Len(log) + 1}
  BY <1>3 DEF All, WellThreaded, Log
<1>5. \A j \in Patches(log', All(log') \ All(log)) : ~MayAdd(log', j)
  BY <1>1, <1>2, <1>3, <1>4 DEF Patches
<1> QED
  BY <1>2, <1>3, <1>5, MoreDated

\* The first events are sets of one second.
LEMMA InitDates == Init => Dated(log) /\ Shown
<1> SUFFICES ASSUME Init PROVE Dated(log) /\ Shown
  OBVIOUS
<1>1. log = InitLog /\ last = NoPush /\ InitLog \in Seq(Patch)
  BY ProposalsAssumption DEF Init
<1>2. \A j \in DOMAIN InitLog : ~InitLog[j].root => InitLog[j].at = InitLog[InitLog[j].parent].at
  BY ProposalsAssumption
<1>3. ASSUME NEW j \in Patches(log, All(log)), ~log[j].root
      PROVE  Follows(log, j)
  <2>1. j \in DOMAIN InitLog
    BY <1>1 DEF Patches, All
  <2> QED
    BY <1>1, <1>2, <1>3, <2>1 DEF Follows
<1> QED
  BY <1>1, <1>3 DEF Dated, Shown

\* The invariant: pushes are shown because replies are dated.
IndShown == Inv /\ Dated(log) /\ Shown

LEMMA NextShows == IndShown /\ [Next]_vars => IndShown'
<1> SUFFICES ASSUME IndShown, [Next]_vars PROVE IndShown'
  OBVIOUS
<1>1. RestOK /\ WellThreaded(log) /\ CachesOK /\ Dated(log) /\ Shown /\ Inv
  BY InvIs DEF IndShown
<1>2. Inv'
  BY <1>1, NextKeeps
<1>3. ASSUME UNCHANGED vars PROVE Dated(log') /\ Shown'
  BY <1>1, <1>3 DEF vars, cloneVars, Shown
<1>4. last' = NoPush => Shown'
  BY DEF Shown
<1>5. ASSUME NEW c \in Clones, HelperStep(c)
      PROVE  Dated(log') /\ Shown'
  <2>1. ASSUME NEW ref \in PushableRefs(c)
        PROVE  ref \in Ref
    BY <1>1, PushableRefsAre
  <2>2. CASE Connect(c)
    BY <1>1, <1>4, <2>2 DEF Connect
  <2>3. CASE Stop(c)
    BY <1>1, <1>4, <2>3 DEF Stop
  <2>4. CASE \E k \in Commits : PushMain(c, k)
    BY <1>1, <1>4, <2>4, MainDates
  <2>5. ASSUME NEW ref \in PushableRefs(c), NEW k \in Commits, NEW force \in BOOLEAN,
               Push(c, ref, k, force)
        PROVE  Dated(log') /\ Shown'
    BY <1>1, <2>1, <2>5, PushShows
  <2>6. HelperStep(c) => \/ Connect(c) \/ Stop(c) \/ \E k \in Commits : PushMain(c, k)
                         \/ \E ref \in PushableRefs(c), k \in Commits, force \in BOOLEAN :
                                Push(c, ref, k, force)
    BY DEF HelperStep
  <2> QED
    BY <1>5, <2>2, <2>3, <2>4, <2>5, <2>6
<1>6. ASSUME OtherClients PROVE Dated(log') /\ Shown'
  BY <1>1, <1>4, <1>6, OthersDate
<1> QED
  BY <1>2, <1>3, <1>5, <1>6 DEF Next, IndShown

\* A branch that ends with a push shows it.
LEMMA ShownIs == IndShown => PushShown
<1> SUFFICES ASSUME IndShown, last # NoPush, last.complete, last.new # {} PROVE
        LET ids == cache[last.clone]
            patches == PatchesOf(log, ids, last.proposal)
            newest == Max(last.new)
        IN (\A i \in patches \ last.new : Precedes(i, newest, patches)) =>
                TipCommits(ids, last.proposal) = {last.commit}
  BY DEF PushShown
<1> DEFINE ids == cache[last.clone]
           patches == PatchesOf(log, ids, last.proposal)
<1>1. /\ WellThreaded(log) /\ Dated(log) /\ CachesOK /\ last \in PushReport
      /\ log \in Log /\ Len(log) \in Nat
  BY InvIs DEF IndShown, RestOK, WellThreaded, Log
<1>2. last.clone \in Clones
  BY <1>1 DEF PushReport
<1>3. ids \in SUBSET All(log)
  BY <1>1, <1>2 DEF CachesOK
<1>4. PICK first \in Nat \ {0}, at \in Nat :
        /\ first <= Len(log) /\ last.new = first..Len(log)
        /\ EndsWith(log, ids, last.proposal, first, at, last.commit)
  BY DEF IndShown, Shown
<1>5. Max(last.new) = Len(log)
  <2>1. /\ Len(log) \in first..Len(log)
        /\ \A x \in first..Len(log) : Len(log) >= x /\ (x >= Len(log) => x = Len(log))
    BY <1>1, <1>4
  <2> QED
    BY <1>4, <2>1 DEF Max
<1> HIDE DEF ids
<1>6. ASSUME \A i \in patches \ (first..Len(log)) : Precedes(i, Len(log), patches)
      PROVE  Tips(log, patches) = {Len(log)}
  <2>1. \A i \in patches \ (first..Len(log)) : Below(log, i, Len(log), patches)
    BY <1>6 DEF Below, Precedes
  <2>2. /\ \A u \in first..Len(log) : u \in patches /\ log[u].at = at
        /\ \A u \in first + 1..Len(log) : ~log[u].root /\ log[u].parent = u - 1
        /\ last.proposal \in Roots(log, ids)
    BY <1>4 DEF EndsWith
  <2> QED
    BY <1>1, <1>3, <1>4, <2>1, <2>2, EndsWithPush
<1>7. log[Len(log)].commit = last.commit
  BY <1>4 DEF EndsWith
<1>8. Tips(log, patches) = {Len(log)} => TipCommits(ids, last.proposal) = {last.commit}
  BY <1>7 DEF TipCommits
<1> QED
  BY <1>4, <1>5, <1>6, <1>8 DEF ids

\* After an accepted push the pusher's own branch is what was pushed, unless
\* something there has a later date: in every environment, so whatever the dates
\* of other accounts' clocks, which parts of a thread caches lack, and whichever
\* revisions and replies of strangers are among them, of the patches of one
\* second get_most_recent_patch_with_ancestors takes the last of the push.
THEOREM PushesAreShown == Spec => []PushShown
<1>1. Init => IndShown
  BY InitKeeps, InitDates DEF IndShown
<1> QED
  BY <1>1, NextShows, ShownIs, PTL DEF Spec

-----------------------------------------------------------------------------
(* One proposal of a name.                                                 *)

\* Who has a proposal with a patch still does when the log grows.
LEMMA StaysProposal ==
    ASSUME NEW lg, WellThreaded(lg), NEW lg2, Extends(lg2, lg), WellThreaded(lg2),
           NEW ids \in SUBSET All(lg), NEW ids2 \in SUBSET All(lg2), ids \subseteq ids2,
           NEW p \in AllProposals(lg, ids)
    PROVE  p \in AllProposals(lg2, ids2)
<1>1. p \in Roots(lg, ids) /\ \E i : i \in PatchesOf(lg, ids, p)
  BY DEF AllProposals
<1>2. PICK i : i \in PatchesOf(lg, ids, p)
  BY <1>1
<1>3. p \in Roots(lg2, ids2)
  BY <1>1, SetsGrow
<1>4. SetsOf(lg, ids, p) \subseteq SetsOf(lg2, ids2, p)
  BY <1>1, SetsGrow
<1>5. Permissioned(lg2, p) = Permissioned(lg, p)
  BY <1>1, SetsGrow
<1>6. /\ i \in Patches(lg, ids) /\ lg[i].author \in Permissioned(lg, p)
      /\ ~IsCoverLetter(lg[i]) /\ SetRoot(lg, i) \in SetsOf(lg, ids, p)
  BY <1>1, <1>2, PatchesOfIs
<1>7. i \in ids /\ lg2[i] = lg[i] /\ i \in Patches(lg, All(lg))
  BY <1>6 DEF Patches, Extends
<1>8. SetRoot(lg2, i) = SetRoot(lg, i)
  BY <1>7, OlderStay
<1>9. i \in Patches(lg2, ids2)
  BY <1>6, <1>7 DEF Patches
<1>10. i \in PatchesOf(lg2, ids2, p)
  <2>1. \A j : j \in PatchesOf(lg2, ids2, p) <=>
            /\ j \in Patches(lg2, ids2)
            /\ lg2[j].author \in Permissioned(lg2, p)
            /\ ~IsCoverLetter(lg2[j])
            /\ SetRoot(lg2, j) \in SetsOf(lg2, ids2, p)
    BY <1>3, PatchesOfIs
  <2> QED
    BY <1>4, <1>5, <1>6, <1>7, <1>8, <1>9, <2>1
<1> QED
  BY <1>3, <1>10 DEF AllProposals

\* Only the first event of a push is a root.
LEMMA NewRoots ==
    ASSUME WellThreaded(log), CachesOK, NEW c \in Clones, NEW at, NEW cs, NEW user, NEW r,
           NEW events, IsThread(events, cs, user, Len(log), r), Publish(c, events, at),
           NEW i \in Roots(log', All(log')), i \notin Roots(log, All(log))
    PROVE  /\ i = Len(log) + 1 /\ log'[i] = events[1] /\ i \in cache'[c]
           /\ Len(cs) >= 1 /\ events[1].author = user /\ events[1].commit = cs[1]
<1>1. /\ log \in Log /\ Len(log) \in Nat /\ events \in Log /\ Len(events) \in Nat
      /\ Len(cs) = Len(events)
  BY DEF WellThreaded, Log, IsThread
<1>2. PICK n \in 0..Len(events) :
        /\ log' = log \o SubSeq(events, 1, n)
        /\ Extends(log', log) /\ Len(log') = Len(log) + n
        /\ cache'[c] = cache[c] \cup Len(log) + 1..Len(log')
  BY <1>1, PublishedIs
<1>3. \A x \in 1..n : log'[Len(log) + x] = events[x]
  BY <1>1, <1>2, Added
<1>4. i \in All(log') /\ log'[i].root
  BY DEF Roots, Patches
<1>5. i \notin All(log)
  <2>1. Roots(log', All(log)) = Roots(log, All(log))
    BY <1>2, OlderStay
  <2> QED
    BY <2>1 DEF Roots, Patches
<1>6. i \in Len(log) + 1..Len(log')
  BY <1>1, <1>2, <1>4, <1>5 DEF All
<1> DEFINE x == i - Len(log)
<1>7. /\ x \in 1..n /\ Len(log) + x = i /\ x \in 1..Len(cs)
      /\ 1 \in 1..Len(cs) /\ (x # 1 => x \in 2..Len(cs)) /\ (x = 1 => i = Len(log) + 1)
  <2>1. /\ n \in Nat /\ n <= Len(cs) /\ Len(cs) \in Nat /\ Len(log') = Len(log) + n
        /\ Len(log) \in Nat
    BY <1>1, <1>2
  <2>2. i \in Nat /\ Len(log) + 1 <= i /\ i <= Len(log) + n
    BY <1>6, <2>1
  <2>3. x \in Nat /\ 1 <= x /\ x <= n /\ Len(log) + x = i
    BY <2>1, <2>2
  <2> HIDE DEF x
  <2> QED
    BY <2>1, <2>3
<1> HIDE DEF x
<1>8. log'[i] = events[x]
  BY <1>3, <1>7
<1>9. x = 1
  BY <1>4, <1>7, <1>8 DEF IsThread
<1>10. i = Len(log) + 1 /\ log'[i] = events[1]
  BY <1>7, <1>8, <1>9
<1>11. i \in cache'[c]
  BY <1>2, <1>6
<1>12. Len(cs) >= 1
  BY <1>1, <1>7
<1>13. events[1].author = user /\ events[1].commit = cs[1]
  BY <1>7 DEF IsThread
<1> QED
  BY <1>10, <1>11, <1>12, <1>13

\* What a proposal is called.
IsNamed(events, cs, name) == Len(cs) >= 1 => events[1].name = name

LEMMA SetName ==
    ASSUME NEW lg, NEW user \in Users, NEW at \in Nat, NEW name \in Names, NEW p \in Nat,
           NEW base \in Commits, NEW k \in Commits
    PROVE  LET cs == Ordered(Ahead(base, k))
               events == PatchSet(lg, RootEvent(user, at, name, p, {}), FALSE, Ahead(base, k))
           IN  IsNamed(events, cs, name)
<1> SUFFICES ASSUME Len(Ordered(Ahead(base, k))) >= 1
             PROVE  PatchSet(lg, RootEvent(user, at, name, p, {}), FALSE, Ahead(base, k))[1].name = name
  BY DEF IsNamed
<1> DEFINE cs == Ordered(Ahead(base, k))
           head == RootEvent(user, at, name, p, {})
<1>1. cs \in Seq(Commits)
  BY AheadOrdered
<1> HIDE DEF cs
<1>2. << >> \o cs = cs /\ Len(cs) \in Nat /\ 1 \in 1..Len(cs)
  BY <1>1 DEF cs
<1>3. PatchSet(lg, head, FALSE, Ahead(base, k)) = Threaded(lg, head, cs)
  BY <1>2 DEF PatchSet, cs
<1>4. head \in Patch /\ head.name = name
  BY DEF RootEvent, Patch, CommitOrNone
<1> HIDE DEF head
<1>5. Threaded(lg, head, cs)[1] = [head EXCEPT !.commit = cs[1]]
  BY <1>2 DEF Threaded
<1>6. [head EXCEPT !.commit = cs[1]].name = name
  BY <1>4 DEF Patch
<1> QED
  BY <1>3, <1>5, <1>6 DEF head

\* Each clone knows the proposals of its account, and a patch of each.
OwnKnown ==
    \A c \in Clones : \A p \in Roots(log, All(log)) :
        log[p].author = Owner[c] => p \in AllProposals(log, cache[c])

\* The first events do not have two proposals of an account and a name; each
\* has a patch by its author.
FirstOnes ==
    /\ \A p, q \in Roots(InitLog, DOMAIN InitLog) :
          InitLog[p].author = InitLog[q].author /\ InitLog[p].name = InitLog[q].name => p = q
    /\ \A p \in Roots(InitLog, DOMAIN InitLog) :
          \E i \in Patches(InitLog, DOMAIN InitLog) :
              /\ SetRoot(InitLog, i) = p /\ InitLog[i].author = InitLog[p].author
              /\ ~IsCoverLetter(InitLog[i])

\* Every account uses one clone, and branches have names that are not changed.
OneClone == \A c, d \in Clones : Owner[c] = Owner[d] => c = d
PlainNames == "elsewhere" \notin Env /\ \A n \in Names : Safe[n] = n

\* The invariant: the cache that is searched for a name has what was proposed.
IndTwins == Inv /\ NoTwins /\ OwnKnown

\* Without new proposals, and with caches that grow, it stays.
LEMMA NoNewTwins ==
    ASSUME RestOK, WellThreaded(log), CachesOK, NoTwins, OwnKnown,
           WellThreaded(log'), CachesOK', Extends(log', log),
           \A c \in Clones : cache[c] \subseteq cache'[c],
           Roots(log', All(log')) \subseteq Roots(log, All(log))
    PROVE  NoTwins' /\ OwnKnown'
<1>1. \A p \in Roots(log', All(log')) : p \in All(log) /\ log'[p] = log[p] /\ p \in Roots(log, All(log))
  BY DEF Roots, Patches, Extends
<1>2. NoTwins'
  BY <1>1 DEF NoTwins, Ids, All
<1>3. OwnKnown'
  <2> SUFFICES ASSUME NEW c \in Clones, NEW p \in Roots(log', All(log')), log'[p].author = Owner[c]
               PROVE  p \in AllProposals(log', cache'[c])
    BY DEF OwnKnown
  <2>1. p \in AllProposals(log, cache[c])
    BY <1>1 DEF OwnKnown
  <2>2. cache[c] \in SUBSET All(log) /\ cache'[c] \in SUBSET All(log') /\ cache[c] \subseteq cache'[c]
    BY DEF CachesOK
  <2> QED
    BY <2>1, <2>2, StaysProposal
<1> QED
  BY <1>2, <1>3

\* Its author has no proposal of this name.
IsFree(c, name) ==
    \A p \in AllProposals(log, cache[c]) : log[p].author = Owner[c] => log[p].name # name

\* The one new proposal is i, which clone c made and has.
OnlyNew(c, name, i) ==
    /\ \A p \in Roots(log', All(log')) : p \in Roots(log, All(log)) \/ p = i
    /\ i \in Roots(log', All(log')) =>
          /\ i \in cache'[c] /\ log'[i].author = Owner[c] /\ log'[i].name = name
          /\ log'[i].commit \in Commits

\* A new proposal whose name its author has not used.
LEMMA OneNewTwin ==
    ASSUME RestOK, WellThreaded(log), CachesOK, NoTwins, OwnKnown, OneClone,
           WellThreaded(log'), CachesOK', Extends(log', log),
           \A d \in Clones : cache[d] \subseteq cache'[d],
           NEW c \in Clones, NEW name, NEW i,
           OnlyNew(c, name, i), IsFree(c, name)
    PROVE  NoTwins' /\ OwnKnown'
<1>1. \A p \in Roots(log, All(log)) : p \in All(log) /\ log'[p] = log[p]
  BY DEF Roots, Patches, Extends
<1>2. \A p \in Roots(log, All(log)) : log[p].author = Owner[c] => log[p].name # name
  BY DEF OwnKnown, IsFree
<1>3. NoTwins'
  <2>1. \A p, q \in Roots(log', All(log')) :
            log'[p].author = log'[q].author /\ log'[p].name = log'[q].name => p = q
    <3> SUFFICES ASSUME NEW p \in Roots(log', All(log')), NEW q \in Roots(log', All(log')),
                        log'[p].author = log'[q].author, log'[p].name = log'[q].name, p # q
                 PROVE  FALSE
      OBVIOUS
    <3>1. CASE p \in Roots(log, All(log)) /\ q \in Roots(log, All(log))
      BY <1>1, <3>1 DEF NoTwins, Ids, All
    <3>2. CASE p \in Roots(log, All(log)) /\ q = i
      BY <1>1, <1>2, <3>2 DEF OnlyNew
    <3>3. CASE q \in Roots(log, All(log)) /\ p = i
      BY <1>1, <1>2, <3>3 DEF OnlyNew
    <3> QED
      BY <3>1, <3>2, <3>3 DEF OnlyNew
  <2> QED
    BY <2>1 DEF NoTwins, Ids, All
<1>4. OwnKnown'
  <2> SUFFICES ASSUME NEW d \in Clones, NEW p \in Roots(log', All(log')), log'[p].author = Owner[d]
               PROVE  p \in AllProposals(log', cache'[d])
    BY DEF OwnKnown
  <2>1. cache[d] \in SUBSET All(log) /\ cache'[d] \in SUBSET All(log') /\ cache[d] \subseteq cache'[d]
    BY DEF CachesOK
  <2>2. CASE p \in Roots(log, All(log))
    <3>1. p \in AllProposals(log, cache[d])
      BY <1>1, <2>2 DEF OwnKnown
    <3> QED
      BY <2>1, <3>1, StaysProposal
  <2>3. CASE p = i
    <3>1. d = c /\ p \in cache'[d] /\ log'[p].commit \in Commits
      BY <2>3 DEF OneClone, OnlyNew
    <3>2. p \in Patches(log', cache'[d]) /\ log'[p].root /\ ~log'[p].revision
      BY <3>1 DEF Roots, Patches
    <3>3. p \in Roots(log', cache'[d]) /\ SetRoot(log', p) = p
      BY <3>2 DEF Roots, SetRoot
    <3>4. ~IsCoverLetter(log'[p])
      BY <3>1, NoCommitAssumption DEF IsCoverLetter
    <3>5. log'[p].author \in Permissioned(log', p) /\ p \in SetsOf(log', cache'[d], p)
      BY DEF Permissioned, SetsOf
    <3>6. p \in PatchesOf(log', cache'[d], p)
      <4>1. \A j : j \in PatchesOf(log', cache'[d], p) <=>
                /\ j \in Patches(log', cache'[d])
                /\ log'[j].author \in Permissioned(log', p)
                /\ ~IsCoverLetter(log'[j])
                /\ SetRoot(log', j) \in SetsOf(log', cache'[d], p)
        BY <2>1, <3>3, PatchesOfIs
      <4> QED
        BY <3>2, <3>3, <3>4, <3>5, <4>1
    <3> QED
      BY <3>3, <3>6 DEF AllProposals
  <2> QED
    BY <2>2, <2>3 DEF OnlyNew
<1> QED
  BY <1>3, <1>4

\* Caches lose nothing when events are published.
LEMMA PublishedGrows ==
    ASSUME WellThreaded(log), CachesOK, NEW c \in Clones, NEW at, NEW events \in Log,
           Publish(c, events, at)
    PROVE  Extends(log', log) /\ \A d \in Clones : cache[d] \subseteq cache'[d]
<1>1. Extends(log', log)
  BY PublishedIs
<1>2. PICK n : cache' = [cache EXCEPT ![c] = @ \cup (Len(log) + 1)..(Len(log) + n)]
  BY DEF Publish
<1> DEFINE new == (Len(log) + 1)..(Len(log) + n)
<1>3. cache' = [cache EXCEPT ![c] = @ \cup new]
  BY <1>2
<1> HIDE DEF new
<1>4. \A d \in Clones : cache[d] \subseteq cache'[d]
  BY <1>3 DEF CachesOK
<1> QED
  BY <1>1, <1>4

\* The branch of a new proposal has a name that its author has not used.
LEMMA NameIsNew ==
    ASSUME WellThreaded(log), CachesOK, NEW c \in Clones, NEW ref \in PushableRefs(c),
           Found(c, ref) = {}
    PROVE  IsFree(c, ref.name)
<1>1. ref.id = 0
  <2>1. CASE ref \in [name : Names, id : {0}]
    BY <2>1
  <2>2. CASE \E q \in AllProposals(log, cache[c]) : ref = RefOf(log, q, Owner[c])
    <3>1. PICK q \in AllProposals(log, cache[c]) : ref = RefOf(log, q, Owner[c])
      BY <2>2
    <3>2. q \notin Found(c, ref)
      OBVIOUS
    <3>3. ref.name = log[q].name /\ (log[q].author = Owner[c] \/ ref.id = q)
      BY <3>1 DEF RefOf
    <3>4. log[q].author = Owner[c] => ref.id = 0
      BY <3>1 DEF RefOf
    <3> QED
      BY <3>2, <3>3, <3>4 DEF Found, IsRootForBranch
  <2> QED
    BY <2>1, <2>2 DEF PushableRefs
<1> QED
  BY <1>1 DEF Found, IsRootForBranch, IsFree

LEMMA PushTwins ==
    ASSUME RestOK, WellThreaded(log), CachesOK, NoTwins, OwnKnown, OneClone, PlainNames,
           WellThreaded(log'), CachesOK', NEW c \in Clones,
           NEW ref \in PushableRefs(c), NEW k \in Commits, NEW force \in BOOLEAN, Push(c, ref, k, force)
    PROVE  NoTwins' /\ OwnKnown'
<1>1. /\ ref \in Ref /\ ref.name \in Names /\ Owner[c] \in Users /\ clock \in Nat /\ log \in Log
      /\ Len(log) \in Nat /\ cache[c] \in SUBSET All(log) /\ tracked[c] \in Commits
  BY PushableRefsAre, ProposalsAssumption DEF RestOK, WellThreaded, Log, CachesOK, Ref
<1>2. \A at \in Dates : at \in Nat
  BY <1>1 DEF Dates
<1> DEFINE Good == NoTwins' /\ OwnKnown'
<1>3. ASSUME NEW at \in Dates, NewProposal(c, ref, k, force, at)
      PROVE  Good
  <2> DEFINE events == PatchSet(log, RootEvent(Owner[c], at, ref.name, 0, {}), FALSE, Ahead(tracked[c], k))
             cs == Ordered(Ahead(tracked[c], k))
             i == Len(log) + 1
  <2>1. Publish(c, events, at) /\ Found(c, ref) = {}
    BY <1>1, <1>3 DEF NewProposal, PlainNames
  <2>2. at \in Nat /\ cs \in Seq(Commits)
    BY <1>1, <1>2, AheadOrdered
  <2>3. IsThread(events, cs, Owner[c], Len(log), i)
    BY <1>1, <2>2, SetTypes
  <2>4. IsNamed(events, cs, ref.name)
    BY <1>1, <2>2, SetName
  <2> HIDE DEF events, cs
  <2>5. events \in Log
    BY <2>3 DEF IsThread, Log
  <2>6. Extends(log', log) /\ \A d \in Clones : cache[d] \subseteq cache'[d]
    BY <2>1, <2>5, PublishedGrows
  <2> HIDE DEF i
  <2>7. ASSUME NEW p \in Roots(log', All(log')), p \notin Roots(log, All(log))
        PROVE  /\ p = i /\ p \in cache'[c] /\ log'[p].author = Owner[c] /\ log'[p].name = ref.name
               /\ log'[p].commit \in Commits
    <3>1. /\ p = Len(log) + 1 /\ log'[p] = events[1] /\ p \in cache'[c]
          /\ Len(cs) >= 1 /\ events[1].author = Owner[c] /\ events[1].commit = cs[1]
      BY <2>1, <2>3, <2>7, NewRoots
    <3>2. cs[1] \in Commits
      BY <2>2, <3>1
    <3> QED
      BY <2>4, <3>1, <3>2 DEF i, IsNamed
  <2>8. i \notin Roots(log, All(log))
    BY <1>1 DEF i, All, Roots, Patches
  <2>9. IsFree(c, ref.name)
    BY <2>1, NameIsNew
  <2>10. OnlyNew(c, ref.name, i)
    BY <2>7, <2>8 DEF OnlyNew
  <2> QED
    BY <2>6, <2>9, <2>10, OneNewTwin
<1>4. ASSUME NEW p \in Found(c, ref)
      PROVE  p \in AllProposals(log, cache[c]) /\ p \in Nat \ {0}
  BY <1>1, OfProposal DEF Found
<1>5. ASSUME NEW at \in Dates, NEW cs, NEW r, NEW events, IsThread(events, cs, Owner[c], Len(log), r),
             Publish(c, events, at), Len(cs) >= 1 => ~events[1].root \/ events[1].revision
      PROVE  Good
  <2>1. events \in Log
    BY <1>5 DEF IsThread, Log
  <2>2. Extends(log', log) /\ \A d \in Clones : cache[d] \subseteq cache'[d]
    BY <1>5, <2>1, PublishedGrows
  <2>3. ASSUME NEW i \in Roots(log', All(log')), i \notin Roots(log, All(log))
        PROVE  FALSE
    <3>1. log'[i] = events[1] /\ Len(cs) >= 1
      BY <1>5, <2>3, NewRoots
    <3> QED
      BY <1>5, <3>1 DEF Roots
  <2>4. Roots(log', All(log')) \subseteq Roots(log, All(log))
    BY <2>3
  <2> QED
    BY <2>2, <2>4, NoNewTwins
<1>6. ASSUME NEW p \in Found(c, ref), NEW at \in Dates, Revise(c, ref, p, k, force, at)
      PROVE  Good
  <2> DEFINE events == PatchSet(log, RootEvent(Owner[c], at, ref.name, p, {}), FALSE, Ahead(tracked[c], k))
             cs == Ordered(Ahead(tracked[c], k))
  <2>1. Publish(c, events, at)
    BY <1>6 DEF Revise
  <2>2. at \in Nat /\ p \in Nat /\ p # 0
    BY <1>2, <1>4
  <2>3. IsThread(events, cs, Owner[c], Len(log), Len(log) + 1)
    BY <1>1, <2>2, SetTypes
  <2>4. Len(cs) >= 1 => IsRoot(events[1], p)
    BY <1>1, <2>2, SetTypes
  <2> HIDE DEF events, cs
  <2>5. Len(cs) >= 1 => events[1].revision
    BY <2>2, <2>4 DEF IsRoot
  <2> HIDE DEF Good
  <2> QED
    BY <1>5, <2>1, <2>3, <2>5
<1>7. ASSUME NEW p \in Found(c, ref), NEW at \in Dates, Extend(c, ref, p, k, force, at)
      PROVE  Good
  <2>1. PICK t \in Tips(log, PatchesOf(log, cache[c], p)) :
            LET events == Appended(log, Owner[c], at, t, Ahead(log[t].commit, k))
            IN  Publish(c, events, at)
    BY <1>7 DEF Extend
  <2> DEFINE events == Appended(log, Owner[c], at, t, Ahead(log[t].commit, k))
             cs == Ordered(Ahead(log[t].commit, k))
  <2>2. t \in Patches(log, All(log)) /\ log[t].commit \in Commits /\ at \in Nat
    BY <1>1, <1>2, <1>4, OfProposal
  <2>3. IsThread(events, cs, Owner[c], Len(log), SetRoot(log, t))
    BY <1>1, <2>2, AppendedTypes
  <2>4. Len(cs) >= 1 => IsReply(events[1], SetRoot(log, t), t)
    BY <1>1, <2>2, AppendedTypes
  <2>5. Publish(c, events, at)
    BY <2>1
  <2> HIDE DEF events, cs
  <2>6. Len(cs) >= 1 => ~events[1].root
    BY <2>4 DEF IsReply
  <2> HIDE DEF Good
  <2> QED
    BY <1>5, <2>3, <2>5, <2>6
<1>8. ASSUME NEW p \in Found(c, ref), Refuse(c, p, k, force)
      PROVE  Good
  BY <1>8 DEF Refuse, NoTwins, OwnKnown, Ids
<1> QED
  BY <1>3, <1>6, <1>7, <1>8 DEF Push

\* Statuses, and patches that do not count.
LEMMA OthersTwins ==
    ASSUME RestOK, WellThreaded(log), CachesOK, NoTwins, OwnKnown,
           WellThreaded(log'), CachesOK', OtherClients
    PROVE  NoTwins' /\ OwnKnown'
<1>1. PICK e \in Patch \cup Status :
        Posted(e) /\ WellThreaded(Append(log, e)) /\ (IsPatch(e) => ~MayAdd(Append(log, e), Len(log) + 1))
  BY OthersPost
<1>2. log' = Append(log, e) /\ cache' = cache
  BY <1>1 DEF Posted, cloneVars
<1>3. Extends(log', log) /\ Len(log') = Len(log) + 1 /\ log'[Len(log) + 1] = e
  BY <1>2, OneAdded DEF WellThreaded
<1>4. All(log') = All(log) \cup {Len(log) + 1}
  BY <1>3 DEF All, WellThreaded, Log
<1>5. Roots(log', All(log)) = Roots(log, All(log))
  BY <1>3, OlderStay
<1>6. ASSUME NEW p \in Roots(log', All(log'))
      PROVE  p \in Roots(log, All(log))
  <2>1. CASE p = Len(log) + 1
    <3>1. IsPatch(e) /\ e.root /\ ~e.revision
      BY <1>3, <2>1 DEF Roots, Patches
    <3>2. ProposalOf(log', p) = p
      BY <1>3, <2>1, <3>1 DEF ProposalOf, SetRoot
    <3>3. MayAdd(log', p)
      BY <3>2 DEF MayAdd, Permissioned
    <3> QED
      BY <1>1, <1>2, <2>1, <3>1, <3>3
  <2>2. CASE p # Len(log) + 1
    BY <1>4, <1>5, <2>2 DEF Roots, Patches
  <2> QED
    BY <2>1, <2>2
<1> QED
  BY <1>2, <1>3, <1>6, NoNewTwins

LEMMA MainTwins ==
    ASSUME RestOK, WellThreaded(log), CachesOK, NoTwins, OwnKnown,
           WellThreaded(log'), CachesOK', NEW c \in Clones, NEW k \in Commits, PushMain(c, k)
    PROVE  NoTwins' /\ OwnKnown'
<1>1. PICK at \in Nat, events \in Seq(Status) : Publish(c, events, at)
  BY MainPublishes
<1>2. events \in Log
  BY DEF Log
<1>3. Extends(log', log) /\ \A d \in Clones : cache[d] \subseteq cache'[d]
  BY <1>1, <1>2, PublishedGrows
<1>4. Patches(log', All(log') \ All(log)) = {}
  BY <1>1, StatusesPublished
<1>5. Roots(log', All(log)) = Roots(log, All(log))
  BY <1>3, OlderStay
<1>6. Roots(log', All(log')) \subseteq Roots(log, All(log))
  BY <1>4, <1>5 DEF Roots, Patches
<1> QED
  BY <1>3, <1>6, NoNewTwins

LEMMA InitTwins == Init /\ FirstOnes => IndTwins
<1> SUFFICES ASSUME Init, FirstOnes PROVE IndTwins
  OBVIOUS
<1>1. Inv /\ WellThreaded(log) /\ CachesOK
  BY InitKeeps, InvIs
<1>2. /\ log = InitLog /\ Ids = DOMAIN InitLog /\ All(log) = DOMAIN InitLog
      /\ cache = [c \in Clones |-> {i \in DOMAIN InitLog : InitLog[i].author = Owner[c]}]
  BY ProposalsAssumption DEF Init, Ids, All
<1>3. NoTwins
  BY <1>2 DEF FirstOnes, NoTwins
<1>4. ASSUME NEW c \in Clones, NEW p \in Roots(log, All(log)), log[p].author = Owner[c]
      PROVE  p \in AllProposals(log, cache[c])
  <2>1. PICK i \in Patches(log, DOMAIN log) :
            SetRoot(log, i) = p /\ log[i].author = log[p].author /\ ~IsCoverLetter(log[i])
    BY <1>2 DEF FirstOnes
  <2>2. cache[c] \in SUBSET All(log) /\ i \in Patches(log, cache[c]) /\ p \in Roots(log, cache[c])
    BY <1>2, <1>4, <2>1 DEF Patches, Roots
  <2>3. log[i].author \in Permissioned(log, p) /\ SetRoot(log, i) \in SetsOf(log, cache[c], p)
    BY <2>1 DEF Permissioned, SetsOf
  <2>4. i \in PatchesOf(log, cache[c], p)
    <3>1. \A j : j \in PatchesOf(log, cache[c], p) <=>
              /\ j \in Patches(log, cache[c])
              /\ log[j].author \in Permissioned(log, p)
              /\ ~IsCoverLetter(log[j])
              /\ SetRoot(log, j) \in SetsOf(log, cache[c], p)
      BY <1>1, <2>2, PatchesOfIs
    <3> QED
      BY <2>1, <2>2, <2>3, <3>1
  <2> QED
    BY <2>2, <2>4 DEF AllProposals
<1> QED
  BY <1>1, <1>3, <1>4 DEF OwnKnown, IndTwins

LEMMA NextTwins ==
    ASSUME OneClone, PlainNames
    PROVE  IndTwins /\ [Next]_vars => IndTwins'
<1> SUFFICES ASSUME IndTwins, [Next]_vars PROVE IndTwins'
  OBVIOUS
<1>1. RestOK /\ WellThreaded(log) /\ CachesOK /\ NoTwins /\ OwnKnown /\ Inv
  BY InvIs DEF IndTwins
<1>2. Inv' /\ WellThreaded(log') /\ CachesOK'
  BY <1>1, NextKeeps DEF Inv, TypeOK, CachesOK, Ids, All, CachesClosed
<1>3. ASSUME UNCHANGED vars PROVE NoTwins' /\ OwnKnown'
  BY <1>1, <1>3 DEF vars, cloneVars, NoTwins, OwnKnown, Ids
<1>4. ASSUME log' = log, \A d \in Clones : cache[d] \subseteq cache'[d]
      PROVE  NoTwins' /\ OwnKnown'
  <2>1. Extends(log', log) /\ Roots(log', All(log')) \subseteq Roots(log, All(log))
    BY <1>1, <1>4 DEF Extends, WellThreaded, Log
  <2> QED
    BY <1>1, <1>2, <1>4, <2>1, NoNewTwins
<1>5. ASSUME NEW c \in Clones, HelperStep(c)
      PROVE  NoTwins' /\ OwnKnown'
  <2>1. CASE Connect(c)
    <3>1. PICK ids \in {Ids} \cup (IF "relay_fault" \in Env THEN {cache[c]} ELSE {}) :
            cache' = [cache EXCEPT ![c] = ids]
      BY <2>1 DEF Connect
    <3>2. cache \in [Clones -> SUBSET Ids] /\ cache[c] \subseteq ids
      BY <1>1, <3>1 DEF Inv, TypeOK
    <3>3. \A d \in Clones : cache[d] \subseteq cache'[d]
      BY <3>1, <3>2
    <3> QED
      BY <1>4, <2>1, <3>3 DEF Connect
  <2>2. CASE Stop(c)
    BY <1>4, <2>2 DEF Stop, cloneVars
  <2>3. CASE \E k \in Commits : PushMain(c, k)
    BY <1>1, <1>2, <2>3, MainTwins
  <2>4. ASSUME NEW ref \in PushableRefs(c), NEW k \in Commits, NEW force \in BOOLEAN,
               Push(c, ref, k, force)
        PROVE  NoTwins' /\ OwnKnown'
    BY <1>1, <1>2, <2>4, PushTwins
  <2>5. HelperStep(c) => \/ Connect(c) \/ Stop(c) \/ \E k \in Commits : PushMain(c, k)
                         \/ \E ref \in PushableRefs(c), k \in Commits, force \in BOOLEAN :
                                Push(c, ref, k, force)
    BY DEF HelperStep
  <2> QED
    BY <1>5, <2>1, <2>2, <2>3, <2>4, <2>5
<1>6. ASSUME OtherClients PROVE NoTwins' /\ OwnKnown'
  BY <1>1, <1>2, <1>6, OthersTwins
<1>7. NoTwins' /\ OwnKnown'
  BY <1>3, <1>5, <1>6 DEF Next
<1> QED
  BY <1>2, <1>7 DEF IndTwins

\* An account that pushes from one clone, the branch it has checked out and
\* names that stay as they are, never has two proposals of one name, however
\* relays fail, clocks differ, pushes overlap and others revise, close or merge
\* what it proposed: find_proposal_and_patches_by_branch_name always finds the
\* first in the cache.
THEOREM OneProposalPerName ==
    ASSUME OneClone, PlainNames, FirstOnes
    PROVE  Spec => []NoTwins
<1>1. Init => IndTwins
  BY InitTwins
<1>2. IndTwins /\ [Next]_vars => IndTwins'
  BY NextTwins
<1>3. IndTwins => NoTwins
  BY DEF IndTwins
<1> QED
  BY <1>1, <1>2, <1>3, PTL DEF Spec

-----------------------------------------------------------------------------
(* What takes commits off a branch.                                        *)

\* A part of a log that has every patch that counts.
HasAll(lg, ids) == \A i \in Patches(lg, All(lg)) : MayAdd(lg, i) => i \in ids

\* It shows of a proposal what the log does.
LEMMA Counting ==
    ASSUME NEW lg, WellThreaded(lg), NEW ids \in SUBSET All(lg), HasAll(lg, ids),
           NEW p \in Roots(lg, ids)
    PROVE  \A i : i \in PatchesOf(lg, ids, p) <=>
                /\ i \in Patches(lg, All(lg)) /\ ProposalOf(lg, i) = p
                /\ MayAdd(lg, i) /\ ~IsCoverLetter(lg[i])
<1>1. ASSUME NEW i \in PatchesOf(lg, ids, p)
      PROVE  /\ i \in Patches(lg, All(lg)) /\ ProposalOf(lg, i) = p
             /\ MayAdd(lg, i) /\ ~IsCoverLetter(lg[i])
  BY OfPatches
<1>2. ASSUME NEW i \in Patches(lg, All(lg)), ProposalOf(lg, i) = p,
             MayAdd(lg, i), ~IsCoverLetter(lg[i])
      PROVE  i \in PatchesOf(lg, ids, p)
  <2> DEFINE r == SetRoot(lg, i)
  <2>1. i \in Patches(lg, ids) /\ lg[i].author \in Permissioned(lg, p)
    BY <1>2 DEF HasAll, Patches, MayAdd
  <2>2. i \in Nat \ {0} /\ i <= Len(lg) /\ Len(lg) \in Nat
    BY PatchTypes DEF WellThreaded
  <2>3. r \in Patches(lg, 1..i) /\ lg[r].root
    BY RootOfSet
  <2>4. r \in Patches(lg, All(lg))
    BY <2>2, <2>3 DEF Patches, All
  <2> HIDE DEF r
  <2>5. r \in SetsOf(lg, ids, p)
    <3>1. CASE ~lg[r].revision
      <4>1. r = p
        BY <1>2, <3>1 DEF ProposalOf, r
      <4> QED
        BY <4>1 DEF SetsOf
    <3>2. CASE lg[r].revision
      <4>1. lg[r].parent = p
        BY <1>2, <3>2 DEF ProposalOf, r
      <4>2. MayAdd(lg, r)
        BY <2>3, <2>4, <3>2 DEF WellThreaded, InThread
      <4>3. lg[r].author \in Permissioned(lg, p)
        BY <2>3, <3>2, <4>1, <4>2 DEF MayAdd, ProposalOf, SetRoot
      <4>4. r \in Patches(lg, ids)
        BY <2>4, <4>2 DEF HasAll, Patches
      <4>5. r \in Tagging(lg, ids, {p})
        BY <4>1, <4>4 DEF Tagging
      <4> QED
        BY <3>2, <4>3, <4>5 DEF SetsOf
    <3> QED
      BY <3>1, <3>2
  <2>6. SetRoot(lg, i) \in SetsOf(lg, ids, p)
    BY <2>5 DEF r
  <2> QED
    BY <1>2, <2>1, <2>6, PatchesOfIs
<1> QED
  BY <1>1, <1>2

LEMMA SameParts ==
    ASSUME NEW lg, WellThreaded(lg), NEW ids \in SUBSET All(lg), HasAll(lg, ids),
           NEW p \in Roots(lg, ids)
    PROVE  PatchesOf(lg, ids, p) = PatchesOf(lg, All(lg), p)
<1>1. HasAll(lg, All(lg)) /\ p \in Roots(lg, All(lg))
  BY DEF HasAll, Roots, Patches
<1> DEFINE some == PatchesOf(lg, ids, p)
           all == PatchesOf(lg, All(lg), p)
           counts(i) == /\ i \in Patches(lg, All(lg)) /\ ProposalOf(lg, i) = p
                        /\ MayAdd(lg, i) /\ ~IsCoverLetter(lg[i])
<1>2. \A i : i \in some <=> counts(i)
  BY Counting
<1>3. \A i : i \in all <=> counts(i)
  BY <1>1, Counting
<1> HIDE DEF some, all, counts
<1>4. some = all
  BY <1>2, <1>3
<1> QED
  BY <1>4 DEF some, all

\* The patches of a proposal that no patch is added to are what they were.
LEMMA SamePatches ==
    ASSUME NEW lg, WellThreaded(lg), NEW lg2, Extends(lg2, lg), WellThreaded(lg2),
           NEW p \in Roots(lg, All(lg)),
           \A j \in Patches(lg2, All(lg2) \ All(lg)) : MayAdd(lg2, j) => ProposalOf(lg2, j) # p
    PROVE  /\ p \in Roots(lg2, All(lg2))
           /\ PatchesOf(lg2, All(lg2), p) = PatchesOf(lg, All(lg), p)
           /\ Tips(lg2, PatchesOf(lg2, All(lg2), p)) = Tips(lg, PatchesOf(lg, All(lg), p))
<1>1. /\ HasAll(lg, All(lg)) /\ HasAll(lg2, All(lg2)) /\ All(lg) \subseteq All(lg2)
      /\ \A i \in All(lg) : lg2[i] = lg[i]
  BY PatchTypes DEF HasAll, Extends, WellThreaded, All
<1>2. Patches(lg2, All(lg)) = Patches(lg, All(lg)) /\ Roots(lg2, All(lg)) = Roots(lg, All(lg))
  BY OlderStay
<1>3. p \in Roots(lg2, All(lg2))
  BY <1>1, <1>2 DEF Roots, Patches
<1> DEFINE old == PatchesOf(lg, All(lg), p)
           now == PatchesOf(lg2, All(lg2), p)
<1>4. \A i : i \in old <=>
        /\ i \in Patches(lg, All(lg)) /\ ProposalOf(lg, i) = p
        /\ MayAdd(lg, i) /\ ~IsCoverLetter(lg[i])
  BY <1>1, Counting
<1>5. \A i : i \in now <=>
        /\ i \in Patches(lg2, All(lg2)) /\ ProposalOf(lg2, i) = p
        /\ MayAdd(lg2, i) /\ ~IsCoverLetter(lg2[i])
  BY <1>1, <1>3, Counting
<1> HIDE DEF old, now
<1>6. \A i \in Patches(lg, All(lg)) :
        ProposalOf(lg2, i) = ProposalOf(lg, i) /\ MayAdd(lg2, i) = MayAdd(lg, i)
  BY OlderStay
<1>7. ASSUME NEW i \in old PROVE i \in now
  <2>1. i \in Patches(lg, All(lg)) /\ i \in Patches(lg2, All(lg2)) /\ lg2[i] = lg[i]
    BY <1>1, <1>2, <1>4 DEF Patches
  <2> QED
    BY <1>4, <1>5, <1>6, <2>1
<1>8. ASSUME NEW i \in now PROVE i \in old
  <2>1. i \in All(lg)
    BY <1>5 DEF Patches
  <2>2. i \in Patches(lg, All(lg)) /\ lg2[i] = lg[i]
    BY <1>1, <1>2, <1>5, <2>1 DEF Patches
  <2> QED
    BY <1>4, <1>5, <1>6, <2>2
<1>9. now = old
  BY <1>7, <1>8
<1>10. \A i \in old : lg2[i] = lg[i]
  BY <1>1, <1>4 DEF Patches
<1>11. Tips(lg2, old) = Tips(lg, old)
  <2>1. Youngest(lg2, old) = Youngest(lg, old) /\ Youngest(lg, old) \subseteq old
    BY <1>10 DEF Youngest
  <2> QED
    BY <1>10, <2>1 DEF Tips
<1> QED
  BY <1>3, <1>9, <1>11 DEF old, now

\* Each branch has one end.
OneEnd(lg) ==
    \A p \in Roots(lg, All(lg)) : \A t, u \in Tips(lg, PatchesOf(lg, All(lg), p)) : t = u

\* What a step that adds to no branch keeps.

\* A commit that ends a branch is that of a tip.
LEMMA BranchIs ==
    ASSUME NEW p
    PROVE  /\ \A k \in Branch(p) :
                /\ p \in AllProposals(log, All(log))
                /\ \E t \in Tips(log, PatchesOf(log, All(log), p)) : k = log[t].commit
           /\ \A k \in Branch(p)' :
                \E t \in Tips(log', PatchesOf(log', All(log'), p)) : k = log'[t].commit
<1>1. Ids = All(log) /\ Ids' = All(log')
  BY DEF Ids, All
<1>2. ASSUME NEW k \in Branch(p)
      PROVE  /\ p \in AllProposals(log, All(log))
             /\ \E t \in Tips(log, PatchesOf(log, All(log), p)) : k = log[t].commit
  BY <1>1 DEF Branch, TipCommits
<1>3. ASSUME NEW k \in Branch(p)'
      PROVE  \E t \in Tips(log', PatchesOf(log', All(log'), p)) : k = log'[t].commit
  BY <1>1 DEF Branch, TipCommits
<1> QED
  BY <1>2, <1>3

\* Branches that nothing is added to stay.
LEMMA BranchStays ==
    ASSUME WellThreaded(log), WellThreaded(log'), Extends(log', log), OneEnd(log),
           NEW p \in Roots(log, All(log)),
           \A j \in Patches(log', All(log') \ All(log)) : MayAdd(log', j) => ProposalOf(log', j) # p
    PROVE  /\ \A t, u \in Tips(log', PatchesOf(log', All(log'), p)) : t = u
           /\ \A k \in Branch(p), k2 \in Branch(p)' : FastForward(k, k2)
<1> DEFINE tips == Tips(log, PatchesOf(log, All(log), p))
<1>1. Tips(log', PatchesOf(log', All(log'), p)) = tips
  BY SamePatches
<1>2. \A t, u \in tips : t = u
  BY DEF OneEnd
<1>3. ASSUME NEW k \in Branch(p), NEW k2 \in Branch(p)'
      PROVE  FastForward(k, k2)
  <2>1. PICK t \in tips : k = log[t].commit
    BY BranchIs
  <2>2. PICK u \in tips : k2 = log'[u].commit
    BY <1>1, BranchIs
  <2>3. p \in AllProposals(log, All(log))
    BY BranchIs
  <2>4. t \in Patches(log, All(log)) /\ log[t].commit \in Commits
    BY <2>3, OfProposal
  <2>5. log'[t] = log[t]
    BY <2>4 DEF Patches, Extends
  <2>6. k = k2 /\ k \in Commits
    BY <1>2, <2>1, <2>2, <2>4, <2>5
  <2> QED
    BY <2>6, AncestorsAssumption DEF FastForward
<1> QED
  BY <1>1, <1>2, <1>3

\* Nothing is of the future.
NotAhead == \A i \in All(log) : log[i].at <= clock

\* A helper that runs is the only one, and was told of all patches that count.
HelperKnows ==
    \A c \in Clones : pc[c] = "listed" =>
        (\A d \in Clones : pc[d] = "listed" => d = c) /\ HasAll(log, cache[c])

\* Steps that add to no branch.
LEMMA NothingAdded ==
    ASSUME WellThreaded(log), WellThreaded(log'), Extends(log', log), OneEnd(log),
           \A j \in Patches(log', All(log') \ All(log)) : ~MayAdd(log', j)
    PROVE  KeepsCommits /\ OneEnd(log')
<1>1. Ids = All(log) /\ Ids' = All(log')
  BY DEF Ids, All
<1>2. \A p \in Roots(log, All(log)) :
        /\ \A t, u \in Tips(log', PatchesOf(log', All(log'), p)) : t = u
        /\ \A k \in Branch(p), k2 \in Branch(p)' : FastForward(k, k2)
  BY BranchStays
<1>3. KeepsCommits
  BY <1>1, <1>2 DEF KeepsCommits
<1>4. ASSUME NEW p \in Roots(log', All(log'))
      PROVE  p \in Roots(log, All(log))
  <2>1. Roots(log', All(log)) = Roots(log, All(log))
    BY OlderStay
  <2>2. CASE p \in All(log)
    BY <2>1, <2>2 DEF Roots, Patches
  <2>3. CASE p \notin All(log)
    <3>1. p \in Patches(log', All(log') \ All(log)) /\ log'[p].root /\ ~log'[p].revision
      BY <2>3 DEF Roots, Patches
    <3>2. MayAdd(log', p)
      BY <3>1 DEF MayAdd, Permissioned, ProposalOf, SetRoot
    <3> QED
      BY <3>1, <3>2
  <2> QED
    BY <2>2, <2>3
<1>5. OneEnd(log')
  BY <1>2, <1>4 DEF OneEnd
<1> QED
  BY <1>3, <1>5

\* Pushes that are taken by all relays, in turns.
TakeTurns == Env \cap {"concurrent", "relay_fault", "clocks"} = {}

\* What a push adds: patches of proposal p, of the second after all others, if
\* anything.
Adds(c, k, force) ==
    /\ last' \in PushReport /\ last'.clone = c /\ last'.commit = k /\ last'.complete
    /\ last'.new = Len(log) + 1..Len(log') /\ Len(log) < Len(log') /\ Extends(log', log)
    /\ last'.force <=> force
    /\ \A i \in Len(log) + 1..Len(log') : log'[i].at = clock + 1
    /\ clock' = clock + 1
    /\ \/ last'.proposal = Len(log) + 1
       \/ /\ last'.proposal \in AllProposals(log, cache[c])
          /\ \/ force
             \/ \E t \in Tips(log, PatchesOf(log, cache[c], last'.proposal)) :
                    FastForward(log[t].commit, k)

LEMMA PublishedAll ==
    ASSUME TakeTurns, RestOK, WellThreaded(log), CachesOK, WellThreaded(log'), NEW c \in Clones,
           NEW at \in Dates, NEW events \in Log, OfOneSecond(events, at), Publish(c, events, at),
           NEW p \in Nat, NEW k \in Commits, NEW force \in BOOLEAN,
           last' = Report(c, p, k, force, events), log' # log,
           \/ p = Len(log) + 1
           \/ /\ p \in AllProposals(log, cache[c])
              /\ \/ force
                 \/ \E t \in Tips(log, PatchesOf(log, cache[c], p)) : FastForward(log[t].commit, k)
    PROVE  Adds(c, k, force)
<1>1. /\ log \in Log /\ Len(log) \in Nat /\ events \in Log /\ Len(events) \in Nat
      /\ log' \in Log /\ Len(log') \in Nat /\ clock \in Nat
  BY DEF WellThreaded, Log, RestOK
<1>2. at = clock + 1
  BY DEF TakeTurns, Dates
<1>3. log' = log \o SubSeq(events, 1, Len(events)) /\ clock' = Later(at)
  BY DEF TakeTurns, Publish
<1>4. /\ Len(log') = Len(log) + Len(events) /\ Extends(log', log)
      /\ \A i \in 1..Len(events) : log'[Len(log) + i] = events[i]
  <2>1. Len(events) \in 0..Len(events)
    BY <1>1
  <2> QED
    BY <1>1, <1>3, <2>1, Added
<1>5. Len(events) # 0
  <2> SUFFICES ASSUME Len(events) = 0 PROVE log' = log
    OBVIOUS
  <2>1. SubSeq(events, 1, Len(events)) = << >>
    BY <1>1
  <2>2. log \o << >> = log
    BY <1>1 DEF Log
  <2> QED
    BY <1>3, <2>1, <2>2
<1>6. ASSUME NEW i \in Len(log) + 1..Len(log')
      PROVE  log'[i].at = clock + 1
  <2>1. i - Len(log) \in 1..Len(events) /\ Len(log) + (i - Len(log)) = i
    BY <1>1, <1>4
  <2> QED
    BY <1>2, <1>4, <2>1 DEF OfOneSecond
<1>7. clock' = clock + 1
  BY <1>1, <1>2, <1>3 DEF Later
<1>8. last' \in PushReport
  BY <1>1, Reported
<1>9. /\ last'.clone = c /\ last'.commit = k /\ last'.complete /\ last'.proposal = p
      /\ last'.new = Len(log) + 1..Len(log') /\ (last'.force <=> force)
  BY <1>4 DEF Report
<1>10. Len(log) < Len(log')
  BY <1>1, <1>4, <1>5
<1> QED
  BY <1>4, <1>6, <1>7, <1>8, <1>9, <1>10 DEF Adds

\* A push to a pr/ branch.
LEMMA PushAdds ==
    ASSUME TakeTurns, RestOK, WellThreaded(log), CachesOK, WellThreaded(log'), NEW c \in Clones,
           NEW ref \in Ref, NEW k \in Commits, NEW force \in BOOLEAN, Push(c, ref, k, force)
    PROVE  log' = log \/ Adds(c, k, force)
<1> SUFFICES ASSUME log' # log PROVE Adds(c, k, force)
  OBVIOUS
<1>1. /\ Owner[c] \in Users /\ Safe \in [Names -> Names] /\ ref.name \in Names
      /\ clock \in Nat /\ log \in Log /\ Len(log) \in Nat
      /\ cache[c] \in SUBSET All(log) /\ tracked[c] \in Commits
  BY ProposalsAssumption, PatchThreadsAssumption DEF RestOK, WellThreaded, Log, CachesOK, Ref
<1>2. \A at \in Dates : at \in Nat
  BY <1>1 DEF Dates
<1>3. ASSUME NEW at \in Dates, NEW name \in Names, NEW q \in Nat, NEW p \in Nat,
             LET events == PatchSet(log, RootEvent(Owner[c], at, name, q, {}), FALSE, Ahead(tracked[c], k))
             IN  Publish(c, events, at) /\ last' = Report(c, p, k, force, events),
             p = Len(log) + 1 \/ (p \in AllProposals(log, cache[c]) /\ force)
      PROVE  Adds(c, k, force)
  <2> DEFINE events == PatchSet(log, RootEvent(Owner[c], at, name, q, {}), FALSE, Ahead(tracked[c], k))
             cs == Ordered(Ahead(tracked[c], k))
  <2>1. at \in Nat
    BY <1>2
  <2>2. IsThread(events, cs, Owner[c], Len(log), Len(log) + 1)
    BY <1>1, <2>1, SetTypes
  <2>3. OfOneSecond(events, at)
    BY <1>1, <2>1, SetDates
  <2>4. Publish(c, events, at) /\ last' = Report(c, p, k, force, events)
    BY <1>3
  <2> HIDE DEF events, cs
  <2>5. events \in Log
    BY <2>2 DEF IsThread, Log
  <2> QED
    BY <1>3, <2>3, <2>4, <2>5, PublishedAll
<1>4. ASSUME NEW at \in Dates, NewProposal(c, ref, k, force, at)
      PROVE  Adds(c, k, force)
  <2>1. \E name \in Names :
            LET events == PatchSet(log, RootEvent(Owner[c], at, Safe[name], 0, {}), FALSE,
                                   Ahead(tracked[c], k))
            IN  Publish(c, events, at) /\ last' = Report(c, Len(log) + 1, k, force, events)
    BY <1>1, <1>4 DEF NewProposal
  <2>2. PICK name \in Names :
            LET events == PatchSet(log, RootEvent(Owner[c], at, Safe[name], 0, {}), FALSE,
                                   Ahead(tracked[c], k))
            IN  Publish(c, events, at) /\ last' = Report(c, Len(log) + 1, k, force, events)
    BY <2>1
  <2>3. Safe[name] \in Names /\ Len(log) + 1 \in Nat
    BY <1>1
  <2> QED
    BY <1>3, <2>2, <2>3
<1>5. ASSUME NEW p \in Found(c, ref)
      PROVE  p \in AllProposals(log, cache[c]) /\ p \in Nat
  BY <1>1, OfProposal DEF Found
<1>6. ASSUME NEW p \in Found(c, ref), NEW at \in Dates, Revise(c, ref, p, k, force, at)
      PROVE  Adds(c, k, force)
  <2>1. LET events == PatchSet(log, RootEvent(Owner[c], at, ref.name, p, {}), FALSE, Ahead(tracked[c], k))
        IN  Publish(c, events, at) /\ last' = Report(c, p, k, force, events)
    BY <1>6 DEF Revise
  <2>2. force
    BY <1>6 DEF Revise
  <2> QED
    BY <1>1, <1>3, <1>5, <2>1, <2>2
<1>7. ASSUME NEW p \in Found(c, ref), NEW at \in Dates, Extend(c, ref, p, k, force, at)
      PROVE  Adds(c, k, force)
  <2>1. PICK t \in Tips(log, PatchesOf(log, cache[c], p)) :
            LET events == Appended(log, Owner[c], at, t, Ahead(log[t].commit, k))
            IN  /\ FastForward(log[t].commit, k)
                /\ Publish(c, events, at) /\ last' = Report(c, p, k, force, events)
    BY <1>7 DEF Extend
  <2> DEFINE events == Appended(log, Owner[c], at, t, Ahead(log[t].commit, k))
             cs == Ordered(Ahead(log[t].commit, k))
  <2>2. /\ t \in Patches(log, All(log)) /\ log[t].commit \in Commits
        /\ p \in AllProposals(log, cache[c]) /\ p \in Nat /\ at \in Nat
    BY <1>1, <1>2, <1>5, OfProposal
  <2>3. IsThread(events, cs, Owner[c], Len(log), SetRoot(log, t))
    BY <1>1, <2>2, AppendedTypes
  <2>4. OfOneSecond(events, at)
    BY <2>2, AppendedDates
  <2>5. Publish(c, events, at) /\ last' = Report(c, p, k, force, events)
    BY <2>1
  <2> HIDE DEF events, cs
  <2>6. events \in Log
    BY <2>3 DEF IsThread, Log
  <2> QED
    BY <2>1, <2>2, <2>4, <2>5, <2>6, PublishedAll
<1>8. ASSUME NEW p \in Found(c, ref), Refuse(c, p, k, force)
      PROVE  FALSE
  BY <1>8 DEF Refuse
<1> QED
  BY <1>4, <1>6, <1>7, <1>8 DEF Push

\* What ends a branch in a part of a log ends it in the log.
LEMMA EndsInLog ==
    ASSUME NEW lg, WellThreaded(lg), NEW ids \in SUBSET All(lg), NEW p, NEW first, NEW at, NEW k,
           EndsWith(lg, ids, p, first, at, k)
    PROVE  EndsWith(lg, All(lg), p, first, at, k)
<1>1. p \in Roots(lg, ids)
  BY DEF EndsWith
<1>2. Extends(lg, lg)
  BY DEF Extends, WellThreaded, Log
<1>3. p \in Roots(lg, All(lg))
  BY <1>1 DEF Roots, Patches
<1>4. SetsOf(lg, ids, p) \subseteq SetsOf(lg, All(lg), p)
  BY <1>1, <1>2, SetsGrow
<1> DEFINE part == PatchesOf(lg, ids, p)
           all == PatchesOf(lg, All(lg), p)
<1>5. \A i : i \in part => /\ i \in Patches(lg, ids) /\ lg[i].author \in Permissioned(lg, p)
                           /\ ~IsCoverLetter(lg[i]) /\ SetRoot(lg, i) \in SetsOf(lg, ids, p)
  BY <1>1, PatchesOfIs
<1>6. \A i : i \in all <=> /\ i \in Patches(lg, All(lg)) /\ lg[i].author \in Permissioned(lg, p)
                           /\ ~IsCoverLetter(lg[i]) /\ SetRoot(lg, i) \in SetsOf(lg, All(lg), p)
  BY <1>3, PatchesOfIs
<1> HIDE DEF part, all
<1>7. \A i \in part : i \in all
  BY <1>4, <1>5, <1>6 DEF Patches
<1>8. \A u \in first..Len(lg) : u \in part /\ lg[u].at = at
  BY DEF EndsWith, part
<1>9. \A u \in first..Len(lg) : u \in PatchesOf(lg, All(lg), p) /\ lg[u].at = at
  BY <1>7, <1>8 DEF all
<1> QED
  BY <1>3, <1>9 DEF EndsWith

\* The branch that was pushed to ends with the push, the others stay.
LEMMA AddsTo ==
    ASSUME RestOK, WellThreaded(log), CachesOK, OneEnd(log), NotAhead, HelperKnows,
           WellThreaded(log'), CachesOK', Dated(log'), Shown',
           NEW c \in Clones, pc[c] = "listed", NEW k \in Commits, NEW force, Adds(c, k, force)
    PROVE  KeepsCommits /\ OneEnd(log') /\ NotAhead'
<1>0. PICK p : p = last'.proposal
  OBVIOUS
<1> DEFINE newest == Len(log')
           new == Len(log) + 1..Len(log')
           patches == PatchesOf(log', All(log'), p)
<1>1. /\ last' \in PushReport /\ last'.clone = c /\ last'.commit = k /\ last'.complete
      /\ last'.new = new /\ Len(log) < Len(log') /\ Extends(log', log)
      /\ (last'.force <=> force)
      /\ \A i \in new : log'[i].at = clock + 1
      /\ clock' = clock + 1
      /\ \/ p = Len(log) + 1
         \/ /\ p \in AllProposals(log, cache[c])
            /\ force \/ \E t \in Tips(log, PatchesOf(log, cache[c], p)) : FastForward(log[t].commit, k)
  BY <1>0 DEF Adds
<1>2. /\ Len(log) \in Nat /\ newest \in Nat /\ newest \in new /\ clock \in Nat
      /\ cache[c] \in SUBSET All(log) /\ cache'[c] \in SUBSET All(log')
      /\ Ids = All(log) /\ Ids' = All(log')
  BY <1>1 DEF WellThreaded, Log, RestOK, CachesOK, Ids, All
<1>3. All(log') = All(log) \cup new /\ All(log) \cap new = {}
  BY <1>1, <1>2 DEF All
<1>4. EndsWith(log', cache'[c], p, Len(log) + 1, clock + 1, k)
  <2>1. last' # NoPush /\ last'.complete /\ last'.new # {} /\ last'.clone = c
    BY <1>1, <1>2, NoPushAssumption
  <2>2. PICK first \in Nat \ {0}, at \in Nat :
            /\ first <= Len(log') /\ last'.new = first..Len(log')
            /\ EndsWith(log', cache'[c], p, first, at, last'.commit)
    BY <1>0, <2>1 DEF Shown
  <2>3. first = Len(log) + 1
    <3>1. first..newest = Len(log) + 1..newest /\ first <= newest /\ Len(log) + 1 <= newest
      BY <1>1, <1>2, <2>2
    <3>2. first \in Len(log) + 1..newest /\ Len(log) + 1 \in first..newest
      <4>1. first \in first..newest /\ Len(log) + 1 \in Len(log) + 1..newest
        BY <1>2, <2>2, <3>1
      <4> QED
        BY <3>1, <4>1
    <3> QED
      BY <1>2, <2>2, <3>2
  <2>4. at = clock + 1
    <3>1. log'[newest].at = at
      BY <1>2, <2>2, <2>3 DEF EndsWith
    <3> QED
      BY <1>1, <1>2, <3>1
  <2> QED
    BY <1>0, <1>1, <2>2, <2>3, <2>4
<1>5. EndsWith(log', All(log'), p, Len(log) + 1, clock + 1, k)
  BY <1>2, <1>4, EndsInLog
<1>6. /\ p \in Roots(log', All(log')) /\ log'[newest].commit = k
      /\ \A u \in new : u \in patches /\ log'[u].at = clock + 1
      /\ \A u \in (Len(log) + 1) + 1..newest : ~log'[u].root /\ log'[u].parent = u - 1
  BY <1>5 DEF EndsWith
<1>7. NotAhead'
  <2>1. ASSUME NEW i \in All(log')
        PROVE  log'[i].at <= clock'
    <3>1. CASE i \in new
      BY <1>1, <1>2, <3>1
    <3>2. CASE i \in All(log)
      <4>1. log'[i] = log[i] /\ log[i].at <= clock
        BY <1>1, <3>2 DEF Extends, NotAhead
      <4>2. log[i].at \in Nat
        BY <1>2, <3>2 DEF WellThreaded, Log, Patch, Status, All
      <4> QED
        BY <1>1, <1>2, <4>1, <4>2
    <3> QED
      BY <1>3, <3>1, <3>2
  <2> QED
    BY <2>1 DEF NotAhead
<1>8. Tips(log', patches) = {newest}
  <2>1. ASSUME NEW i \in patches \ new
        PROVE  Below(log', i, newest, patches)
    <3>1. i \in All(log') /\ log'[i] \in Patch
      BY <1>6, OfPatches DEF All
    <3>2. i \in All(log)
      BY <1>3, <2>1, <3>1
    <3>3. log'[i] = log[i] /\ log[i].at <= clock /\ log[i].at \in Nat
      BY <1>1, <3>1, <3>2 DEF Extends, NotAhead, Patch
    <3>4. log'[newest].at = clock + 1
      BY <1>1, <1>2
    <3> QED
      BY <1>2, <3>3, <3>4 DEF Below
  <2>2. Len(log) + 1 \in Nat \ {0} /\ Len(log) + 1 <= Len(log')
    BY <1>1, <1>2
  <2> HIDE DEF new
  <2>3. new = Len(log) + 1..Len(log')
    BY DEF new
  <2> QED
    BY <1>6, <2>1, <2>2, <2>3, EndsWithPush
\* What is new is of that proposal only.
<1>9. \A j \in Patches(log', All(log') \ All(log)) : ProposalOf(log', j) = p
  <2> SUFFICES ASSUME NEW j \in Patches(log', All(log') \ All(log)) PROVE ProposalOf(log', j) = p
    OBVIOUS
  <2>1. j \in new
    BY <1>3 DEF Patches
  <2>2. j \in patches
    BY <1>6, <2>1
  <2> QED
    BY <1>6, <2>2, OfPatches
<1>10. ASSUME NEW q \in Roots(log, All(log)), q # p
       PROVE  /\ \A t, u \in Tips(log', PatchesOf(log', All(log'), q)) : t = u
              /\ \A k1 \in Branch(q), k2 \in Branch(q)' : FastForward(k1, k2)
  BY <1>1, <1>9, <1>10, BranchStays
<1>11. OneEnd(log')
  <2> SUFFICES ASSUME NEW q \in Roots(log', All(log'))
               PROVE  \A t, u \in Tips(log', PatchesOf(log', All(log'), q)) : t = u
    BY DEF OneEnd
  <2>1. CASE q = p
    BY <1>8, <2>1
  <2>2. CASE q # p
    <3>1. q \in All(log)
      <4>1. CASE q \in new
        <5>1. q \in Patches(log', All(log') \ All(log)) /\ log'[q].root /\ ~log'[q].revision
          BY <1>3, <4>1 DEF Roots, Patches
        <5>2. ProposalOf(log', q) = q
          BY <5>1 DEF ProposalOf, SetRoot
        <5> QED
          BY <1>9, <2>2, <5>1, <5>2
      <4>2. CASE q \notin new
        BY <1>3, <4>2 DEF Roots, Patches
      <4> QED
        BY <4>1, <4>2
    <3>2. Roots(log', All(log)) = Roots(log, All(log))
      BY <1>1, OlderStay
    <3>3. q \in Roots(log, All(log))
      BY <3>1, <3>2 DEF Roots, Patches
    <3> QED
      BY <1>10, <2>2, <3>3
  <2> QED
    BY <2>1, <2>2
<1>12. ASSUME ~force, p \in Roots(log, All(log)), NEW k1 \in Branch(p), NEW k2 \in Branch(p)'
       PROVE  FastForward(k1, k2)
  <2>1. p # Len(log) + 1
    BY <1>2, <1>12 DEF Roots, Patches, All
  <2>2. PICK t \in Tips(log, PatchesOf(log, cache[c], p)) : FastForward(log[t].commit, k)
    BY <1>1, <1>12, <2>1
  <2>3. PatchesOf(log, cache[c], p) = PatchesOf(log, All(log), p)
    <3>1. p \in AllProposals(log, cache[c])
      BY <1>1, <2>1
    <3>2. p \in Roots(log, cache[c]) /\ HasAll(log, cache[c])
      BY <3>1 DEF AllProposals, HelperKnows
    <3> QED
      BY <1>2, <3>2, SameParts
  <2>4. PICK u \in Tips(log, PatchesOf(log, All(log), p)) : k1 = log[u].commit
    BY BranchIs
  <2>5. u = t
    BY <1>12, <2>2, <2>3, <2>4 DEF OneEnd
  <2>6. PICK v \in Tips(log', PatchesOf(log', All(log'), p)) : k2 = log'[v].commit
    BY BranchIs
  <2>7. v = newest
    BY <1>8, <2>6
  <2>8. k2 = k
    <3>1. log'[newest].commit = k
      BY <1>6
    <3> QED
      BY <2>6, <2>7, <3>1
  <2> QED
    BY <2>2, <2>4, <2>5, <2>8
<1>13. KeepsCommits
  <2>1. CASE force
    BY <1>1, <2>1, NoPushAssumption DEF KeepsCommits
  <2>2. CASE ~force
    <3>1. \A q \in Roots(log, All(log)) : \A k1 \in Branch(q), k2 \in Branch(q)' : FastForward(k1, k2)
      <4> SUFFICES ASSUME NEW q \in Roots(log, All(log)), NEW k1 \in Branch(q), NEW k2 \in Branch(q)'
                   PROVE  FastForward(k1, k2)
        OBVIOUS
      <4>1. CASE q = p
        BY <1>12, <2>2, <4>1
      <4>2. CASE q # p
        BY <1>10, <4>2
      <4> QED
        BY <4>1, <4>2
    <3> QED
      BY <1>2, <3>1 DEF KeepsCommits
  <2> QED
    BY <2>1, <2>2
<1> QED
  BY <1>7, <1>11, <1>13

\* Who had all patches that count still does if none is added.
LEMMA StillAll ==
    ASSUME NEW lg, WellThreaded(lg), NEW lg2, Extends(lg2, lg), NEW ids, HasAll(lg, ids),
           \A j \in Patches(lg2, All(lg2) \ All(lg)) : ~MayAdd(lg2, j)
    PROVE  HasAll(lg2, ids)
<1> SUFFICES ASSUME NEW i \in Patches(lg2, All(lg2)), MayAdd(lg2, i) PROVE i \in ids
  BY DEF HasAll
<1>1. i \in All(lg)
  BY DEF Patches
<1>2. i \in Patches(lg, All(lg))
  <2>1. Patches(lg2, All(lg)) = Patches(lg, All(lg))
    BY OlderStay
  <2> QED
    BY <1>1, <2>1 DEF Patches
<1>3. MayAdd(lg, i)
  BY <1>2, OlderStay
<1> QED
  BY <1>2, <1>3 DEF HasAll

\* Afterwards no helper runs.
LEMMA NobodyRuns ==
    ASSUME RestOK, HelperKnows, NEW c \in Clones, pc[c] = "listed", Exit(c)
    PROVE  HelperKnows'
<1>1. \A d \in Clones : pc'[d] # "listed"
  BY DEF Exit, HelperKnows, RestOK
<1> QED
  BY <1>1 DEF HelperKnows

\* Dates of what is added.
LEMMA StillPast ==
    ASSUME RestOK, WellThreaded(log), NotAhead, WellThreaded(log'), Extends(log', log),
           clock' \in Nat, clock <= clock',
           \A j \in All(log') \ All(log) : log'[j].at <= clock'
    PROVE  NotAhead'
<1> SUFFICES ASSUME NEW i \in All(log') PROVE log'[i].at <= clock'
  BY DEF NotAhead
<1>1. CASE i \in All(log)
  <2>1. log'[i] = log[i] /\ log[i].at <= clock
    BY <1>1 DEF Extends, NotAhead
  <2>2. log[i].at \in Nat /\ clock \in Nat
    BY <1>1 DEF WellThreaded, Log, Patch, Status, All, RestOK
  <2> QED
    BY <2>1, <2>2
<1>2. CASE i \notin All(log)
  BY <1>2
<1> QED
  BY <1>1, <1>2

LEMMA LaterIs ==
    ASSUME clock \in Nat, NEW at \in Nat
    PROVE  Later(at) \in Nat /\ clock <= Later(at) /\ at <= Later(at)
  BY DEF Later

\* The invariant: besides that of PushShown, each branch has one end, nothing is
\* dated after the clock, and the helper that runs, the only one, has seen every
\* patch that counts.
IndDrops == IndShown /\ OneEnd(log) /\ NotAhead /\ HelperKnows

LEMMA MainDrops ==
    ASSUME RestOK, WellThreaded(log), CachesOK, OneEnd(log), NotAhead, HelperKnows,
           WellThreaded(log'), NEW c \in Clones, pc[c] = "listed", NEW k \in Commits, PushMain(c, k)
    PROVE  KeepsCommits /\ OneEnd(log') /\ NotAhead' /\ HelperKnows'
<1>1. PICK at \in Nat, events \in Seq(Status) : Publish(c, events, at) /\ OfOneSecond(events, at)
  BY MainPublishes
<1>2. events \in Log /\ Len(events) \in Nat /\ log \in Log /\ Len(log) \in Nat /\ clock \in Nat
  BY DEF Log, WellThreaded, RestOK
<1>3. Extends(log', log) /\ Patches(log', All(log') \ All(log)) = {}
  BY <1>1, StatusesPublished
<1>4. KeepsCommits /\ OneEnd(log')
  BY <1>3, NothingAdded
<1>5. NotAhead'
  <2>1. CASE log' = log
    <3>1. clock' = clock
      BY <1>1, <2>1 DEF Publish
    <3> QED
      BY <2>1, <3>1 DEF NotAhead
  <2>2. CASE log' # log
    <3>1. clock' = Later(at)
      BY <1>1, <2>2 DEF Publish
    <3>2. clock' \in Nat /\ clock <= clock' /\ at <= clock'
      BY <1>2, <3>1, LaterIs
    <3>3. PICK n \in 0..Len(events) : log' = log \o SubSeq(events, 1, n) /\ Len(log') = Len(log) + n
      BY <1>1, <1>2, PublishedIs
    <3>4. \A i \in 1..n : log'[Len(log) + i] = events[i]
      BY <1>2, <3>3, Added
    <3>5. ASSUME NEW j \in All(log') \ All(log)
          PROVE  log'[j].at <= clock'
      <4>1. n \in Nat /\ n <= Len(events) /\ j \in Len(log) + 1..Len(log) + n
        BY <1>2, <3>3 DEF All
      <4>2. j - Len(log) \in 1..n /\ j - Len(log) \in 1..Len(events) /\ Len(log) + (j - Len(log)) = j
        BY <1>2, <4>1
      <4>3. log'[j] = events[j - Len(log)]
        BY <3>4, <4>2
      <4>4. log'[j].at = at
        BY <1>1, <4>2, <4>3 DEF OfOneSecond
      <4> QED
        BY <3>2, <4>4
    <3> QED
      BY <1>3, <3>2, <3>5, StillPast
  <2> QED
    BY <2>1, <2>2
<1>6. HelperKnows'
  BY NobodyRuns DEF PushMain
<1> QED
  BY <1>4, <1>5, <1>6

LEMMA OthersDrop ==
    ASSUME RestOK, WellThreaded(log), CachesOK, OneEnd(log), NotAhead, HelperKnows,
           WellThreaded(log'), OtherClients
    PROVE  KeepsCommits /\ OneEnd(log') /\ NotAhead' /\ HelperKnows'
<1>1. PICK e \in Patch \cup Status :
        Posted(e) /\ (IsPatch(e) => ~MayAdd(Append(log, e), Len(log) + 1))
  BY OthersPost
<1>2. log' = Append(log, e) /\ cache' = cache /\ pc' = pc /\ clock' = Later(e.at)
  BY <1>1 DEF Posted, cloneVars
<1>3. Extends(log', log) /\ Len(log') = Len(log) + 1 /\ log'[Len(log) + 1] = e
  BY <1>2, OneAdded DEF WellThreaded
<1>4. All(log') \ All(log) = {Len(log) + 1}
  BY <1>3 DEF All, WellThreaded, Log
<1>5. \A j \in Patches(log', All(log') \ All(log)) : ~MayAdd(log', j)
  BY <1>1, <1>2, <1>3, <1>4 DEF Patches
<1>6. KeepsCommits /\ OneEnd(log')
  BY <1>3, <1>5, NothingAdded
<1>7. e.at \in Nat
  BY DEF Patch, Status
<1>8. clock' \in Nat /\ clock <= clock' /\ e.at <= clock'
  BY <1>2, <1>7, LaterIs DEF RestOK
<1>9. NotAhead'
  BY <1>3, <1>4, <1>8, StillPast
<1>10. HelperKnows'
  <2>1. \A c \in Clones : HasAll(log, cache[c]) => HasAll(log', cache'[c])
    BY <1>2, <1>3, <1>5, StillAll
  <2> QED
    BY <1>2, <2>1 DEF HelperKnows
<1> QED
  BY <1>6, <1>9, <1>10

\* Steps that leave the log alone.
LEMMA LogStays ==
    ASSUME WellThreaded(log), OneEnd(log), log' = log
    PROVE  KeepsCommits /\ OneEnd(log')
<1>1. Extends(log', log) /\ WellThreaded(log')
  BY DEF Extends, WellThreaded, Log
<1>2. \A j \in Patches(log', All(log') \ All(log)) : ~MayAdd(log', j)
  BY DEF Patches
<1> QED
  BY <1>1, <1>2, NothingAdded

LEMMA NextDrops ==
    ASSUME TakeTurns
    PROVE  IndDrops /\ [Next]_vars => IndDrops' /\ KeepsCommits
<1> SUFFICES ASSUME IndDrops, [Next]_vars PROVE IndDrops' /\ KeepsCommits
  OBVIOUS
<1>1. /\ IndShown /\ OneEnd(log) /\ NotAhead /\ HelperKnows
      /\ RestOK /\ WellThreaded(log) /\ CachesOK
  BY InvIs DEF IndDrops, IndShown
<1>2. IndShown'
  BY <1>1, NextShows
<1>3. WellThreaded(log') /\ CachesOK' /\ Dated(log') /\ Shown'
  BY <1>2 DEF IndShown, Inv, TypeOK, CachesOK, Ids, All, CachesClosed
<1> DEFINE Good == KeepsCommits /\ OneEnd(log') /\ NotAhead' /\ HelperKnows'
<1>4. ASSUME UNCHANGED vars PROVE Good
  <2>1. log' = log /\ clock' = clock /\ cache' = cache /\ pc' = pc
    BY <1>4 DEF vars, cloneVars
  <2> QED
    BY <1>1, <2>1, LogStays DEF NotAhead, HelperKnows
<1>5. ASSUME NEW c \in Clones, HelperStep(c)
      PROVE  Good
  <2>1. CASE Connect(c)
    <3>1. \A d \in Clones : pc[d] = "idle"
      BY <2>1 DEF Connect, TakeTurns
    <3>2. cache' = [cache EXCEPT ![c] = Ids]
      BY <2>1 DEF Connect, TakeTurns
    <3>3. log' = log /\ clock' = clock /\ pc' = [pc EXCEPT ![c] = "listed"]
      BY <2>1 DEF Connect
    <3>4. \A d \in Clones : pc'[d] = "listed" => d = c
      BY <1>1, <3>1, <3>3 DEF RestOK
    <3>5. cache'[c] = All(log')
      BY <1>1, <3>2, <3>3 DEF CachesOK, Ids, All
    <3>6. HelperKnows'
      BY <3>4, <3>5 DEF HelperKnows, HasAll, Patches
    <3> QED
      BY <1>1, <3>3, <3>6, LogStays DEF NotAhead
  <2>2. ASSUME Stop(c), pc[c] = "listed" PROVE Good
    BY <1>1, <2>2, LogStays, NobodyRuns DEF Stop, NotAhead
  <2>3. ASSUME NEW k \in Commits, PushMain(c, k), pc[c] = "listed" PROVE Good
    BY <1>1, <1>3, <2>3, MainDrops
  <2>4. ASSUME NEW ref \in PushableRefs(c), NEW k \in Commits, NEW force \in BOOLEAN,
               Push(c, ref, k, force), pc[c] = "listed"
        PROVE  Good
    <3>1. HelperKnows'
      BY <1>1, <2>4, NobodyRuns DEF Push
    <3>2. CASE Adds(c, k, force)
      BY <1>1, <1>3, <2>4, <3>1, <3>2, AddsTo
    <3>3. CASE log' = log
      <4>1. clock' = clock
        <5>1. ASSUME NEW at, NEW events, Publish(c, events, at) PROVE clock' = clock
          BY <3>3, <5>1 DEF Publish
        <5> QED
          BY <2>4, <5>1 DEF Push, NewProposal, Revise, Extend, Refuse
      <4> QED
        BY <1>1, <3>1, <3>3, <4>1, LogStays DEF NotAhead
    <3>4. ref \in Ref
      BY <1>1, PushableRefsAre
    <3> QED
      BY <1>1, <1>3, <2>4, <3>2, <3>3, <3>4, PushAdds
  <2>5. HelperStep(c) => \/ Connect(c)
                         \/ /\ pc[c] = "listed"
                            /\ \/ Stop(c) \/ \E k \in Commits : PushMain(c, k)
                               \/ \E ref \in PushableRefs(c), k \in Commits, force \in BOOLEAN :
                                    Push(c, ref, k, force)
    BY DEF HelperStep
  <2> QED
    BY <1>5, <2>1, <2>2, <2>3, <2>4, <2>5
<1>6. ASSUME OtherClients PROVE Good
  BY <1>1, <1>3, <1>6, OthersDrop
<1>7. Good
  BY <1>4, <1>5, <1>6 DEF Next
<1> QED
  BY <1>2, <1>7 DEF IndDrops

LEMMA InitDrops ==
    ASSUME TakeTurns, OneEnd(InitLog)
    PROVE  Init => IndDrops
<1> SUFFICES ASSUME Init PROVE IndDrops
  OBVIOUS
<1>1. IndShown /\ RestOK
  BY InitKeeps, InitDates, InvIs DEF IndShown
<1>2. log = InitLog /\ clock = 1 /\ pc = [c \in Clones |-> "idle"]
  BY DEF Init
<1>3. NotAhead
  BY <1>2, ProposalsAssumption DEF NotAhead, All
<1>4. HelperKnows
  BY <1>2 DEF HelperKnows
<1> QED
  BY <1>1, <1>2, <1>3, <1>4 DEF IndDrops

\* While helpers take turns, relays take all events and clocks agree, a branch
\* loses commits only by a forced push, whoever pushes to it, closes, revises or
\* merges it, and whatever strangers post into its thread.
THEOREM DropsAreForced ==
    ASSUME TakeTurns, OneEnd(InitLog)
    PROVE  Spec => OnlyForceDrops
<1>1. IndDrops /\ [Next]_vars => IndDrops' /\ [KeepsCommits]_vars
  BY NextDrops
<1> QED
  BY <1>1, InitDrops, PTL DEF Spec, OnlyForceDrops

-----------------------------------------------------------------------------
(* What a merge closes.                                                    *)

\* The tip of a proposal whose branch is merged is matched by a commit that the
\* walk of the push finds.
LEMMA MergedIsTouched ==
    ASSUME WellThreaded(log), CachesOK, NEW c \in Clones, HasAll(log, cache[c]),
           NEW base \in Commits, NEW k \in Commits, NEW ahead \in Walks(base, k),
           NEW p \in Roots(log, Ids), Branch(p) \cap Merged(base, k) # {}
    PROVE  p \in Touched(cache[c], ahead)
<1> DEFINE after == {a \in Ancestors[k] \ {base} : base \in Ancestors[a]}
<1>1. Ids = All(log) /\ cache[c] \in SUBSET All(log)
  BY DEF Ids, All, CachesOK
<1>2. PICK t \in Tips(log, PatchesOf(log, Ids, p)) : log[t].commit \in Merged(base, k)
  BY DEF Branch, TipCommits
<1>3. /\ t \in Patches(log, All(log)) /\ ProposalOf(log, t) = p
      /\ MayAdd(log, t) /\ log[t] \in Patch
  BY <1>1, OfPatches DEF Tips, Youngest
<1>4. t \in Patches(log, cache[c])
  BY <1>3 DEF HasAll, Patches
<1>5. after \subseteq ahead
  BY DEF Walks
<1>6. CASE \E a \in after : ~IsMerge(a) /\ log[t].commit = a
  <2>1. PICK a \in after : ~IsMerge(a) /\ log[t].commit = a
    BY <1>6
  <2>2. t \in Matching(log, cache[c], a)
    BY <1>4, <2>1 DEF Matching
  <2> QED
    BY <1>3, <1>5, <2>1, <2>2 DEF Touched
<1>7. CASE \E a \in after : IsMerge(a) /\ log[t].commit \in Parents(a)
  <2>1. PICK a \in after : IsMerge(a) /\ log[t].commit \in Parents(a)
    BY <1>7
  <2>2. t \in Matching(log, cache[c], a)
    BY <1>4, <2>1 DEF Matching
  <2> QED
    BY <1>3, <1>5, <2>1, <2>2 DEF Touched
<1> QED
  BY <1>2, <1>6, <1>7 DEF Merged

\* A proposal that nobody but helpers gave a status, and that is given one, is
\* closed.
LEMMA AppliedCloses ==
    ASSUME WellThreaded(log), CachesOK, WellThreaded(log'), TakeTurns,
           NEW c \in Clones, NEW at \in Nat, NEW events \in Seq(Status), Publish(c, events, at),
           NEW ps, Closing(events, ps), NEW p \in Roots(log, Ids) \cap ps, NotByHand(p)
    PROVE  p \notin OpenProposals(Ids)'
<1>1. /\ log \in Log /\ Len(log) \in Nat /\ events \in Log /\ Len(events) \in Nat
      /\ Ids = All(log) /\ Ids' = All(log')
  BY DEF WellThreaded, Log, Ids, All
<1>2. log' = log \o SubSeq(events, 1, Len(events))
  BY DEF TakeTurns, Publish
<1>3. /\ Extends(log', log) /\ Len(log') = Len(log) + Len(events)
      /\ \A i \in 1..Len(events) : log'[Len(log) + i] = events[i]
  <2>1. Len(events) \in 0..Len(events)
    BY <1>1
  <2> QED
    BY <1>1, <1>2, <2>1, Added
<1>4. /\ \A i \in All(log') \ All(log) : ~IsPatch(log'[i])
  BY StatusesPublished DEF Patches
<1> DEFINE old == StatusesOf(log, All(log), p)
           all == StatusesOf(log', All(log'), p)
<1>5. ASSUME NEW i \in all
      PROVE  log'[i].kind = "applied"
  <2>1. i \in All(log') /\ ~IsPatch(log'[i]) /\ log'[i].of = p
    BY DEF StatusesOf, Patches
  <2>2. CASE i \in All(log)
    <3>1. log'[i] = log[i]
      BY <1>3, <2>2 DEF Extends
    <3>2. i \in old
      BY <2>1, <2>2, <3>1 DEF StatusesOf, Patches
    <3> QED
      BY <1>1, <3>1, <3>2 DEF NotByHand
  <2>3. CASE i \notin All(log)
    <3>1. i - Len(log) \in 1..Len(events) /\ Len(log) + (i - Len(log)) = i
      BY <1>1, <1>3, <2>1, <2>3 DEF All
    <3>2. log'[i] = events[i - Len(log)]
      BY <1>3, <3>1
    <3> QED
      BY <3>1, <3>2 DEF Closing
  <2> QED
    BY <2>2, <2>3
<1>6. all # {}
  <2>1. PICK i \in 1..Len(events) : events[i].of = p
    BY DEF Closing
  <2>2. Len(log) + i \in All(log') \ All(log) /\ log'[Len(log) + i] = events[i]
    BY <1>1, <1>3, <2>1 DEF All
  <2>3. Len(log) + i \in all
    BY <1>4, <2>1, <2>2 DEF StatusesOf, Patches
  <2> QED
    BY <2>3
<1>7. \A x \in KindOf(log', All(log'), p) : x = "applied"
  BY <1>5, <1>6 DEF KindOf, Youngest
<1>8. KindOf(log', All(log'), p) \cap {"open", "draft"} = {}
  BY <1>7
<1> QED
  BY <1>1, <1>8 DEF OpenProposals

LEMMA NextCloses ==
    ASSUME TakeTurns
    PROVE  IndDrops /\ [Next]_vars => MergesClose
<1> SUFFICES ASSUME IndDrops, [Next]_vars, main' # main PROVE MergesClose
  BY DEF MergesClose
<1>1. HelperKnows /\ RestOK /\ WellThreaded(log) /\ CachesOK
  BY InvIs DEF IndDrops, IndShown
<1>2. WellThreaded(log')
  <2>1. IndDrops'
    BY NextDrops
  <2> QED
    BY <2>1 DEF IndDrops, IndShown, Inv
<1>3. PICK c \in Clones, k \in Commits : pc[c] = "listed" /\ PushMain(c, k)
  <2>1. ~UNCHANGED vars
    BY DEF vars
  <2>2. ~OtherClients
    BY DEF OtherClients, Stray, SetStatus, Posted
  <2>3. PICK c \in Clones : HelperStep(c)
    BY <2>1, <2>2 DEF Next
  <2>4. ~Connect(c) /\ ~Stop(c) /\ \A ref, k, force : ~Push(c, ref, k, force)
    BY DEF Connect, Stop, Push
  <2> QED
    BY <2>3, <2>4 DEF HelperStep
<1>4. tracked[c] = main /\ main' = k /\ main \in Commits
  BY <1>1, <1>3 DEF PushMain, RestOK
<1>5. PICK ahead \in Walks(tracked[c], k), at \in Nat, events \in Seq(Status) :
        Publish(c, events, at) /\ Closing(events, Touched(cache[c], ahead))
  BY <1>1, <1>3, MergePublishes
<1>6. HasAll(log, cache[c])
  BY <1>1, <1>3 DEF HelperKnows
<1>7. ASSUME NEW p \in Roots(log, Ids), NotByHand(p), Branch(p) \cap Merged(main, main') # {}
      PROVE  p \notin OpenProposals(Ids)'
  <2>1. p \in Touched(cache[c], ahead)
    BY <1>1, <1>4, <1>5, <1>6, <1>7, MergedIsTouched
  <2> QED
    BY <1>1, <1>2, <1>5, <1>7, <2>1, AppliedCloses
<1> QED
  BY <1>7 DEF MergesClose

\* While helpers take turns, relays take all events and clocks agree, a push to
\* main that merges the branch of a proposal closes it.
THEOREM MergesAreSeen ==
    ASSUME TakeTurns, OneEnd(InitLog)
    PROVE  Spec => ClosesMerged
<1>1. IndDrops /\ [Next]_vars => IndDrops' /\ [MergesClose]_vars
  BY NextDrops, NextCloses
<1> QED
  BY <1>1, InitDrops, PTL DEF Spec, ClosesMerged
=============================================================================
