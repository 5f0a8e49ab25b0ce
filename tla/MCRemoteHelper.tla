--------------------------- MODULE MCRemoteHelper ---------------------------
(* Small instances of RemoteHelper: the history                            *)
(*                                                                         *)
(*      c1 <-- c2          and an unrelated root x                         *)
(*     /                                                                   *)
(*   c0 <-- c3                                                             *)
(*                                                                         *)
(* where every clone starts with c0, and so does every git server.         *)
EXTENDS RemoteHelper

CONSTANTS c0, c1, c2, c3, x, h1, h2, alice, bob, s1, s2, main, dev

History == [c \in Commits |->
    CASE c = c0 -> {c0}
      [] c = c1 -> {c0, c1}
      [] c = c2 -> {c0, c1, c2}
      [] c = c3 -> {c0, c3}
      [] c = x  -> {x}]

OneOwner == [h \in Helpers |-> alice]
TwoOwners == [h \in Helpers |-> IF h = h1 THEN alice ELSE bob]
ServerRank == [s \in Servers |-> IF s = s1 THEN 1 ELSE 2]
AllAtRoot == [r \in Refs |-> c0]
Main == Refs \cap {main}

\* Whatever can happen while helpers take turns, and pushes that overlap.
OneAtATime == [may |-> EnvKinds \ {"concurrent"}, commits |-> Commits, events |-> 1]
Overlapping == [may |-> {"concurrent", "force", "direct"}, commits |-> {c0, c1}, events |-> 1]
Pushing == {OneAtATime, Overlapping}
\* Nothing fails, nobody forces.
Calm == {[may |-> {}, commits |-> Commits, events |-> 3]}
=============================================================================
