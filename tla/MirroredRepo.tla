---------------------------- MODULE MirroredRepo ----------------------------
(***************************************************************************)
(* What a nostr repository with several git servers promises: one          *)
(* authoritative map of refs, changed by pushes, and mirrors that hold     *)
(* nothing but copies of it.  A mirror may lag, for ever if it must, but   *)
(* what it shows for a ref changes only to the authoritative value of that *)
(* ref at that moment.                                                     *)
(***************************************************************************)
EXTENDS CommitGraph

CONSTANTS Servers, Refs, InitRefs

VARIABLES state,   \* the refs of the repository
          mirror   \* the refs each git server shows

RefMap == [Refs -> CommitOrNone]

Init == state = InitRefs /\ mirror = [s \in Servers |-> InitRefs]

\* A push changes any number of refs of the repository.
Update == state' \in RefMap /\ UNCHANGED mirror

\* A mirror catches up on some refs.
Copy(s) ==
    /\ \E rs \in SUBSET Refs :
          mirror' = [mirror EXCEPT ![s] =
                        [r \in Refs |-> IF r \in rs THEN state[r] ELSE @[r]]]
    /\ UNCHANGED state

Next == Update \/ \E s \in Servers : Copy(s)

Spec == Init /\ [][Next]_<<state, mirror>>
=============================================================================
