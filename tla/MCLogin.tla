------------------------------- MODULE MCLogin -------------------------------
(* Login in several environments. *)
EXTENDS Login, TLC

Environments == {{"bunker"}, {"bunker", "locked"}, {"bunker", "cli"},
                 {"bunker", "fault", "kill"}, {"overlap", "kill"}}

Interchangeable == Permutations(Accounts)
=============================================================================
