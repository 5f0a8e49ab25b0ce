----------------------------- MODULE MCSendEvents -----------------------------
(* Small instances of SendEvents: lists of up to two urls. *)
EXTENDS SendEvents

CONSTANTS r1, r2

U(host, slash) == [host |-> host, slash |-> slash]
Lists ==
    {<<>>, <<U(r1, FALSE)>>, <<U(r2, TRUE)>>, <<U(r1, TRUE), U(r2, FALSE)>>}
=============================================================================
