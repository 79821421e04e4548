--------------------------- MODULE MCDialedSession ---------------------------
(***************************************************************************)
(* DialedSession on a small instance: every way through the setup, and a   *)
(* session of one frame behind each.                                       *)
(***************************************************************************)
EXTENDS DialedSession

MCBodies == {<<[method |-> "direct", action |-> 0, readable |-> TRUE]>>}

=============================================================================
