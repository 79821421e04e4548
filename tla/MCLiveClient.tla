---------------------------- MODULE MCLiveClient -----------------------------
(***************************************************************************)
(* LiveClient on a small instance.                                         *)
(***************************************************************************)
EXTENDS LiveClient

(* A session that died young and one that did not.                         *)
MCLifetimes == {29, 30}

MCBodies == {<<[method |-> "direct", action |-> 0, readable |-> TRUE]>>}

=============================================================================
