---------------------------- MODULE MCWssSession ----------------------------
(***************************************************************************)
(* WssSession on small instances, and what the documentation and the tests *)
(* say of a session that the code does not do.                             *)
(***************************************************************************)
EXTENDS WssSession

Message(method, action, readable) ==
    [method |-> method, action |-> action, readable |-> readable]

(* Messages with a convenience event, of an unknown method and one that    *)
(* cannot be read, and a frame without messages.                           *)
MCBodies ==
    {<<Message("social", 1, TRUE), Message("other", 0, TRUE)>>,
     <<Message("member", 1, FALSE), Message("control", 3, TRUE)>>,
     << >>}

(* connection/wss_fake_test.go: every frame the server reads is one whole  *)
(* client frame.                                                           *)
WholeFrames == ~garbled

(* README, wss_smoke_test.go: the session runs until the context is        *)
(* cancelled, and then ends, whatever the peer does.                       *)
CancelReturnsFromAnyPeer == ctxDone ~> rpc = "returned"

=============================================================================
