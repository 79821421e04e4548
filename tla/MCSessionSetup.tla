--------------------------- MODULE MCSessionSetup ---------------------------
(***************************************************************************)
(* SessionSetup for TLC, and what the documentation says that it does not  *)
(* do.                                                                     *)
(***************************************************************************)
EXTENDS SessionSetup

(* README: the reconnect loop runs in the background until the context is  *)
(* cancelled, so a cancel must end a setup that is under way.              *)
CancelEndsSetup == ctxDone ~> pc \in {"open", "failed"}

=============================================================================
