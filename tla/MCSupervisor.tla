---------------------------- MODULE MCSupervisor ----------------------------
(***************************************************************************)
(* Supervisor on small instances, and what the documentation says of it    *)
(* that the code does not do.                                              *)
(***************************************************************************)
EXTENDS Supervisor

(* One second on each side of healthySession.                              *)
MCLifetimes == {29, 30}

(* README: the loop goes on until MaxRetries consecutive attempts fail.  A *)
(* host that never answers is given up after one attempt more at the most. *)
UnreachableHostExhaustsBudget == dead <= MaxRetries + 1

(* Client.UserAgent: a user agent is picked on each reconnect, so none is  *)
(* used for two sessions.                                                  *)
UserAgentPickedOnEachReconnect == uses <= 1

(* supervise: Disconnected is emitted exactly once before the close.       *)
DisconnectedExactlyOnce ==
    closed => \/ seen = "Disconnected"
              \/ \E i \in 1..Len(buf) : buf[i].type = "Disconnected"

=============================================================================
