---------------------------- MODULE DialedSession ----------------------------
(***************************************************************************)
(* One attempt of the reconnect loop from its first byte to its last: the  *)
(* ttwid request and the way through the proxy of SessionSetup, then the   *)
(* TLS and WebSocket handshakes, then the session of WssSession over the   *)
(* connection that came out of it.  Both share the caller's context.       *)
(*                                                                         *)
(* SessionSetup's conn is the TCP connection, to the proxy or to the host; *)
(* wsConn is what RunWebSocket makes of it.  Closing one closes both.      *)
(***************************************************************************)
EXTENDS SessionSetup

CONSTANTS Cap, MaxFrames, Bodies

(* The session, under the names WssSession gives them; wsConn and frames   *)
(* are its conn and inbox.                                                 *)
VARIABLES rpc, hpc, half, room, hbStop, wsConn, link, sent, frames, cur,
          next, buf, taken, wire, garbled, result

W == INSTANCE WssSession WITH conn <- wsConn, inbox <- frames

(* What WssSession asks of its constants.                                  *)
ASSUME SessionAssumption ==
    /\ Cap \in Nat \ {0} /\ MaxFrames \in Nat
    /\ Bodies \subseteq Seq(W!Messages) /\ Bodies # {}

session == <<rpc, hpc, half, room, hbStop, wsConn, link, sent, frames, cur,
             next, buf, taken, wire, garbled, result>>
dialed  == <<vars, session>>

DialedInit == Init /\ W!Init

(* The ttwid and the proxy: nothing of the session exists yet.             *)
SetUp == ClientStep /\ UNCHANGED session

Proxy == (ProxyAnswers \/ ProxyLeaves) /\ UNCHANGED session

(* A setup that failed ends the attempt with an error, and one that never  *)
(* got a ttwid with exitNoTTWID, which rotates and counts like one.        *)
SetupFailed ==
    /\ pc = "failed"
    /\ W!DialFails /\ result' = "Errored"
    /\ UNCHANGED vars

(* What the TCP connection sees of a step of the session.                  *)
Below ==
    /\ conn' = IF wsConn' = "closed" THEN "closed" ELSE conn
    /\ UNCHANGED <<setup, pc, tries, skip, why, ctxDone, asked, peer>>

(* The TLS and WebSocket handshakes on the connection from proxyNetDial.   *)
Upgrade == pc = "open" /\ W!DialOpens /\ Below

(* Slip: the two handshakes do not see the context.                        *)
UpgradeFailsByItself ==
    /\ pc = "open" /\ ~ctxDone
    /\ W!DialFails
    /\ conn' = "closed"
    /\ UNCHANGED <<setup, pc, tries, skip, why, ctxDone, asked, peer>>

(* Either fails, or the context interrupts it: the dialer closes what      *)
(* NetDial gave it.                                                        *)
UpgradeFails ==
    /\ pc = "open"
    /\ W!DialFails
    /\ conn' = "closed"
    /\ UNCHANGED <<setup, pc, tries, skip, why, ctxDone, asked, peer>>

Run ==
    /\ \/ W!Greet \/ W!GreetFails \/ W!ReaderStep \/ W!Ack
       \/ W!Tick \/ W!HeartbeatStops \/ W!Beat \/ W!BeatFails
       \/ W!ServerSends \/ W!LinkDown \/ W!Take
    /\ Below

DialedCancel == Cancel /\ UNCHANGED session

DialedNext ==
    \/ SetUp \/ Proxy \/ SetupFailed
    \/ Upgrade \/ UpgradeFails \/ Run \/ DialedCancel

(* The fairness of the two parts.                                          *)
DialedSpec ==
    /\ DialedInit /\ [][DialedNext]_dialed
    /\ WF_dialed(SetUp) /\ WF_dialed(Proxy) /\ WF_dialed(SetupFailed)
    /\ WF_dialed(ctxDone /\ UpgradeFails)
    /\ WF_dialed(W!GreetFails /\ Below)
    /\ WF_dialed(W!ReaderStep /\ Below)
    /\ SF_dialed(W!HeartbeatStops /\ Below)
    /\ WF_dialed(W!BeatFails /\ Below)
    /\ WF_dialed(W!Greet /\ Below)
    /\ WF_dialed(W!Ack /\ Below)
    /\ WF_dialed(W!Beat /\ Below)

-----------------------------------------------------------------------------
DialedTypeOK == TypeOK /\ W!TypeOK

(* With the dial cut into its steps the session is still the one that      *)
(* WssSession describes; in particular a cancel ends it from any of them,  *)
(* as long as the proxy answers or leaves.                                 *)
ImplementsWssSession == W!Spec

(* Whichever step of the dial or the session fails, neither connection is  *)
(* left behind, and none is opened for a setup that has failed.            *)
NothingLeftOpen ==
    /\ pc = "failed" => conn # "open"
    /\ rpc = "returned" => conn # "open" /\ wsConn # "open"
    /\ wsConn = "open" => pc = "open" /\ conn = "open"

=============================================================================
