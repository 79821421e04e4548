-------------------------- MODULE DialedSessionProofs --------------------------
(***************************************************************************)
(* The setup and the session put together, for all parameters: what was    *)
(* proved of each holds of the two, neither connection is left open, and   *)
(* with its dial cut into steps the session is still a WssSession.         *)
(***************************************************************************)
EXTENDS DialedSession, SessionSetupProofs

(* What is known of a session, under the names it has here.                *)
WP == INSTANCE WssSessionProofs WITH conn <- wsConn, inbox <- frames

(* Without the fairness of DialedSpec.                                     *)
DialedSafeSpec == DialedInit /\ [][DialedNext]_dialed

-----------------------------------------------------------------------------
(* W and WP are the same session, action by action.                        *)
LEMMA SameReaderStep == W!ReaderStep <=> WP!ReaderStep
<1>1. W!Check <=> WP!Check
  BY DEF W!Check, WP!Check, W!LeaveLoop, WP!LeaveLoop, W!caller, WP!caller,
         W!net, WP!net, W!feed, WP!feed, W!queue, WP!queue
<1>2. W!ReadFrame <=> WP!ReadFrame
  BY DEF W!ReadFrame, WP!ReadFrame, W!First, WP!First, W!caller, WP!caller,
         W!net, WP!net, W!queue, WP!queue
<1>3. W!StaleTimeout <=> WP!StaleTimeout
  BY DEF W!StaleTimeout, WP!StaleTimeout, W!Unframed, WP!Unframed, W!LeaveLoop, WP!LeaveLoop, W!caller,
         WP!caller, W!net, WP!net, W!feed, WP!feed, W!queue, WP!queue
<1>4. W!ReadFails <=> WP!ReadFails
  BY DEF W!ReadFails, WP!ReadFails, W!Unframed, WP!Unframed, W!LeaveLoop, WP!LeaveLoop, W!caller,
         WP!caller, W!net, WP!net, W!feed, WP!feed, W!queue, WP!queue
<1>5. W!ProcessFrame <=> WP!ProcessFrame
  BY DEF W!ProcessFrame, WP!ProcessFrame, W!caller, WP!caller, W!net, WP!net,
         W!feed, WP!feed, W!queue, WP!queue
<1>6. W!AckFails <=> WP!AckFails
  BY DEF W!AckFails, WP!AckFails, W!WriteFails, WP!WriteFails, W!Usable,
         WP!Usable, W!net, WP!net, W!caller, WP!caller, W!feed, WP!feed,
         W!queue, WP!queue
<1>7. W!Deliver <=> WP!Deliver
  BY DEF W!Deliver, WP!Deliver, W!Post, WP!Post, W!Due, WP!Due, W!NextEvent,
         WP!NextEvent, W!Decoded, WP!Decoded, W!StreamEvent, WP!StreamEvent,
         W!Decode, WP!Decode, W!Raw, WP!Raw, W!Derived, WP!Derived, W!caller,
         WP!caller, W!net, WP!net
<1>8. W!FrameDone <=> WP!FrameDone
  BY DEF W!FrameDone, WP!FrameDone, W!caller, WP!caller, W!net, WP!net, W!feed,
         WP!feed, W!queue, WP!queue
<1>9. W!Stop <=> WP!Stop
  BY DEF W!Stop, WP!Stop, W!caller, WP!caller, W!net, WP!net, W!feed, WP!feed,
         W!queue, WP!queue
<1>10. W!Join <=> WP!Join
  BY DEF W!Join, WP!Join, W!Return, WP!Return, W!caller, WP!caller, W!feed,
         WP!feed, W!queue, WP!queue
<1> QED
  BY <1>1, <1>2, <1>3, <1>4, <1>5, <1>6, <1>7, <1>8, <1>9, <1>10
     DEF W!ReaderStep, WP!ReaderStep

LEMMA SameActions ==
    /\ W!Greet <=> WP!Greet
    /\ W!GreetFails <=> WP!GreetFails
    /\ W!Ack <=> WP!Ack
    /\ W!Beat <=> WP!Beat
    /\ W!BeatFails <=> WP!BeatFails
    /\ W!Tick <=> WP!Tick
    /\ W!HeartbeatStops <=> WP!HeartbeatStops
    /\ W!ServerSends <=> WP!ServerSends
    /\ W!LinkDown <=> WP!LinkDown
    /\ W!Take <=> WP!Take
<1>1. W!Greet <=> WP!Greet
  BY DEF W!Greet, WP!Greet, W!GreetingBuilds, WP!GreetingBuilds,
         W!HeartbeatBuilds, WP!HeartbeatBuilds, W!EnterRoomBuilds,
         WP!EnterRoomBuilds, W!WriteHeader, WP!WriteHeader, W!WritePayload,
         WP!WritePayload, W!Usable, WP!Usable, W!caller, WP!caller, W!queue,
         WP!queue
<1>2. W!GreetFails <=> WP!GreetFails
  BY DEF W!GreetFails, WP!GreetFails, W!GreetingBuilds, WP!GreetingBuilds,
         W!HeartbeatBuilds, WP!HeartbeatBuilds, W!EnterRoomBuilds,
         WP!EnterRoomBuilds, W!Usable, WP!Usable, W!Return, WP!Return,
         W!caller, WP!caller, W!feed, WP!feed, W!queue, WP!queue
<1>3. W!Ack <=> WP!Ack
  BY DEF W!Ack, WP!Ack, W!WriteHeader, WP!WriteHeader, W!WritePayload,
         WP!WritePayload, W!Usable, WP!Usable, W!caller, WP!caller, W!feed,
         WP!feed, W!queue, WP!queue
<1>4. W!Beat <=> WP!Beat
  BY DEF W!Beat, WP!Beat, W!HeartbeatBuilds, WP!HeartbeatBuilds, W!WriteHeader,
         WP!WriteHeader, W!WritePayload, WP!WritePayload, W!Usable, WP!Usable,
         W!caller, WP!caller, W!feed, WP!feed, W!queue, WP!queue
<1>5. W!BeatFails <=> WP!BeatFails
  BY DEF W!BeatFails, WP!BeatFails, W!HeartbeatBuilds, WP!HeartbeatBuilds,
         W!WriteFails, WP!WriteFails, W!Usable, WP!Usable, W!net, WP!net,
         W!caller, WP!caller, W!feed, WP!feed, W!queue, WP!queue
<1>6. W!Tick <=> WP!Tick
  BY DEF W!Tick, WP!Tick, W!caller, WP!caller, W!net, WP!net, W!feed, WP!feed,
         W!queue, WP!queue
<1>7. W!HeartbeatStops <=> WP!HeartbeatStops
  BY DEF W!HeartbeatStops, WP!HeartbeatStops, W!caller, WP!caller, W!net,
         WP!net, W!feed, WP!feed, W!queue, WP!queue
<1>8. W!ServerSends <=> WP!ServerSends
  BY DEF W!ServerSends, WP!ServerSends, W!Kinds, WP!Kinds, W!Torn, WP!Torn, W!caller, WP!caller,
         W!net, WP!net, W!queue, WP!queue
<1>9. W!LinkDown <=> WP!LinkDown
  BY DEF W!LinkDown, WP!LinkDown, W!caller, WP!caller, W!feed, WP!feed,
         W!queue, WP!queue
<1>10. W!Take <=> WP!Take
  BY DEF W!Take, WP!Take, W!caller, WP!caller, W!net, WP!net, W!feed, WP!feed
<1> QED
  BY <1>1, <1>2, <1>3, <1>4, <1>5, <1>6, <1>7, <1>8, <1>9, <1>10

LEMMA SameDial == (W!DialOpens <=> WP!DialOpens) /\ (W!DialFails <=> WP!DialFails)
<1>1. W!DialOpens <=> WP!DialOpens
  BY DEF W!DialOpens, WP!DialOpens, W!Remains, WP!Remains, W!caller, WP!caller, W!queue, WP!queue
<1>2. W!DialFails <=> WP!DialFails
  BY DEF W!DialFails, WP!DialFails, W!Return, WP!Return, W!caller, WP!caller,
         W!feed, WP!feed, W!queue, WP!queue
<1> QED
  BY <1>1, <1>2

LEMMA SameInit == W!Init <=> WP!Init
BY DEF W!Init, WP!Init, W!RoomIds, WP!RoomIds, W!NoFrame, WP!NoFrame,
         W!First, WP!First, W!NoEvent, WP!NoEvent

LEMMA SameTypes == W!TypeOK <=> WP!TypeOK
BY DEF W!TypeOK, WP!TypeOK, W!SessionTypeOK, WP!SessionTypeOK, W!RoomIds,
         WP!RoomIds, W!Writers, WP!Writers, W!Frames, WP!Frames, W!Kinds,
         WP!Kinds, W!NoFrame, WP!NoFrame, W!StreamEvents, WP!StreamEvents,
         W!NoEvent, WP!NoEvent, W!RawTypes, WP!RawTypes, W!Convenience,
         WP!Convenience

-----------------------------------------------------------------------------
(* What WssSession asks of its constants, in WP's words.                   *)
LEMMA Constants ==
    /\ Cap \in Nat \ {0} /\ MaxFrames \in Nat
    /\ Bodies \subseteq Seq(WP!Messages) /\ Bodies # {}
BY SessionAssumption DEF W!Messages, WP!Messages, W!Methods, WP!Methods

(* Where the setup leaves off the session begins: until then there is no   *)
(* WebSocket connection, and from then on the TCP connection is open       *)
(* exactly until RunWebSocket has returned.                                *)
Stages ==
    /\ pc \notin {"open", "failed"} => rpc = "dial"
    /\ pc = "failed" => rpc \in {"dial", "returned"}
    /\ pc # "open" => wsConn = "none"
    /\ pc = "open" => (conn = "open" <=> rpc # "returned")

JointInv == IInv /\ WP!IInv /\ Stages

(* The steps of a session that are neither its dial nor its caller's.      *)
RunStep ==
    \/ WP!Greet \/ WP!GreetFails \/ WP!ReaderStep \/ WP!Ack
    \/ WP!Tick \/ WP!HeartbeatStops \/ WP!Beat \/ WP!BeatFails
    \/ WP!ServerSends \/ WP!LinkDown \/ WP!Take

LEMMA RunIsRunStep == Run <=> RunStep /\ Below
BY SameActions, SameReaderStep DEF Run, RunStep

(* They do nothing before the dial or after the return, and a return       *)
(* closes the connection.                                                  *)
LEMMA RunShape ==
    ASSUME WP!IInv, RunStep
    PROVE  /\ rpc \in {"dial", "returned"} => rpc' = rpc /\ wsConn' = wsConn
           /\ rpc' = "returned" /\ rpc # "returned" => wsConn' = "closed"
           /\ rpc # "dial" => rpc' # "dial"
<1>1. WP!Positions
  BY DEF WP!IInv, WP!SessionInv
<1> USE DEF WP!Return, WP!LeaveLoop, WP!net
<1>2. CASE WP!ReaderStep
  <2>1. CASE \/ WP!Check \/ WP!ReadFrame \/ WP!StaleTimeout \/ WP!ReadFails
             \/ WP!AckFails \/ WP!Deliver \/ WP!FrameDone \/ WP!Stop
    BY <2>1
       DEF WP!Check, WP!ReadFrame, WP!StaleTimeout, WP!ReadFails,
           WP!AckFails, WP!Deliver, WP!FrameDone, WP!Stop
  <2>2. CASE WP!ProcessFrame
    <3>1. rpc = "frame" /\ rpc' \in {"ack", "deliver", "check"}
      BY <2>2 DEF WP!ProcessFrame
    <3> QED
      BY <3>1
  <2>3. CASE WP!Join
    BY <1>1, <2>3 DEF WP!Join, WP!Positions
  <2> QED
    BY <1>2, <2>1, <2>2, <2>3 DEF WP!ReaderStep
<1>3. CASE WP!Greet \/ WP!GreetFails \/ WP!Ack
  BY <1>1, <1>3
     DEF WP!Greet, WP!GreetFails, WP!Ack, WP!Positions, WP!WriteHeader,
         WP!WritePayload
<1>4. CASE WP!Tick \/ WP!HeartbeatStops \/ WP!Beat \/ WP!BeatFails
  BY <1>4
     DEF WP!Tick, WP!HeartbeatStops, WP!Beat, WP!BeatFails, WP!WriteHeader,
         WP!WritePayload, WP!WriteFails
<1>5. CASE WP!ServerSends \/ WP!LinkDown \/ WP!Take
  BY <1>5 DEF WP!ServerSends, WP!LinkDown, WP!Take
<1> QED
  BY <1>2, <1>3, <1>4, <1>5 DEF RunStep

(* What a step of the client means for the connection.                     *)
LEMMA OpenAtTheEnd ==
    ASSUME IInv, ClientStep
    PROVE  /\ pc \notin {"open", "failed"} /\ ctxDone' = ctxDone
           /\ pc' = "open" => conn' = "open"
<1> USE DEF Fail, GoOn
<1>1. CASE NoCookie \/ TTWIDAnswers \/ RetryTTWID
  BY <1>1 DEF NoCookie, TTWIDAnswers, RetryTTWID
<1>2. CASE Dial
  BY <1>2 DEF Dial
<1>3. CASE Greet \/ Login \/ Ask
  BY <1>3 DEF Greet, Login, Ask, Send
<1>4. CASE ReadMethod \/ ReadVerdict \/ ReadStatus \/ ReadBound
  BY <1>4
     DEF ReadMethod, ReadVerdict, ReadStatus, ReadBound, Read, IInv,
         Connection
<1>5. CASE ReadHead \/ ReadDomain \/ ReadFails
  BY <1>5 DEF ReadHead, ReadDomain, ReadFails, Read
<1> QED
  BY <1>1, <1>2, <1>3, <1>4, <1>5 DEF ClientStep

-----------------------------------------------------------------------------
(* Every step is a step of the session, or none of its business.           *)
LEMMA StepOfSession ==
    ASSUME IInv, [DialedNext]_dialed
    PROVE  [WP!Next]_WP!vars
<1>1. ASSUME UNCHANGED session, UNCHANGED ctxDone
      PROVE  UNCHANGED WP!vars
  BY <1>1 DEF session, WP!vars, WP!caller, WP!net, WP!feed, WP!queue
<1>2. CASE SetUp
  BY <1>1, <1>2, OpenAtTheEnd DEF SetUp
<1>3. CASE Proxy
  BY <1>1, <1>3 DEF Proxy, ProxyAnswers, ProxyLeaves
<1>4. CASE SetupFailed \/ UpgradeFails
  BY <1>4, SameDial DEF SetupFailed, UpgradeFails, WP!Next
<1>5. CASE Upgrade
  BY <1>5, SameDial DEF Upgrade, WP!Next
<1>6. CASE Run
  BY <1>6, RunIsRunStep DEF RunStep, WP!Next
<1>7. CASE DialedCancel
  <2>1. WP!Cancel
    BY <1>7
       DEF DialedCancel, Cancel, WP!Cancel, session, WP!net, WP!feed,
           WP!queue
  <2> QED
    BY <2>1 DEF WP!Next
<1>8. CASE UNCHANGED dialed
  BY <1>1, <1>8 DEF dialed, vars
<1> QED
  BY <1>2, <1>3, <1>4, <1>5, <1>6, <1>7, <1>8 DEF DialedNext

(* A step of the session keeps the setup as it is, but for the connection. *)
LEMMA SetupKept ==
    ASSUME JointInv, [DialedNext]_dialed
    PROVE  IInv'
<1> USE DEF JointInv
<1>1. CASE SetUp
  BY <1>1, ClientStepKept DEF SetUp
<1>2. CASE Proxy
  BY <1>2, AnsweringKept, AsideKept DEF Proxy
<1>3. CASE SetupFailed
  BY <1>3, SetupUnchanged DEF SetupFailed
<1>4. CASE Upgrade \/ UpgradeFails \/ Run
  <2>1. CASE pc = "open"
    <3>1. conn' \in {conn, "closed"}
      BY <1>4 DEF Upgrade, UpgradeFails, Run, Below
    <3>2. conn' \in {"none", "open", "closed"}
      BY <3>1 DEF IInv, TypeOK
    <3>3. UNCHANGED <<setup, pc, tries, skip, why, ctxDone, asked, peer>>
      BY <1>4 DEF Upgrade, UpgradeFails, Run, Below
    <3> QED
      BY <2>1, <3>2, <3>3, ConnectionFree
  <2>2. CASE pc # "open"
    <3>1. RunStep /\ Below
      BY <1>4, <2>2, RunIsRunStep DEF Upgrade, UpgradeFails
    <3>2. wsConn = "none" /\ rpc \in {"dial", "returned"}
      BY <2>2 DEF Stages
    <3>3. wsConn' = "none"
      BY <3>1, <3>2, RunShape
    <3>4. UNCHANGED vars
      BY <3>1, <3>3 DEF Below, vars, client
    <3> QED
      BY <3>4, SetupUnchanged
  <2> QED
    BY <2>1, <2>2
<1>5. CASE DialedCancel
  BY <1>5, AsideKept DEF DialedCancel
<1>6. CASE UNCHANGED dialed
  BY <1>6, SetupUnchanged DEF dialed
<1> QED
  BY <1>1, <1>2, <1>3, <1>4, <1>5, <1>6 DEF DialedNext

LEMMA StagesKept ==
    ASSUME JointInv, [DialedNext]_dialed
    PROVE  Stages'
<1> USE DEF JointInv, Stages
<1>1. WP!Positions
  BY DEF WP!IInv, WP!SessionInv
<1>2. CASE SetUp
  BY <1>2, OpenAtTheEnd DEF SetUp, session
<1>3. CASE Proxy
  BY <1>3 DEF Proxy, ProxyAnswers, ProxyLeaves, session, client
<1>4. CASE SetupFailed
  <2>1. pc = "failed" /\ WP!DialFails /\ UNCHANGED vars
    BY <1>4, SameDial DEF SetupFailed
  <2> QED
    BY <2>1 DEF WP!DialFails, WP!Return, vars, client
<1>5. CASE Upgrade
  <2>1. pc = "open" /\ WP!DialOpens /\ Below
    BY <1>5, SameDial DEF Upgrade
  <2> QED
    BY <2>1 DEF WP!DialOpens, Below
<1>6. CASE UpgradeFails
  <2>1. /\ pc = "open" /\ WP!DialFails
        /\ conn' = "closed" /\ pc' = pc
    BY <1>6, SameDial DEF UpgradeFails
  <2> QED
    BY <2>1 DEF WP!DialFails, WP!Return
<1>7. CASE Run
  <2>1. RunStep /\ Below
    BY <1>7, RunIsRunStep
  <2>2. /\ rpc \in {"dial", "returned"} => rpc' = rpc /\ wsConn' = wsConn
        /\ rpc' = "returned" /\ rpc # "returned" => wsConn' = "closed"
        /\ rpc # "dial" => rpc' # "dial"
    BY <2>1, RunShape
  <2>3. [WP!Next]_WP!vars
    BY <1>7, StepOfSession DEF DialedNext
  <2>4. WP!Positions'
    BY <2>3, Constants, WP!Step DEF WP!IInv, WP!SessionInv
  <2>5. pc' = pc /\ conn' = IF wsConn' = "closed" THEN "closed" ELSE conn
    BY <2>1 DEF Below
  <2> QED
    BY <1>1, <2>2, <2>4, <2>5 DEF WP!Positions
<1>8. CASE DialedCancel
  BY <1>8 DEF DialedCancel, Cancel, session, client
<1>9. CASE UNCHANGED dialed
  BY <1>9 DEF dialed, vars, client, session
<1> QED
  BY <1>2, <1>3, <1>4, <1>5, <1>6, <1>7, <1>8, <1>9 DEF DialedNext

LEMMA JointInit == DialedInit => JointInv
<1> SUFFICES ASSUME DialedInit PROVE JointInv
  OBVIOUS
<1>1. Init /\ WP!Init
  BY SameInit DEF DialedInit
<1>2. IInv /\ WP!IInv
  BY <1>1, Constants, InitInv, WP!InitInv
<1>3. Stages
  BY <1>1 DEF Stages, Init, WP!Init
<1> QED
  BY <1>2, <1>3 DEF JointInv

LEMMA JointStep == JointInv /\ [DialedNext]_dialed => JointInv'
<1> SUFFICES ASSUME JointInv, [DialedNext]_dialed PROVE JointInv'
  OBVIOUS
<1>1. WP!IInv'
  BY StepOfSession, Constants, WP!Step DEF JointInv
<1> QED
  BY <1>1, SetupKept, StagesKept DEF JointInv

THEOREM JointInvariance == DialedSafeSpec => []JointInv
BY JointInit, JointStep, PTL DEF DialedSafeSpec

-----------------------------------------------------------------------------
LEMMA SafetyOfDialedSpec == DialedSpec => DialedSafeSpec
BY PTL DEF DialedSpec, DialedSafeSpec

(* The types of the setup and of the session behind it.                    *)
THEOREM DialedTyping == DialedSpec => []DialedTypeOK
<1>1. JointInv => DialedTypeOK
  BY SameTypes DEF JointInv, IInv, WP!IInv, DialedTypeOK
<1> QED
  BY <1>1, JointInvariance, SafetyOfDialedSpec, PTL

(* Whatever fails, in httpConnect, socks5Connect, the handshakes or the    *)
(* session, no connection is left behind: proxyNetDial, the dialer and     *)
(* RunWebSocket's deferred Close leave no gap between them.                *)
THEOREM NothingLeft == DialedSpec => []NothingLeftOpen
<1>1. JointInv => NothingLeftOpen
  <2> SUFFICES ASSUME JointInv PROVE NothingLeftOpen
    OBVIOUS
  <2>1. WP!Positions /\ Connection
    BY DEF JointInv, IInv, WP!IInv, WP!SessionInv
  <2> QED
    BY <2>1 DEF JointInv, Stages, WP!Positions, Connection, NothingLeftOpen
<1> QED
  BY <1>1, JointInvariance, SafetyOfDialedSpec, PTL

(* The agreement with the proxy, the alignment of the tunnel and the blame *)
(* for a missing cookie are as before when the session runs behind the     *)
(* setup and closes its connection.                                        *)
THEOREM SetupPromises ==
    DialedSpec => [](InStep /\ TunnelAligned /\ NoCookieIsHonest)
<1>1. JointInv => InStep /\ TunnelAligned /\ NoCookieIsHonest
  BY OpenIsAligned DEF JointInv, IInv
<1> QED
  BY <1>1, JointInvariance, SafetyOfDialedSpec, PTL

(* The safety part of ImplementsWssSession: one attempt, from its ttwid    *)
(* request on, is a session as WssSession describes it.                    *)
THEOREM Refines == DialedSpec => W!SafeSpec
<1>1. DialedInit => W!Init
  BY DEF DialedInit
<1>2. W!vars = WP!vars /\ W!vars' = WP!vars'
  BY DEF W!vars, WP!vars, W!caller, WP!caller, W!net, WP!net, W!feed,
         WP!feed, W!queue, WP!queue
<1>3. W!Cancel <=> WP!Cancel
  BY DEF W!Cancel, WP!Cancel, W!net, WP!net, W!feed, WP!feed, W!queue,
         WP!queue
<1>4. W!Next <=> WP!Next
  BY <1>3, SameActions, SameReaderStep, SameDial DEF W!Next, WP!Next
<1>5. IInv /\ [DialedNext]_dialed => [W!Next]_W!vars
  <2> SUFFICES ASSUME IInv, [DialedNext]_dialed PROVE [W!Next]_W!vars
    OBVIOUS
  <2>1. WP!Next \/ UNCHANGED WP!vars
    BY StepOfSession
  <2> QED
    BY <1>2, <1>4, <2>1
<1>6. DialedSpec => []IInv
  BY JointInvariance, SafetyOfDialedSpec, PTL DEF JointInv
<1> QED
  BY <1>1, <1>5, <1>6, PTL DEF DialedSpec, W!SafeSpec

(* So whatever is proved of a session holds behind every setup: its events *)
(* in order, raw before convenience, beats while it reads, every event of  *)
(* an acknowledged frame offered, and nothing left behind when             *)
(* RunWebSocket has returned.                                              *)
THEOREM SessionPromises ==
    DialedSpec => /\ [](/\ WP!EventsInOrder /\ WP!RawComesFirst
                        /\ WP!AliveWhileReading /\ WP!QuietAfterReturn)
                  /\ WP!AckedIsOffered
<1>1. DialedSpec => WP!SafeSpec
  <2>1. DialedInit => WP!Init
    BY SameInit DEF DialedInit
  <2>2. IInv /\ [DialedNext]_dialed => [WP!Next]_WP!vars
    BY StepOfSession
  <2>3. DialedSpec => []IInv
    BY JointInvariance, SafetyOfDialedSpec, PTL DEF JointInv
  <2> QED
    BY <2>1, <2>2, <2>3, PTL DEF DialedSpec, WP!SafeSpec
<1> QED
  BY <1>1, Constants, WP!Ordered, WP!RawFirst, WP!HeartbeatKept, WP!Quiet,
     WP!Acked, PTL

=============================================================================
