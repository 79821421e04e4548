----------------------------- MODULE LiveClient ------------------------------
(***************************************************************************)
(* Supervisor with real sessions: Connect, which goes by the reply that    *)
(* CheckOnline got, its goroutine, and the sessions it runs, each a        *)
(* WssSession for the room of that reply; all share the caller's context   *)
(* and the event channel.  A session begins where the supervisor enters    *)
(* "run" and is over for it once RunWebSocket has returned.  No step of a  *)
(* session is guarded by the supervisor's position: that sessions do not   *)
(* outlive "run" is for the code to ensure.  Frames are numbered on from   *)
(* one session to the next.                                                *)
(***************************************************************************)
EXTENDS Integers, Sequences, RoomLookup

CONSTANTS Cap, MaxRetries, Lifetimes, MaxFrames, Bodies

(* The supervisor.                                                         *)
VARIABLES pc, held, attempt, outcome, pending, closed, seen, retryNo,
          fails, healed, dead, uses, flagged

(* The session under way, or the last one.                                 *)
VARIABLES rpc, hpc, half, hbStop, conn, link, wire, garbled, inbox, cur,
          next, result

VARIABLES room,             \* from the reply, for all sessions
          ctxDone, buf,     \* shared by the two
          sent, taken       \* the server and the reader, over all sessions

supervisor == <<pc, held, attempt, outcome, pending, closed, seen, retryNo,
                fails, healed, dead, uses, flagged>>
session    == <<rpc, hpc, half, hbStop, conn, link, wire, garbled, inbox,
                cur, next, result>>
vars       == <<supervisor, session, room, ctxDone, buf, sent, taken>>

S == INSTANCE Supervisor
W == INSTANCE WssSession

(* What the two ask of their constants.                                    *)
ASSUME ClientAssumption ==
    /\ Cap \in Nat \ {0} /\ MaxRetries \in Int
    /\ Lifetimes \subseteq Nat /\ Lifetimes # {}
    /\ MaxFrames \in Nat
    /\ Bodies \subseteq Seq(W!Messages) /\ Bodies # {}

(* The supervisor as it would see itself, with one kind of stream event.   *)
Unnumbered == [i \in 1..Len(buf) |-> IF buf[i].type = "Data"
                                     THEN S!Event("Data") ELSE buf[i]]

Sup == INSTANCE Supervisor WITH buf <- Unnumbered

-----------------------------------------------------------------------------
(* Before the first session there is nothing of it, and no room.           *)
NoRoom == "invalid"

Init ==
    /\ S!Init
    /\ room = NoRoom
    /\ rpc = "returned" /\ hpc = "none" /\ half = {} /\ hbStop = FALSE
    /\ conn = "none" /\ link = "up" /\ wire = "clean" /\ garbled = FALSE
    /\ inbox = << >> /\ cur = W!NoFrame /\ next = W!First /\ result = "none"
    /\ sent = 0 /\ taken = W!NoEvent

(* A connection that is gone takes with it what was on its way.            *)
NoConnection ==
    /\ link' = "up" /\ wire' = "clean" /\ garbled' = FALSE
    /\ inbox' = << >> /\ cur' = W!NoFrame /\ next' = W!First

NewSession ==
    /\ rpc' = "dial" /\ hpc' = "none" /\ half' = {} /\ hbStop' = FALSE
    /\ conn' = "none" /\ result' = "none"
    /\ NoConnection

(* Connect goes on if the reply says that the host is online, and then     *)
(* with the room that it names.                                            *)
Resolve ==
    \E reply \in RoomReplies :
       IF CheckOnline(reply) = "Online"
       THEN pc' = "loop" /\ room' = reply.roomId
       ELSE pc' = "failed" /\ UNCHANGED room

(* deps.run is called as the loop goes to "run".                           *)
Supervise ==
    /\ S!Supervise
    /\ IF pc = "connect" THEN Resolve ELSE UNCHANGED room
    /\ IF pc' = "run" THEN NewSession ELSE UNCHANGED session
    /\ UNCHANGED <<sent, taken>>

Alone == UNCHANGED supervisor

SessionStep ==
    /\ \/ W!DialOpens \/ W!DialFails \/ W!Greet \/ W!GreetFails
       \/ W!ReaderStep \/ W!Ack
       \/ W!Tick \/ W!HeartbeatStops \/ W!Beat \/ W!BeatFails
    /\ Alone

(* Slip: the loop goes on beside the session.                              *)
EndSessionEarly ==
    /\ S!EndSession
    /\ UNCHANGED <<session, room, sent, taken>>

(* deps.run returns what RunWebSocket returned.                            *)
EndSession ==
    /\ rpc = "returned"
    /\ S!EndSession
    /\ outcome'.exit = result
    /\ dead' = 0 <=> conn = "closed"
    /\ NoConnection
    /\ UNCHANGED <<rpc, hpc, half, hbStop, conn, result, room, sent, taken>>

Network == (W!ServerSends \/ W!LinkDown) /\ Alone

Receive ==
    /\ S!Receive
    /\ taken' = IF Head(buf).type = "Data" THEN Head(buf) ELSE taken
    /\ UNCHANGED <<session, room, sent>>

Cancel == S!Cancel /\ UNCHANGED <<session, room, sent, taken>>

Next ==
    \/ Supervise \/ SessionStep \/ EndSession
    \/ Network \/ Receive \/ Cancel

SafeSpec == Init /\ [][Next]_vars

(* The fairness of Supervisor without its assumption on sessions, in whose *)
(* place stands the fairness of WssSession with a peer that reads.         *)
Spec ==
    /\ SafeSpec
    /\ WF_vars(Supervise)
    /\ WF_vars(EndSession)
    /\ WF_vars(ctxDone /\ W!DialFails /\ Alone)
    /\ WF_vars(W!GreetFails /\ Alone)
    /\ WF_vars(W!ReaderStep /\ Alone)
    /\ SF_vars(W!HeartbeatStops /\ Alone)
    /\ WF_vars(W!BeatFails /\ Alone)
    /\ WF_vars(W!Greet /\ Alone)
    /\ WF_vars(W!Ack /\ Alone)
    /\ WF_vars(W!Beat /\ Alone)

-----------------------------------------------------------------------------
TypeOK == Sup!TypeOK /\ W!SessionTypeOK

(* What Supervisor takes for granted of a session is true of WssSession:   *)
(* it posts without waiting, only while it runs, ends in one of the ways   *)
(* listed, and does end after a cancel.                                    *)
ImplementsSupervisor == Sup!Spec

(* The events of all sessions together reach the reader in the server's    *)
(* order, each once: nothing of an old session comes after a new one's.    *)
InOrderOverSessions ==
    \A i \in {k \in 1..Len(buf) : buf[k].type = "Data"} :
        /\ W!Earlier(taken.at, buf[i].at)
        /\ \A j \in 1..(i - 1) :
              buf[j].type = "Data" => W!Earlier(buf[j].at, buf[i].at)

(* Between two sessions, and after the last, nothing of one is left: no    *)
(* goroutine that could post or write, no open connection.                 *)
OneSessionAtATime ==
    pc # "run" => /\ rpc = "returned" /\ hpc \in {"none", "done"}
                  /\ conn # "open" /\ half = {}

=============================================================================
