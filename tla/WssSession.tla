----------------------------- MODULE WssSession -----------------------------
(***************************************************************************)
(* One WebSocket session: RunWebSocket with its read loop and its          *)
(* heartbeat goroutine, which share the connection and no lock, the server *)
(* at the other end, the caller's context and the reader of the event      *)
(* channel.                                                                *)
(*                                                                         *)
(* The WebSocket library writes a frame in two calls, header and payload,  *)
(* and each call may block as long as the peer does not read.  Nothing     *)
(* sets a write deadline.                                                  *)
(*                                                                         *)
(* rpc, the position of RunWebSocket: "dial", "hello" and "enter" (the two *)
(* frames sent first), "check" (top of readLoop), "read", "frame" (inside  *)
(* processFrame), "ack", "deliver", "stop", "join" and "returned".  hpc,   *)
(* the heartbeat goroutine: "none" before it starts, "select", "beat" and  *)
(* "done".  Half says that a writer has its header out, payload to follow. *)
(***************************************************************************)
EXTENDS EventRouter

CONSTANTS Cap,            \* capacity of the event channel
          MaxFrames,      \* how many frames the server sends at the most
          Bodies          \* what a frame of messages may carry

ASSUME CapAssumption    == Cap \in Nat \ {0}
ASSUME FramesAssumption == MaxFrames \in Nat
ASSUME BodiesAssumption == Bodies \subseteq Seq(Messages) /\ Bodies # {}

(* What a frame asks of processFrame: "msg" carries messages, "msgAck"     *)
(* wants an acknowledgement first, "other" is a heartbeat answer, a room   *)
(* entry answer or a control frame, or cannot be decompressed or decoded.  *)
(* "torn" is what the library finds where the framing is lost: an error, a *)
(* frame that says nothing, or a frame that never ends.                    *)
Kinds   == {"msg", "msgAck", "other", "torn"}
Frames  == [id : 1..MaxFrames, kind : Kinds, body : Bodies \cup {<< >>}]
Writers == {"reader", "heartbeat"}

(* An event as the channel carries it, with its place in what the server   *)
(* sent: frame, message and position among the events of the message.      *)
StreamEvent(at, what) == [type |-> "Data", at |-> at, what |-> what]
StreamEvents ==
    [type : {"Data"}, at : (1..MaxFrames) \X (Nat \ {0}) \X (1..2),
     what : RawTypes \cup Convenience]

NoEvent == [type |-> "Data", at |-> <<0, 0, 0>>, what |-> "Unknown"]

(* Room ids, by what strconv makes of them: ParseInt and ParseUint take a  *)
(* "signed" one, only ParseUint an "unsigned" one, above 2^63 - 1, and     *)
(* ParseUint takes no "invalid" one.                                       *)
RoomIds == {"signed", "unsigned", "invalid"}

VARIABLES
    rpc, hpc,
    half,       \* writers between header and payload
    room, ctxDone,  \* the caller's room id and its context
    hbStop,     \* stopHeartbeat was called
    conn,       \* our end: "none", "open", "closed"
    link,       \* "up", "deaf" when it takes no more writes, "down" when
                \* reads fail too
    sent,       \* frames the server has sent
    inbox,      \* those that have arrived and have not been read
    cur,        \* the frame processFrame works on
    next,       \* next event of cur to post: <<message, position>>
    buf,        \* the event channel
    taken,      \* the last event the reader took
    wire,       \* "clean", or the writer whose header awaits its payload
    garbled,    \* some payload did not follow its header
    result      \* "none", or what RunWebSocket returned

caller == <<room, ctxDone>>
net    == <<conn, link, wire, garbled>>
feed   == <<sent, inbox, cur, next>>
queue  == <<buf, taken>>
vars   == <<rpc, hpc, half, caller, hbStop, net, feed, queue, result>>

NoFrame == [id |-> 0, kind |-> "other", body |-> << >>]
First   == <<1, 1>>

SessionTypeOK ==
    /\ room \in RoomIds
    /\ rpc \in {"dial", "hello", "enter", "check", "read", "frame", "ack",
                "deliver", "stop", "join", "returned"}
    /\ hpc \in {"none", "select", "beat", "done"}
    /\ half \subseteq Writers
    /\ ctxDone \in BOOLEAN /\ hbStop \in BOOLEAN
    /\ conn \in {"none", "open", "closed"}
    /\ link \in {"up", "deaf", "down"}
    /\ sent \in 0..MaxFrames
    /\ inbox \in Seq(Frames) /\ Len(inbox) <= MaxFrames
    /\ cur \in Frames \cup {NoFrame}
    /\ next \in (Nat \ {0}) \X (1..2)
    /\ taken \in StreamEvents \cup {NoEvent}
    /\ wire \in Writers \cup {"clean"}
    /\ garbled \in BOOLEAN
    /\ result \in {"none", "Closed", "DeviceBlocked", "Errored"}

TypeOK ==
    /\ SessionTypeOK
    /\ buf \in Seq(StreamEvents) /\ Len(buf) <= Cap

Init ==
    /\ room \in RoomIds
    /\ rpc = "dial" /\ hpc = "none" /\ half = {}
    /\ ctxDone \in BOOLEAN /\ hbStop = FALSE
    /\ conn = "none" /\ link = "up" /\ wire = "clean" /\ garbled = FALSE
    /\ sent = 0 /\ inbox = << >> /\ cur = NoFrame /\ next = First
    /\ buf = << >> /\ taken = NoEvent
    /\ result = "none"

-----------------------------------------------------------------------------
(* A frame on the wire, in two calls.  Writes may fail before reads do.    *)

Usable == conn = "open" /\ link = "up"

WriteHeader(w) ==
    /\ w \notin half /\ Usable
    /\ half' = half \cup {w}
    /\ wire' = w
    /\ garbled' = (garbled \/ wire # "clean")
    /\ UNCHANGED <<conn, link>>

WritePayload(w) ==
    /\ w \in half /\ Usable
    /\ half' = half \ {w}
    /\ wire' = "clean"
    /\ garbled' = (garbled \/ wire # w)
    /\ UNCHANGED <<conn, link>>

WriteFails(w) ==
    /\ ~Usable
    /\ half' = half \ {w}
    /\ UNCHANGED net

-----------------------------------------------------------------------------
(* What PutReader leaves of a frame that it had read in part.              *)
Remains(id) == [id |-> id, kind |-> "torn", body |-> << >>]

(* Dialing.  What the server sent right behind its handshake answer is in  *)
(* the buffered reader, which goes back to its pool unread: any number of  *)
(* frames is lost, and the last of them may be cut, its end still to be    *)
(* read.  A done context makes the dial fail.                              *)
DialOpens ==
    /\ rpc = "dial" /\ ~ctxDone /\ link = "up"
    /\ conn' = "open"
    /\ rpc' = "hello"
    /\ sent' \in sent..MaxFrames
    /\ \/ UNCHANGED inbox
       \/ sent' > sent /\ inbox' = <<Remains(sent')>>
    /\ UNCHANGED <<hpc, half, caller, hbStop, link, wire, garbled, cur, next,
                   queue, result>>

Return(r) ==
    /\ rpc' = "returned"
    /\ result' = r
    /\ conn' = IF conn = "open" THEN "closed" ELSE conn

(* Slip: the dial does not get the context.                                *)
DialFailsOnDeadLink ==
    /\ rpc = "dial" /\ link = "down"
    /\ \E r \in {"DeviceBlocked", "Errored"} : Return(r)
    /\ UNCHANGED <<hpc, half, caller, hbStop, link, wire, garbled, feed,
                   queue>>

DialFails ==
    /\ rpc = "dial"
    /\ \E r \in {"DeviceBlocked", "Errored"} : Return(r)
    /\ UNCHANGED <<hpc, half, caller, hbStop, link, wire, garbled, feed,
                   queue>>

(* buildHeartbeat and buildEnterRoom disagree on what a room id is.        *)
HeartbeatBuilds == room # "invalid"
EnterRoomBuilds == room = "signed"

(* Slip: a room id is not looked at before the session begins.             *)
GreetingAlwaysBuilds == TRUE

GreetingBuilds == IF rpc = "hello" THEN HeartbeatBuilds ELSE EnterRoomBuilds

(* The first heartbeat and the room entry, before the goroutine exists.    *)
Greet ==
    /\ rpc \in {"hello", "enter"}
    /\ \/ GreetingBuilds /\ WriteHeader("reader") /\ UNCHANGED <<rpc, hpc, cur>>
       \/ /\ WritePayload("reader")
          /\ rpc' = IF rpc = "hello" THEN "enter" ELSE "check"
          /\ hpc' = IF rpc = "hello" THEN "none" ELSE "select"
          /\ UNCHANGED cur
    /\ UNCHANGED <<caller, hbStop, sent, inbox, next, queue, result>>

GreetFails ==
    /\ rpc \in {"hello", "enter"}
    /\ ~Usable \/ ("reader" \notin half /\ ~GreetingBuilds)
    /\ half' = half \ {"reader"}
    /\ Return("Errored")
    /\ UNCHANGED <<hpc, caller, hbStop, link, wire, garbled, feed, queue>>

-----------------------------------------------------------------------------
(* readLoop.  result remembers what the loop returns.                      *)
LeaveLoop(r) ==
    /\ rpc' = "stop"
    /\ result' = r

Check ==
    /\ rpc = "check"
    /\ \/ ctxDone /\ LeaveLoop("Closed")
       \/ ~ctxDone /\ rpc' = "read" /\ UNCHANGED result
    /\ UNCHANGED <<hpc, half, caller, hbStop, net, feed, queue>>

(* Slip: the frame stays in the buffer and is read again.                  *)
ReadFrameAgain ==
    /\ rpc = "read" /\ inbox # << >>
    /\ rpc' = "frame"
    /\ cur' = Head(inbox) /\ next' = First
    /\ UNCHANGED <<hpc, half, caller, hbStop, net, sent, inbox, queue, result>>

ReadFrame ==
    /\ rpc = "read" /\ inbox # << >>
    /\ rpc' = "frame"
    /\ cur' = Head(inbox) /\ inbox' = Tail(inbox)
    /\ next' = First
    /\ UNCHANGED <<hpc, half, caller, hbStop, net, sent, queue, result>>

Unframed == inbox # << >> /\ Head(inbox).kind = "torn"

(* The read deadline, set once for a message, passes before the end of     *)
(* one: the loop ends as if closed.                                        *)
StaleTimeout ==
    /\ rpc = "read" /\ (inbox = << >> \/ Unframed)
    /\ LeaveLoop("Closed")
    /\ UNCHANGED <<hpc, half, caller, hbStop, net, feed, queue>>

ReadFails ==
    /\ rpc = "read" /\ (link = "down" \/ Unframed)
    /\ LeaveLoop("Errored")
    /\ UNCHANGED <<hpc, half, caller, hbStop, net, feed, queue>>

(* processFrame: what cannot be decoded is only logged.                    *)
ProcessFrame ==
    /\ rpc = "frame"
    /\ rpc' = CASE cur.kind = "msgAck" -> "ack"
                [] cur.kind = "msg"    -> "deliver"
                [] OTHER               -> "check"
    /\ UNCHANGED <<hpc, half, caller, hbStop, net, feed, queue, result>>

(* The acknowledgement goes out before the events; its failure is logged.  *)
Ack ==
    /\ rpc = "ack"
    /\ \/ WriteHeader("reader") /\ UNCHANGED rpc
       \/ WritePayload("reader") /\ rpc' = "deliver"
    /\ UNCHANGED <<hpc, caller, hbStop, feed, queue, result>>

AckFails ==
    /\ rpc = "ack"
    /\ WriteFails("reader")
    /\ rpc' = "deliver"
    /\ UNCHANGED <<hpc, caller, hbStop, feed, queue, result>>

(* Slip: a send into a full channel.                                       *)
PostBeyondCap(e) == buf' = Append(buf, e)

(* A non-blocking send: dropped when the channel is full.                  *)
Post(e) == IF Len(buf) < Cap THEN buf' = Append(buf, e) ELSE UNCHANGED buf

(* The events of one message after the other, each message decoded in its  *)
(* turn.                                                                   *)
Decoded == Decode(cur.body[next[1]])

Due == StreamEvent(<<cur.id, next[1], next[2]>>, Decoded[next[2]])

NextEvent == next' = IF next[2] < Len(Decoded) THEN <<next[1], next[2] + 1>>
                     ELSE <<next[1] + 1, 1>>

(* Slip: the messages of a frame are posted last to first.                 *)
DeliverBackwards ==
    /\ rpc = "deliver" /\ next[1] <= Len(cur.body)
    /\ Post(StreamEvent(<<cur.id, Len(cur.body) + 1 - next[1], next[2]>>,
                        Decoded[next[2]]))
    /\ NextEvent
    /\ UNCHANGED <<rpc, hpc, half, caller, hbStop, net, sent, inbox, cur,
                   taken, result>>

Deliver ==
    /\ rpc = "deliver" /\ next[1] <= Len(cur.body)
    /\ Post(Due)
    /\ NextEvent
    /\ UNCHANGED <<rpc, hpc, half, caller, hbStop, net, sent, inbox, cur,
                   taken, result>>

(* Slip: a cancel drops the rest of the frame.                             *)
FrameDoneOnCancel ==
    /\ rpc = "deliver" /\ (ctxDone \/ next[1] > Len(cur.body))
    /\ rpc' = "check"
    /\ UNCHANGED <<hpc, half, caller, hbStop, net, feed, queue, result>>

FrameDone ==
    /\ rpc = "deliver" /\ next[1] > Len(cur.body)
    /\ rpc' = "check"
    /\ UNCHANGED <<hpc, half, caller, hbStop, net, feed, queue, result>>

-----------------------------------------------------------------------------
(* Slip: the heartbeat goroutine is left running.                          *)
StopForgetsHeartbeat ==
    /\ rpc = "stop"
    /\ rpc' = "join"
    /\ UNCHANGED <<hpc, half, caller, hbStop, net, feed, queue, result>>

Stop ==
    /\ rpc = "stop"
    /\ hbStop' = TRUE
    /\ rpc' = "join"
    /\ UNCHANGED <<hpc, half, caller, net, feed, queue, result>>

(* Slip: the goroutine is stopped but not waited for.                      *)
JoinDoesNotWait ==
    /\ rpc = "join"
    /\ Return(result)
    /\ UNCHANGED <<hpc, half, caller, hbStop, link, wire, garbled, feed,
                   queue>>

(* Wait for the goroutine; only then does the deferred Close run.          *)
Join ==
    /\ rpc = "join" /\ hpc = "done"
    /\ Return(result)
    /\ UNCHANGED <<hpc, half, caller, hbStop, link, wire, garbled, feed,
                   queue>>

-----------------------------------------------------------------------------
(* The heartbeat goroutine.  With the context done and a tick both ready,  *)
(* Go picks either.                                                        *)
Tick ==
    /\ hpc = "select"
    /\ hpc' = "beat"
    /\ UNCHANGED <<rpc, half, caller, hbStop, net, feed, queue, result>>

HeartbeatStops ==
    /\ hpc = "select" /\ (hbStop \/ ctxDone)
    /\ hpc' = "done"
    /\ UNCHANGED <<rpc, half, caller, hbStop, net, feed, queue, result>>

Beat ==
    /\ hpc = "beat"
    /\ \/ HeartbeatBuilds /\ WriteHeader("heartbeat") /\ UNCHANGED hpc
       \/ WritePayload("heartbeat") /\ hpc' = "select"
    /\ UNCHANGED <<rpc, caller, hbStop, feed, queue, result>>

(* A failed beat ends the goroutine; the read loop is not told.  The beat  *)
(* is built anew each time.                                                *)
BeatFails ==
    /\ hpc = "beat"
    /\ \/ WriteFails("heartbeat")
       \/ ~HeartbeatBuilds /\ UNCHANGED <<half, net>>
    /\ hpc' = "done"
    /\ UNCHANGED <<rpc, caller, hbStop, feed, queue, result>>

-----------------------------------------------------------------------------
(* The world: the server, the link, the caller and the reader of events.   *)
(* The framing is lost, and may be found again, at the last frame sent.    *)
Torn == IF inbox = << >> THEN cur.kind = "torn"
        ELSE inbox[Len(inbox)].kind = "torn"

ServerSends ==
    /\ conn = "open" /\ link # "down" /\ sent < MaxFrames
    /\ sent' = sent + 1
    /\ \E kind \in Kinds :
          \E body \in IF kind \in {"msg", "msgAck"} THEN Bodies ELSE {<< >>} :
             /\ kind = "torn" => Torn
             /\ inbox' = Append(inbox, [id |-> sent + 1, kind |-> kind,
                                        body |-> body])
    /\ UNCHANGED <<rpc, hpc, half, caller, hbStop, net, cur, next, queue,
                   result>>

(* First writes fail and reads go on, or both fail at once.                *)
LinkDown ==
    /\ conn = "open"
    /\ \/ link = "up" /\ link' = "deaf"
       \/ link # "down" /\ link' = "down"
    /\ UNCHANGED <<rpc, hpc, half, caller, hbStop, conn, wire, garbled, feed,
                   queue, result>>

Cancel ==
    /\ ~ctxDone
    /\ ctxDone' = TRUE
    /\ UNCHANGED <<room, rpc, hpc, half, hbStop, net, feed, queue, result>>

Take ==
    /\ buf # << >>
    /\ taken' = Head(buf) /\ buf' = Tail(buf)
    /\ UNCHANGED <<rpc, hpc, half, caller, hbStop, net, feed, result>>

-----------------------------------------------------------------------------
(* Steps of RunWebSocket that wait for nobody but the read deadline.       *)
ReaderStep ==
    \/ Check \/ ReadFrame \/ StaleTimeout \/ ReadFails \/ ProcessFrame
    \/ AckFails \/ Deliver \/ FrameDone \/ Stop \/ Join

Next ==
    \/ DialOpens \/ DialFails \/ Greet \/ GreetFails \/ ReaderStep \/ Ack
    \/ Tick \/ HeartbeatStops \/ Beat \/ BeatFails
    \/ ServerSends \/ LinkDown \/ Cancel \/ Take

SafeSpec == Init /\ [][Next]_vars

(* Both goroutines run, the read deadline fires, writes to a dead link     *)
(* fail, a dial ends once its context is done, and a select that finds the *)
(* context done again and again takes that branch once (Go picks at random *)
(* among the ready ones).  A write to a live link may block for ever.      *)
ClientFairness ==
    /\ WF_vars(ctxDone /\ DialFails)
    /\ WF_vars(GreetFails)
    /\ WF_vars(ReaderStep)
    /\ SF_vars(HeartbeatStops)
    /\ WF_vars(BeatFails)

ClientFairSpec == SafeSpec /\ ClientFairness

(* The peer also keeps reading, so that every write completes or fails.    *)
Spec ==
    /\ ClientFairSpec
    /\ WF_vars(Greet) /\ WF_vars(Ack) /\ WF_vars(Beat)

-----------------------------------------------------------------------------
Earlier(a, b) ==
    \/ a[1] < b[1]
    \/ a[1] = b[1] /\ a[2] < b[2]
    \/ a[1] = b[1] /\ a[2] = b[2] /\ a[3] < b[3]

(* Events reach the reader in the order of the server's frames and         *)
(* messages, each once, whichever of them a full channel has cost it.      *)
EventsInOrder ==
    LET stream == <<taken>> \o buf IN
    \A i, j \in 1..Len(stream) : i < j => Earlier(stream[i].at, stream[j].at)

(* Where a message gives two events, the convenience event never reaches   *)
(* the reader before the raw one, which may be missing.                    *)
RawComesFirst ==
    LET stream == <<taken>> \o buf IN
    \A i, j \in 1..Len(stream) :
        i < j /\ stream[i].at[1] = stream[j].at[1]
              /\ stream[i].at[2] = stream[j].at[2]
          => stream[i].what \notin Convenience

(* The server takes a frame that was acknowledged as delivered.  From the  *)
(* ack on, no failed write, dead link or cancel keeps an event of the      *)
(* frame from being offered to the channel: the frame is left only behind  *)
(* its last message, no event is passed over, and one that is offered is   *)
(* lost only to a full channel.                                            *)
AckedIsOffered ==
    [][(rpc \in {"ack", "deliver"}) =>
         /\ rpc' \in {"ack", "deliver"} \/ next[1] > Len(cur.body)
         /\ next' # next =>
              /\ \/ next' = <<next[1], next[2] + 1>>
                 \/ next' = <<next[1] + 1, 1>> /\ next[2] = Len(Decoded)
              /\ Len(buf) < Cap => buf' = Append(buf, Due)]_vars

(* As long as the read loop runs its room is one that was entered, and, if *)
(* it is not cancelled and its link takes writes, the heartbeat goroutine  *)
(* runs too: no room id that only one of the two frame builders takes, and *)
(* no end of the goroutine by itself, leaves the loop with a server that   *)
(* is not told of it.                                                      *)
AliveWhileReading ==
    rpc \in {"check", "read", "frame", "ack", "deliver"} =>
        /\ EnterRoomBuilds
        /\ hpc = "done" => ctxDone \/ link # "up"

(* RunWebSocket leaves nothing behind: when it has returned, its goroutine *)
(* is gone and its connection closed, and the connection is never closed   *)
(* under a writer that is in the middle of a frame or about to begin one.  *)
QuietAfterReturn ==
    /\ rpc = "returned" => hpc \in {"none", "done"} /\ conn # "open"
    /\ conn = "closed" => half = {} /\ hpc # "beat"

(* A done context ends the session, wherever it is.                        *)
CancelReturns == ctxDone ~> rpc = "returned"

(* A session whose server falls silent, or is gone, ends without a cancel. *)
OpenSessionEnds == conn = "open" ~> rpc = "returned"

=============================================================================
