--------------------------- MODULE LiveClientProofs ---------------------------
(***************************************************************************)
(* Supervisor and sessions put together, for all parameters: what was      *)
(* proved of each holds of the client, one session is over before the next *)
(* begins, the events of all of them come in order, and the sessions do    *)
(* what Supervisor takes for granted of them.                              *)
(***************************************************************************)
EXTENDS LiveClient, SequenceTheorems, TLAPS

(* What is known of a session, and of a supervisor that sees one kind of   *)
(* stream event.                                                           *)
WP == INSTANCE WssSessionProofs
SP == INSTANCE SupervisorProofs WITH buf <- Unnumbered

-----------------------------------------------------------------------------
(* W and WP are the same session, action by action.                        *)
LEMMA SameReaderStep == W!ReaderStep <=> WP!ReaderStep
<1>1. W!Check <=> WP!Check
  BY DEF W!Check, WP!Check, W!LeaveLoop, WP!LeaveLoop, W!caller, WP!caller,
         W!net, WP!net, W!feed, WP!feed, W!queue, WP!queue
<1>2. W!ReadFrame <=> WP!ReadFrame
  BY DEF W!ReadFrame, WP!ReadFrame, W!First, WP!First, W!caller, WP!caller,
         W!net, WP!net, W!queue, WP!queue
<1>3. W!StaleTimeout <=> WP!StaleTimeout
  BY DEF W!StaleTimeout, WP!StaleTimeout, W!Unframed, WP!Unframed, W!LeaveLoop, WP!LeaveLoop, W!caller,
         WP!caller, W!net, WP!net, W!feed, WP!feed, W!queue, WP!queue
<1>4. W!ReadFails <=> WP!ReadFails
  BY DEF W!ReadFails, WP!ReadFails, W!Unframed, WP!Unframed, W!LeaveLoop, WP!LeaveLoop, W!caller,
         WP!caller, W!net, WP!net, W!feed, WP!feed, W!queue, WP!queue
<1>5. W!ProcessFrame <=> WP!ProcessFrame
  BY DEF W!ProcessFrame, WP!ProcessFrame, W!caller, WP!caller, W!net, WP!net,
         W!feed, WP!feed, W!queue, WP!queue
<1>6. W!AckFails <=> WP!AckFails
  BY DEF W!AckFails, WP!AckFails, W!WriteFails, WP!WriteFails, W!Usable,
         WP!Usable, W!net, WP!net, W!caller, WP!caller, W!feed, WP!feed,
         W!queue, WP!queue
<1>7. W!Deliver <=> WP!Deliver
  BY DEF W!Deliver, WP!Deliver, W!Post, WP!Post, W!Due, WP!Due, W!NextEvent,
         WP!NextEvent, W!Decoded, WP!Decoded, W!StreamEvent, WP!StreamEvent,
         W!Decode, WP!Decode, W!Raw, WP!Raw, W!Derived, WP!Derived, W!caller,
         WP!caller, W!net, WP!net
<1>8. W!FrameDone <=> WP!FrameDone
  BY DEF W!FrameDone, WP!FrameDone, W!caller, WP!caller, W!net, WP!net, W!feed,
         WP!feed, W!queue, WP!queue
<1>9. W!Stop <=> WP!Stop
  BY DEF W!Stop, WP!Stop, W!caller, WP!caller, W!net, WP!net, W!feed, WP!feed,
         W!queue, WP!queue
<1>10. W!Join <=> WP!Join
  BY DEF W!Join, WP!Join, W!Return, WP!Return, W!caller, WP!caller, W!feed,
         WP!feed, W!queue, WP!queue
<1> QED
  BY <1>1, <1>2, <1>3, <1>4, <1>5, <1>6, <1>7, <1>8, <1>9, <1>10
     DEF W!ReaderStep, WP!ReaderStep

LEMMA SameActions ==
    /\ W!Greet <=> WP!Greet
    /\ W!GreetFails <=> WP!GreetFails
    /\ W!Ack <=> WP!Ack
    /\ W!Beat <=> WP!Beat
    /\ W!BeatFails <=> WP!BeatFails
    /\ W!Tick <=> WP!Tick
    /\ W!HeartbeatStops <=> WP!HeartbeatStops
    /\ W!ServerSends <=> WP!ServerSends
    /\ W!LinkDown <=> WP!LinkDown
    /\ W!DialOpens <=> WP!DialOpens
    /\ W!DialFails <=> WP!DialFails
<1>1. W!Greet <=> WP!Greet
  BY DEF W!Greet, WP!Greet, W!GreetingBuilds, WP!GreetingBuilds,
         W!HeartbeatBuilds, WP!HeartbeatBuilds, W!EnterRoomBuilds,
         WP!EnterRoomBuilds, W!WriteHeader, WP!WriteHeader, W!WritePayload,
         WP!WritePayload, W!Usable, WP!Usable, W!caller, WP!caller, W!queue,
         WP!queue
<1>2. W!GreetFails <=> WP!GreetFails
  BY DEF W!GreetFails, WP!GreetFails, W!GreetingBuilds, WP!GreetingBuilds,
         W!HeartbeatBuilds, WP!HeartbeatBuilds, W!EnterRoomBuilds,
         WP!EnterRoomBuilds, W!Usable, WP!Usable, W!Return, WP!Return,
         W!caller, WP!caller, W!feed, WP!feed, W!queue, WP!queue
<1>3. W!Ack <=> WP!Ack
  BY DEF W!Ack, WP!Ack, W!WriteHeader, WP!WriteHeader, W!WritePayload,
         WP!WritePayload, W!Usable, WP!Usable, W!caller, WP!caller, W!feed,
         WP!feed, W!queue, WP!queue
<1>4. W!Beat <=> WP!Beat
  BY DEF W!Beat, WP!Beat, W!HeartbeatBuilds, WP!HeartbeatBuilds, W!WriteHeader,
         WP!WriteHeader, W!WritePayload, WP!WritePayload, W!Usable, WP!Usable,
         W!caller, WP!caller, W!feed, WP!feed, W!queue, WP!queue
<1>5. W!BeatFails <=> WP!BeatFails
  BY DEF W!BeatFails, WP!BeatFails, W!HeartbeatBuilds, WP!HeartbeatBuilds,
         W!WriteFails, WP!WriteFails, W!Usable, WP!Usable, W!net, WP!net,
         W!caller, WP!caller, W!feed, WP!feed, W!queue, WP!queue
<1>6. W!Tick <=> WP!Tick
  BY DEF W!Tick, WP!Tick, W!caller, WP!caller, W!net, WP!net, W!feed, WP!feed,
         W!queue, WP!queue
<1>7. W!HeartbeatStops <=> WP!HeartbeatStops
  BY DEF W!HeartbeatStops, WP!HeartbeatStops, W!caller, WP!caller, W!net,
         WP!net, W!feed, WP!feed, W!queue, WP!queue
<1>8. W!ServerSends <=> WP!ServerSends
  BY DEF W!ServerSends, WP!ServerSends, W!Kinds, WP!Kinds, W!Torn, WP!Torn,
         W!caller, WP!caller,
         W!net, WP!net, W!queue, WP!queue
<1>9. W!LinkDown <=> WP!LinkDown
  BY DEF W!LinkDown, WP!LinkDown, W!caller, WP!caller, W!feed, WP!feed,
         W!queue, WP!queue
<1>10. W!DialOpens <=> WP!DialOpens
  BY DEF W!DialOpens, WP!DialOpens, W!Remains, WP!Remains, W!caller,
         WP!caller, W!queue, WP!queue
<1>11. W!DialFails <=> WP!DialFails
  BY DEF W!DialFails, WP!DialFails, W!Return, WP!Return, W!caller, WP!caller,
         W!feed, WP!feed, W!queue, WP!queue
<1> QED
  BY <1>1, <1>2, <1>3, <1>4, <1>5, <1>6, <1>7, <1>8, <1>9, <1>10, <1>11

LEMMA SameSession ==
    /\ W!SessionTypeOK <=> WP!SessionTypeOK
    /\ W!RoomIds = WP!RoomIds /\ W!NoFrame = WP!NoFrame
    /\ W!First = WP!First /\ W!NoEvent = WP!NoEvent
    /\ \A a, b : W!Earlier(a, b) <=> WP!Earlier(a, b)
BY DEF W!SessionTypeOK, WP!SessionTypeOK, W!RoomIds, WP!RoomIds, W!Writers,
         WP!Writers, W!Frames, WP!Frames, W!Kinds, WP!Kinds, W!NoFrame,
         WP!NoFrame, W!StreamEvents, WP!StreamEvents, W!NoEvent, WP!NoEvent,
         W!RawTypes, WP!RawTypes, W!Convenience, WP!Convenience, W!First,
         WP!First, W!Earlier, WP!Earlier

(* Sup and SP are the same supervisor.                                     *)
LEMMA SameSupervise == Sup!Supervise <=> SP!Supervise
<1>1. Sup!CheckOnlineFails <=> SP!CheckOnlineFails
  BY DEF Sup!CheckOnlineFails, SP!CheckOnlineFails, Sup!chan, SP!chan,
         Sup!history, SP!history
<1>2. Sup!Connect <=> SP!Connect
  BY DEF Sup!Connect, SP!Connect, Sup!Event, SP!Event, Sup!history,
         SP!history
<1>3. Sup!LoopTop <=> SP!LoopTop
  BY DEF Sup!LoopTop, SP!LoopTop, Sup!EndLoop, SP!EndLoop, Sup!Event, SP!Event,
         Sup!chan, SP!chan, Sup!history, SP!history
<1>4. Sup!FreshSession <=> SP!FreshSession
  BY DEF Sup!FreshSession, SP!FreshSession, Sup!OneMore, SP!OneMore,
         Sup!CountBound, SP!CountBound, Sup!chan, SP!chan
<1>5. Sup!Settle <=> SP!Settle
  BY DEF Sup!Settle, SP!Settle, Sup!EndLoop, SP!EndLoop, Sup!Event, SP!Event,
         Sup!Reconnecting, SP!Reconnecting, Sup!Judge, SP!Judge,
         Sup!HealthySession, SP!HealthySession, Sup!NextAttempt,
         SP!NextAttempt, Sup!GivesUp, SP!GivesUp, Sup!Delay, SP!Delay,
         Sup!Backoff, SP!Backoff, Sup!MaxBackoff, SP!MaxBackoff,
         Sup!DeviceBlockedDelay, SP!DeviceBlockedDelay, Sup!OneMore,
         SP!OneMore, Sup!CountBound, SP!CountBound, Sup!chan, SP!chan
<1>6. Sup!EmitSend <=> SP!EmitSend
  BY DEF Sup!EmitSend, SP!EmitSend, Sup!Room, SP!Room, Sup!Post, SP!Post,
         Sup!AfterEmit, SP!AfterEmit, Sup!history, SP!history
<1>7. Sup!EmitCancelled <=> SP!EmitCancelled
  BY DEF Sup!EmitCancelled, SP!EmitCancelled, Sup!chan, SP!chan, Sup!history,
         SP!history
<1>8. Sup!TryEmit <=> SP!TryEmit
  BY DEF Sup!TryEmit, SP!TryEmit, Sup!Room, SP!Room, Sup!Post, SP!Post,
         Sup!AfterEmit, SP!AfterEmit, Sup!chan, SP!chan, Sup!history,
         SP!history
<1>9. Sup!Sleep <=> SP!Sleep
  BY DEF Sup!Sleep, SP!Sleep, Sup!EndLoop, SP!EndLoop, Sup!Event, SP!Event,
         Sup!chan, SP!chan, Sup!history, SP!history
<1>10. Sup!Close <=> SP!Close
  BY DEF Sup!Close, SP!Close, Sup!history, SP!history
<1> QED
  BY <1>1, <1>2, <1>3, <1>4, <1>5, <1>6, <1>7, <1>8, <1>9, <1>10
     DEF Sup!Supervise, SP!Supervise

LEMMA SameNext == Sup!Next <=> SP!Next
<1>1. Sup!SessionEvent <=> SP!SessionEvent
  BY DEF Sup!SessionEvent, SP!SessionEvent, Sup!Room, SP!Room, Sup!Event,
         SP!Event, Sup!history, SP!history
<1>2. Sup!EndSession <=> SP!EndSession
  BY DEF Sup!EndSession, SP!EndSession, Sup!Exits, SP!Exits, Sup!OneMore,
         SP!OneMore, Sup!CountBound, SP!CountBound, Sup!chan, SP!chan
<1>3. Sup!Receive <=> SP!Receive
  BY DEF Sup!Receive, SP!Receive, Sup!history, SP!history
<1>4. Sup!Cancel <=> SP!Cancel
  BY DEF Sup!Cancel, SP!Cancel, Sup!chan, SP!chan, Sup!history, SP!history
<1> QED
  BY SameSupervise, <1>1, <1>2, <1>3, <1>4
     DEF Sup!Next, SP!Next

LEMMA SameStart ==
    /\ Sup!Init <=> SP!Init
    /\ Sup!TypeOK <=> SP!TypeOK
    /\ Sup!vars = SP!vars /\ Sup!vars' = SP!vars'
<1>1. Sup!Init <=> SP!Init
  BY DEF Sup!Init, SP!Init, Sup!Event, SP!Event
<1>2. Sup!TypeOK <=> SP!TypeOK
  BY DEF Sup!TypeOK, SP!TypeOK, Sup!PCs, SP!PCs, Sup!Exits, SP!Exits,
         Sup!Events, SP!Events, Sup!EventTypes, SP!EventTypes, Sup!CountBound,
         SP!CountBound
<1>3. Sup!vars = SP!vars /\ Sup!vars' = SP!vars'
  BY DEF Sup!vars, SP!vars, Sup!chan, SP!chan, Sup!history, SP!history
<1> QED
  BY <1>1, <1>2, <1>3

-----------------------------------------------------------------------------
(* The channel holds stream events, numbered, and the supervisor's own.    *)
Notices == {e \in SP!Events : e.type # "Data"}
Mixed   == WP!StreamEvents \cup Notices

(* Unnumbered, of any channel.                                             *)
Plain(e)    == IF e.type = "Data" THEN S!Event("Data") ELSE e
PlainSeq(b) == [i \in 1..Len(b) |-> Plain(b[i])]

LEMMA UnnumberedIsPlain ==
    Unnumbered = PlainSeq(buf) /\ Unnumbered' = PlainSeq(buf')
BY DEF Unnumbered, PlainSeq, Plain

LEMMA PlainTypes ==
    /\ \A e \in Mixed : Plain(e) \in SP!Events /\ Plain(e).type = e.type
    /\ \A e \in Notices : Plain(e) = e /\ e \in Mixed
    /\ S!Event("Data").type = "Data"
<1>1. S!Event("Data") \in SP!Events /\ S!Event("Data").type = "Data"
  BY DEF S!Event, SP!Events, SP!EventTypes
<1>2. \A e \in WP!StreamEvents : e.type = "Data"
  BY DEF WP!StreamEvents
<1> QED
  BY <1>1, <1>2 DEF Mixed, Notices, Plain

(* It has the length of the channel and is well typed.                     *)
LEMMA PlainShape ==
    ASSUME NEW b \in Seq(Mixed)
    PROVE  /\ PlainSeq(b) \in Seq(SP!Events) /\ Len(PlainSeq(b)) = Len(b)
           /\ \A i \in 1..Len(b) :
                 b[i] \in Mixed /\ PlainSeq(b)[i] = Plain(b[i])
<1>1. Len(b) \in Nat /\ \A i \in 1..Len(b) : b[i] \in Mixed
  BY ElementOfSeq, LenProperties
<1>2. \A i \in 1..Len(b) : Plain(b[i]) \in SP!Events
  BY <1>1, PlainTypes
<1> QED
  BY <1>1, <1>2 DEF PlainSeq

LEMMA PlainEmpty == PlainSeq(<< >>) = << >>
<1>1. << >> \in Seq(Mixed) /\ Len(<< >>) = 0
  OBVIOUS
<1>2. PlainSeq(<< >>) \in Seq(SP!Events) /\ Len(PlainSeq(<< >>)) = 0
  BY <1>1, PlainShape
<1> QED
  BY <1>2, EmptySeq

(* Posting and taking carry over.                                          *)
LEMMA PlainAppend ==
    ASSUME NEW b \in Seq(Mixed), NEW e \in Mixed
    PROVE  PlainSeq(Append(b, e)) = Append(PlainSeq(b), Plain(e))
<1>1. /\ PlainSeq(b) \in Seq(SP!Events) /\ Len(PlainSeq(b)) = Len(b)
      /\ Len(b) \in Nat
      /\ \A i \in 1..Len(b) : PlainSeq(b)[i] = Plain(b[i])
  BY PlainShape, LenProperties
<1>2. /\ Append(b, e) \in Seq(Mixed) /\ Len(Append(b, e)) = Len(b) + 1
      /\ \A i \in 1..Len(b) : Append(b, e)[i] = b[i]
      /\ Append(b, e)[Len(b) + 1] = e
  BY AppendProperties
<1>3. /\ PlainSeq(Append(b, e)) \in Seq(SP!Events)
      /\ Len(PlainSeq(Append(b, e))) = Len(b) + 1
      /\ \A i \in 1..(Len(b) + 1) :
            PlainSeq(Append(b, e))[i] = Plain(Append(b, e)[i])
  BY <1>2, PlainShape
<1>4. /\ Append(PlainSeq(b), Plain(e)) \in Seq(SP!Events)
      /\ Len(Append(PlainSeq(b), Plain(e))) = Len(b) + 1
      /\ \A i \in 1..Len(b) :
            Append(PlainSeq(b), Plain(e))[i] = PlainSeq(b)[i]
      /\ Append(PlainSeq(b), Plain(e))[Len(b) + 1] = Plain(e)
  BY <1>1, PlainTypes, AppendProperties
<1>5. \A i \in 1..(Len(b) + 1) :
         PlainSeq(Append(b, e))[i] = Append(PlainSeq(b), Plain(e))[i]
  BY <1>1, <1>2, <1>3, <1>4
<1> QED
  BY <1>3, <1>4, <1>5, SeqEqual

LEMMA PlainTail ==
    ASSUME NEW b \in Seq(Mixed), b # << >>
    PROVE  /\ PlainSeq(b) # << >> /\ PlainSeq(Tail(b)) = Tail(PlainSeq(b))
           /\ Head(b) \in Mixed /\ Head(PlainSeq(b)).type = Head(b).type
<1>1. /\ PlainSeq(b) \in Seq(SP!Events) /\ Len(PlainSeq(b)) = Len(b)
      /\ \A i \in 1..Len(b) : PlainSeq(b)[i] = Plain(b[i])
  BY PlainShape
<1>2. /\ Head(b) = b[1] /\ Head(b) \in Mixed /\ Len(b) \in Nat \ {0}
      /\ Tail(b) \in Seq(Mixed) /\ Len(Tail(b)) = Len(b) - 1
      /\ \A i \in 1..Len(Tail(b)) : Tail(b)[i] = b[i + 1]
  BY HeadTailProperties, EmptySeq
<1>3. PlainSeq(b) # << >>
  BY <1>1, <1>2
<1>4. /\ Head(PlainSeq(b)) = PlainSeq(b)[1]
      /\ Tail(PlainSeq(b)) \in Seq(SP!Events)
      /\ Len(Tail(PlainSeq(b))) = Len(b) - 1
      /\ \A i \in 1..Len(Tail(PlainSeq(b))) :
            Tail(PlainSeq(b))[i] = PlainSeq(b)[i + 1]
  BY <1>1, <1>3, HeadTailProperties
<1>5. /\ PlainSeq(Tail(b)) \in Seq(SP!Events)
      /\ Len(PlainSeq(Tail(b))) = Len(b) - 1
      /\ \A i \in 1..(Len(b) - 1) : PlainSeq(Tail(b))[i] = Plain(Tail(b)[i])
  BY <1>2, PlainShape
<1>6. \A i \in 1..(Len(b) - 1) :
         PlainSeq(Tail(b))[i] = Tail(PlainSeq(b))[i]
  BY <1>1, <1>2, <1>4, <1>5
<1>7. PlainSeq(Tail(b)) = Tail(PlainSeq(b))
  BY <1>4, <1>5, <1>6, SeqEqual
<1> QED
  BY <1>1, <1>2, <1>3, <1>4, <1>7, PlainTypes

-----------------------------------------------------------------------------
(* What the parts ask of their constants, in their own words.              *)
LEMMA Constants ==
    /\ Cap \in Nat \ {0} /\ MaxRetries \in Int
    /\ Lifetimes \subseteq Nat /\ Lifetimes # {}
    /\ MaxFrames \in Nat
    /\ Bodies \subseteq Seq(WP!Messages) /\ Bodies # {}
BY ClientAssumption DEF W!Messages, WP!Messages, W!Methods, WP!Methods

(* The inductive invariant: those of the parts, a channel of both kinds of *)
(* events, no session outside "run", and none before the room is known.    *)
Alternate ==
    /\ pc # "run" => rpc = "returned"
    /\ pc = "connect" => hpc = "none"

LInv ==
    /\ SP!IInv
    /\ WP!SessionInv /\ WP!Posted
    /\ buf \in Seq(Mixed) /\ Len(buf) <= Cap
    /\ Alternate

(* What the supervisor posts is a notice.                                  *)
LEMMA PendingIsNotice ==
    ASSUME SP!IInv, pc \in {"emit", "tryEmit"}
    PROVE  pending \in Notices /\ Plain(pending) = pending
<1>1. pending \in SP!Events
  BY DEF SP!IInv, SP!TypeOK
<1>2. pending.type # "Data"
  BY DEF SP!IInv, SP!Numbering
<1> QED
  BY <1>1, <1>2, PlainTypes DEF Notices

LEMMA ConnectedIsNotice ==
    S!Event("Connected") \in Notices /\ SP!Event("Connected") = S!Event("Connected")
BY DEF Notices, S!Event, SP!Event, SP!Events, SP!EventTypes

LEMMA SingleIsAppended == \A e : <<e>> = Append(<< >>, e)
OBVIOUS

(* There is room in the one where there is room in the other.              *)
LEMMA SameRoom ==
    ASSUME buf \in Seq(Mixed)
    PROVE  /\ Len(Unnumbered) = Len(buf)
           /\ S!Room <=> SP!Room
BY UnnumberedIsPlain, PlainShape DEF S!Room, SP!Room

(* A post of the supervisor is one in its own eyes.                        *)
LEMMA SamePost ==
    ASSUME buf \in Seq(Mixed), pending \in Notices, S!Post
    PROVE  SP!Post /\ buf' = Append(buf, pending)
<1>1. buf' = Append(buf, pending)
  BY DEF S!Post
<1>2. Unnumbered' = Append(Unnumbered, pending)
  BY <1>1, UnnumberedIsPlain, PlainAppend, PlainTypes
<1> QED
  BY <1>1, <1>2 DEF S!Post, SP!Post

-----------------------------------------------------------------------------
(* The goroutine's own steps, seen with one kind of stream event; they     *)
(* leave the channel alone or post a notice where there is room for it.    *)
Noticed ==
    \/ buf' = buf
    \/ Len(buf) < Cap /\ \E e \in Notices : buf' = Append(buf, e)

LEMMA SuperviseSeen ==
    ASSUME LInv, S!Supervise
    PROVE  SP!Supervise /\ Noticed
<1> USE DEF LInv
<1>1. ASSUME buf' = buf PROVE Unnumbered' = Unnumbered
  BY <1>1, UnnumberedIsPlain
<1>2. CASE S!CheckOnlineFails
  <2>1. buf' = buf
    BY <1>2 DEF S!CheckOnlineFails, S!chan
  <2>2. SP!CheckOnlineFails
    BY <1>1, <1>2, <2>1
       DEF S!CheckOnlineFails, SP!CheckOnlineFails, S!chan, SP!chan,
           S!history, SP!history
  <2> QED
    BY <2>1, <2>2 DEF SP!Supervise, Noticed
<1>3. CASE S!LoopTop
  <2>1. buf' = buf
    BY <1>3 DEF S!LoopTop, S!chan
  <2>2. SP!LoopTop
    BY <1>1, <1>3, <2>1
       DEF S!LoopTop, SP!LoopTop, S!EndLoop, SP!EndLoop, S!Event, SP!Event,
           S!chan, SP!chan, S!history, SP!history
  <2> QED
    BY <2>1, <2>2 DEF SP!Supervise, Noticed
<1>4. CASE S!FreshSession
  <2>1. buf' = buf
    BY <1>4 DEF S!FreshSession, S!chan
  <2>2. SP!FreshSession
    BY <1>1, <1>4, <2>1
       DEF S!FreshSession, SP!FreshSession, S!OneMore, SP!OneMore,
           S!CountBound, SP!CountBound, S!chan, SP!chan
  <2> QED
    BY <2>1, <2>2 DEF SP!Supervise, Noticed
<1>5. CASE S!Settle
  <2>1. buf' = buf
    BY <1>5 DEF S!Settle, S!chan
  <2>2. SP!Settle
    BY <1>1, <1>5, <2>1
       DEF S!Settle, SP!Settle, S!EndLoop, SP!EndLoop, S!Event, SP!Event,
           S!Reconnecting, SP!Reconnecting, S!Judge, SP!Judge,
           S!HealthySession, SP!HealthySession, S!NextAttempt, SP!NextAttempt,
           S!GivesUp, SP!GivesUp, S!Delay, SP!Delay, S!Backoff, SP!Backoff,
           S!MaxBackoff, SP!MaxBackoff, S!DeviceBlockedDelay,
           SP!DeviceBlockedDelay, S!OneMore, SP!OneMore, S!CountBound,
           SP!CountBound, S!chan, SP!chan
  <2> QED
    BY <2>1, <2>2 DEF SP!Supervise, Noticed
<1>6. CASE S!EmitCancelled
  <2>1. buf' = buf
    BY <1>6 DEF S!EmitCancelled, S!chan
  <2>2. SP!EmitCancelled
    BY <1>1, <1>6, <2>1
       DEF S!EmitCancelled, SP!EmitCancelled, S!chan, SP!chan, S!history,
           SP!history
  <2> QED
    BY <2>1, <2>2 DEF SP!Supervise, Noticed
<1>7. CASE S!Sleep
  <2>1. buf' = buf
    BY <1>7 DEF S!Sleep, S!chan
  <2>2. SP!Sleep
    BY <1>1, <1>7, <2>1
       DEF S!Sleep, SP!Sleep, S!EndLoop, SP!EndLoop, S!Event, SP!Event,
           S!chan, SP!chan, S!history, SP!history
  <2> QED
    BY <2>1, <2>2 DEF SP!Supervise, Noticed
<1>8. CASE S!Close
  <2>1. buf' = buf
    BY <1>8 DEF S!Close, S!chan
  <2>2. SP!Close
    BY <1>1, <1>8, <2>1
       DEF S!Close, SP!Close, S!history, SP!history, S!chan, SP!chan
  <2> QED
    BY <2>1, <2>2 DEF SP!Supervise, Noticed
<1>12. CASE S!Connect
  <2>1. pc = "connect" /\ buf' = <<S!Event("Connected")>>
    BY <1>12 DEF S!Connect
  <2>2. buf = << >>
    <3>1. Unnumbered = << >>
      BY <2>1 DEF SP!IInv, SP!Numbering
    <3>2. Len(buf) = 0
      BY <3>1, SameRoom
    <3> QED
      BY <3>2, EmptySeq
  <2>3. buf' = Append(buf, S!Event("Connected"))
    BY <2>1, <2>2, SingleIsAppended
  <2>4. Unnumbered' = <<SP!Event("Connected")>>
    BY <2>2, <2>3, UnnumberedIsPlain, PlainEmpty, PlainAppend, PlainTypes,
       ConnectedIsNotice, SingleIsAppended
  <2>5. SP!Connect
    BY <1>12, <2>4
       DEF S!Connect, SP!Connect, S!Event, SP!Event, S!history, SP!history
  <2>6. Len(buf) < Cap
    BY <2>2, Constants
  <2> QED
    BY <2>3, <2>5, <2>6, ConnectedIsNotice DEF SP!Supervise, Noticed
<1>13. CASE S!EmitSend
  <2>1. pending \in Notices /\ S!Room /\ S!Post
    BY <1>13, PendingIsNotice DEF S!EmitSend
  <2>2. SP!EmitSend
    BY <1>13, <2>1, SameRoom, SamePost
       DEF S!EmitSend, SP!EmitSend, S!AfterEmit, SP!AfterEmit, S!history,
           SP!history
  <2> QED
    BY <2>1, <2>2, SamePost DEF SP!Supervise, Noticed, S!Room
<1>14. CASE S!TryEmit
  <2>1. pending \in Notices
    BY <1>14, PendingIsNotice DEF S!TryEmit
  <2>2. CASE S!Room
    <3>1. S!Post
      BY <1>14, <2>2 DEF S!TryEmit
    <3>2. SP!TryEmit
      BY <1>14, <2>1, <2>2, <3>1, SameRoom, SamePost
         DEF S!TryEmit, SP!TryEmit, S!AfterEmit, SP!AfterEmit, S!history,
             SP!history
    <3> QED
      BY <2>1, <2>2, <3>1, <3>2, SamePost DEF SP!Supervise, Noticed, S!Room
  <2>3. CASE ~S!Room
    <3>1. UNCHANGED S!chan
      BY <1>14, <2>3 DEF S!TryEmit
    <3>2. buf' = buf /\ UNCHANGED SP!chan
      BY <1>1, <3>1 DEF S!chan, SP!chan
    <3>3. SP!TryEmit
      BY <1>14, <2>3, <3>2, SameRoom
         DEF S!TryEmit, SP!TryEmit, S!AfterEmit, SP!AfterEmit, S!history,
             SP!history
    <3> QED
      BY <3>2, <3>3 DEF SP!Supervise, Noticed
  <2> QED
    BY <2>2, <2>3
<1> QED
  BY <1>2, <1>3, <1>4, <1>5, <1>6, <1>7, <1>8, <1>12, <1>13, <1>14 DEF S!Supervise

(* The end of a session, the reader and a cancel.                          *)
LEMMA EndSessionSeen ==
    ASSUME S!EndSession
    PROVE  SP!EndSession /\ buf' = buf
<1>1. buf' = buf
  BY DEF S!EndSession, S!chan
<1>2. Unnumbered' = Unnumbered
  BY <1>1, UnnumberedIsPlain
<1>3. SP!EndSession
  BY <1>2
     DEF S!EndSession, SP!EndSession, S!Exits, SP!Exits, S!OneMore,
         SP!OneMore, S!CountBound, SP!CountBound, S!chan, SP!chan
<1> QED
  BY <1>1, <1>3

LEMMA ReceiveSeen ==
    ASSUME buf \in Seq(Mixed), S!Receive
    PROVE  SP!Receive
<1>1. /\ Unnumbered # << >> /\ Unnumbered' = Tail(Unnumbered)
      /\ Head(Unnumbered).type = Head(buf).type
  BY UnnumberedIsPlain, PlainTail DEF S!Receive
<1> QED
  BY <1>1 DEF S!Receive, SP!Receive, S!history, SP!history

LEMMA CancelSeen ==
    ASSUME S!Cancel
    PROVE  SP!Cancel /\ buf' = buf
<1>1. buf' = buf
  BY DEF S!Cancel, S!chan
<1>2. Unnumbered' = Unnumbered
  BY <1>1, UnnumberedIsPlain
<1>3. SP!Cancel
  BY <1>2 DEF S!Cancel, SP!Cancel, S!chan, SP!chan, S!history, SP!history
<1> QED
  BY <1>1, <1>3

-----------------------------------------------------------------------------
(* The steps of sessions and of the network are WssSession's, and touch    *)
(* nothing of the caller's.                                                *)
LEMMA OfSession ==
    ASSUME SessionStep \/ Network
    PROVE  WP!SessionStep /\ UNCHANGED <<supervisor, room, ctxDone>>
<1>1. WP!SessionStep /\ UNCHANGED supervisor
  BY SameActions, SameReaderStep
     DEF SessionStep, Network, Alone, WP!SessionStep, WP!ControlStep,
         WP!PlainStep, WP!ReaderStep
<1>2. UNCHANGED WP!caller
  <2>1. CASE WP!PlainStep
    BY <2>1
       DEF WP!PlainStep, WP!Check, WP!StaleTimeout, WP!ReadFails,
           WP!ProcessFrame, WP!FrameDone, WP!Stop, WP!Join, WP!Tick,
           WP!HeartbeatStops, WP!LinkDown, WP!DialFails
  <2>2. CASE WP!Greet \/ WP!GreetFails \/ WP!Ack \/ WP!AckFails \/ WP!Beat
             \/ WP!BeatFails
    BY <2>2
       DEF WP!Greet, WP!GreetFails, WP!Ack, WP!AckFails, WP!Beat, WP!BeatFails
  <2>3. CASE WP!DialOpens \/ WP!ReadFrame \/ WP!Deliver \/ WP!ServerSends
    BY <2>3 DEF WP!DialOpens, WP!ReadFrame, WP!Deliver, WP!ServerSends
  <2> QED
    BY <1>1, <2>1, <2>2, <2>3 DEF WP!SessionStep, WP!ControlStep
<1> QED
  BY <1>1, <1>2 DEF WP!caller

(* None of them brings a session back that has returned, or its goroutine. *)
LEMMA ReturnedForGood ==
    ASSUME WP!SessionInv, WP!SessionStep, rpc = "returned"
    PROVE  rpc' = "returned" /\ (hpc = "none" => hpc' = "none")
<1>1. WP!Positions
  BY DEF WP!SessionInv
<1>2. CASE WP!PlainStep
  BY <1>2
     DEF WP!PlainStep, WP!Check, WP!StaleTimeout, WP!ReadFails,
         WP!ProcessFrame, WP!FrameDone, WP!Stop, WP!Join, WP!Tick,
         WP!HeartbeatStops, WP!LinkDown, WP!DialFails
<1>3. CASE WP!Greet \/ WP!GreetFails \/ WP!Ack \/ WP!AckFails \/ WP!Beat
           \/ WP!BeatFails
  BY <1>3
     DEF WP!Greet, WP!GreetFails, WP!Ack, WP!AckFails, WP!Beat, WP!BeatFails
<1>4. CASE WP!DialOpens \/ WP!ReadFrame \/ WP!Deliver \/ WP!ServerSends
  BY <1>4 DEF WP!DialOpens, WP!ReadFrame, WP!Deliver, WP!ServerSends
<1> QED
  BY <1>2, <1>3, <1>4 DEF WP!SessionStep, WP!ControlStep

(* What a session posts the supervisor sees as a stream event, posted      *)
(* while it was in "run"; it sees nothing else of a session.               *)
LEMMA SessionSeen ==
    ASSUME LInv, WP!SessionStep, UNCHANGED <<supervisor, ctxDone>>
    PROVE  [SP!Next]_SP!vars
<1> USE DEF LInv
<1>1. ASSUME buf' = buf PROVE UNCHANGED SP!vars
  BY <1>1, UnnumberedIsPlain DEF supervisor, SP!vars, SP!chan, SP!history
<1>2. CASE WP!ControlStep
  BY <1>1, <1>2, Constants, WP!ControlFrames DEF WP!queue
<1>3. CASE WP!DialOpens \/ WP!ReadFrame \/ WP!ServerSends
  BY <1>1, <1>3 DEF WP!DialOpens, WP!ReadFrame, WP!ServerSends, WP!queue
<1>4. CASE WP!Deliver
  <2>1. CASE buf' = buf
    BY <1>1, <2>1
  <2>2. CASE buf' # buf
    <3>1. /\ rpc = "deliver" /\ Len(buf) < Cap
          /\ buf' = Append(buf, WP!Due)
      BY <1>4, <2>2 DEF WP!Deliver, WP!Post
    <3>2. WP!Due \in Mixed /\ WP!Due.type = "Data"
      <4>1. WP!Due \in WP!StreamEvents
        BY <1>4, Constants, WP!DueIsNext DEF WP!Deliver
      <4> QED
        BY <4>1 DEF Mixed, WP!StreamEvents
    <3>3. Unnumbered' = Append(Unnumbered, S!Event("Data"))
      BY <3>1, <3>2, UnnumberedIsPlain, PlainAppend DEF Plain
    <3>4. pc = "run" /\ SP!Room
      BY <3>1, SameRoom DEF Alternate, S!Room
    <3>5. SP!SessionEvent
      BY <3>3, <3>4
         DEF SP!SessionEvent, supervisor, S!Event, SP!Event, SP!history
    <3> QED
      BY <3>5 DEF SP!Next
  <2> QED
    BY <2>1, <2>2
<1> QED
  BY <1>2, <1>3, <1>4 DEF WP!SessionStep

(* So the client as a whole is a supervisor.                               *)
LEMMA StepSeen ==
    ASSUME LInv, [Next]_vars
    PROVE  [SP!Next]_SP!vars
<1>1. CASE Supervise
  BY <1>1, SuperviseSeen DEF Supervise, SP!Next
<1>2. CASE SessionStep \/ Network
  BY <1>2, OfSession, SessionSeen
<1>3. CASE EndSession
  BY <1>3, EndSessionSeen DEF EndSession, SP!Next
<1>4. CASE Receive
  BY <1>4, ReceiveSeen DEF Receive, SP!Next, LInv
<1>5. CASE Cancel
  BY <1>5, CancelSeen DEF Cancel, SP!Next
<1>6. CASE UNCHANGED vars
  BY <1>6, UnnumberedIsPlain
     DEF vars, supervisor, SP!vars, SP!chan, SP!history
<1> QED
  BY <1>1, <1>2, <1>3, <1>4, <1>5, <1>6 DEF Next

-----------------------------------------------------------------------------
(* Without a connection there is no frame either, and what was posted      *)
(* stays earlier than whatever comes.                                      *)
LEMMA NoConnectionInv ==
    ASSUME WP!SessionInv, NoConnection, UNCHANGED <<ctxDone, sent, taken>>
    PROVE  /\ inbox' \in Seq(WP!Frames) /\ Len(inbox') = 0
           /\ next' \in (Nat \ {0}) \X (1..2) /\ cur' = WP!NoFrame
           /\ link' = "up" /\ wire' = "clean" /\ garbled' = FALSE
           /\ sent' \in 0..MaxFrames /\ ctxDone' \in BOOLEAN
           /\ garbled' \in BOOLEAN
           /\ rpc' \in {"dial", "returned"} =>
                 WP!Parsed' /\ WP!Arrived' /\ WP!PlacesKept
<1>1. /\ link' = "up" /\ wire' = "clean" /\ garbled' = FALSE
      /\ inbox' = << >> /\ cur' = WP!NoFrame /\ next' = WP!First
  BY SameSession DEF NoConnection
<1>2. inbox' \in Seq(WP!Frames) /\ Len(inbox') = 0
  BY <1>1, EmptySeq
<1>3. next' \in (Nat \ {0}) \X (1..2)
  BY <1>1 DEF WP!First
<1>4. ctxDone' \in BOOLEAN /\ garbled' \in BOOLEAN
  BY <1>1, Zenon DEF WP!SessionInv, WP!SessionTypeOK
<1>5. sent' \in 0..MaxFrames /\ sent' \in Nat
  BY Constants DEF WP!SessionInv, WP!SessionTypeOK
<1>6. ASSUME rpc' \in {"dial", "returned"}
      PROVE  WP!Parsed' /\ WP!Arrived' /\ WP!PlacesKept
  BY <1>2, <1>5, <1>6
     DEF WP!Parsed, WP!Arrived, WP!PlacesKept, WP!Placed, WP!InFrame
<1> QED
  BY <1>1, <1>2, <1>3, <1>4, <1>5, <1>6

(* A new session begins with nothing of the last one.                      *)
LEMMA NewSessionInv ==
    ASSUME WP!SessionInv, NewSession, UNCHANGED <<room, ctxDone, sent, taken>>
    PROVE  WP!SessionInv' /\ WP!PlacesKept
<1>1. /\ rpc' = "dial" /\ hpc' = "none" /\ half' = {} /\ hbStop' = FALSE
      /\ conn' = "none" /\ result' = "none" /\ NoConnection
  BY DEF NewSession
<1>2. WP!SessionTypeOK'
  <2>1. hbStop' \in BOOLEAN
    BY <1>1, Zenon
  <2>2. /\ inbox' \in Seq(WP!Frames) /\ Len(inbox') = 0
        /\ next' \in (Nat \ {0}) \X (1..2) /\ cur' = WP!NoFrame
        /\ link' = "up" /\ wire' = "clean" /\ sent' \in 0..MaxFrames
        /\ ctxDone' \in BOOLEAN /\ garbled' \in BOOLEAN
    BY <1>1, NoConnectionInv
  <2> QED
    BY <1>1, <2>1, <2>2, Constants DEF WP!SessionInv, WP!SessionTypeOK
<1>3. WP!Positions' /\ WP!Greeted' /\ WP!AliveWhileReading'
  BY <1>1 DEF WP!Positions, WP!Greeted, WP!AliveWhileReading
<1> QED
  BY <1>1, <1>2, <1>3, NoConnectionInv DEF WP!SessionInv

(* One that has returned keeps only what it leaves behind.                 *)
LEMMA SessionOverInv ==
    ASSUME WP!SessionInv, rpc = "returned", NoConnection,
           UNCHANGED <<rpc, hpc, half, hbStop, conn, result, room, ctxDone,
                       sent, taken>>
    PROVE  WP!SessionInv' /\ WP!PlacesKept
<1>1. WP!SessionTypeOK'
  <2>1. /\ inbox' \in Seq(WP!Frames) /\ Len(inbox') = 0
        /\ next' \in (Nat \ {0}) \X (1..2) /\ cur' = WP!NoFrame
        /\ link' = "up" /\ wire' = "clean" /\ sent' \in 0..MaxFrames
        /\ ctxDone' \in BOOLEAN /\ garbled' \in BOOLEAN
    BY NoConnectionInv
  <2> QED
    BY <2>1, Constants DEF WP!SessionInv, WP!SessionTypeOK
<1>2. WP!Positions' /\ WP!Greeted' /\ WP!AliveWhileReading'
  BY DEF WP!SessionInv, WP!Positions, WP!Greeted, WP!AliveWhileReading,
         WP!HeartbeatBuilds, WP!EnterRoomBuilds
<1> QED
  BY <1>1, <1>2, NoConnectionInv DEF WP!SessionInv

(* The room that a reply names is one that a session may get.              *)
LEMMA ResolvedRoom ==
    ASSUME Resolve, room \in WP!RoomIds
    PROVE  room' \in WP!RoomIds
<1>1. PICK reply \in RoomReplies :
         IF CheckOnline(reply) = "Online"
         THEN pc' = "loop" /\ room' = reply.roomId
         ELSE pc' = "failed" /\ UNCHANGED room
  BY DEF Resolve
<1>2. CASE CheckOnline(reply) = "Online"
  <2>1. IsLive(reply)
    BY <1>2 DEF CheckOnline
  <2>2. reply.roomId \in {"signed", "unsigned", "invalid"}
    BY <2>1 DEF IsLive, RoomReplies
  <2> QED
    BY <1>1, <1>2, <2>2 DEF WP!RoomIds
<1> QED
  BY <1>1, <1>2

(* Before the first session any room will do.                              *)
LEMMA ResolvedInv ==
    ASSUME WP!SessionInv, rpc = "returned", hpc = "none",
           room' \in WP!RoomIds, UNCHANGED <<session, ctxDone, sent, taken>>
    PROVE  WP!SessionInv' /\ WP!PlacesKept
<1>1. /\ UNCHANGED <<rpc, hpc, half, hbStop, WP!net, WP!feed, result>>
      /\ taken' = taken
  BY DEF session, WP!net, WP!feed
<1>2. WP!SessionTypeOK'
  BY <1>1 DEF WP!SessionInv, WP!SessionTypeOK, WP!net, WP!feed
<1>3. WP!Positions' /\ WP!Greeted' /\ WP!AliveWhileReading'
  BY <1>1 DEF WP!SessionInv, WP!Positions, WP!Greeted, WP!AliveWhileReading,
              WP!net
<1>4. WP!InFrame' => WP!InFrame
  BY <1>1 DEF WP!InFrame
<1>5. WP!Parsed' /\ WP!Arrived'
  BY <1>1, <1>4, Constants, WP!FeedKept
<1>6. WP!PlacesKept
  BY <1>1, <1>4, Constants, WP!PlacesWithFrames
<1> QED
  BY <1>2, <1>3, <1>5, <1>6 DEF WP!SessionInv

(* A session that nobody touches stays as it is.                           *)
LEMMA SessionIdle ==
    ASSUME WP!SessionInv, UNCHANGED <<session, room, sent, taken>>,
           ctxDone' \in BOOLEAN, ctxDone => ctxDone'
    PROVE  WP!SessionInv' /\ WP!PlacesKept
<1>1. /\ UNCHANGED <<room, rpc, hpc, half, hbStop, WP!net, WP!feed, result>>
      /\ taken' = taken
  BY DEF session, WP!net, WP!feed
<1>2. WP!SessionInv'
  BY <1>1, Constants, WP!CancelKept
<1>3. WP!InFrame' => WP!InFrame
  BY <1>1 DEF WP!InFrame
<1>4. WP!PlacesKept
  BY <1>1, <1>3, Constants, WP!PlacesWithFrames
<1> QED
  BY <1>2, <1>4

(* The channel after a step of the supervisor's.                           *)
LEMMA NoticedKept ==
    ASSUME WP!Posted, WP!PlacesKept, UNCHANGED taken, Noticed,
           buf \in Seq(Mixed), Len(buf) <= Cap
    PROVE  WP!Posted' /\ buf' \in Seq(Mixed) /\ Len(buf') <= Cap
<1>1. CASE buf' = buf
  BY <1>1, Constants, WP!PostedKept DEF WP!queue
<1>2. CASE Len(buf) < Cap /\ \E e \in Notices : buf' = Append(buf, e)
  <2>1. PICK e \in Notices : buf' = Append(buf, e)
    BY <1>2
  <2>2. e \in Mixed /\ e.type # "Data"
    BY PlainTypes DEF Notices
  <2>3. WP!Posted'
    BY <2>1, <2>2, Constants, WP!PostedAppend
  <2>4. buf' \in Seq(Mixed) /\ Len(buf') <= Cap
    BY <1>2, <2>1, <2>2, Constants, AppendProperties, LenProperties
  <2> QED
    BY <2>3, <2>4
<1> QED
  BY <1>1, <1>2 DEF Noticed

-----------------------------------------------------------------------------
(* While deps.run runs, reconnectLoop waits for it; Connect runs once and  *)
(* no session.                                                             *)
LEMMA OutsideRun ==
    S!Supervise => /\ ctxDone' = ctxDone /\ pc # "run" /\ pc' # "connect"
                   /\ pc' = "run" => pc # "connect"
BY DEF S!EndLoop, S!AfterEmit, S!Supervise, S!CheckOnlineFails, S!Connect, S!LoopTop, S!FreshSession,
       S!Settle, S!EmitSend, S!EmitCancelled, S!TryEmit, S!Sleep, S!Close

LEMMA LiveInit == Init => LInv
<1> SUFFICES ASSUME Init PROVE LInv
  OBVIOUS
<1>1. S!Init /\ buf = << >> /\ Unnumbered = << >>
  BY UnnumberedIsPlain, PlainEmpty DEF Init, S!Init
<1>2. SP!IInv
  <2>1. SP!Init
    BY <1>1 DEF S!Init, SP!Init, S!Event, SP!Event
  <2> QED
    BY <2>1, Constants, SP!InitInv
<1>3. /\ rpc = "returned" /\ hpc = "none" /\ half = {} /\ hbStop = FALSE
      /\ conn = "none" /\ link = "up" /\ wire = "clean" /\ garbled = FALSE
      /\ inbox = << >> /\ cur = WP!NoFrame /\ next = WP!First
      /\ result = "none" /\ sent = 0 /\ taken = WP!NoEvent
      /\ room \in WP!RoomIds /\ ctxDone \in BOOLEAN
  BY SameSession DEF Init, S!Init, NoRoom, WP!RoomIds
<1>4. WP!SessionTypeOK
  <2>1. << >> \in Seq(WP!Frames) /\ Len(<< >>) = 0 /\ 0 \in 0..MaxFrames
    BY Constants
  <2>2. next \in (Nat \ {0}) \X (1..2)
    BY <1>3 DEF WP!First
  <2>3. ctxDone \in BOOLEAN /\ hbStop \in BOOLEAN /\ garbled \in BOOLEAN
    BY <1>3, Zenon
  <2> QED
    BY <1>3, <2>1, <2>2, <2>3 DEF WP!SessionTypeOK
<1>5. WP!SessionInv
  BY <1>3, <1>4
     DEF WP!SessionInv, WP!Positions, WP!Greeted,
         WP!AliveWhileReading, WP!Parsed, WP!Arrived, WP!InFrame
<1>6. WP!Posted
  BY <1>1, <1>3 DEF WP!Posted, WP!Placed, WP!NoEvent, WP!RawTypes, WP!InFrame
<1>7. buf \in Seq(Mixed) /\ Len(buf) <= Cap
  BY <1>1, Constants
<1> QED
  BY <1>2, <1>3, <1>5, <1>6, <1>7 DEF LInv, Alternate

LEMMA LiveStep == LInv /\ [Next]_vars => LInv'
<1> SUFFICES ASSUME LInv, [Next]_vars PROVE LInv'
  OBVIOUS
<1>1. SP!IInv'
  BY StepSeen, Constants, SP!InvStep DEF LInv
<1>2. /\ WP!SessionInv /\ WP!Posted /\ Alternate
      /\ buf \in Seq(Mixed) /\ Len(buf) <= Cap
      /\ ctxDone \in BOOLEAN
  BY DEF LInv, WP!SessionInv, WP!SessionTypeOK
<1>3. CASE Supervise
  <2>1. S!Supervise /\ UNCHANGED <<sent, taken>> /\ Noticed
    BY <1>3, SuperviseSeen DEF Supervise
  <2>2. /\ ctxDone' = ctxDone /\ pc # "run" /\ pc' # "connect"
        /\ pc' = "run" => pc # "connect"
    BY <2>1, OutsideRun
  <2>3. WP!SessionInv' /\ WP!PlacesKept /\ Alternate'
    <3>1. CASE pc' = "run"
      BY <1>2, <1>3, <2>1, <2>2, <3>1, NewSessionInv DEF Supervise, Alternate
    <3>2. CASE pc' # "run" /\ pc # "connect"
      <4>1. UNCHANGED <<session, room, sent, taken>>
        BY <1>3, <2>1, <3>2 DEF Supervise
      <4>2. WP!SessionInv' /\ WP!PlacesKept
        BY <1>2, <2>2, <4>1, SessionIdle
      <4> QED
        BY <1>2, <2>2, <4>1, <4>2 DEF Alternate, session
    <3>3. CASE pc = "connect"
      <4>1. UNCHANGED <<session, ctxDone, sent, taken>> /\ Resolve
        BY <1>3, <2>1, <2>2, <3>3 DEF Supervise
      <4>2. room' \in WP!RoomIds
        BY <1>2, <4>1, ResolvedRoom DEF WP!SessionInv, WP!SessionTypeOK
      <4>3. WP!SessionInv' /\ WP!PlacesKept
        BY <1>2, <2>2, <3>3, <4>1, <4>2, ResolvedInv DEF Alternate
      <4> QED
        BY <1>2, <2>2, <4>1, <4>3 DEF Alternate, session
    <3> QED
      BY <3>1, <3>2, <3>3
  <2>4. WP!Posted' /\ buf' \in Seq(Mixed) /\ Len(buf') <= Cap
    BY <1>2, <2>1, <2>3, NoticedKept
  <2> QED
    BY <1>1, <2>3, <2>4 DEF LInv
<1>4. CASE SessionStep \/ Network
  <2>1. WP!SessionStep /\ UNCHANGED <<supervisor, room, ctxDone>>
    BY <1>4, OfSession
  <2>2. WP!StreamEvents \subseteq Mixed
    BY DEF Mixed
  <2>3. /\ WP!SessionInv' /\ WP!Posted'
        /\ buf' \in Seq(Mixed) /\ Len(buf') <= Cap
    BY <1>2, <2>1, <2>2, Constants, WP!SessionStepKept
  <2>4. Alternate'
    BY <1>2, <2>1, ReturnedForGood DEF Alternate, supervisor
  <2> QED
    BY <1>1, <2>3, <2>4 DEF LInv
<1>5. CASE EndSession
  <2>1. /\ rpc = "returned" /\ NoConnection /\ pc' = "ended"
        /\ UNCHANGED <<rpc, hpc, half, hbStop, conn, result, room, sent, taken>>
        /\ buf' = buf /\ ctxDone' = ctxDone
    BY <1>5, EndSessionSeen DEF EndSession, S!EndSession
  <2>2. WP!SessionInv' /\ WP!PlacesKept
    BY <1>2, <2>1, SessionOverInv
  <2>3. WP!Posted' /\ buf' \in Seq(Mixed) /\ Len(buf') <= Cap
    BY <1>2, <2>1, <2>2, NoticedKept DEF Noticed
  <2> QED
    BY <1>1, <2>1, <2>2, <2>3 DEF LInv, Alternate, session
<1>6. CASE Receive
  <2>1. /\ buf # << >> /\ buf' = Tail(buf)
        /\ taken' = IF Head(buf).type = "Data" THEN Head(buf) ELSE taken
        /\ UNCHANGED <<session, room, sent, ctxDone, pc>>
    BY <1>6 DEF Receive, S!Receive
  <2>2. /\ Head(buf) \in Mixed /\ Tail(buf) \in Seq(Mixed)
        /\ Len(Tail(buf)) = Len(buf) - 1
    BY <1>2, <2>1, HeadTailProperties
  <2>3. taken' \in WP!StreamEvents \cup {WP!NoEvent}
    BY <1>2, <2>1, <2>2
       DEF Mixed, Notices, WP!SessionInv, WP!SessionTypeOK
  <2>4. UNCHANGED <<WP!caller, rpc, hpc, half, hbStop, WP!net, WP!feed, result>>
    BY <2>1 DEF session, WP!caller, WP!net, WP!feed
  <2>5. WP!SessionInv'
    BY <1>2, <2>3, <2>4, Constants, WP!TakeKept
  <2>6. WP!InFrame' => WP!InFrame
    BY <2>4 DEF WP!InFrame
  <2>7. WP!PlacesKept
    BY <2>4, <2>6, Constants, WP!PlacesWithFrames
  <2>8. WP!Posted'
    BY <1>2, <2>1, <2>7, Constants, WP!PostedTake
  <2>9. buf' \in Seq(Mixed) /\ Len(buf') <= Cap
    BY <1>2, <2>1, <2>2, Constants, LenProperties
  <2> QED
    BY <1>1, <1>2, <2>1, <2>5, <2>8, <2>9 DEF LInv, Alternate, session
<1>7. CASE Cancel
  <2>1. /\ ctxDone' = TRUE /\ pc' = pc /\ buf' = buf
        /\ UNCHANGED <<session, room, sent, taken>>
    BY <1>7, CancelSeen DEF Cancel, S!Cancel
  <2>2. ctxDone' \in BOOLEAN /\ (ctxDone => ctxDone')
    BY <2>1, Zenon
  <2>3. WP!SessionInv' /\ WP!PlacesKept
    BY <1>2, <2>1, <2>2, SessionIdle
  <2>4. WP!Posted' /\ buf' \in Seq(Mixed) /\ Len(buf') <= Cap
    BY <1>2, <2>1, <2>3, NoticedKept DEF Noticed
  <2> QED
    BY <1>1, <1>2, <2>1, <2>3, <2>4 DEF LInv, Alternate, session
<1>8. CASE UNCHANGED vars
  <2>1. /\ ctxDone' = ctxDone /\ pc' = pc /\ buf' = buf
        /\ UNCHANGED <<session, room, sent, taken>>
    BY <1>8 DEF vars, supervisor
  <2>2. WP!SessionInv' /\ WP!PlacesKept
    BY <1>2, <2>1, SessionIdle
  <2>3. WP!Posted' /\ buf' \in Seq(Mixed) /\ Len(buf') <= Cap
    BY <1>2, <2>1, <2>2, NoticedKept DEF Noticed
  <2> QED
    BY <1>1, <1>2, <2>1, <2>2, <2>3 DEF LInv, Alternate, session
<1> QED
  BY <1>3, <1>4, <1>5, <1>6, <1>7, <1>8 DEF Next

THEOREM LiveInvariance == SafeSpec => []LInv
BY LiveInit, LiveStep, PTL DEF SafeSpec

-----------------------------------------------------------------------------
LEMMA SafetyOfSpec == Spec => SafeSpec
BY PTL DEF Spec, SafeSpec

(* The types of the supervisor, of the session under way and of the shared *)
(* channel.                                                                *)
THEOREM LiveTyping == Spec => []TypeOK
<1>1. LInv => TypeOK
  BY SameStart, SameSession DEF LInv, SP!IInv, WP!SessionInv, TypeOK
<1> QED
  BY <1>1, LiveInvariance, SafetyOfSpec, PTL

(* reconnectLoop runs one session at a time: when deps.run has returned    *)
(* its heartbeat goroutine is gone and its connection closed, before the   *)
(* attempt is judged and a next one begins.                                *)
THEOREM OneAtATime == Spec => []OneSessionAtATime
<1>1. LInv => OneSessionAtATime
  <2> SUFFICES ASSUME LInv, pc # "run"
               PROVE  /\ rpc = "returned" /\ hpc \in {"none", "done"}
                      /\ conn # "open" /\ half = {}
    BY DEF OneSessionAtATime
  <2>1. rpc = "returned" /\ WP!Positions /\ half \subseteq {"reader", "heartbeat"}
    BY DEF LInv, Alternate, WP!SessionInv, WP!SessionTypeOK, WP!Writers
  <2> QED
    BY <2>1 DEF WP!Positions
<1> QED
  BY <1>1, LiveInvariance, SafetyOfSpec, PTL

(* The events of all sessions share one channel and reach the reader in    *)
(* the server's order, each once, across reconnects: no processFrame of an *)
(* old session posts behind a new one's.                                   *)
THEOREM InOrder == Spec => []InOrderOverSessions
<1>1. LInv => InOrderOverSessions
  BY SameSession DEF LInv, WP!Posted, InOrderOverSessions
<1> QED
  BY <1>1, LiveInvariance, SafetyOfSpec, PTL

-----------------------------------------------------------------------------
(* The safety part of ImplementsSupervisor: what Supervisor takes for      *)
(* granted of a session, that it posts only while it runs and where there  *)
(* is room, and ends in one of the ways listed, is true of RunWebSocket.   *)
THEOREM Refines == Spec => Sup!SafeSpec
<1>1. Init => Sup!Init
  BY SameStart, UnnumberedIsPlain, PlainEmpty
     DEF Init, S!Init, SP!Init, S!Event, SP!Event
<1>2. LInv /\ [Next]_vars => [Sup!Next]_(Sup!vars)
  <2> SUFFICES ASSUME LInv, [Next]_vars PROVE [Sup!Next]_(Sup!vars)
    OBVIOUS
  <2>1. SP!Next \/ UNCHANGED SP!vars
    BY StepSeen
  <2> QED
    BY <2>1, SameNext, SameStart
<1> QED
  BY <1>1, <1>2, LiveInvariance, SafetyOfSpec, PTL DEF SafeSpec, Sup!SafeSpec

(* The same in the words of SupervisorProofs.                              *)
LEMMA SeesSupervisor == Spec => SP!SafeSpec
<1>1. Init => SP!Init
  BY UnnumberedIsPlain, PlainEmpty
     DEF Init, S!Init, SP!Init, S!Event, SP!Event
<1>2. LInv /\ [Next]_vars => [SP!Next]_(SP!vars)
  BY StepSeen
<1> QED
  BY <1>1, <1>2, LiveInvariance, SafetyOfSpec, PTL
     DEF SafeSpec, SP!SafeSpec

(* So what is proved of a supervisor with sessions made up by Supervisor   *)
(* is true of one with real sessions: an honest budget, a stream that      *)
(* begins with Connected and ends with Disconnected, credentials dropped   *)
(* when and only when they are marked, lifecycle events kept, retries      *)
(* paced, and none after a cancel.                                         *)
THEOREM SupervisorPromises ==
    Spec => /\ [](SP!BudgetHonest /\ SP!StreamWellFormed)
            /\ SP!SessionDiscipline /\ SP!NeverDropsWhileLive
            /\ SP!RetriesArePaced /\ SP!CancelStopsRetries
BY SeesSupervisor, Constants, SP!Budget, SP!Shape, SP!Discipline,
   SP!Delivery, SP!Paced, SP!Cancelled, PTL

(* And, since Supervisor implements EventStream, the client as a whole     *)
(* keeps the safety part of the promise of Connect's channel.              *)
THEOREM ChannelPromise == Spec => SP!ES!SafeSpec
<1>1. Spec => SP!SafeSpec
  BY SeesSupervisor
<1> QED
  BY <1>1, Constants, SP!Refinement

(* In every session, from the ack of a frame on, no failed write, dead     *)
(* link, cancel or end of the session keeps an event of the frame from     *)
(* being offered to the channel.                                           *)
THEOREM AckedOverSessions == Spec => WP!AckedIsOffered
<1>1. LInv /\ [Next]_vars => [WP!Offered]_WP!vars
  <2> SUFFICES ASSUME LInv, [Next]_vars PROVE WP!Offered \/ UNCHANGED WP!vars
    OBVIOUS
  <2>1. CASE Supervise \/ EndSession
    <3>1. rpc = "returned"
      BY <2>1, OutsideRun DEF LInv, Alternate, Supervise, EndSession
    <3> QED
      BY <3>1 DEF WP!Offered
  <2>2. CASE SessionStep \/ Network
    <3>1. WP!SessionStep
      BY <2>2, OfSession
    <3> QED
      BY <3>1, Constants, WP!SessionStepOffers DEF LInv
  <2>3. CASE Receive \/ Cancel
    BY <2>3 DEF Receive, S!Receive, Cancel, S!Cancel, session, WP!Offered
  <2>4. CASE UNCHANGED vars
    BY <2>4 DEF vars, session, supervisor, WP!Offered
  <2> QED
    BY <2>1, <2>2, <2>3, <2>4 DEF Next
<1> QED
  BY <1>1, LiveInvariance, SafetyOfSpec, PTL
     DEF SafeSpec, WP!AckedIsOffered, WP!Offered

-----------------------------------------------------------------------------
(* A caller without a session is told so by FetchRoomAudience unless the   *)
(* anchor has to be found first and that fails; then the error is the one  *)
(* of room info, AgeRestricted for an 18+ room.                            *)
THEOREM SessionRequiredIsTold ==
    ASSUME NEW info \in InfoReplies, NEW r \in AudienceReplies,
           NEW anchorID \in {"", "id"},
           Said(r), r.statusCode = "noSession"
    PROVE  \/ FetchRoomAudience(anchorID, info, r) = "SessionRequired"
           \/ /\ anchorID = "" /\ ResolveAnchorID(info) # "Resolved"
              /\ FetchRoomAudience(anchorID, info, r) \in
                   {"Failed", "AgeRestricted"}
BY DEF FetchRoomAudience, ParseRoomAudience, ResolveAnchorID, FetchRoomInfo,
       CodeIsZero, InfoReplies, Said

=============================================================================
