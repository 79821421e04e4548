--------------------------- MODULE WssSessionProofs ---------------------------
(***************************************************************************)
(* For every capacity, number of frames and choice of bodies: a session    *)
(* keeps its types, posts in the server's order and each raw event before  *)
(* its convenience event, keeps its heartbeat as long as it reads, leaves  *)
(* nothing behind, and offers every event of an acknowledged frame.        *)
(*                                                                         *)
(* The lemmas about a step do not ask what else the channel holds, so that *)
(* they serve a client with several sessions on one channel as well.       *)
(***************************************************************************)
EXTENDS WssSession, SequenceTheorems, TLAPS

-----------------------------------------------------------------------------
(* The inductive invariant.  First, where the two goroutines can be, and   *)
(* what the connection and the half-written frames say of it.              *)
Positions ==
    /\ rpc = "dial" => conn = "none"
    /\ conn = "open" <=> rpc \notin {"dial", "returned"}
    /\ hpc = "none" => rpc \in {"dial", "hello", "enter", "returned"}
    /\ rpc \in {"dial", "hello", "enter"} => hpc = "none"
    /\ rpc = "returned" => hpc \in {"none", "done"}
    /\ "reader" \in half => rpc \in {"hello", "enter", "ack"}
    /\ "heartbeat" \in half => hpc = "beat"
    /\ hbStop => rpc \in {"join", "returned"}

(* The heartbeat goroutine exists only for a room id that both frames take.*)
Greeted ==
    /\ rpc = "hello" /\ "reader" \in half => HeartbeatBuilds
    /\ rpc = "enter" => HeartbeatBuilds
    /\ rpc = "enter" /\ "reader" \in half => EnterRoomBuilds
    /\ hpc # "none" => EnterRoomBuilds

(* The frame processFrame is at, and the place of its next event.          *)
InFrame == rpc \in {"frame", "ack", "deliver"}
Place   == <<cur.id, next[1], next[2]>>

(* The next event of the frame exists, as long as a message is left.       *)
Parsed ==
    InFrame => /\ cur \in Frames
               /\ next[1] <= Len(cur.body) => next[2] <= Len(Decoded)

(* Frames come in the order they were sent, and after the one in work.     *)
Arrived ==
    /\ Len(inbox) <= sent
    /\ \A i \in 1..Len(inbox) :
          /\ inbox[i].id <= sent
          /\ InFrame => cur.id < inbox[i].id
          /\ \A j \in 1..(i - 1) : inbox[j].id < inbox[i].id
    /\ InFrame => cur.id <= sent

(* An event that was posted is of a frame before those that have not been  *)
(* read, and in the frame in work before the place reached there.          *)
Placed(e) ==
    /\ e \in StreamEvents \cup {NoEvent}
    /\ e.at[1] <= sent
    /\ \A i \in 1..Len(inbox) : e.at[1] < inbox[i].id
    /\ InFrame => Earlier(e.at, Place)
    /\ e.at[3] # 2 => e.what \in RawTypes

Posted ==
    /\ Placed(taken)
    /\ \A i \in 1..Len(buf) : buf[i].type = "Data" =>
          /\ Placed(buf[i])
          /\ Earlier(taken.at, buf[i].at)
          /\ \A j \in 1..(i - 1) :
                buf[j].type = "Data" => Earlier(buf[j].at, buf[i].at)

(* Without the channel, which a session may share.                         *)
SessionInv ==
    /\ SessionTypeOK /\ Positions /\ Greeted /\ AliveWhileReading
    /\ Parsed /\ Arrived

IInv == TypeOK /\ SessionInv /\ Posted

-----------------------------------------------------------------------------
(* A message becomes one event or two, the first of them raw.              *)
LEMMA DecodeShape ==
    ASSUME NEW m \in Messages
    PROVE  /\ Len(Decode(m)) \in 1..2
           /\ Decode(m)[1] \in RawTypes
           /\ \A i \in 1..Len(Decode(m)) :
                 Decode(m)[i] \in RawTypes \cup Convenience
<1>1. CASE m.method = "other" \/ ~m.readable
  BY <1>1 DEF Decode, RawTypes
<1>2. CASE ~(m.method = "other" \/ ~m.readable)
  <2>1. Raw(m.method) \in RawTypes
    BY <1>2 DEF Messages, Methods, Raw, RawTypes
  <2>2. /\ Derived(m) \in Seq(Convenience) /\ Len(Derived(m)) \in 0..1
    <3>1. \/ Derived(m) = << >>
          \/ \E c \in Convenience : Derived(m) = <<c>>
      <4>1. CASE m.method = "social"
        BY <4>1 DEF Derived, Convenience
      <4>2. CASE m.method = "member"
        BY <4>2 DEF Derived, Convenience
      <4>3. CASE m.method = "control"
        BY <4>3 DEF Derived, Convenience
      <4>4. CASE m.method \notin {"social", "member", "control"}
        BY <4>4 DEF Derived
      <4> QED
        BY <4>1, <4>2, <4>3, <4>4
    <3>2. ASSUME NEW c \in Convenience
          PROVE  <<c>> \in Seq(Convenience) /\ Len(<<c>>) \in 0..1
      OBVIOUS
    <3>3. << >> \in Seq(Convenience) /\ Len(<< >>) \in 0..1
      OBVIOUS
    <3> QED
      BY <3>1, <3>2, <3>3
  <2>3. Decode(m) = <<Raw(m.method)>> \o Derived(m)
    BY <1>2 DEF Decode
  <2>4. /\ <<Raw(m.method)>> \in Seq(RawTypes \cup Convenience)
        /\ Derived(m) \in Seq(RawTypes \cup Convenience)
    BY <2>1, <2>2, SeqMonotonic
  <2>5. /\ Len(Decode(m)) = 1 + Len(Derived(m))
        /\ Decode(m) \in Seq(RawTypes \cup Convenience)
        /\ Decode(m)[1] = Raw(m.method)
    BY <2>2, <2>3, <2>4, ConcatProperties
  <2> QED
    BY <2>1, <2>2, <2>5, ElementOfSeq
<1> QED
  BY <1>1, <1>2

(* No event is both raw and convenient.                                    *)
LEMMA RawOrConvenient == RawTypes \cap Convenience = {}
BY DEF RawTypes, Convenience

Triples == Nat \X Nat \X Nat

(* Places are ordered.                                                     *)
LEMMA EarlierTransitive ==
    ASSUME NEW a \in Triples, NEW b \in Triples, NEW c \in Triples,
           Earlier(a, b), Earlier(b, c)
    PROVE  Earlier(a, c)
BY DEF Triples, Earlier

(* Events are at such places.                                              *)
LEMMA PlacesOfEvents ==
    ASSUME NEW e \in StreamEvents \cup {NoEvent}
    PROVE  e.at \in Triples /\ e.type = "Data"
BY FramesAssumption DEF StreamEvents, NoEvent, Triples

-----------------------------------------------------------------------------
(* A frame's messages.                                                     *)
LEMMA FrameShape ==
    ASSUME NEW f \in Frames
    PROVE  /\ f.id \in 1..MaxFrames
           /\ f.body \in Seq(Messages) /\ Len(f.body) \in Nat
           /\ \A k \in Nat \ {0} : k <= Len(f.body) => f.body[k] \in Messages
<1>1. f.id \in 1..MaxFrames /\ f.body \in Bodies \cup {<< >>}
  BY DEF Frames
<1>2. f.body \in Seq(Messages)
  BY <1>1, BodiesAssumption, EmptySeq
<1> QED
  BY <1>1, <1>2, LenProperties, ElementOfSeq

(* The frames that wait.                                                   *)
LEMMA InboxShape ==
    ASSUME SessionTypeOK
    PROVE  /\ Len(inbox) \in Nat
           /\ \A i \in 1..Len(inbox) : inbox[i] \in Frames
           /\ \A i \in 1..Len(inbox) : inbox[i].id \in 1..MaxFrames
<1>1. inbox \in Seq(Frames)
  BY DEF SessionTypeOK
<1>2. \A i \in 1..Len(inbox) : inbox[i] \in Frames
  BY <1>1, ElementOfSeq
<1> QED
  BY <1>1, <1>2, LenProperties, FrameShape

-----------------------------------------------------------------------------
(* The initial states.                                                     *)
LEMMA InitInv == Init => IInv
<1> SUFFICES ASSUME Init PROVE IInv
  OBVIOUS
<1> USE DEF Init
<1>1. SessionTypeOK
  <2>1. ctxDone \in BOOLEAN /\ hbStop \in BOOLEAN /\ garbled \in BOOLEAN
    BY Zenon
  <2>2. inbox \in Seq(Frames) /\ Len(inbox) <= MaxFrames
    BY FramesAssumption
  <2> QED
    BY <2>1, <2>2, FramesAssumption DEF SessionTypeOK, NoFrame, First
<1>2. TypeOK
  BY <1>1, CapAssumption DEF TypeOK
<1>3. Positions /\ Greeted /\ AliveWhileReading
  BY DEF Positions, Greeted, AliveWhileReading
<1>4. Parsed /\ Arrived /\ Posted
  BY DEF Parsed, Arrived, Posted, Placed, InFrame, NoEvent, RawTypes
<1> QED
  BY <1>1, <1>2, <1>3, <1>4 DEF IInv, SessionInv

-----------------------------------------------------------------------------
(* A step that leaves the frames alone and begins none.                    *)
LEMMA FeedKept ==
    ASSUME SessionInv, UNCHANGED feed, InFrame' => InFrame
    PROVE  (Parsed /\ Arrived)'
BY DEF SessionInv, Parsed, Arrived, InFrame, feed, Decoded

-----------------------------------------------------------------------------
(* What a write leaves as it should be.                                    *)
LEMMA Writing ==
    ASSUME SessionTypeOK, NEW w \in Writers,
           WriteHeader(w) \/ WritePayload(w) \/ WriteFails(w)
    PROVE  /\ half' \subseteq Writers /\ wire' \in Writers \cup {"clean"}
           /\ garbled' \in BOOLEAN
           /\ conn' = conn /\ link' = link
           /\ half' \in {half \cup {w}, half \ {w}}
<1> USE DEF WriteHeader, WritePayload, WriteFails, net
<1>1. garbled' \in BOOLEAN
  <2>1. garbled \in BOOLEAN
    BY DEF SessionTypeOK
  <2> QED
    BY <2>1, Zenon
<1>2. half' \subseteq Writers /\ wire' \in Writers \cup {"clean"}
  BY DEF SessionTypeOK
<1> QED
  BY <1>1, <1>2

(* The steps that leave the frames and the channel alone: the ones that do *)
(* not write, and the others.                                              *)
PlainStep ==
    \/ Check \/ StaleTimeout \/ ReadFails \/ ProcessFrame \/ FrameDone
    \/ Stop \/ Join \/ Tick \/ HeartbeatStops \/ LinkDown \/ DialFails

ControlStep ==
    PlainStep \/ Greet \/ GreetFails \/ Ack \/ AckFails \/ Beat \/ BeatFails

(* They keep the types.                                                    *)
LEMMA ControlTypes ==
    ASSUME SessionTypeOK, ControlStep
    PROVE  SessionTypeOK'
<1> USE DEF SessionTypeOK, Return, LeaveLoop, caller, net, feed, queue
<1>1. CASE PlainStep
  BY <1>1 DEF PlainStep, Check, StaleTimeout, ReadFails, ProcessFrame, FrameDone, Stop,
            Join, Tick, HeartbeatStops, LinkDown, DialFails
<1>2. CASE Greet
  BY <1>2, Writing DEF Greet, Writers
<1>3. CASE GreetFails
  BY <1>3 DEF GreetFails
<1>4. CASE Ack
  BY <1>4, Writing DEF Ack, Writers
<1>5. CASE AckFails
  BY <1>5, Writing DEF AckFails, Writers
<1>6. CASE Beat
  BY <1>6, Writing DEF Beat, Writers
<1>7. CASE BeatFails
  <2>1. CASE WriteFails("heartbeat")
    BY <1>7, <2>1, Writing DEF BeatFails, Writers
  <2>2. CASE ~HeartbeatBuilds /\ UNCHANGED <<half, net>>
    BY <1>7, <2>2 DEF BeatFails
  <2> QED
    BY <1>7, <2>1, <2>2 DEF BeatFails
<1> QED
  BY <1>1, <1>2, <1>3, <1>4, <1>5, <1>6, <1>7 DEF ControlStep

(* They keep the two goroutines where they can be.                         *)
LEMMA ControlPositions ==
    ASSUME SessionInv, ControlStep
    PROVE  Positions'
<1> USE DEF SessionInv, SessionTypeOK, Positions, Usable,
            WriteHeader, WritePayload, WriteFails, Return, LeaveLoop, caller, net, feed, queue
<1>1. CASE PlainStep
  BY <1>1 DEF PlainStep, Check, StaleTimeout, ReadFails, ProcessFrame, FrameDone, Stop,
            Join, Tick, HeartbeatStops, LinkDown, DialFails
<1>2. CASE Greet
  BY <1>2 DEF Greet
<1>3. CASE GreetFails
  BY <1>3 DEF GreetFails
<1>4. CASE Ack
  BY <1>4 DEF Ack
<1>5. CASE AckFails
  BY <1>5 DEF AckFails
<1>6. CASE Beat
  BY <1>6 DEF Beat
<1>7. CASE BeatFails
  <2>1. CASE WriteFails("heartbeat")
    BY <1>7, <2>1 DEF BeatFails
  <2>2. CASE ~HeartbeatBuilds /\ UNCHANGED <<half, net>>
    BY <1>7, <2>2 DEF BeatFails, Greeted, HeartbeatBuilds,
                             EnterRoomBuilds
  <2> QED
    BY <1>7, <2>1, <2>2 DEF BeatFails
<1> QED
  BY <1>1, <1>2, <1>3, <1>4, <1>5, <1>6, <1>7 DEF ControlStep

(* The goroutine starts only once both frames were built.                  *)
LEMMA ControlGreeted ==
    ASSUME SessionInv, ControlStep
    PROVE  Greeted'
<1> USE DEF SessionInv, SessionTypeOK, Positions, Greeted,
            WriteHeader, WritePayload, WriteFails, Usable, GreetingBuilds, HeartbeatBuilds,
            EnterRoomBuilds, Return, LeaveLoop, caller, net, feed, queue
<1>1. CASE PlainStep
  BY <1>1 DEF PlainStep, Check, StaleTimeout, ReadFails, ProcessFrame, FrameDone, Stop,
            Join, Tick, HeartbeatStops, LinkDown, DialFails
<1>2. CASE Greet
  BY <1>2, Writing DEF Greet, Writers
<1>3. CASE GreetFails
  BY <1>3 DEF GreetFails
<1>4. CASE Ack
  BY <1>4 DEF Ack
<1>5. CASE AckFails
  BY <1>5 DEF AckFails
<1>6. CASE Beat
  BY <1>6 DEF Beat
<1>7. CASE BeatFails
  BY <1>7 DEF BeatFails
<1> QED
  BY <1>1, <1>2, <1>3, <1>4, <1>5, <1>6, <1>7 DEF ControlStep

(* It ends only when the session is about to, too: a beat cannot fail to   *)
(* be built for a room that was entered.                                   *)
LEMMA ControlHeartbeat ==
    ASSUME SessionInv, ControlStep
    PROVE  AliveWhileReading'
<1> USE DEF SessionInv, SessionTypeOK, Positions, Greeted,
            AliveWhileReading, WriteHeader, WritePayload, WriteFails,
            Usable, GreetingBuilds, HeartbeatBuilds,
            EnterRoomBuilds, Return, LeaveLoop, caller, net, feed, queue
<1>1. CASE PlainStep
  BY <1>1 DEF PlainStep, Check, StaleTimeout, ReadFails, ProcessFrame, FrameDone, Stop,
            Join, Tick, HeartbeatStops, LinkDown, DialFails
<1>2. CASE Greet
  BY <1>2, Writing DEF Greet, Writers
<1>3. CASE GreetFails
  BY <1>3 DEF GreetFails
<1>4. CASE Ack
  BY <1>4 DEF Ack
<1>5. CASE AckFails
  BY <1>5 DEF AckFails
<1>6. CASE Beat
  BY <1>6 DEF Beat
<1>7. CASE BeatFails
  BY <1>7 DEF BeatFails
<1> QED
  BY <1>1, <1>2, <1>3, <1>4, <1>5, <1>6, <1>7 DEF ControlStep

(* They leave the frames and the channel alone.                            *)
LEMMA ControlFrames ==
    ASSUME SessionInv, ControlStep
    PROVE  UNCHANGED <<feed, queue>> /\ (InFrame' => InFrame)
<1> USE DEF SessionInv, InFrame, WriteHeader, WritePayload, WriteFails, Return, LeaveLoop, caller, net, feed, queue
<1>1. CASE PlainStep
  BY <1>1 DEF PlainStep, Check, StaleTimeout, ReadFails, ProcessFrame, FrameDone, Stop,
            Join, Tick, HeartbeatStops, LinkDown, DialFails
<1>2. CASE Greet
  BY <1>2 DEF Greet
<1>3. CASE GreetFails
  BY <1>3 DEF GreetFails
<1>4. CASE Ack
  BY <1>4 DEF Ack
<1>5. CASE AckFails
  BY <1>5 DEF AckFails
<1>6. CASE Beat
  BY <1>6 DEF Beat
<1>7. CASE BeatFails
  BY <1>7 DEF BeatFails
<1> QED
  BY <1>1, <1>2, <1>3, <1>4, <1>5, <1>6, <1>7 DEF ControlStep

(* So they keep the invariant.                                             *)
LEMMA ControlKept ==
    ASSUME SessionInv, ControlStep
    PROVE  SessionInv'
<1>1. SessionTypeOK'
  BY ControlTypes DEF SessionInv
<1>2. (Parsed /\ Arrived)'
  BY ControlFrames, FeedKept
<1> QED
  BY <1>1, <1>2, ControlPositions, ControlGreeted, ControlHeartbeat
     DEF SessionInv

-----------------------------------------------------------------------------
(* Frames may get lost behind the handshake, the last of them in part; the *)
(* first to come is later.                                                 *)
LEMMA DialOpensKept ==
    ASSUME SessionInv, DialOpens
    PROVE  SessionInv'
<1> USE DEF SessionInv, DialOpens, caller, queue
<1>1. /\ sent \in 0..MaxFrames /\ sent' \in sent..MaxFrames
      /\ \/ inbox' = inbox
         \/ sent' > sent /\ inbox' = <<Remains(sent')>>
  BY DEF SessionTypeOK
<1>2. SessionTypeOK'
  <2>1. CASE inbox' = inbox
    BY <1>1, <2>1, FramesAssumption DEF SessionTypeOK
  <2>2. CASE sent' > sent /\ inbox' = <<Remains(sent')>>
    <3>1. sent' \in 1..MaxFrames
      BY <1>1, <2>2, FramesAssumption
    <3>2. Remains(sent') \in Frames
      BY <3>1 DEF Remains, Frames, Kinds
    <3>3. inbox' \in Seq(Frames) /\ Len(inbox') = 1
      BY <2>2, <3>2
    <3> QED
      BY <1>1, <3>1, <3>3, FramesAssumption DEF SessionTypeOK
  <2> QED
    BY <1>1, <2>1, <2>2
<1>3. (Positions /\ Greeted /\ AliveWhileReading)'
  BY DEF SessionTypeOK, Positions, Greeted, AliveWhileReading,
         HeartbeatBuilds, EnterRoomBuilds
<1>4. (Parsed /\ Arrived)'
  <2>1. ~InFrame' /\ Len(inbox) \in Nat
    BY InboxShape DEF InFrame
  <2>2. CASE inbox' = inbox
    BY <1>1, <2>1, <2>2, InboxShape, FramesAssumption DEF Arrived, Parsed
  <2>3. CASE sent' > sent /\ inbox' = <<Remains(sent')>>
    <3>1. Len(inbox') = 1 /\ inbox'[1].id = sent'
      BY <2>3 DEF Remains
    <3> QED
      BY <1>1, <2>1, <2>3, <3>1, FramesAssumption DEF Arrived, Parsed
  <2> QED
    BY <1>1, <2>2, <2>3
<1> QED
  BY <1>2, <1>3, <1>4

(* What comes off the front is later than nothing that is left.            *)
LEMMA ReadFrameKept ==
    ASSUME SessionInv, ReadFrame
    PROVE  SessionInv'
<1> USE DEF SessionInv, ReadFrame, caller, net, queue
<1>1. /\ inbox \in Seq(Frames) /\ inbox # << >>
      /\ Head(inbox) \in Frames /\ Head(inbox) = inbox[1]
      /\ Tail(inbox) \in Seq(Frames) /\ Len(Tail(inbox)) = Len(inbox) - 1
      /\ \A i \in 1..Len(Tail(inbox)) : Tail(inbox)[i] = inbox[i + 1]
  BY HeadTailProperties DEF SessionTypeOK
<1>2. SessionTypeOK'
  BY <1>1, FramesAssumption DEF SessionTypeOK, First
<1>3. (Positions /\ Greeted /\ AliveWhileReading)'
  BY DEF SessionTypeOK, Positions, Greeted, AliveWhileReading,
         HeartbeatBuilds, EnterRoomBuilds
<1>4. Parsed'
  <2>1. ASSUME 1 <= Len(cur'.body)
        PROVE  1 <= Len(Decode(cur'.body[1]))
    <3>1. cur'.body[1] \in Messages
      BY <1>1, <2>1, FrameShape
    <3> QED
      BY <3>1, DecodeShape
  <2> QED
    BY <1>1, <2>1 DEF Parsed, Decoded, First
<1>5. Arrived'
  <2>1. /\ Len(inbox') \in Nat /\ Len(inbox') = Len(inbox) - 1
        /\ \A i \in 1..Len(inbox') : inbox'[i] = inbox[i + 1]
        /\ sent' = sent /\ sent \in Nat /\ cur' = inbox[1]
        /\ Len(inbox) \in Nat /\ 1 \in 1..Len(inbox)
    BY <1>1, InboxShape DEF SessionTypeOK
  <2>2. \A i \in 1..Len(inbox) :
           /\ inbox[i].id <= sent
           /\ \A j \in 1..(i - 1) : inbox[j].id < inbox[i].id
    BY DEF Arrived
  <2>3. ASSUME NEW i \in 1..Len(inbox')
        PROVE  /\ inbox'[i].id <= sent' /\ cur'.id < inbox'[i].id
               /\ \A j \in 1..(i - 1) : inbox'[j].id < inbox'[i].id
    <3>1. i + 1 \in 1..Len(inbox) /\ 1 \in 1..((i + 1) - 1)
      BY <2>1
    <3>2. \A j \in 1..(i - 1) : j + 1 \in 1..((i + 1) - 1)
                               /\ inbox'[j] = inbox[j + 1]
      BY <2>1
    <3> QED
      BY <2>1, <2>2, <3>1, <3>2
  <2>4. Len(inbox') <= sent' /\ cur'.id <= sent'
    BY <2>1, <2>2 DEF Arrived
  <2> QED
    BY <2>3, <2>4 DEF Arrived
<1> QED
  BY <1>2, <1>3, <1>4, <1>5

(* A frame that arrives is later than all before it.                       *)
LEMMA ServerSendsKept ==
    ASSUME SessionInv, ServerSends
    PROVE  SessionInv'
<1> USE DEF SessionInv, ServerSends, caller, net, queue
<1>1. \/ inbox' = inbox
      \/ \E f \in Frames : f.id = sent + 1 /\ inbox' = Append(inbox, f)
  BY FramesAssumption DEF SessionTypeOK, Frames
<1>2. /\ inbox \in Seq(Frames) /\ sent \in 0..MaxFrames /\ sent < MaxFrames
      /\ Len(inbox) <= sent
  BY DEF SessionTypeOK, Arrived
<1>3. CASE inbox' = inbox
  <2>1. SessionTypeOK'
    BY <1>2, <1>3, FramesAssumption DEF SessionTypeOK
  <2>2. (Positions /\ Greeted /\ AliveWhileReading /\ Parsed)'
    BY DEF Positions, Greeted, AliveWhileReading,
           HeartbeatBuilds, EnterRoomBuilds, Parsed, Decoded, InFrame
  <2>3. Arrived'
    <3>1. InFrame => cur.id \in Nat
      BY FrameShape DEF Parsed
    <3> QED
      BY <1>2, <1>3, <3>1, InboxShape DEF Arrived, InFrame
  <2> QED
    BY <2>1, <2>2, <2>3
<1>4. CASE \E f \in Frames : f.id = sent + 1 /\ inbox' = Append(inbox, f)
  <2>1. PICK f \in Frames : f.id = sent + 1 /\ inbox' = Append(inbox, f)
    BY <1>4
  <2>2. /\ inbox' \in Seq(Frames) /\ Len(inbox') = Len(inbox) + 1
        /\ \A i \in 1..Len(inbox) : inbox'[i] = inbox[i]
        /\ inbox'[Len(inbox) + 1] = f
    BY <1>2, <2>1, AppendProperties
  <2>3. SessionTypeOK'
    BY <1>2, <2>2, FramesAssumption DEF SessionTypeOK
  <2>4. (Positions /\ Greeted /\ AliveWhileReading /\ Parsed)'
    BY DEF Positions, Greeted, AliveWhileReading,
         HeartbeatBuilds, EnterRoomBuilds, Parsed, Decoded, InFrame
  <2>5. Arrived'
    <3>1. InFrame => cur.id \in Nat
      BY FrameShape DEF Parsed
    <3>2. \A i \in 1..Len(inbox) :
             /\ inbox'[i].id <= sent /\ inbox[i].id \in Nat
             /\ InFrame => cur.id < inbox'[i].id
             /\ \A j \in 1..(i - 1) : inbox'[j].id < inbox'[i].id
      BY <1>2, <2>2, InboxShape DEF Arrived
    <3>3. /\ \A j \in 1..Len(inbox) : inbox'[j].id < inbox'[Len(inbox) + 1].id
          /\ inbox'[Len(inbox) + 1].id = sent + 1
          /\ InFrame => cur.id < sent + 1
      BY <1>2, <2>1, <2>2, <3>1, <3>2 DEF Arrived
    <3> QED
      BY <1>2, <2>2, <3>1, <3>2, <3>3, InboxShape DEF Arrived, InFrame
  <2> QED
    BY <2>3, <2>4, <2>5
<1> QED
  BY <1>1, <1>3, <1>4

(* Where there is an event to post, it is one, at the place reached, and   *)
(* the next one after it is later and exists, too.                         *)
LEMMA DueIsNext ==
    ASSUME SessionInv, rpc = "deliver", next[1] <= Len(cur.body), NextEvent
    PROVE  /\ Due \in StreamEvents /\ Due.at = Place
           /\ Due.at[3] # 2 => Due.what \in RawTypes
           /\ next' \in (Nat \ {0}) \X (1..2)
           /\ Earlier(Place, <<cur.id, next'[1], next'[2]>>)
           /\ next'[1] <= Len(cur.body) =>
                 next'[2] <= Len(Decode(cur.body[next'[1]]))
<1>1. /\ cur \in Frames /\ next \in (Nat \ {0}) \X (1..2)
      /\ Len(cur.body) \in Nat /\ next[2] <= Len(Decoded)
  BY FrameShape DEF SessionInv, SessionTypeOK, Parsed, InFrame
<1>2. \A k \in Nat \ {0} : k <= Len(cur.body) => cur.body[k] \in Messages
  BY <1>1, FrameShape
<1>3. /\ Len(Decoded) \in 1..2 /\ Decoded[1] \in RawTypes
      /\ Decoded[next[2]] \in RawTypes \cup Convenience
  BY <1>1, <1>2, DecodeShape DEF Decoded
<1>4. Due \in StreamEvents /\ Due.at = Place
  BY <1>1, <1>3 DEF Due, StreamEvent, StreamEvents, Place, Frames
<1>5. Due.at[3] # 2 => Due.what \in RawTypes
  BY <1>1, <1>3 DEF Due, StreamEvent
<1>6. CASE next[2] < Len(Decoded)
  <2>1. next' = <<next[1], next[2] + 1>>
    BY <1>6 DEF NextEvent
  <2>2. next'[2] <= Len(Decode(cur.body[next'[1]]))
    BY <1>1, <1>3, <1>6, <2>1 DEF Decoded
  <2>3. next' \in (Nat \ {0}) \X (1..2)
    <3>1. next[1] \in Nat \ {0} /\ next[2] \in 1..2
      BY <1>1
    <3>2. Len(Decoded) \in 1..2 /\ next[2] < Len(Decoded)
      BY <1>3, <1>6
    <3>3. \A i, n \in 1..2 : i < n => i + 1 \in 1..2
      OBVIOUS
    <3>4. next[2] + 1 \in 1..2
      BY <3>1, <3>2, <3>3, Zenon
    <3> QED
      BY <2>1, <3>1, <3>4
  <2>4. Earlier(Place, <<cur.id, next'[1], next'[2]>>)
    BY <1>1, <2>1 DEF Earlier, Place
  <2> QED
    BY <1>4, <1>5, <2>2, <2>3, <2>4
<1>7. CASE ~(next[2] < Len(Decoded))
  <2>1. next' = <<next[1] + 1, 1>>
    BY <1>7 DEF NextEvent
  <2>2. next'[1] <= Len(cur.body) => Len(Decode(cur.body[next'[1]])) \in 1..2
    BY <1>1, <1>2, <2>1, DecodeShape
  <2>3. cur.id \in Nat
    BY <1>1, FrameShape
  <2>4. next'[1] <= Len(cur.body) =>
           next'[2] <= Len(Decode(cur.body[next'[1]]))
    BY <2>1, <2>2
  <2>5. next' \in (Nat \ {0}) \X (1..2)
    BY <1>1, <2>1
  <2>6. Earlier(Place, <<cur.id, next'[1], next'[2]>>)
    BY <1>1, <2>1, <2>3 DEF Earlier, Place
  <2> QED
    BY <1>4, <1>5, <2>4, <2>5, <2>6
<1> QED
  BY <1>6, <1>7

(* A post leaves the session as it should be.                              *)
LEMMA DeliverKept ==
    ASSUME SessionInv, Deliver
    PROVE  SessionInv'
<1> USE DEF SessionInv, Deliver, caller, net
<1>1. SessionTypeOK'
  BY DueIsNext DEF SessionTypeOK
<1>2. (Positions /\ Greeted /\ AliveWhileReading)'
  BY DEF Positions, Greeted, AliveWhileReading,
         HeartbeatBuilds, EnterRoomBuilds
<1>3. Parsed'
  BY DueIsNext DEF Parsed, InFrame, Decoded
<1>4. Arrived'
  BY DEF Arrived, InFrame
<1> QED
  BY <1>1, <1>2, <1>3, <1>4

-----------------------------------------------------------------------------
(* The channel.  Its other events may be anything, so that the lemmas hold *)
(* of a channel a session shares.                                          *)
PlacesKept ==
    \A e \in StreamEvents \cup {NoEvent} : Placed(e) => Placed(e)'

(* A step that leaves the channel alone.                                   *)
LEMMA PostedKept ==
    ASSUME Posted, UNCHANGED queue, PlacesKept
    PROVE  Posted'
<1> USE DEF queue
<1>1. ASSUME NEW e, Placed(e) PROVE Placed(e)'
  BY <1>1 DEF PlacesKept, Placed
<1>2. Placed(taken)'
  <2>1. Placed(taken)
    BY DEF Posted
  <2>2. taken' = taken
    OBVIOUS
  <2> QED
    BY <1>1, <2>1, <2>2 DEF Placed
<1>3. ASSUME NEW i \in 1..Len(buf), buf[i].type = "Data"
      PROVE  Placed(buf[i])'
  <2>1. Placed(buf[i])
    BY <1>3 DEF Posted
  <2>2. buf' = buf
    OBVIOUS
  <2> QED
    BY <1>1, <2>1, <2>2 DEF Placed
<1> QED
  BY <1>2, <1>3 DEF Posted

(* An event is posted: it is the session's next one, or not the session's. *)
LEMMA PostedAppend ==
    ASSUME Posted, PlacesKept, UNCHANGED taken,
           NEW S, buf \in Seq(S), NEW e \in S, buf' = Append(buf, e),
           e.type = "Data" =>
              /\ Placed(e)'
              /\ \A d \in StreamEvents \cup {NoEvent} :
                    Placed(d) => Earlier(d.at, e.at)
    PROVE  Posted'
<1>1. /\ Len(buf) \in Nat /\ Len(buf') = Len(buf) + 1
      /\ \A i \in 1..Len(buf) : buf'[i] = buf[i]
      /\ buf'[Len(buf) + 1] = e
  BY AppendProperties, LenProperties
<1>2. ASSUME NEW d, Placed(d)
      PROVE  Placed(d)' /\ (e.type = "Data" => Earlier(d.at, e.at))
  BY <1>2 DEF PlacesKept, Placed
<1>3. Placed(taken)' /\ (e.type = "Data" => Earlier(taken.at, e.at))
  <2>1. Placed(taken)
    BY DEF Posted
  <2> QED
    BY <1>2, <2>1 DEF Placed
<1>4. ASSUME NEW i \in 1..Len(buf), buf[i].type = "Data"
      PROVE  /\ Placed(buf[i])'
             /\ Earlier(taken.at, buf'[i].at)
             /\ \A j \in 1..(i - 1) :
                   buf'[j].type = "Data" => Earlier(buf'[j].at, buf'[i].at)
             /\ e.type = "Data" => Earlier(buf'[i].at, e.at)
  <2>1. Placed(buf[i])
    BY <1>4 DEF Posted
  <2>2. Placed(buf[i])' /\ (e.type = "Data" => Earlier(buf[i].at, e.at))
    BY <1>1, <1>2, <2>1 DEF Placed
  <2> QED
    BY <1>1, <1>4, <2>2 DEF Posted, Placed
<1>5. ASSUME NEW i \in 1..Len(buf'), buf'[i].type = "Data"
      PROVE  /\ Placed(buf[i])'
             /\ Earlier(taken'.at, buf'[i].at)
             /\ \A j \in 1..(i - 1) :
                   buf'[j].type = "Data" => Earlier(buf'[j].at, buf'[i].at)
  <2>1. CASE i \in 1..Len(buf)
    BY <1>1, <1>4, <1>5, <2>1
  <2>2. CASE i = Len(buf) + 1
    BY <1>1, <1>3, <1>4, <1>5, <2>2 DEF Placed
  <2> QED
    BY <1>1, <2>1, <2>2
<1> QED
  BY <1>3, <1>5 DEF Posted

(* An event is taken: the ones behind it are later.                        *)
LEMMA PostedTake ==
    ASSUME Posted, PlacesKept,
           NEW S, buf \in Seq(S), buf # << >>, buf' = Tail(buf),
           taken' = IF Head(buf).type = "Data" THEN Head(buf) ELSE taken
    PROVE  Posted'
<1>1. /\ Len(buf) \in Nat \ {0} /\ Len(buf') = Len(buf) - 1
      /\ \A i \in 1..Len(buf') : buf'[i] = buf[i + 1]
      /\ Head(buf) = buf[1]
  BY HeadTailProperties, EmptySeq
<1>2. ASSUME NEW d, Placed(d) PROVE Placed(d)'
  BY <1>2 DEF PlacesKept, Placed
<1>3. Placed(taken')
  BY <1>1 DEF Posted
<1>4. Placed(taken)'
  BY <1>2, <1>3 DEF Placed
<1>5. ASSUME NEW i \in 1..Len(buf'), buf'[i].type = "Data"
      PROVE  /\ Placed(buf[i])'
             /\ Earlier(taken'.at, buf'[i].at)
             /\ \A j \in 1..(i - 1) :
                   buf'[j].type = "Data" => Earlier(buf'[j].at, buf'[i].at)
  <2>1. i + 1 \in 1..Len(buf) /\ buf[i + 1].type = "Data" /\ buf'[i] = buf[i + 1]
    BY <1>1, <1>5
  <2>2. /\ Placed(buf[i + 1]) /\ Earlier(taken.at, buf[i + 1].at)
        /\ \A j \in 1..i :
              buf[j].type = "Data" => Earlier(buf[j].at, buf[i + 1].at)
    BY <2>1 DEF Posted
  <2>3. Placed(buf[i])'
    BY <1>2, <2>1, <2>2 DEF Placed
  <2> QED
    BY <1>1, <2>1, <2>2, <2>3
<1> QED
  BY <1>4, <1>5 DEF Posted

-----------------------------------------------------------------------------
(* No step of the session makes an event that was posted come too late.    *)
LEMMA PlacesWithFrames ==
    ASSUME UNCHANGED feed, InFrame' => InFrame
    PROVE  PlacesKept
BY DEF PlacesKept, Placed, InFrame, Place, feed

LEMMA PlacesInDialOpens ==
    ASSUME SessionInv, DialOpens
    PROVE  PlacesKept
<1>1. /\ sent \in 0..MaxFrames /\ sent' \in sent..MaxFrames /\ ~InFrame'
      /\ \/ inbox' = inbox
         \/ sent' > sent /\ inbox' = <<Remains(sent')>>
  BY DEF SessionInv, SessionTypeOK, DialOpens, InFrame
<1>2. ASSUME NEW e \in StreamEvents \cup {NoEvent}, Placed(e)
      PROVE  Placed(e)'
  <2>1. e.at[1] \in Nat /\ e.at[1] <= sent
    BY <1>2, PlacesOfEvents DEF Placed, Triples
  <2>2. e.at[1] <= sent'
    BY <1>1, <2>1, FramesAssumption
  <2>3. \A i \in 1..Len(inbox') : e.at[1] < inbox'[i].id
    <3>1. CASE inbox' = inbox
      BY <1>2, <3>1 DEF Placed
    <3>2. CASE sent' > sent /\ inbox' = <<Remains(sent')>>
      <4>1. Len(inbox') = 1 /\ inbox'[1].id = sent'
        BY <3>2 DEF Remains
      <4> QED
        BY <1>1, <2>1, <3>2, <4>1, FramesAssumption
    <3> QED
      BY <1>1, <3>1, <3>2
  <2> QED
    BY <1>1, <1>2, <2>2, <2>3 DEF Placed
<1> QED
  BY <1>2 DEF PlacesKept

LEMMA PlacesInReadFrame ==
    ASSUME SessionInv, ReadFrame
    PROVE  PlacesKept
<1>1. /\ inbox # << >> /\ Len(inbox) \in Nat \ {0}
      /\ cur' = inbox[1] /\ Len(inbox') = Len(inbox) - 1
      /\ \A i \in 1..Len(inbox') : inbox'[i] = inbox[i + 1]
      /\ sent' = sent
  BY HeadTailProperties, EmptySeq DEF ReadFrame, SessionInv, SessionTypeOK
<1>2. ASSUME NEW e \in StreamEvents \cup {NoEvent}, Placed(e)
      PROVE  Placed(e)'
  <2>1. e.at[1] < cur'.id
    BY <1>1, <1>2 DEF Placed
  <2>2. \A i \in 1..Len(inbox') : e.at[1] < inbox'[i].id
    BY <1>1, <1>2 DEF Placed
  <2>3. Earlier(e.at, Place)'
    BY <2>1 DEF Earlier, Place
  <2> QED
    BY <1>1, <1>2, <2>2, <2>3 DEF Placed, Earlier, Place
<1> QED
  BY <1>2 DEF PlacesKept

LEMMA PlacesInServerSends ==
    ASSUME SessionInv, ServerSends
    PROVE  PlacesKept
<1>1. inbox \in Seq(Frames) /\ sent \in 0..MaxFrames /\ sent < MaxFrames
  BY DEF SessionInv, SessionTypeOK, ServerSends
<1>2. \/ inbox' = inbox
      \/ \E f \in Frames : f.id = sent + 1 /\ inbox' = Append(inbox, f)
  BY <1>1, FramesAssumption DEF ServerSends, Frames
<1>3. \A i \in 1..Len(inbox') :
         \/ i \in 1..Len(inbox) /\ inbox'[i] = inbox[i]
         \/ inbox'[i].id = sent + 1
  BY <1>1, <1>2, AppendProperties
<1>4. sent' = sent + 1 /\ (InFrame' => InFrame) /\ cur' = cur /\ next' = next
  BY DEF ServerSends, InFrame
<1>5. ASSUME NEW e \in StreamEvents \cup {NoEvent}, Placed(e)
      PROVE  Placed(e)'
  <2>1. e.at[1] \in Nat /\ e.at[1] <= sent
    BY <1>5, PlacesOfEvents DEF Placed, Triples
  <2>2. \A i \in 1..Len(inbox') : e.at[1] < inbox'[i].id
    BY <1>1, <1>3, <1>5, <2>1 DEF Placed
  <2> QED
    BY <1>1, <1>4, <1>5, <2>1, <2>2 DEF Placed, Place, Earlier
<1> QED
  BY <1>5 DEF PlacesKept

LEMMA PlacesInDeliver ==
    ASSUME SessionInv, Deliver
    PROVE  PlacesKept
<1>1. /\ cur' = cur /\ inbox' = inbox /\ sent' = sent /\ InFrame
      /\ Earlier(Place, Place') /\ Place \in Triples /\ Place' \in Triples
  <2>1. cur.id \in Nat /\ next \in (Nat \ {0}) \X (1..2)
    BY FrameShape DEF SessionInv, SessionTypeOK, Parsed, InFrame, Deliver
  <2> QED
    BY <2>1, DueIsNext DEF Deliver, InFrame, Place, Triples
<1>2. ASSUME NEW e \in StreamEvents \cup {NoEvent}, Placed(e)
      PROVE  Placed(e)'
  <2>1. Earlier(e.at, Place')
    BY <1>1, <1>2, PlacesOfEvents, EarlierTransitive DEF Placed
  <2> QED
    BY <1>1, <1>2, <2>1 DEF Placed, Earlier
<1> QED
  BY <1>2 DEF PlacesKept

(* A post puts the event behind all that were posted.                      *)
LEMMA DeliverPosted ==
    ASSUME SessionInv, Posted, Deliver,
           NEW S, StreamEvents \subseteq S, buf \in Seq(S)
    PROVE  Posted' /\ buf' \in Seq(S)
<1>1. PlacesKept /\ UNCHANGED taken
  BY PlacesInDeliver DEF Deliver
<1>2. CASE buf' = buf
  BY <1>1, <1>2, PostedKept DEF queue
<1>3. CASE buf' = Append(buf, Due)
  <2>1. PICK e \in StreamEvents : e = Due
    BY DueIsNext DEF Deliver
  <2>2. e.at = Place /\ e.type = "Data" /\ (e.at[3] # 2 => e.what \in RawTypes)
    BY <2>1, DueIsNext, PlacesOfEvents DEF Deliver
  <2>3. \A d \in StreamEvents \cup {NoEvent} :
           Placed(d) => Earlier(d.at, e.at)
    BY <2>2 DEF Placed, InFrame, Deliver
  <2>4. Placed(e)'
    <3>1. /\ cur' = cur /\ inbox' = inbox /\ sent' = sent
          /\ Earlier(Place, Place') /\ InFrame
      BY DueIsNext DEF Deliver, Place, InFrame
    <3>2. e.at[1] <= sent /\ \A i \in 1..Len(inbox) : e.at[1] < inbox[i].id
      BY <2>2, <3>1 DEF Place, SessionInv, Arrived
    <3> QED
      BY <2>2, <3>1, <3>2 DEF Placed
  <2> QED
    BY <1>1, <1>3, <2>1, <2>2, <2>3, <2>4, PostedAppend, AppendProperties
<1> QED
  BY <1>2, <1>3 DEF Deliver, Post

-----------------------------------------------------------------------------
(* All steps but those of the caller and the reader.                       *)
SessionStep ==
    ControlStep \/ DialOpens \/ ReadFrame \/ Deliver \/ ServerSends

(* They keep what is said of the session and of its events in a channel    *)
(* that others may post to.                                                *)
LEMMA SessionStepKept ==
    ASSUME SessionInv, Posted, SessionStep,
           NEW S, StreamEvents \subseteq S, buf \in Seq(S), Len(buf) <= Cap
    PROVE  /\ SessionInv' /\ Posted'
           /\ buf' \in Seq(S) /\ Len(buf') <= Cap
<1>1. CASE ControlStep
  <2>1. SessionInv' /\ UNCHANGED <<feed, queue>> /\ (InFrame' => InFrame)
    BY <1>1, ControlKept, ControlFrames
  <2> QED
    BY <2>1, PlacesWithFrames, PostedKept DEF queue
<1>2. CASE DialOpens
  BY <1>2, DialOpensKept, PlacesInDialOpens, PostedKept DEF DialOpens, queue
<1>3. CASE ReadFrame
  BY <1>3, ReadFrameKept, PlacesInReadFrame, PostedKept DEF ReadFrame, queue
<1>4. CASE ServerSends
  BY <1>4, ServerSendsKept, PlacesInServerSends, PostedKept
     DEF ServerSends, queue
<1>5. CASE Deliver
  <2>1. SessionInv' /\ Posted' /\ buf' \in Seq(S)
    BY <1>5, DeliverKept, DeliverPosted
  <2>2. \/ buf' = buf
        \/ Len(buf) < Cap /\ buf' = Append(buf, Due) /\ Due \in S
    BY <1>5, DueIsNext DEF Deliver, Post
  <2> QED
    BY <2>1, <2>2, AppendProperties, LenProperties, CapAssumption
<1> QED
  BY <1>1, <1>2, <1>3, <1>4, <1>5 DEF SessionStep

(* Nor does a cancel disturb the session, or a step that is none of its.   *)
LEMMA CancelKept ==
    ASSUME SessionInv,
           UNCHANGED <<room, rpc, hpc, half, hbStop, net, feed, result>>,
           ctxDone' \in BOOLEAN, ctxDone => ctxDone', taken' = taken
    PROVE  SessionInv'
<1>1. SessionTypeOK'
  BY DEF SessionInv, SessionTypeOK, net, feed
<1>2. (Positions /\ Greeted)'
  BY DEF SessionInv, Positions, Greeted, HeartbeatBuilds, EnterRoomBuilds,
         net, feed
<1>3. AliveWhileReading'
  BY DEF SessionInv, AliveWhileReading, EnterRoomBuilds, net
<1>4. (Parsed /\ Arrived)'
  BY FeedKept DEF InFrame
<1> QED
  BY <1>1, <1>2, <1>3, <1>4 DEF SessionInv

(* Taking an event does not.                                               *)
LEMMA TakeKept ==
    ASSUME SessionInv, taken' \in StreamEvents \cup {NoEvent},
           UNCHANGED <<caller, rpc, hpc, half, hbStop, net, feed, result>>
    PROVE  SessionInv'
<1>1. SessionTypeOK'
  BY DEF SessionInv, SessionTypeOK, net, feed, caller
<1>2. (Positions /\ Greeted /\ AliveWhileReading)'
  BY DEF SessionInv, Positions, Greeted, AliveWhileReading,
         HeartbeatBuilds, EnterRoomBuilds, net, feed, caller
<1>3. (Parsed /\ Arrived)'
  BY FeedKept DEF InFrame
<1> QED
  BY <1>1, <1>2, <1>3 DEF SessionInv

(* Every step keeps the invariant.                                         *)
LEMMA Step == IInv /\ [Next]_vars => IInv'
<1> SUFFICES ASSUME IInv, [Next]_vars PROVE IInv'
  OBVIOUS
<1>1. /\ SessionInv /\ Posted
      /\ buf \in Seq(StreamEvents) /\ Len(buf) <= Cap
  BY DEF IInv, TypeOK
<1>2. CASE SessionStep
  <2>1. SessionInv' /\ Posted' /\ buf' \in Seq(StreamEvents) /\ Len(buf') <= Cap
    BY <1>1, <1>2, SessionStepKept
  <2> QED
    BY <2>1 DEF IInv, TypeOK, SessionInv
<1>3. CASE Cancel
  <2>1. SessionInv'
    <3>1. ctxDone' = TRUE /\ taken' = taken
          /\ UNCHANGED <<room, rpc, hpc, half, hbStop, net, feed, result>>
      BY <1>3 DEF Cancel, queue
    <3>2. ctxDone' \in BOOLEAN /\ (ctxDone => ctxDone')
      BY <3>1, Zenon
    <3> QED
      BY <1>1, <3>1, <3>2, CancelKept
  <2>2. Posted' /\ UNCHANGED queue
    BY <1>1, <1>3, PlacesWithFrames, PostedKept DEF Cancel, InFrame
  <2> QED
    BY <1>1, <2>1, <2>2 DEF IInv, TypeOK, SessionInv, queue
<1>4. CASE Take
  <2>1. /\ Head(buf) \in StreamEvents /\ Tail(buf) \in Seq(StreamEvents)
        /\ Len(Tail(buf)) = Len(buf) - 1
        /\ buf # << >> /\ buf' = Tail(buf) /\ taken' = Head(buf)
    BY <1>1, <1>4, HeadTailProperties DEF Take
  <2>2. SessionInv'
    BY <1>1, <1>4, <2>1, TakeKept DEF Take
  <2>3. Posted'
    <3>1. taken' = IF Head(buf).type = "Data" THEN Head(buf) ELSE taken
      BY <2>1, PlacesOfEvents
    <3>2. PlacesKept
      BY <1>4, PlacesWithFrames DEF Take, InFrame
    <3> QED
      BY <1>1, <2>1, <3>1, <3>2, PostedTake
  <2>4. buf' \in Seq(StreamEvents) /\ Len(buf') <= Cap
    BY <1>1, <2>1, LenProperties, CapAssumption
  <2> QED
    BY <2>2, <2>3, <2>4 DEF IInv, TypeOK, SessionInv
<1>5. CASE UNCHANGED vars
  <2>1. SessionInv'
    BY <1>1, <1>5, TakeKept DEF vars, queue, SessionInv, SessionTypeOK
  <2>2. Posted'
    BY <1>1, <1>5, PlacesWithFrames, PostedKept DEF vars, InFrame
  <2> QED
    BY <1>1, <1>5, <2>1, <2>2 DEF IInv, TypeOK, SessionInv, vars, queue
<1> QED
  BY <1>2, <1>3, <1>4, <1>5
     DEF Next, ReaderStep, SessionStep, ControlStep, PlainStep

(* The invariant holds for ever.                                           *)
LEMMA Invariance == SafeSpec => []IInv
BY InitInv, Step, PTL DEF SafeSpec

-----------------------------------------------------------------------------
(* A session keeps its types, and the channel its capacity.                *)
THEOREM Typing == SafeSpec => []TypeOK
<1>1. IInv => TypeOK
  BY DEF IInv
<1> QED
  BY <1>1, Invariance, PTL

(* As long as the loop reads, it is in a room that was entered, and unless *)
(* it is cancelled or its link takes no more writes it has its heartbeat:  *)
(* a room id that only one of the two builders takes ends the session      *)
(* before the goroutine starts.                                            *)
THEOREM HeartbeatKept == SafeSpec => []AliveWhileReading
<1>1. IInv => AliveWhileReading
  BY DEF IInv, SessionInv
<1> QED
  BY <1>1, Invariance, PTL

(* A session that returned has neither a goroutine nor a connection, and   *)
(* no connection was closed under a writer.                                *)
THEOREM Quiet == SafeSpec => []QuietAfterReturn
<1>1. IInv => QuietAfterReturn
  <2> SUFFICES ASSUME IInv PROVE QuietAfterReturn
    OBVIOUS
  <2>1. Positions /\ SessionTypeOK
    BY DEF IInv, SessionInv
  <2> QED
    BY <2>1 DEF Positions, SessionTypeOK, Writers, QuietAfterReturn
<1> QED
  BY <1>1, Invariance, PTL

(* The events before the reader, the one it took last and the channel.     *)
LEMMA StreamShape ==
    ASSUME IInv, NEW i \in 1..Len(<<taken>> \o buf)
    PROVE  /\ Placed((<<taken>> \o buf)[i])
           /\ \A j \in 1..Len(<<taken>> \o buf) : i < j =>
                 Earlier((<<taken>> \o buf)[i].at, (<<taken>> \o buf)[j].at)
<1> DEFINE stream == <<taken>> \o buf
<1>1. buf \in Seq(StreamEvents \cup {NoEvent}) /\ Len(buf) \in Nat
  BY SeqMonotonic, LenProperties DEF IInv, TypeOK
<1>2. <<taken>> \in Seq(StreamEvents \cup {NoEvent}) /\ Len(<<taken>>) = 1
  BY DEF IInv, TypeOK, SessionTypeOK
<1>3. /\ Len(stream) = Len(buf) + 1
      /\ \A k \in 1..Len(stream) :
            stream[k] = IF k = 1 THEN taken ELSE buf[k - 1]
  BY <1>1, <1>2, ConcatProperties
<1>4. \A k \in 1..Len(buf) : buf[k].type = "Data"
  BY ElementOfSeq, PlacesOfEvents DEF IInv, TypeOK
<1>5. /\ Placed(taken)
      /\ \A k \in 1..Len(buf) : /\ Placed(buf[k]) /\ Earlier(taken.at, buf[k].at)
                                /\ \A h \in 1..(k - 1) :
                                      Earlier(buf[h].at, buf[k].at)
  BY <1>1, <1>4 DEF IInv, Posted
<1> HIDE DEF stream
<1>6. Placed(stream[i])
  BY <1>1, <1>3, <1>5 DEF stream
<1>7. ASSUME NEW j \in 1..Len(stream), i < j
      PROVE  Earlier(stream[i].at, stream[j].at)
  <2>1. j - 1 \in 1..Len(buf) /\ stream[j] = buf[j - 1] /\ i \in Nat \ {0}
    BY <1>1, <1>3, <1>7 DEF stream
  <2>2. CASE i = 1
    BY <1>3, <1>5, <2>1, <2>2, <1>1
  <2>3. CASE i # 1
    <3>1. i - 1 \in 1..((j - 1) - 1) /\ stream[i] = buf[i - 1]
      BY <1>1, <1>3, <1>7, <2>1, <2>3 DEF stream
    <3> QED
      BY <1>5, <2>1, <3>1
  <2> QED
    BY <2>2, <2>3
<1> QED
  BY <1>6, <1>7 DEF stream

(* Whatever a full channel costs the reader, the events come in the order  *)
(* the server sent them, and none comes twice.                             *)
THEOREM Ordered == SafeSpec => []EventsInOrder
<1>1. IInv => EventsInOrder
  BY StreamShape DEF EventsInOrder
<1> QED
  BY <1>1, Invariance, PTL

(* No convenience event comes before its raw event.                        *)
THEOREM RawFirst == SafeSpec => []RawComesFirst
<1>1. ASSUME IInv PROVE RawComesFirst
  <2> DEFINE stream == <<taken>> \o buf
  <2>1. SUFFICES ASSUME NEW i \in 1..Len(stream), NEW j \in 1..Len(stream),
                        i < j, stream[i].at[1] = stream[j].at[1],
                        stream[i].at[2] = stream[j].at[2]
                 PROVE  stream[i].what \notin Convenience
    BY DEF RawComesFirst
  <2>2. /\ Placed(stream[i]) /\ Placed(stream[j])
        /\ Earlier(stream[i].at, stream[j].at)
    BY <1>1, <2>1, StreamShape
  <2> HIDE DEF stream
  <2>3. stream[i].at \in Triples /\ stream[j].at \in Triples
    BY <2>2, PlacesOfEvents DEF Placed
  <2>4. stream[j].at[3] <= 2
    BY <2>2 DEF Placed, StreamEvents, NoEvent
  <2>5. stream[i].at[3] # 2
    BY <2>1, <2>2, <2>3, <2>4 DEF Earlier, Triples
  <2> QED
    BY <2>2, <2>5, RawOrConvenient DEF Placed
<1> QED
  BY <1>1, Invariance, PTL

(* No step leaves a frame that is being acknowledged or delivered before   *)
(* all its messages are done, or passes over an event.                     *)
Offered ==
    rpc \in {"ack", "deliver"} =>
       /\ rpc' \in {"ack", "deliver"} \/ next[1] > Len(cur.body)
       /\ next' # next =>
            /\ \/ next' = <<next[1], next[2] + 1>>
               \/ next' = <<next[1] + 1, 1>> /\ next[2] = Len(Decoded)
            /\ Len(buf) < Cap => buf' = Append(buf, Due)

LEMMA DeliverOffers ==
    ASSUME SessionInv, Deliver
    PROVE  Offered
<1>1. /\ cur \in Frames /\ next[1] <= Len(cur.body)
      /\ next[2] <= Len(Decoded) /\ next \in (Nat \ {0}) \X (1..2)
  BY DEF SessionInv, SessionTypeOK, Parsed, InFrame, Deliver
<1>2. Len(Decoded) \in 1..2
  BY <1>1, FrameShape, DecodeShape DEF Decoded
<1>3. \/ next' = <<next[1], next[2] + 1>>
      \/ next' = <<next[1] + 1, 1>> /\ next[2] = Len(Decoded)
  BY <1>1, <1>2 DEF Deliver, NextEvent
<1> QED
  BY <1>3 DEF Deliver, Post, Offered

LEMMA NextOffers ==
    ASSUME SessionInv, Next
    PROVE  Offered
<1> USE DEF feed
<1>1. CASE ReadFrame
  BY <1>1 DEF ReadFrame, Offered
<1>2. CASE Deliver
  BY <1>2, DeliverOffers
<1>3. CASE PlainStep
  BY <1>3 DEF PlainStep, Check, StaleTimeout, ReadFails, ProcessFrame,
              FrameDone, Stop, Join, Tick, HeartbeatStops, LinkDown,
              DialFails, Return, LeaveLoop, Offered
<1>4. CASE DialOpens \/ Greet \/ GreetFails
  BY <1>4 DEF DialOpens, Greet, GreetFails, Return, Offered
<1>5. CASE Ack \/ AckFails
  BY <1>5 DEF Ack, AckFails, Offered
<1>6. CASE Beat \/ BeatFails
  BY <1>6 DEF Beat, BeatFails, Offered
<1>7. CASE ServerSends \/ Cancel \/ Take
  BY <1>7 DEF ServerSends, Cancel, Take, Offered
<1> QED
  BY <1>1, <1>2, <1>3, <1>4, <1>5, <1>6, <1>7 DEF Next, ReaderStep, PlainStep

LEMMA SessionStepOffers ==
    ASSUME SessionInv, SessionStep
    PROVE  Offered
BY NextOffers DEF SessionStep, ControlStep, PlainStep, Next, ReaderStep

(* From the acknowledgement on, every event of a frame is offered to the   *)
(* channel, none passed over, whatever fails in the meantime.              *)
THEOREM Acked == SafeSpec => AckedIsOffered
<1>1. IInv /\ [Next]_vars => [Offered]_vars
  BY NextOffers DEF IInv
<1> QED
  BY <1>1, Invariance, PTL DEF SafeSpec, AckedIsOffered, Offered

=============================================================================
