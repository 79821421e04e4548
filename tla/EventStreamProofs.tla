-------------------------- MODULE EventStreamProofs --------------------------
(***************************************************************************)
(* The abstract stream is well formed for every capacity and retry limit.  *)
(***************************************************************************)
EXTENDS EventStream, SequenceTheorems, TLAPS

Inv == TypeOK /\ StreamWellFormed

(* Events are well typed whatever their numbers.                           *)
LEMMA EventTypesOK ==
    /\ \A t \in EventTypes : Event(t) \in Events
    /\ \A n, d \in Nat : Reconnecting(n, d) \in Events
BY DEF Event, Reconnecting, Events, EventTypes

(* What a post does to the buffer, element by element.                     *)
LEMMA Posting ==
    ASSUME TypeOK, Room, NEW e \in Events
    PROVE  /\ Append(buf, e) \in Seq(Events)
           /\ Len(Append(buf, e)) = Len(buf) + 1
           /\ Len(Append(buf, e)) <= Cap
           /\ \A i \in 1..Len(buf) : Append(buf, e)[i] = buf[i]
           /\ Append(buf, e)[Len(buf) + 1] = e
           /\ Append(buf, e) # << >>
BY AppendProperties, CapAssumption DEF TypeOK, Room

(* Taking the head shifts the rest down.                                   *)
LEMMA Taking ==
    ASSUME TypeOK, buf # << >>
    PROVE  /\ Tail(buf) \in Seq(Events)
           /\ Len(Tail(buf)) = Len(buf) - 1
           /\ Len(Tail(buf)) <= Cap
           /\ \A i \in 1..Len(Tail(buf)) : Tail(buf)[i] = buf[i + 1]
           /\ Head(buf) = buf[1]
           /\ Head(buf) \in Events
           /\ Len(buf) \in Nat \ {0}
<1>1. buf \in Seq(Events) /\ Len(buf) <= Cap /\ Cap \in Nat
  BY CapAssumption DEF TypeOK
<1>2. Len(buf) \in Nat \ {0}
  BY <1>1, EmptySeq, LenProperties
<1>3. /\ Head(buf) \in Events
      /\ Tail(buf) \in Seq(Events)
      /\ Len(Tail(buf)) = Len(buf) - 1
      /\ \A i \in 1..Len(Tail(buf)) : Tail(buf)[i] = buf[i + 1]
  BY <1>1, HeadTailProperties
<1>4. Head(buf) = buf[1]
  BY <1>1
<1>5. Len(buf) - 1 <= Cap
  BY <1>1, <1>2
<1> QED
  BY <1>2, <1>3, <1>4, <1>5

(* A client that has not connected has no stream to be ill-formed.         *)
LEMMA InitInv == Init => Inv
BY CapAssumption DEF Init, Inv, TypeOK, StreamWellFormed, ConnectedFirst,
   DisconnectedLast

(* An ordinary event posted to an open stream leaves it well formed.       *)
LEMMA PostKeepsInv ==
    ASSUME Inv, Room, status = "open",
           NEW e \in Events, e.type \in {"Data", "Reconnecting"},
           buf' = Append(buf, e), retryNo' \in Nat,
           UNCHANGED <<status, seen, cancelled>>
    PROVE  Inv'
<1> USE DEF Inv
<1>1. /\ buf' \in Seq(Events)
      /\ Len(buf') = Len(buf) + 1 /\ Len(buf') <= Cap
      /\ \A i \in 1..Len(buf) : buf'[i] = buf[i]
      /\ buf'[Len(buf) + 1] = e /\ buf' # << >>
  BY Posting
<1>2. Len(buf) \in Nat
  BY LenProperties DEF TypeOK
<1>3. TypeOK'
  BY <1>1 DEF TypeOK
<1>4. ConnectedFirst'
  BY <1>1, <1>2 DEF TypeOK, StreamWellFormed, ConnectedFirst
<1>5. DisconnectedLast'
  BY <1>1, <1>2 DEF TypeOK, StreamWellFormed, DisconnectedLast
<1> QED
  BY <1>3, <1>4, <1>5 DEF StreamWellFormed

(* Every step keeps the types and the shape of the stream.                 *)
LEMMA Step == Inv /\ [Next]_vars => Inv'
<1> SUFFICES ASSUME Inv, [Next]_vars
             PROVE  Inv'
  OBVIOUS
<1> USE DEF Inv
<1> USE CapAssumption
<1>1. CASE Open
  <2>1. Event("Connected") \in Events
    BY EventTypesOK DEF EventTypes
  <2>2. buf' \in Seq(Events) /\ Len(buf') = 1 /\ buf'[1] = Event("Connected")
    BY <1>1, <2>1 DEF Open
  <2>3. TypeOK'
    BY <1>1, <2>2 DEF TypeOK, Open
  <2>4. StreamWellFormed'
    BY <1>1, <2>2 DEF TypeOK, Open, StreamWellFormed, ConnectedFirst,
       DisconnectedLast, Event
  <2> QED
    BY <2>3, <2>4
<1>2. CASE PostData
  <2>1. /\ Event("Data") \in Events
        /\ Event("Data").type \in {"Data", "Reconnecting"}
    BY EventTypesOK DEF EventTypes, Event
  <2>2. /\ Room /\ status = "open" /\ retryNo' \in Nat
        /\ buf' = Append(buf, Event("Data"))
        /\ UNCHANGED <<status, seen, cancelled>>
    BY <1>2 DEF PostData, TypeOK
  <2> QED
    BY <2>1, <2>2, PostKeepsInv
<1>3. CASE PostReconnecting
  <2>1. PICK n \in {1, retryNo + 1}, d \in DeviceBlockedDelay..MaxBackoff :
           buf' = Append(buf, Reconnecting(n, d)) /\ retryNo' = n
    BY <1>3 DEF PostReconnecting
  <2>2. n \in Nat /\ d \in Nat
    BY DEF TypeOK, DeviceBlockedDelay, MaxBackoff
  <2>3. /\ Reconnecting(n, d) \in Events
        /\ Reconnecting(n, d).type \in {"Data", "Reconnecting"}
    BY <2>2, EventTypesOK DEF Reconnecting
  <2>4. /\ Room /\ status = "open" /\ retryNo' \in Nat
        /\ UNCHANGED <<status, seen, cancelled>>
    BY <1>3, <2>1, <2>2 DEF PostReconnecting
  <2> QED
    BY <2>1, <2>3, <2>4, PostKeepsInv
<1>4. CASE End
  <2>1. CASE Room /\ buf' = Append(buf, Event("Disconnected"))
    <3> DEFINE e == Event("Disconnected")
    <3>1. e \in Events /\ e.type = "Disconnected"
      BY EventTypesOK DEF EventTypes, Event
    <3>2. /\ buf' \in Seq(Events)
          /\ Len(buf') = Len(buf) + 1 /\ Len(buf') <= Cap
          /\ \A i \in 1..Len(buf) : buf'[i] = buf[i]
          /\ buf'[Len(buf) + 1] = e /\ buf' # << >>
      BY <2>1, <3>1, Posting
    <3>3. TypeOK'
      BY <1>4, <3>2 DEF TypeOK, End
    <3>4. ConnectedFirst'
      BY <1>4, <3>1, <3>2 DEF TypeOK, End, StreamWellFormed, ConnectedFirst
    <3>5. DisconnectedLast'
      BY <1>4, <3>1, <3>2 DEF TypeOK, End, StreamWellFormed, DisconnectedLast
    <3> QED
      BY <3>3, <3>4, <3>5 DEF StreamWellFormed
  <2>2. CASE UNCHANGED buf
    BY <1>4, <2>2 DEF End, TypeOK, StreamWellFormed, ConnectedFirst,
       DisconnectedLast
  <2> QED
    BY <1>4, <2>1, <2>2 DEF End
<1>5. CASE Close
  BY <1>5 DEF Close, TypeOK, StreamWellFormed, ConnectedFirst,
     DisconnectedLast
<1>6. CASE Receive
  <2>1. /\ buf # << >> /\ seen' = buf[1].type /\ buf[1] \in Events
        /\ buf' \in Seq(Events) /\ Len(buf') = Len(buf) - 1
        /\ Len(buf') <= Cap /\ Len(buf) \in Nat \ {0}
        /\ \A i \in 1..Len(buf') : buf'[i] = buf[i + 1]
    BY <1>6, Taking DEF Receive
  <2>. DEFINE L == Len(buf) M == Len(buf')
  <2>0. L \in Nat /\ M \in Nat /\ L = M + 1 /\ 1 \in 1..L
    BY <2>1
  <2>9. UNCHANGED status
    BY <1>6 DEF Receive
  <2>2. buf[1].type \in EventTypes /\ seen' # "none"
    BY <2>1 DEF Events, EventTypes
  <2>3. TypeOK'
    BY <1>6, <2>1, <2>2 DEF TypeOK, Receive
  <2>4. ConnectedFirst'
    BY <1>6, <2>1, <2>2
       DEF TypeOK, Receive, StreamWellFormed, ConnectedFirst
  <2>5. DisconnectedLast'
    <3>1. ASSUME NEW i \in 1..Len(buf'), buf'[i].type = "Disconnected"
          PROVE  i = Len(buf') /\ status' \in {"ended", "closed"}
      <4>1. i \in Int /\ i + 1 \in 1..L /\ buf[i + 1].type = "Disconnected"
        BY <2>0, <2>1, <3>1
      <4>2. i + 1 = L /\ status \in {"ended", "closed"}
        BY <4>1 DEF StreamWellFormed, DisconnectedLast
      <4>3. i = M
        BY <2>0, <4>1, <4>2
      <4> QED
        BY <2>9, <4>2, <4>3
    <3>2. ASSUME seen' = "Disconnected"
          PROVE  buf' = << >> /\ status' \in {"ended", "closed"}
      <4>0. buf[1].type = "Disconnected"
        BY <2>1, <3>2
      <4>1. 1 = L /\ status \in {"ended", "closed"}
        BY <2>0, <4>0 DEF StreamWellFormed, DisconnectedLast
      <4>2. Len(buf') = 0
        BY <2>0, <4>1
      <4> QED
        BY <1>6, <2>1, <4>1, <4>2, EmptySeq DEF Receive
    <3> QED
      BY <3>1, <3>2 DEF DisconnectedLast
  <2> QED
    BY <2>3, <2>4, <2>5 DEF StreamWellFormed
<1>7. CASE Cancel
  BY <1>7 DEF Cancel, TypeOK, StreamWellFormed, ConnectedFirst,
     DisconnectedLast
<1>8. CASE UNCHANGED vars
  BY <1>8 DEF vars, TypeOK, StreamWellFormed, ConnectedFirst,
     DisconnectedLast
<1> QED
  BY <1>1, <1>2, <1>3, <1>4, <1>5, <1>6, <1>7, <1>8 DEF Next

(* The channel never holds more than its capacity.                         *)
THEOREM Typed == SafeSpec => []TypeOK
<1>1. Init => Inv
  BY InitInv
<1>2. Inv /\ [Next]_vars => Inv'
  BY Step
<1>3. Inv => TypeOK
  BY DEF Inv
<1> QED
  BY <1>1, <1>2, <1>3, PTL DEF SafeSpec

(* Connected is first, Disconnected last, and each comes once at most.     *)
THEOREM WellFormed == SafeSpec => []StreamWellFormed
<1>1. Init => Inv
  BY InitInv
<1>2. Inv /\ [Next]_vars => Inv'
  BY Step
<1>3. Inv => StreamWellFormed
  BY DEF Inv
<1> QED
  BY <1>1, <1>2, <1>3, PTL DEF SafeSpec

=============================================================================
